--------------------------- MODULE PoolConnection ---------------------------
(***************************************************************************)
(* How mining goes on when pools die: the stratum_rthread of every pool,   *)
(* which holds its connection only while cnx_needed and otherwise sleeps   *)
(* on lp_cond in wait_lpcurrent; the main scheduler, which makes work from *)
(* the current pool or calls switch_pools until there is a usable one;     *)
(* watchpool; and the miner threads, which raise no_work when they starve. *)
(*                                                                         *)
(* wait_lpcurrent tests its condition without lp_lock, so the broadcast of *)
(* switch_pools can fall between the test and the wait and be lost.        *)
(*                                                                         *)
(* Failover among enabled pools of fixed priority; no pool has shares      *)
(* waiting for an answer.  Staged work is abstracted to the set of pools   *)
(* it comes from.  The priority of p is the number Prio[p].                *)
(***************************************************************************)
EXTENDS Naturals, FiniteSets

CONSTANTS
    Pool,
    Prio,
    Unsteady        \* the pools whose server may die (and return)

ASSUME UnsteadyAssumption == Unsteady \subseteq Pool

ASSUME PrioAssumption ==
    /\ Prio \in [Pool -> Nat]
    /\ \A p, q \in Pool : Prio[p] = Prio[q] => p = q

VARIABLES
    \* the network
    up,             \* the pool's server can be reached
    broken,         \* the connection is dead, which the rthread has yet to notice
    \* pools
    idle,
    conn,           \* "closed", "open" (stratum_active) or "notified" (and stratum_notify)
    current,        \* currentpool
    \* threads
    rpc,            \* the rthreads
    mpc,            \* the main scheduler
    wpc,            \* watchpool_thread
    \* work
    staged,         \* the pools of the staged work
    no_work

netVars == <<up, broken>>
vars == <<up, broken, idle, conn, current, rpc, mpc, wpc, staged, no_work>>

RLabel == {"check", "suspend", "decide", "sleep", "wait", "restart", "broadcast", "select"}

Usable(p) == ~idle[p] /\ conn[p] = "notified"

Init ==
    /\ up = [p \in Pool |-> TRUE] /\ broken = [p \in Pool |-> FALSE]
    /\ idle = [p \in Pool |-> FALSE] /\ conn = [p \in Pool |-> "open"]
    /\ current \in Pool
    /\ rpc = [p \in Pool |-> "check"] /\ mpc = "top" /\ wpc = "rest"
    /\ staged = {} /\ no_work = FALSE

-----------------------------------------------------------------------------
(* switch_pools(NULL) and cnx_needed.                                      *)

\* The choice of the current pool.  A switch clears the staged work of the
\* pool that was left.
Switch(usable) ==
    LET next == IF usable = {} THEN current
                ELSE CHOOSE p \in usable : \A q \in usable : Prio[p] <= Prio[q]
    IN  /\ current' = next
        /\ staged' = IF next # current THEN staged \ {current} ELSE staged

\* The broadcast that ends switch_pools, whether or not the pool has changed.
Broadcast(pcs) == rpc' = [p \in Pool |-> IF pcs[p] = "wait" THEN "decide" ELSE pcs[p]]

UsablePools == {p \in Pool : Usable(p)}

NoWorkIgnored(p) == idle[p] \/ current = p \/ Prio[p] < Prio[current]

cnx_needed(p) ==
    \/ idle[p]
    \/ current = p
    \/ Prio[p] < Prio[current]
    \/ no_work

-----------------------------------------------------------------------------
(* stratum_rthread of pool p.                                              *)

RGoto(p, from, to) == rpc[p] = from /\ rpc' = [rpc EXCEPT ![p] = to]

\* Top of the loop: is the connection needed, or has data come (sock_full)?
RCheck(p) ==
    /\ \/ RGoto(p, "check", IF cnx_needed(p) THEN "select" ELSE "suspend")
       \/ RGoto(p, "check", "select")
    /\ UNCHANGED <<netVars, idle, conn, current, mpc, wpc, staged, no_work>>

\* One that trusts the answer it got before it closed the connection.
RSuspendSleeps(p) ==
    /\ RGoto(p, "suspend", "sleep")
    /\ conn' = [conn EXCEPT ![p] = "closed"]
    /\ staged' = staged \ {p}
    /\ UNCHANGED <<netVars, idle, current, mpc, wpc, no_work>>

\* It was not: suspend_stratum, clear_pool_work.
RSuspend(p) ==
    /\ RGoto(p, "suspend", "decide")
    /\ conn' = [conn EXCEPT ![p] = "closed"]
    /\ staged' = staged \ {p}
    /\ UNCHANGED <<netVars, idle, current, mpc, wpc, no_work>>

\* wait_lpcurrent: the test, and separately the wait.
RDecide(p) ==
    /\ RGoto(p, "decide", IF cnx_needed(p) THEN "restart" ELSE "sleep")
    /\ UNCHANGED <<netVars, idle, conn, current, mpc, wpc, staged, no_work>>

RSleep(p) ==
    /\ RGoto(p, "sleep", "wait")
    /\ UNCHANGED <<netVars, idle, conn, current, mpc, wpc, staged, no_work>>

\* restart_stratum succeeds: the pool is no longer idle.  After wait_lpcurrent the
\* rthread goes on to select, after a lost connection to the top of its loop.
RRestart(p) ==
    /\ up[p]
    /\ RGoto(p, "restart", "select") \/ RGoto(p, "restart", "check")
    /\ conn' = [conn EXCEPT ![p] = "open"]
    /\ broken' = [broken EXCEPT ![p] = FALSE]
    /\ idle' = [idle EXCEPT ![p] = FALSE]
    /\ UNCHANGED <<up, current, mpc, wpc, staged, no_work>>

\* It fails: pool_died, with a switch when the pool became idle while current.
RDied(p) ==
    /\ ~up[p] /\ rpc[p] = "restart"
    /\ conn' = [conn EXCEPT ![p] = "closed"]
    /\ idle' = [idle EXCEPT ![p] = TRUE]
    /\ IF ~idle[p] /\ p = current
       THEN rpc' = [rpc EXCEPT ![p] = "broadcast"] /\ Switch(UsablePools \ {p})
       ELSE UNCHANGED <<rpc, current, staged>>
    /\ UNCHANGED <<netVars, mpc, wpc, no_work>>

RBroadcast(p) ==
    /\ rpc[p] = "broadcast"
    /\ Broadcast([rpc EXCEPT ![p] = "restart"])
    /\ UNCHANGED <<netVars, idle, conn, current, mpc, wpc, staged, no_work>>

\* A message arrives; the first notify makes the pool usable.
RMessage(p) ==
    /\ ~broken[p]
    /\ RGoto(p, "select", "check")
    /\ conn' = [conn EXCEPT ![p] = "notified"]
    /\ idle' = [idle EXCEPT ![p] = FALSE]
    /\ UNCHANGED <<netVars, current, mpc, wpc, staged, no_work>>

\* The connection is found to be dead (at the latest after 90 s).
RLost(p) ==
    /\ broken[p]
    /\ RGoto(p, "select", "restart")
    /\ conn' = [conn EXCEPT ![p] = "closed"]
    /\ staged' = staged \ {p}
    /\ UNCHANGED <<netVars, idle, current, mpc, wpc, no_work>>

RThread(p) ==
    \/ RCheck(p) \/ RSuspend(p) \/ RDecide(p) \/ RSleep(p) \/ RRestart(p) \/ RDied(p) \/ RBroadcast(p)
    \/ RMessage(p) \/ RLost(p)

-----------------------------------------------------------------------------
(* The main scheduler.                                                     *)

MGoto(from, to) == mpc = from /\ mpc' = to

\* More work is wanted when nothing is staged (hash_pop signals gws_cond).
MTop ==
    /\ staged = {}
    /\ MGoto("top", "pool")
    /\ UNCHANGED <<netVars, idle, conn, current, rpc, wpc, staged, no_work>>

\* The current pool is usable: work is made from it and staged.
MStage ==
    /\ Usable(current)
    /\ MGoto("pool", "top")
    /\ staged' = staged \cup {current}
    /\ UNCHANGED <<netVars, idle, conn, current, rpc, wpc, no_work>>

\* It is not: switch_pools(NULL), again and again.
MSwitch ==
    /\ ~Usable(current)
    /\ MGoto("pool", "broadcast")
    /\ Switch(UsablePools)
    /\ UNCHANGED <<netVars, idle, conn, rpc, wpc, no_work>>

MBroadcast ==
    /\ MGoto("broadcast", "pool")
    /\ Broadcast(rpc)
    /\ UNCHANGED <<netVars, idle, conn, current, wpc, staged, no_work>>

Scheduler == MTop \/ MStage \/ MSwitch \/ MBroadcast

-----------------------------------------------------------------------------
(* watchpool_thread, miner threads, the network.                           *)

\* A round of watchpool first clears the idle flag of the pools whose connection
\* is up (pool_active).
WClearIdle ==
    /\ wpc = "rest" /\ wpc' = "test"
    /\ idle' = [p \in Pool |-> idle[p] /\ conn[p] = "closed"]
    /\ UNCHANGED <<netVars, conn, current, rpc, mpc, staged, no_work>>

\* Then it switches when the current pool is idle, or a better one is connected
\* (and has been for opt_pool_fallback seconds, here no time at all).
BetterIsAlive == \E p \in Pool : ~idle[p] /\ conn[p] # "closed" /\ Prio[p] < Prio[current]

\* A watchpool that switches only when the current pool is idle.
WTestIdle ==
    /\ wpc = "test"
    /\ IF idle[current]
       THEN wpc' = "broadcast" /\ Switch(UsablePools)
       ELSE wpc' = "rest" /\ UNCHANGED <<current, staged>>
    /\ UNCHANGED <<netVars, idle, conn, rpc, mpc, no_work>>

WTest ==
    /\ wpc = "test"
    /\ IF idle[current] \/ BetterIsAlive
       THEN wpc' = "broadcast" /\ Switch(UsablePools)
       ELSE wpc' = "rest" /\ UNCHANGED <<current, staged>>
    /\ UNCHANGED <<netVars, idle, conn, rpc, mpc, no_work>>

WBroadcast ==
    /\ wpc = "broadcast" /\ wpc' = "rest"
    /\ Broadcast(rpc)
    /\ UNCHANGED <<netVars, idle, conn, current, mpc, staged, no_work>>

Watchpool == WClearIdle \/ WTest \/ WBroadcast

\* hash_pop takes a work, or times out.
Pop ==
    /\ \E p \in staged : staged' = staged \ {p}
    /\ no_work' = FALSE
    /\ UNCHANGED <<netVars, idle, conn, current, rpc, mpc, wpc>>

PopTimesOut ==
    /\ staged = {} /\ ~no_work
    /\ no_work' = TRUE
    /\ UNCHANGED <<netVars, idle, conn, current, rpc, mpc, wpc, staged>>

Miner == Pop \/ PopTimesOut

ServerDies(p) ==
    /\ p \in Unsteady /\ up[p]
    /\ up' = [up EXCEPT ![p] = FALSE]
    /\ broken' = [broken EXCEPT ![p] = conn[p] # "closed"]
    /\ UNCHANGED <<idle, conn, current, rpc, mpc, wpc, staged, no_work>>

ServerReturns(p) ==
    /\ ~up[p]
    /\ up' = [up EXCEPT ![p] = TRUE]
    /\ UNCHANGED <<broken, idle, conn, current, rpc, mpc, wpc, staged, no_work>>

Next ==
    \/ \E p \in Pool : RThread(p) \/ ServerDies(p) \/ ServerReturns(p)
    \/ Scheduler \/ Watchpool \/ Miner

\* Every thread runs on, miners always want work, and a reachable pool sends a
\* notify at least every minute; the servers may die and return at will.
Fairness ==
    /\ \A p \in Pool : WF_vars(RThread(p))
    /\ WF_vars(Scheduler) /\ WF_vars(Watchpool) /\ WF_vars(Miner)

Spec == Init /\ [][Next]_vars /\ Fairness

-----------------------------------------------------------------------------
(* Properties.                                                             *)

TypeOK ==
    /\ up \in [Pool -> BOOLEAN] /\ broken \in [Pool -> BOOLEAN]
    /\ idle \in [Pool -> BOOLEAN]
    /\ conn \in [Pool -> {"closed", "open", "notified"}]
    /\ current \in Pool
    /\ rpc \in [Pool -> RLabel]
    /\ mpc \in {"top", "pool", "broadcast"} /\ wpc \in {"rest", "test", "broadcast"}
    /\ staged \subseteq Pool /\ no_work \in BOOLEAN

\* The rthread of the current pool never sleeps in wait_lpcurrent: a pool is made
\* current only while it is connected, and its rthread asks once more whether it
\* is needed between closing the connection and sleeping.
CurrentIsServed == rpc[current] \notin {"sleep", "wait"}

\* The types, and whose thread is awake.
ConnectionInv == TypeOK /\ CurrentIsServed

\* In the end every server stays reachable or stays unreachable.
NetworkSettles == \A p \in Pool : <>[]up[p] \/ <>[]~up[p]

\* Once the network settles with some server reachable, the miners never starve
\* for good: whatever backup pools were asleep in wait_lpcurrent, and whichever
\* broadcasts they missed, one is connected again and mined for.
MinersGetWork ==
    NetworkSettles =>
        \A p \in Pool : <>[]up[p] => []<>(\E q \in staged : Usable(q))

\* A pool of the best priority that stays reachable is the current one in the end,
\* after however many failures (failback).
FailsBack ==
    \A p \in Pool : (\A q \in Pool : Prio[p] <= Prio[q]) => (<>[]up[p] => <>[](current = p))
=============================================================================
