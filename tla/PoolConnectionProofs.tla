------------------------- MODULE PoolConnectionProofs -------------------------
(***************************************************************************)
(* Type correctness of the connections, and that the rthread of the        *)
(* current pool does not sleep, for any set of pools with any priorities.  *)
(***************************************************************************)
EXTENDS PoolConnection, NumberLemmas

\* An rthread has closed its connection before it may sleep, and opens it when it is
\* through with sleeping.  So no pool whose rthread is on the way can be switched to.
Closed(p) ==
    rpc[p] \in {"decide", "sleep", "wait", "restart", "broadcast"} => conn[p] = "closed"

AwakeInv == ConnectionInv /\ \A p \in Pool : Closed(p)

\* A switch finds the best of the usable pools, or stays.
LEMMA SwitchStays ==
    ASSUME TypeOK, NEW usable, usable \subseteq Pool, Switch(usable)
    PROVE  /\ current' \in usable \/ current' = current
           /\ current' \in Pool /\ staged' \subseteq Pool
<1>1. CASE usable = {}
  BY <1>1 DEF Switch, TypeOK
<1>2. CASE usable # {}
  <2>1. {Prio[p] : p \in usable} \subseteq Nat
    BY PrioAssumption
  <2>2. PICK x \in {Prio[p] : p \in usable} : \A y \in {Prio[p] : p \in usable} : x <= y
    BY <1>2, <2>1, LeastNat
  <2>3. \E p \in usable : \A q \in usable : Prio[p] <= Prio[q]
    BY <2>2
  <2>4. (CHOOSE p \in usable : \A q \in usable : Prio[p] <= Prio[q]) \in usable
    BY <2>3
  <2>5. current' \in usable
    BY <1>2, <2>4 DEF Switch
  <2>6. QED
    BY <2>5 DEF Switch, TypeOK
<1>3. QED
  BY <1>1, <1>2

LEMMA UsableIsAwake ==
    ASSUME AwakeInv, NEW p \in UsablePools
    PROVE  p \in Pool /\ rpc[p] \notin {"sleep", "wait"}
  BY DEF AwakeInv, Closed, UsablePools, Usable

\* A broadcast wakes whoever waits, and changes nobody else.
LEMMA BroadcastWakes ==
    ASSUME AwakeInv, NEW pcs \in [Pool -> RLabel], Broadcast(pcs),
           \A p \in Pool : pcs[p] = rpc[p] \/ (rpc[p] = "broadcast" /\ pcs[p] = "restart"),
           UNCHANGED <<conn, current>>
    PROVE  /\ rpc' \in [Pool -> RLabel]
           /\ CurrentIsServed' /\ \A p \in Pool : Closed(p)'
<1> USE DEF AwakeInv, ConnectionInv
<1>1. rpc' \in [Pool -> RLabel] /\ \A p \in Pool : rpc'[p] = IF pcs[p] = "wait" THEN "decide" ELSE pcs[p]
  BY DEF Broadcast, RLabel
<1>2. CurrentIsServed'
  BY <1>1 DEF CurrentIsServed, TypeOK
<1>3. \A p \in Pool : Closed(p)'
  BY <1>1 DEF Closed
<1>4. QED
  BY <1>1, <1>2, <1>3

LEMMA InitAwakeInv ==
    ASSUME Init
    PROVE  AwakeInv
  BY DEF Init, AwakeInv, ConnectionInv, TypeOK, CurrentIsServed, Closed, RLabel

\* The steps of an rthread that leave the current pool alone.
LEMMA RThreadStep ==
    ASSUME AwakeInv, NEW p \in Pool,
           \/ RCheck(p) \/ RSuspend(p) \/ RDecide(p) \/ RSleep(p)
           \/ RRestart(p) \/ RMessage(p) \/ RLost(p)
    PROVE  AwakeInv'
<1> USE DEF AwakeInv, ConnectionInv, netVars, RGoto
<1>1. UNCHANGED <<current, mpc, wpc, no_work, up>> /\ staged' \subseteq Pool
  BY DEF RCheck, RSuspend, RDecide, RSleep, RRestart, RMessage, RLost, TypeOK
<1>2. /\ idle' \in [Pool -> BOOLEAN] /\ broken' \in [Pool -> BOOLEAN]
      /\ conn' \in [Pool -> {"closed", "open", "notified"}]
  BY DEF RCheck, RSuspend, RDecide, RSleep, RRestart, RMessage, RLost, TypeOK
<1>3. /\ rpc' \in [Pool -> RLabel]
      /\ \A q \in Pool \ {p} : rpc'[q] = rpc[q] /\ conn'[q] = conn[q]
  BY DEF RCheck, RSuspend, RDecide, RSleep, RRestart, RMessage, RLost, TypeOK, RLabel
<1>4. TypeOK'
  BY <1>1, <1>2, <1>3 DEF TypeOK
<1>5. Closed(p)' /\ (rpc'[p] \in {"sleep", "wait"} => p # current)
  <2>1. CASE RCheck(p)
    BY <2>1 DEF RCheck, Closed, TypeOK
  <2>2. CASE RSuspend(p)
    BY <2>2 DEF RSuspend, Closed, TypeOK
  <2>3. CASE RDecide(p)
    BY <2>3 DEF RDecide, Closed, TypeOK, cnx_needed
  <2>4. CASE RSleep(p)
    BY <2>4 DEF RSleep, Closed, TypeOK, CurrentIsServed
  <2>5. CASE RRestart(p)
    BY <2>5 DEF RRestart, Closed, TypeOK
  <2>6. CASE RMessage(p)
    BY <2>6 DEF RMessage, Closed, TypeOK
  <2>7. CASE RLost(p)
    BY <2>7 DEF RLost, Closed, TypeOK
  <2>8. QED
    BY <2>1, <2>2, <2>3, <2>4, <2>5, <2>6, <2>7
<1>6. \A q \in Pool : Closed(q)'
  BY <1>3, <1>5 DEF Closed
<1>7. CurrentIsServed'
  BY <1>1, <1>3, <1>5 DEF CurrentIsServed, TypeOK
<1>8. QED
  BY <1>4, <1>6, <1>7

\* pool_died, which may switch.
LEMMA DiedStep ==
    ASSUME AwakeInv, NEW p \in Pool, RDied(p)
    PROVE  AwakeInv'
<1> USE DEF AwakeInv, ConnectionInv, netVars
<1>1. /\ UNCHANGED <<up, broken, mpc, wpc, no_work>>
      /\ rpc[p] = "restart" /\ conn' = [conn EXCEPT ![p] = "closed"]
      /\ idle' = [idle EXCEPT ![p] = TRUE]
  BY DEF RDied
<1>2. CASE ~idle[p] /\ p = current
  <2>1. rpc' = [rpc EXCEPT ![p] = "broadcast"] /\ Switch(UsablePools \ {p})
    BY <1>2 DEF RDied
  <2>2. /\ current' \in UsablePools \/ current' = current
        /\ current' \in Pool /\ staged' \subseteq Pool
    BY <2>1, SwitchStays DEF UsablePools
  <2>3. rpc[current'] \notin {"sleep", "wait"}
    BY <2>2, UsableIsAwake DEF CurrentIsServed
  <2>4. TypeOK'
    BY <1>1, <2>1, <2>2 DEF TypeOK, RLabel
  <2>5. CurrentIsServed'
    BY <2>1, <2>2, <2>3 DEF CurrentIsServed, TypeOK
  <2>6. \A q \in Pool : Closed(q)'
    BY <1>1, <2>1 DEF Closed, TypeOK
  <2>7. QED
    BY <2>4, <2>5, <2>6
<1>3. CASE ~(~idle[p] /\ p = current)
  <2>1. UNCHANGED <<rpc, current, staged>>
    BY <1>3 DEF RDied
  <2>2. TypeOK' /\ CurrentIsServed'
    BY <1>1, <2>1 DEF TypeOK, CurrentIsServed
  <2>3. \A q \in Pool : Closed(q)'
    BY <1>1, <2>1 DEF Closed, TypeOK
  <2>4. QED
    BY <2>2, <2>3
<1>4. QED
  BY <1>2, <1>3

\* The other switches, by the main scheduler and by watchpool.
LEMMA SwitchStep ==
    ASSUME AwakeInv, MSwitch \/ WTest
    PROVE  AwakeInv'
<1> USE DEF AwakeInv, ConnectionInv, netVars
<1>1. /\ UNCHANGED <<up, broken, idle, conn, rpc, no_work>>
      /\ mpc' \in {"top", "pool", "broadcast"} /\ wpc' \in {"rest", "test", "broadcast"}
  BY DEF MSwitch, WTest, MGoto, TypeOK
<1>2. Switch(UsablePools) \/ UNCHANGED <<current, staged>>
  BY DEF MSwitch, WTest
<1>3. /\ current' \in UsablePools \/ current' = current
      /\ current' \in Pool /\ staged' \subseteq Pool
  BY <1>2, SwitchStays DEF UsablePools, TypeOK
<1>4. rpc[current'] \notin {"sleep", "wait"}
  BY <1>3, UsableIsAwake DEF CurrentIsServed
<1>5. QED
  BY <1>1, <1>3, <1>4 DEF TypeOK, CurrentIsServed, Closed

LEMMA BroadcastStep ==
    ASSUME AwakeInv, MBroadcast \/ WBroadcast \/ \E p \in Pool : RBroadcast(p)
    PROVE  AwakeInv'
<1> USE DEF AwakeInv, ConnectionInv, netVars
<1>1. /\ UNCHANGED <<up, broken, idle, conn, current, staged, no_work>>
      /\ mpc' \in {"top", "pool", "broadcast"} /\ wpc' \in {"rest", "test", "broadcast"}
  BY DEF MBroadcast, WBroadcast, RBroadcast, MGoto, TypeOK
<1>2. CASE MBroadcast \/ WBroadcast
  <2>1. Broadcast(rpc)
    BY <1>2 DEF MBroadcast, WBroadcast
  <2>2. QED
    BY <1>1, <2>1, BroadcastWakes DEF TypeOK
<1>3. ASSUME NEW p \in Pool, RBroadcast(p)
      PROVE  AwakeInv'
  <2>1. Broadcast([rpc EXCEPT ![p] = "restart"]) /\ rpc[p] = "broadcast"
    BY <1>3 DEF RBroadcast
  <2>2. [rpc EXCEPT ![p] = "restart"] \in [Pool -> RLabel]
    BY DEF TypeOK, RLabel
  <2>3. \A q \in Pool : \/ [rpc EXCEPT ![p] = "restart"][q] = rpc[q]
                        \/ rpc[q] = "broadcast" /\ [rpc EXCEPT ![p] = "restart"][q] = "restart"
    BY <2>1 DEF TypeOK
  <2>4. rpc' \in [Pool -> RLabel] /\ CurrentIsServed' /\ \A q \in Pool : Closed(q)'
    BY <1>1, <2>1, <2>2, <2>3, BroadcastWakes
  <2>5. QED
    BY <1>1, <2>4 DEF TypeOK
<1>4. QED
  BY <1>2, <1>3

\* What touches neither the rthreads nor the current pool, nor opens a connection.
LEMMA OtherStep ==
    ASSUME AwakeInv,
           \/ MTop \/ MStage \/ WClearIdle \/ Miner
           \/ \E p \in Pool : ServerDies(p) \/ ServerReturns(p)
    PROVE  AwakeInv'
<1> USE DEF AwakeInv, ConnectionInv, netVars
<1>1. UNCHANGED <<conn, current, rpc>>
  BY DEF MTop, MStage, WClearIdle, Miner, Pop, PopTimesOut, ServerDies, ServerReturns
<1>2. CurrentIsServed' /\ \A p \in Pool : Closed(p)'
  BY <1>1 DEF CurrentIsServed, Closed
<1>3. CASE MTop \/ MStage \/ WClearIdle \/ Miner
  <2>1. /\ UNCHANGED <<up, broken>> /\ idle' \in [Pool -> BOOLEAN]
        /\ mpc' \in {"top", "pool", "broadcast"} /\ wpc' \in {"rest", "test", "broadcast"}
        /\ staged' \subseteq Pool /\ no_work' \in BOOLEAN
    BY <1>3 DEF MTop, MStage, WClearIdle, Miner, Pop, PopTimesOut, MGoto, TypeOK
  <2>2. TypeOK'
    BY <1>1, <2>1 DEF TypeOK
  <2>3. QED
    BY <1>2, <2>2
<1>4. ASSUME NEW p \in Pool, ServerDies(p) \/ ServerReturns(p)
      PROVE  TypeOK'
  BY <1>1, <1>4 DEF ServerDies, ServerReturns, TypeOK
<1>5. QED
  BY <1>2, <1>3, <1>4

LEMMA NextAwakeInv ==
    ASSUME AwakeInv, [Next]_vars
    PROVE  AwakeInv'
<1>1. CASE Next
  BY <1>1, RThreadStep, DiedStep, SwitchStep, BroadcastStep, OtherStep
     DEF Next, RThread, Scheduler, Watchpool
<1>2. CASE UNCHANGED vars
  BY <1>2 DEF vars, AwakeInv, ConnectionInv, TypeOK, CurrentIsServed, Closed
<1>3. QED
  BY <1>1, <1>2

\* For any pools and priorities, and whatever the servers do, the rthread of the
\* current pool does not sleep on lp_cond; and the types are right.
THEOREM CurrentIsAwake == Spec => []ConnectionInv
<1>1. Init => AwakeInv
  BY InitAwakeInv
<1>2. AwakeInv /\ [Next]_vars => AwakeInv'
  BY NextAwakeInv
<1>3. AwakeInv => ConnectionInv
  BY DEF AwakeInv
<1>4. QED
  BY <1>1, <1>2, <1>3, PTL DEF Spec
=============================================================================
