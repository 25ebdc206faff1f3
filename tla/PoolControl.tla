----------------------------- MODULE PoolControl -----------------------------
(***************************************************************************)
(* The list of pools and the pool cgminer mines on.  switch_pools chooses  *)
(* currentpool under control_lock, for the API thread and for every other  *)
(* thread that finds a reason to (pool_died, share_result, watchpool,      *)
(* test_pool_thread, the main scheduler); the API thread's commands        *)
(* enable, disable, reorder, add and remove pools, one command at a time   *)
(* but with no lock, so the other threads run between their steps.         *)
(*                                                                         *)
(* pools[i-1] of the code is pools[i] here; pool numbers and priorities    *)
(* start at 0 as in the code.                                              *)
(***************************************************************************)
EXTENDS Integers, Sequences, FiniteSets, Functions

CONSTANTS
    Pool,           \* every struct pool there may ever be
    None,
    Strategies,     \* the values of pool_strategy to consider
    MaxEnabled      \* bound on enabled_pools, which has none in the code

ASSUME PoolControlAssumption ==
    /\ IsFiniteSet(Pool) /\ None \notin Pool
    /\ Strategies \subseteq {"FAILOVER", "ROUNDROBIN", "ROTATE", "BALANCE", "LOADBALANCE"}

VARIABLES
    pool_strategy,  \* an option: no thread changes it
    pools,          \* pools[0..total_pools-1]
    pool_no, prio,
    enabled,        \* "disabled", "enabled" or "rejecting"
    health,         \* "idle" (pool->idle), "offline" (not idle, but not both of
                    \* stratum_active and stratum_notify), or "good"
    removed,
    enabled_pools,  \* the counter
    currentpool,    \* None once it was read from outside the array
    api,            \* where the API thread is in its command
    target,         \* the pool of that command
    moved,          \* poolpriority: the pools that have been given a priority
    raced           \* another thread switched pools while one was being removed

switchVars == <<prio, currentpool>>
vars == <<pool_strategy, pools, pool_no, prio, enabled, health, removed, enabled_pools,
          currentpool, api, target, moved, raced>>

\* The strategies that go round the list.
RoundRobin == pool_strategy \in {"ROUNDROBIN", "ROTATE"}

Listed == {pools[i] : i \in DOMAIN pools}
Total  == Len(pools)

\* The pools for which pool_unusable is false.
Usable == {p \in Pool : enabled[p] = "enabled" /\ health[p] = "good"}

\* The first n pools are configured; the others are there to be added.  The
\* test threads have found some of them alive.
Init ==
    /\ pool_strategy \in Strategies
    /\ \E n \in 1..Cardinality(Pool) :
          /\ pools \in Injection(1..n, Pool)
          /\ enabled_pools = n
    /\ pool_no = [p \in Pool |-> IF \E i \in DOMAIN pools : pools[i] = p
                                 THEN (CHOOSE i \in DOMAIN pools : pools[i] = p) - 1 ELSE 0]
    /\ prio = pool_no
    /\ enabled = [p \in Pool |-> IF p \in Listed THEN "enabled" ELSE "disabled"]
    /\ health \in {h \in [Pool -> {"idle", "good"}] : \A p \in Pool \ Listed : h[p] = "idle"}
    /\ removed = [p \in Pool |-> FALSE]
    /\ currentpool = pools[1]
    /\ api = "idle" /\ target = None /\ moved = {} /\ raced = FALSE

-----------------------------------------------------------------------------
(* switch_pools.                                                           *)

\* selected becomes priority 0, those before it move down.
Raise(selected) ==
    IF selected = None \/ prio[selected] = 0 THEN prio
    ELSE [p \in Pool |-> IF p = selected THEN 0
                         ELSE IF p \in Listed /\ prio[p] < prio[selected] THEN prio[p] + 1
                         ELSE prio[p]]

\* priority_pool: the first listed pool with priority c, or the fallback
\* pools[c] when there is none.
PriorityPool(pr, c) ==
    LET found == {i \in DOMAIN pools : pr[pools[i]] = c}
    IN  IF found = {} THEN pools[c + 1]
        ELSE pools[CHOOSE i \in found : \A j \in found : i <= j]

\* pools[no], where no may be the number of a pool no longer in the list.
AtNumber(no) == IF no < Total THEN pools[no + 1] ELSE None

\* A search that takes the lowest priority first.
LastUsable(pr, usable) ==
    LET choices == {c \in 0..Total - 1 : PriorityPool(pr, c) \in usable}
    IN  IF choices = {} THEN AtNumber(pool_no[currentpool])
        ELSE PriorityPool(pr, CHOOSE c \in choices : \A d \in choices : c >= d)

\* The first usable pool in priority order, or else the current pool.
FirstUsable(pr, usable) ==
    LET choices == {c \in 0..Total - 1 : PriorityPool(pr, c) \in usable}
    IN  IF choices = {} THEN AtNumber(pool_no[currentpool])
        ELSE PriorityPool(pr, CHOOSE c \in choices : \A d \in choices : c <= d)

\* A round that does not go past the end of the list.
NextUsableNoWrap(selected, usable) ==
    IF selected # None /\ health[selected] # "idle" THEN AtNumber(pool_no[selected])
    ELSE LET after == {i \in DOMAIN pools : i > pool_no[currentpool] + 1 /\ pools[i] \in usable}
         IN  IF after = {} THEN AtNumber(pool_no[currentpool])
             ELSE pools[CHOOSE i \in after : \A j \in after : i <= j]

\* The selected pool if it is not idle, or else the next usable one after the
\* current pool, going round the list.
NextUsable(selected, usable) ==
    IF selected # None /\ health[selected] # "idle" THEN AtNumber(pool_no[selected])
    ELSE LET no == IF pool_no[currentpool] < Total THEN pool_no[currentpool] ELSE Total - 1
             Ahead(i) == pools[((no + i) % Total) + 1]
             steps == {i \in 1..Total - 1 : Ahead(i) \in usable}
         IN  IF steps = {} THEN AtNumber(pool_no[currentpool])
             ELSE Ahead(CHOOSE i \in steps : \A j \in steps : i <= j)

\* switch_pools(selected), one critical section of control_lock.  usable is
\* what it finds usable when it looks, after the caller's own changes.
SwitchPools(selected, usable) ==
    /\ prio' = Raise(selected)
    /\ currentpool' = IF RoundRobin
                      THEN NextUsable(selected, usable)
                      ELSE FirstUsable(Raise(selected), usable)

-----------------------------------------------------------------------------
(* The other threads.                                                      *)

Removing == api \in {"rmDisable", "rmShift", "rmSwap"}

SwitchByOther(usable) == SwitchPools(None, usable) /\ raced' = (raced \/ Removing)

\* switch_pools(NULL): test_pool_thread, watchpool and the scheduler call it
\* for reasons of their own at any time.
OtherSwitch ==
    /\ UNCHANGED <<pools, pool_no, enabled, health, removed, enabled_pools,
                   api, target, moved>>
    /\ SwitchByOther(Usable)

\* pool_died: a pool that becomes idle while it is current is left.
PoolDied(p) ==
    /\ p \in Listed /\ health[p] # "idle"
    /\ health' = [health EXCEPT ![p] = "idle"]
    /\ IF p = currentpool THEN SwitchByOther(Usable \ {p}) ELSE UNCHANGED <<switchVars, raced>>
    /\ UNCHANGED <<pools, pool_no, enabled, removed, enabled_pools, api, target, moved>>

\* The idle flag is cleared (stratum_resumed, the test and watchpool threads), a
\* first notify makes the pool good, or its connection is suspended.
HealthChanges(p) ==
    /\ p \in Listed
    /\ \E h \in {"good"} \cup (IF RoundRobin THEN {"offline"} ELSE {}) :
          h # health[p] /\ health' = [health EXCEPT ![p] = h]
    /\ UNCHANGED <<pools, pool_no, switchVars, enabled, removed, enabled_pools,
                   api, target, moved, raced>>

\* share_result: too many rejects in a row, with opt_disable_pool.
RejectPool(p) ==
    /\ p \in Listed /\ enabled_pools > 1 /\ enabled[p] # "rejecting"
    /\ enabled' = [enabled EXCEPT ![p] = "rejecting"]
    /\ enabled_pools' = IF enabled[p] = "enabled" THEN enabled_pools - 1 ELSE enabled_pools
    /\ IF p = currentpool THEN SwitchByOther(Usable \ {p}) ELSE UNCHANGED <<switchVars, raced>>
    /\ UNCHANGED <<pools, pool_no, health, removed, api, target, moved>>

\* share_result: a rejecting pool accepts a share.
AcceptAgain(p) ==
    /\ p \in Listed /\ enabled[p] = "rejecting" /\ enabled_pools < MaxEnabled
    /\ enabled' = [enabled EXCEPT ![p] = "enabled"]
    /\ enabled_pools' = enabled_pools + 1
    /\ SwitchByOther(IF health[p] = "good" THEN Usable \cup {p} ELSE Usable)
    /\ UNCHANGED <<pools, pool_no, health, removed, api, target, moved>>

-----------------------------------------------------------------------------
(* The API thread.                                                         *)

ApiGoto(from, to) == api = from /\ api' = to

\* End of a command.
Done == target' = None /\ moved' = {}

\* The switch at the end of a command.
ApiSwitch ==
    /\ ApiGoto("switch", "idle") /\ Done
    /\ SwitchPools(target, Usable)
    /\ UNCHANGED <<pools, pool_no, enabled, health, removed, enabled_pools, raced>>

\* switchpool: enables the pool, then switches to it.
SwitchPoolCommand(p) ==
    /\ ApiGoto("idle", "switch") /\ p \in Listed
    /\ target' = p
    /\ enabled' = [enabled EXCEPT ![p] = "enabled"]
    /\ UNCHANGED <<pools, pool_no, switchVars, health, removed, enabled_pools, moved, raced>>

\* enablepool, then a switch to the pool if it comes before the current one.
EnablePool(p) ==
    /\ p \in Listed /\ enabled[p] # "enabled"
    /\ enabled' = [enabled EXCEPT ![p] = "enabled"]
    /\ ApiGoto("idle", "ifBetter")
    /\ target' = p
    /\ UNCHANGED <<pools, pool_no, switchVars, health, removed, enabled_pools, moved, raced>>

EnableSwitch ==
    /\ api = "ifBetter"
    /\ IF prio[target] < prio[currentpool]
       THEN api' = "switch" /\ UNCHANGED <<target, moved>>
       ELSE api' = "idle" /\ Done
    /\ UNCHANGED <<pools, pool_no, switchVars, enabled, health, removed, enabled_pools, raced>>

\* disablepool: refused only when enabled_pools says it is the last one.
DisablePool(p) ==
    /\ p \in Listed /\ enabled[p] # "disabled" /\ enabled_pools > 1
    /\ enabled' = [enabled EXCEPT ![p] = "disabled"]
    /\ ApiGoto("idle", "ifCurrent")
    /\ target' = p
    /\ UNCHANGED <<pools, pool_no, switchVars, health, removed, enabled_pools, moved, raced>>

DisableSwitch ==
    /\ ApiGoto("ifCurrent", "idle") /\ Done
    /\ IF target = currentpool THEN SwitchPools(None, Usable) ELSE UNCHANGED switchVars
    /\ UNCHANGED <<pools, pool_no, enabled, health, removed, enabled_pools, raced>>

\* poolpriority: the pools given come first, in the order given (f) ...
PoolPriority ==
    /\ ApiGoto("idle", "prioRest")
    /\ \E S \in SUBSET Listed \ {{}} : \E f \in Bijection(S, 0..Cardinality(S) - 1) :
          /\ moved' = S
          /\ prio' = [p \in Pool |-> IF p \in S THEN f[p] ELSE prio[p]]
    /\ UNCHANGED <<pools, pool_no, enabled, health, removed, enabled_pools,
                   currentpool, target, raced>>

\* ... then the others, in the order they had ...
PriorityRest ==
    /\ ApiGoto("prioRest", "prioSwitch")
    /\ LET rest == Listed \ moved
           rank(p) == Cardinality(moved) + Cardinality({q \in rest : prio[q] < prio[p]})
       IN  prio' = [p \in Pool |-> IF p \in rest THEN rank(p) ELSE prio[p]]
    /\ UNCHANGED <<pools, pool_no, enabled, health, removed, enabled_pools,
                   currentpool, target, moved, raced>>

\* ... and a switch if the current pool is no longer the first.
PrioritySwitch ==
    /\ ApiGoto("prioSwitch", "idle") /\ Done
    /\ IF prio[currentpool] # 0 THEN SwitchPools(None, Usable) ELSE UNCHANGED switchVars
    /\ UNCHANGED <<pools, pool_no, enabled, health, removed, enabled_pools, raced>>

\* addpool: add_pool puts the pool at the end, add_pool_details enables it.
AddPool(p) ==
    /\ api = "idle" /\ p \notin Listed /\ ~removed[p]
    /\ pools' = Append(pools, p)
    /\ pool_no' = [pool_no EXCEPT ![p] = Total]
    /\ prio' = [prio EXCEPT ![p] = Total]
    /\ health' = [health EXCEPT ![p] = "idle"]
    /\ enabled' = [enabled EXCEPT ![p] = "enabled"]
    /\ enabled_pools < MaxEnabled /\ enabled_pools' = enabled_pools + 1
    /\ UNCHANGED <<currentpool, removed, api, target, moved, raced>>

\* removepool: a switch away from the pool if it is current ...
RemovePool(p) ==
    /\ ApiGoto("idle", "rmCheck") /\ p \in Listed /\ Total > 1
    /\ target' = p
    /\ IF p = currentpool THEN SwitchPools(None, Usable) ELSE UNCHANGED switchVars
    /\ UNCHANGED <<pools, pool_no, enabled, health, removed, enabled_pools, moved, raced>>

\* Slips in removepool: the second check, > for >=, and the renumbering.
RemoveNoCheck ==
    /\ ApiGoto("rmCheck", "rmDisable")
    /\ UNCHANGED <<target, moved, pools, pool_no, switchVars, enabled, health, removed,
                   enabled_pools, raced>>

\* ... "Cannot remove active pool" if it still is ...
RemoveCheck ==
    /\ api = "rmCheck"
    /\ IF target = currentpool THEN api' = "idle" /\ Done
       ELSE api' = "rmDisable" /\ UNCHANGED <<target, moved>>
    /\ UNCHANGED <<pools, pool_no, switchVars, enabled, health, removed, enabled_pools, raced>>

RemoveDisable ==
    /\ ApiGoto("rmDisable", "rmShift")
    /\ enabled' = [enabled EXCEPT ![target] = "disabled"]
    /\ UNCHANGED <<pools, pool_no, switchVars, health, removed, enabled_pools,
                   target, moved, raced>>

RemoveShiftAll ==
    /\ ApiGoto("rmShift", "rmSwap")
    /\ prio' = [p \in Pool |-> IF p \in Listed /\ prio[p] >= prio[target] THEN prio[p] - 1
                               ELSE prio[p]]
    /\ UNCHANGED <<pools, pool_no, currentpool, enabled, health, removed, enabled_pools,
                   target, moved, raced>>

\* remove_pool: those after it move up ...
RemoveShift ==
    /\ ApiGoto("rmShift", "rmSwap")
    /\ prio' = [p \in Pool |-> IF p \in Listed /\ prio[p] > prio[target] THEN prio[p] - 1
                               ELSE prio[p]]
    /\ UNCHANGED <<pools, pool_no, currentpool, enabled, health, removed, enabled_pools,
                   target, moved, raced>>

RemoveSwapNoRenumber ==
    LET last == pools[Total] IN
    /\ ApiGoto("rmSwap", "idle") /\ Done
    /\ pools' = SubSeq([pools EXCEPT ![pool_no[target] + 1] = last], 1, Total - 1)
    /\ pool_no' = [pool_no EXCEPT ![target] = Total]
    /\ removed' = [removed EXCEPT ![target] = TRUE]
    /\ UNCHANGED <<switchVars, enabled, health, enabled_pools, raced>>

\* ... and the last pool takes its number.
RemoveSwap ==
    LET last == pools[Total] IN
    /\ ApiGoto("rmSwap", "idle") /\ Done
    /\ pools' = SubSeq([pools EXCEPT ![pool_no[target] + 1] = last], 1, Total - 1)
    /\ pool_no' = [pool_no EXCEPT ![last] = pool_no[target], ![target] = Total]
    /\ removed' = [removed EXCEPT ![target] = TRUE]
    /\ UNCHANGED <<switchVars, enabled, health, enabled_pools, raced>>

ApiStep ==
    \/ \E p \in Pool : \/ SwitchPoolCommand(p) \/ EnablePool(p) \/ DisablePool(p)
                       \/ AddPool(p) \/ RemovePool(p)
    \/ ApiSwitch \/ EnableSwitch \/ DisableSwitch
    \/ PoolPriority \/ PriorityRest \/ PrioritySwitch
    \/ RemoveCheck \/ RemoveDisable \/ RemoveShift \/ RemoveSwap

OtherStep ==
    \/ OtherSwitch
    \/ \E p \in Pool : \/ PoolDied(p) \/ HealthChanges(p)
                       \/ RejectPool(p) \/ AcceptAgain(p)

\* currentpool = None stands for a pointer read past the end of pools[]: the
\* program has no defined behaviour from there.
Next == currentpool # None /\ (ApiStep \/ OtherStep) /\ UNCHANGED pool_strategy

Spec == Init /\ [][Next]_vars

-----------------------------------------------------------------------------
(* Properties.                                                             *)

TypeOK ==
    /\ pools \in Seq(Pool) /\ Total > 0
    /\ pool_no \in [Pool -> Nat] /\ prio \in [Pool -> Nat]
    /\ enabled \in [Pool -> {"disabled", "enabled", "rejecting"}]
    /\ health \in [Pool -> {"idle", "offline", "good"}]
    /\ removed \in [Pool -> BOOLEAN]
    /\ enabled_pools \in Int
    /\ currentpool \in Pool \cup {None}
    /\ target \in Pool \cup {None} /\ moved \subseteq Pool /\ raced \in BOOLEAN
    /\ api \in {"idle", "switch", "ifBetter", "ifCurrent", "prioRest", "prioSwitch",
                "rmCheck", "rmDisable", "rmShift", "rmSwap"}

\* While a command rearranges the priorities or the list, they may be anything.
Rearranging == api \in {"prioRest", "rmSwap"}

\* Between commands every priority from 0 to total_pools-1 belongs to exactly
\* one pool, whatever commands came before and whatever switches ran between
\* their steps: switchpool's move to the front, poolpriority, addpool and
\* removepool compose (switch_pools relies on it to look at every pool).
PriorityIsPermutation ==
    ~Rearranging => {prio[p] : p \in Listed} = 0..Total - 1

\* A pool's number is its place in the list, also after the last pool took a
\* removed one's place (the API and round robin index pools[] by pool_no).
NumberIsPlace ==
    \A i \in DOMAIN pools : pool_no[pools[i]] = i - 1 /\ ~removed[pools[i]]

\* The list and its orders agree, whatever commands and switches came before.
ListIsConsistent == PriorityIsPermutation /\ NumberIsPlace

\* removepool can leave the removed pool current only if another thread switched
\* pools between its check and the end of remove_pool.
RemovedNotCurrent ==
    currentpool = None \/ removed[currentpool] => raced

\* With the priorities in order and the current pool listed, a switch to no pool
\* in particular never ends at an unusable pool while a listed one was usable, nor,
\* when pools are taken by priority, at one with a usable pool before it.
SwitchFindsUsable ==
    [][~Rearranging /\ ~raced /\ OtherSwitch =>
          /\ currentpool' \in Usable \/ Usable \cap Listed = {}
          /\ ~RoundRobin =>
                \A p \in Usable \cap Listed : prio[currentpool'] <= prio[p]]_vars

\* "Cannot remove active pool" (api.c, MSG_ACTPOOL): no removed pool is the current one,
\* or is found where the current one should be.
ActiveNotRemoved == currentpool # None /\ ~removed[currentpool]
=============================================================================
