--------------------------- MODULE PoolControlProofs ---------------------------
(***************************************************************************)
(* The list of pools, their numbers and their priorities agree after any   *)
(* commands, whatever switches run between their steps; a removed pool is  *)
(* not the current one; and a switch finds the best usable pool: for any   *)
(* set of pools and any strategies.                                        *)
(***************************************************************************)
EXTENDS PoolControl, FiniteSetTheorems, SequenceTheorems, NumberLemmas

\* order gives the members of S different numbers.
Distinct(order, S) == \A p, q \in S : order[p] = order[q] => p = q

\* The numbers are those below n.
InOrder(order, S, n) == Distinct(order, S) /\ {order[p] : p \in S} = 0..n - 1

\* Also in the middle of the two commands that rearrange priorities there is an order:
\* of the pools poolpriority has given one, and of the others among themselves; of the
\* pools that will be left when remove_pool ends.
PriorityInv ==
    /\ ~Rearranging => InOrder(prio, Listed, Total)
    /\ api = "prioRest" => /\ moved \subseteq Listed
                           /\ InOrder(prio, moved, Cardinality(moved))
                           /\ Distinct(prio, Listed \ moved)
    /\ api = "rmSwap" => InOrder(prio, Listed \ {target}, Total - 1)

\* The pool of a command stays in the list, and is not the only one when it is to go.
TargetInv ==
    /\ api \in {"switch", "ifBetter", "ifCurrent"} => target \in Listed
    /\ Removing \/ api = "rmCheck" => target \in Listed /\ Total > 1

\* Unless there was a switch during a removal, the current pool is in the list, and is
\* not the one that is being removed.
CurrentInv ==
    ~raced => /\ currentpool \in Listed
              /\ Removing => target # currentpool

PoolInv == TypeOK /\ NumberIsPlace /\ PriorityInv /\ TargetInv /\ CurrentInv

-----------------------------------------------------------------------------
(* The list.                                                               *)

LEMMA ListFacts ==
    ASSUME TypeOK, NumberIsPlace
    PROVE  /\ Total \in Nat \ {0} /\ DOMAIN pools = 1..Total
           /\ Listed \subseteq Pool
           /\ \A i \in 1..Total : pools[i] \in Listed /\ pool_no[pools[i]] = i - 1
           /\ \A p \in Listed : /\ pool_no[p] \in 0..Total - 1
                                /\ pools[pool_no[p] + 1] = p /\ ~removed[p]
<1>1. Total \in Nat \ {0} /\ DOMAIN pools = 1..Total /\ pools \in [1..Total -> Pool]
  BY LenProperties DEF TypeOK, Total
<1>2. \A i \in 1..Total : pools[i] \in Listed /\ pools[i] \in Pool
  BY <1>1 DEF Listed
<1>3. \A p \in Listed : \E i \in 1..Total : p = pools[i]
  BY <1>1 DEF Listed
<1>4. \A i \in 1..Total : pool_no[pools[i]] = i - 1 /\ ~removed[pools[i]]
  BY <1>1 DEF NumberIsPlace
<1>5. \A p \in Listed : /\ pool_no[p] \in 0..Total - 1
                        /\ pools[pool_no[p] + 1] = p /\ ~removed[p]
  <2>1. SUFFICES ASSUME NEW i \in 1..Total
                 PROVE  /\ pool_no[pools[i]] \in 0..Total - 1
                        /\ pools[pool_no[pools[i]] + 1] = pools[i] /\ ~removed[pools[i]]
    BY <1>3
  <2>2. pool_no[pools[i]] = i - 1 /\ i \in Int
    BY <1>4, <2>1
  <2>3. QED
    BY <1>1, <1>4, <2>2
<1>6. QED
  BY <1>1, <1>2, <1>3, <1>4, <1>5

\* total_pools is how many pools the list has.
LEMMA ListSize ==
    ASSUME TypeOK, NumberIsPlace
    PROVE  IsFiniteSet(Listed) /\ Cardinality(Listed) = Total
<1>1. pools \in Bijection(1..Total, Listed)
  <2>1. pools \in [1..Total -> Listed]
    BY ListFacts, LenProperties DEF TypeOK, Total
  <2>2. \A i, j \in 1..Total : pools[i] = pools[j] => i = j
    <3>1. ASSUME NEW i \in 1..Total, NEW j \in 1..Total, pools[i] = pools[j]
          PROVE  i = j
      <4>1. i - 1 = j - 1
        BY <3>1, ListFacts
      <4>2. QED
        BY <4>1
    <3>2. QED
      BY <3>1
  <2>3. \A p \in Listed : \E i \in 1..Total : pools[i] = p
    BY ListFacts DEF Listed
  <2>4. QED
    BY <2>1, <2>2, <2>3 DEF Bijection, Injection, Surjection, IsInjective
<1>2. ExistsBijection(1..Total, Listed) /\ Total \in Nat
  BY <1>1, ListFacts DEF ExistsBijection
<1>3. QED
  BY <1>2, FS_CountingElements, FS_NatBijection

-----------------------------------------------------------------------------
(* switch_pools.                                                           *)

LEMMA AtNumberFacts ==
    ASSUME TypeOK, NumberIsPlace
    PROVE  /\ \A no \in Nat : AtNumber(no) \in Pool \cup {None}
           /\ \A p \in Listed : AtNumber(pool_no[p]) = p
<1>1. \A no \in Nat : no < Total => no + 1 \in 1..Total
  BY ListFacts
<1>2. QED
  BY <1>1, ListFacts DEF AtNumber

\* priority_pool finds a listed pool, and the one with that priority if there is one.
LEMMA PriorityPoolFacts ==
    ASSUME TypeOK, NumberIsPlace, NEW pr, NEW c \in 0..Total - 1
    PROVE  /\ PriorityPool(pr, c) \in Listed
           /\ (\E p \in Listed : pr[p] = c) => pr[PriorityPool(pr, c)] = c
<1> DEFINE found == {i \in DOMAIN pools : pr[pools[i]] = c}
<1>1. CASE found = {}
  <2>1. PriorityPool(pr, c) = pools[c + 1] /\ c + 1 \in 1..Total
    BY <1>1, ListFacts DEF PriorityPool
  <2>2. ~(\E p \in Listed : pr[p] = c)
    BY <1>1 DEF Listed
  <2>3. QED
    BY <2>1, <2>2, ListFacts
<1>2. CASE found # {}
  <2>1. found \subseteq Nat /\ found \subseteq 1..Total
    BY ListFacts
  <2>2. \E i \in found : \A j \in found : i <= j
    BY <1>2, <2>1, LeastNat
  <2>3. PICK i \in found : PriorityPool(pr, c) = pools[i]
    BY <1>2, <2>2 DEF PriorityPool
  <2>4. QED
    BY <2>1, <2>3, ListFacts
<1>3. QED
  BY <1>1, <1>2

\* What a switch by priority ends at.
LEMMA FirstUsableFacts ==
    ASSUME TypeOK, NumberIsPlace, currentpool \in Pool, NEW pr, NEW usable
    PROVE  /\ FirstUsable(pr, usable) \in Pool \cup {None}
           /\ currentpool \in Listed => FirstUsable(pr, usable) \in Listed
           /\ \A c \in 0..Total - 1 :
                PriorityPool(pr, c) \in usable =>
                    /\ FirstUsable(pr, usable) \in usable
                    /\ \E d \in 0..c : FirstUsable(pr, usable) = PriorityPool(pr, d)
<1> DEFINE choices == {c \in 0..Total - 1 : PriorityPool(pr, c) \in usable}
<1>1. CASE choices = {}
  <2>1. FirstUsable(pr, usable) = AtNumber(pool_no[currentpool])
    BY <1>1 DEF FirstUsable
  <2>2. pool_no[currentpool] \in Nat
    BY DEF TypeOK
  <2>3. \A c \in 0..Total - 1 : PriorityPool(pr, c) \notin usable
    BY <1>1
  <2>4. QED
    BY <2>1, <2>2, <2>3, AtNumberFacts
<1>2. CASE choices # {}
  <2>1. choices \subseteq Nat
    BY ListFacts
  <2>2. \E c \in choices : \A d \in choices : c <= d
    BY <1>2, <2>1, LeastNat
  <2>3. PICK c \in choices : /\ \A d \in choices : c <= d
                             /\ FirstUsable(pr, usable) = PriorityPool(pr, c)
    BY <1>2, <2>2 DEF FirstUsable
  <2>4. FirstUsable(pr, usable) \in Listed /\ FirstUsable(pr, usable) \in usable
    BY <2>3, PriorityPoolFacts
  <2>5. \A e \in 0..Total - 1 : PriorityPool(pr, e) \in usable => c \in 0..e
    BY <2>1, <2>3, ListFacts
  <2>6. QED
    BY <2>3, <2>4, <2>5, ListFacts
<1>3. QED
  BY <1>1, <1>2

\* What a switch that goes round the list ends at.
LEMMA NextUsableFacts ==
    ASSUME TypeOK, NumberIsPlace, currentpool \in Pool, NEW usable,
           NEW selected \in Pool \cup {None}
    PROVE  /\ NextUsable(selected, usable) \in Pool \cup {None}
           /\ currentpool \in Listed /\ selected \in Listed \cup {None}
                => NextUsable(selected, usable) \in Listed
<1> DEFINE no == IF pool_no[currentpool] < Total THEN pool_no[currentpool] ELSE Total - 1
           Ahead(i) == pools[((no + i) % Total) + 1]
           steps == {i \in 1..Total - 1 : Ahead(i) \in usable}
<1>1. pool_no[currentpool] \in Nat /\ (selected # None => pool_no[selected] \in Nat)
  BY DEF TypeOK
<1>2. CASE selected # None /\ health[selected] # "idle"
  BY <1>1, <1>2, AtNumberFacts DEF NextUsable
<1>3. CASE ~(selected # None /\ health[selected] # "idle") /\ steps = {}
  <2>1. NextUsable(selected, usable) = AtNumber(pool_no[currentpool])
    BY <1>3 DEF NextUsable
  <2>2. QED
    BY <1>1, <2>1, AtNumberFacts
<1>4. CASE ~(selected # None /\ health[selected] # "idle") /\ steps # {}
  <2>1. steps \subseteq Nat
    BY ListFacts
  <2>2. \E i \in steps : \A j \in steps : i <= j
    BY <1>4, <2>1, LeastNat
  <2>3. PICK i \in steps : NextUsable(selected, usable) = Ahead(i)
    BY <1>4, <2>2 DEF NextUsable
  <2>4. (no + i) % Total \in 0..Total - 1
    BY <1>1, ListFacts
  <2>5. Ahead(i) \in Listed
    BY <2>4, ListFacts
  <2>6. QED
    BY <2>3, <2>5, ListFacts
<1>5. QED
  BY <1>2, <1>3, <1>4

\* Raising a pool to the front keeps the order.
LEMMA RaiseKeepsOrder ==
    ASSUME TypeOK, NumberIsPlace, NEW selected \in Listed, InOrder(prio, Listed, Total)
    PROVE  InOrder(Raise(selected), Listed, Total)
<1>1. CASE prio[selected] = 0
  BY <1>1 DEF Raise
<1>2. CASE prio[selected] # 0
  <2> DEFINE k == prio[selected]
             r == Raise(selected)
  <2>1. \A p \in Listed : prio[p] \in 0..Total - 1
    BY DEF InOrder
  <2>2. \A c \in 0..Total - 1 : \E p \in Listed : prio[p] = c
    BY DEF InOrder
  <2>3. \A p \in Listed : r[p] = IF p = selected THEN 0
                                 ELSE IF prio[p] < k THEN prio[p] + 1 ELSE prio[p]
    <3>1. selected # None
      BY ListFacts, PoolControlAssumption
    <3>2. \A p \in Listed : p \in Pool
      BY ListFacts
    <3>3. QED
      BY <1>2, <3>1, <3>2 DEF Raise
  <2>4. k \in 1..Total - 1 /\ Total \in Nat
    BY <1>2, <2>1, ListFacts
  <2>5. \A p \in Listed : p # selected => prio[p] # k
    BY DEF InOrder, Distinct
  <2>6. Distinct(r, Listed)
    <3>1. \A p, q \in Listed : prio[p] = prio[q] => p = q
      BY DEF InOrder, Distinct
    <3>2. QED
      BY ONLY <2>1, <2>3, <2>4, <2>5, <3>1 DEF Distinct
  <2>7. \A p \in Listed : r[p] \in 0..Total - 1
    BY ONLY <2>1, <2>3, <2>4
  <2>8. ASSUME NEW c \in 0..Total - 1
        PROVE  \E p \in Listed : r[p] = c
    <3>1. CASE c = 0
      BY <2>3, <3>1
    <3>2. CASE c \in 1..k
      <4>1. PICK p \in Listed : prio[p] = c - 1
        BY <2>2, <2>4, <3>2
      <4>2. p # selected /\ prio[p] < k
        BY <2>4, <3>2, <4>1
      <4>3. r[p] = c
        BY <2>3, <3>2, <4>1, <4>2
      <4>4. QED
        BY <4>3
    <3>3. CASE c > k
      <4>1. PICK p \in Listed : prio[p] = c
        BY <2>2
      <4>2. r[p] = c
        BY <2>3, <2>4, <3>3, <4>1
      <4>3. QED
        BY <4>2
    <3>4. QED
      BY <2>4, <3>1, <3>2, <3>3
  <2>9. QED
    BY <2>6, <2>7, <2>8 DEF InOrder
<1>3. QED
  BY <1>1, <1>2

\* What switch_pools does to the list's orders and to the current pool, whoever calls it.
LEMMA SwitchFacts ==
    ASSUME TypeOK, NumberIsPlace, currentpool \in Pool, NEW usable,
           NEW selected \in Listed \cup {None}, SwitchPools(selected, usable)
    PROVE  /\ currentpool' \in Pool \cup {None} /\ prio' \in [Pool -> Nat]
           /\ currentpool \in Listed => currentpool' \in Listed
           /\ InOrder(prio, Listed, Total) => InOrder(prio', Listed, Total)
           /\ selected = None => prio' = prio
<1>1. prio' = Raise(selected)
  BY DEF SwitchPools
<1>2. Raise(selected) \in [Pool -> Nat]
  BY DEF Raise, TypeOK
<1>3. selected = None => Raise(selected) = prio
  BY DEF Raise
<1>4. InOrder(prio, Listed, Total) => InOrder(Raise(selected), Listed, Total)
  BY <1>3, RaiseKeepsOrder
<1>5. selected \in Pool \cup {None}
  BY ListFacts
<1>6. /\ currentpool' \in Pool \cup {None}
      /\ currentpool \in Listed => currentpool' \in Listed
  <2>1. CASE RoundRobin
    <3>1. currentpool' = NextUsable(selected, usable)
      BY <2>1 DEF SwitchPools
    <3>2. QED
      BY <1>5, <3>1, NextUsableFacts
  <2>2. CASE ~RoundRobin
    <3>1. currentpool' = FirstUsable(Raise(selected), usable)
      BY <2>2 DEF SwitchPools
    <3>2. QED
      BY <3>1, FirstUsableFacts
  <2>3. QED
    BY <2>1, <2>2
<1>7. QED
  BY <1>1, <1>2, <1>3, <1>4, <1>6

\* The same for the threads that switch to no pool in particular, and for the calls that
\* switch only if the current pool is lost.
LEMMA OtherSwitchFacts ==
    ASSUME TypeOK, NumberIsPlace, currentpool \in Pool, NEW usable,
           SwitchByOther(usable) \/ UNCHANGED <<switchVars, raced>>
    PROVE  /\ currentpool' \in Pool \cup {None} /\ prio' = prio /\ raced' \in BOOLEAN
           /\ ~raced' => ~raced /\ (currentpool' = currentpool \/ ~Removing)
           /\ currentpool \in Listed => currentpool' \in Listed
<1>1. CASE SwitchByOther(usable)
  BY <1>1, SwitchFacts DEF SwitchByOther, TypeOK
<1>2. CASE UNCHANGED <<switchVars, raced>>
  BY <1>2 DEF switchVars, TypeOK
<1>3. QED
  BY <1>1, <1>2

-----------------------------------------------------------------------------
(* The steps.                                                              *)

LEMMA InitPoolInv ==
    ASSUME Init
    PROVE  PoolInv
<1>1. PICK n \in 1..Cardinality(Pool) : pools \in Injection(1..n, Pool) /\ enabled_pools = n
  BY DEF Init
<1>2. Cardinality(Pool) \in Nat
  BY PoolControlAssumption, FS_CardinalityType
<1>3. /\ n \in Nat \ {0} /\ pools \in [1..n -> Pool]
      /\ \A i, j \in 1..n : pools[i] = pools[j] => i = j
  BY <1>1, <1>2 DEF Injection, IsInjective
<1>4. pools \in Seq(Pool) /\ Total = n /\ DOMAIN pools = 1..n
  BY <1>3 DEF Total
<1>5. Listed \subseteq Pool /\ Listed = {pools[i] : i \in 1..n}
  BY <1>3 DEF Listed
<1>6. \A i \in 1..n : pool_no[pools[i]] = i - 1
  <2>1. TAKE i \in 1..n
  <2>2. (CHOOSE j \in DOMAIN pools : pools[j] = pools[i]) = i
    BY <1>3, <1>4
  <2>3. pools[i] \in Pool
    BY <1>3
  <2>4. QED
    BY <1>4, <2>2, <2>3 DEF Init
<1>7. pool_no \in [Pool -> Nat]
  <2>1. ASSUME NEW p \in Pool, \E i \in DOMAIN pools : pools[i] = p
        PROVE  (CHOOSE i \in DOMAIN pools : pools[i] = p) - 1 \in Nat
    <3>1. (CHOOSE i \in DOMAIN pools : pools[i] = p) \in 1..n
      BY <1>4, <2>1
    <3>2. QED
      BY <3>1
  <2>2. QED
    BY <2>1 DEF Init
<1>8. TypeOK
  <2>1. currentpool \in Pool
    BY <1>3, <1>4 DEF Init
  <2>2. enabled \in [Pool -> {"disabled", "enabled", "rejecting"}]
    BY DEF Init
  <2>3. health \in [Pool -> {"idle", "offline", "good"}]
    BY DEF Init
  <2>4. enabled_pools \in Int /\ Total > 0
    BY <1>1, <1>3, <1>4
  <2>5. /\ prio \in [Pool -> Nat] /\ removed \in [Pool -> BOOLEAN]
        /\ target \in Pool \cup {None} /\ moved \subseteq Pool /\ raced \in BOOLEAN
        /\ api = "idle"
    BY <1>7 DEF Init
  <2>6. QED
    BY <1>4, <1>7, <2>1, <2>2, <2>3, <2>4, <2>5 DEF TypeOK
<1>9. NumberIsPlace
  BY <1>3, <1>4, <1>6 DEF NumberIsPlace, Init
<1>10. InOrder(prio, Listed, Total)
  <2>1. prio = pool_no /\ n \in Nat
    BY <1>3 DEF Init
  <2>2. Distinct(prio, Listed)
    BY <1>5, <1>6, <2>1 DEF Distinct
  <2>3. \A c \in 0..n - 1 : \E p \in Listed : prio[p] = c
    <3>1. TAKE c \in 0..n - 1
    <3>2. c + 1 \in 1..n /\ (c + 1) - 1 = c
      BY <2>1
    <3>3. pools[c + 1] \in Listed /\ prio[pools[c + 1]] = c
      BY <1>5, <1>6, <2>1, <3>2
    <3>4. QED
      BY <3>3
  <2>4. \A p \in Listed : prio[p] \in 0..n - 1
    BY <1>5, <1>6, <2>1
  <2>5. QED
    BY <1>4, <2>2, <2>3, <2>4 DEF InOrder
<1>11. currentpool \in Listed /\ api = "idle"
  BY <1>3, <1>5 DEF Init
<1>12. QED
  BY <1>8, <1>9, <1>10, <1>11
     DEF PoolInv, PriorityInv, TargetInv, CurrentInv, Rearranging, Removing

\* A step that leaves the list alone.
LEMMA SameList ==
    ASSUME NumberIsPlace, UNCHANGED <<pools, pool_no, removed>>
    PROVE  Listed' = Listed /\ Total' = Total /\ NumberIsPlace'
  BY DEF Listed, Total, NumberIsPlace

\* The other threads, at any point of a command.
LEMMA OtherStepKeeps ==
    ASSUME PoolInv, currentpool # None, OtherStep
    PROVE  PoolInv'
<1> USE DEF PoolInv
<1>1. UNCHANGED <<pools, pool_no, removed, api, target, moved>>
  BY DEF OtherStep, OtherSwitch, PoolDied, HealthChanges, RejectPool, AcceptAgain
<1>2. PICK usable : SwitchByOther(usable) \/ UNCHANGED <<switchVars, raced>>
  <2>1. CASE OtherSwitch
    BY <2>1 DEF OtherSwitch
  <2>2. CASE \E p \in Pool : PoolDied(p) \/ HealthChanges(p) \/ RejectPool(p) \/ AcceptAgain(p)
    BY <2>2 DEF PoolDied, HealthChanges, RejectPool, AcceptAgain, switchVars
  <2>3. QED
    BY <2>1, <2>2 DEF OtherStep
<1>3. currentpool \in Pool
  BY DEF TypeOK
<1>4. /\ currentpool' \in Pool \cup {None} /\ prio' = prio /\ raced' \in BOOLEAN
      /\ ~raced' => ~raced /\ (currentpool' = currentpool \/ ~Removing)
      /\ currentpool \in Listed => currentpool' \in Listed
  BY <1>2, <1>3, OtherSwitchFacts
<1>5. /\ enabled' \in [Pool -> {"disabled", "enabled", "rejecting"}]
      /\ health' \in [Pool -> {"idle", "offline", "good"}] /\ enabled_pools' \in Int
  <2>1. OtherSwitch => UNCHANGED <<enabled, health, enabled_pools>>
    BY DEF OtherSwitch
  <2>2. ASSUME NEW p \in Pool, PoolDied(p) \/ HealthChanges(p)
        PROVE  /\ health' \in [Pool -> {"idle", "offline", "good"}]
               /\ UNCHANGED <<enabled, enabled_pools>>
    BY <2>2 DEF PoolDied, HealthChanges, TypeOK
  <2>3. ASSUME NEW p \in Pool, RejectPool(p) \/ AcceptAgain(p)
        PROVE  /\ enabled' \in [Pool -> {"disabled", "enabled", "rejecting"}]
               /\ UNCHANGED health /\ enabled_pools' \in Int
    <3>1. enabled_pools' \in Int /\ UNCHANGED health
      BY <2>3 DEF RejectPool, AcceptAgain, TypeOK
    <3>2. \E v \in {"rejecting", "enabled"} : enabled' = [enabled EXCEPT ![p] = v]
      BY <2>3 DEF RejectPool, AcceptAgain
    <3>3. QED
      BY <3>1, <3>2 DEF TypeOK
  <2>4. /\ enabled \in [Pool -> {"disabled", "enabled", "rejecting"}]
        /\ health \in [Pool -> {"idle", "offline", "good"}] /\ enabled_pools \in Int
    BY DEF TypeOK
  <2>5. QED
    BY <2>1, <2>2, <2>3, <2>4 DEF OtherStep
<1>6. Listed' = Listed /\ Total' = Total /\ NumberIsPlace'
  BY <1>1, SameList
<1>7. TypeOK'
  BY <1>1, <1>4, <1>5, <1>6 DEF TypeOK
<1>8. PriorityInv' /\ TargetInv'
  BY <1>1, <1>4, <1>6 DEF PriorityInv, TargetInv, InOrder, Distinct, Rearranging, Removing
<1>9. CurrentInv'
  BY <1>1, <1>4, <1>6 DEF CurrentInv, Removing
<1>10. QED
  BY <1>6, <1>7, <1>8, <1>9

\* The commands' steps that only enable, disable and switch.
LEMMA SwitchingStepKeeps ==
    ASSUME PoolInv, currentpool # None,
           \/ \E p \in Pool : \/ SwitchPoolCommand(p) \/ EnablePool(p) \/ DisablePool(p)
                              \/ RemovePool(p)
           \/ ApiSwitch \/ EnableSwitch \/ DisableSwitch \/ PrioritySwitch
           \/ RemoveCheck \/ RemoveDisable
    PROVE  PoolInv'
<1> USE DEF PoolInv
<1>1. UNCHANGED <<pools, pool_no, removed, health, enabled_pools, raced>>
  BY DEF SwitchPoolCommand, EnablePool, DisablePool, RemovePool, ApiSwitch, EnableSwitch,
         DisableSwitch, PrioritySwitch, RemoveCheck, RemoveDisable
<1>2. ~Rearranging /\ ~Rearranging'
  BY DEF SwitchPoolCommand, EnablePool, DisablePool, RemovePool, ApiSwitch, EnableSwitch,
         DisableSwitch, PrioritySwitch, RemoveCheck, RemoveDisable, ApiGoto, Rearranging
<1>3. InOrder(prio, Listed, Total) /\ currentpool \in Pool
  BY <1>2 DEF PriorityInv, TypeOK
<1>4. \/ \E selected \in Listed \cup {None} : SwitchPools(selected, Usable)
      \/ UNCHANGED switchVars
  <2>1. CASE ApiSwitch
    BY <2>1 DEF ApiSwitch, ApiGoto, TargetInv
  <2>2. CASE \/ \E p \in Pool : \/ SwitchPoolCommand(p) \/ EnablePool(p) \/ DisablePool(p)
                                \/ RemovePool(p)
             \/ EnableSwitch \/ DisableSwitch \/ PrioritySwitch
             \/ RemoveCheck \/ RemoveDisable
    BY <2>2 DEF SwitchPoolCommand, EnablePool, DisablePool, RemovePool, EnableSwitch,
                DisableSwitch, PrioritySwitch, RemoveCheck, RemoveDisable
  <2>3. QED
    BY <2>1, <2>2
<1>5. /\ currentpool' \in Pool \cup {None} /\ prio' \in [Pool -> Nat]
      /\ currentpool \in Listed => currentpool' \in Listed
      /\ InOrder(prio', Listed, Total)
  <2>1. CASE UNCHANGED switchVars
    BY <1>3, <2>1 DEF switchVars, TypeOK
  <2>2. CASE \E selected \in Listed \cup {None} : SwitchPools(selected, Usable)
    BY <1>3, <2>2, SwitchFacts
  <2>3. QED
    BY <1>4, <2>1, <2>2
<1>6. Listed' = Listed /\ Total' = Total /\ NumberIsPlace'
  BY <1>1, SameList
<1>7. /\ enabled' \in [Pool -> {"disabled", "enabled", "rejecting"}]
      /\ target' \in Pool \cup {None} /\ moved' \subseteq Pool
      /\ api' \in {"idle", "switch", "ifBetter", "ifCurrent", "rmCheck", "rmDisable", "rmShift"}
  BY DEF SwitchPoolCommand, EnablePool, DisablePool, RemovePool, ApiSwitch, EnableSwitch,
         DisableSwitch, PrioritySwitch, RemoveCheck, RemoveDisable, ApiGoto, Done, TypeOK
<1>8. TypeOK'
  BY <1>1, <1>5, <1>6, <1>7 DEF TypeOK
<1>9. PriorityInv'
  BY <1>2, <1>5, <1>6 DEF PriorityInv, Rearranging
<1>10. TargetInv'
  <2>1. CASE RemoveCheck \/ RemoveDisable
    BY <1>6, <2>1 DEF RemoveCheck, RemoveDisable, ApiGoto, TargetInv, Removing
  <2>2. CASE \E p \in Pool : \/ SwitchPoolCommand(p) \/ EnablePool(p) \/ DisablePool(p)
                             \/ RemovePool(p)
    BY <1>6, <2>2 DEF SwitchPoolCommand, EnablePool, DisablePool, RemovePool, ApiGoto,
                      TargetInv, Removing
  <2>3. CASE ApiSwitch \/ EnableSwitch \/ DisableSwitch \/ PrioritySwitch
    BY <1>6, <2>3 DEF ApiSwitch, EnableSwitch, DisableSwitch, PrioritySwitch, ApiGoto,
                      TargetInv, Removing
  <2>4. QED
    BY <2>1, <2>2, <2>3
<1>11. CurrentInv'
  <2>1. CASE RemoveCheck \/ RemoveDisable
    BY <1>1, <1>6, <2>1 DEF RemoveCheck, RemoveDisable, ApiGoto, CurrentInv, Removing, switchVars
  <2>2. CASE ~(RemoveCheck \/ RemoveDisable)
    <3>1. ~Removing'
      BY <2>2 DEF SwitchPoolCommand, EnablePool, DisablePool, RemovePool, ApiSwitch,
                  EnableSwitch, DisableSwitch, PrioritySwitch, ApiGoto, Removing
    <3>2. QED
      BY <1>1, <1>5, <1>6, <3>1 DEF CurrentInv
  <2>3. QED
    BY <2>1, <2>2
<1>12. QED
  BY <1>6, <1>8, <1>9, <1>10, <1>11

\* Counting the smaller ones puts any finite set of different numbers in order.
LEMMA RankIsOrder ==
    ASSUME NEW R, IsFiniteSet(R), NEW order, \A p \in R : order[p] \in Nat, Distinct(order, R)
    PROVE  InOrder([p \in R |-> Cardinality({q \in R : order[q] < order[p]})],
                   R, Cardinality(R))
<1> DEFINE Below(p) == {q \in R : order[q] < order[p]}
           rank == [p \in R |-> Cardinality(Below(p))]
           n == Cardinality(R)
<1>1. n \in Nat
  BY FS_CardinalityType
<1>2. ASSUME NEW p \in R
      PROVE  IsFiniteSet(Below(p)) /\ Cardinality(Below(p)) \in 0..n - 1
  <2>1. Below(p) \in SUBSET R /\ p \notin Below(p)
    OBVIOUS
  <2>2. /\ IsFiniteSet(Below(p)) /\ Cardinality(Below(p)) <= n
        /\ Cardinality(Below(p)) # n
    BY <2>1, FS_Subset
  <2>3. Cardinality(Below(p)) \in Nat
    BY <2>2, FS_CardinalityType
  <2>4. QED
    BY <1>1, <2>2, <2>3
<1>3. ASSUME NEW p \in R, NEW q \in R, order[p] < order[q]
      PROVE  Cardinality(Below(p)) < Cardinality(Below(q))
  <2>1. Below(p) \in SUBSET Below(q)
    BY <1>3
  <2>2. p \in Below(q) /\ p \notin Below(p)
    BY <1>3
  <2>3. /\ Cardinality(Below(p)) <= Cardinality(Below(q))
        /\ Cardinality(Below(p)) # Cardinality(Below(q))
    BY <1>2, <2>1, <2>2, FS_Subset
  <2>4. Cardinality(Below(p)) \in Int /\ Cardinality(Below(q)) \in Int
    <3> HIDE DEF Below, n
    <3>1. QED
      BY <1>1, <1>2
  <2>5. QED
    BY <2>3, <2>4
<1>4. \A p, q \in R : rank[p] = rank[q] => p = q
  <2>1. SUFFICES ASSUME NEW p \in R, NEW q \in R, rank[p] = rank[q], p # q
                 PROVE  FALSE
    OBVIOUS
  <2>2. Cardinality(Below(p)) = Cardinality(Below(q))
    BY <2>1
  <2>3. order[p] < order[q] \/ order[q] < order[p]
    BY <2>1 DEF Distinct
  <2>4. QED
    <3> HIDE DEF Below, n
    <3>1. Cardinality(Below(p)) \in Int
      BY <1>1, <1>2
    <3>2. QED
      BY <1>3, <2>2, <2>3, <3>1
<1>5. rank \in Injection(R, 0..n - 1)
  BY <1>2, <1>4 DEF Injection, IsInjective
<1>6. IsFiniteSet(0..n - 1) /\ Cardinality(0..n - 1) = n
  BY <1>1, FS_Interval
<1>7. rank \in Surjection(R, 0..n - 1)
  BY <1>5, <1>6, FS_Injection
<1>8. {rank[p] : p \in R} = 0..n - 1
  BY <1>7 DEF Surjection
<1>9. QED
  BY <1>4, <1>8 DEF InOrder, Distinct

LEMMA PoolPriorityKeeps ==
    ASSUME PoolInv, currentpool # None, PoolPriority
    PROVE  PoolInv'
<1> USE DEF PoolInv
<1>1. PICK S \in SUBSET Listed \ {{}} :
        \E f \in Bijection(S, 0..Cardinality(S) - 1) :
          /\ moved' = S
          /\ prio' = [p \in Pool |-> IF p \in S THEN f[p] ELSE prio[p]]
  BY DEF PoolPriority
<1> PICK f \in Bijection(S, 0..Cardinality(S) - 1) :
        /\ moved' = S
        /\ prio' = [p \in Pool |-> IF p \in S THEN f[p] ELSE prio[p]]
  BY <1>1
<1>2. /\ UNCHANGED <<pools, pool_no, enabled, health, removed, enabled_pools>>
      /\ UNCHANGED <<currentpool, target, raced>>
      /\ api = "idle" /\ api' = "prioRest"
  BY DEF PoolPriority, ApiGoto
<1>3. S \subseteq Listed /\ Listed \subseteq Pool /\ S \subseteq Pool
  BY <1>1, ListFacts
<1>4. Cardinality(S) \in Nat
  BY <1>3, ListSize, FS_Subset, FS_CardinalityType
<1>5. /\ \A p, q \in S : f[p] = f[q] => p = q
      /\ \A p \in S : f[p] \in 0..Cardinality(S) - 1
      /\ \A c \in 0..Cardinality(S) - 1 : \E p \in S : f[p] = c
  BY <1>1 DEF Bijection, Injection, Surjection, IsInjective
<1>6. Listed' = Listed /\ Total' = Total /\ NumberIsPlace'
  BY <1>2, SameList
<1>7. prio' \in [Pool -> Nat]
  BY <1>1, <1>4, <1>5 DEF TypeOK
<1>8. TypeOK'
  BY <1>1, <1>2, <1>3, <1>6, <1>7 DEF TypeOK
<1>9. PriorityInv'
  <2>1. InOrder(prio, Listed, Total)
    BY <1>2 DEF PriorityInv, Rearranging
  <2>2. InOrder(prio', moved', Cardinality(moved'))
    <3>1. \A p \in S : prio'[p] = f[p]
      BY <1>1, <1>3
    <3>2. QED
      BY <1>1, <1>5, <3>1 DEF InOrder, Distinct
  <2>3. Distinct(prio', Listed \ S)
    <3>1. \A p \in Listed \ S : prio'[p] = prio[p]
      BY <1>1, <1>3
    <3>2. QED
      BY <2>1, <3>1 DEF InOrder, Distinct
  <2>4. QED
    BY <1>1, <1>2, <1>3, <1>6, <2>2, <2>3 DEF PriorityInv, Rearranging
<1>10. TargetInv' /\ CurrentInv'
  BY <1>2, <1>6 DEF TargetInv, CurrentInv, Removing
<1>11. QED
  BY <1>6, <1>8, <1>9, <1>10

LEMMA PriorityRestKeeps ==
    ASSUME PoolInv, currentpool # None, PriorityRest
    PROVE  PoolInv'
<1> USE DEF PoolInv
<1> DEFINE rest == Listed \ moved
           m == Cardinality(moved)
           n == Cardinality(rest)
           rank == [p \in rest |-> Cardinality({q \in rest : prio[q] < prio[p]})]
<1>1. /\ UNCHANGED <<pools, pool_no, enabled, health, removed, enabled_pools>>
      /\ UNCHANGED <<currentpool, target, moved, raced>>
      /\ api = "prioRest" /\ api' = "prioSwitch"
  BY DEF PriorityRest, ApiGoto
<1>2. Listed' = Listed /\ Total' = Total /\ NumberIsPlace'
  BY <1>1, SameList
<1>3. moved \subseteq Listed /\ InOrder(prio, moved, m) /\ Distinct(prio, rest)
  BY <1>1 DEF PriorityInv
<1>4. Listed \subseteq Pool /\ rest \subseteq Pool
  BY ListFacts
<1>5. /\ IsFiniteSet(rest) /\ m \in Nat /\ n \in Nat /\ m + n = Total
  <2>1. IsFiniteSet(moved) /\ IsFiniteSet(rest)
    BY <1>3, ListSize, FS_Subset
  <2>2. moved \cup rest = Listed /\ moved \cap rest = {}
    BY <1>3
  <2>3. Cardinality(Listed) = m + n - Cardinality({})
    BY <2>1, <2>2, FS_Union
  <2>4. QED
    BY <2>1, <2>3, ListSize, FS_EmptySet, FS_CardinalityType
<1>6. InOrder(rank, rest, n)
  BY <1>3, <1>4, <1>5, RankIsOrder DEF TypeOK
<1>7. \A p \in rest : rank[p] \in 0..n - 1
  BY <1>6 DEF InOrder
<1>8. /\ \A p \in Pool : p \in rest => prio'[p] = m + rank[p]
      /\ \A p \in Pool : p \notin rest => prio'[p] = prio[p]
      /\ prio' \in [Pool -> Nat]
  <2>1. prio' = [p \in Pool |-> IF p \in rest THEN m + Cardinality({q \in rest : prio[q] < prio[p]})
                                ELSE prio[p]]
    BY DEF PriorityRest
  <2>2. \A p \in rest : rank[p] = Cardinality({q \in rest : prio[q] < prio[p]})
    OBVIOUS
  <2>3. prio' = [p \in Pool |-> IF p \in rest THEN m + rank[p] ELSE prio[p]]
    BY <2>1, <2>2
  <2>4. \A p \in Pool : (IF p \in rest THEN m + rank[p] ELSE prio[p]) \in Nat
    <3> HIDE DEF rank, m, n
    <3>1. QED
      BY <1>5, <1>7 DEF TypeOK
  <2>5. QED
    BY <2>3, <2>4
<1>9. \A p \in moved : prio'[p] = prio[p] /\ prio[p] \in 0..m - 1
  BY <1>3, <1>4, <1>8 DEF InOrder
<1>10. \A p \in rest : prio'[p] = m + rank[p]
  BY <1>4, <1>8
<1>11. InOrder(prio', Listed, Total)
  <2> HIDE DEF rank, m, n
  <2>1. \A p \in Listed : p \in moved \/ p \in rest
    OBVIOUS
  <2>2. \A p \in Listed : prio'[p] \in 0..Total - 1
    BY <1>5, <1>7, <1>9, <1>10, <2>1
  <2>3. Distinct(prio', Listed)
    <3>1. SUFFICES ASSUME NEW p \in Listed, NEW q \in Listed, prio'[p] = prio'[q]
                   PROVE  p = q
      BY DEF Distinct
    <3>2. CASE p \in moved /\ q \in moved
      BY <1>3, <1>9, <3>1, <3>2 DEF InOrder, Distinct
    <3>3. CASE p \in rest /\ q \in rest
      <4>1. rank[p] = rank[q]
        BY <1>5, <1>7, <1>10, <3>1, <3>3
      <4>2. QED
        BY <1>6, <3>3, <4>1 DEF InOrder, Distinct
    <3>4. CASE (p \in moved /\ q \in rest) \/ (p \in rest /\ q \in moved)
      BY <1>5, <1>7, <1>9, <1>10, <3>1, <3>4
    <3>5. QED
      BY <2>1, <3>2, <3>3, <3>4
  <2>4. ASSUME NEW c \in 0..Total - 1
        PROVE  \E p \in Listed : prio'[p] = c
    <3>1. CASE c < m
      <4>1. c \in 0..m - 1
        BY <1>5, <3>1
      <4>2. PICK p \in moved : prio[p] = c
        BY <1>3, <4>1 DEF InOrder
      <4>3. QED
        BY <1>3, <1>9, <4>2
    <3>2. CASE c >= m
      <4>1. c - m \in 0..n - 1
        BY <1>5, <3>2
      <4>2. PICK p \in rest : rank[p] = c - m
        BY <1>6, <4>1 DEF InOrder
      <4>3. prio'[p] = c
        BY <1>5, <1>10, <4>2
      <4>4. QED
        BY <4>3
    <3>3. QED
      BY <1>5, <3>1, <3>2
  <2>5. QED
    BY <2>2, <2>3, <2>4 DEF InOrder
<1>12. TypeOK'
  BY <1>1, <1>2, <1>8 DEF TypeOK
<1>13. PriorityInv'
  BY <1>1, <1>2, <1>11 DEF PriorityInv, Rearranging
<1>14. TargetInv' /\ CurrentInv'
  BY <1>1, <1>2 DEF TargetInv, CurrentInv, Removing
<1>15. QED
  BY <1>2, <1>12, <1>13, <1>14

LEMMA AddPoolKeeps ==
    ASSUME PoolInv, currentpool # None, NEW p \in Pool, AddPool(p)
    PROVE  PoolInv'
<1> USE DEF PoolInv
<1>1. /\ pools' = Append(pools, p) /\ p \notin Listed /\ ~removed[p]
      /\ pool_no' = [pool_no EXCEPT ![p] = Total] /\ prio' = [prio EXCEPT ![p] = Total]
      /\ UNCHANGED <<removed, currentpool, api, target, moved, raced>> /\ api = "idle"
  BY DEF AddPool
<1>2. /\ Total \in Nat \ {0} /\ DOMAIN pools = 1..Total /\ Listed \subseteq Pool
      /\ \A i \in 1..Total : pools[i] \in Listed /\ pool_no[pools[i]] = i - 1
      /\ \A q \in Listed : ~removed[q] /\ \E i \in 1..Total : pools[i] = q
  BY ListFacts DEF Listed
<1>3. /\ pools' \in Seq(Pool) /\ Total' = Total + 1 /\ DOMAIN pools' = 1..Total + 1
      /\ \A i \in 1..Total : pools'[i] = pools[i]
      /\ pools'[Total + 1] = p
  BY <1>1, <1>2, AppendProperties, LenProperties DEF TypeOK, Total
<1>4. Listed' = Listed \cup {p}
  <2>1. Listed' = {pools'[i] : i \in 1..Total + 1}
    BY <1>3 DEF Listed
  <2>2. \A i \in 1..Total + 1 : i \in 1..Total \/ i = Total + 1
    BY <1>2
  <2>3. \A i \in 1..Total + 1 : pools'[i] \in Listed \cup {p}
    BY <1>2, <1>3, <2>2
  <2>4. \A i \in 1..Total : i \in 1..Total + 1
    BY <1>2
  <2>5. Total + 1 \in 1..Total + 1
    BY <1>2
  <2>6. \A q \in Listed \cup {p} : \E i \in 1..Total + 1 : pools'[i] = q
    BY <1>2, <1>3, <2>4, <2>5
  <2>7. QED
    BY <2>1, <2>3, <2>6
<1>5. TypeOK'
  <2>1. pool_no' \in [Pool -> Nat] /\ prio' \in [Pool -> Nat]
    BY <1>1, <1>2 DEF TypeOK
  <2>2. /\ enabled' \in [Pool -> {"disabled", "enabled", "rejecting"}]
        /\ health' \in [Pool -> {"idle", "offline", "good"}] /\ enabled_pools' \in Int
    BY DEF AddPool, TypeOK
  <2>3. Total' > 0
    BY <1>2, <1>3
  <2>4. QED
    BY <1>1, <1>3, <2>1, <2>2, <2>3 DEF TypeOK
<1>6. NumberIsPlace'
  <2>1. SUFFICES ASSUME NEW i \in 1..Total + 1
                 PROVE  pool_no'[pools'[i]] = i - 1 /\ ~removed'[pools'[i]]
    BY <1>3 DEF NumberIsPlace
  <2>2. CASE i \in 1..Total
    <3>1. pools[i] \in Listed /\ pools[i] # p /\ pools[i] \in Pool
      BY <1>1, <1>2, <2>2
    <3>2. pool_no'[pools[i]] = pool_no[pools[i]]
      BY <1>1, <3>1 DEF TypeOK
    <3>3. QED
      BY <1>1, <1>2, <1>3, <2>2, <3>1, <3>2
  <2>3. CASE i = Total + 1
    <3>1. pool_no'[p] = Total
      BY <1>1 DEF TypeOK
    <3>2. QED
      BY <1>1, <1>2, <1>3, <2>3, <3>1
  <2>4. QED
    BY <1>2, <2>2, <2>3
<1>7. InOrder(prio', Listed', Total')
  <2>1. InOrder(prio, Listed, Total)
    BY <1>1 DEF PriorityInv, Rearranging
  <2>2. \A q \in Listed : prio'[q] = prio[q] /\ prio[q] \in 0..Total - 1
    BY <1>1, <1>2, <2>1 DEF InOrder, TypeOK
  <2>3. prio'[p] = Total
    BY <1>1 DEF TypeOK
  <2>4. \A q \in Listed \cup {p} : prio'[q] \in 0..Total
    <3>1. ASSUME NEW q \in Listed
          PROVE  prio'[q] \in 0..Total
      <4>1. prio'[q] = prio[q] /\ prio[q] \in 0..Total - 1 /\ Total \in Nat
        BY <1>2, <2>2
      <4>2. QED
        BY <4>1
    <3>2. prio'[p] \in 0..Total
      BY <1>2, <2>3
    <3>3. QED
      BY <3>1, <3>2
  <2>5. \A c \in 0..Total : \E q \in Listed \cup {p} : prio'[q] = c
    <3>1. TAKE c \in 0..Total
    <3>2. CASE c = Total
      BY <2>3, <3>2
    <3>3. CASE c # Total
      <4>1. c \in 0..Total - 1
        BY <1>2, <3>3
      <4>2. PICK q \in Listed : prio[q] = c
        BY <2>1, <4>1 DEF InOrder
      <4>3. QED
        BY <2>2, <4>2
    <3>4. QED
      BY <3>2, <3>3
  <2>6. Distinct(prio', Listed \cup {p})
    <3>1. \A q \in Listed : prio'[q] # prio'[p]
      BY <1>2, <2>2, <2>3
    <3>2. \A q, r \in Listed : prio'[q] = prio'[r] => q = r
      BY <2>1, <2>2 DEF InOrder, Distinct
    <3>3. QED
      BY <3>1, <3>2 DEF Distinct
  <2>7. (Total + 1) - 1 = Total
    BY <1>2
  <2>8. QED
    BY <1>3, <1>4, <2>4, <2>5, <2>6, <2>7 DEF InOrder
<1>8. PriorityInv' /\ TargetInv' /\ CurrentInv'
  BY <1>1, <1>4, <1>7 DEF PriorityInv, TargetInv, CurrentInv, Rearranging, Removing
<1>9. QED
  BY <1>5, <1>6, <1>8

LEMMA RemoveShiftKeeps ==
    ASSUME PoolInv, currentpool # None, RemoveShift
    PROVE  PoolInv'
<1> USE DEF PoolInv
<1>1. /\ UNCHANGED <<pools, pool_no, enabled, health, removed, enabled_pools>>
      /\ UNCHANGED <<currentpool, target, moved, raced>>
      /\ api = "rmShift" /\ api' = "rmSwap"
      /\ prio' = [p \in Pool |-> IF p \in Listed /\ prio[p] > prio[target] THEN prio[p] - 1
                                 ELSE prio[p]]
  BY DEF RemoveShift, ApiGoto
<1>2. Listed' = Listed /\ Total' = Total /\ NumberIsPlace'
  BY <1>1, SameList
<1>3. target \in Listed /\ Total > 1 /\ Total \in Nat /\ Listed \subseteq Pool
  BY <1>1, ListFacts DEF TargetInv, Removing
<1>4. InOrder(prio, Listed, Total)
  BY <1>1 DEF PriorityInv, Rearranging
<1>5. \A p \in Listed : prio[p] \in 0..Total - 1
  BY <1>4 DEF InOrder
<1>6. \A p \in Listed \ {target} : prio[p] # prio[target]
  BY <1>3, <1>4 DEF InOrder, Distinct
<1>7. \A p \in Listed : prio'[p] = IF prio[p] > prio[target] THEN prio[p] - 1 ELSE prio[p]
  BY <1>1, <1>3
<1>8. prio' \in [Pool -> Nat]
  BY <1>1, <1>3 DEF TypeOK
<1>9. InOrder(prio', Listed \ {target}, Total - 1)
  <2> DEFINE k == prio[target]
  <2>1. k \in 0..Total - 1
    BY <1>3, <1>5
  <2>2. \A p \in Listed \ {target} : prio'[p] \in 0..(Total - 1) - 1
    BY <1>3, <1>5, <1>6, <1>7, <2>1
  <2>3. \A p, q \in Listed : prio[p] = prio[q] => p = q
    BY <1>4 DEF InOrder, Distinct
  <2>4. Distinct(prio', Listed \ {target})
    <3>1. SUFFICES ASSUME NEW p \in Listed \ {target}, NEW q \in Listed \ {target},
                          prio'[p] = prio'[q]
                   PROVE  prio[p] = prio[q]
      BY <2>3 DEF Distinct
    <3>2. prio[p] \in Int /\ prio[q] \in Int /\ prio[p] # k /\ prio[q] # k
      BY <1>5, <1>6
    <3>3. QED
      BY <1>7, <2>1, <3>1, <3>2
  <2>5. ASSUME NEW c \in 0..(Total - 1) - 1
        PROVE  \E p \in Listed \ {target} : prio'[p] = c
    <3>1. CASE c < k
      <4>1. c \in 0..Total - 1
        BY <1>3
      <4>2. PICK p \in Listed : prio[p] = c
        BY <1>4, <4>1 DEF InOrder
      <4>3. p # target /\ prio'[p] = c
        BY <1>7, <2>1, <3>1, <4>2
      <4>4. QED
        BY <4>3
    <3>2. CASE c >= k
      <4>1. c + 1 \in 0..Total - 1
        BY <1>3
      <4>2. PICK p \in Listed : prio[p] = c + 1
        BY <1>4, <4>1 DEF InOrder
      <4>3. p # target /\ prio'[p] = c
        BY <1>7, <2>1, <3>2, <4>2
      <4>4. QED
        BY <4>3
    <3>3. QED
      BY <2>1, <3>1, <3>2
  <2>6. QED
    BY <2>2, <2>4, <2>5 DEF InOrder
<1>10. TypeOK'
  BY <1>1, <1>2, <1>8 DEF TypeOK
<1>11. PriorityInv'
  BY <1>1, <1>2, <1>9 DEF PriorityInv, Rearranging
<1>12. TargetInv' /\ CurrentInv'
  BY <1>1, <1>2, <1>3 DEF TargetInv, CurrentInv, Removing
<1>13. QED
  BY <1>2, <1>10, <1>11, <1>12

LEMMA RemoveSwapKeeps ==
    ASSUME PoolInv, currentpool # None, RemoveSwap
    PROVE  PoolInv'
<1> USE DEF PoolInv
<1> DEFINE last == pools[Total]
           at == pool_no[target] + 1
           swapped == [pools EXCEPT ![at] = last]
<1>1. /\ UNCHANGED <<currentpool, prio, enabled, health, enabled_pools, raced>>
      /\ api = "rmSwap" /\ api' = "idle" /\ target' = None /\ moved' = {}
      /\ pools' = SubSeq(swapped, 1, Total - 1)
      /\ pool_no' = [pool_no EXCEPT ![last] = pool_no[target], ![target] = Total]
      /\ removed' = [removed EXCEPT ![target] = TRUE]
  BY DEF RemoveSwap, ApiGoto, Done, switchVars
<1>2. target \in Listed /\ Total > 1
  BY <1>1 DEF TargetInv, Removing
<1>3. /\ Total \in Nat \ {0} /\ DOMAIN pools = 1..Total /\ Listed \subseteq Pool
      /\ \A i \in 1..Total : pools[i] \in Listed /\ pool_no[pools[i]] = i - 1
      /\ at \in 1..Total /\ pools[at] = target /\ last \in Listed
      /\ pool_no[last] = Total - 1
      /\ \A q \in Listed : ~removed[q]
  BY <1>2, ListFacts
<1>4. \A i \in 1..Total : swapped[i] = IF i = at THEN last ELSE pools[i]
  BY <1>3
<1>5. /\ pools' \in Seq(Pool) /\ Len(pools') = Total - 1
      /\ \A i \in 1..Total - 1 : pools'[i] = IF i = at THEN last ELSE pools[i]
  <2>1. \A i \in 1..Total - 1 : i \in 1..Total /\ swapped[i] \in Pool
    BY <1>3, <1>4
  <2>2. /\ SubSeq(swapped, 1, Total - 1) \in Seq(Pool)
        /\ Len(SubSeq(swapped, 1, Total - 1)) = IF 1 <= Total - 1 THEN (Total - 1) - 1 + 1 ELSE 0
        /\ \A i \in 1..(Total - 1) - 1 + 1 :
             SubSeq(swapped, 1, Total - 1)[i] = swapped[1 + i - 1]
    BY <1>3, <2>1, SubSeqProperties
  <2>3. \A i \in 1..Total - 1 : 1 + i - 1 = i /\ i \in 1..(Total - 1) - 1 + 1
    BY <1>3
  <2>4. (IF 1 <= Total - 1 THEN (Total - 1) - 1 + 1 ELSE 0) = Total - 1
    BY <1>2, <1>3
  <2>5. QED
    BY <1>1, <1>4, <2>1, <2>2, <2>3, <2>4
<1>6. Total' = Total - 1 /\ DOMAIN pools' = 1..Total - 1
  BY <1>5, LenProperties DEF Total
<1>7. Listed' = Listed \ {target}
  <2>1. Listed' = {pools'[i] : i \in 1..Total - 1}
    BY <1>6 DEF Listed
  <2>2. ASSUME NEW i \in 1..Total - 1
        PROVE  pools'[i] \in Listed \ {target}
    <3>1. i \in 1..Total /\ i # Total
      BY <1>3
    <3>2. CASE i = at
      <4>1. last # target
        BY <1>3, <3>1, <3>2
      <4>2. QED
        BY <1>3, <1>5, <3>2, <4>1
    <3>3. CASE i # at
      <4>1. pools[i] # target
        BY <1>3, <3>1, <3>3
      <4>2. QED
        BY <1>3, <1>5, <3>1, <3>3, <4>1
    <3>4. QED
      BY <3>2, <3>3
  <2>3. ASSUME NEW q \in Listed \ {target}
        PROVE  \E i \in 1..Total - 1 : pools'[i] = q
    <3>1. PICK i \in 1..Total : pools[i] = q
      BY <1>3 DEF Listed
    <3>2. i # at
      BY <1>3, <3>1
    <3>3. CASE i = Total
      <4>1. at \in 1..Total - 1 /\ q = last
        BY <1>3, <3>1, <3>2, <3>3
      <4>2. pools'[at] = q
        BY <1>5, <4>1
      <4>3. QED
        BY <4>1, <4>2
    <3>4. CASE i # Total
      <4>1. i \in 1..Total - 1
        BY <1>3, <3>4
      <4>2. pools'[i] = q
        BY <1>5, <3>1, <3>2, <4>1
      <4>3. QED
        BY <4>1, <4>2
    <3>5. QED
      BY <3>3, <3>4
  <2>4. QED
    BY <2>1, <2>2, <2>3
<1>8. /\ pool_no' \in [Pool -> Nat]
      /\ last # target => pool_no'[last] = pool_no[target]
      /\ \A q \in Pool \ {last, target} : pool_no'[q] = pool_no[q]
  BY <1>1, <1>2, <1>3 DEF TypeOK
<1>9. TypeOK'
  <2>1. Total' > 0
    BY <1>2, <1>3, <1>6
  <2>2. removed' \in [Pool -> BOOLEAN]
    BY <1>1 DEF TypeOK
  <2>3. target' \in Pool \cup {None} /\ moved' \subseteq Pool
    BY <1>1
  <2>4. QED
    BY <1>1, <1>5, <1>8, <2>1, <2>2, <2>3 DEF TypeOK
<1>10. NumberIsPlace'
  <2>1. SUFFICES ASSUME NEW i \in 1..Total - 1
                 PROVE  pool_no'[pools'[i]] = i - 1 /\ ~removed'[pools'[i]]
    BY <1>6 DEF NumberIsPlace
  <2>2. i \in 1..Total /\ i # Total
    BY <1>3
  <2>3. pools'[i] \in Listed \ {target} /\ pools'[i] \in Pool
    BY <1>3, <1>6, <1>7 DEF Listed
  <2>4. ~removed'[pools'[i]]
    BY <1>1, <1>3, <2>3 DEF TypeOK
  <2>5. CASE i = at
    <3>1. pools'[i] = last
      BY <1>5, <2>5
    <3>2. pool_no'[last] = i - 1
      BY <1>3, <1>8, <2>3, <2>5, <3>1
    <3>3. QED
      BY <2>4, <3>1, <3>2
  <2>6. CASE i # at
    <3>1. pools'[i] = pools[i] /\ pools[i] # last
      BY <1>3, <1>5, <2>2, <2>6
    <3>2. QED
      BY <1>3, <1>8, <2>2, <2>3, <2>4, <3>1
  <2>7. QED
    BY <2>5, <2>6
<1>11. InOrder(prio', Listed', Total')
  BY <1>1, <1>6, <1>7 DEF PriorityInv
<1>12. PriorityInv' /\ TargetInv'
  BY <1>1, <1>11 DEF PriorityInv, TargetInv, Rearranging, Removing
<1>13. CurrentInv'
  BY <1>1, <1>7 DEF CurrentInv, Removing
<1>14. QED
  BY <1>9, <1>10, <1>12, <1>13

LEMMA NextPoolInv ==
    ASSUME PoolInv, [Next]_vars
    PROVE  PoolInv'
<1>1. CASE Next
  <2>1. currentpool # None
    BY <1>1 DEF Next
  <2>2. CASE OtherStep
    BY <2>1, <2>2, OtherStepKeeps
  <2>3. CASE \/ \E p \in Pool : \/ SwitchPoolCommand(p) \/ EnablePool(p) \/ DisablePool(p)
                                \/ RemovePool(p)
             \/ ApiSwitch \/ EnableSwitch \/ DisableSwitch \/ PrioritySwitch
             \/ RemoveCheck \/ RemoveDisable
    BY <2>1, <2>3, SwitchingStepKeeps
  <2>4. CASE \/ \E p \in Pool : AddPool(p)
             \/ PoolPriority \/ PriorityRest \/ RemoveShift \/ RemoveSwap
    BY <2>1, <2>4, AddPoolKeeps, PoolPriorityKeeps, PriorityRestKeeps, RemoveShiftKeeps,
       RemoveSwapKeeps
  <2>5. QED
    BY <1>1, <2>2, <2>3, <2>4 DEF Next, ApiStep
<1>2. CASE UNCHANGED vars
  <2>1. /\ UNCHANGED <<pools, pool_no, prio, enabled, health, removed, enabled_pools>>
        /\ UNCHANGED <<currentpool, api, target, moved, raced>>
    BY <1>2 DEF vars
  <2>2. Listed' = Listed /\ Total' = Total
    BY <2>1 DEF Listed, Total
  <2>3. TypeOK' /\ NumberIsPlace'
    BY <2>1, <2>2 DEF PoolInv, TypeOK, NumberIsPlace
  <2>4. PriorityInv' /\ TargetInv' /\ CurrentInv'
    BY <2>1, <2>2 DEF PoolInv, PriorityInv, TargetInv, CurrentInv, InOrder, Distinct,
                      Rearranging, Removing
  <2>5. QED
    BY <2>3, <2>4 DEF PoolInv
<1>3. QED
  BY <1>1, <1>2

LEMMA PoolInvHolds == Spec => []PoolInv
<1>1. Init => PoolInv
  BY InitPoolInv
<1>2. PoolInv /\ [Next]_vars => PoolInv'
  BY NextPoolInv
<1>3. QED
  BY <1>1, <1>2, PTL DEF Spec

-----------------------------------------------------------------------------
(* The theorems.                                                           *)

\* The types of the pools' variables; no priority ever becomes negative, and the last
\* pool is never removed, whatever the commands.
THEOREM PoolTypes == Spec => []TypeOK
<1>1. PoolInv => TypeOK
  BY DEF PoolInv
<1>2. QED
  BY <1>1, PoolInvHolds, PTL

\* Between commands the priorities are a permutation, and every pool's number is its
\* place, whatever commands came before and whatever switches ran between their steps.
THEOREM PoolListIsConsistent == Spec => []ListIsConsistent
<1>1. PoolInv => ListIsConsistent
  BY DEF PoolInv, PriorityInv, InOrder, ListIsConsistent, PriorityIsPermutation
<1>2. QED
  BY <1>1, PoolInvHolds, PTL

\* removepool leaves the removed pool current, or the current pool undefined, only if
\* another thread switched pools between its check and the end of remove_pool.
THEOREM PoolRemovedNotCurrent == Spec => []RemovedNotCurrent
<1>1. ASSUME PoolInv
      PROVE  RemovedNotCurrent
  <2>1. None \notin Listed /\ \A p \in Listed : ~removed[p]
    BY <1>1, ListFacts, PoolControlAssumption DEF PoolInv
  <2>2. QED
    BY <1>1, <2>1 DEF PoolInv, CurrentInv, RemovedNotCurrent
<1>2. QED
  BY <1>1, PoolInvHolds, PTL

\* A switch by priority to no pool in particular.
LEMMA ByPriorityFindsUsable ==
    ASSUME PoolInv, ~Rearranging, ~raced, OtherSwitch, ~RoundRobin,
           NEW p \in Usable \cap Listed
    PROVE  currentpool' \in Usable /\ prio[currentpool'] <= prio[p]
<1> USE DEF PoolInv
<1>1. currentpool' = FirstUsable(prio, Usable)
  BY DEF OtherSwitch, SwitchByOther, SwitchPools, Raise
<1>2. currentpool \in Pool
  BY ListFacts DEF CurrentInv
<1>3. InOrder(prio, Listed, Total) /\ prio[p] \in 0..Total - 1
  BY DEF PriorityInv, InOrder
<1>4. PriorityPool(prio, prio[p]) = p
  BY <1>3, PriorityPoolFacts DEF InOrder, Distinct
<1>5. PICK d \in 0..prio[p] : /\ FirstUsable(prio, Usable) \in Usable
                              /\ FirstUsable(prio, Usable) = PriorityPool(prio, d)
  BY <1>2, <1>3, <1>4, FirstUsableFacts
<1>6. d \in 0..Total - 1 /\ d <= prio[p]
  BY <1>3, ListFacts
<1>7. prio[PriorityPool(prio, d)] = d
  <2>1. \E q \in Listed : prio[q] = d
    BY <1>3, <1>6 DEF InOrder
  <2>2. QED
    BY <1>6, <2>1, PriorityPoolFacts
<1>8. QED
  BY <1>1, <1>5, <1>6, <1>7

\* One that goes round the list.
LEMMA RoundFindsUsable ==
    ASSUME PoolInv, ~raced, OtherSwitch, RoundRobin, NEW p \in Usable \cap Listed
    PROVE  currentpool' \in Usable
<1> USE DEF PoolInv
<1> DEFINE no == pool_no[currentpool]
           Ahead(i) == pools[((no + i) % Total) + 1]
           steps == {i \in 1..Total - 1 : Ahead(i) \in Usable}
<1>1. /\ currentpool \in Listed /\ no \in 0..Total - 1 /\ no < Total
      /\ Total \in Nat \ {0} /\ pools[no + 1] = currentpool
      /\ pool_no[p] \in 0..Total - 1 /\ pools[pool_no[p] + 1] = p
  BY ListFacts DEF CurrentInv
<1>2. currentpool' = NextUsable(None, Usable)
  BY DEF OtherSwitch, SwitchByOther, SwitchPools
<1>3. currentpool' = IF steps = {} THEN AtNumber(no)
                     ELSE Ahead(CHOOSE i \in steps : \A j \in steps : i <= j)
  BY <1>1, <1>2 DEF NextUsable
<1>4. CASE p = currentpool /\ steps = {}
  BY <1>1, <1>3, <1>4, AtNumberFacts
<1>5. CASE steps # {}
  <2>1. steps \subseteq Nat
    BY <1>1
  <2>2. \E i \in steps : \A j \in steps : i <= j
    BY <1>5, <2>1, LeastNat
  <2>3. PICK i \in steps : currentpool' = Ahead(i)
    BY <1>3, <1>5, <2>2
  <2>4. QED
    BY <2>3
<1>6. CASE p # currentpool
  <2> DEFINE ahead == IF pool_no[p] > no THEN pool_no[p] - no ELSE pool_no[p] - no + Total
  <2>1. pool_no[p] # no
    BY <1>1, <1>6
  <2>2. ahead \in 1..Total - 1 /\ ahead \in 0..Total - 1
    BY <1>1, <2>1
  <2>3. (no + ahead) % Total = pool_no[p]
    <3>1. (no + ahead) % Total = IF no + ahead < Total THEN no + ahead ELSE no + ahead - Total
      BY <1>1, <2>2, Wrap
    <3>2. QED
      BY <1>1, <2>1, <3>1
  <2>4. ahead \in steps
    BY <1>1, <2>2, <2>3
  <2>5. QED
    BY <1>5, <2>4
<1>7. QED
  BY <1>4, <1>5, <1>6

\* A switch to no pool in particular never ends at an unusable pool while a listed one
\* is usable, nor, by priority, at one with a usable pool before it.
THEOREM PoolSwitchFindsUsable == Spec => SwitchFindsUsable
<1>1. PoolInv /\ [Next]_vars =>
        [~Rearranging /\ ~raced /\ OtherSwitch =>
            /\ currentpool' \in Usable \/ Usable \cap Listed = {}
            /\ ~RoundRobin =>
                  \A p \in Usable \cap Listed : prio[currentpool'] <= prio[p]]_vars
  <2>1. SUFFICES ASSUME PoolInv, ~Rearranging, ~raced, OtherSwitch
                 PROVE  /\ currentpool' \in Usable \/ Usable \cap Listed = {}
                        /\ ~RoundRobin =>
                             \A p \in Usable \cap Listed : prio[currentpool'] <= prio[p]
    OBVIOUS
  <2>2. ASSUME NEW p \in Usable \cap Listed
        PROVE  /\ currentpool' \in Usable
               /\ ~RoundRobin => prio[currentpool'] <= prio[p]
    <3>1. CASE RoundRobin
      BY <2>1, <2>2, <3>1, RoundFindsUsable
    <3>2. CASE ~RoundRobin
      BY <2>1, <2>2, <3>2, ByPriorityFindsUsable
    <3>3. QED
      BY <3>1, <3>2
  <2>3. QED
    BY <2>2
<1>2. QED
  BY <1>1, PoolInvHolds, PTL DEF Spec, SwitchFindsUsable
=============================================================================
