------------------------------- MODULE PoolQuota -------------------------------
(***************************************************************************)
(* The load-balance strategy: in a round each pool is selected as often as *)
(* its reduced quota says, in rotation, and a discarded work gives its     *)
(* place back.  The API changes quotas at any time; adjust_quota_gcd then  *)
(* reduces all of them by a common divisor and rescales what was used, in  *)
(* the arithmetic of an int multiplied and divided as an unsigned long.    *)
(*                                                                         *)
(* select_pool and adjust_quota_gcd are each one step.  Pools are numbered *)
(* as in pools[], and no pool comes or goes: that is PoolControl's matter. *)
(***************************************************************************)
EXTENDS Integers, FiniteSets

CONSTANTS
    N,              \* total_pools
    Quotas,         \* the quotas the API may give
    IntMod,         \* the range of an int, a power of two
    LongMod,        \* the range of an unsigned long, a greater one
    MaxOut,         \* bound on the unmined works of a pool
    MaxChanges      \* bound on the changes of quotas

\* An int is less than this.
HalfInt == IntMod \div 2

QuotaAssumption ==
    /\ N \in Nat \ {0} /\ Quotas \subseteq 0..HalfInt - 1
    /\ MaxOut \in Nat /\ MaxChanges \in Nat
    /\ IntMod \in Nat /\ HalfInt > 1 /\ IntMod % 2 = 0 /\ LongMod \in Nat /\ LongMod > IntMod

Pool == 0..N - 1

VARIABLES
    quota,          \* pool->quota
    quota_gcd,      \* pool->quota_gcd
    quota_used,     \* pool->quota_used
    global_quota_gcd,
    rotating_pool,
    usable,         \* usable[p]: not pool_unusable(p)
    spc,            \* the main scheduler: about to select, or to select again
    out,            \* out[p]: unmined works of p
    last,           \* the pool the last round of the loop made work for, or N
    changes,        \* changes of quotas so far
    steady,         \* pools usable since the last reset, no quota changed since
    due,            \* due[p]: selections its quota still promises p, if p is steady
    net             \* net[p]: selections of p less discards since then, if p is steady

quotaVars == <<quota, quota_gcd, global_quota_gcd, changes>>
roundVars == <<quota_used, rotating_pool, due, net, steady>>
vars == <<quotaVars, roundVars, usable, spc, out, last>>

\* Bound: no counter goes past the end of an int, where C leaves it undefined.
CountersFit == quota_used' \in [Pool -> -HalfInt..HalfInt - 1]

\* The conversion of an unsigned long to an int.
ToInt(x) == LET y == x % IntMod IN IF 2 * y >= IntMod THEN y - IntMod ELSE y

-----------------------------------------------------------------------------
(* Quotas.                                                                 *)

\* while(quota % gcd) gcd--
DivisorFrom(q, g) == CHOOSE d \in 1..g : q % d = 0 /\ \A e \in d + 1..g : q % e # 0

\* One that starts from the highest quota and stops there.
DivisorHighest(qs) == CHOOSE q \in ({qs[p] : p \in Pool} \cup {1}) \ {0} : \A p \in Pool : qs[p] <= q

\* Downward from the lowest quota, one pool after the other; 1 if all are zero.
Divisor(qs) ==
    LET some == {p \in Pool : qs[p] # 0}
        lowest == CHOOSE q \in {qs[p] : p \in some} : \A p \in some : q <= qs[p]
        d[i \in 0..N] == IF i = 0 THEN lowest
                         ELSE IF qs[i - 1] = 0 THEN d[i - 1] ELSE DivisorFrom(qs[i - 1], d[i - 1])
    IN  IF some = {} THEN 1 ELSE d[N]

\* One that forgets to divide.
RescaledUp(used, old, g) == ToInt((used % LongMod) * old)

\* One that keeps the result a long.
RescaledLong(used, old, g) == ((used % LongMod) * old % LongMod) \div g

\* quota_used *= global_quota_gcd; quota_used /= gcd
Rescaled(used, old, g) ==
    ToInt((ToInt((used % LongMod) * old) % LongMod) \div g)

\* adjust_quota_gcd, for the quotas qs.
AdjustQuotaGcd(qs) ==
    LET g == Divisor(qs) IN
    /\ quota' = qs
    /\ quota_gcd' = [p \in Pool |-> qs[p] \div g]
    /\ quota_used' = [p \in Pool |-> Rescaled(quota_used[p], global_quota_gcd, g)]
    /\ global_quota_gcd' = g

Nothing == [p \in Pool |-> 0]

\* Every pool is added with quota 1.
Init ==
    /\ quota = [p \in Pool |-> 1] /\ quota_gcd = quota
    /\ global_quota_gcd = 1 /\ changes = 0
    /\ quota_used = Nothing /\ rotating_pool = 0
    /\ usable \in [Pool -> BOOLEAN]
    /\ spc = "select" /\ out = Nothing /\ last = N
    /\ steady = {p \in Pool : usable[p]}
    /\ due = [p \in Pool |-> IF usable[p] THEN 1 ELSE 0] /\ net = Nothing

\* The poolquota command.  The works staged before stay.
SetQuota(p) ==
    /\ changes < MaxChanges /\ changes' = changes + 1
    /\ \E q \in Quotas \ {quota[p]} : AdjustQuotaGcd([quota EXCEPT ![p] = q])
    /\ steady' = {} /\ due' = Nothing /\ net' = Nothing
    /\ UNCHANGED <<rotating_pool, usable, spc, out, last>>

-----------------------------------------------------------------------------
(* select_pool.                                                            *)

\* A test of the pool whose turn it is only.
AvailableHere == quota_used[rotating_pool] < quota_gcd[rotating_pool]

Available == \E p \in Pool : quota_used[p] < quota_gcd[p]

\* What is used and whose turn it is when the search begins: all is reset and the
\* turn moves on if no pool has any quota left.
Used0 == IF Available THEN quota_used ELSE Nothing
Turn0 == IF Available THEN rotating_pool ELSE (rotating_pool + 1) % N

\* The place of the k-th pool of the search.
Place(k) == (Turn0 + k) % N

\* The search ends at the first pool with quota left that is usable.
Found == {k \in Pool : Used0[Place(k)] < quota_gcd[Place(k)] /\ usable[Place(k)]}

\* By priority, here that of the numbers; the current pool, here the first, if
\* nothing is usable.
ByPriority ==
    IF \E p \in Pool : usable[p]
    THEN CHOOSE p \in Pool : usable[p] /\ \A q \in 0..p - 1 : ~usable[q]
    ELSE 0

\* quota_used++ of every pool the search comes to, whether it has quota left or not.
CountVisited(visited) ==
    quota_used' = [p \in Pool |-> IF p \in visited THEN Used0[p] + 1 ELSE Used0[p]]

\* The call; sel is the pool it returns.
SelectPool(sel) ==
    LET first == CHOOSE k \in Found : \A j \in Found : k <= j
        now == IF Available THEN steady ELSE {p \in Pool : usable[p]}
        due0(p) == IF Available THEN due[p] ELSE IF p \in now THEN quota_gcd[p] ELSE 0
        net0(p) == IF Available THEN net[p] ELSE 0
    IN  /\ sel = IF Found # {} THEN Place(first) ELSE ByPriority
        /\ rotating_pool' = IF Found # {} THEN Place(first) ELSE Turn0
        /\ CountVisited(IF Found # {} THEN {Place(k) : k \in 0..first} ELSE Pool)
        /\ CountersFit
        /\ steady' = now
        /\ due' = [p \in Pool |-> IF p = sel /\ due0(p) > 0 THEN due0(p) - 1 ELSE due0(p)]
        /\ net' = [p \in Pool |-> IF p = sel /\ p \in now THEN net0(p) + 1 ELSE net0(p)]

\* The loop of the scheduler: work is made for the pool, if it is usable; if not,
\* select_pool is called once more for its effects only.
Select ==
    \E sel \in Pool :
        /\ spc = "select" /\ out[sel] < MaxOut /\ SelectPool(sel)
        /\ IF usable[sel] THEN last' = sel /\ out' = [out EXCEPT ![sel] = @ + 1] /\ spc' = spc
                          ELSE spc' = "again" /\ UNCHANGED <<last, out>>
        /\ UNCHANGED <<quotaVars, usable>>

SelectAgain ==
    /\ spc = "again" /\ spc' = "select"
    /\ \E sel \in Pool : SelectPool(sel)
    /\ UNCHANGED <<quotaVars, usable, out, last>>

-----------------------------------------------------------------------------
(* The works and the pools.                                                *)

\* get_work: the work counts as mined from now on.
Mine(p) ==
    /\ out[p] > 0 /\ out' = [out EXCEPT ![p] = @ - 1]
    /\ UNCHANGED <<quotaVars, roundVars, usable, spc, last>>

\* discard_work.
Discard(p) ==
    /\ out[p] > 0 /\ out' = [out EXCEPT ![p] = @ - 1]
    /\ quota_used' = [quota_used EXCEPT ![p] = @ - 1] /\ CountersFit
    /\ net' = IF p \in steady THEN [net EXCEPT ![p] = @ - 1] ELSE net
    /\ UNCHANGED <<quotaVars, rotating_pool, due, steady, usable, spc, last>>

\* clear_pool_work, which gives nothing back.
Clear(p) ==
    /\ out[p] > 0 /\ out' = [out EXCEPT ![p] = 0]
    /\ UNCHANGED <<quotaVars, roundVars, usable, spc, last>>

Turn(p) ==
    /\ usable' = [usable EXCEPT ![p] = ~@]
    /\ steady' = steady \ {p}
    /\ due' = [due EXCEPT ![p] = 0] /\ net' = [net EXCEPT ![p] = 0]
    /\ UNCHANGED <<quotaVars, quota_used, rotating_pool, spc, out, last>>

Next ==
    \/ Select \/ SelectAgain
    \/ \E p \in Pool : SetQuota(p) \/ Mine(p) \/ Discard(p) \/ Clear(p) \/ Turn(p)

\* The scheduler goes on, and what is staged is mined.
Fairness ==
    /\ WF_vars(Select) /\ WF_vars(SelectAgain)
    /\ \A p \in Pool : WF_vars(Mine(p))

Spec == Init /\ [][Next]_vars /\ Fairness

-----------------------------------------------------------------------------
(* Properties.                                                             *)

TypeOK ==
    /\ quota \in [Pool -> Quotas \cup {1}] /\ quota_gcd \in [Pool -> Nat]
    /\ global_quota_gcd \in Nat \ {0}
    /\ quota_used \in [Pool -> -HalfInt..HalfInt - 1]
    /\ rotating_pool \in Pool /\ usable \in [Pool -> BOOLEAN]
    /\ spc \in {"select", "again"} /\ out \in [Pool -> 0..MaxOut] /\ last \in 0..N
    /\ due \in [Pool -> Nat] /\ net \in [Pool -> Int] /\ steady \subseteq Pool

\* While the quotas stay, a pool is selected more often in a round than its quota and
\* what was discarded of it allow only if no usable pool has any quota left.
WithinQuota ==
    \A p \in steady' : net'[p] > net[p] /\ net[p] >= quota_gcd[p] /\ Available => Found = {}

\* A round does not end before each pool that was usable all the time has been
\* selected as often as its quota says.
RoundComplete ==
    ~Available /\ (Select \/ SelectAgain) => \A p \in steady : due[p] = 0

\* The scheduler finds a usable pool if there is one, with quota left or not.
FindsUsable ==
    Select /\ (\E p \in Pool : usable[p]) => spc' = "select" /\ usable[last']

\* select_pool keeps to the quotas and still finds a pool: these three, in every step.
SelectionIsFair == [][WithinQuota /\ RoundComplete /\ FindsUsable]_vars

\* A pool that stays usable, with quotas that stay and its own not zero, gets work
\* again and again, unless works are discarded for ever.
PoolIsServed ==
    \A p \in Pool :
        <>[](usable[p] /\ quota[p] > 0) /\ <>[][\A q \in Pool : ~Discard(q)]_vars
            => []<><<last' = p /\ Select>>_vars

\* A change of other quotas does not take from a pool all the quota it has left, if
\* the new divisor divides its quota.  (A divisor that does not rounds down, and a pool
\* that has used less than nothing, by discards after a reset, may be left with more
\* than any quota by the unsigned division.)
KeepsQuota ==
    \A p \in Pool :
        quota' # quota /\ quota'[p] = quota[p] /\ quota[p] % global_quota_gcd' = 0
          /\ quota_used[p] \in 0..quota_gcd[p] - 1
            => quota_used'[p] < quota_gcd'[p]
ChangeKeepsQuota == [][KeepsQuota]_vars
=============================================================================
