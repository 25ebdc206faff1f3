-------------------------- MODULE StratumCountProofs --------------------------
(***************************************************************************)
(* For any pools and shares, and whatever ids the messages are given:      *)
(* pool->sshares drifts from the number of entries that wait for an answer *)
(* by what the pruner took, no more and no less, unless the pool had an id *)
(* in common with another; a share is counted once unless its answer was   *)
(* early or late or another message had its id; and, without unsignalled   *)
(* wakeups, a queue freezes only when its pool is removed.                 *)
(***************************************************************************)
EXTENDS StratumSharesProofs

-----------------------------------------------------------------------------
(* The ids.                                                                *)

\* A message has its id before it is sent, and a share none before it is taken.
\* Answers that arrive on a pool's connection are for messages to that pool.
IdInv ==
    /\ \A s \in Share : s \in fresh \cup Elems(queue[PoolOf[s]]) => id[s] = None
    /\ \A p \in Pool : spc[p] \in HandLabel => id[cur[p]] # None
    /\ \A p \in Pool : \A m \in inflight[p] : PoolOf[m] = p /\ id[m] # None

\* No message is given an id twice.
IdsStay == \A m \in Message : id[m] # None => id'[m] = id[m]

\* tq_pop gives a share its id, the end of a handshake the requests theirs.
LEMMA NextIdInv ==
    ASSUME SharesInv, IdInv, [Next]_vars
    PROVE  IdInv' /\ IdsStay
<1>1. /\ inflight \in [Pool -> SUBSET Message] /\ id \in [Message -> Id \cup {None}]
      /\ \A p \in Pool : queue[p] \in Seq(Share) /\ NoRepeats(queue[p])
      /\ spc \in [Pool -> SLabel] /\ cur \in [Pool -> Share \cup {None}]
  BY DEF SharesInv, TypeOK, OneOwner, QueuedOnce, NoRepeats
\* A step that gives no id.
<1>2. ASSUME id' = id, fresh' \subseteq fresh,
             \A s \in Share : s \in Elems(queue'[PoolOf[s]]) =>
                                  s \in fresh \cup Elems(queue[PoolOf[s]]),
             \A p \in Pool : spc'[p] \in HandLabel => spc[p] \in HandLabel /\ cur'[p] = cur[p],
             \A p \in Pool : \A m \in inflight'[p] :
                m \in inflight[p] \/ (PoolOf[m] = p /\ id[m] # None)
      PROVE  IdInv' /\ IdsStay
  BY <1>2 DEF IdInv, IdsStay
<1>3. ASSUME NEW p \in Pool, CloseSocket(p) \/ inflight' = inflight
      PROVE  \A q \in Pool : inflight'[q] \subseteq inflight[q]
  BY <1>1, <1>3 DEF CloseSocket
<1>4. ASSUME NEW p \in Pool, spc[p] \in {"pop", "wait"}, Take(p)
      PROVE  IdInv' /\ IdsStay
  <2> DEFINE s == Head(queue[p])
  <2>1. /\ s \in Share /\ s \in Elems(queue[p]) /\ PoolOf[s] = p
        /\ Elems(queue'[p]) = Elems(queue[p]) \ {s}
        /\ \A q \in Pool \ {p} : queue'[q] = queue[q]
    BY <1>1, <1>4, TailElems DEF Take, SharesInv, TypeOK, QueueInv
  <2>2. s \notin fresh /\ id[s] = None
    <3>1. Owns("queue", s)
      BY <2>1, OwnsEach
    <3>2. s \notin fresh
      BY <2>1, <3>1, OwnsEach, OwnersDiffer DEF SharesInv, OneOwner, Partition, Places
    <3>3. QED
      BY <2>1, <3>2 DEF IdInv
  <2>3. UNCHANGED <<fresh, inflight>>
    BY <1>4 DEF Take, connVars
  <2>4. CASE spc' = [spc EXCEPT ![p] = "top"] /\ UNCHANGED <<cur, id>>
    <3>1. \A q \in Pool : spc'[q] \in HandLabel => spc[q] \in HandLabel
      BY <1>1, <2>4 DEF HandLabel
    <3>2. QED
      BY <1>2, <2>1, <2>3, <2>4, <3>1, ShareFacts
  <2>5. ASSUME spc' = [spc EXCEPT ![p] = "send"], cur' = [cur EXCEPT ![p] = s],
               NEW i \in Id, id' = [id EXCEPT ![s] = i]
        PROVE  IdInv' /\ IdsStay
    <3>1. /\ id'[s] # None /\ \A m \in Message \ {s} : id'[m] = id[m]
          /\ \A m \in Message : id[m] # None => m # s
      BY <1>1, <2>1, <2>2, <2>5, SharesAssumption, ShareFacts
    <3>2. IdsStay
      BY <3>1 DEF IdsStay
    <3>3. \A t \in Share : t \in fresh' \cup Elems(queue'[PoolOf[t]]) => id'[t] = None
      BY <2>1, <2>2, <2>3, <3>1, ShareFacts DEF IdInv
    <3>4. ASSUME NEW q \in Pool, spc'[q] \in HandLabel
          PROVE  id'[cur'[q]] # None
      <4>1. CASE q = p
        BY <1>1, <2>5, <3>1, <4>1
      <4>2. CASE q # p
        <5>1. cur'[q] = cur[q] /\ spc[q] \in HandLabel /\ id[cur[q]] # None /\ cur[q] \in Share
          BY <1>1, <2>5, <3>4, <4>2 DEF IdInv, SharesInv, HandInv
        <5>2. QED
          BY <3>1, <5>1, ShareFacts
      <4>3. QED
        BY <4>1, <4>2
    <3>5. \A q \in Pool : \A m \in inflight'[q] : PoolOf[m] = q /\ id'[m] # None
      BY <1>1, <2>3, <3>1 DEF IdInv
    <3>6. QED
      BY <3>2, <3>3, <3>4, <3>5 DEF IdInv
  <2>6. QED
    BY <1>4, <2>4, <2>5 DEF Take
<1>5. ASSUME NEW p \in Pool, SThread(p)
      PROVE  IdInv' /\ IdsStay
  <2>1. CASE SPop(p) \/ SWake(p)
    BY <1>4, <2>1 DEF SPop, SWake
  <2>2. CASE SSend(p)
    <3>1. /\ UNCHANGED <<id, fresh, queue, cur>> /\ spc[p] = "send"
          /\ \A q \in Pool \ {p} : spc'[q] = spc[q]
      BY <1>1, <2>2 DEF SSend, SGoto, shareVars
    <3>2. PoolOf[cur[p]] = p /\ id[cur[p]] # None
      BY <3>1 DEF SharesInv, HandInv, HandLabel, IdInv
    <3>3. inflight' = inflight \/ inflight' = [inflight EXCEPT ![p] = @ \cup {cur[p]}]
      BY <2>2 DEF SSend
    <3>4. \A q \in Pool : spc'[q] \in HandLabel => spc[q] \in HandLabel
      BY <3>1 DEF HandLabel
    <3>5. \A q \in Pool : \A m \in inflight'[q] :
             m \in inflight[q] \/ (PoolOf[m] = q /\ id[m] # None)
      BY <1>1, <3>2, <3>3
    <3>6. QED
      BY <1>2, <3>1, <3>4, <3>5
  <2>3. CASE SCheckRemoved(p) \/ SPopEmpty(p) \/ SWakeSpuriously(p) \/ SSuspend(p)
             \/ SGiveUp(p) \/ SNoRetry(p) \/ SRetry(p) \/ SAdd(p) \/ SFreeze(p)
    <3>1. UNCHANGED <<id, fresh, queue>> /\ (CloseSocket(p) \/ inflight' = inflight)
      BY <2>3 DEF SCheckRemoved, SPopEmpty, SWakeSpuriously, SSuspend, SGiveUp, SNoRetry,
                  SRetry, SAdd, SFreeze, Discard, shareVars, connVars
    <3>2. \A q \in Pool \ {p} : spc'[q] = spc[q] /\ cur'[q] = cur[q]
      BY <1>1, <2>3
         DEF SCheckRemoved, SPopEmpty, SWakeSpuriously, SSuspend, SGiveUp, SNoRetry,
             SRetry, SAdd, SFreeze, Discard, SGoto, sendVars
    <3>3. spc'[p] \in HandLabel => spc[p] \in HandLabel /\ cur'[p] = cur[p]
      BY <1>1, <2>3
         DEF SCheckRemoved, SPopEmpty, SWakeSpuriously, SSuspend, SGiveUp, SNoRetry,
             SRetry, SAdd, SFreeze, SGoto, sendVars, HandLabel
    <3>4. QED
      BY <1>2, <1>3, <3>1, <3>2, <3>3
  <2>4. QED
    BY <1>5, <2>1, <2>2, <2>3 DEF SThread
<1>6. ASSUME NEW p \in Pool, RAuthorized(p)
      PROVE  IdInv' /\ IdsStay
  <2>0. PICK read \in SUBSET (inflight[p] \cap Share),
             unread \in SUBSET {m \in Request : PoolOf[m] = p /\ id[m] = None} :
                /\ inflight' = [inflight EXCEPT ![p] = (@ \ read) \cup unread]
                /\ \E i \in [unread -> Id] :
                      id' = [m \in Message |-> IF m \in unread THEN i[m] ELSE id[m]]
    BY <1>6 DEF RAuthorized
  <2>1. PICK i \in [unread -> Id] :
                id' = [m \in Message |-> IF m \in unread THEN i[m] ELSE id[m]]
    BY <2>0
  <2>2. /\ \A m \in Message : id'[m] = IF m \in unread THEN i[m] ELSE id[m]
        /\ \A m \in unread : m \in Message /\ m \notin Share /\ i[m] # None /\ id[m] = None
    BY <2>1, SharesAssumption DEF Message
  <2>3. IdsStay
    BY <2>2 DEF IdsStay
  <2>4. \A s \in Share : id'[s] = id[s]
    BY <2>2, ShareFacts
  <2>5. UNCHANGED <<fresh, queue, spc, cur>>
    BY <1>6 DEF RAuthorized, shareVars, sendVars
  <2>6. \A q \in Pool : \A m \in inflight'[q] : PoolOf[m] = q /\ id'[m] # None
    <3> SUFFICES ASSUME NEW q \in Pool, NEW m \in inflight'[q]
                 PROVE  PoolOf[m] = q /\ id'[m] # None
      OBVIOUS
    <3>1. (m \in inflight[q] /\ m \in Message) \/ (q = p /\ m \in unread)
      BY <1>1, <2>0
    <3>2. QED
      BY <2>0, <2>2, <3>1 DEF IdInv
  <2>7. QED
    BY <2>3, <2>4, <2>5, <2>6 DEF IdInv, SharesInv, HandInv
<1>7. ASSUME NEW p \in Pool, RThread(p), ~RAuthorized(p)
      PROVE  IdInv' /\ IdsStay
  <2>1. UNCHANGED <<fresh, queue, spc, cur, id>>
    BY <1>7
       DEF RThread, Reply, RRemoved, RNotNeeded, RClear, RLost, RLostClear, RRestart,
           RRestartFails, RAuthFails, shareVars, sendVars
  <2>2. \A q \in Pool : inflight'[q] \subseteq inflight[q]
    BY <1>1, <1>3, <1>7
       DEF RThread, Reply, RRemoved, RNotNeeded, RClear, RLost, RLostClear, RRestart,
           RRestartFails, RAuthFails
  <2>3. QED
    BY <1>2, <2>1, <2>2
<1>8. ASSUME NEW p \in Pool, Prune(p) \/ Remove(p)
      PROVE  IdInv' /\ IdsStay
  BY <1>2, <1>8 DEF Prune, Remove, shareVars, sendVars, connVars
<1>9. ASSUME NEW s \in Share, SubmitStale(s) \/ SubmitPush(s) \/ Age(s)
      PROVE  IdInv' /\ IdsStay
  <2>1. UNCHANGED <<id, spc, cur, inflight>> /\ fresh' \subseteq fresh
    BY <1>9 DEF SubmitStale, SubmitPush, Age, sendVars, connVars
  <2>2. \A t \in Share : t \in Elems(queue'[PoolOf[t]]) =>
                              t \in fresh \cup Elems(queue[PoolOf[t]])
    <3>1. CASE queue' = queue
      BY <3>1
    <3>2. CASE s \in fresh /\ queue' = [queue EXCEPT ![PoolOf[s]] = Append(@, s)]
      <4>1. /\ PoolOf[s] \in Pool
            /\ Elems(queue'[PoolOf[s]]) = Elems(queue[PoolOf[s]]) \cup {s}
            /\ \A q \in Pool \ {PoolOf[s]} : queue'[q] = queue[q]
        BY <1>1, <3>2, ShareFacts, AppendElems DEF SharesInv, TypeOK
      <4>2. QED
        BY <3>2, <4>1, ShareFacts
    <3>3. QED
      BY <1>9, <3>1, <3>2 DEF SubmitStale, SubmitPush, Age, sendVars
  <2>3. QED
    BY <1>2, <2>1, <2>2
<1>10. CASE UNCHANGED vars
  <2>1. UNCHANGED <<id, spc, cur, inflight, fresh, queue>>
    BY <1>10 DEF vars, shareVars, sendVars, connVars
  <2>2. QED
    BY <1>2, <2>1
<1>11. QED
  BY <1>5, <1>6, <1>7, <1>8, <1>9, <1>10 DEF Next

-----------------------------------------------------------------------------
(* The counter and the table.                                              *)

CountInv == IdInv /\ CountDrift

\* Entries come and go one at a time or as a subset, and are counted.
LEMMA EntriesFinite ==
    ASSUME TypeOK, NEW p \in Pool
    PROVE  IsFiniteSet(Entries(p)) /\ Cardinality(Entries(p)) \in Nat
<1>1. Entries(p) \subseteq Share
  BY DEF Entries, TypeOK
<1>2. QED
  BY <1>1, ShareFacts, FS_Subset, FS_CardinalityType

LEMMA RemoveCount ==
    ASSUME NEW A, IsFiniteSet(A), NEW S \in SUBSET A
    PROVE  Cardinality(A \ S) = Cardinality(A) - Cardinality(S)
<1>1. A \cap S = S /\ Cardinality(A \ S) = Cardinality(A) - Cardinality(A \cap S)
  BY FS_Difference
<1>2. QED
  BY <1>1

LEMMA InitCountInv == Init => CountInv
<1> SUFFICES ASSUME Init
             PROVE  CountInv
  OBVIOUS
<1>1. IdInv
  BY ShareFacts DEF Init, IdInv, Elems, HandLabel
<1>2. ASSUME NEW p \in Pool
      PROVE  sshares[p] = Cardinality(Entries(p)) + pruned[p]
  <2>1. Entries(p) = {} /\ sshares[p] = 0 /\ pruned[p] = 0
    BY DEF Init, Entries
  <2>2. QED
    BY <2>1, FS_EmptySet
<1>3. QED
  BY <1>1, <1>2 DEF CountInv, CountDrift

\* The counter follows the table in every step that changes either.
LEMMA NextCountDrift ==
    ASSUME SharesInv, CountInv, IdsStay, [Next]_vars
    PROVE  CountDrift'
\* Pools that have had no id in common had none before.
<1>0. ASSUME NEW q \in Pool, Apart(q)'
      PROVE  Apart(q)
  <2> SUFFICES ASSUME NEW s \in Share, NEW m \in Message,
                      id[s] = id[m], id[s] # None, q \in {PoolOf[s], PoolOf[m]}
               PROVE  PoolOf[s] = PoolOf[m]
    BY DEF Apart
  <2>1. id'[s] = id'[m] /\ id'[s] # None
    BY ShareFacts DEF IdsStay
  <2>2. QED
    BY <1>0, <2>1 DEF Apart
<1>1. /\ TypeOK /\ sshares \in [Pool -> Int] /\ pruned \in [Pool -> Nat]
      /\ \A p \in Pool : /\ IsFiniteSet(Entries(p)) /\ Cardinality(Entries(p)) \in Nat
                         /\ Apart(p) => sshares[p] = Cardinality(Entries(p)) + pruned[p]
  BY EntriesFinite DEF SharesInv, TypeOK, CountInv, CountDrift
<1>2. CASE UNCHANGED <<table, sshares, pruned>>
  <2>1. \A p \in Pool : Entries(p)' = Entries(p)
    BY <1>2 DEF Entries
  <2>2. QED
    BY <1>0, <1>1, <1>2, <2>1 DEF CountDrift
<1>3. ASSUME NEW p \in Pool, SAdd(p)
      PROVE  CountDrift'
  <2>1. cur[p] \in Share /\ PoolOf[cur[p]] = p /\ Owns("hand", cur[p])
    BY <1>3, OwnsEach DEF SAdd, SGoto, SharesInv, HandInv, HandLabel
  <2>2. cur[p] \notin table
    BY <2>1, OwnsEach, OwnersDiffer DEF SharesInv, OneOwner, Partition, Places
  <2>3. /\ table' = table \cup {cur[p]} /\ pruned' = pruned
        /\ sshares' = [sshares EXCEPT ![p] = @ + 1]
    BY <1>3 DEF SAdd
  <2>4. ASSUME NEW q \in Pool, Apart(q)
        PROVE  sshares'[q] = Cardinality(Entries(q)') + pruned'[q]
    <3>1. CASE q = p
      <4>1. Entries(p)' = Entries(p) \cup {cur[p]} /\ cur[p] \notin Entries(p)
        BY <2>1, <2>2, <2>3 DEF Entries
      <4>2. Cardinality(Entries(p)') = Cardinality(Entries(p)) + 1
        <5>1. IsFiniteSet(Entries(p))
          BY <1>1
        <5>2. Cardinality(Entries(p) \cup {cur[p]}) = Cardinality(Entries(p)) + 1
          BY ONLY <5>1, <4>1, FS_AddElement
        <5>3. QED
          BY <4>1, <5>2
      <4>3. sshares'[p] = sshares[p] + 1 /\ pruned'[p] = pruned[p]
        BY <1>1, <2>3
      <4>4. sshares[p] \in Int /\ pruned[p] \in Nat
        BY <1>1
      <4>5. QED
        BY <1>1, <2>4, <3>1, <4>2, <4>3, <4>4
    <3>2. CASE q # p
      <4>1. Entries(q)' = Entries(q)
        BY <2>1, <2>3, <3>2 DEF Entries
      <4>2. QED
        BY <1>1, <2>3, <2>4, <3>2, <4>1
    <3>3. QED
      BY <3>1, <3>2
  <2>5. QED
    BY <1>0, <2>4 DEF CountDrift
<1>4. ASSUME NEW p \in Pool, NEW S \in SUBSET Entries(p), table' = table \ S,
             \/ pruned' = pruned /\ sshares' = [sshares EXCEPT ![p] = @ - Cardinality(S)]
             \/ sshares' = sshares /\ pruned' = [pruned EXCEPT ![p] = @ + Cardinality(S)]
      PROVE  CountDrift'
  <2>1. Cardinality(S) \in Nat
    BY <1>1, FS_Subset, FS_CardinalityType
  <2>2. ASSUME NEW q \in Pool, Apart(q)
        PROVE  sshares'[q] = Cardinality(Entries(q)') + pruned'[q]
    <3>1. CASE q = p
      <4>1. Entries(p)' = Entries(p) \ S
        BY <1>4 DEF Entries
      <4>2. Cardinality(Entries(p)') = Cardinality(Entries(p)) - Cardinality(S)
        BY <1>1, <4>1, RemoveCount
      <4>3. QED
        BY <1>1, <1>4, <2>1, <2>2, <3>1, <4>2
    <3>2. CASE q # p
      <4>1. Entries(q)' = Entries(q)
        BY <1>4, <3>2 DEF Entries
      <4>2. QED
        BY <1>1, <1>4, <2>2, <3>2, <4>1
    <3>3. QED
      BY <3>1, <3>2
  <2>3. QED
    BY <1>0, <2>2 DEF CountDrift
\* The entry an answer to a message of p takes is of p, or p and the pool it is of have
\* had an id in common.
<1>5. ASSUME NEW p \in Pool, NEW m \in Message, m \in inflight[p], Answered(p, m),
             pruned' = pruned
      PROVE  CountDrift'
  <2>1. PICK s \in Found(m) : table' = table \ {s}
    BY <1>5 DEF Answered
  <2>2. /\ s \in Share /\ s \in table /\ id[s] = id[m] /\ id[s] # None /\ PoolOf[m] = p
        /\ sshares' = [sshares EXCEPT ![p] = @ - 1]
    BY <1>1, <1>5 DEF Found, Answered, TypeOK, CountInv, IdInv
  <2>3. ASSUME NEW q \in Pool, Apart(q)
        PROVE  sshares'[q] = Cardinality(Entries(q)') + pruned'[q]
    <3>1. CASE q = p
      <4>1. PoolOf[s] = p
        BY <2>2, <2>3, <3>1 DEF Apart
      <4>2. Entries(p)' = Entries(p) \ {s} /\ {s} \in SUBSET Entries(p)
        BY <2>1, <2>2, <4>1 DEF Entries
      <4>3. Cardinality(Entries(p)') = Cardinality(Entries(p)) - 1
        <5>1. IsFiniteSet(Entries(p)) /\ Cardinality({s}) = 1
          BY <1>1, FS_Singleton
        <5>2. Cardinality(Entries(p) \ {s}) = Cardinality(Entries(p)) - Cardinality({s})
          BY ONLY <5>1, <4>2, RemoveCount
        <5>3. QED
          BY <4>2, <5>1, <5>2
      <4>4. sshares'[p] = sshares[p] - 1 /\ sshares[p] = Cardinality(Entries(p)) + pruned[p]
        BY <1>1, <2>2, <2>3, <3>1
      <4>5. QED
        BY <1>1, <1>5, <3>1, <4>3, <4>4
    <3>2. CASE q # p
      <4>1. PoolOf[s] # q
        BY <2>2, <2>3, <3>2 DEF Apart
      <4>2. Entries(q)' = Entries(q)
        BY <2>1, <4>1 DEF Entries
      <4>3. QED
        BY <1>1, <1>5, <2>2, <2>3, <3>2, <4>2
    <3>3. QED
      BY <3>1, <3>2
  <2>4. QED
    BY <1>0, <2>3 DEF CountDrift
<1>6. ASSUME NEW p \in Pool, ClearShares(p), pruned' = pruned
      PROVE  CountDrift'
  BY <1>4, <1>6 DEF ClearShares
<1>7. ASSUME NEW p \in Pool, Prune(p)
      PROVE  CountDrift'
  BY <1>4, <1>7 DEF Prune
<1>8. ASSUME NEW p \in Pool, SThread(p)
      PROVE  CountDrift'
  BY <1>2, <1>3, <1>8
     DEF SThread, SCheckRemoved, SPop, Take, SPopEmpty, SWake, SWakeSpuriously, SSend,
         SSuspend, SGiveUp, SNoRetry, SRetry, SFreeze, Discard, tableVars
<1>9. ASSUME NEW p \in Pool, RThread(p)
      PROVE  CountDrift'
  <2>1. ASSUME NEW m \in Message, Reply(p, m)
        PROVE  CountDrift'
    <3>1. CASE Answered(p, m)
      BY <1>5, <2>1, <3>1 DEF Reply
    <3>2. CASE Untracked(m)
      BY <1>2, <2>1, <3>2 DEF Reply, Untracked
    <3>3. QED
      BY <2>1, <3>1, <3>2 DEF Reply
  <2>2. CASE RClear(p) \/ RLostClear(p)
    BY <1>2, <1>6, <2>2 DEF RClear, RLostClear
  <2>3. CASE RRemoved(p) \/ RNotNeeded(p) \/ RLost(p) \/ RRestart(p) \/ RRestartFails(p)
             \/ RAuthorized(p) \/ RAuthFails(p)
    BY <1>2, <2>3
       DEF RRemoved, RNotNeeded, RLost, RRestart, RRestartFails, RAuthorized, RAuthFails,
           tableVars
  <2>4. QED
    BY <1>9, <2>1, <2>2, <2>3 DEF RThread
<1>10. ASSUME NEW p \in Pool, Remove(p)
       PROVE  CountDrift'
  BY <1>2, <1>10 DEF Remove, tableVars
<1>11. ASSUME NEW s \in Share, SubmitStale(s) \/ SubmitPush(s) \/ Age(s)
       PROVE  CountDrift'
  BY <1>2, <1>11 DEF SubmitStale, SubmitPush, Age, tableVars
<1>12. QED
  BY <1>2, <1>7, <1>8, <1>9, <1>10, <1>11 DEF Next, vars, tableVars

\* sshares[p] counts the entries of p and those ever pruned from it, whatever
\* ran between the sthread's send and its increment, and between the
\* rthread's lookups, clears and restarts, as long as no share has had an id in common
\* with a message of another pool, one of the two of p.
THEOREM CountDriftsByPruned == Spec => []CountDrift
<1>1. SharesInv /\ CountInv /\ [Next]_vars => CountInv'
  BY NextIdInv, NextCountDrift DEF CountInv
<1>2. CountInv => CountDrift
  BY DEF CountInv
<1>3. QED
  BY <1>1, <1>2, InitCountInv, SharesInvHolds, PTL DEF Spec

-----------------------------------------------------------------------------
(* The counts of a share.                                                  *)

\* A share that was answered in time, by its own answer, is counted when it is freed,
\* not before.
TallyInv ==
    \A s \in Share :
        s \in early \cup old \/ Repeated(s) \/ tally[s] = 0 \/ (tally[s] = 1 /\ s \in freed)

\* An answer on its way to a share is for one in the table, or about to be entered, or
\* freed; the last only when it was pruned, or another answer took its entry, or when
\* the connection is to be opened anew.
AnswerInv ==
    \A p \in Pool :
        /\ rpc[p] = "clear" => inflight[p] = {} /\ ~active[p]
        /\ \A s \in inflight[p] \cap Share :
              \/ s \in table
              \/ spc[p] = "add" /\ cur[p] = s
              \/ s \in freed /\ (s \in early \cup old \/ Repeated(s) \/ rpc[p] = "restart")

AnsweredInv == SharesInv /\ IdInv /\ TallyInv /\ AnswerInv

\* What was repeated once stays repeated.
LEMMA RepeatedStays ==
    ASSUME IdsStay, NEW s \in Share, Repeated(s)
    PROVE  Repeated(s)'
<1>1. PICK m \in Message \ {s} : id[m] = id[s] /\ id[s] # None
  BY DEF Repeated
<1>2. id'[m] = id[m] /\ id'[s] = id[s]
  BY <1>1, ShareFacts DEF IdsStay
<1>3. QED
  BY <1>1, <1>2 DEF Repeated

LEMMA InitAnsweredInv ==
    ASSUME Init
    PROVE  TallyInv /\ AnswerInv
  BY DEF Init, TallyInv, AnswerInv

\* Freeing shares that are not freed yet counts them once at most.
LEMMA FreeKeepsTally ==
    ASSUME TypeOK, TallyInv, NEW S \in SUBSET Share, S \cap freed = {},
           NEW n \in {0, 1}, Free(S, n), IdsStay, early \subseteq early', old \subseteq old'
    PROVE  TallyInv'
<1>1. /\ freed' = freed \cup S
      /\ \A s \in Share : tally'[s] = IF s \in S THEN tally[s] + n ELSE tally[s]
  BY DEF Free, TypeOK
<1>2. \A s \in Share : Repeated(s) => Repeated(s)'
  BY RepeatedStays
<1>3. QED
  BY <1>1, <1>2 DEF TallyInv

\* No share in the table, in hand, in a queue or not found yet is freed.
LEMMA FreedIsLast ==
    ASSUME SharesInv, NEW s \in Share, s \in freed
    PROVE  /\ s \notin fresh /\ s \notin table
           /\ s \notin Elems(queue[PoolOf[s]])
           /\ ~(s = cur[PoolOf[s]] /\ spc[PoolOf[s]] \in HandLabel)
<1>1. Partition /\ Owns("freed", s)
  BY OwnsEach DEF SharesInv, OneOwner, Partition
<1>2. \A place \in Places : Owns(place, s) => place = "freed"
  BY <1>1, OwnersDiffer DEF Places
<1>3. QED
  BY <1>2, OwnsEach DEF Places

\* Steps that free nothing and count nothing.
LEMMA UncountedKeeps ==
    ASSUME TallyInv, UNCHANGED <<freed, tally>>, IdsStay,
           early \subseteq early', old \subseteq old'
    PROVE  TallyInv'
<1>1. \A s \in Share : Repeated(s) => Repeated(s)'
  BY RepeatedStays
<1>2. QED
  BY <1>1 DEF TallyInv

LEMMA DeviceCounts ==
    ASSUME AnsweredInv, IdsStay, NEW s \in Share, SubmitStale(s) \/ SubmitPush(s) \/ Age(s)
    PROVE  TallyInv' /\ AnswerInv'
<1> USE DEF AnsweredInv
<1>0. \A t \in Share : Repeated(t) => Repeated(t)'
  BY RepeatedStays
<1>1. /\ UNCHANGED <<rpc, active, inflight, table, spc, cur, early>>
      /\ old \subseteq old' /\ freed \subseteq freed'
  BY DEF SubmitStale, SubmitPush, Age, sendVars, connVars, tableVars, Free
<1>2. AnswerInv'
  BY <1>0, <1>1 DEF AnswerInv
<1>3. CASE Free({s}, 0) \/ Free({s}, 1)
  <2>1. s \in fresh \/ Age(s)
    BY DEF SubmitStale, SubmitPush
  <2>2. CASE s \in fresh
    <3>1. {s} \cap freed = {}
      BY <2>2, FreedIsLast
    <3>2. TypeOK /\ TallyInv /\ early \subseteq early' /\ old \subseteq old'
      BY <1>1 DEF SharesInv
    <3>3. QED
      BY <1>2, <1>3, <3>1, <3>2, FreeKeepsTally
  <2>3. CASE Age(s)
    <3>1. UNCHANGED <<freed, tally>>
      BY <2>3 DEF Age
    <3>2. TallyInv /\ early \subseteq early' /\ old \subseteq old'
      BY <1>1
    <3>3. QED
      BY <1>2, <3>1, <3>2, UncountedKeeps
  <2>4. QED
    BY <1>2, <2>1, <2>2, <2>3
<1>4. CASE UNCHANGED <<freed, tally>>
  BY <1>1, <1>2, <1>4, UncountedKeeps
<1>5. QED
  BY <1>2, <1>3, <1>4 DEF SubmitStale, SubmitPush, Age

\* The sthread.  A share goes out from the label send, and is entered next.
LEMMA SThreadCounts ==
    ASSUME AnsweredInv, IdsStay, NEW p \in Pool, SThread(p)
    PROVE  TallyInv' /\ AnswerInv'
<1> USE DEF AnsweredInv
<1>0. \A t \in Share : Repeated(t) => Repeated(t)'
  BY RepeatedStays
<1>1. /\ UNCHANGED <<rpc, early, old>>
      /\ \A q \in Pool \ {p} : /\ spc'[q] = spc[q] /\ cur'[q] = cur[q]
                               /\ inflight'[q] = inflight[q] /\ active'[q] = active[q]
  BY DEF SThread, SCheckRemoved, SPop, Take, SPopEmpty, SWake, SWakeSpuriously, SSend,
         SSuspend, SGiveUp, SNoRetry, SRetry, SAdd, SFreeze, Discard, CloseSocket,
         SGoto, shareVars, connVars, SharesInv, TypeOK
<1>2. CASE SPop(p) \/ SWake(p)
  <2> DEFINE s == Head(queue[p])
  <2>1. s \in Share /\ s \in Elems(queue[p]) /\ PoolOf[s] = p
    BY <1>2, TailElems
       DEF SPop, SWake, Take, SharesInv, TypeOK, OneOwner, QueuedOnce, NoRepeats, QueueInv
  <2>2. s \notin freed
    BY <2>1, FreedIsLast
  <2>3. Free({s}, 0) \/ UNCHANGED <<freed, tally>>
    BY <1>2 DEF SPop, SWake, Take
  <2>4. spc[p] # "add" /\ UNCHANGED <<inflight, active, table>>
    BY <1>2 DEF SPop, SWake, Take, connVars, tableVars
  <2>5. freed \subseteq freed'
    BY <2>3 DEF Free
  <2>6. TallyInv'
    BY <1>1, <2>1, <2>2, <2>3, FreeKeepsTally, UncountedKeeps DEF SharesInv
  <2>7. AnswerInv'
    BY <1>0, <1>1, <2>4, <2>5 DEF AnswerInv
  <2>8. QED
    BY <2>6, <2>7
<1>3. CASE SGiveUp(p) \/ SNoRetry(p)
  <2>1. spc[p] \in {"send", "retry"} /\ Free({cur[p]}, 1) /\ UNCHANGED <<inflight, active, table>>
    BY <1>3 DEF SGiveUp, SNoRetry, SGoto, Discard, connVars, tableVars
  <2>2. cur[p] \in Share /\ cur[p] \notin freed
    BY <2>1, FreedIsLast DEF SharesInv, HandInv, HandLabel
  <2>3. TallyInv'
    BY <1>1, <2>1, <2>2, FreeKeepsTally DEF SharesInv
  <2>4. freed \subseteq freed'
    BY <2>1 DEF Free
  <2>5. AnswerInv'
    BY <1>0, <1>1, <2>1, <2>4 DEF AnswerInv
  <2>6. QED
    BY <2>3, <2>5
<1>4. CASE SSend(p)
  <2>1. /\ UNCHANGED <<freed, tally, table, cur, active>> /\ spc[p] = "send"
        /\ \/ inflight' = inflight
           \/ /\ active[p] /\ spc'[p] = "add"
              /\ inflight' = [inflight EXCEPT ![p] = @ \cup {cur[p]}]
    BY <1>4 DEF SSend, SGoto, shareVars, tableVars, SharesInv, TypeOK
  <2>2. TallyInv'
    BY <1>1, <2>1, UncountedKeeps
  <2>3. inflight'[p] \subseteq inflight[p] \/ (active[p] /\ spc'[p] = "add"
           /\ \A s \in inflight'[p] : s \in inflight[p] \/ s = cur[p])
    BY <2>1 DEF SharesInv, TypeOK
  <2>4. AnswerInv'
    BY <1>0, <1>1, <2>1, <2>3 DEF AnswerInv
  <2>5. QED
    BY <2>2, <2>4
<1>5. CASE SAdd(p)
  <2>1. /\ UNCHANGED <<freed, tally, active, inflight>>
        /\ table' = table \cup {cur[p]}
    BY <1>5 DEF SAdd, shareVars, connVars
  <2>2. TallyInv'
    BY <1>1, <2>1, UncountedKeeps
  <2>3. AnswerInv'
    BY <1>0, <1>1, <2>1 DEF AnswerInv
  <2>4. QED
    BY <2>2, <2>3
<1>6. CASE SSuspend(p)
  <2>1. /\ UNCHANGED <<freed, tally, table, cur>>
        /\ inflight'[p] = {} /\ active'[p] = FALSE
    BY <1>6 DEF SSuspend, shareVars, tableVars, CloseSocket, SharesInv, TypeOK
  <2>2. TallyInv'
    BY <1>1, <2>1, UncountedKeeps
  <2>3. AnswerInv'
    BY <1>0, <1>1, <2>1 DEF AnswerInv
  <2>4. QED
    BY <2>2, <2>3
<1>7. CASE SCheckRemoved(p) \/ SPopEmpty(p) \/ SWakeSpuriously(p) \/ SRetry(p)
           \/ SFreeze(p)
  <2>1. UNCHANGED <<freed, tally, table, inflight, active>> /\ spc[p] # "add"
    BY <1>7 DEF SCheckRemoved, SPopEmpty, SWakeSpuriously, SRetry, SFreeze, SGoto,
                shareVars, connVars, tableVars
  <2>2. TallyInv'
    BY <1>1, <2>1, UncountedKeeps
  <2>3. AnswerInv'
    BY <1>0, <1>1, <2>1 DEF AnswerInv
  <2>4. QED
    BY <2>2, <2>3
<1>8. QED
  BY <1>2, <1>3, <1>4, <1>5, <1>6, <1>7 DEF SThread

\* Answers.  One for a freed share is a late one: the connection is up.
LEMMA ReplyCounts ==
    ASSUME AnsweredInv, IdsStay, NEW p \in Pool, NEW m \in Message, Reply(p, m)
    PROVE  TallyInv' /\ AnswerInv'
<1> USE DEF AnsweredInv
<1>1. /\ rpc[p] = "run" /\ m \in inflight[p] /\ id[m] # None
      /\ UNCHANGED <<old, spc, cur, rpc, active, id>>
      /\ inflight' = [inflight EXCEPT ![p] = @ \ {m}]
  BY DEF Reply, sendVars, IdInv
<1>2. ASSUME NEW q \in Pool
      PROVE  \A s \in inflight'[q] : s \in inflight[q] /\ s # m
  <2>1. q # p => m \notin inflight[q]
    BY <1>1 DEF IdInv
  <2>2. inflight'[q] = IF q = p THEN inflight[q] \ {m} ELSE inflight[q]
    BY <1>1 DEF SharesInv, TypeOK
  <2>3. QED
    BY <2>1, <2>2
<1>3. \A q \in Pool : rpc[q] = "clear" => inflight'[q] = {} /\ ~active[q]
  BY <1>2 DEF AnswerInv
<1>4. \A t \in Share : Repeated(t) => Repeated(t)'
  BY RepeatedStays
<1>5. CASE Answered(p, m)
  <2>1. PICK e \in Found(m) : table' = table \ {e} /\ Free({e}, 1)
    BY <1>5 DEF Answered
  <2>2. /\ e \in Share /\ e \in table /\ id[e] = id[m] /\ e \notin freed
        /\ early' = early /\ freed' = freed \cup {e}
    BY <1>5, <2>1, FreedIsLast DEF Found, Free, Answered, SharesInv, TypeOK
  <2>3. TallyInv'
    BY <1>1, <2>1, <2>2, FreeKeepsTally DEF SharesInv
  \* If the entry was another share's, that share's answer will find none.
  <2>4. e # m => Repeated(e)'
    BY <1>1, <2>2 DEF Repeated
  <2>5. ASSUME NEW q \in Pool, NEW s \in inflight'[q] \cap Share
        PROVE  \/ s \in table'
               \/ spc'[q] = "add" /\ cur'[q] = s
               \/ s \in freed' /\ (s \in early' \cup old' \/ Repeated(s)' \/ rpc'[q] = "restart")
    <3>1. CASE s = e
      BY <1>2, <2>2, <2>4, <3>1
    <3>2. CASE s # e
      <4>1. \/ s \in table
            \/ spc[q] = "add" /\ cur[q] = s
            \/ s \in freed /\ (s \in early \cup old \/ Repeated(s) \/ rpc[q] = "restart")
        BY <1>2 DEF AnswerInv
      <4>2. QED
        BY <1>1, <1>4, <2>1, <2>2, <3>2, <4>1
    <3>3. QED
      BY <3>1, <3>2
  <2>6. AnswerInv'
    BY <1>1, <1>3, <2>5 DEF AnswerInv
  <2>7. QED
    BY <2>3, <2>6
<1>6. CASE Untracked(m)
  <2>1. /\ UNCHANGED <<table, freed>> /\ early \subseteq early'
        /\ m \in Share => m \notin table
    BY <1>6 DEF Untracked, Found
  <2>2. ASSUME NEW q \in Pool, NEW s \in inflight'[q] \cap Share
        PROVE  \/ s \in table'
               \/ spc'[q] = "add" /\ cur'[q] = s
               \/ s \in freed' /\ (s \in early' \cup old' \/ Repeated(s)' \/ rpc'[q] = "restart")
    <3>1. \/ s \in table
          \/ spc[q] = "add" /\ cur[q] = s
          \/ s \in freed /\ (s \in early \cup old \/ Repeated(s) \/ rpc[q] = "restart")
      BY <1>2 DEF AnswerInv
    <3>2. QED
      BY <1>1, <1>4, <2>1, <3>1
  <2>3. AnswerInv'
    BY <1>1, <1>3, <2>2 DEF AnswerInv
  <2>4. CASE UNCHANGED <<tally, early>>
    BY <1>1, <2>1, <2>3, <2>4, UncountedKeeps
  <2>5. CASE m \in Share /\ tally' = [tally EXCEPT ![m] = @ + 1]
               /\ early' = IF m \in freed THEN early ELSE early \cup {m}
    <3>1. m \in early' \cup old \/ Repeated(m)
      <4>1. \/ spc[p] = "add" /\ cur[p] = m
            \/ m \in freed => m \in early \cup old \/ Repeated(m)
        BY <1>1, <2>1, <2>5 DEF AnswerInv
      <4>2. ~(m \in freed /\ spc[p] = "add" /\ cur[p] = m)
        BY <1>1, <2>5, FreedIsLast DEF HandLabel, IdInv
      <4>3. QED
        BY <2>5, <4>1, <4>2
    <3>2. \A t \in Share \ {m} : tally'[t] = tally[t]
      BY <2>5 DEF SharesInv, TypeOK
    <3>3. TallyInv'
      BY <1>1, <1>4, <2>1, <3>1, <3>2 DEF TallyInv
    <3>4. QED
      BY <2>3, <3>3
  <2>6. QED
    BY <1>6, <2>4, <2>5 DEF Untracked
<1>7. QED
  BY <1>5, <1>6 DEF Reply

\* The entries of a pool are freed only while no answer for them is read.
LEMMA ClearCounts ==
    ASSUME AnsweredInv, IdsStay, NEW p \in Pool, ClearShares(p),
           UNCHANGED <<early, old, spc, cur, active, inflight>>,
           rpc[p] \in {"clear", "lost"}, rpc' = [rpc EXCEPT ![p] = "restart"]
    PROVE  TallyInv' /\ AnswerInv'
<1> USE DEF AnsweredInv
<1>0. \A t \in Share : Repeated(t) => Repeated(t)'
  BY RepeatedStays
<1>1. /\ Free(Entries(p), 1) /\ table' = table \ Entries(p) /\ freed' = freed \cup Entries(p)
      /\ Entries(p) \in SUBSET Share
  BY DEF ClearShares, Free, Entries, SharesInv, TypeOK
<1>2. Entries(p) \cap freed = {}
  BY <1>1, FreedIsLast DEF Entries
<1>3. TallyInv'
  BY <1>1, <1>2, FreeKeepsTally DEF SharesInv
<1>4. \A q \in Pool : rpc'[q] = IF q = p THEN "restart" ELSE rpc[q]
  BY DEF SharesInv, TypeOK
<1>5. \A q \in Pool \ {p} : \A s \in inflight[q] : s \notin Entries(p)
  BY DEF IdInv, Entries
<1>6. ASSUME NEW q \in Pool
      PROVE  /\ rpc'[q] = "clear" => inflight'[q] = {} /\ ~active'[q]
             /\ \A s \in inflight'[q] \cap Share :
                   \/ s \in table'
                   \/ spc'[q] = "add" /\ cur'[q] = s
                   \/ /\ s \in freed'
                      /\ s \in early' \cup old' \/ Repeated(s)' \/ rpc'[q] = "restart"
  <2>1. CASE q = p
    BY <1>0, <1>1, <1>4, <2>1 DEF AnswerInv
  <2>2. CASE q # p
    BY <1>0, <1>1, <1>4, <1>5, <2>2 DEF AnswerInv
  <2>3. QED
    BY <2>1, <2>2
<1>7. QED
  BY <1>3, <1>6 DEF AnswerInv

LEMMA RThreadCounts ==
    ASSUME AnsweredInv, IdsStay, NEW p \in Pool, RThread(p)
    PROVE  TallyInv' /\ AnswerInv'
<1> USE DEF AnsweredInv
<1>0. \A t \in Share : Repeated(t) => Repeated(t)'
  BY RepeatedStays
<1>1. CASE RClear(p)
  BY <1>1, ClearCounts DEF RClear, RGoto, sendVars
<1>2. CASE RLostClear(p) /\ ClearShares(p)
  BY <1>2, ClearCounts DEF RLostClear, RGoto, sendVars
<1>3. CASE \/ RLostClear(p) /\ UNCHANGED <<table, sshares, freed, tally>>
           \/ RRemoved(p) \/ RNotNeeded(p) \/ RLost(p) \/ RRestart(p) \/ RRestartFails(p)
           \/ RAuthorized(p) \/ RAuthFails(p)
  <2>1. UNCHANGED <<freed, tally, table, early, old, spc, cur>>
    BY <1>3 DEF RLostClear, RRemoved, RNotNeeded, RLost, RRestart, RRestartFails,
                RAuthorized, RAuthFails, shareVars, sendVars, tableVars
  <2>2. \A q \in Pool \ {p} : /\ rpc'[q] = rpc[q] /\ inflight'[q] = inflight[q]
                              /\ active'[q] = active[q]
    BY <1>3 DEF RLostClear, RRemoved, RNotNeeded, RLost, RRestart, RRestartFails,
                RAuthorized, RAuthFails, RGoto, CloseSocket, SharesInv, TypeOK
  <2>3. /\ inflight'[p] \cap Share \subseteq inflight[p]
        /\ rpc[p] # "restart" \/ rpc'[p] = "restart" \/ inflight'[p] = {}
        /\ rpc'[p] = "clear" => inflight'[p] = {} /\ ~active'[p]
    <3>1. CASE RRemoved(p) \/ RNotNeeded(p) \/ RRestartFails(p)
      BY <3>1 DEF RRemoved, RNotNeeded, RRestartFails, RGoto, CloseSocket, SharesInv, TypeOK
    <3>2. CASE RAuthorized(p)
      <4>1. inflight'[p] \cap Share \subseteq inflight[p]
        BY <3>2, SharesAssumption DEF RAuthorized, SharesInv, TypeOK
      <4>2. rpc[p] = "auth" /\ rpc'[p] = "run"
        BY <3>2 DEF RAuthorized, RGoto, SharesInv, TypeOK
      <4>3. QED
        BY <4>1, <4>2
    <3>3. CASE RLostClear(p) /\ UNCHANGED <<table, sshares, freed, tally>>
      BY <3>3 DEF RLostClear, RGoto, SharesInv, TypeOK
    <3>4. CASE RLost(p) \/ RAuthFails(p)
      BY <3>4 DEF RLost, RAuthFails, RGoto, CloseSocket, SharesInv, TypeOK
    <3>5. CASE RRestart(p)
      BY <3>5 DEF RRestart, RGoto, SharesInv, TypeOK
    <3>6. QED
      BY <1>3, <3>1, <3>2, <3>3, <3>4, <3>5
  <2>4. TallyInv'
    BY <2>1, UncountedKeeps
  <2>5. AnswerInv'
    BY <1>0, <2>1, <2>2, <2>3 DEF AnswerInv
  <2>6. QED
    BY <2>4, <2>5
<1>4. QED
  BY <1>1, <1>2, <1>3, ReplyCounts DEF RThread, RLostClear

\* What the pruner takes is old.
LEMMA PruneCounts ==
    ASSUME AnsweredInv, IdsStay, NEW p \in Pool, Prune(p)
    PROVE  TallyInv' /\ AnswerInv'
<1> USE DEF AnsweredInv
<1>0. \A t \in Share : Repeated(t) => Repeated(t)'
  BY RepeatedStays
<1> DEFINE S == {s \in Entries(p) : s \in old}
<1>1. /\ Free(S, 1) /\ table' = table \ S /\ freed' = freed \cup S
      /\ UNCHANGED <<early, old, spc, cur, rpc, active, inflight>>
  BY DEF Prune, Free, sendVars, connVars
<1>2. S \in SUBSET Share /\ S \cap freed = {}
  BY FreedIsLast DEF Entries, SharesInv, TypeOK
<1>3. \A s \in S : s \in old
  OBVIOUS
<1> HIDE DEF S
<1>4. TallyInv'
  BY <1>1, <1>2, FreeKeepsTally DEF SharesInv
<1>5. AnswerInv'
  BY <1>0, <1>1, <1>3 DEF AnswerInv
<1>6. QED
  BY <1>4, <1>5

LEMMA NextAnsweredInv ==
    ASSUME AnsweredInv, [Next]_vars
    PROVE  AnsweredInv'
<1>1. SharesInv' /\ IdInv' /\ IdsStay
  BY NextSharesInv, NextIdInv DEF AnsweredInv
<1>2. ASSUME NEW p \in Pool, Remove(p)
      PROVE  TallyInv' /\ AnswerInv'
  BY <1>2
     DEF Remove, AnsweredInv, TallyInv, AnswerInv, Repeated, shareVars, sendVars, connVars,
         tableVars
<1>3. CASE Next
  BY <1>1, <1>2, <1>3, DeviceCounts, SThreadCounts, RThreadCounts, PruneCounts
     DEF Next, AnsweredInv
<1>4. CASE UNCHANGED vars
  BY <1>1, <1>4
     DEF vars, AnsweredInv, TallyInv, AnswerInv, Repeated, shareVars, sendVars, connVars,
         tableVars
<1>5. QED
  BY <1>3, <1>4

\* A share is counted more than once only when its answer came before it was entered
\* in the table or after its two minutes, or when another message was given its id,
\* whatever else ran in between.
THEOREM ShareIsCountedOnce == Spec => []CountedOnce
<1>1. Init => AnsweredInv
  BY InitSharesInv, InitAnsweredInv, InitCountInv DEF AnsweredInv, CountInv
<1>2. AnsweredInv /\ [Next]_vars => AnsweredInv'
  BY NextAnsweredInv
<1>3. AnsweredInv => CountedOnce
  BY DEF AnsweredInv, TallyInv, CountedOnce
<1>4. QED
  BY <1>1, <1>2, <1>3, PTL DEF Spec

-----------------------------------------------------------------------------
(* The freezing of a queue.                                                *)

\* The sthread leaves its loop for a removed pool only.
FrozenInv == \A p \in Pool : spc[p] = "freeze" \/ frozen[p] => removed[p]

LEMMA NextFrozenInv ==
    ASSUME TypeOK, Spurious = FALSE, FrozenInv, [Next]_vars
    PROVE  FrozenInv'
<1>1. CASE UNCHANGED <<spc, frozen>> /\ \A p \in Pool : removed[p] => removed'[p]
  BY <1>1 DEF FrozenInv
<1>2. ASSUME NEW p \in Pool, SThread(p)
      PROVE  FrozenInv'
  <2>1. removed' = removed /\ \A q \in Pool \ {p} : spc'[q] = spc[q] /\ frozen'[q] = frozen[q]
    BY <1>2
       DEF SThread, SCheckRemoved, SPop, Take, SPopEmpty, SWake, SWakeSpuriously, SSend,
           SSuspend, SGiveUp, SNoRetry, SRetry, SAdd, SFreeze, Discard, SGoto, TypeOK
  <2>2. spc'[p] = "freeze" \/ frozen'[p] => removed[p]
    <3>1. CASE SPop(p) \/ SWake(p)
      BY <3>1 DEF SPop, SWake, Take, FrozenInv, TypeOK
    <3>2. CASE SFreeze(p)
      BY <3>2 DEF SFreeze, SGoto, FrozenInv, TypeOK
    <3>3. CASE SCheckRemoved(p)
      BY <3>3 DEF SCheckRemoved, SGoto, FrozenInv, TypeOK
    <3>4. CASE SPopEmpty(p) \/ SSend(p) \/ SSuspend(p) \/ SGiveUp(p) \/ SNoRetry(p)
               \/ SRetry(p) \/ SAdd(p)
      BY <3>4 DEF SPopEmpty, SSend, SSuspend, SGiveUp, SNoRetry, SRetry, SAdd,
                  Discard, SGoto, FrozenInv, TypeOK
    <3>5. QED
      BY <1>2, <3>1, <3>2, <3>3, <3>4 DEF SThread, SWakeSpuriously
  <2>3. QED
    BY <2>1, <2>2 DEF FrozenInv
<1>3. ASSUME NEW p \in Pool, RThread(p)
      PROVE  UNCHANGED <<spc, frozen, removed>>
  BY <1>3 DEF RThread, Reply, RRemoved, RNotNeeded, RClear, RLost,
              RLostClear, RRestart, RRestartFails, RAuthorized, RAuthFails,
              sendVars
<1>4. ASSUME NEW p \in Pool, Prune(p) \/ Remove(p)
      PROVE  UNCHANGED <<spc, frozen>> /\ \A q \in Pool : removed[q] => removed'[q]
  BY <1>4 DEF Prune, Remove, sendVars, TypeOK
<1>5. ASSUME NEW s \in Share, SubmitStale(s) \/ SubmitPush(s) \/ Age(s)
      PROVE  UNCHANGED <<spc, frozen, removed>>
  BY <1>5 DEF SubmitStale, SubmitPush, Age, sendVars
<1>6. QED
  BY <1>1, <1>2, <1>3, <1>4, <1>5 DEF Next, vars, sendVars

\* With no unsignalled wakeup a queue is frozen only when its pool was removed.
THEOREM QueueFreezesWithPool ==
    ASSUME Spurious = FALSE
    PROVE  Spec => []FrozenMeansRemoved
<1>1. Init => FrozenInv
  BY DEF Init, FrozenInv
<1>2. TypeOK /\ FrozenInv /\ [Next]_vars => FrozenInv'
  BY NextFrozenInv
<1>3. FrozenInv => FrozenMeansRemoved
  BY DEF FrozenInv, FrozenMeansRemoved
<1>4. QED
  BY <1>1, <1>2, <1>3, SharesTypes, PTL DEF Spec
=============================================================================
