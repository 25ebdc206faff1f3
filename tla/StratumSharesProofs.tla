------------------------- MODULE StratumSharesProofs -------------------------
(***************************************************************************)
(* For any pools, shares and sessions: the work of a share always has one  *)
(* owner, whatever the device threads, sthreads, rthreads, the pruner and  *)
(* the API do in between each other's steps.                               *)
(***************************************************************************)
EXTENDS StratumShares, FiniteSetTheorems, TLAPS

\* What the assumption on the constants says of a share.
LEMMA ShareFacts ==
    /\ IsFiniteSet(Share) /\ None \notin Share /\ Share \subseteq Message
    /\ \A m \in Message : PoolOf[m] \in Pool
    /\ \A s \in Share : PoolOf[s] \in Pool
  BY SharesAssumption DEF Message

-----------------------------------------------------------------------------
(* The queue as a set.                                                     *)

Elems(q) == {q[i] : i \in 1..Len(q)}
NoRepeats(q) == \A i, j \in 1..Len(q) : q[i] = q[j] => i = j

\* tq_push adds an element at the end.
LEMMA AppendElems ==
    ASSUME NEW S, NEW q \in Seq(S), NEW s \in S
    PROVE  /\ Append(q, s) \in Seq(S)
           /\ Elems(Append(q, s)) = Elems(q) \cup {s}
           /\ NoRepeats(q) /\ s \notin Elems(q) => NoRepeats(Append(q, s))
  BY DEF Elems, NoRepeats

\* tq_pop takes the first.
LEMMA TailElems ==
    ASSUME NEW S, NEW q \in Seq(S), q # <<>>, NoRepeats(q)
    PROVE  /\ Head(q) \in S /\ Head(q) \in Elems(q) /\ Tail(q) \in Seq(S)
           /\ Elems(Tail(q)) = Elems(q) \ {Head(q)}
           /\ NoRepeats(Tail(q))
<1>1. Len(q) \in Nat \ {0} /\ Head(q) = q[1]
  OBVIOUS
<1>2. /\ Tail(q) \in Seq(S) /\ Len(Tail(q)) = Len(q) - 1
      /\ \A i \in 1..Len(q) - 1 : Tail(q)[i] = q[i + 1]
  OBVIOUS
<1>3. Elems(Tail(q)) \subseteq Elems(q) \ {Head(q)}
  BY <1>1, <1>2 DEF Elems, NoRepeats
<1>4. ASSUME NEW s \in Elems(q) \ {Head(q)}
      PROVE  s \in Elems(Tail(q))
  <2>1. PICK i \in 1..Len(q) : s = q[i]
    BY DEF Elems
  <2>2. i # 1 /\ i - 1 \in 1..Len(Tail(q)) /\ Tail(q)[i - 1] = s
    BY <1>1, <1>2, <2>1
  <2>3. QED
    BY <2>2 DEF Elems
<1>5. NoRepeats(Tail(q))
  BY <1>1, <1>2 DEF NoRepeats
<1>6. Head(q) \in S /\ Head(q) \in Elems(q)
  BY <1>1 DEF Elems
<1>7. QED
  BY <1>2, <1>3, <1>4, <1>5, <1>6

-----------------------------------------------------------------------------
(* The invariant.                                                          *)

HandLabel == {"send", "suspend", "retry", "add"}

\* The sthread of p has a share of p in hand, and queues one of p only.
HandInv == \A p \in Pool : spc[p] \in HandLabel => cur[p] \in Share /\ PoolOf[cur[p]] = p
QueueInv == \A p \in Pool : \A s \in Elems(queue[p]) : PoolOf[s] = p

SharesInv == TypeOK /\ HandInv /\ QueueInv /\ OneOwner

Partition ==
    \A s \in Share : \E place \in Places :
        \A other \in Places : Owns(other, s) <=> other = place

\* The step moves the shares in S to a place, and no other.
Moves(S, place) ==
    \A s \in Share : \A other \in Places :
        Owns(other, s)' <=> IF s \in S THEN other = place ELSE Owns(other, s)

\* Moving shares from place to place keeps their one owner.
LEMMA MovesKeepPartition ==
    ASSUME Partition, NEW S, NEW place \in Places, Moves(S, place)
    PROVE  Partition'
  BY DEF Partition, Moves, Places

\* Owns, place by place, for this state and the next.
LEMMA OwnsEach ==
    ASSUME NEW s \in Share
    PROVE  /\ Owns("fresh", s) <=> s \in fresh
           /\ Owns("queue", s) <=> s \in Elems(queue[PoolOf[s]])
           /\ Owns("hand", s) <=> s = cur[PoolOf[s]] /\ spc[PoolOf[s]] \in HandLabel
           /\ Owns("table", s) <=> s \in table
           /\ Owns("freed", s) <=> s \in freed
  BY DEF Owns, Queued, Elems, InHand, HandLabel

LEMMA OwnsEachNext ==
    ASSUME NEW s \in Share
    PROVE  /\ Owns("fresh", s)' <=> s \in fresh'
           /\ Owns("queue", s)' <=> s \in Elems(queue'[PoolOf[s]])
           /\ Owns("hand", s)' <=> s = cur'[PoolOf[s]] /\ spc'[PoolOf[s]] \in HandLabel
           /\ Owns("table", s)' <=> s \in table'
           /\ Owns("freed", s)' <=> s \in freed'
  BY DEF Owns, Queued, Elems, InHand, HandLabel

\* A share has no two owners.
LEMMA OwnersDiffer ==
    ASSUME Partition, NEW s \in Share, NEW a \in Places, NEW b \in Places,
           Owns(a, s), Owns(b, s)
    PROVE  a = b
  BY DEF Partition

LEMMA InitSharesInv == Init => SharesInv
<1> SUFFICES ASSUME Init
             PROVE  SharesInv
  OBVIOUS
<1>1. TypeOK
  BY ShareFacts DEF Init, TypeOK, SLabel, RLabel
<1>2. HandInv /\ QueueInv /\ QueuedOnce
  BY DEF Init, HandInv, HandLabel, QueueInv, Elems, QueuedOnce
<1>3. Partition
  <2> SUFFICES ASSUME NEW s \in Share
               PROVE  \A other \in Places : Owns(other, s) <=> other = "fresh"
    BY DEF Partition, Places
  <2>1. s \in fresh /\ s \notin table /\ s \notin freed
    BY DEF Init
  <2>2. s \notin Queued(PoolOf[s]) /\ s \notin InHand(PoolOf[s])
    BY ShareFacts DEF Init, Queued, InHand
  <2>3. QED
    BY <2>1, <2>2 DEF Owns, Places
<1>4. QED
  BY <1>1, <1>2, <1>3 DEF SharesInv, OneOwner, Partition

-----------------------------------------------------------------------------
(* Who owns a share after each step.                                       *)

\* A step that touches no owner.
LEMMA FrameKeeps ==
    ASSUME SharesInv, UNCHANGED <<fresh, queue, table, freed>>,
           \A p \in Pool : \/ spc'[p] = spc[p] /\ cur'[p] = cur[p]
                           \/ spc[p] \notin HandLabel /\ spc'[p] \notin HandLabel
                           \/ /\ spc[p] \in HandLabel /\ spc'[p] \in HandLabel
                              /\ cur'[p] = cur[p]
    PROVE  HandInv' /\ QueueInv' /\ OneOwner'
<1>1. HandInv' /\ QueueInv' /\ QueuedOnce'
  BY DEF SharesInv, HandInv, QueueInv, OneOwner, QueuedOnce
<1>2. Moves({}, "freed")
  <2> SUFFICES ASSUME NEW s \in Share
               PROVE  \A other \in Places : Owns(other, s)' <=> Owns(other, s)
    BY DEF Moves
  <2>1. PoolOf[s] \in Pool
    BY ShareFacts
  <2>2. QED
    BY <2>1, OwnsEach, OwnsEachNext DEF Places
<1>3. Partition'
  BY <1>2, MovesKeepPartition DEF SharesInv, OneOwner, Partition, Places
<1>4. QED
  BY <1>1, <1>3 DEF OneOwner, Partition

\* Devices: a fresh share is freed, or queued for its pool.
LEMMA SubmitKeeps ==
    ASSUME SharesInv, NEW s \in Share, SubmitStale(s) \/ SubmitPush(s)
    PROVE  HandInv' /\ QueueInv' /\ OneOwner'
<1> DEFINE p == PoolOf[s]
<1>1. p \in Pool /\ queue[p] \in Seq(Share) /\ Owns("fresh", s)
  BY ShareFacts, OwnsEach DEF SubmitStale, SubmitPush, SharesInv, TypeOK
<1>2. UNCHANGED <<spc, cur, table>> /\ fresh' = fresh \ {s}
  BY DEF SubmitStale, SubmitPush, sendVars, tableVars
<1>3. s \notin Elems(queue[p]) /\ s \notin freed
  BY <1>1, OwnersDiffer, OwnsEach DEF SharesInv, OneOwner, Partition, Places
<1>4. CASE queue' = queue /\ freed' = freed \cup {s}
  <2>1. Moves({s}, "freed")
    BY <1>1, <1>2, <1>4, OwnsEach, OwnsEachNext, OwnersDiffer
       DEF Moves, Places, SharesInv, OneOwner, Partition
  <2>2. Partition'
    BY <2>1, MovesKeepPartition DEF SharesInv, OneOwner, Partition, Places
  <2>3. QED
    BY <1>2, <1>4, <2>2
       DEF SharesInv, OneOwner, Partition, HandInv, QueueInv, QueuedOnce
<1>5. CASE queue' = [queue EXCEPT ![p] = Append(@, s)] /\ freed' = freed
  <2>1. /\ Elems(queue'[p]) = Elems(queue[p]) \cup {s}
        /\ \A q \in Pool \ {p} : queue'[q] = queue[q]
        /\ NoRepeats(queue[p]) => NoRepeats(queue'[p])
    BY <1>1, <1>3, <1>5, AppendElems DEF SharesInv, TypeOK
  <2>2. Moves({s}, "queue")
    <3> SUFFICES ASSUME NEW t \in Share
                 PROVE  \A other \in Places :
                           Owns(other, t)' <=> IF t = s THEN other = "queue" ELSE Owns(other, t)
      BY DEF Moves
    <3>1. PoolOf[t] \in Pool
      BY ShareFacts
    <3>2. CASE t = s
      BY <1>1, <1>2, <1>3, <1>5, <2>1, <3>2, OwnsEach, OwnsEachNext, OwnersDiffer
         DEF Places, SharesInv, OneOwner, Partition
    <3>3. CASE t # s
      <4>1. t \in Elems(queue'[PoolOf[t]]) <=> t \in Elems(queue[PoolOf[t]])
        BY <2>1, <3>1, <3>3
      <4>2. QED
        BY <1>2, <1>5, <3>3, <4>1, OwnsEach, OwnsEachNext DEF Places
    <3>4. QED
      BY <3>2, <3>3
  <2>3. Partition'
    BY <2>2, MovesKeepPartition DEF SharesInv, OneOwner, Partition, Places
  <2>4. HandInv'
    BY <1>2 DEF SharesInv, HandInv
  <2>5. QueueInv'
    BY <2>1 DEF SharesInv, QueueInv
  <2>6. QueuedOnce'
    BY <2>1 DEF SharesInv, OneOwner, QueuedOnce, NoRepeats
  <2>7. QED
    BY <2>3, <2>4, <2>5, <2>6 DEF OneOwner, Partition
<1>6. QED
  BY <1>4, <1>5 DEF SubmitStale, SubmitPush, Free, sendVars

\* tq_pop: the head of the queue is freed or taken in hand.
LEMMA TakeKeeps ==
    ASSUME SharesInv, NEW p \in Pool, spc[p] \in {"pop", "wait"}, Take(p)
    PROVE  HandInv' /\ QueueInv' /\ OneOwner'
<1> DEFINE s == Head(queue[p])
<1>1. queue[p] \in Seq(Share) /\ queue[p] # <<>> /\ NoRepeats(queue[p])
  BY DEF Take, SharesInv, TypeOK, OneOwner, QueuedOnce, NoRepeats
<1>2. /\ s \in Share /\ s \in Elems(queue[p]) /\ PoolOf[s] = p
      /\ Elems(Tail(queue[p])) = Elems(queue[p]) \ {s}
      /\ NoRepeats(Tail(queue[p]))
  BY <1>1, TailElems DEF SharesInv, QueueInv
<1>3. queue' = [queue EXCEPT ![p] = Tail(@)] /\ UNCHANGED <<fresh, table>>
  BY DEF Take, tableVars
<1>4. /\ Elems(queue'[p]) = Elems(queue[p]) \ {s}
      /\ \A q \in Pool \ {p} : queue'[q] = queue[q]
      /\ NoRepeats(queue'[p])
  BY <1>2, <1>3 DEF SharesInv, TypeOK
<1>5. QueueInv' /\ QueuedOnce'
  BY <1>4 DEF SharesInv, QueueInv, OneOwner, QueuedOnce, NoRepeats
<1>6. s \notin fresh /\ s \notin table /\ s \notin freed
  BY <1>2, OwnsEach, OwnersDiffer DEF SharesInv, OneOwner, Partition, Places
<1>7. \A t \in Share : PoolOf[t] \in Pool /\ (t # s =>
          (t \in Elems(queue'[PoolOf[t]]) <=> t \in Elems(queue[PoolOf[t]])))
  BY <1>2, <1>4, ShareFacts
<1>8. CASE spc' = [spc EXCEPT ![p] = "top"] /\ freed' = freed \cup {s} /\ cur' = cur
  <2>1. \A q \in Pool : spc'[q] = spc[q] \/ (q = p /\ spc'[q] = "top")
    BY <1>8 DEF SharesInv, TypeOK
  <2>2. Moves({s}, "freed")
    BY <1>2, <1>3, <1>4, <1>6, <1>7, <1>8, <2>1, OwnsEach, OwnsEachNext
       DEF Moves, Places, HandLabel
  <2>3. Partition'
    BY <2>2, MovesKeepPartition DEF SharesInv, OneOwner, Partition, Places
  <2>4. HandInv'
    BY <1>8, <2>1 DEF SharesInv, HandInv, HandLabel
  <2>5. QED
    BY <1>5, <2>3, <2>4 DEF OneOwner, Partition
<1>9. CASE /\ spc' = [spc EXCEPT ![p] = "send"] /\ freed' = freed
           /\ cur' = [cur EXCEPT ![p] = s]
  <2>1. /\ spc'[p] = "send" /\ cur'[p] = s
        /\ \A q \in Pool \ {p} : spc'[q] = spc[q] /\ cur'[q] = cur[q]
    BY <1>9 DEF SharesInv, TypeOK
  <2>2. Moves({s}, "hand")
    <3> SUFFICES ASSUME NEW t \in Share
                 PROVE  \A other \in Places :
                           Owns(other, t)' <=> IF t = s THEN other = "hand" ELSE Owns(other, t)
      BY DEF Moves
    <3>1. CASE t = s
      BY <1>2, <1>3, <1>4, <1>6, <1>9, <2>1, <3>1, OwnsEachNext DEF Places, HandLabel
    <3>2. CASE t # s
      BY <1>3, <1>7, <1>9, <2>1, <3>2, OwnsEach, OwnsEachNext DEF Places, HandLabel
    <3>3. QED
      BY <3>1, <3>2
  <2>3. Partition'
    BY <2>2, MovesKeepPartition DEF SharesInv, OneOwner, Partition, Places
  <2>4. HandInv'
    BY <1>2, <2>1 DEF SharesInv, HandInv, HandLabel
  <2>5. QED
    BY <1>5, <2>3, <2>4 DEF OneOwner, Partition
<1>10. QED
  BY <1>8, <1>9 DEF Take, Free

\* The share in hand is freed, or entered in the table.
LEMMA HandKeeps ==
    ASSUME SharesInv, NEW p \in Pool, spc[p] \in HandLabel,
           UNCHANGED <<fresh, queue>>,
           spc' = [spc EXCEPT ![p] = spc'[p]], spc'[p] \notin HandLabel,
           \A q \in Pool \ {p} : cur'[q] = cur[q],
           \/ freed' = freed \cup {cur[p]} /\ table' = table
           \/ table' = table \cup {cur[p]} /\ freed' = freed
    PROVE  HandInv' /\ QueueInv' /\ OneOwner'
<1> DEFINE s == cur[p]
<1>1. s \in Share /\ PoolOf[s] = p /\ Owns("hand", s)
  BY OwnsEach DEF SharesInv, HandInv
<1>2. s \notin fresh /\ s \notin table /\ s \notin freed /\ s \notin Elems(queue[p])
  BY <1>1, OwnsEach, OwnersDiffer DEF SharesInv, OneOwner, Partition, Places
<1>3. \A q \in Pool \ {p} : spc'[q] = spc[q] /\ cur'[q] = cur[q]
  BY DEF SharesInv, TypeOK
<1>4. HandInv' /\ QueueInv' /\ QueuedOnce'
  BY <1>3 DEF SharesInv, HandInv, QueueInv, OneOwner, QueuedOnce
<1>5. \A t \in Share : PoolOf[t] \in Pool
  BY ShareFacts
<1>6. PICK place \in {"freed", "table"} :
          /\ freed' = IF place = "freed" THEN freed \cup {s} ELSE freed
          /\ table' = IF place = "table" THEN table \cup {s} ELSE table
  OBVIOUS
<1>7. Moves({s}, place)
  <2> SUFFICES ASSUME NEW t \in Share
               PROVE  \A other \in Places :
                         Owns(other, t)' <=> IF t = s THEN other = place ELSE Owns(other, t)
    BY DEF Moves
  <2>1. CASE t = s
    BY <1>1, <1>2, <1>6, <2>1, OwnsEachNext DEF Places
  <2>2. CASE t # s
    BY <1>3, <1>5, <1>6, <2>2, OwnsEach, OwnsEachNext DEF Places
  <2>3. QED
    BY <2>1, <2>2
<1>8. Partition'
  BY <1>7, MovesKeepPartition DEF SharesInv, OneOwner, Partition, Places
<1>9. QED
  BY <1>4, <1>8 DEF OneOwner, Partition

\* Entries of the table are freed.
LEMMA TableKeeps ==
    ASSUME SharesInv, NEW S \in SUBSET table,
           UNCHANGED <<fresh, queue, spc, cur>>,
           table' = table \ S, freed' = freed \cup S
    PROVE  HandInv' /\ QueueInv' /\ OneOwner'
<1>1. HandInv' /\ QueueInv' /\ QueuedOnce'
  BY DEF SharesInv, HandInv, QueueInv, OneOwner, QueuedOnce
<1>2. Moves(S, "freed")
  <2> SUFFICES ASSUME NEW t \in Share
               PROVE  \A other \in Places :
                         Owns(other, t)' <=> IF t \in S THEN other = "freed" ELSE Owns(other, t)
    BY DEF Moves
  <2>1. CASE t \in S
    <3>1. Owns("table", t)
      BY <2>1, OwnsEach
    <3>2. \A other \in Places : Owns(other, t) <=> other = "table"
      BY <3>1, OwnersDiffer DEF SharesInv, OneOwner, Partition, Places
    <3>3. QED
      BY <2>1, <3>2, OwnsEach, OwnsEachNext DEF Places
  <2>2. CASE t \notin S
    BY <2>2, OwnsEach, OwnsEachNext DEF Places
  <2>3. QED
    BY <2>1, <2>2
<1>3. Partition'
  BY <1>2, MovesKeepPartition DEF SharesInv, OneOwner, Partition, Places
<1>4. QED
  BY <1>1, <1>3 DEF OneOwner, Partition

-----------------------------------------------------------------------------
(* Types, and the invariant of the specification.                          *)

\* The entries of a pool can be counted.
LEMMA EntriesCount ==
    ASSUME TypeOK, NEW S \in SUBSET table
    PROVE  Cardinality(S) \in Nat
<1>1. IsFiniteSet(S)
  BY ShareFacts, FS_Subset DEF TypeOK
<1>2. QED
  BY <1>1, FS_CardinalityType

\* free_work keeps the types of what it writes.
LEMMA FreeTypes ==
    ASSUME TypeOK, NEW S \in SUBSET Share, NEW n \in Nat, Free(S, n)
    PROVE  freed' \subseteq Share /\ tally' \in [Share -> Nat]
  BY DEF Free, TypeOK

LEMMA DeviceTypes ==
    ASSUME TypeOK, NEW s \in Share, SubmitStale(s) \/ SubmitPush(s) \/ Age(s)
    PROVE  TypeOK'
<1>1. CASE SubmitStale(s)
  <2>1. freed' \subseteq Share /\ tally' \in [Share -> Nat]
    BY <1>1, FreeTypes DEF SubmitStale
  <2>2. QED
    BY <1>1, <2>1 DEF SubmitStale, TypeOK, sendVars, connVars, tableVars
<1>2. CASE SubmitPush(s)
  <2>1. freed' \subseteq Share /\ tally' \in [Share -> Nat]
    <3>1. CASE Free({s}, 0)
      BY <3>1, FreeTypes
    <3>2. CASE UNCHANGED <<freed, tally>>
      BY <3>2 DEF TypeOK
    <3>3. QED
      BY <1>2, <3>1, <3>2 DEF SubmitPush
  <2>2. queue' \in [Pool -> Seq(Share)]
    <3>1. PoolOf[s] \in Pool /\ Append(queue[PoolOf[s]], s) \in Seq(Share)
      BY ShareFacts, AppendElems DEF TypeOK
    <3>2. queue' = queue \/ queue' = [queue EXCEPT ![PoolOf[s]] = Append(@, s)]
      BY <1>2 DEF SubmitPush
    <3>3. QED
      BY <3>1, <3>2 DEF TypeOK
  <2>3. nonce1' \in [Share -> Session \cup {None}]
    <3>1. PICK n \in Session : nonce1' = [nonce1 EXCEPT ![s] = n]
      BY <1>2 DEF SubmitPush
    <3>2. QED
      BY <3>1 DEF TypeOK
  <2>4. QED
    BY <1>2, <2>1, <2>2, <2>3 DEF SubmitPush, TypeOK, connVars, tableVars
<1>3. CASE Age(s)
  BY <1>3 DEF Age, TypeOK, sendVars, connVars, tableVars
<1>4. QED
  BY <1>1, <1>2, <1>3

\* A family of sets of messages stays one when one of them gains or loses messages.
LEMMA SetFamily ==
    ASSUME NEW f \in [Pool -> SUBSET Message], NEW p \in Pool, NEW S \in SUBSET Message,
           NEW T \in SUBSET Message
    PROVE  /\ [f EXCEPT ![p] = @ \cup S] \in [Pool -> SUBSET Message]
           /\ [f EXCEPT ![p] = @ \ S] \in [Pool -> SUBSET Message]
           /\ [f EXCEPT ![p] = (@ \ S) \cup T] \in [Pool -> SUBSET Message]
           /\ [f EXCEPT ![p] = {}] \in [Pool -> SUBSET Message]
<1>1. /\ f[p] \cup S \in SUBSET Message /\ f[p] \ S \in SUBSET Message
      /\ (f[p] \ S) \cup T \in SUBSET Message
  OBVIOUS
<1>2. QED
  BY <1>1

LEMMA SThreadTypes ==
    ASSUME SharesInv, NEW p \in Pool, SThread(p)
    PROVE  TypeOK'
<1> USE DEF TypeOK, SGoto, SLabel, shareVars, sendVars, connVars, tableVars
<1>1. TypeOK /\ (spc[p] \in HandLabel => cur[p] \in Share)
  BY DEF SharesInv, HandInv
<1>2. CASE SCheckRemoved(p) \/ SPopEmpty(p) \/ SWakeSpuriously(p) \/ SRetry(p)
           \/ SFreeze(p)
  BY <1>1, <1>2 DEF SCheckRemoved, SPopEmpty, SWakeSpuriously, SRetry, SFreeze
<1>3. CASE Take(p)
  <2>1. Head(queue[p]) \in Share /\ Tail(queue[p]) \in Seq(Share)
    BY <1>1, <1>3, TailElems
       DEF Take, SharesInv, OneOwner, QueuedOnce, NoRepeats
  <2>2. freed' \subseteq Share /\ tally' \in [Share -> Nat]
    <3>1. CASE Free({Head(queue[p])}, 0)
      BY <1>1, <2>1, <3>1, FreeTypes
    <3>2. CASE UNCHANGED <<freed, tally>>
      BY <1>1, <3>2
    <3>3. QED
      BY <1>3, <3>1, <3>2 DEF Take
  <2>3. spc' \in [Pool -> SLabel] /\ cur' \in [Pool -> Share \cup {None}]
    <3>1. \/ spc' = [spc EXCEPT ![p] = "top"] /\ cur' = cur
          \/ spc' = [spc EXCEPT ![p] = "send"] /\ cur' = [cur EXCEPT ![p] = Head(queue[p])]
      BY <1>3 DEF Take
    <3>2. spc \in [Pool -> SLabel] /\ {"top", "send"} \subseteq SLabel
      BY <1>1
    <3>3. cur \in [Pool -> Share \cup {None}] /\ Head(queue[p]) \in Share \cup {None}
      BY <1>1, <2>1
    <3>4. spc' \in [Pool -> SLabel]
      BY ONLY <3>1, <3>2
    <3>5. cur' \in [Pool -> Share \cup {None}]
      BY ONLY <3>1, <3>3
    <3>6. QED
      BY <3>4, <3>5
  <2>4. queue' \in [Pool -> Seq(Share)]
    BY <1>1, <1>3, <2>1 DEF Take
  <2>5. id' \in [Message -> Id \cup {None}]
    BY <1>1, <1>3 DEF Take
  <2>6. QED
    BY <1>1, <1>3, <2>2, <2>3, <2>4, <2>5 DEF Take
<1>4. CASE SSend(p)
  <2>1. spc[p] = "send" /\ cur[p] \in Share
    BY <1>1, <1>4 DEF SSend, HandLabel
  <2>2. spc' \in [Pool -> SLabel]
    <3>1. \E l \in {"add", "suspend", "retry"} : spc' = [spc EXCEPT ![p] = l]
      BY <1>4 DEF SSend
    <3>2. spc \in [Pool -> SLabel]
      BY <1>1
    <3>3. QED
      BY <3>1, <3>2
  <2>3. inflight' = inflight \/ inflight' = [inflight EXCEPT ![p] = @ \cup {cur[p]}]
    BY <1>4 DEF SSend
  <2>4. inflight' \in [Pool -> SUBSET Message]
    <3>1. {cur[p]} \in SUBSET Message /\ inflight \in [Pool -> SUBSET Message]
      BY <1>1, <2>1, ShareFacts
    <3>2. [inflight EXCEPT ![p] = @ \cup {cur[p]}] \in [Pool -> SUBSET Message]
      BY <3>1, SetFamily
    <3>3. QED
      BY <2>3, <3>1, <3>2
  <2>5. UNCHANGED <<fresh, nonce1, old, freed, tally, early, queue, frozen, cur, rpc,
                    active, session, resumable, table, sshares, pruned, removed, id>>
    BY <1>4 DEF SSend
  <2>6. QED
    BY <1>1, <2>2, <2>4, <2>5
<1>5. CASE SSuspend(p)
  BY <1>1, <1>5 DEF SSuspend, CloseSocket
<1>6. CASE SGiveUp(p) \/ SNoRetry(p)
  <2>1. Free({cur[p]}, 1) /\ cur[p] \in Share
    BY <1>1, <1>6 DEF SGiveUp, SNoRetry, Discard, HandLabel
  <2>2. freed' \subseteq Share /\ tally' \in [Share -> Nat]
    BY <1>1, <2>1, FreeTypes
  <2>3. QED
    BY <1>1, <1>6, <2>2 DEF SGiveUp, SNoRetry, Discard
<1>7. CASE SAdd(p)
  BY <1>1, <1>7 DEF SAdd, HandLabel
<1>8. QED
  BY <1>2, <1>3, <1>4, <1>5, <1>6, <1>7 DEF SThread, SPop, SWake

LEMMA CloseSocketTypes ==
    ASSUME TypeOK, NEW p \in Pool, CloseSocket(p)
    PROVE  active' \in [Pool -> BOOLEAN] /\ inflight' \in [Pool -> SUBSET Message]
<1>1. inflight \in [Pool -> SUBSET Message] /\ {} \in SUBSET Message
  BY DEF TypeOK
<1>2. inflight' \in [Pool -> SUBSET Message]
  BY <1>1, SetFamily DEF CloseSocket
<1>3. active' \in [Pool -> BOOLEAN]
  BY DEF CloseSocket, TypeOK
<1>4. QED
  BY <1>2, <1>3

LEMMA ClearSharesTypes ==
    ASSUME TypeOK, NEW p \in Pool, ClearShares(p)
    PROVE  /\ table' \subseteq Share /\ freed' \subseteq Share
           /\ tally' \in [Share -> Nat] /\ sshares' \in [Pool -> Int]
<1>1. Entries(p) \in SUBSET table /\ Entries(p) \in SUBSET Share
  BY DEF Entries, TypeOK
<1>2. Cardinality(Entries(p)) \in Nat
  BY <1>1, EntriesCount
<1>3. sshares' \in [Pool -> Int]
  BY <1>2 DEF ClearShares, TypeOK
<1>4. freed' \subseteq Share /\ tally' \in [Share -> Nat]
  BY <1>1, FreeTypes DEF ClearShares
<1>5. QED
  BY <1>3, <1>4 DEF ClearShares, TypeOK

LEMMA RThreadTypes ==
    ASSUME TypeOK, NEW p \in Pool, RThread(p)
    PROVE  TypeOK'
<1> USE DEF RGoto, shareVars, sendVars, tableVars
<1>1. ASSUME NEW m \in Message, Reply(p, m)
      PROVE  TypeOK'
  <2>1. inflight' \in [Pool -> SUBSET Message]
    <3>1. inflight \in [Pool -> SUBSET Message] /\ {m} \in SUBSET Message
      BY DEF TypeOK
    <3>2. QED
      BY <1>1, <3>1, SetFamily DEF Reply
  <2>2. CASE Answered(p, m)
    <3>1. PICK s \in Found(m) : table' = table \ {s} /\ Free({s}, 1)
      BY <2>2 DEF Answered
    <3>2. freed' \subseteq Share /\ tally' \in [Share -> Nat]
      BY <3>1, FreeTypes DEF Found, TypeOK
    <3>3. sshares' \in [Pool -> Int]
      <4>1. sshares' = [sshares EXCEPT ![p] = @ - 1] /\ sshares \in [Pool -> Int]
        BY <2>2 DEF Answered, TypeOK
      <4>2. QED
        BY <4>1
    <3>4. QED
      BY <1>1, <2>1, <2>2, <3>1, <3>2, <3>3 DEF Reply, Answered, TypeOK
  <2>3. CASE Untracked(m)
    <3>1. tally' \in [Share -> Nat] /\ early' \subseteq Share
      <4>1. CASE UNCHANGED <<tally, early>>
        BY <4>1 DEF TypeOK
      <4>2. CASE ~UNCHANGED <<tally, early>>
        <5>1. /\ m \in Share /\ tally' = [tally EXCEPT ![m] = @ + 1]
              /\ tally \in [Share -> Nat]
              /\ early' \subseteq early \cup {m} /\ early \subseteq Share
          BY <2>3, <4>2 DEF Untracked, TypeOK
        <5>2. QED
          BY <5>1
      <4>3. QED
        BY <4>1, <4>2
    <3>2. QED
      BY <1>1, <2>1, <2>3, <3>1 DEF Reply, Untracked, TypeOK
  <2>4. QED
    BY <1>1, <2>2, <2>3 DEF Reply
<1>2. CASE RAuthorized(p)
  <2>1. PICK read \in SUBSET (inflight[p] \cap Share),
             unread \in SUBSET {m \in Request : PoolOf[m] = p /\ id[m] = None} :
                /\ inflight' = [inflight EXCEPT ![p] = (@ \ read) \cup unread]
                /\ \E i \in [unread -> Id] :
                      id' = [m \in Message |-> IF m \in unread THEN i[m] ELSE id[m]]
    BY <1>2 DEF RAuthorized
  <2>2. read \in SUBSET Message /\ unread \in SUBSET Message
    BY DEF Message
  <2>3. inflight' \in [Pool -> SUBSET Message]
    BY <2>1, <2>2, SetFamily DEF TypeOK
  <2>4. id' \in [Message -> Id \cup {None}]
    BY <2>1 DEF TypeOK
  <2>5. QED
    BY <1>2, <2>3, <2>4 DEF RAuthorized, TypeOK, RLabel
<1>3. CASE RRemoved(p) \/ RNotNeeded(p) \/ RLost(p) \/ RAuthFails(p)
  <2>1. active' \in [Pool -> BOOLEAN] /\ inflight' \in [Pool -> SUBSET Message]
    <3>1. CASE CloseSocket(p)
      BY <3>1, CloseSocketTypes
    <3>2. CASE UNCHANGED <<active, inflight>>
      BY <3>2 DEF TypeOK
    <3>3. QED
      BY <1>3, <3>1, <3>2 DEF RRemoved, RNotNeeded, RLost, RAuthFails
  <2>2. QED
    BY <1>3, <2>1 DEF RRemoved, RNotNeeded, RLost, RAuthFails, TypeOK, RLabel
<1>4. CASE RClear(p)
  <2>1. /\ table' \subseteq Share /\ freed' \subseteq Share
        /\ tally' \in [Share -> Nat] /\ sshares' \in [Pool -> Int]
    BY <1>4, ClearSharesTypes DEF RClear
  <2>2. QED
    BY <1>4, <2>1 DEF RClear, TypeOK, RLabel
<1>5. CASE RLostClear(p)
  <2>1. /\ table' \subseteq Share /\ freed' \subseteq Share
        /\ tally' \in [Share -> Nat] /\ sshares' \in [Pool -> Int]
    <3>1. CASE ClearShares(p)
      BY <3>1, ClearSharesTypes
    <3>2. CASE UNCHANGED <<table, sshares, freed, tally>>
      BY <3>2 DEF TypeOK
    <3>3. QED
      BY <1>5, <3>1, <3>2 DEF RLostClear
  <2>2. QED
    BY <1>5, <2>1 DEF RLostClear, TypeOK, RLabel
<1>6. CASE RRestart(p)
  <2>1. inflight' \in [Pool -> SUBSET Message]
    <3>1. inflight \in [Pool -> SUBSET Message] /\ {} \in SUBSET Message
      BY DEF TypeOK
    <3>2. QED
      BY <1>6, <3>1, SetFamily DEF RRestart
  <2>2. PICK n \in Session : session' = [session EXCEPT ![p] = n]
    BY <1>6 DEF RRestart
  <2>3. QED
    BY <1>6, <2>1, <2>2 DEF RRestart, TypeOK, RLabel
<1>7. CASE RRestartFails(p)
  <2>1. active' \in [Pool -> BOOLEAN] /\ inflight' \in [Pool -> SUBSET Message]
    BY <1>7, CloseSocketTypes DEF RRestartFails
  <2>2. /\ session' \in [Pool -> Session \cup {None}]
        /\ resumable' \in [Pool -> BOOLEAN]
    BY <1>7 DEF RRestartFails, TypeOK
  <2>3. QED
    BY <1>7, <2>1, <2>2 DEF RRestartFails, TypeOK, RLabel
<1>8. QED
  BY <1>1, <1>2, <1>3, <1>4, <1>5, <1>6, <1>7 DEF RThread

LEMMA OtherTypes ==
    ASSUME TypeOK, NEW p \in Pool, Prune(p) \/ Remove(p)
    PROVE  TypeOK'
<1>1. CASE Prune(p)
  <2> DEFINE S == {s \in Entries(p) : s \in old}
  <2>1. S \in SUBSET table /\ S \in SUBSET Share
    BY DEF Entries, TypeOK
  <2>2. Cardinality(S) \in Nat
    BY <2>1, EntriesCount
  <2>3. pruned' \in [Pool -> Nat] /\ table' \subseteq Share
    BY <1>1, <2>1, <2>2 DEF Prune, TypeOK
  <2>4. freed' \subseteq Share /\ tally' \in [Share -> Nat]
    BY <1>1, <2>1, FreeTypes DEF Prune
  <2>5. QED
    BY <1>1, <2>3, <2>4 DEF Prune, TypeOK, sendVars, connVars
<1>2. CASE Remove(p)
  BY <1>2 DEF Remove, TypeOK, shareVars, sendVars, connVars, tableVars
<1>3. QED
  BY <1>1, <1>2

\* One case per thread; the steps that move no share are frames.
LEMMA NextSharesInv == SharesInv /\ [Next]_vars => SharesInv'
<1> SUFFICES ASSUME SharesInv, [Next]_vars
             PROVE  SharesInv'
  OBVIOUS
<1>1. TypeOK /\ \A p \in Pool : spc[p] \in HandLabel => cur[p] \in Share
  BY DEF SharesInv, HandInv
<1>2. ASSUME NEW s \in Share, SubmitStale(s) \/ SubmitPush(s)
      PROVE  SharesInv'
  BY <1>1, <1>2, DeviceTypes, SubmitKeeps DEF SharesInv
<1>3. ASSUME NEW s \in Share, Age(s)
      PROVE  SharesInv'
  <2>1. UNCHANGED <<fresh, queue, table, freed, spc, cur>>
    BY <1>3 DEF Age, sendVars, tableVars
  <2>2. QED
    BY <1>1, <1>3, <2>1, DeviceTypes, FrameKeeps DEF SharesInv
<1>4. ASSUME NEW p \in Pool, SThread(p)
      PROVE  SharesInv'
  <2>1. TypeOK'
    BY <1>4, SThreadTypes
  <2>2. CASE SPop(p) \/ SWake(p)
    BY <2>1, <2>2, TakeKeeps DEF SharesInv, SPop, SWake
  <2>3. CASE SGiveUp(p) \/ SNoRetry(p) \/ SAdd(p)
    <3>1. HandInv' /\ QueueInv' /\ OneOwner'
      <4>1. spc[p] \in HandLabel /\ spc'[p] \notin HandLabel
            /\ spc' = [spc EXCEPT ![p] = spc'[p]]
        BY <1>1, <2>3 DEF SGiveUp, SNoRetry, SAdd, SGoto, HandLabel, TypeOK
      <4>2. UNCHANGED <<fresh, queue>> /\ \A q \in Pool \ {p} : cur'[q] = cur[q]
        BY <1>1, <2>3
           DEF SGiveUp, SNoRetry, SAdd, Discard, TypeOK, shareVars, sendVars
      <4>3. \/ freed' = freed \cup {cur[p]} /\ table' = table
            \/ table' = table \cup {cur[p]} /\ freed' = freed
        BY <2>3 DEF SGiveUp, SNoRetry, SAdd, Discard, Free, tableVars, shareVars
      <4>4. QED
        BY <4>1, <4>2, <4>3, HandKeeps
    <3>2. QED
      BY <2>1, <3>1 DEF SharesInv
  <2>4. CASE SCheckRemoved(p) \/ SPopEmpty(p) \/ SWakeSpuriously(p) \/ SSend(p)
             \/ SSuspend(p) \/ SRetry(p) \/ SFreeze(p)
    <3>1. UNCHANGED <<fresh, queue, table, freed>>
      BY <2>4 DEF SCheckRemoved, SPopEmpty, SWakeSpuriously, SSend, SSuspend, SRetry,
                  SFreeze, shareVars, sendVars, tableVars
    <3>2. \A q \in Pool \ {p} : spc'[q] = spc[q] /\ cur'[q] = cur[q]
      BY <1>1, <2>4 DEF SCheckRemoved, SPopEmpty, SWakeSpuriously, SSend, SSuspend, SRetry,
                  SFreeze, SGoto, TypeOK
    <3>3. \/ spc[p] \notin HandLabel /\ spc'[p] \notin HandLabel
          \/ spc[p] \in HandLabel /\ spc'[p] \in HandLabel /\ cur'[p] = cur[p]
      BY <1>1, <2>4 DEF SCheckRemoved, SPopEmpty, SWakeSpuriously, SSend, SSuspend, SRetry,
                  SFreeze, SGoto, TypeOK, HandLabel
    <3>4. QED
      BY <2>1, <3>1, <3>2, <3>3, FrameKeeps DEF SharesInv
  <2>5. QED
    BY <1>4, <2>2, <2>3, <2>4 DEF SThread
<1>5. ASSUME NEW p \in Pool, RThread(p) \/ Prune(p) \/ Remove(p)
      PROVE  SharesInv'
  <2>1. TypeOK'
    BY <1>1, <1>5, RThreadTypes, OtherTypes
  <2>2. UNCHANGED <<fresh, queue, spc, cur>>
    BY <1>5 DEF RThread, Reply, RRemoved, RNotNeeded, RClear, RLost,
                RLostClear, RRestart, RRestartFails, RAuthorized, RAuthFails,
                Prune, Remove, shareVars, sendVars
  <2>3. \E S \in SUBSET table : table' = table \ S /\ freed' = freed \cup S
    <3>1. CASE UNCHANGED <<table, freed>>
      <4>1. table' = table \ {} /\ freed' = freed \cup {}
        BY <3>1
      <4>2. QED
        BY <4>1
    <3>2. CASE ClearShares(p)
      BY <3>2 DEF ClearShares, Free, Entries
    <3>3. CASE Prune(p)
      BY <3>3 DEF Prune, Free, Entries
    <3>4. ASSUME NEW m \in Message, Reply(p, m)
          PROVE  \/ \E S \in SUBSET table : table' = table \ S /\ freed' = freed \cup S
                 \/ UNCHANGED <<table, freed>>
      BY <3>4 DEF Reply, Answered, Untracked, Found, Free
    <3>5. QED
      BY <1>5, <3>1, <3>2, <3>3, <3>4
         DEF RThread, RRemoved, RNotNeeded, RClear, RLost,
             RLostClear, RRestart, RRestartFails, RAuthorized, RAuthFails,
             Remove, shareVars, tableVars
  <2>4. QED
    BY <2>1, <2>2, <2>3, TableKeeps DEF SharesInv
<1>6. CASE UNCHANGED vars
  <2>1. UNCHANGED <<fresh, queue, table, freed, spc, cur>>
    BY <1>6 DEF vars, shareVars, sendVars, tableVars
  <2>2. TypeOK'
    BY <1>1, <1>6 DEF TypeOK, vars, shareVars, sendVars, connVars, tableVars
  <2>3. QED
    BY <2>1, <2>2, FrameKeeps DEF SharesInv
<1>7. QED
  BY <1>2, <1>3, <1>4, <1>5, <1>6 DEF Next

LEMMA SharesInvHolds == Spec => []SharesInv
<1>1. QED
  BY InitSharesInv, NextSharesInv, PTL DEF Spec

\* Type correctness of the shares' model.
THEOREM SharesTypes == Spec => []TypeOK
<1>1. SharesInv => TypeOK
  BY DEF SharesInv
<1>2. QED
  BY <1>1, SharesInvHolds, PTL

\* No struct work of a share is lost, freed twice, or looked up after it was
\* freed, for any number of pools and shares and with spurious wakeups or without.
THEOREM ShareHasOneOwner == Spec => []OneOwner
<1>1. SharesInv => OneOwner
  BY DEF SharesInv
<1>2. QED
  BY <1>1, SharesInvHolds, PTL
=============================================================================
