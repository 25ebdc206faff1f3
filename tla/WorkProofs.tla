------------------------------- MODULE WorkProofs -------------------------------
(***************************************************************************)
(* Theorems of the three components that MCWork checks: the queue of staged*)
(* work, the job of a stratum pool, and the load-balance strategy.  They   *)
(* hold for any number of device threads, works, jobs and pools, and for   *)
(* any bounds.                                                             *)
(***************************************************************************)
EXTENDS MCWork, FiniteSetTheorems, NumberLemmas

-----------------------------------------------------------------------------
(* The queue of staged work.                                               *)

\* Who holds a work at which point of its code.
PcInv ==
    /\ spc = "stage" <=> swork # None
    /\ \A m \in Miner : mpc[m] \in {"test", "mine"} <=> mwork[m] # None

WorkInv == TypeOK /\ PcInv /\ OneHolder

\* A signal or a broadcast on getq->cond only moves threads from their wait.
Woken(old, new) ==
    /\ new \in [Miner -> MLabel]
    /\ \A m \in Miner : new[m] = old[m] \/ (old[m] = "wait" /\ new[m] = "woken")

LEMMA SignalMinerWakes ==
    ASSUME NEW pcs \in [Miner -> MLabel], NEW new \in SignalMiner(pcs)
    PROVE  Woken(pcs, new)
  BY DEF SignalMiner, Woken, MLabel

LEMMA BroadcastMinersWakes ==
    ASSUME NEW pcs \in [Miner -> MLabel]
    PROVE  Woken(pcs, BroadcastMiners(pcs))
  BY DEF BroadcastMiners, Woken, MLabel

\* A signal on gws_cond only moves the scheduler from its wait.
LEMMA SignalSchedulerWakes ==
    ASSUME NEW pc \in SLabel
    PROVE  /\ SignalScheduler(pc) \in SLabel
           /\ \/ SignalScheduler(pc) = pc
              \/ pc = "wait" /\ SignalScheduler(pc) = "woken"
  BY DEF SignalScheduler, SLabel

LEMMA InitWorkInv == Init => WorkInv
  BY StagedAssumption
     DEF Init, WorkInv, TypeOK, PcInv, OneHolder, HeldAreAllocated, HeldOnce,
         AllocatedAreHeld, SLabel, MLabel

\* One step per action; the steps that signal first say whom they woke.
LEMMA NextWorkInv == WorkInv /\ [Next]_vars => WorkInv'
<1> SUFFICES ASSUME WorkInv, [Next]_vars
             PROVE  WorkInv'
  OBVIOUS
<1> USE StagedAssumption
<1> USE DEF WorkInv, TypeOK, PcInv, OneHolder, HeldAreAllocated, HeldOnce,
            AllocatedAreHeld, workVars, poolVars
<1>1. CASE STop \/ SSpuriousWake \/ SWoken \/ SSpareNothing
  BY <1>1 DEF STop, SSpuriousWake, SWoken, SSpareNothing, SLabel
<1>2. CASE SSpare
  <2>1. Woken(mpc, mpc')
    BY <1>2, SignalMinerWakes DEF SSpare
  <2>2. PICK w \in staged : staged' = staged \ {w} /\ allocated' = allocated \ {w}
    BY <1>2 DEF SSpare
  <2>3. QED
    BY <1>2, <2>1, <2>2 DEF SSpare, Woken, SLabel
<1>3. CASE SMake
  <2>1. swork = None /\ allocated \ {swork} = allocated
    BY <1>3 DEF SMake
  <2> DEFINE free == CHOOSE x \in Work \ allocated : TRUE
  <2>2. Work \ allocated # {} => free \in Work \ allocated
    OBVIOUS
  <2>3. /\ Work \ allocated # {}
        /\ allocated' = allocated \cup {free}
        /\ swork' = free
        /\ wjob' = [wjob EXCEPT ![free] = job]
    BY <1>3, <2>1 DEF SMake
  <2>4. PICK w \in Work \ allocated :
            /\ allocated' = allocated \cup {w}
            /\ swork' = w
            /\ wjob' = [wjob EXCEPT ![w] = job]
    BY <2>2, <2>3
  <2>5. QED
    BY <1>3, <2>1, <2>4 DEF SMake, SLabel
<1>4. CASE SStage
  <2>1. Woken(mpc, mpc')
    BY <1>4, BroadcastMinersWakes DEF SStage
  <2>2. QED
    BY <1>4, <2>1 DEF SStage, Woken, SLabel
<1>5. ASSUME NEW m \in Miner, PopWait(m)
      PROVE  WorkInv'
  BY <1>5, SignalSchedulerWakes DEF PopWait, MLabel
<1>6. ASSUME NEW m \in Miner, PopTake(m)
      PROVE  WorkInv'
  <2>1. Woken([mpc EXCEPT ![m] = "test"], mpc')
    BY <1>6, SignalMinerWakes DEF PopTake, MLabel
  <2>2. PICK w \in staged : staged' = staged \ {w} /\ mwork' = [mwork EXCEPT ![m] = w]
    BY <1>6 DEF PopTake
  <2>3. mpc'[m] = "test" /\ mwork[m] = None
    BY <1>6, <2>1 DEF PopTake, Woken
  <2>4. \A n \in Miner \ {m} :
            mpc'[n] = mpc[n] \/ (mpc[n] = "wait" /\ mpc'[n] = "woken")
    BY <2>1 DEF Woken
  <2>5. mpc' \in [Miner -> MLabel]
    BY <2>1 DEF Woken
  <2>6. spc' \in SLabel /\ (spc' = spc \/ (spc = "wait" /\ spc' = "woken"))
    BY <1>6, SignalSchedulerWakes DEF PopTake
  <2>7. UNCHANGED <<allocated, wjob, job, active, swork>>
    BY <1>6 DEF PopTake
  <2>8. TypeOK'
    BY <2>2, <2>5, <2>6, <2>7
  <2>9. PcInv'
    BY <2>2, <2>3, <2>4, <2>5, <2>6, <2>7
  <2>10. OneHolder'
    <3>1. HeldAreAllocated'
      BY <2>2, <2>7
    <3>2. HeldOnce'
      BY <2>2, <2>3, <2>7
    <3>3. AllocatedAreHeld'
      BY <2>2, <2>3, <2>7
    <3>4. QED
      BY <3>1, <3>2, <3>3
  <2>11. QED
    BY <2>8, <2>9, <2>10
<1>7. ASSUME NEW m \in Miner, PopTimeout(m)
      PROVE  WorkInv'
  BY <1>7 DEF PopTimeout, MLabel
<1>8. ASSUME NEW m \in Miner, Test(m)
      PROVE  WorkInv'
  BY <1>8 DEF Test, MLabel
<1>9. ASSUME NEW m \in Miner, Wake(m)
      PROVE  WorkInv'
  BY <1>9, SignalSchedulerWakes DEF Wake, MLabel
<1>10. ASSUME NEW m \in Miner, Mined(m)
       PROVE  WorkInv'
  BY <1>10 DEF Mined, MLabel
<1>11. CASE Notify \/ LoseConnection
  BY <1>11 DEF Notify, LoseConnection
<1>12. CASE DiscardStale
  <2>1. PICK stale \in SUBSET staged :
            staged' = staged \ stale /\ allocated' = allocated \ stale
    BY <1>12 DEF DiscardStale
  <2>2. QED
    BY <1>12, <2>1, SignalSchedulerWakes DEF DiscardStale
<1>13. CASE UNCHANGED vars
  BY <1>13 DEF vars
<1>14. QED
  BY <1>1, <1>2, <1>3, <1>4, <1>5, <1>6, <1>7, <1>8, <1>9, <1>10, <1>11, <1>12, <1>13
     DEF Next, Scheduler, GetWork

LEMMA WorkInvHolds == Spec => []WorkInv
<1>1. QED
  BY InitWorkInv, NextWorkInv, PTL DEF Spec

\* Type correctness of the work queue's model.
THEOREM StagedWorkTypes == Spec => []TypeOK
<1>1. WorkInv => TypeOK
  BY DEF WorkInv
<1>2. QED
  BY <1>1, WorkInvHolds, PTL

\* struct work is handed on without loss, double use or use after free by
\* stage_work, hash_pop, get_work, discard_stale and clear_pool_work, however
\* their threads interleave.
THEOREM WorkHasOneHolder == Spec => []OneHolder
<1>1. WorkInv => OneHolder
  BY DEF WorkInv
<1>2. QED
  BY <1>1, WorkInvHolds, PTL

-----------------------------------------------------------------------------
\* Between counting the staged works and staging its own, the scheduler is sure
\* of room for one: no one else stages.
BoundInv ==
    /\ QueueBound
    /\ spc \in {"make", "stage"} => Cardinality(staged) <= MaxQueue

\* The count of a set of works is a number, and a subset counts no more.
LEMMA FewerStaged ==
    ASSUME NEW S \in SUBSET Work, NEW T \in SUBSET S
    PROVE  /\ Cardinality(S) \in Nat /\ Cardinality(T) \in Nat
           /\ Cardinality(T) <= Cardinality(S)
<1>1. IsFiniteSet(S) /\ IsFiniteSet(T)
  BY StagedAssumption, FS_Subset
<1>2. QED
  BY <1>1, FS_Subset, FS_CardinalityType

LEMMA InitBoundInv == Init => BoundInv
  BY StagedAssumption, FS_EmptySet DEF Init, BoundInv, QueueBound

LEMMA NextBoundInv == WorkInv /\ BoundInv /\ [Next]_vars => BoundInv'
<1> SUFFICES ASSUME WorkInv, BoundInv, [Next]_vars
             PROVE  BoundInv'
  OBVIOUS
<1> USE StagedAssumption DEF BoundInv, QueueBound
<1>1. staged \subseteq Work /\ Cardinality(staged) \in Nat
  BY FewerStaged DEF WorkInv, TypeOK
<1>2. CASE SStage
  <2>1. Cardinality(staged \cup {swork}) <= Cardinality(staged) + 1
    BY <1>1, FS_Subset, FS_AddElement
  <2>2. Cardinality(staged \cup {swork}) \in Nat
    BY <1>1, FS_Subset, FS_AddElement, FS_CardinalityType
  <2>3. QED
    BY <1>1, <1>2, <2>1, <2>2 DEF SStage
<1>3. CASE spc' \in {"make", "stage"} /\ staged' = staged /\ spc \notin {"make", "stage"}
  <2>1. STop \/ SWoken
    BY <1>3 DEF Next, Scheduler, GetWork, SSpuriousWake, SSpare, SSpareNothing, SMake,
        SStage, PopWait, PopTake, PopTimeout, Test, Wake, Mined, Notify,
        LoseConnection, DiscardStale, SignalScheduler, vars
  <2>2. ~(Cardinality(staged) > MaxQueue)
    BY <1>3, <2>1 DEF STop, SWoken
  <2>3. QED
    BY <1>1, <1>3, <2>2
<1>4. CASE staged' \subseteq staged /\ (spc' \in {"make", "stage"} => spc \in {"make", "stage"})
  <2>1. Cardinality(staged') \in Nat /\ Cardinality(staged') <= Cardinality(staged)
    BY <1>1, <1>4, FewerStaged
  <2>2. QED
    BY <1>1, <1>4, <2>1
<1>5. SStage \/ staged' \subseteq staged
  BY DEF Next, Scheduler, GetWork, STop, SSpuriousWake, SWoken, SSpare,
      SSpareNothing, SMake, SStage, PopWait, PopTake, PopTimeout, Test, Wake, Mined,
      Notify, LoseConnection, DiscardStale, workVars, vars
<1>6. \/ spc' \in {"make", "stage"} => spc \in {"make", "stage"}
      \/ spc \notin {"make", "stage"} /\ staged' = staged
  BY DEF Next, Scheduler, GetWork, STop, SSpuriousWake, SWoken, SSpare,
      SSpareNothing, SMake, SStage, PopWait, PopTake, PopTimeout, Test, Wake, Mined,
      Notify, LoseConnection, DiscardStale, SignalScheduler, workVars, vars
<1>7. QED
  BY <1>2, <1>3, <1>4, <1>5, <1>6

\* The main loop of cgminer keeps at most max_queue + 1 works staged, though
\* gws_cond is signalled for many reasons other than room in the queue.
THEOREM QueueIsBounded == Spec => []QueueBound
<1>1. BoundInv => QueueBound
  BY DEF BoundInv
<1>2. QED
  BY <1>1, InitBoundInv, NextBoundInv, WorkInvHolds, PTL DEF Spec

-----------------------------------------------------------------------------
(* The refinement of WorkCycle.                                            *)

LEMMA InitRefines == ASSUME allocated = {} PROVE Cycle!Init
  BY DEF Cycle!Init, Place

\* The two instances of the library count alike.
LEMMA SameCardinality == \A S : Cycle!Cardinality(S) = Cardinality(S)
  BY DEF Cardinality, Cycle!Cardinality

\* Where each work is, from who holds it.
LEMMA PlaceOfHeld ==
    ASSUME WorkInv
    PROVE  \A w \in Work :
               /\ Place(w) \in {"free", "staged", "made", "taken"}
               /\ Place(w) = "free" <=> w \notin allocated
               /\ Place(w) = "staged" <=> w \in staged
               /\ Place(w) = "made" <=> w = swork
               /\ Place(w) = "taken" <=> \E m \in Miner : w = mwork[m]
  BY StagedAssumption
     DEF Place, WorkInv, TypeOK, OneHolder, HeldAreAllocated, HeldOnce, AllocatedAreHeld

\* Only the places of the works named change.
LEMMA StepRefines ==
    ASSUME WorkInv, BoundInv, [Next]_vars
    PROVE  [Cycle!Next]_([w \in Work |-> Place(w)])
<1> DEFINE place == [w \in Work |-> Place(w)]
           Goal == Cycle!Next \/ UNCHANGED place
<1>1. /\ staged \subseteq Work /\ \A m \in Miner : mwork[m] # None => mwork[m] \in Work
      /\ Cycle!At("staged") = staged
      /\ Cycle!At("made") = {} <=> swork \notin Work
  <2>1. staged \subseteq Work /\ \A m \in Miner : mwork[m] # None => mwork[m] \in Work
    BY DEF WorkInv, TypeOK
  <2>2. /\ Cycle!At("staged") = {w \in Work : Place(w) = "staged"}
        /\ Cycle!At("made") = {w \in Work : Place(w) = "made"}
    BY DEF Cycle!At
  <2>3. {w \in Work : Place(w) = "staged"} = staged
    BY <2>1, PlaceOfHeld
  <2>4. {w \in Work : Place(w) = "made"} = {} <=> swork \notin Work
    BY PlaceOfHeld
  <2>5. QED
    BY <2>1, <2>2, <2>3, <2>4
<1>2. ASSUME NEW w \in Work, NEW p, place' = [place EXCEPT ![w] = p],
             \/ p = "made" /\ place[w] = "free" /\ swork \notin Work
             \/ p = "staged" /\ place[w] = "made" /\ Cardinality(staged) <= MaxQueue
             \/ p = "taken" /\ place[w] = "staged"
             \/ p = "free" /\ place[w] = "taken"
      PROVE  Goal
  <2>1. CASE p = "made" /\ place[w] = "free" /\ swork \notin Work
    BY <1>1, <1>2, <2>1 DEF Cycle!Next, Cycle!Make, Cycle!Move
  <2>2. CASE p = "staged" /\ place[w] = "made" /\ Cardinality(staged) <= MaxQueue
    <3>1. Cardinality(Cycle!At("staged")) <= MaxQueue
      BY <1>1, <2>2
    <3>2. Cycle!Move(w, "made", "staged")
      BY <1>2, <2>2 DEF Cycle!Move
    <3>3. Cycle!Stage(w)
      BY <3>1, <3>2, SameCardinality DEF Cycle!Stage
    <3>4. QED
      BY <3>3 DEF Cycle!Next
  <2>3. CASE p = "taken" /\ place[w] = "staged"
    BY <1>2, <2>3 DEF Cycle!Next, Cycle!Take, Cycle!Move
  <2>4. CASE p = "free" /\ place[w] = "taken"
    BY <1>2, <2>4 DEF Cycle!Next, Cycle!Use, Cycle!Move
  <2>5. QED
    BY <1>2, <2>1, <2>2, <2>3, <2>4
<1>3. ASSUME NEW ws \in SUBSET staged, staged' = staged \ ws, allocated' = allocated \ ws,
             UNCHANGED <<swork, mwork>>
      PROVE  Goal
  <2>1. \A w \in Work : Place(w)' = IF w \in ws THEN "free" ELSE Place(w)
    BY <1>3 DEF Place
  <2>2. Cycle!Discard(ws)
    BY <2>1 DEF Cycle!Discard
  <2>3. QED
    BY <1>1, <2>2 DEF Cycle!Next
<1>4. ASSUME UNCHANGED <<staged, allocated, swork>>
      PROVE  Goal
  BY <1>4 DEF Place
<1>5. CASE SSpare
  <2>1. PICK w \in staged : staged' = staged \ {w} /\ allocated' = allocated \ {w}
    BY <1>5 DEF SSpare
  <2>2. UNCHANGED <<swork, mwork>>
    BY <1>5 DEF SSpare, WorkInv, PcInv
  <2>3. {w} \in SUBSET staged
    OBVIOUS
  <2>4. QED
    BY <1>3, <2>1, <2>2, <2>3
<1>6. CASE SMake
  <2>1. swork = None /\ swork \notin Work
    BY <1>6, StagedAssumption DEF SMake, WorkInv, PcInv
  <2>2. allocated \ {swork} = allocated
    BY <2>1, StagedAssumption DEF WorkInv, TypeOK
  <2> DEFINE free == CHOOSE x \in Work \ allocated : TRUE
  <2>3. /\ free \in Work \ allocated
        /\ allocated' = allocated \cup {free} /\ swork' = free /\ staged' = staged
    <3>1. Work \ allocated # {} /\ allocated' = allocated \cup {free} /\ swork' = free
          /\ staged' = staged
      BY <1>6, <2>2 DEF SMake
    <3>2. free \in Work \ allocated
      BY <3>1
    <3>3. QED
      BY <3>1, <3>2
  <2> HIDE DEF free
  <2>4. Place(free) = "free" /\ free \notin staged
    BY <2>3 DEF Place, WorkInv, OneHolder, HeldAreAllocated
  <2>5. \A w \in Work : Place(w)' = IF w = free THEN "made" ELSE Place(w)
    BY <2>1, <2>3, <2>4, StagedAssumption DEF Place
  <2>6. place' = [place EXCEPT ![free] = "made"]
    BY <2>3, <2>5
  <2>7. QED
    BY <1>2, <2>1, <2>3, <2>4, <2>6
<1>7. CASE SStage
  <2>1. swork \in Work /\ staged' = staged \cup {swork} /\ swork' = None
        /\ allocated' = allocated /\ Cardinality(staged) <= MaxQueue
    BY <1>7 DEF SStage, WorkInv, TypeOK, PcInv, BoundInv
  <2>2. Place(swork) = "made" /\ swork \in allocated
    BY <2>1, PlaceOfHeld
  <2>3. \A w \in Work : Place(w)' = IF w = swork THEN "staged" ELSE Place(w)
    BY <2>1, <2>2, StagedAssumption DEF Place
  <2>4. place' = [place EXCEPT ![swork] = "staged"]
    BY <2>1, <2>3
  <2>5. QED
    BY <1>2, <2>1, <2>2, <2>4
<1>8. ASSUME NEW m \in Miner, PopTake(m)
      PROVE  Goal
  <2>1. PICK w \in staged : staged' = staged \ {w} /\ UNCHANGED <<allocated, swork>>
    BY <1>8 DEF PopTake
  <2>2. w \in Work /\ Place(w) = "staged" /\ w \in allocated /\ w # swork
    BY <1>1, <2>1, PlaceOfHeld DEF WorkInv, OneHolder, HeldAreAllocated, HeldOnce
  <2>3. \A x \in Work : Place(x)' = IF x = w THEN "taken" ELSE Place(x)
    BY <2>1, <2>2 DEF Place
  <2>4. place' = [place EXCEPT ![w] = "taken"]
    BY <2>2, <2>3
  <2>5. QED
    BY <1>2, <2>2, <2>4
<1>9. ASSUME NEW m \in Miner, mpc[m] \in {"test", "mine"},
             allocated' = allocated \ {mwork[m]}, UNCHANGED <<staged, swork>>
      PROVE  Goal
  <2>1. mwork[m] \in Work /\ Place(mwork[m]) = "taken"
    BY <1>1, <1>9, PlaceOfHeld DEF WorkInv, PcInv
  <2>2. \A w \in Work : Place(w)' = IF w = mwork[m] THEN "free" ELSE Place(w)
    BY <1>9, <2>1 DEF Place
  <2>3. place' = [place EXCEPT ![mwork[m]] = "free"]
    BY <2>1, <2>2
  <2>4. QED
    BY <1>2, <2>1, <2>3
<1>10. ASSUME NEW m \in Miner, Test(m) \/ Mined(m)
       PROVE  Goal
  BY <1>4, <1>9, <1>10 DEF Test, Mined
<1>11. CASE LoseConnection
  BY <1>3, <1>11 DEF LoseConnection
<1>12. CASE DiscardStale
  <2>1. PICK ws \in SUBSET staged : staged' = staged \ ws /\ allocated' = allocated \ ws
    BY <1>12 DEF DiscardStale
  <2>2. QED
    BY <1>3, <1>12, <2>1 DEF DiscardStale
<1>13. CASE STop \/ SSpuriousWake \/ SWoken \/ Notify \/ UNCHANGED vars
  BY <1>4, <1>13 DEF STop, SSpuriousWake, SWoken, Notify, vars, workVars
<1>14. CASE SSpareNothing
  BY <1>4, <1>14 DEF SSpareNothing, WorkInv, PcInv, workVars
<1>15. ASSUME NEW m \in Miner, PopWait(m) \/ PopTimeout(m) \/ Wake(m)
       PROVE  Goal
  BY <1>4, <1>15 DEF PopWait, PopTimeout, Wake, workVars
<1>16. Goal
  BY <1>5, <1>6, <1>7, <1>8, <1>10, <1>11, <1>12, <1>13, <1>14, <1>15
     DEF Next, Scheduler, GetWork
<1>17. QED
  BY <1>16

\* Each struct work goes through the queue once, whoever makes, takes, tests and
\* clears works at the same time.
THEOREM WorkImplementsCycle == Spec => RefinesWorkCycle
<1>1. Init => Cycle!Init
  BY InitRefines DEF Init
<1>2. WorkInv /\ BoundInv /\ [Next]_vars =>
          [Cycle!Next]_([w \in Work |-> Place(w)])
  BY StepRefines
<1>3. Spec => [](WorkInv /\ BoundInv)
  BY InitBoundInv, NextBoundInv, WorkInvHolds, PTL DEF Spec
<1>4. QED
  BY <1>1, <1>2, <1>3, PTL DEF Spec, RefinesWorkCycle, Cycle!Spec

-----------------------------------------------------------------------------
(* The job of a stratum pool.                                              *)

\* job_id is the first field that a notify replaces, and each notify replaces it.
JobIdInv == field["job_id"] = jobs

\* A notify that was good has replaced every field, and no later one has.
GoodInv ==
    /\ rpc = "good" \/ (notified /\ rpc = "read")
        => jobs # 0 /\ \A f \in Field : field[f] = jobs
    /\ rpc = "failed" => ~notified

\* Work with the job id of the last notify was made of the fields as they are now.
MadeInv ==
    /\ work.job <= jobs
    /\ jpc = "staged" /\ work.job = jobs
          => /\ work.fields = {field[f] : f \in Field}
             /\ work.coin1 = coin1
    /\ work.nonce1 # 0 => work.coin1 <= work.nonce1

\* The connection has the last nonce1 given out, or none.
Nonce1Inv ==
    /\ nonce1 # 0 => nonce1 = issued
    /\ coin1 <= issued

\* While the pool is usable the coinbase is not older than any subscription, unless
\* stratum_notify was set while the pool was not subscribed.  Before the answer it is
\* not older either, but then comes the subscription.
SessionInv ==
    /\ rpc = "good" \/ (notified /\ ~early) => \A s \in subscribed : s <= coin1
    /\ notified /\ ~connected => early
    /\ waiting => ~connected

\* The last difficulty is the last of those stacked, and each notify takes one.
DiffInv ==
    ~leftover =>
        /\ after # 0 => after = jlast /\ next # 0
        /\ after = 0 /\ next # 0 => next = jlast
        /\ after = 0 /\ next = 0 => diff = jlast
        /\ since >= 1 => after = 0
        /\ since = 2 => next = 0

JobInv == J!TypeOK /\ JobIdInv /\ GoodInv /\ MadeInv /\ Nonce1Inv /\ SessionInv /\ DiffInv

LEMMA InitJobInv ==
    ASSUME J!JobAssumption, J!Init
    PROVE  JobInv
<1> USE DEF J!Init
<1>1. work.job = 0 /\ work.fields = {} /\ work.nonce1 = 0 /\ work.coin1 = 0
  BY DEF J!NoWork
<1>2. J!TypeOK
  <2>1. jobs \in 0..MaxJob /\ field \in [Field -> 0..MaxJob]
    BY DEF J!JobAssumption
  <2>2. /\ issued \in 0..MaxNonce1 /\ subscribed \subseteq 1..issued
        /\ nonce1 \in 0..issued /\ coin1 \in 0..MaxNonce1
    BY DEF J!JobAssumption
  <2>3. /\ work.job \in 0..MaxJob /\ work.fields \subseteq 0..MaxJob
        /\ work.nonce1 \in 0..MaxNonce1 /\ work.coin1 \in 0..MaxNonce1
    BY <1>1 DEF J!JobAssumption
  <2>4. since \in 0..2
    OBVIOUS
  <2>5. QED
    BY <2>1, <2>2, <2>3, <2>4 DEF J!TypeOK
<1>3. JobIdInv /\ GoodInv /\ Nonce1Inv /\ SessionInv /\ DiffInv
  BY DEF J!JobAssumption, JobIdInv, GoodInv, Nonce1Inv, SessionInv, DiffInv
<1>4. MadeInv
  BY <1>1 DEF MadeInv
<1>5. QED
  BY <1>2, <1>3, <1>4 DEF JobInv

\* What a step of the connection and its messages does to the difficulties.
LEMMA TakeDiffKeeps ==
    ASSUME J!JobAssumption, J!TypeOK, DiffInv, J!TakeDiff, UNCHANGED <<jlast, leftover>>,
           since' = IF since < 2 THEN since + 1 ELSE 2
    PROVE  /\ DiffInv'
           /\ diff' \in Diff \cup {1} /\ next' \in Diff \cup {0} /\ after' \in Diff \cup {0}
           /\ since' \in 0..2
<1>1. CASE next = 0
  BY <1>1 DEF J!JobAssumption, J!TypeOK, DiffInv, J!TakeDiff
<1>2. CASE next # 0
  BY <1>2 DEF J!JobAssumption, J!TypeOK, DiffInv, J!TakeDiff
<1>3. QED
  BY <1>1, <1>2

LEMMA ConnectionStep ==
    ASSUME J!JobAssumption, JobInv,
           J!Connect \/ J!Subscribe \/ J!SubscribeFails \/ J!Suspend \/ J!SetExtranonce
    PROVE  JobInv'
<1> USE DEF J!JobAssumption, JobInv
<1>1. CASE J!Subscribe
  <2>1. UNCHANGED <<jobs, field, rpc, notified, early, coin1, after, jpc, work>>
    BY <1>1 DEF J!Subscribe, J!workVars
  <2>2. /\ issued' = issued + 1 /\ issued' <= MaxNonce1 /\ nonce1' = issued'
        /\ subscribed' = subscribed \cup {issued'}
        /\ connected' = TRUE /\ waiting' = FALSE /\ waiting /\ rpc = "read"
    BY <1>1 DEF J!Subscribe, J!TypeOK
  <2>3. /\ diff' = 1 /\ next' = 0 /\ jlast' = 1 /\ since' = 0
        /\ leftover' \in BOOLEAN
    BY <1>1 DEF J!Subscribe
  <2>4. J!TypeOK'
    <3>1. /\ issued' \in 0..MaxNonce1 /\ subscribed' \subseteq 1..issued'
          /\ nonce1' \in 0..issued'
      BY <2>2 DEF J!TypeOK
    <3>2. /\ diff' \in Diff \cup {1} /\ next' \in Diff \cup {0}
          /\ jlast' \in Diff \cup {1} /\ since' \in 0..2
      BY <2>3
    <3>3. QED
      BY <2>1, <2>2, <2>3, <3>1, <3>2 DEF J!TypeOK
  <2>5. JobIdInv' /\ GoodInv' /\ MadeInv'
    BY <2>1 DEF JobIdInv, GoodInv, MadeInv
  <2>6. Nonce1Inv'
    BY <2>1, <2>2 DEF Nonce1Inv, J!TypeOK
  <2>7. SessionInv'
    BY <2>1, <2>2 DEF SessionInv
  <2>8. DiffInv'
    BY <1>1, <2>1 DEF DiffInv, J!Subscribe
  <2>9. QED
    BY <2>4, <2>5, <2>6, <2>7, <2>8
<1>2. CASE J!SubscribeFails
  <2>1. /\ UNCHANGED <<jobs, field, connected, coin1, issued, subscribed>>
        /\ UNCHANGED <<jpc, work, diff, next, after, jlast, since, leftover>>
        /\ rpc \in {"read", "failed"} /\ rpc' = "read" /\ waiting
        /\ waiting' \in BOOLEAN /\ nonce1' \in {nonce1, 0}
    BY <1>2 DEF J!SubscribeFails, J!workVars, J!diffVars
  <2>2. UNCHANGED <<notified, early>> \/ (notified' = FALSE /\ early' = FALSE)
    BY <1>2 DEF J!SubscribeFails
  <2>3. J!TypeOK'
    <3>1. notified' \in BOOLEAN /\ early' \in BOOLEAN
      BY <2>2 DEF J!TypeOK
    <3>2. nonce1' \in 0..issued
      BY <2>1 DEF J!TypeOK
    <3>3. QED
      BY <2>1, <3>1, <3>2 DEF J!TypeOK
  <2>4. JobIdInv' /\ MadeInv' /\ DiffInv' /\ Nonce1Inv'
    BY <2>1 DEF JobIdInv, MadeInv, DiffInv, Nonce1Inv
  <2>5. GoodInv' /\ SessionInv'
    BY <2>1, <2>2 DEF GoodInv, SessionInv
  <2>6. QED
    BY <2>3, <2>4, <2>5
<1>3. CASE J!Suspend
  <2>1. /\ UNCHANGED <<waiting, jobs, field, rpc, nonce1, coin1, issued, subscribed, jpc, work>>
        /\ UNCHANGED <<diff, next, after, jlast, since, leftover>>
    BY <1>3 DEF J!Suspend, J!workVars, J!fieldVars, J!diffVars
  <2>2. J!TypeOK'
    BY <1>3, <2>1 DEF J!Suspend, J!TypeOK
  <2>3. JobIdInv' /\ GoodInv' /\ MadeInv' /\ SessionInv' /\ DiffInv'
    BY <1>3, <2>1 DEF JobIdInv, GoodInv, MadeInv, SessionInv, DiffInv, J!Suspend
  <2>4. Nonce1Inv'
    BY <1>3, <2>1 DEF Nonce1Inv, J!Suspend
  <2>5. QED
    BY <2>2, <2>3, <2>4
<1>4. CASE J!SetExtranonce
  <2>1. /\ UNCHANGED <<jobs, field, waiting, rpc, notified, early, connected, coin1, subscribed>>
        /\ UNCHANGED <<jpc, work, diff, next, after, jlast, since, leftover>>
    BY <1>4 DEF J!SetExtranonce, J!workVars, J!connVars, J!diffVars
  <2>2. J!TypeOK'
    BY <1>4, <2>1 DEF J!SetExtranonce, J!TypeOK
  <2>3. JobIdInv' /\ GoodInv' /\ MadeInv' /\ SessionInv' /\ DiffInv'
    BY <2>1 DEF JobIdInv, GoodInv, MadeInv, SessionInv, DiffInv
  <2>4. Nonce1Inv'
    BY <1>4, <2>1 DEF Nonce1Inv, J!SetExtranonce, J!TypeOK
  <2>5. QED
    BY <2>2, <2>3, <2>4
<1>5. CASE J!Connect
  <2>1. /\ UNCHANGED <<jobs, field, rpc, notified, early, connected, nonce1, coin1, issued>>
        /\ UNCHANGED <<subscribed, jpc, work, diff, next, after, jlast, since, leftover>>
        /\ waiting' = TRUE /\ ~connected
    BY <1>5 DEF J!Connect, J!workVars, J!fieldVars, J!diffVars
  <2>2. J!TypeOK'
    BY <2>1 DEF J!TypeOK
  <2>3. JobIdInv' /\ GoodInv' /\ MadeInv' /\ Nonce1Inv' /\ SessionInv' /\ DiffInv'
    BY <2>1 DEF JobIdInv, GoodInv, MadeInv, Nonce1Inv, SessionInv, DiffInv
  <2>4. QED
    BY <2>2, <2>3
<1>6. QED
  BY <1>1, <1>2, <1>3, <1>4, <1>5

LEMMA DifficultyStep ==
    ASSUME J!JobAssumption, JobInv, J!SetDifficulty
    PROVE  JobInv'
<1> USE DEF J!JobAssumption, JobInv
<1>1. /\ UNCHANGED <<jobs, field, waiting, rpc, notified, early, connected, nonce1, coin1, issued>>
      /\ UNCHANGED <<subscribed, jpc, work, diff, leftover>>
  BY DEF J!SetDifficulty, J!workVars, J!connVars, J!fieldVars
<1>2. J!TypeOK'
  BY <1>1 DEF J!SetDifficulty, J!TypeOK
<1>3. JobIdInv' /\ GoodInv' /\ MadeInv' /\ SessionInv' /\ Nonce1Inv'
  BY <1>1 DEF JobIdInv, GoodInv, MadeInv, SessionInv, Nonce1Inv
<1>4. DiffInv'
  BY <1>1 DEF DiffInv, J!SetDifficulty
<1>5. QED
  BY <1>2, <1>3, <1>4

LEMMA NotifyStep ==
    ASSUME J!JobAssumption, JobInv, J!NotifyGood \/ J!NotifyRefused \/ J!NotifyFails \/ J!SetNotify
    PROVE  JobInv'
<1> USE DEF J!JobAssumption, JobInv
<1>1. CASE J!NotifyGood
  <2>1. /\ UNCHANGED <<connected, waiting, notified, early, issued, subscribed, nonce1, jpc, work>>
        /\ jobs' = jobs + 1 /\ jobs' \in 1..MaxJob /\ field' = [f \in Field |-> jobs']
        /\ rpc' = "good" /\ coin1' = issued
    BY <1>1 DEF J!NotifyGood, J!workVars, J!TypeOK
  <2>2. /\ DiffInv'
        /\ diff' \in Diff \cup {1} /\ next' \in Diff \cup {0} /\ after' \in Diff \cup {0}
        /\ since' \in 0..2 /\ UNCHANGED <<jlast, leftover>>
    BY <1>1, TakeDiffKeeps DEF J!NotifyGood
  <2>3. issued \in 0..MaxNonce1 /\ \A s \in subscribed : s <= issued
    BY DEF J!TypeOK
  <2>4. J!TypeOK'
    BY <2>1, <2>2, <2>3 DEF J!TypeOK
  <2>5. JobIdInv' /\ GoodInv'
    BY <2>1 DEF JobIdInv, GoodInv
  <2>6. MadeInv'
    BY <2>1 DEF MadeInv, J!TypeOK
  <2>7. Nonce1Inv' /\ SessionInv'
    BY <2>1, <2>3 DEF Nonce1Inv, SessionInv, J!TypeOK
  <2>8. QED
    BY <2>2, <2>4, <2>5, <2>6, <2>7
<1>2. CASE J!NotifyRefused
  <2>1. /\ UNCHANGED <<connected, waiting, notified, early, jobs, field, issued, subscribed, nonce1, coin1>>
        /\ UNCHANGED <<jpc, work, diff, next, after, jlast, since, leftover>>
        /\ rpc' = "bad"
    BY <1>2 DEF J!NotifyRefused, J!workVars, J!fieldVars, J!diffVars
  <2>2. J!TypeOK'
    BY <2>1 DEF J!TypeOK
  <2>3. JobIdInv' /\ GoodInv' /\ MadeInv' /\ Nonce1Inv' /\ SessionInv' /\ DiffInv'
    BY <2>1 DEF JobIdInv, GoodInv, MadeInv, Nonce1Inv, SessionInv, DiffInv
  <2>4. QED
    BY <2>2, <2>3
<1>3. CASE J!NotifyFails
  <2>1. /\ UNCHANGED <<connected, waiting, notified, early, issued, subscribed, nonce1, coin1, jpc, work>>
        /\ jobs' = jobs + 1 /\ jobs' \in 1..MaxJob /\ rpc' = "bad"
    BY <1>3 DEF J!NotifyFails, J!workVars, J!TypeOK
  <2>2. /\ DiffInv'
        /\ diff' \in Diff \cup {1} /\ next' \in Diff \cup {0} /\ after' \in Diff \cup {0}
        /\ since' \in 0..2 /\ UNCHANGED <<jlast, leftover>>
    BY <1>3, TakeDiffKeeps DEF J!NotifyFails
  <2>3. field' \in [Field -> 0..MaxJob] /\ field'["job_id"] = jobs'
    BY <1>3, <2>1 DEF J!NotifyFails, J!Replaced, J!TypeOK
  <2>4. J!TypeOK'
    BY <2>1, <2>2, <2>3 DEF J!TypeOK
  <2>5. JobIdInv' /\ GoodInv'
    BY <2>1, <2>3 DEF JobIdInv, GoodInv
  <2>6. MadeInv'
    BY <2>1 DEF MadeInv, J!TypeOK
  <2>7. Nonce1Inv' /\ SessionInv'
    BY <2>1 DEF Nonce1Inv, SessionInv
  <2>8. QED
    BY <2>2, <2>4, <2>5, <2>6, <2>7
<1>4. CASE J!SetNotify
  <2>1. /\ UNCHANGED <<connected, waiting, jobs, field, issued, subscribed, nonce1, coin1>>
        /\ UNCHANGED <<jpc, work, diff, next, after, jlast, since, leftover>>
        /\ rpc' \in {"read", "failed"} /\ (rpc' = "failed" => rpc = "bad")
        /\ notified' = (rpc = "good") /\ early' = (rpc = "good" /\ ~connected)
    BY <1>4 DEF J!SetNotify, J!workVars, J!fieldVars, J!diffVars
  <2>2. J!TypeOK'
    BY <2>1 DEF J!TypeOK
  <2>3. JobIdInv' /\ GoodInv' /\ MadeInv' /\ Nonce1Inv' /\ SessionInv' /\ DiffInv'
    BY <2>1 DEF JobIdInv, GoodInv, MadeInv, Nonce1Inv, SessionInv, DiffInv
  <2>4. QED
    BY <2>2, <2>3
<1>5. QED
  BY <1>1, <1>2, <1>3, <1>4

LEMMA WorkStep ==
    ASSUME J!JobAssumption, JobInv, J!Test \/ J!Make \/ J!Take \/ J!Discard
    PROVE  JobInv'
<1> USE DEF J!JobAssumption, JobInv
<1>1. /\ UNCHANGED <<connected, waiting, notified, rpc, early, jobs, field, issued, subscribed>>
      /\ UNCHANGED <<nonce1, coin1, diff, next, after, jlast, since, leftover>>
  BY DEF J!Test, J!Make, J!Take, J!Discard, J!connVars, J!fieldVars, J!diffVars
<1>2. JobIdInv' /\ GoodInv' /\ Nonce1Inv' /\ SessionInv' /\ DiffInv'
  BY <1>1 DEF JobIdInv, GoodInv, Nonce1Inv, SessionInv, DiffInv
<1>3. CASE J!Test \/ J!Take
  <2>1. jpc' \in {"make", "mined"} /\ UNCHANGED work
    BY <1>3 DEF J!Test, J!Take
  <2>2. J!TypeOK' /\ MadeInv'
    BY <1>1, <2>1 DEF J!TypeOK, MadeInv
  <2>3. QED
    BY <1>2, <2>2
<1>4. CASE J!Make
  <2>1. /\ jpc' = "staged"
        /\ work'.job = field["job_id"] /\ work'.fields = {field[f] : f \in Field}
        /\ work'.nonce1 = nonce1 /\ work'.coin1 = coin1
    BY <1>4 DEF J!Make
  <2>2. work'.job = jobs /\ work'.fields \subseteq 0..MaxJob
    BY <2>1 DEF JobIdInv, J!TypeOK
  <2>3. J!TypeOK'
    BY <1>1, <2>1, <2>2 DEF J!TypeOK
  <2>4. work'.nonce1 # 0 => work'.coin1 <= work'.nonce1
    BY <2>1 DEF Nonce1Inv
  <2>5. MadeInv'
    BY <1>1, <2>1, <2>2, <2>4 DEF MadeInv, J!TypeOK
  <2>6. QED
    BY <1>2, <2>3, <2>5
<1>5. CASE J!Discard
  <2>1. jpc' = "test" /\ work' = J!NoWork
    BY <1>5 DEF J!Discard
  <2>2. J!TypeOK' /\ MadeInv'
    BY <1>1, <2>1 DEF J!TypeOK, MadeInv, J!NoWork
  <2>3. QED
    BY <1>2, <2>2
<1>6. QED
  BY <1>3, <1>4, <1>5

LEMMA NextJobInv ==
    ASSUME J!JobAssumption, JobInv, [J!Next]_(J!vars)
    PROVE  JobInv'
<1>1. CASE J!Next
  BY <1>1, ConnectionStep, DifficultyStep, NotifyStep, WorkStep DEF J!Next, J!Message
<1>2. CASE UNCHANGED J!vars
  BY <1>2 DEF J!vars, J!connVars, J!fieldVars, J!diffVars, J!workVars, JobInv, J!TypeOK, JobIdInv,
              GoodInv, MadeInv, Nonce1Inv, SessionInv, DiffInv
<1>3. QED
  BY <1>1, <1>2

\* The invariant holds in every state.
LEMMA JobInvHolds ==
    ASSUME J!JobAssumption
    PROVE  J!Spec => []JobInv
<1>1. J!Init => JobInv
  BY InitJobInv
<1>2. JobInv /\ [J!Next]_(J!vars) => JobInv'
  BY NextJobInv
<1>3. QED
  BY <1>1, <1>2, PTL DEF J!Spec

\* Job and work are whole wherever they are used.
LEMMA JobInvIsWhole ==
    ASSUME J!JobAssumption, JobInv
    PROVE  J!UsedIsWhole
<1> USE DEF JobInv
<1>1. J!UsableIsWhole
  BY DEF J!UsableIsWhole, GoodInv
<1>2. ASSUME J!Accepted
      PROVE  /\ work.job = jobs /\ jobs # 0
             /\ work.fields = {field[f] : f \in Field} /\ work.coin1 = coin1
             /\ \A f \in Field : field[f] = jobs
  BY <1>2 DEF J!Accepted, J!Stale, JobIdInv, GoodInv, MadeInv
<1>3. J!AcceptedIsWhole
  <2>1. SUFFICES ASSUME J!Accepted
                 PROVE  work.fields = {work.job} /\ work.job # 0
    BY DEF J!AcceptedIsWhole
  <2>2. {field[f] : f \in Field} = {jobs}
    BY <1>2, <2>1 DEF J!JobAssumption
  <2>3. QED
    BY <1>2, <2>1, <2>2
<1>4. J!AcceptedHasOneNonce1
  <2>1. SUFFICES ASSUME J!Accepted, ~early, work.nonce1 \in subscribed
                 PROVE  work.coin1 = work.nonce1
    BY DEF J!AcceptedHasOneNonce1
  <2>2. work.nonce1 <= work.coin1
    BY <1>2, <2>1 DEF SessionInv, J!Accepted, J!Stale
  <2>3. work.nonce1 # 0
    BY <2>1 DEF J!TypeOK
  <2>4. QED
    BY <2>2, <2>3 DEF MadeInv, J!TypeOK
<1>5. QED
  BY <1>1, <1>3, <1>4 DEF J!UsedIsWhole

\* The types of the job's variables, for any bounds and difficulties.
THEOREM JobTypes ==
    ASSUME J!JobAssumption
    PROVE  J!Spec => []J!TypeOK
<1>1. JobInv => J!TypeOK
  BY DEF JobInv
<1>2. QED
  BY <1>1, JobInvHolds, PTL

\* The job of a usable pool, and work that get_work accepts, are of one notify and,
\* but for the three cases that AcceptedHasOneNonce1 names, of one nonce1, wherever
\* notifies fail and connections are lost, and whatever a handshake parses.
THEOREM JobUsedIsWhole ==
    ASSUME J!JobAssumption
    PROVE  J!Spec => []UsedIsWhole
<1>1. JobInv => UsedIsWhole
  BY JobInvIsWhole DEF UsedIsWhole
<1>2. QED
  BY <1>1, JobInvHolds, PTL

\* The difficulty the pool set last in a session, which begins with the answer to
\* mining.subscribe, is in force two notifies later, unless one was left over.
THEOREM JobLastDiffWins ==
    ASSUME J!JobAssumption
    PROVE  J!Spec => []LastDiffWins
<1>1. JobInv => LastDiffWins
  BY DEF JobInv, DiffInv, J!LastDiffWins, LastDiffWins
<1>2. QED
  BY <1>1, JobInvHolds, PTL

-----------------------------------------------------------------------------
(* The load-balance strategy.                                              *)

\* The search downwards ends: 1 divides everything.
LEMMA DivisorFromDivides ==
    ASSUME NEW q \in Nat, NEW g \in Nat \ {0}
    PROVE  Q!DivisorFrom(q, g) \in 1..g
<1> DEFINE T == {d \in 1..g : q % d = 0}
<1>1. T \subseteq 0..g /\ T # {}
  <2>1. 1 \in T
    OBVIOUS
  <2>2. QED
    BY <2>1
<1>2. PICK d \in T : \A e \in T : e <= d
  BY <1>1, GreatestNat
<1>3. \A e \in d + 1..g : q % e # 0
  BY <1>2
<1>4. QED
  BY <1>2, <1>3 DEF Q!DivisorFrom

\* The common divisor is a number greater than 0, though no zero quota is divided.
LEMMA DivisorIsPositive ==
    ASSUME Q!QuotaAssumption, NEW qs \in [Q!Pool -> Nat]
    PROVE  Q!Divisor(qs) \in Nat \ {0}
<1> DEFINE V == Nat \ {0}
           some == {p \in Q!Pool : qs[p] # 0}
           lowest == CHOOSE q \in {qs[p] : p \in some} : \A p \in some : q <= qs[p]
           IsLoop(d) == d = [i \in 0..N |->
                               IF i = 0 THEN lowest
                               ELSE IF qs[i - 1] = 0 THEN d[i - 1]
                                    ELSE Q!DivisorFrom(qs[i - 1], d[i - 1])]
           loop == CHOOSE d : IsLoop(d)
<1>1. CASE some = {}
  BY <1>1 DEF Q!Divisor
<1>2. CASE some # {}
  <2>1. N \in Nat /\ \A i \in 1..N : qs[i - 1] \in Nat /\ i - 1 \in 0..N /\ i \in 0..N /\ i # 0
    BY DEF Q!Pool, Q!QuotaAssumption
  <2>2. lowest \in V
    <3> DEFINE T == {qs[p] : p \in some}
    <3>1. T \subseteq V /\ T # {}
      BY <1>2
    <3>2. PICK q \in T : \A r \in T : q <= r
      BY <3>1, LeastNat
    <3>3. \A p \in some : q <= qs[p]
      BY <3>2
    <3>4. lowest \in T
      BY <3>2, <3>3
    <3>5. QED
      BY <3>1, <3>4
  <2>3. \E d : IsLoop(d)
    <3> DEFINE step == [i \in 1..N |-> [x \in V |->
                          IF qs[i - 1] = 0 THEN x ELSE Q!DivisorFrom(qs[i - 1], x)]]
    <3> HIDE DEF lowest
    <3>1. step \in Steps(N, V)
      <4>1. ASSUME NEW i \in 1..N, NEW x \in V
            PROVE  step[i][x] \in V
        BY <2>1, DivisorFromDivides
      <4>2. QED
        BY <4>1 DEF Steps
    <3>2. N \in Nat
      BY <2>1
    <3>3. Loops(N, V, step, lowest) # {}
      <4> HIDE DEF V, step
      <4>1. QED
        BY <2>2, <3>1, <3>2, LoopIsFunction
    <3>4. PICK d \in [0..N -> V] :
              d[0] = lowest /\ \A i \in 1..N : d[i] = step[i][d[i - 1]]
      BY <3>3 DEF Loops
    <3>5. ASSUME NEW i \in 1..N
          PROVE  d[i] = IF qs[i - 1] = 0 THEN d[i - 1]
                        ELSE Q!DivisorFrom(qs[i - 1], d[i - 1])
      <4>1. d[i - 1] \in V /\ d[i] = step[i][d[i - 1]]
        BY <2>1, <3>4
      <4>2. QED
        BY <4>1
    <3>6. \A i \in 0..N : i = 0 \/ i \in 1..N
      BY <2>1
    <3>7. IsLoop(d)
      BY <3>4, <3>5, <3>6
    <3>8. QED
      BY <3>7
  <2>4. IsLoop(loop)
    BY <2>3
  <2> HIDE DEF loop, lowest
  <2>5. loop[0] \in V
    BY <2>1, <2>2, <2>4
  <2>6. ASSUME NEW i \in 1..N, loop[i - 1] \in V
        PROVE  loop[i] \in V
    <3>1. loop[i] = IF qs[i - 1] = 0 THEN loop[i - 1]
                    ELSE Q!DivisorFrom(qs[i - 1], loop[i - 1])
      BY <2>1, <2>4
    <3>2. QED
      BY <2>1, <2>6, <3>1, DivisorFromDivides
  <2>7. loop[N] \in V
    <3> HIDE DEF V
    <3>1. QED
      BY <2>1, <2>5, <2>6, LoopStaysIn
  <2>8. Q!Divisor(qs) = loop[N]
    BY <1>2 DEF Q!Divisor, loop, lowest
  <2>9. QED
    BY <2>7, <2>8
<1>3. QED
  BY <1>1, <1>2

\* The types that the selection needs; a counter of the code is a number here.
QuotaTypes ==
    /\ quota \in [Q!Pool -> 0..Q!HalfInt - 1] /\ quota_gcd \in [Q!Pool -> Nat]
    /\ global_quota_gcd \in Nat \ {0}
    /\ quota_used \in [Q!Pool -> Int]
    /\ rotating_pool \in Q!Pool /\ usable \in [Q!Pool -> BOOLEAN]
    /\ out \in [Q!Pool -> Int]
    /\ due \in [Q!Pool -> Nat] /\ net \in [Q!Pool -> Int]

\* The reduced quotas are those of the last divisor.
ReducedInv == \A p \in Q!Pool : quota_gcd[p] = quota[p] \div global_quota_gcd

\* Of a pool with the reduced quota g that has used u of it: it was selected n times
\* less its discards, and d selections are still promised to it.
Promise(u, d, n, g) == n <= u /\ (d = 0 \/ d + u <= g)

\* A search counts every pool it comes to, so the counters say more than was
\* selected; but it passes by a pool only if nothing is promised to it any more.
SteadyInv ==
    \A p \in steady : /\ p \in Q!Pool /\ usable[p]
                     /\ Promise(quota_used[p], due[p], net[p], quota_gcd[p])

QuotaInv == QuotaTypes /\ ReducedInv /\ SteadyInv

\* A pool that uses one more of its quota, if none is promised to it or if it was the
\* one selected.
LEMMA PromiseKept ==
    ASSUME NEW u \in Int, NEW d \in Nat, NEW n \in Int, NEW g \in Nat, Promise(u, d, n, g)
    PROVE  /\ u >= g => d = 0 /\ Promise(u + 1, d, n, g)
           /\ Promise(u + 1, IF d > 0 THEN d - 1 ELSE d, n + 1, g)
           /\ Promise(u - 1, d, n - 1, g)
  BY DEF Promise

\* The conversion of an unsigned long ends in the range of an int.
LEMMA ToIntFits ==
    ASSUME Q!QuotaAssumption, NEW x \in Int
    PROVE  Q!ToInt(x) \in -Q!HalfInt..Q!HalfInt - 1
<1>1. /\ IntMod \in Nat \ {0} /\ Q!HalfInt \in Nat
      /\ IntMod = 2 * Q!HalfInt
  BY DEF Q!QuotaAssumption, Q!HalfInt
<1>2. x % IntMod \in 0..IntMod - 1
  BY <1>1
<1>3. QED
  BY <1>1, <1>2 DEF Q!ToInt

LEMMA RescaledFits ==
    ASSUME Q!QuotaAssumption, NEW used \in Int, NEW old \in Nat, NEW g \in Nat \ {0}
    PROVE  /\ Q!Rescaled(used, old, g) \in -Q!HalfInt..Q!HalfInt - 1
           /\ Q!Rescaled(used, old, g) \in Int
<1>1. IntMod \in Nat \ {0} /\ LongMod \in Nat \ {0} /\ Q!HalfInt \in Nat
  BY DEF Q!QuotaAssumption, Q!HalfInt
<1>2. (used % LongMod) * old \in Int
  BY <1>1
<1>3. Q!ToInt((used % LongMod) * old) \in Int
  BY <1>1, <1>2, ToIntFits
<1>4. Q!ToInt((used % LongMod) * old) % LongMod \in Nat
  BY <1>1, <1>3
<1>5. (Q!ToInt((used % LongMod) * old) % LongMod) \div g \in Int
  BY <1>4
<1>6. Q!Rescaled(used, old, g) \in -Q!HalfInt..Q!HalfInt - 1
  BY <1>5, ToIntFits DEF Q!Rescaled
<1>7. QED
  BY <1>1, <1>6

\* The circle of the search comes to every pool.
LEMMA PlacesArePools ==
    ASSUME Q!QuotaAssumption, QuotaTypes
    PROVE  /\ Q!Turn0 \in Q!Pool
           /\ \A k \in Q!Pool : Q!Place(k) \in Q!Pool
           /\ \A p \in Q!Pool : \E k \in Q!Pool : Q!Place(k) = p
           /\ Q!Used0 \in [Q!Pool -> Int]
<1>1. N \in Nat \ {0} /\ rotating_pool \in 0..N - 1
  BY DEF Q!QuotaAssumption, QuotaTypes, Q!Pool
<1>2. (rotating_pool + 1) % N \in 0..N - 1
  BY <1>1
<1>3. Q!Turn0 \in 0..N - 1
  BY <1>1, <1>2 DEF Q!Turn0
<1>4. ASSUME NEW k \in 0..N - 1
      PROVE  Q!Place(k) = IF Q!Turn0 + k < N THEN Q!Turn0 + k ELSE Q!Turn0 + k - N
  BY <1>1, <1>3, Wrap DEF Q!Place
<1>5. \A k \in 0..N - 1 : Q!Place(k) \in 0..N - 1
  BY <1>1, <1>3, <1>4
<1>6. ASSUME NEW p \in 0..N - 1
      PROVE  \E k \in 0..N - 1 : Q!Place(k) = p
  <2> DEFINE k == IF p >= Q!Turn0 THEN p - Q!Turn0 ELSE p - Q!Turn0 + N
  <2>1. k \in 0..N - 1
    BY <1>1, <1>3
  <2>2. Q!Place(k) = p
    BY <1>1, <1>3, <1>4, <2>1
  <2>3. QED
    BY <2>1, <2>2
<1>7. Q!Used0 \in [Q!Pool -> Int]
  BY DEF Q!Used0, Q!Nothing, QuotaTypes
<1>8. QED
  BY <1>3, <1>5, <1>6, <1>7 DEF Q!Pool

\* What a call of select_pool finds: with quota left and usable if there is one, and
\* usable in any case if there is one.  The pools it passes by are not usable or have
\* none left.
LEMMA SelectFinds ==
    ASSUME Q!QuotaAssumption, QuotaTypes, NEW sel \in Q!Pool, Q!SelectPool(sel)
    PROVE  /\ rotating_pool' \in Q!Pool
           /\ (\E p \in Q!Pool : usable[p]) => usable[sel]
           /\ Q!Found # {} => Q!Used0[sel] < quota_gcd[sel]
           /\ \E visited \in SUBSET Q!Pool :
                  /\ sel \in visited
                  /\ quota_used' = [p \in Q!Pool |->
                                       IF p \in visited THEN Q!Used0[p] + 1 ELSE Q!Used0[p]]
                  /\ \A p \in visited :
                         usable[p] => p = sel \/ Q!Used0[p] >= quota_gcd[p]
           /\ Q!Found = {} => \A p \in Q!Pool : usable[p] => Q!Used0[p] >= quota_gcd[p]
<1> DEFINE first == CHOOSE k \in Q!Found : \A j \in Q!Found : k <= j
           Left(p) == Q!Used0[p] < quota_gcd[p] /\ usable[p]
<1>0. /\ \A k \in Q!Pool : Q!Place(k) \in Q!Pool
      /\ \A p \in Q!Pool : \E k \in Q!Pool : Q!Place(k) = p
      /\ Q!Turn0 \in Q!Pool /\ Q!Used0 \in [Q!Pool -> Int]
      /\ Q!Pool \subseteq Nat /\ \A n \in Q!Pool : 0..n \subseteq Q!Pool
  <2>1. Q!Pool \subseteq Nat /\ \A n \in Q!Pool : 0..n \subseteq Q!Pool
    BY DEF Q!Pool, Q!QuotaAssumption
  <2>2. QED
    BY <2>1, PlacesArePools
<1>1. \A k \in Q!Pool : k \in Q!Found <=> Left(Q!Place(k))
  BY DEF Q!Found
<1>2. Q!Found \subseteq Nat /\ Q!Found \subseteq Q!Pool
  BY <1>0 DEF Q!Found
<1>3. \A p \in Q!Pool : quota_gcd[p] \in Int /\ Q!Used0[p] \in Int /\ usable[p] \in BOOLEAN
  BY <1>0 DEF QuotaTypes
<1>4. CASE Q!Found # {}
  <2>1. first \in Q!Found /\ \A j \in Q!Found : first <= j
    <3>1. \E k \in Q!Found : \A j \in Q!Found : k <= j
      BY <1>2, <1>4, LeastNat
    <3>2. QED
      BY <3>1
  <2> DEFINE visited == {Q!Place(k) : k \in 0..first}
  <2>2. /\ sel = Q!Place(first) /\ rotating_pool' = Q!Place(first)
        /\ quota_used' = [p \in Q!Pool |->
                             IF p \in visited THEN Q!Used0[p] + 1 ELSE Q!Used0[p]]
    BY <1>4 DEF Q!SelectPool, Q!CountVisited
  <2> HIDE DEF first
  <2>3. Left(sel) /\ sel \in visited
    <3>1. first \in Q!Pool /\ first \in Nat /\ first \in 0..first
      BY <1>2, <2>1
    <3>2. Left(Q!Place(first))
      BY <1>1, <2>1, <3>1
    <3>3. Q!Place(first) \in visited
      BY <3>1
    <3>4. QED
      BY <2>2, <3>2, <3>3
  <2>4. 0..first \subseteq Q!Pool
    BY <1>0, <1>2, <2>1
  <2>5. ASSUME NEW p \in visited, usable[p], p # sel
        PROVE  Q!Used0[p] >= quota_gcd[p]
    <3>1. PICK k \in 0..first : p = Q!Place(k)
      BY <2>5
    <3>2. k \notin Q!Found
      BY <1>2, <2>1, <2>2, <2>5, <3>1
    <3>3. p \in Q!Pool /\ ~Left(p)
      BY <1>0, <1>1, <2>4, <3>1, <3>2
    <3>4. QED
      BY <1>3, <2>5, <3>3
  <2>6. visited \in SUBSET Q!Pool
    BY <1>0, <2>4
  <2> HIDE DEF visited
  <2>7. QED
    BY <1>0, <1>4, <2>2, <2>3, <2>5, <2>6
<1>5. CASE Q!Found = {}
  <2>1. /\ sel = Q!ByPriority /\ rotating_pool' = Q!Turn0
        /\ quota_used' = [p \in Q!Pool |->
                             IF p \in Q!Pool THEN Q!Used0[p] + 1 ELSE Q!Used0[p]]
    BY <1>5 DEF Q!SelectPool, Q!CountVisited
  <2>2. \A p \in Q!Pool : usable[p] => Q!Used0[p] >= quota_gcd[p]
    BY <1>0, <1>1, <1>3, <1>5
  <2>3. ASSUME NEW p \in Q!Pool, usable[p]
        PROVE  usable[sel]
    <3> DEFINE T == {q \in Q!Pool : usable[q]}
    <3>1. T \subseteq Nat /\ T # {}
      BY <1>0, <2>3
    <3>2. PICK q \in T : \A r \in T : q <= r
      BY <3>1, LeastNat
    <3>3. ASSUME NEW r \in 0..q - 1
          PROVE  ~usable[r]
      <4>1. r \in 0..q /\ ~(q <= r)
        BY <1>0, <3>2
      <4>2. QED
        BY <1>0, <3>2, <4>1
    <3>4. QED
      BY <2>1, <2>3, <3>2, <3>3 DEF Q!ByPriority
  <2>4. QED
    BY <1>0, <1>5, <2>1, <2>2, <2>3
<1>6. QED
  BY <1>4, <1>5

\* A call keeps the types and the promises, uses up the promises of a round before the
\* next one begins, and selects a pool beyond its quota only if no pool is left.
LEMMA SelectPoolKeeps ==
    ASSUME Q!QuotaAssumption, QuotaInv, NEW sel \in Q!Pool, Q!SelectPool(sel)
    PROVE  /\ quota_used' \in [Q!Pool -> Int] /\ rotating_pool' \in Q!Pool
           /\ due' \in [Q!Pool -> Nat] /\ net' \in [Q!Pool -> Int]
           /\ \A p \in steady' : /\ p \in Q!Pool /\ usable[p]
                                /\ Promise(quota_used'[p], due'[p], net'[p], quota_gcd[p])
           /\ Q!WithinQuota
           /\ ~Q!Available => \A p \in steady : due[p] = 0
<1> DEFINE now == IF Q!Available THEN steady ELSE {p \in Q!Pool : usable[p]}
           due0(p) == IF Q!Available THEN due[p] ELSE IF p \in now THEN quota_gcd[p] ELSE 0
           net0(p) == IF Q!Available THEN net[p] ELSE 0
<1>1. /\ steady' = now
      /\ due' = [p \in Q!Pool |-> IF p = sel /\ due0(p) > 0 THEN due0(p) - 1 ELSE due0(p)]
      /\ net' = [p \in Q!Pool |-> IF p = sel /\ p \in now THEN net0(p) + 1 ELSE net0(p)]
  BY DEF Q!SelectPool
<1>2. ASSUME NEW p \in Q!Pool
      PROVE  /\ due0(p) \in Nat /\ net0(p) \in Int /\ Q!Used0[p] \in Int
             /\ quota_gcd[p] \in Nat /\ quota_used[p] \in Int
  BY PlacesArePools DEF QuotaInv, QuotaTypes
<1>3. ASSUME NEW p \in now
      PROVE  p \in Q!Pool /\ usable[p] /\ Promise(Q!Used0[p], due0(p), net0(p), quota_gcd[p])
  <2>1. CASE Q!Available
    BY <1>3, <2>1 DEF Q!Used0, QuotaInv, SteadyInv
  <2>2. CASE ~Q!Available
    BY <1>2, <1>3, <2>2 DEF Q!Used0, Q!Nothing, Promise
  <2>3. QED
    BY <2>1, <2>2
<1>4. PICK visited \in SUBSET Q!Pool :
          /\ sel \in visited
          /\ quota_used' = [p \in Q!Pool |->
                               IF p \in visited THEN Q!Used0[p] + 1 ELSE Q!Used0[p]]
          /\ \A p \in visited : usable[p] => p = sel \/ Q!Used0[p] >= quota_gcd[p]
  BY SelectFinds DEF QuotaInv
<1> HIDE DEF now, due0, net0
<1>5. quota_used' \in [Q!Pool -> Int] /\ rotating_pool' \in Q!Pool
  BY <1>2, <1>4, SelectFinds DEF QuotaInv
<1>6. due' \in [Q!Pool -> Nat] /\ net' \in [Q!Pool -> Int]
  BY <1>1, <1>2
<1>7. ASSUME NEW p \in steady'
      PROVE  /\ p \in Q!Pool /\ usable[p]
             /\ Promise(quota_used'[p], due'[p], net'[p], quota_gcd[p])
  <2>1. p \in Q!Pool /\ usable[p] /\ Promise(Q!Used0[p], due0(p), net0(p), quota_gcd[p])
    BY <1>1, <1>3, <1>7
  <2>2. CASE p = sel
    <3>1. /\ quota_used'[p] = Q!Used0[p] + 1 /\ net'[p] = net0(p) + 1
          /\ due'[p] = IF due0(p) > 0 THEN due0(p) - 1 ELSE due0(p)
      BY <1>1, <1>4, <1>7, <2>1, <2>2
    <3>2. QED
      BY <1>2, <2>1, <3>1, PromiseKept
  <2>3. CASE p # sel
    <3>1. due'[p] = due0(p) /\ net'[p] = net0(p)
      BY <1>1, <2>1, <2>3
    <3>2. \/ quota_used'[p] = Q!Used0[p]
          \/ quota_used'[p] = Q!Used0[p] + 1 /\ Q!Used0[p] >= quota_gcd[p]
      BY <1>4, <2>1, <2>3
    <3>3. QED
      BY <1>2, <2>1, <3>1, <3>2, PromiseKept
  <2>4. QED
    BY <2>2, <2>3
<1>8. Q!WithinQuota
  <2>1. SUFFICES ASSUME NEW p \in steady', net'[p] > net[p], net[p] >= quota_gcd[p],
                        Q!Available
                 PROVE  Q!Found = {}
    BY DEF Q!WithinQuota
  <2>2. p \in steady /\ p \in Q!Pool /\ net0(p) = net[p] /\ Q!Used0[p] = quota_used[p]
    BY <1>1, <2>1 DEF now, net0, Q!Used0, QuotaInv, SteadyInv
  <2>3. p = sel
    BY <1>1, <1>2, <2>1, <2>2
  <2>4. quota_used[p] >= quota_gcd[p]
    <3>1. net[p] <= quota_used[p]
      BY <2>2 DEF QuotaInv, SteadyInv, Promise
    <3>2. net[p] \in Int
      BY <1>2, <2>2
    <3>3. QED
      BY <1>2, <2>1, <2>2, <3>1, <3>2
  <2>5. QED
    BY <1>2, <2>2, <2>3, <2>4, SelectFinds DEF QuotaInv
<1>9. ASSUME ~Q!Available, NEW p \in steady
      PROVE  due[p] = 0
  <2>1. p \in Q!Pool /\ Promise(quota_used[p], due[p], net[p], quota_gcd[p])
    BY DEF QuotaInv, SteadyInv
  <2>2. quota_used[p] >= quota_gcd[p]
    BY <1>2, <1>9, <2>1 DEF Q!Available
  <2>3. due[p] \in Nat
    BY <2>1 DEF QuotaInv, QuotaTypes
  <2>4. QED
    BY <1>2, <2>1, <2>2, <2>3 DEF Promise
<1>10. QED
  BY <1>5, <1>6, <1>7, <1>8, <1>9

-----------------------------------------------------------------------------
(* A change of quotas.                                                     *)

\* Used less than a quota, the rescaling does not overflow, and leaves less than the
\* quota by a divisor of it.
LEMMA RescaledBelow ==
    ASSUME Q!QuotaAssumption, NEW q \in 0..Q!HalfInt - 1, NEW old \in Nat \ {0},
           NEW g \in Nat \ {0}, q % g = 0, NEW used \in Nat, used < q \div old
    PROVE  Q!Rescaled(used, old, g) < q \div g
<1>1. /\ q \in Nat /\ IntMod \in Nat /\ LongMod \in Nat /\ LongMod > IntMod
      /\ 2 * Q!HalfInt <= IntMod /\ Q!HalfInt \in Nat
  BY DEF Q!QuotaAssumption, Q!HalfInt
<1>2. ASSUME NEW x \in 0..Q!HalfInt - 1
      PROVE  x % LongMod = x /\ Q!ToInt(x) = x
  <2>1. x \in Nat /\ x < LongMod /\ x < IntMod /\ ~(2 * x >= IntMod)
    BY <1>1
  <2>2. x % LongMod = x /\ x % IntMod = x
    BY <1>1, <2>1, SmallMod
  <2>3. QED
    BY <2>1, <2>2 DEF Q!ToInt
<1>3. used * old < q /\ used * old \in Nat /\ used < q
  BY <1>1, TimesBelow
<1> DEFINE x == used * old
<1>4. x \in Nat /\ x < q /\ used % LongMod = used /\ Q!ToInt(x) = x /\ x % LongMod = x
  BY <1>1, <1>2, <1>3
<1>5. Q!Rescaled(used, old, g) = Q!ToInt(x \div g)
  BY <1>4 DEF Q!Rescaled
<1> HIDE DEF x
<1>6. x \div g < q \div g /\ x \div g \in Nat /\ x \div g <= x
  BY <1>1, <1>4, DivideBelow
<1>7. x \div g \in 0..Q!HalfInt - 1
  BY <1>1, <1>4, <1>6
<1>8. QED
  BY <1>2, <1>5, <1>6, <1>7

LEMMA SetQuotaKeeps ==
    ASSUME Q!QuotaAssumption, QuotaInv, NEW p \in Q!Pool, Q!SetQuota(p)
    PROVE  QuotaInv' /\ Q!WithinQuota /\ Q!KeepsQuota
<1>1. PICK new \in Quotas : Q!AdjustQuotaGcd([quota EXCEPT ![p] = new])
  BY DEF Q!SetQuota
<1> DEFINE qs == [quota EXCEPT ![p] = new]
           g == Q!Divisor(qs)
<1>2. qs \in [Q!Pool -> 0..Q!HalfInt - 1] /\ Q!HalfInt \in Nat
  BY DEF Q!QuotaAssumption, Q!HalfInt, QuotaInv, QuotaTypes
<1>3. g \in Nat \ {0}
  <2>1. qs \in [Q!Pool -> Nat]
    BY <1>2
  <2> HIDE DEF qs
  <2>2. QED
    BY <2>1, DivisorIsPositive
<1>4. /\ quota' = qs /\ global_quota_gcd' = g
      /\ quota_gcd' = [r \in Q!Pool |-> qs[r] \div g]
      /\ quota_used' = [r \in Q!Pool |-> Q!Rescaled(quota_used[r], global_quota_gcd, g)]
  BY <1>1 DEF Q!AdjustQuotaGcd
<1>5. /\ steady' = {} /\ due' = Q!Nothing /\ net' = Q!Nothing
      /\ UNCHANGED <<rotating_pool, usable, out>>
  BY DEF Q!SetQuota
<1> HIDE DEF qs, g
<1>6. /\ \A r \in Q!Pool : quota_used[r] \in Int
      /\ global_quota_gcd \in Nat \ {0}
      /\ rotating_pool \in Q!Pool /\ usable \in [Q!Pool -> BOOLEAN]
      /\ out \in [Q!Pool -> Int]
  BY DEF QuotaInv, QuotaTypes
<1>7. QuotaInv'
  <2>1. quota_gcd' \in [Q!Pool -> Nat]
    BY <1>2, <1>3, <1>4, DivMod
  <2>2. quota_used' \in [Q!Pool -> Int]
    BY <1>3, <1>4, <1>6, RescaledFits
  <2>3. due' \in [Q!Pool -> Nat] /\ net' \in [Q!Pool -> Int]
    BY <1>5 DEF Q!Nothing
  <2>4. QuotaTypes'
    BY <1>2, <1>3, <1>4, <1>5, <1>6, <2>1, <2>2, <2>3 DEF QuotaTypes
  <2>5. ReducedInv' /\ SteadyInv'
    BY <1>4, <1>5 DEF ReducedInv, SteadyInv
  <2>6. QED
    BY <2>4, <2>5 DEF QuotaInv
<1>8. Q!KeepsQuota
  <2>1. SUFFICES ASSUME NEW r \in Q!Pool, quota'[r] = quota[r],
                        quota[r] % global_quota_gcd' = 0,
                        quota_used[r] \in 0..quota_gcd[r] - 1
                 PROVE  quota_used'[r] < quota_gcd'[r]
    BY DEF Q!KeepsQuota
  <2>2. /\ qs[r] \in 0..Q!HalfInt - 1 /\ qs[r] % g = 0
        /\ quota_used[r] \in Nat /\ quota_used[r] < qs[r] \div global_quota_gcd
    <3>1. quota_gcd[r] = qs[r] \div global_quota_gcd /\ quota_gcd[r] \in Nat
      BY <1>4, <2>1 DEF QuotaInv, QuotaTypes, ReducedInv
    <3>2. QED
      BY <1>2, <1>4, <2>1, <3>1
  <2>3. Q!Rescaled(quota_used[r], global_quota_gcd, g) < qs[r] \div g
    BY <1>3, <1>6, <2>2, RescaledBelow
  <2>4. QED
    BY <1>4, <2>1, <2>3
<1>9. QED
  BY <1>5, <1>7, <1>8 DEF Q!WithinQuota

-----------------------------------------------------------------------------
(* Every step.                                                             *)

LEMMA InitQuotaInv == ASSUME Q!QuotaAssumption, Q!Init PROVE QuotaInv
<1>1. Q!HalfInt \in Nat /\ Q!HalfInt > 1 /\ 0 \in Q!Pool
  BY DEF Q!QuotaAssumption, Q!HalfInt, Q!Pool
<1>2. QuotaTypes
  BY <1>1 DEF Q!Init, Q!Nothing, QuotaTypes
<1>3. ReducedInv
  BY DEF Q!Init, ReducedInv
<1>4. SteadyInv
  BY DEF Q!Init, Q!Nothing, SteadyInv, Promise
<1>5. QED
  BY <1>2, <1>3, <1>4 DEF QuotaInv

\* The invariant is kept, and so is what each property says of a step.
LEMMA NextQuotaInv ==
    ASSUME Q!QuotaAssumption, QuotaInv, [Q!Next]_(Q!vars)
    PROVE  /\ QuotaInv' /\ Q!WithinQuota /\ Q!KeepsQuota
           /\ Q!RoundComplete /\ Q!FindsUsable
<1> DEFINE Goal == QuotaInv' /\ Q!WithinQuota /\ Q!KeepsQuota
<1> USE DEF Q!vars, Q!quotaVars, Q!roundVars
<1>1. ASSUME NEW sel \in Q!Pool, Q!SelectPool(sel), UNCHANGED <<Q!quotaVars, usable>>,
             out' \in [Q!Pool -> Int]
      PROVE  Goal
  <2>1. QuotaTypes' /\ ReducedInv'
    BY <1>1, SelectPoolKeeps DEF QuotaInv, QuotaTypes, ReducedInv
  <2>2. SteadyInv' /\ Q!WithinQuota
    BY <1>1, SelectPoolKeeps DEF SteadyInv
  <2>3. Q!KeepsQuota
    BY <1>1 DEF Q!KeepsQuota
  <2>4. QED
    BY <2>1, <2>2, <2>3 DEF QuotaInv
<1>2. ASSUME Q!Select
      PROVE  Goal /\ Q!RoundComplete /\ Q!FindsUsable
  <2>1. PICK sel \in Q!Pool :
            /\ qpc = "select" /\ Q!SelectPool(sel)
            /\ IF usable[sel] THEN last' = sel /\ out' = [out EXCEPT ![sel] = @ + 1] /\ qpc' = qpc
                              ELSE qpc' = "again" /\ UNCHANGED <<last, out>>
            /\ UNCHANGED <<Q!quotaVars, usable>>
    BY <1>2 DEF Q!Select
  <2>2. out' \in [Q!Pool -> Int]
    BY <2>1 DEF QuotaInv, QuotaTypes
  <2>3. Goal
    BY <1>1, <2>1, <2>2
  <2>4. Q!RoundComplete
    BY <2>1, SelectPoolKeeps DEF Q!RoundComplete
  <2>5. Q!FindsUsable
    BY <2>1, SelectFinds DEF Q!FindsUsable, QuotaInv
  <2>6. QED
    BY <2>3, <2>4, <2>5
<1>3. ASSUME Q!SelectAgain
      PROVE  Goal /\ Q!RoundComplete /\ Q!FindsUsable
  <2>1. PICK sel \in Q!Pool : Q!SelectPool(sel)
    BY <1>3 DEF Q!SelectAgain
  <2>2. out' \in [Q!Pool -> Int]
    BY <1>3 DEF Q!SelectAgain, QuotaInv, QuotaTypes
  <2>3. Goal
    BY <1>1, <1>3, <2>1, <2>2 DEF Q!SelectAgain
  <2>4. Q!RoundComplete
    BY <2>1, SelectPoolKeeps DEF Q!RoundComplete
  <2>5. ~Q!Select
    BY <1>3 DEF Q!Select, Q!SelectAgain
  <2>6. QED
    BY <2>3, <2>4, <2>5 DEF Q!FindsUsable
<1>4. ASSUME NEW p \in Q!Pool, Q!Mine(p) \/ Q!Clear(p)
      PROVE  Goal
  <2>1. out' \in [Q!Pool -> Int]
    BY <1>4 DEF Q!Mine, Q!Clear, QuotaInv, QuotaTypes
  <2>2. UNCHANGED <<Q!quotaVars, Q!roundVars, usable>>
    BY <1>4 DEF Q!Mine, Q!Clear
  <2>3. QuotaInv'
    BY <2>1, <2>2 DEF QuotaInv, QuotaTypes, ReducedInv, SteadyInv
  <2>4. Q!WithinQuota /\ Q!KeepsQuota
    <3>1. \A p2 \in steady' : net'[p2] = net[p2] /\ net[p2] \in Int
      BY <2>2 DEF QuotaInv, QuotaTypes, SteadyInv
    <3>2. QED
      BY <2>2, <3>1 DEF Q!WithinQuota, Q!KeepsQuota
  <2>5. QED
    BY <2>3, <2>4
<1>5. ASSUME NEW p \in Q!Pool, Q!Discard(p)
      PROVE  Goal
  <2>1. /\ out' = [out EXCEPT ![p] = @ - 1]
        /\ quota_used' = [quota_used EXCEPT ![p] = @ - 1]
        /\ net' = IF p \in steady THEN [net EXCEPT ![p] = @ - 1] ELSE net
        /\ UNCHANGED <<Q!quotaVars, rotating_pool, due, steady, usable>>
    BY <1>5 DEF Q!Discard
  <2>2. QuotaTypes' /\ ReducedInv'
    BY <2>1 DEF QuotaInv, QuotaTypes, ReducedInv
  <2>3. ASSUME NEW r \in steady
        PROVE  /\ r \in Q!Pool /\ usable[r]
               /\ Promise(quota_used'[r], due'[r], net'[r], quota_gcd'[r])
               /\ net'[r] <= net[r]
    <3>1. /\ r \in Q!Pool /\ usable[r]
          /\ Promise(quota_used[r], due[r], net[r], quota_gcd[r])
      BY DEF QuotaInv, SteadyInv
    <3>2. /\ quota_used[r] \in Int /\ due[r] \in Nat /\ net[r] \in Int
          /\ quota_gcd[r] \in Nat /\ quota_used \in [Q!Pool -> Int] /\ net \in [Q!Pool -> Int]
      BY <3>1 DEF QuotaInv, QuotaTypes
    <3>3. due'[r] = due[r] /\ quota_gcd'[r] = quota_gcd[r]
      BY <2>1
    <3>4. CASE r = p
      <4>1. quota_used'[r] = quota_used[r] - 1 /\ net'[r] = net[r] - 1
        BY <2>1, <2>3, <3>1, <3>2, <3>4
      <4>2. Promise(quota_used[r] - 1, due[r], net[r] - 1, quota_gcd[r])
        BY <3>1, <3>2, PromiseKept
      <4>3. net[r] - 1 <= net[r]
        BY <3>2
      <4>4. QED
        BY <3>1, <3>3, <4>1, <4>2, <4>3
    <3>5. CASE r # p
      <4>1. quota_used'[r] = quota_used[r] /\ net'[r] = net[r]
        BY <2>1, <3>1, <3>2, <3>5
      <4>2. QED
        BY <3>1, <3>2, <3>3, <4>1
    <3>6. QED
      BY <3>4, <3>5
  <2>4. SteadyInv'
    BY <2>1, <2>3 DEF SteadyInv
  <2>5. Q!WithinQuota
    <3>1. ASSUME NEW r \in steady
          PROVE  ~(net'[r] > net[r])
      <4>1. net'[r] \in Int /\ net[r] \in Int
        BY <2>2, <2>3 DEF QuotaInv, QuotaTypes
      <4>2. QED
        BY <2>3, <4>1
    <3>2. QED
      BY <2>1, <3>1 DEF Q!WithinQuota
  <2>6. Q!KeepsQuota
    BY <2>1 DEF Q!KeepsQuota
  <2>7. QED
    BY <2>2, <2>4, <2>5, <2>6 DEF QuotaInv
<1>6. ASSUME NEW p \in Q!Pool, Q!Turn(p)
      PROVE  Goal
  <2>1. /\ usable' = [usable EXCEPT ![p] = ~@]
        /\ steady' = steady \ {p}
        /\ due' = [due EXCEPT ![p] = 0] /\ net' = [net EXCEPT ![p] = 0]
        /\ UNCHANGED <<Q!quotaVars, quota_used, rotating_pool, out>>
    BY <1>6 DEF Q!Turn
  <2>2. QuotaTypes' /\ ReducedInv'
    BY <2>1 DEF QuotaInv, QuotaTypes, ReducedInv
  <2>3. ASSUME NEW r \in steady, r # p
        PROVE  usable'[r] = usable[r] /\ due'[r] = due[r] /\ net'[r] = net[r]
    BY <2>1, <2>3 DEF QuotaInv, QuotaTypes, SteadyInv
  <2>4. SteadyInv'
    BY <2>1, <2>3 DEF QuotaInv, SteadyInv
  <2>5. Q!WithinQuota
    <3>1. \A r \in steady : net[r] \in Int
      BY DEF QuotaInv, QuotaTypes, SteadyInv
    <3>2. QED
      BY <2>1, <2>3, <3>1 DEF Q!WithinQuota
  <2>6. Q!KeepsQuota
    BY <2>1 DEF Q!KeepsQuota
  <2>7. QED
    BY <2>2, <2>4, <2>5, <2>6 DEF QuotaInv
<1>7. ASSUME UNCHANGED Q!vars
      PROVE  Goal
  <2>1. QuotaInv'
    BY <1>7 DEF QuotaInv, QuotaTypes, ReducedInv, SteadyInv
  <2>2. \A p \in steady' : net'[p] = net[p] /\ net[p] \in Int
    BY <1>7 DEF QuotaInv, QuotaTypes, SteadyInv
  <2>3. QED
    BY <1>7, <2>1, <2>2 DEF Q!WithinQuota, Q!KeepsQuota
<1>8. Goal
  BY <1>2, <1>3, <1>4, <1>5, <1>6, <1>7, SetQuotaKeeps DEF Q!Next
<1>9. Q!RoundComplete /\ Q!FindsUsable
  BY <1>2, <1>3 DEF Q!RoundComplete, Q!FindsUsable
<1>10. QED
  BY <1>8, <1>9

\* The invariant in every state, and with it what a step may do.
LEMMA QuotaInvHolds ==
    ASSUME Q!QuotaAssumption
    PROVE  Q!Spec => []QuotaInv
<1>1. Q!Init => QuotaInv
  BY InitQuotaInv
<1>2. QuotaInv /\ [Q!Next]_(Q!vars) => QuotaInv'
  BY NextQuotaInv
<1>3. QED
  BY <1>1, <1>2, PTL DEF Q!Spec

\* select_pool keeps each steady pool to its quota as long as a usable pool has some
\* left, ends no round before it has given each its quota, and gives the scheduler a
\* usable pool if there is one; for any number of pools and any quotas, however they
\* change and pools come and go.
THEOREM QuotaIsFair ==
    ASSUME Q!QuotaAssumption
    PROVE  Q!Spec => SelectionIsFair
<1>1. QuotaInv /\ [Q!Next]_(Q!vars) =>
          [Q!WithinQuota /\ Q!RoundComplete /\ Q!FindsUsable]_(Q!vars)
  BY NextQuotaInv
<1>2. QED
  BY <1>1, QuotaInvHolds, PTL DEF Q!Spec, SelectionIsFair, Q!SelectionIsFair

\* adjust_quota_gcd takes from no pool all the quota it has left, if the new divisor
\* divides its quota: neither the multiplication nor the two conversions overflow.
THEOREM QuotaIsKept ==
    ASSUME Q!QuotaAssumption
    PROVE  Q!Spec => ChangeKeepsQuota
<1>1. QuotaInv /\ [Q!Next]_(Q!vars) => [Q!KeepsQuota]_(Q!vars)
  BY NextQuotaInv
<1>2. QED
  BY <1>1, QuotaInvHolds, PTL DEF Q!Spec, ChangeKeepsQuota, Q!ChangeKeepsQuota

\* The ranges of the variables, which the properties of the quotas do not need.
RangeInv ==
    /\ quota \in [Q!Pool -> Quotas \cup {1}]
    /\ quota_used \in [Q!Pool -> -Q!HalfInt..Q!HalfInt - 1]
    /\ qpc \in {"select", "again"} /\ out \in [Q!Pool -> 0..MaxOut] /\ last \in 0..N
    /\ steady \subseteq Q!Pool

LEMMA InitRange == ASSUME Q!QuotaAssumption, Q!Init \/ NoPools PROVE RangeInv
<1>1. Q!HalfInt \in Nat /\ Q!HalfInt > 1 /\ MaxOut \in Nat /\ N \in Nat
  BY DEF Q!QuotaAssumption, Q!HalfInt
<1>2. /\ Q!Nothing \in [Q!Pool -> -Q!HalfInt..Q!HalfInt - 1]
      /\ Q!Nothing \in [Q!Pool -> 0..MaxOut]
  BY <1>1 DEF Q!Nothing
<1>3. CASE Q!Init
  BY <1>1, <1>2, <1>3 DEF Q!Init, RangeInv
<1>4. CASE NoPools
  BY <1>1, <1>2, <1>4 DEF NoPools, RangeInv
<1>5. QED
  BY <1>3, <1>4

LEMMA NextRange ==
    ASSUME Q!QuotaAssumption, QuotaInv, RangeInv, [Q!Next]_(Q!vars)
    PROVE  RangeInv'
<1> USE DEF Q!quotaVars, Q!roundVars
<1>1. MaxOut \in Nat /\ N \in Nat /\ Q!Pool \subseteq 0..N
  BY DEF Q!QuotaAssumption, Q!Pool
<1>2. ASSUME NEW sel \in Q!Pool, Q!SelectPool(sel)
      PROVE  /\ quota_used' \in [Q!Pool -> -Q!HalfInt..Q!HalfInt - 1]
             /\ steady' \subseteq Q!Pool
  BY <1>2 DEF Q!SelectPool, Q!CountersFit, RangeInv
<1>3. CASE Q!Select
  <2>1. PICK sel \in Q!Pool :
            /\ out[sel] < MaxOut /\ Q!SelectPool(sel)
            /\ IF usable[sel] THEN last' = sel /\ out' = [out EXCEPT ![sel] = @ + 1] /\ qpc' = qpc
                              ELSE qpc' = "again" /\ UNCHANGED <<last, out>>
            /\ UNCHANGED quota
    BY <1>3 DEF Q!Select
  <2>2. out' \in [Q!Pool -> 0..MaxOut]
    <3>1. out[sel] + 1 \in 0..MaxOut
      BY <1>1, <2>1 DEF RangeInv
    <3>2. QED
      BY <2>1, <3>1 DEF RangeInv
  <2>3. last' \in 0..N /\ qpc' \in {"select", "again"}
    BY <1>1, <2>1 DEF RangeInv
  <2>4. QED
    BY <1>2, <2>1, <2>2, <2>3 DEF RangeInv
<1>4. CASE Q!SelectAgain
  BY <1>2, <1>4 DEF Q!SelectAgain, RangeInv
<1>5. ASSUME NEW p \in Q!Pool, Q!SetQuota(p)
      PROVE  RangeInv'
  <2>1. PICK q \in Quotas : Q!AdjustQuotaGcd([quota EXCEPT ![p] = q])
    BY <1>5 DEF Q!SetQuota
  <2> DEFINE qs == [quota EXCEPT ![p] = q]
  <2>2. quota' = qs /\ qs \in [Q!Pool -> Quotas \cup {1}]
    BY <2>1 DEF Q!AdjustQuotaGcd, RangeInv
  <2>3. Q!Divisor(qs) \in Nat \ {0}
    <3>1. qs \in [Q!Pool -> Nat]
      <4>1. Quotas \cup {1} \subseteq Nat
        BY DEF Q!QuotaAssumption
      <4>2. QED
        BY <2>2, <4>1
    <3>2. QED
      BY <3>1, DivisorIsPositive
  <2>4. ASSUME NEW r \in Q!Pool
        PROVE  Q!Rescaled(quota_used[r], global_quota_gcd, Q!Divisor(qs))
                   \in -Q!HalfInt..Q!HalfInt - 1
    BY <2>3, RescaledFits DEF QuotaInv, QuotaTypes
  <2>5. quota_used' \in [Q!Pool -> -Q!HalfInt..Q!HalfInt - 1]
    BY <2>1, <2>4 DEF Q!AdjustQuotaGcd
  <2>6. QED
    BY <1>5, <2>2, <2>5 DEF Q!SetQuota, RangeInv
<1>6. ASSUME NEW p \in Q!Pool, Q!Mine(p) \/ Q!Discard(p) \/ Q!Clear(p)
      PROVE  RangeInv'
  <2>1. out' \in [Q!Pool -> 0..MaxOut]
    <3>1. out[p] - 1 \in 0..MaxOut /\ 0 \in 0..MaxOut
      BY <1>1, <1>6 DEF RangeInv, Q!Mine, Q!Discard, Q!Clear
    <3>2. QED
      BY <1>6, <3>1 DEF RangeInv, Q!Mine, Q!Discard, Q!Clear
  <2>2. QED
    BY <1>6, <2>1 DEF RangeInv, Q!Mine, Q!Discard, Q!Clear, Q!CountersFit
<1>7. ASSUME NEW p \in Q!Pool, Q!Turn(p)
      PROVE  RangeInv'
  BY <1>7 DEF Q!Turn, RangeInv
<1>8. CASE UNCHANGED Q!vars
  BY <1>8 DEF Q!vars, RangeInv
<1>9. QED
  BY <1>3, <1>4, <1>5, <1>6, <1>7, <1>8 DEF Q!Next

LEMMA QuotaTypeOK == ASSUME QuotaInv, RangeInv PROVE Q!TypeOK
  BY DEF QuotaInv, QuotaTypes, RangeInv, Q!TypeOK

-----------------------------------------------------------------------------
(* The runs of MCWork.                                                     *)

\* The steps of a component are its own, or leave its variables alone.
LEMMA EitherStep ==
    [EitherNext]_allVars => [Next]_vars /\ [J!Next]_(J!vars) /\ [Q!Next]_(Q!vars)
  BY DEF EitherNext, Staging, InJob, Selecting, allVars, vars, jobVars, quotaVars,
         workVars, poolVars, J!vars, J!connVars, J!fieldVars, J!diffVars, J!workVars,
         Q!vars, Q!quotaVars, Q!roundVars

LEMMA EitherInv == EitherSpec => [](WorkInv /\ BoundInv /\ JobInv /\ QuotaInv /\ RangeInv)
<1>1. EitherInit => WorkInv /\ BoundInv
  <2>1. ASSUME NoConnection
        PROVE  WorkInv /\ BoundInv
    <3>1. job \in Job
      BY <2>1, StagedAssumption DEF NoConnection
    <3>2. /\ staged = {} /\ allocated = {} /\ active = FALSE
          /\ wjob = [w \in Work |-> job]
          /\ spc = "top" /\ swork = None
          /\ mpc = [m \in Miner |-> "ask"] /\ mwork = [m \in Miner |-> None]
      BY <2>1 DEF NoConnection
    <3>3. WorkInv
      BY <3>1, <3>2, StagedAssumption
         DEF WorkInv, TypeOK, PcInv, OneHolder, HeldAreAllocated, HeldOnce,
             AllocatedAreHeld, SLabel, MLabel
    <3>4. BoundInv
      BY <3>2, StagedAssumption, FS_EmptySet DEF BoundInv, QueueBound
    <3>5. QED
      BY <3>3, <3>4
  <2>2. QED
    BY <2>1, InitWorkInv, InitBoundInv DEF EitherInit
<1>2. EitherInit => JobInv
  BY WorkAssumption, InitJobInv DEF EitherInit
<1>3. EitherInit => QuotaInv
  <2>1. ASSUME NoPools
        PROVE  QuotaInv
    <3>1. Q!HalfInt \in Nat /\ Q!HalfInt > 1 /\ 0 \in Q!Pool
      BY WorkAssumption DEF Q!QuotaAssumption, Q!HalfInt, Q!Pool
    <3>2. QuotaTypes
      BY <2>1, <3>1 DEF NoPools, Q!Nothing, QuotaTypes
    <3>3. ReducedInv /\ SteadyInv
      BY <2>1 DEF NoPools, Q!Nothing, ReducedInv, SteadyInv
    <3>4. QED
      BY <3>2, <3>3 DEF QuotaInv
  <2>2. QED
    BY <2>1, WorkAssumption, InitQuotaInv DEF EitherInit
<1>4. WorkInv /\ BoundInv /\ [EitherNext]_allVars => (WorkInv /\ BoundInv)'
  BY EitherStep, NextWorkInv, NextBoundInv
<1>5. JobInv /\ [EitherNext]_allVars => JobInv'
  BY EitherStep, WorkAssumption, NextJobInv
<1>6. QuotaInv /\ RangeInv /\ [EitherNext]_allVars => (QuotaInv /\ RangeInv)'
  BY EitherStep, WorkAssumption, NextQuotaInv, NextRange
<1>7. EitherInit => RangeInv
  BY WorkAssumption, InitRange DEF EitherInit
<1>8. QED
  BY <1>1, <1>2, <1>3, <1>4, <1>5, <1>6, <1>7, PTL DEF EitherSpec

\* What the runs of MCWork check of the three components, for every value of the
\* constants.
THEOREM WorkRunsAreSafe ==
    EitherSpec => []/\ TypesOK /\ OneHolder /\ QueueBound
                    /\ UsedIsWhole /\ LastDiffWins
<1>1. WorkInv /\ BoundInv => TypeOK /\ OneHolder /\ QueueBound
  BY DEF WorkInv, BoundInv
<1>2. JobInv => J!TypeOK /\ UsedIsWhole /\ LastDiffWins
  BY WorkAssumption, JobInvIsWhole DEF UsedIsWhole, LastDiffWins, JobInv, DiffInv, J!LastDiffWins
<1>3. WorkInv /\ JobInv /\ QuotaInv /\ RangeInv => TypesOK
  BY <1>1, QuotaTypeOK DEF JobInv, WorkInv, TypesOK
<1>4. QED
  BY <1>1, <1>2, <1>3, EitherInv, PTL

\* ... and what every step of a run does to the quotas.
THEOREM WorkRunsAreFair == EitherSpec => SelectionIsFair /\ ChangeKeepsQuota
<1>1. QuotaInv /\ [EitherNext]_allVars =>
          /\ [Q!WithinQuota /\ Q!RoundComplete /\ Q!FindsUsable]_(Q!vars)
          /\ [Q!KeepsQuota]_(Q!vars)
  BY EitherStep, WorkAssumption, NextQuotaInv
<1>2. QED
  BY <1>1, EitherInv, PTL
     DEF EitherSpec, SelectionIsFair, Q!SelectionIsFair, ChangeKeepsQuota, Q!ChangeKeepsQuota

\* ... and each work goes round its cycle in them.
THEOREM WorkRunsRefine == EitherSpec => RefinesWorkCycle
<1>1. EitherInit => Cycle!Init
  BY InitRefines DEF EitherInit, Init, NoConnection
<1>2. WorkInv /\ BoundInv /\ [EitherNext]_allVars =>
          [Cycle!Next]_([w \in Work |-> Place(w)])
  BY EitherStep, StepRefines
<1>3. QED
  BY <1>1, <1>2, EitherInv, PTL DEF EitherSpec, RefinesWorkCycle, Cycle!Spec
=============================================================================
