---------------------------- MODULE CgLockProofs ----------------------------
(***************************************************************************)
(* Theorems of the three components that MCCgLock checks.  The cglock, for *)
(* any set of threads: its ownership discipline is inductive, writers are  *)
(* alone, and it implements the abstract lock with an indivisible          *)
(* downgrade.  The supply of the S21, for any limits and any number of     *)
(* sensors: it is told voltages step by step.  The blocks, for any pools   *)
(* and any chain: each is new once.                                        *)
(***************************************************************************)
EXTENDS MCCgLock, FiniteSetTheorems, SequenceTheorems, TLAPS

-----------------------------------------------------------------------------
(* The cglock.                                                             *)

\* The discipline holds before the first call.
LEMMA InitLockInv == Init => LockInv
  BY NoneAssumption
     DEF Init, LockInv, TypeOK, OwnershipInv, DowngradeInv, ModeOf, HoldsMutex, Label

\* The discipline survives each pthread call of each cglock function; with the
\* pc of every thread known, each case is a comparison of labels.
LEMMA NextLockInv == LockInv /\ [Next]_vars => LockInv'
<1> SUFFICES ASSUME LockInv, [Next]_vars
             PROVE  LockInv'
  OBVIOUS
<1> USE NoneAssumption
    DEF LockInv, TypeOK, OwnershipInv, DowngradeInv, ModeOf, HoldsMutex, Label, Goto
<1>1. ASSUME NEW t \in Thread, CgRLock(t)
      PROVE  LockInv'
  BY <1>1 DEF CgRLock, MutexLock, MutexUnlock, RdLock
<1>2. ASSUME NEW t \in Thread, CgWLock(t)
      PROVE  LockInv'
  BY <1>2 DEF CgWLock, MutexLock, WrLock
<1>3. ASSUME NEW t \in Thread, CgDwLock(t)
      PROVE  LockInv'
  <2>1. CASE Goto(t, "writing", "dw_rdlock") /\ RwUnlock(t)
    BY <2>1 DEF RwUnlock
  <2>2. CASE Goto(t, "dw_rdlock", "dw_unlock") /\ RdLock(t)
    BY <2>2 DEF RdLock
  <2>3. CASE Goto(t, "dw_unlock", "reading") /\ MutexUnlock(t)
    BY <2>3 DEF MutexUnlock
  <2>4. QED
    BY <1>3, <2>1, <2>2, <2>3 DEF CgDwLock
<1>4. ASSUME NEW t \in Thread, CgRUnlock(t)
      PROVE  LockInv'
  BY <1>4 DEF CgRUnlock, RwUnlock
<1>5. ASSUME NEW t \in Thread, CgWUnlock(t)
      PROVE  LockInv'
  BY <1>5 DEF CgWUnlock, RwUnlock, MutexUnlock
<1>6. CASE UNCHANGED vars
  BY <1>6 DEF vars
<1>7. QED
  BY <1>1, <1>2, <1>3, <1>4, <1>5, <1>6 DEF Next, Step

\* The ownership discipline of cgminer.h's cglock functions holds for any
\* number of threads.
THEOREM LockCorrect == Spec => []LockInv
<1>1. QED
  BY InitLockInv, NextLockInv, PTL DEF Spec

\* A writer excludes every other hold: two threads with a hold of kind "write"
\* and any hold both need the mutex, or one holds the rwlock the other has.
LEMMA LockInvExcludes == LockInv => MutualExclusion
<1> SUFFICES ASSUME LockInv,
                    NEW t \in Thread, NEW u \in Thread, t # u, ModeOf(pc[t]) = "write"
             PROVE  ModeOf(pc[u]) = "none"
  BY DEF MutualExclusion
<1>1. readers = {} /\ mutex = t
  BY DEF LockInv, OwnershipInv, DowngradeInv, ModeOf, HoldsMutex
<1>2. pc[u] \notin HoldsMutex /\ ModeOf(pc[u]) # "read"
  BY <1>1 DEF LockInv, OwnershipInv
<1>3. QED
  BY <1>2 DEF ModeOf, HoldsMutex

\* A writing or downgrading thread is alone, for any number of threads.
THEOREM WriterAlone == Spec => []MutualExclusion
  BY LockCorrect, LockInvExcludes, PTL

-----------------------------------------------------------------------------
(* The refinement of RWLock.                                               *)

\* Every pthread call is a step of the abstract lock or changes no hold.
LEMMA StepRefines == LockInv /\ [Next]_vars => [RW!Next]_([t \in Thread |-> ModeOf(pc[t])])
<1> SUFFICES ASSUME LockInv, [Next]_vars
             PROVE  [RW!Next]_([t \in Thread |-> ModeOf(pc[t])])
  OBVIOUS
<1> DEFINE mode == [t \in Thread |-> ModeOf(pc[t])]
<1> USE NoneAssumption
    DEF LockInv, TypeOK, OwnershipInv, DowngradeInv, ModeOf, HoldsMutex, Label, Goto
<1>1. ASSUME NEW t \in Thread, CgRLock(t)
      PROVE  RW!AcquireRead(t) \/ UNCHANGED mode
  BY <1>1 DEF CgRLock, MutexLock, MutexUnlock, RdLock, RW!AcquireRead
<1>2. ASSUME NEW t \in Thread, CgWLock(t)
      PROVE  RW!AcquireWrite(t) \/ UNCHANGED mode
  BY <1>2 DEF CgWLock, MutexLock, WrLock, RW!AcquireWrite
<1>3. ASSUME NEW t \in Thread, CgDwLock(t)
      PROVE  RW!Downgrade(t) \/ UNCHANGED mode
  BY <1>3 DEF CgDwLock, MutexUnlock, RdLock, RwUnlock, RW!Downgrade
<1>4. ASSUME NEW t \in Thread, CgRUnlock(t)
      PROVE  RW!Release(t)
  BY <1>4 DEF CgRUnlock, RwUnlock, RW!Release
<1>5. ASSUME NEW t \in Thread, CgWUnlock(t)
      PROVE  RW!Release(t) \/ UNCHANGED mode
  BY <1>5 DEF CgWUnlock, RwUnlock, MutexUnlock, RW!Release
<1>6. CASE UNCHANGED vars
  BY <1>6 DEF vars
<1>7. QED
  BY <1>1, <1>2, <1>3, <1>4, <1>5, <1>6 DEF Next, Step, RW!Next

\* The cglock of cgminer.h is, to its callers, a readers/writer lock with an
\* indivisible downgrade.
THEOREM CgLockImplementsRWLock == Spec => RefinesRWLock
<1>1. Init => RW!Init
  BY DEF Init, RW!Init, ModeOf
<1>2. QED
  BY <1>1, LockCorrect, StepRefines, PTL DEF Spec, RefinesRWLock, RW!Spec

-----------------------------------------------------------------------------
(* The supply of the S21.                                                  *)

\* What the autotuner is about to set is one step from what is set, and that is what
\* the supply was told, while no change is under way.
WantInv == tpc = "work" => want - setting \in -1..1

TunerInv == U!TypeOK /\ U!SupplyInSteps /\ WantInv

LEMMA InitTunerInv == ASSUME U!TunerAssumption, U!Init PROVE TunerInv
<1>1. optVoltage \in Int /\ measurement \in 0..Skip - 1 /\ 0 \in U!Sensor
  BY DEF U!TunerAssumption, U!Init, U!Sensor
<1>2. /\ want \in Low - 1..High + 1 /\ setting \in Low..High
      /\ supply = setting /\ want = setting
  BY DEF U!TunerAssumption, U!Init
<1>3. setting \in Int /\ setting - supply \in -1..1 /\ want - setting \in -1..1
  BY <1>2 DEF U!TunerAssumption
<1>4. /\ hot \in [U!Sensor -> BOOLEAN] /\ temperature \in [U!Sensor -> BOOLEAN]
      /\ rpc = "lock" /\ sensor = 0 /\ i2cMutex = "free" /\ tpc = "prepare"
      /\ hottest = FALSE /\ full = FALSE /\ clamping = FALSE
  BY DEF U!Init
<1>5. U!TypeOK
  BY <1>1, <1>2, <1>3, <1>4 DEF U!TypeOK
<1>6. QED
  BY <1>2, <1>3, <1>5 DEF TunerInv, U!SupplyInSteps, WantInv

\* The reading thread, the API and the weather change none of the voltages.
LEMMA OutsideStep ==
    ASSUME U!TunerAssumption, TunerInv,
           U!Reader \/ U!SetVoltage \/ U!ClampVoltage \/ U!Weather
    PROVE  TunerInv'
<1> USE DEF U!readVars, U!tunerVars, U!optVars
<1>1. UNCHANGED <<tpc, want, setting, supply, hottest, full, measurement>>
  BY DEF U!Reader, U!ReadLock, U!ReadDone, U!ReadFails, U!SetVoltage, U!ClampVoltage, U!Weather
<1>2. sensor' \in U!Sensor
  <2>1. (sensor + 1) % Sensors \in 0..Sensors - 1
    BY DEF TunerInv, U!TypeOK, U!TunerAssumption, U!Sensor
  <2>2. QED
    BY <2>1 DEF U!Reader, U!ReadLock, U!ReadDone, U!ReadFails, U!NextSensor, U!SetVoltage,
                U!ClampVoltage, U!Weather, U!Sensor, TunerInv, U!TypeOK
<1>3. /\ hot' \in [U!Sensor -> BOOLEAN] /\ temperature' \in [U!Sensor -> BOOLEAN]
      /\ rpc' \in {"lock", "read"} /\ i2cMutex' \in {"free", "reader", "tuner"}
  BY DEF U!Reader, U!ReadLock, U!ReadDone, U!ReadFails, U!SetVoltage, U!ClampVoltage,
         U!Weather, TunerInv, U!TypeOK
<1>4. optVoltage' \in Int /\ clamping' \in BOOLEAN
  <2>1. optVoltage \in Int /\ clamping \in BOOLEAN /\ Low - 1..High + 1 \subseteq Int
    BY DEF TunerInv, U!TypeOK, U!TunerAssumption
  <2>2. U!Clamp(optVoltage) \in Int
    BY <2>1 DEF U!Clamp, U!TunerAssumption
  <2>3. CASE U!SetVoltage
    BY <2>1, <2>3 DEF U!SetVoltage
  <2>4. CASE U!ClampVoltage
    BY <2>2, <2>4 DEF U!ClampVoltage
  <2>5. CASE U!Reader \/ U!Weather
    BY <2>1, <2>5 DEF U!Reader, U!ReadLock, U!ReadDone, U!ReadFails, U!Weather
  <2>6. QED
    BY <2>3, <2>4, <2>5
<1>5. QED
  BY <1>1, <1>2, <1>3, <1>4 DEF TunerInv, U!TypeOK, U!SupplyInSteps, WantInv

LEMMA TunerStep ==
    ASSUME U!TunerAssumption, TunerInv, U!Tuner \/ U!TunerLock
    PROVE  TunerInv'
<1> USE DEF U!readVars, U!optVars, TunerInv, U!TypeOK, U!SupplyInSteps, WantInv
<1>1. CASE U!Prepare
  <2>1. want' \in Low - 1..High + 1 /\ want' - setting \in -1..1
    BY <1>1 DEF U!Prepare, U!Towards, U!TunerAssumption
  <2>2. hottest' \in BOOLEAN
    BY <1>1 DEF U!Prepare, U!Hottest
  <2>3. QED
    BY <1>1, <2>1, <2>2 DEF U!Prepare
<1>2. CASE U!Work
  <2>1. measurement' \in 0..Skip - 1
    BY <1>2 DEF U!Work, U!TunerAssumption
  <2>2. setting = supply /\ want - setting \in -1..1 /\ want \in Int
    BY <1>2 DEF U!Work, U!TunerAssumption
  <2>3. setting' \in Low..High /\ setting' - supply \in -1..1
    <3>1. CASE setting' = setting
      BY <2>2, <3>1 DEF U!TunerAssumption
    <3>2. CASE setting' = U!Clamp(want)
      BY <2>2, <3>2 DEF U!Clamp, U!TunerAssumption
    <3>3. QED
      BY <1>2, <3>1, <3>2 DEF U!Work
  <2>4. /\ want' = setting' /\ hottest' = FALSE /\ full' \in BOOLEAN
        /\ UNCHANGED <<hot, temperature, rpc, sensor, i2cMutex, supply, optVoltage, clamping>>
    BY <1>2 DEF U!Work
  <2>5. /\ tpc' \in {"measure", "prepare", "tell"}
        /\ tpc' # "tell" => setting' = supply
    BY <1>2, <2>2 DEF U!Work
  <2>6. want' \in Low - 1..High + 1
    BY <2>3, <2>4 DEF U!TunerAssumption
  <2>7. setting' \in Int /\ supply' \in Low..High /\ setting' - supply' \in -1..1
    <3>1. supply' = supply /\ supply \in Low..High
      BY <2>4
    <3>2. setting' \in Int
      BY <2>3 DEF U!TunerAssumption
    <3>3. QED
      BY <2>3, <3>1, <3>2
  <2>8. U!TypeOK'
    BY <2>1, <2>4, <2>5, <2>6, <2>7
  <2>9. QED
    BY <2>3, <2>4, <2>5, <2>7, <2>8
<1>3. CASE U!TunerLock
  BY <1>3 DEF U!TunerLock
<1>4. CASE U!TunerUnlock
  BY <1>4 DEF U!TunerUnlock, U!TunerAssumption
<1>5. QED
  BY <1>1, <1>2, <1>3, <1>4 DEF U!Tuner

LEMMA NextTunerInv == ASSUME U!TunerAssumption, TunerInv, [U!Next]_(U!vars) PROVE TunerInv'
<1>1. CASE UNCHANGED U!vars
  BY <1>1 DEF U!vars, U!readVars, U!tunerVars, U!optVars, TunerInv, U!TypeOK, U!SupplyInSteps,
              WantInv
<1>2. QED
  BY <1>1, OutsideStep, TunerStep DEF U!Next

\* The supply of the S21 is told voltages within its limits, each a step from the one
\* before, whatever the API stores in opt_psu_voltage and whenever it is read.
THEOREM SupplyMovesInSteps ==
    ASSUME U!TunerAssumption
    PROVE  U!Spec => [](U!TypeOK /\ U!SupplyInSteps)
<1>1. U!Init => TunerInv
  BY InitTunerInv
<1>2. TunerInv /\ [U!Next]_(U!vars) => TunerInv'
  BY NextTunerInv
<1>3. TunerInv => U!TypeOK /\ U!SupplyInSteps
  BY DEF TunerInv
<1>4. QED
  BY <1>1, <1>2, <1>3, PTL DEF U!Spec

-----------------------------------------------------------------------------
(* The blocks.                                                             *)

\* No pool, and no work in test_work_current, is more than Lag blocks behind.
LiveInv ==
    /\ \A p \in Pool : pblock[p] <= chain /\ chain <= pblock[p] + Lag
    /\ \A t \in B!Caller :
        bpc[t] \in {"test", "find", "set"} =>
            wblock[t] \in B!Block /\ wblock[t] <= chain /\ chain <= wblock[t] + Lag

\* The database holds no block twice, and nearly in the order of their heights.
OrderInv ==
    /\ \A i \in 1..Len(blocks) : blocks[i] <= chain
    /\ \A i, j \in 1..Len(blocks) :
        i < j => blocks[i] <= blocks[j] + Lag /\ blocks[i] # blocks[j]

\* It has forgotten a block it held only when no work can be of that block any more.
NewsInv ==
    \A b \in B!Block :
        news[b] <= 1 /\ (news[b] = 1 /\ chain <= b + Lag => B!Known(b))

BlockInv == B!TypeOK /\ LiveInv /\ OrderInv /\ NewsInv

\* The blocks of the database are heights.
LEMMA BlocksAreNumbers ==
    ASSUME B!BlockAssumption, BlockInv
    PROVE  \A i \in 1..Len(blocks) : blocks[i] \in B!Block /\ blocks[i] \in Nat
<1>1. \A i \in 1..Len(blocks) : blocks[i] \in B!Block
  BY DEF BlockInv, B!TypeOK
<1>2. B!Block \subseteq Nat
  BY DEF B!Block, B!BlockAssumption
<1>3. QED
  BY <1>1, <1>2

LEMMA IntervalSize ==
    ASSUME NEW a \in Int, NEW b \in Int, a <= b
    PROVE  IsFiniteSet(a..b) /\ Cardinality(a..b) = b - a + 1
  BY FS_Interval

\* A full database whose oldest block a work may still be of holds only blocks within
\* Lag of that one: fewer than it has places, if another such block is not in it.
LEMMA OldestIsDead ==
    ASSUME B!BlockAssumption, BlockInv, Len(blocks) = Keep,
           NEW x \in B!Block, x <= chain, chain <= x + Lag, ~B!Known(x)
    PROVE  blocks[1] + Lag < chain
<1> SUFFICES ASSUME chain <= blocks[1] + Lag
             PROVE  FALSE
  <2>1. blocks[1] \in B!Block
    BY DEF B!BlockAssumption, BlockInv, B!TypeOK
  <2>2. QED
    BY <2>1 DEF B!BlockAssumption, BlockInv, B!TypeOK, B!Block
<1> DEFINE d == blocks[1]
           near == d - Lag..d + Lag
           all == [i \in 1..Keep + 1 |-> IF i = Keep + 1 THEN x ELSE blocks[i]]
<1>1. /\ Keep \in Nat /\ Lag \in Nat /\ 2 * Lag < Keep /\ chain \in Nat /\ x \in Nat
      /\ \A i \in 1..Keep : blocks[i] \in Nat /\ blocks[i] # x
  <2>1. \A i \in 1..Keep : blocks[i] \in Nat /\ blocks[i] # x
    BY BlocksAreNumbers DEF B!Known
  <2>2. B!Block \subseteq Nat
    BY DEF B!Block, B!BlockAssumption
  <2>3. QED
    BY <2>1, <2>2 DEF B!BlockAssumption, BlockInv, B!TypeOK
<1>2. d \in Nat /\ d <= chain
  BY <1>1 DEF BlockInv, OrderInv
<1>3. ASSUME NEW i \in 1..Keep
      PROVE  blocks[i] \in near
  <2>1. blocks[i] \in Nat /\ blocks[i] <= chain
    BY <1>1 DEF BlockInv, OrderInv
  <2>2. d <= blocks[i] + Lag
    <3>1. CASE i = 1
      BY <1>1, <1>2, <3>1
    <3>2. CASE 1 < i
      BY <1>1, <3>2 DEF BlockInv, OrderInv
    <3>3. QED
      BY <1>1, <3>1, <3>2
  <2>3. QED
    BY <1>1, <1>2, <2>1, <2>2
<1>4. x \in near
  BY <1>1, <1>2
<1>5. all \in [1..Keep + 1 -> near]
  BY <1>1, <1>3, <1>4
<1>6. /\ IsFiniteSet(near) /\ Cardinality(near) = 2 * Lag + 1
      /\ IsFiniteSet(1..Keep + 1) /\ Cardinality(1..Keep + 1) = Keep + 1
  <2>1. IsFiniteSet(near) /\ Cardinality(near) = (d + Lag) - (d - Lag) + 1
    <3>1. d - Lag \in Int /\ d + Lag \in Int /\ d - Lag <= d + Lag
      BY <1>1, <1>2
    <3>2. QED
      BY <3>1, IntervalSize
  <2>2. IsFiniteSet(1..Keep + 1) /\ Cardinality(1..Keep + 1) = (Keep + 1) - 1 + 1
    BY <1>1, IntervalSize
  <2>3. QED
    BY <1>1, <1>2, <2>1, <2>2
<1>7. \E i, j \in 1..Keep + 1 : i # j /\ all[i] = all[j]
  <2>1. Cardinality(near) < Cardinality(1..Keep + 1)
    BY <1>1, <1>6
  <2> HIDE DEF all, near
  <2>2. QED
    BY <1>5, <1>6, <2>1, FS_PigeonHole
<1>8. \A i, j \in 1..Keep : i # j => blocks[i] # blocks[j]
  BY <1>1 DEF BlockInv, OrderInv
<1>9. QED
  BY <1>1, <1>7, <1>8

\* Entering a block keeps the database small and in order, and every block in it that a
\* work may still be of.
LEMMA EnterBlock ==
    ASSUME B!BlockAssumption, BlockInv,
           NEW x \in B!Block, x <= chain, chain <= x + Lag, ~B!Known(x), B!Enter(x)
    PROVE  /\ blocks' \in Seq(B!Block) /\ Len(blocks') <= Keep
           /\ \A i \in 1..Len(blocks') : blocks'[i] <= chain
           /\ \A i, j \in 1..Len(blocks') :
                i < j => blocks'[i] <= blocks'[j] + Lag /\ blocks'[i] # blocks'[j]
           /\ B!Known(x)'
           /\ \A b \in B!Block : B!Known(b) /\ chain <= b + Lag => B!Known(b)'
<1> DEFINE off == IF Len(blocks) > Keep - 1 THEN 1 ELSE 0
           old == IF Len(blocks) > Keep - 1 THEN Tail(blocks) ELSE blocks
<1>1. /\ Keep \in Nat \ {0} /\ Lag \in Nat /\ chain \in Nat /\ x \in Nat
      /\ blocks \in Seq(B!Block) /\ Len(blocks) \in Nat /\ Len(blocks) <= Keep
      /\ B!Block \subseteq Nat
  BY DEF B!BlockAssumption, BlockInv, B!TypeOK, B!Block
<1>2. /\ \A i \in 1..Len(blocks) : blocks[i] \in B!Block /\ blocks[i] # x
      /\ \A i \in 1..Len(blocks) : blocks[i] \in Nat /\ blocks[i] <= chain
      /\ \A i, j \in 1..Len(blocks) :
            i < j => blocks[i] <= blocks[j] + Lag /\ blocks[i] # blocks[j]
  BY BlocksAreNumbers DEF BlockInv, OrderInv, B!Known
<1>3. /\ old \in Seq(B!Block) /\ Len(old) = Len(blocks) - off
      /\ \A i \in 1..Len(old) : old[i] = blocks[i + off]
  <2>1. CASE Len(blocks) > Keep - 1
    <3>1. blocks # <<>>
      BY <1>1, <2>1
    <3>2. QED
      BY <1>1, <2>1, <3>1, HeadTailProperties
  <2>2. CASE ~(Len(blocks) > Keep - 1)
    BY <1>1, <2>2
  <2>3. QED
    BY <2>1, <2>2
<1>4. blocks' = Append(old, x)
  BY DEF B!Enter
<1>5. off \in {0, 1} /\ Len(old) \in Nat /\ Len(old) + off = Len(blocks) /\ Len(old) + 1 <= Keep
  BY <1>1, <1>3
<1> HIDE DEF old, off
<1>6. /\ blocks' \in Seq(B!Block) /\ Len(blocks') = Len(old) + 1
      /\ \A i \in 1..Len(old) : blocks'[i] = blocks[i + off]
      /\ blocks'[Len(old) + 1] = x
  BY <1>3, <1>4, AppendProperties
<1>7. \A i \in 1..Len(old) : i + off \in 1..Len(blocks)
  BY <1>5
<1>8. ASSUME NEW i \in 1..Len(blocks')
      PROVE  blocks'[i] <= chain
  <2>1. CASE i = Len(old) + 1
    BY <1>6, <2>1
  <2>2. CASE i \in 1..Len(old)
    BY <1>2, <1>6, <1>7, <2>2
  <2>3. QED
    BY <1>5, <1>6, <2>1, <2>2
<1>9. ASSUME NEW i \in 1..Len(blocks'), NEW j \in 1..Len(blocks'), i < j
      PROVE  blocks'[i] <= blocks'[j] + Lag /\ blocks'[i] # blocks'[j]
  <2>1. i \in 1..Len(old)
    BY <1>5, <1>6, <1>9
  <2>2. CASE j = Len(old) + 1
    BY <1>1, <1>2, <1>6, <1>7, <2>1, <2>2
  <2>3. CASE j \in 1..Len(old)
    <3>1. i + off < j + off
      BY <1>5, <1>9, <2>1, <2>3
    <3>2. QED
      BY <1>2, <1>6, <1>7, <2>1, <2>3, <3>1
  <2>4. QED
    BY <1>5, <1>6, <2>2, <2>3
<1>10. B!Known(x)'
  BY <1>5, <1>6 DEF B!Known
<1>11. ASSUME NEW b \in B!Block, B!Known(b), chain <= b + Lag
       PROVE  B!Known(b)'
  <2>1. PICK i \in 1..Len(blocks) : blocks[i] = b
    BY <1>11 DEF B!Known
  <2>2. i - off \in 1..Len(old)
    <3>1. CASE off = 0
      BY <1>5, <3>1
    <3>2. CASE off = 1
      <4>1. Len(blocks) = Keep
        BY <1>1, <3>2 DEF off
      <4>2. i # 1
        BY <1>1, <1>2, <1>11, <2>1, <4>1, OldestIsDead
      <4>3. QED
        BY <1>5, <3>2, <4>2
    <3>3. QED
      BY <1>5, <3>1, <3>2
  <2>3. blocks'[i - off] = b
    <3>1. (i - off) + off = i
      BY <1>5
    <3>2. QED
      BY <1>6, <2>1, <2>2, <3>1
  <2>4. i - off \in 1..Len(blocks')
    BY <1>5, <1>6, <2>2
  <2>5. QED
    BY <2>3, <2>4 DEF B!Known
<1>12. QED
  BY <1>5, <1>6, <1>8, <1>9, <1>10, <1>11

LEMMA InitBlockInv == ASSUME B!BlockAssumption, B!Init PROVE BlockInv
<1>1. 1 \in B!Block /\ B!Block \subseteq Nat
  BY DEF B!BlockAssumption, B!Block
<1>2. B!TypeOK
  <2>1. blocks \in Seq(B!Block) /\ Len(blocks) <= Keep
    BY DEF B!Init, B!BlockAssumption
  <2>2. /\ bpc \in [B!Caller -> B!Label] /\ wpool \in [B!Caller -> B!Caller]
        /\ wblock \in [B!Caller -> B!Block \cup {0}]
    BY DEF B!Init, B!Label
  <2>3. QED
    BY <1>1, <2>1, <2>2 DEF B!Init, B!TypeOK
<1>3. LiveInv
  BY DEF B!Init, LiveInv, B!BlockAssumption
<1>4. OrderInv /\ NewsInv
  BY DEF B!Init, OrderInv, NewsInv
<1>5. QED
  BY <1>2, <1>3, <1>4 DEF BlockInv

LEMMA NextBlockInv == ASSUME B!BlockAssumption, BlockInv, [B!Next]_(B!vars) PROVE BlockInv'
<1> USE DEF B!netVars, B!dbVars, B!workVars
<1>1. /\ B!Block \subseteq Nat /\ Lag \in Nat /\ MaxBlock \in Nat
      /\ chain \in Nat /\ chain \in B!Block
      /\ \A p \in Pool : p \in B!Caller /\ pblock[p] \in B!Block /\ pblock[p] \in Nat
      /\ Scheduler \in B!Caller
  BY DEF B!BlockAssumption, BlockInv, B!TypeOK, B!Block, B!Caller
<1>2. ASSUME B!NewBlock
      PROVE  BlockInv'
  <2>1. chain' \in B!Block /\ chain' = chain + 1
    BY <1>1, <1>2 DEF B!NewBlock, B!Block
  <2>2. B!TypeOK'
    BY <1>2, <2>1 DEF B!NewBlock, BlockInv, B!TypeOK
  <2>3. LiveInv'
    <3>1. \A p \in Pool : pblock'[p] = pblock[p] /\ chain' <= pblock[p] + Lag
                           /\ pblock[p] <= chain
      BY <1>2 DEF B!NewBlock, BlockInv, LiveInv
    <3>2. ASSUME NEW t \in B!Caller, bpc'[t] \in {"test", "find", "set"}
          PROVE  wblock'[t] \in B!Block /\ wblock'[t] <= chain' /\ chain' <= wblock'[t] + Lag
      <4>1. bpc[t] \notin {"idle", "notified"} /\ bpc[t] \in {"test", "find", "set"}
            /\ wblock' = wblock
        BY <1>2, <3>2 DEF B!NewBlock
      <4>2. chain' <= wblock[t] + Lag /\ wblock[t] \in B!Block /\ wblock[t] <= chain
        BY <1>2, <4>1 DEF B!NewBlock, BlockInv, LiveInv
      <4>3. wblock[t] \in Nat /\ chain \in Nat
        BY <1>1, <4>2
      <4>4. wblock[t] <= chain'
        BY <2>1, <4>2, <4>3
      <4>5. QED
        BY <4>1, <4>2, <4>4
    <3>3. QED
      BY <1>1, <2>1, <3>1, <3>2 DEF LiveInv
  <2>4. OrderInv'
    <3>1. \A i \in 1..Len(blocks) : blocks[i] \in Nat
      BY BlocksAreNumbers
    <3>2. QED
      BY <1>1, <1>2, <2>1, <3>1 DEF B!NewBlock, BlockInv, OrderInv
  <2>5. NewsInv'
    <3>1. SUFFICES ASSUME NEW b \in B!Block
                   PROVE  news'[b] <= 1 /\ (news'[b] = 1 /\ chain' <= b + Lag => B!Known(b)')
      BY DEF NewsInv
    <3>2. news' = news /\ (B!Known(b)' <=> B!Known(b))
      BY <1>2 DEF B!NewBlock, B!Known
    <3>3. chain' <= b + Lag => chain <= b + Lag
      BY <1>1, <2>1
    <3>4. QED
      BY <3>2, <3>3 DEF BlockInv, NewsInv
  <2>6. QED
    BY <2>2, <2>3, <2>4, <2>5 DEF BlockInv
<1>3. ASSUME NEW p \in Pool, B!Notify(p)
      PROVE  BlockInv'
  <2>1. PICK b \in pblock[p]..chain :
            /\ pblock' = [pblock EXCEPT ![p] = b]
            /\ clean' \in {[clean EXCEPT ![p] = c] : c \in {TRUE, b # pblock[p]}}
    BY <1>3 DEF B!Notify
  <2>2. b \in B!Block /\ b <= chain /\ chain <= b + Lag
    <3>1. b \in Nat /\ pblock[p] <= b /\ b <= chain /\ chain <= pblock[p] + Lag
      BY <1>1, <2>1 DEF BlockInv, LiveInv
    <3>2. QED
      BY <1>1, <3>1 DEF B!Block
  <2>3. clean' \in [Pool -> BOOLEAN] /\ pblock' \in [Pool -> B!Block]
    BY <2>1, <2>2 DEF BlockInv, B!TypeOK
  <2>4. bpc' = [bpc EXCEPT ![p] = "notified"] /\ UNCHANGED <<chain, miningPool, blocks, current,
            news, wpool, wblock>>
    BY <1>3 DEF B!Notify
  <2>5. B!TypeOK'
    BY <2>3, <2>4 DEF BlockInv, B!TypeOK, B!Label
  <2>6. LiveInv'
    BY <2>1, <2>2, <2>4 DEF BlockInv, B!TypeOK, LiveInv
  <2>7. OrderInv' /\ NewsInv'
    BY <2>4 DEF BlockInv, OrderInv, NewsInv, B!Known
  <2>8. QED
    BY <2>5, <2>6, <2>7 DEF BlockInv
<1>4. ASSUME B!Switch \/ UNCHANGED B!vars
      PROVE  BlockInv'
  BY <1>4 DEF B!Switch, B!vars, BlockInv, B!TypeOK, LiveInv, OrderInv, NewsInv, B!Known
<1>5. ASSUME NEW t \in B!Caller, NEW p \in Pool, B!TakeWork(t, p),
             bpc' = [bpc EXCEPT ![t] = "test"], UNCHANGED <<B!netVars, clean, B!dbVars>>
      PROVE  BlockInv'
  <2>1. /\ wpool' = [wpool EXCEPT ![t] = p] /\ wblock' = [wblock EXCEPT ![t] = pblock[p]]
        /\ p \in B!Caller
    BY <1>1, <1>5 DEF B!TakeWork
  <2>2. B!TypeOK'
    BY <1>1, <1>5, <2>1 DEF BlockInv, B!TypeOK, B!Label
  <2>3. LiveInv'
    BY <1>1, <1>5, <2>1 DEF BlockInv, B!TypeOK, LiveInv
  <2>4. OrderInv' /\ NewsInv'
    BY <1>5 DEF BlockInv, OrderInv, NewsInv, B!Known
  <2>5. QED
    BY <2>2, <2>3, <2>4 DEF BlockInv
<1>6. ASSUME NEW p \in Pool, B!InformDatabase(p)
      PROVE  BlockInv'
  <2>1. CASE clean[p]
    BY <1>1, <1>5, <1>6, <2>1 DEF B!InformDatabase
  <2>2. CASE ~clean[p]
    BY <1>6, <2>2 DEF B!InformDatabase, BlockInv, B!TypeOK, B!Label, LiveInv, OrderInv, NewsInv,
                      B!Known
  <2>3. QED
    BY <2>1, <2>2
<1>7. ASSUME B!MakeWork
      PROVE  BlockInv'
  <2>1. miningPool \in Pool
    BY DEF BlockInv, B!TypeOK
  <2>2. QED
    BY <1>1, <1>5, <1>7, <2>1 DEF B!MakeWork
<1>8. ASSUME NEW t \in B!Caller, B!TakeClean(t)
      PROVE  BlockInv'
  <2>1. B!TypeOK'
    BY <1>8 DEF B!TakeClean, BlockInv, B!TypeOK, B!Label
  <2>2. LiveInv' /\ OrderInv' /\ NewsInv'
    BY <1>8 DEF B!TakeClean, BlockInv, B!TypeOK, LiveInv, OrderInv, NewsInv, B!Known
  <2>3. QED
    BY <2>1, <2>2 DEF BlockInv
<1>9. ASSUME NEW t \in B!Caller, B!Done(t), UNCHANGED <<B!netVars, clean, blocks, news, wpool>>,
             current' \in B!Block \cup {0}
      PROVE  BlockInv'
  <2>1. B!TypeOK'
    BY <1>9 DEF B!Done, BlockInv, B!TypeOK, B!Label
  <2>2. LiveInv' /\ OrderInv' /\ NewsInv'
    BY <1>9 DEF B!Done, BlockInv, B!TypeOK, LiveInv, OrderInv, NewsInv, B!Known
  <2>3. QED
    BY <2>1, <2>2 DEF BlockInv
<1>10. ASSUME NEW t \in B!Caller, B!FindBlock(t)
       PROVE  BlockInv'
  <2>1. wblock[t] \in B!Block /\ wblock[t] <= chain /\ chain <= wblock[t] + Lag
    BY <1>10 DEF B!FindBlock, BlockInv, LiveInv
  <2>2. CASE B!Known(wblock[t])
    BY <1>9, <1>10, <2>2 DEF B!FindBlock, BlockInv, B!TypeOK
  <2>3. CASE ~B!Known(wblock[t])
    <3>1. /\ B!Enter(wblock[t]) /\ bpc' = [bpc EXCEPT ![t] = "set"]
          /\ news' = [news EXCEPT ![wblock[t]] = @ + 1]
          /\ UNCHANGED <<chain, pblock, miningPool, clean, current, wpool, wblock>>
      BY <1>10, <2>3 DEF B!FindBlock
    <3>2. /\ blocks' \in Seq(B!Block) /\ Len(blocks') <= Keep
          /\ \A i \in 1..Len(blocks') : blocks'[i] <= chain
          /\ \A i, j \in 1..Len(blocks') :
               i < j => blocks'[i] <= blocks'[j] + Lag /\ blocks'[i] # blocks'[j]
          /\ B!Known(wblock[t])'
          /\ \A b \in B!Block : B!Known(b) /\ chain <= b + Lag => B!Known(b)'
      BY <2>1, <2>3, <3>1, EnterBlock
    <3>3. B!TypeOK'
      <4>1. news' \in [B!Block -> Nat]
        BY <2>1, <3>1 DEF BlockInv, B!TypeOK
      <4>2. bpc' \in [B!Caller -> B!Label]
        BY <3>1 DEF BlockInv, B!TypeOK, B!Label
      <4>3. QED
        BY <3>1, <3>2, <4>1, <4>2 DEF BlockInv, B!TypeOK
    <3>4. LiveInv'
      BY <2>1, <3>1 DEF BlockInv, B!TypeOK, LiveInv
    <3>5. OrderInv'
      BY <3>1, <3>2 DEF OrderInv
    <3>6. NewsInv'
      <4>1. news[wblock[t]] = 0
        <5>1. news[wblock[t]] \in Nat
          BY <2>1 DEF BlockInv, B!TypeOK
        <5>2. news[wblock[t]] <= 1 /\ news[wblock[t]] # 1
          BY <2>1, <2>3 DEF BlockInv, NewsInv
        <5>3. QED
          BY <5>1, <5>2
      <4>2. SUFFICES ASSUME NEW b \in B!Block
                     PROVE  news'[b] <= 1 /\ (news'[b] = 1 /\ chain' <= b + Lag => B!Known(b)')
        BY DEF NewsInv
      <4>3. CASE b = wblock[t]
        BY <2>1, <3>1, <3>2, <4>1, <4>3 DEF BlockInv, B!TypeOK
      <4>4. CASE b # wblock[t]
        BY <3>1, <3>2, <4>4 DEF BlockInv, B!TypeOK, NewsInv
      <4>5. QED
        BY <4>3, <4>4
    <3>7. QED
      BY <3>3, <3>4, <3>5, <3>6 DEF BlockInv
  <2>4. QED
    BY <2>2, <2>3
<1>11. ASSUME NEW t \in B!Caller, B!SetCurrent(t)
       PROVE  BlockInv'
  <2>1. wblock[t] \in B!Block
    BY <1>11 DEF B!SetCurrent, BlockInv, LiveInv
  <2>2. QED
    BY <1>9, <1>11, <2>1 DEF B!SetCurrent
<1>12. QED
  BY <1>2, <1>3, <1>4, <1>6, <1>7, <1>8, <1>10, <1>11 DEF B!Next, B!Test

\* A block is entered as a new one at most once, for any number of pools and any length
\* of chain, if the database keeps more than twice as many blocks as a pool is behind.
THEOREM BlockIsNewOnce ==
    ASSUME B!BlockAssumption
    PROVE  B!Spec => [](B!TypeOK /\ B!NewOnce)
<1>1. B!Init => BlockInv
  BY InitBlockInv
<1>2. BlockInv /\ [B!Next]_(B!vars) => BlockInv'
  BY NextBlockInv
<1>3. BlockInv => B!TypeOK /\ B!NewOnce
  BY DEF BlockInv, NewsInv, B!NewOnce
<1>4. QED
  BY <1>1, <1>2, <1>3, PTL DEF B!Spec

-----------------------------------------------------------------------------
(* The three together.                                                     *)

\* A step of the sum is a step of one component, and none of the others.
LEMMA EitherStep ==
    [EitherNext]_allVars => [Next]_vars /\ [U!Next]_(U!vars) /\ [B!Next]_(B!vars)
  BY DEF EitherNext, allVars, vars, tunerVars, blockVars, U!vars, U!readVars, U!tunerVars,
         U!optVars, B!vars, B!netVars, B!dbVars, B!workVars

LEMMA EitherInv == EitherSpec => [](LockInv /\ TunerInv /\ BlockInv)
<1>1. EitherInit => LockInv /\ TunerInv /\ BlockInv
  BY RunAssumption, InitLockInv, InitTunerInv, InitBlockInv DEF EitherInit
<1>2. LockInv /\ [EitherNext]_allVars => LockInv'
  BY EitherStep, NextLockInv
<1>3. TunerInv /\ BlockInv /\ [EitherNext]_allVars => (TunerInv /\ BlockInv)'
  BY EitherStep, RunAssumption, NextTunerInv, NextBlockInv
<1>4. QED
  BY <1>1, <1>2, <1>3, PTL DEF EitherSpec

\* The supply's voltage moves in steps, in the runs of the sum, for every value of the
\* constants; and the types of the supply and of the blocks.
THEOREM TunerRunsAreSafe == EitherSpec => []SupplyInSteps
<1>1. TunerInv /\ BlockInv => SupplyInSteps
  BY DEF TunerInv, BlockInv, SupplyInSteps
<1>2. QED
  BY <1>1, EitherInv, PTL

\* A block is new once, in the runs of the sum, for every value of the constants.
THEOREM BlockRunsAreSafe == EitherSpec => []NewOnce
<1>1. BlockInv => NewOnce
  BY DEF BlockInv, NewsInv, NewOnce, B!NewOnce
<1>2. QED
  BY <1>1, EitherInv, PTL

\* The cglock's discipline and its abstract lock, in the runs of the sum.
THEOREM LockRunsAreSafe == EitherSpec => []LockInv /\ RefinesRWLock
<1>1. EitherInit => RW!Init
  BY DEF EitherInit, Init, RW!Init, ModeOf
<1>2. LockInv /\ [EitherNext]_allVars => [RW!Next]_([t \in Thread |-> ModeOf(pc[t])])
  BY EitherStep, StepRefines
<1>3. QED
  BY <1>1, <1>2, EitherInv, PTL DEF EitherSpec, RefinesRWLock, RW!Spec
=============================================================================
