------------------------------ MODULE DevicesProofs ------------------------------
(***************************************************************************)
(* Theorems of the three components that MCDevices checks: the threads of  *)
(* the devices, the boards of the S21 and their ring of nonces, and the    *)
(* templates of the Avalon.  They hold for any sets of devices, boards,    *)
(* pools and jobs, any times of the watchdog and any length of the ring.   *)
(***************************************************************************)
EXTENDS MCDevices, Sequences, TLAPS

-----------------------------------------------------------------------------
(* The threads of the devices.                                             *)

\* ParkedForReason says nothing of a thread that has not come to its first wait;
\* its device has the post of the start by then, or is disabled.
SleepsForReason(d) ==
    (tpc[d] \in {"init", "armed", "parked"} /\ sem[d] = 0 /\ posting # d /\ wdev # d)
        => ~deven[d] \/ pause[d]

ControlInv == TypeOK /\ \A d \in Device : SleepsForReason(d)

LEMMA VerdictType ==
    ASSUME NEW d \in Device, status[d] \in Status
    PROVE  Verdict(d) \in Status
  BY DEF Verdict, Status

LEMMA InitControlInv == Init => ControlInv
<1> SUFFICES ASSUME Init
             PROVE  ControlInv
  OBVIOUS
<1>1. TypeOK
  <2>1. sem \in [Device -> Nat]
    BY DEF Init
  <2>2. idle \in [Device -> 0..DeadTime + 1]
    BY DeviceAssumption DEF Init
  <2>3. QED
    BY <2>1, <2>2 DEF Init, TypeOK, TLabel, WLabel, Status
<1>2. ASSUME NEW d \in Device, sem[d] = 0
      PROVE  ~deven[d]
  <2>1. sem[d] = IF deven[d] THEN 1 ELSE 0
    BY DEF Init
  <2>2. QED
    BY <1>2, <2>1
<1>3. QED
  BY <1>1, <1>2 DEF ControlInv, SleepsForReason

\* What leaves the devices, their semaphores and their threads alone, and takes
\* nobody's promise of a post back, leaves the reasons alone.
LEMMA ReasonsUndisturbed ==
    ASSUME \A d \in Device : SleepsForReason(d),
           UNCHANGED <<deven, pause, sem, tpc, posting, wdev>>
    PROVE  \A d \in Device : SleepsForReason(d)'
  BY DEF SleepsForReason

\* The steps of the thread of a device.
LEMMA ThreadStep ==
    ASSUME ControlInv, NEW d \in Device,
           Thread(d) \/ ScanFailed(d) \/ GetWorkOut(d) \/ GetWorkIn(d)
    PROVE  ControlInv'
<1> USE DeviceAssumption
<1> USE DEF ControlInv, TypeOK, apiVars, lifeVars, dogVars
<1>1. CASE ThreadInit(d)
  <2>1. tpc' \in [Device -> TLabel]
    BY <1>1 DEF ThreadInit, TLabel
  <2>2. TypeOK'
    BY <1>1, <2>1 DEF ThreadInit, Status
  <2>3. \A e \in Device : SleepsForReason(e)'
    BY <1>1 DEF ThreadInit, SleepsForReason
  <2>4. QED
    BY <2>2, <2>3
<1>2. CASE SemWait(d)
  <2>1. sem[d] - 1 \in Nat
    BY <1>2 DEF SemWait
  <2>2. sem' \in [Device -> Nat] /\ tpc' \in [Device -> TLabel]
    BY <1>2, <2>1 DEF SemWait, TLabel
  <2>3. TypeOK'
    BY <1>2, <2>2 DEF SemWait
  <2>4. \A e \in Device : SleepsForReason(e)'
    BY <1>2 DEF SemWait, SleepsForReason
  <2>5. QED
    BY <2>3, <2>4
<1>3. CASE GetWorkOut(d) \/ GetWorkIn(d)
  <2>1. /\ getwork' \in [Device -> BOOLEAN] /\ idle' \in [Device -> 0..DeadTime + 1]
        /\ status' \in [Device -> Status]
    <3>1. CASE GetWorkOut(d)
      BY <3>1 DEF GetWorkOut, Status
    <3>2. CASE GetWorkIn(d)
      BY <3>2 DEF GetWorkIn, Status
    <3>3. QED
      BY <1>3, <3>1, <3>2
  <2>2. UNCHANGED <<deven, pause, sem, tpc, posting, run, schedPaused, wpc, wleft, wdev>>
    BY <1>3 DEF GetWorkOut, GetWorkIn
  <2>3. TypeOK'
    BY <2>1, <2>2
  <2>4. QED
    BY <2>2, <2>3, ReasonsUndisturbed
<1>4. CASE ScanDone(d)
  <2>1. TypeOK'
    BY <1>4 DEF ScanDone, TLabel
  <2>2. \A e \in Device : SleepsForReason(e)'
    BY <1>4 DEF ScanDone, SleepsForReason
  <2>3. QED
    BY <2>1, <2>2
<1>5. CASE ScanFailed(d)
  <2>1. TypeOK'
    BY <1>5 DEF ScanFailed, TLabel
  <2>2. \A e \in Device : SleepsForReason(e)'
    BY <1>5 DEF ScanFailed, SleepsForReason
  <2>3. QED
    BY <2>1, <2>2
<1>6. CASE Check(d)
  <2>1. TypeOK'
    BY <1>6 DEF Check, TLabel
  <2>2. \A e \in Device : SleepsForReason(e)'
    BY <1>6 DEF Check, SleepsForReason
  <2>3. QED
    BY <2>1, <2>2
<1>7. QED
  BY <1>1, <1>2, <1>3, <1>4, <1>5, <1>6 DEF Thread

\* A command promises its post before it enables the device.
LEMMA CommandStep ==
    ASSUME ControlInv, NEW d \in Device,
           AscEnable(d) \/ AscPost(d) \/ AscDisable(d)
    PROVE  ControlInv'
<1> USE DeviceAssumption
<1> USE DEF ControlInv, TypeOK, apiVars, lifeVars, dogVars
<1>1. CASE AscEnable(d)
  BY <1>1 DEF AscEnable, SleepsForReason
<1>2. CASE AscPost(d)
  <2>1. sem' \in [Device -> Nat] /\ sem'[d] # 0
    BY <1>2 DEF AscPost
  <2>2. \A e \in Device : SleepsForReason(e)'
    BY <1>2, <2>1 DEF AscPost, SleepsForReason
  <2>3. QED
    BY <1>2, <2>1, <2>2 DEF AscPost
<1>3. CASE AscDisable(d)
  BY <1>3 DEF AscDisable, SleepsForReason
<1>4. QED
  BY <1>1, <1>2, <1>3

\* The watchdog promises its post before it lets anybody else see pause cleared.
LEMMA WatchdogStep ==
    ASSUME ControlInv, Watchdog
    PROVE  ControlInv'
<1> USE DeviceAssumption
<1> USE DEF ControlInv, TypeOK, apiVars, lifeVars, dogVars
<1>1. CASE WSleep \/ WResume \/ WNoChange \/ WResumed \/ WRoundDone
  <2>1. TypeOK'
    BY <1>1 DEF WSleep, WResume, WNoChange, WResumed, WRoundDone, WLabel
  <2>2. QED
    BY <1>1, <2>1, ReasonsUndisturbed DEF WSleep, WResume, WNoChange, WResumed, WRoundDone
<1>2. CASE WPause
  BY <1>2 DEF WPause, SleepsForReason, WLabel
<1>3. CASE WResumeDevice
  <2>1. PICK d \in wleft :
            /\ wleft' = wleft \ {d}
            /\ IF deven[d]
               THEN pause' = [pause EXCEPT ![d] = FALSE] /\ wdev' = d
               ELSE UNCHANGED <<pause, wdev>>
    BY <1>3 DEF WResumeDevice
  <2>2. TypeOK'
    BY <1>3, <2>1 DEF WResumeDevice
  <2>3. \A e \in Device : SleepsForReason(e)'
    BY <1>3, <2>1 DEF WResumeDevice, SleepsForReason
  <2>4. QED
    BY <2>2, <2>3
<1>4. CASE WPost
  <2>1. wdev \in Device /\ sem' \in [Device -> Nat] /\ sem'[wdev] # 0
    BY <1>4 DEF WPost
  <2>2. \A e \in Device : SleepsForReason(e)'
    BY <1>4, <2>1 DEF WPost, SleepsForReason
  <2>3. QED
    BY <1>4, <2>1, <2>2 DEF WPost
<1>5. CASE WJudge
  <2>1. PICK d \in wleft :
            /\ wleft' = wleft \ {d}
            /\ status' = IF getwork[d] \/ ~deven[d] \/ pause[d]
                         THEN status ELSE [status EXCEPT ![d] = Verdict(d)]
    BY <1>5 DEF WJudge
  <2>2. Verdict(d) \in Status
    BY VerdictType
  <2>3. status' \in [Device -> Status] /\ wleft' \subseteq Device
    BY <2>1, <2>2
  <2>4. QED
    BY <1>5, <2>3, ReasonsUndisturbed DEF WJudge
<1>6. QED
  BY <1>1, <1>2, <1>3, <1>4, <1>5 DEF Watchdog

LEMMA NextControlInv == ControlInv /\ [Next]_vars => ControlInv'
<1> SUFFICES ASSUME ControlInv, [Next]_vars
             PROVE  ControlInv'
  OBVIOUS
<1>1. CASE \E d \in Device :
        \/ Thread(d) \/ ScanFailed(d) \/ GetWorkOut(d) \/ GetWorkIn(d)
        \/ AscEnable(d) \/ AscPost(d) \/ AscDisable(d)
  BY <1>1, ThreadStep, CommandStep
<1>2. CASE Watchdog
  BY <1>2, WatchdogStep
<1>3. CASE Tick
  <2>1. idle' \in [Device -> 0..DeadTime + 1]
    BY <1>3, DeviceAssumption DEF Tick, ControlInv, TypeOK
  <2>2. TypeOK'
    BY <1>3, <2>1 DEF Tick, ControlInv, TypeOK, apiVars, dogVars
  <2>3. QED
    BY <1>3, <2>2, ReasonsUndisturbed DEF Tick, ControlInv, apiVars, dogVars
<1>4. CASE Schedule
  <2>1. TypeOK'
    BY <1>4 DEF Schedule, ControlInv, TypeOK, apiVars, lifeVars, dogVars
  <2>2. QED
    BY <1>4, <2>1, ReasonsUndisturbed DEF Schedule, ControlInv, apiVars, dogVars
<1>5. CASE UNCHANGED vars
  <2>1. TypeOK'
    BY <1>5 DEF vars, ControlInv, TypeOK, apiVars, lifeVars, dogVars
  <2>2. QED
    BY <1>5, <2>1, ReasonsUndisturbed DEF vars, ControlInv, apiVars, dogVars
<1>6. QED
  BY <1>1, <1>2, <1>3, <1>4, <1>5 DEF Next

LEMMA ControlInvHolds == Spec => []ControlInv
  BY InitControlInv, NextControlInv, PTL DEF Spec

\* Type correctness: of the semaphores above all, which no wait takes below zero.
THEOREM ControlTypeOK == Spec => []TypeOK
<1>1. ControlInv => TypeOK
  BY DEF ControlInv
<1>2. QED
  BY ControlInvHolds, <1>1, PTL

\* No wakeup of a device thread is lost (miner_thread and mt_disable against ascenable,
\* ascdisable and the resuming loop of watchdog_thread).
THEOREM ParkedForReasonHolds == Spec => []ParkedForReason
<1>1. ControlInv => ParkedForReason
  BY DEF ControlInv, SleepsForReason, ParkedForReason
<1>2. QED
  BY ControlInvHolds, <1>1, PTL

-----------------------------------------------------------------------------
(* The boards of the S21 and their ring of nonces.                         *)

\* A thread that is about to hang a work in has one.
FetchedInv == \A b \in Board : fpc[b] = "hang" => fetched[b] \in Job

\* The next nonce goes behind those that have not been tried.
PlaceInv == ~lost => wr = S!Slot(rd, num + 1)

BoardInv == S!TypeOK /\ FetchedInv /\ PlaceInv /\ S!RingIsQueue

\* The places of the ring: Fifo of them, one after the other.
LEMMA Slots ==
    ASSUME S!BoardAssumption, NEW r \in 0..Fifo - 1
    PROVE  /\ \A k \in 1..Fifo : /\ S!Slot(r, k) \in 0..Fifo - 1
                                 /\ S!Slot(r, k + 1) = S!After(S!Slot(r, k))
                                 /\ S!Slot(S!After(r), k) = S!Slot(r, k + 1)
           /\ \A j, k \in 1..Fifo : S!Slot(r, j) = S!Slot(r, k) => j = k
           /\ S!After(r) \in 0..Fifo - 1
  BY DEF S!BoardAssumption, S!Slot, S!After

LEMMA OldTypes ==
    ASSUME NEW b \in Board
    PROVE  /\ \A p \in S!Packet \cup {None} : S!Old(p) \in S!Packet \cup {None}
           /\ \A p \in S!Packet : S!Old(p) \in S!Packet
           /\ \A n \in S!Nonce : S!OldNonce(b, n) \in S!Nonce
           /\ \A n \in S!Nonce \cup {None} : S!OldNonce(b, n) \in S!Nonce \cup {None}
<1>1. \A p \in S!Packet : S!Old(p) \in S!Packet
  BY DEF S!Old, S!Packet
<1>2. S!Old(None) = None
  BY DEF S!Old
<1>3. ASSUME NEW n \in S!Nonce
      PROVE  S!OldNonce(b, n) \in S!Nonce
  <2>1. n.packet \in S!Packet
    BY DEF S!Nonce
  <2>2. S!Old(n.packet) \in S!Packet
    BY <1>1, <2>1
  <2>3. [n EXCEPT !.packet = S!Old(@)] \in S!Nonce
    BY <2>2 DEF S!Nonce
  <2>4. QED
    BY <2>3 DEF S!OldNonce
<1>4. S!OldNonce(b, None) = None
  BY DEF S!OldNonce
<1>5. QED
  BY <1>1, <1>2, <1>3, <1>4

LEMMA InitBoardInv ==
    ASSUME S!BoardAssumption, S!Init
    PROVE  BoardInv
<1> USE DEF S!Init
<1>1. S!TypeOK
  <2>1. wr \in 0..Fifo - 1 /\ rd \in 0..Fifo - 1 /\ num \in 0..Fifo
    BY DEF S!BoardAssumption
  <2>2. pending \in Seq(S!Nonce)
    OBVIOUS
  <2>3. QED
    BY <2>1, <2>2 DEF S!TypeOK, S!TLabel
<1>2. FetchedInv
  BY DEF FetchedInv
<1>3. PlaceInv
  BY DEF PlaceInv, S!Slot, S!BoardAssumption
<1>4. S!RingIsQueue
  BY DEF S!RingIsQueue
<1>5. QED
  BY <1>1, <1>2, <1>3, <1>4 DEF BoardInv

\* What leaves the ring alone leaves it a queue.
LEMMA RingUndisturbed ==
    ASSUME PlaceInv, S!RingIsQueue, UNCHANGED S!ringVars
    PROVE  PlaceInv' /\ S!RingIsQueue'
  BY DEF PlaceInv, S!RingIsQueue, S!ringVars, S!Slot

\* The steps around the ring, those of ScanLock and ScanDone included.
LEMMA OutsideStep ==
    ASSUME S!BoardAssumption, BoardInv,
           \/ S!Notify \/ S!UpdateWork \/ S!ScanLock \/ S!ScanDone
           \/ \E b \in Board : S!FillGet(b) \/ S!FillWrite(b) \/ S!Find(b)
    PROVE  BoardInv'
<1> USE DEF BoardInv
<1>1. UNCHANGED S!ringVars
  BY DEF S!Notify, S!UpdateWork, S!ScanLock, S!ScanDone, S!FillGet, S!FillWrite, S!Find
<1>2. PlaceInv' /\ S!RingIsQueue'
  BY <1>1, RingUndisturbed
<1>3. CASE S!Notify \/ S!UpdateWork \/ S!ScanLock \/ S!ScanDone
  <2>1. /\ UNCHANGED <<fpc, fetched, progress, packet, chips, line>>
        /\ bjob' \in Job /\ due' \in BOOLEAN /\ scanning' \in BOOLEAN
    BY <1>3 DEF S!Notify, S!UpdateWork, S!ScanLock, S!ScanDone, S!fillVars, S!TypeOK
  <2>2. S!TypeOK' /\ FetchedInv'
    BY <1>1, <2>1 DEF S!TypeOK, FetchedInv, S!ringVars
  <2>3. QED
    BY <1>2, <2>2
<1>4. ASSUME NEW b \in Board, S!FillGet(b)
      PROVE  S!TypeOK' /\ FetchedInv'
  BY <1>1, <1>4 DEF S!FillGet, S!TypeOK, FetchedInv, S!ringVars, S!TLabel
<1>5. ASSUME NEW b \in Board, S!FillWrite(b)
      PROVE  S!TypeOK' /\ FetchedInv'
  BY <1>1, <1>5 DEF S!FillWrite, S!TypeOK, FetchedInv, S!ringVars, S!TLabel
<1>6. ASSUME NEW b \in Board, S!Find(b)
      PROVE  S!TypeOK' /\ FetchedInv'
  BY <1>1, <1>6 DEF S!Find, S!TypeOK, FetchedInv, S!ringVars, S!fillVars
<1>7. QED
  BY <1>2, <1>3, <1>4, <1>5, <1>6

\* A new work makes the packets and nonces of its board old, wherever they are.
LEMMA HangStep ==
    ASSUME S!BoardAssumption, BoardInv, NEW b \in Board, S!FillHang(b)
    PROVE  BoardInv'
<1> USE DEF BoardInv
<1>1. UNCHANGED <<bjob, due, wr, rd, num, lost, scanning>>
  BY DEF S!FillHang
<1>2. fetched[b] \in Job
  BY DEF S!FillHang, FetchedInv
<1>3. /\ ring' = [i \in 0..Fifo - 1 |-> S!OldNonce(b, ring[i])]
      /\ pending' = [i \in 1..Len(pending) |-> S!OldNonce(b, pending[i])]
  BY DEF S!FillHang, S!TypeOK
<1>4. fpc' \in [Board -> S!TLabel] /\ progress' \in [Board -> BOOLEAN]
      /\ fetched' \in [Board -> Job \cup {None}]
  BY DEF S!FillHang, S!TypeOK, S!TLabel
<1>5. packet' \in [Board -> S!Packet \cup {None}]
  <2>1. [latest |-> TRUE, merkle |-> fetched[b], prev |-> bjob] \in S!Packet
    BY <1>2 DEF S!Packet, S!TypeOK
  <2>2. QED
    BY <2>1 DEF S!FillHang, S!TypeOK
<1>6. chips' \in [Board -> S!Packet \cup {None}] /\ line' \in [Board -> S!Packet \cup {None}]
  <2>1. S!Old(chips[b]) \in S!Packet \cup {None} /\ S!Old(line[b]) \in S!Packet \cup {None}
    BY OldTypes DEF S!TypeOK
  <2>2. QED
    BY <2>1 DEF S!FillHang, S!TypeOK
<1>7. ring' \in [0..Fifo - 1 -> S!Nonce \cup {None}]
  BY <1>3, OldTypes DEF S!TypeOK
<1>8. pending' \in Seq(S!Nonce) /\ Len(pending') = Len(pending)
  <2>1. Len(pending) \in Nat /\ \A i \in 1..Len(pending) : pending[i] \in S!Nonce
    BY DEF S!TypeOK
  <2>2. \A i \in 1..Len(pending) : S!OldNonce(b, pending[i]) \in S!Nonce
    BY <2>1, OldTypes
  <2>3. QED
    BY <1>3, <2>1, <2>2
<1>9. S!TypeOK'
  BY <1>1, <1>4, <1>5, <1>6, <1>7, <1>8 DEF S!TypeOK
<1>10. FetchedInv'
  BY DEF S!FillHang, FetchedInv, S!TypeOK
<1>11. PlaceInv'
  BY <1>1 DEF PlaceInv, S!Slot
<1>12. S!RingIsQueue'
  <2>1. SUFFICES ASSUME ~lost
                 PROVE  /\ num = Len(pending')
                        /\ \A i \in 1..num : ring'[S!Slot(rd, i)] = pending'[i]
    BY <1>1 DEF S!RingIsQueue, S!Slot
  <2>2. num = Len(pending) /\ \A i \in 1..num : ring[S!Slot(rd, i)] = pending[i]
    BY <2>1 DEF S!RingIsQueue
  <2>3. \A i \in 1..num : S!Slot(rd, i) \in 0..Fifo - 1
    <3>1. \A i \in 1..num : i \in 1..Fifo
      BY DEF S!TypeOK, S!BoardAssumption
    <3>2. QED
      BY <3>1, Slots DEF S!TypeOK
  <2>4. QED
    BY <1>3, <1>8, <2>2, <2>3
<1>13. QED
  BY <1>9, <1>10, <1>11, <1>12

\* A nonce is put behind the others, unless the ring is full.
LEMMA PushStep ==
    ASSUME S!BoardAssumption, BoardInv, NEW b \in Board, S!Push(b)
    PROVE  BoardInv'
<1> USE DEF BoardInv
<1> DEFINE n == [board |-> b, packet |-> line[b]]
<1>1. /\ UNCHANGED <<bjob, due, fpc, fetched, progress, packet, chips, rd, scanning>>
      /\ ring' = [ring EXCEPT ![wr] = n] /\ wr' = S!After(wr)
      /\ num' = IF num < Fifo THEN num + 1 ELSE num
      /\ lost' = (lost \/ num = Fifo)
      /\ pending' = IF lost' THEN <<>> ELSE Append(pending, n)
      /\ line' = [line EXCEPT ![b] = None]
  BY DEF S!Push, S!CountUpTo, S!fillVars
<1>2. n \in S!Nonce
  BY DEF S!Push, S!Nonce, S!TypeOK
<1> HIDE DEF n
<1>3. S!TypeOK'
  <2>1. ring' \in [0..Fifo - 1 -> S!Nonce \cup {None}]
    BY <1>1, <1>2 DEF S!TypeOK
  <2>2. wr' \in 0..Fifo - 1
    BY <1>1, Slots DEF S!TypeOK
  <2>3. num' \in 0..Fifo /\ lost' \in BOOLEAN
    BY <1>1 DEF S!TypeOK, S!BoardAssumption
  <2>4. pending' \in Seq(S!Nonce)
    BY <1>1, <1>2 DEF S!TypeOK
  <2>5. line' \in [Board -> S!Packet \cup {None}]
    BY <1>1 DEF S!TypeOK
  <2>6. QED
    BY <1>1, <2>1, <2>2, <2>3, <2>4, <2>5 DEF S!TypeOK
<1>4. FetchedInv'
  BY <1>1 DEF FetchedInv
<1>5. CASE lost'
  BY <1>3, <1>4, <1>5 DEF PlaceInv, S!RingIsQueue
<1>6. CASE ~lost'
  <2>1. ~lost /\ num < Fifo /\ num' = num + 1 /\ num \in Nat
        /\ pending' = Append(pending, n)
    <3>1. ~lost /\ num # Fifo
      BY <1>1, <1>6
    <3>2. num \in Nat /\ num < Fifo
      BY <3>1 DEF S!TypeOK, S!BoardAssumption
    <3>3. QED
      BY <1>1, <1>6, <3>1, <3>2
  <2>2. wr = S!Slot(rd, num + 1) /\ num = Len(pending)
    BY <2>1 DEF PlaceInv, S!RingIsQueue
  <2>3. num + 1 \in 1..Fifo
    BY <2>1 DEF S!BoardAssumption
  <2>4. wr' = S!Slot(rd, num' + 1)
    BY <1>1, <2>1, <2>2, <2>3, Slots DEF S!TypeOK
  <2>5. Len(pending') = num' /\ pending'[num'] = n
        /\ \A i \in 1..num : pending'[i] = pending[i]
    BY <1>2, <2>1, <2>2 DEF S!TypeOK
  <2>6. ring'[S!Slot(rd, num')] = n
    BY <1>1, <2>1, <2>2 DEF S!TypeOK
  <2>7. ASSUME NEW i \in 1..num
        PROVE  ring'[S!Slot(rd, i)] = pending'[i]
    <3>1. i \in 1..Fifo /\ i # num + 1
      BY <2>1 DEF S!BoardAssumption
    <3>2. S!Slot(rd, i) # wr /\ S!Slot(rd, i) \in 0..Fifo - 1
      BY <2>2, <2>3, <3>1, Slots DEF S!TypeOK
    <3>3. ring'[S!Slot(rd, i)] = ring[S!Slot(rd, i)]
      BY <1>1, <3>2 DEF S!TypeOK
    <3>4. QED
      BY <2>1, <2>5, <3>3 DEF S!RingIsQueue
  <2>8. \A i \in 1..num' : ring'[S!Slot(rd, i)] = pending'[i]
    <3>1. \A i \in 1..num' : i \in 1..num \/ i = num'
      BY <2>1
    <3>2. QED
      BY <2>5, <2>6, <2>7, <3>1
  <2>9. PlaceInv' /\ S!RingIsQueue'
    BY <1>1, <2>4, <2>5, <2>8 DEF PlaceInv, S!RingIsQueue, S!Slot
  <2>10. QED
    BY <1>3, <1>4, <2>9
<1>7. QED
  BY <1>5, <1>6

\* The nonce in front is taken.
LEMMA ScanStep ==
    ASSUME S!BoardAssumption, BoardInv, S!ScanNonce
    PROVE  BoardInv'
<1> USE DEF BoardInv
<1>1. /\ UNCHANGED <<bjob, due, fpc, fetched, packet, chips, line, ring, wr, lost, scanning>>
      /\ num > 0 /\ num' = num - 1 /\ rd' = S!After(rd)
      /\ pending' = IF lost THEN <<>> ELSE Tail(pending)
  BY DEF S!ScanNonce
<1>2. rd' \in 0..Fifo - 1 /\ num' \in 0..Fifo
  BY <1>1, Slots DEF S!TypeOK, S!BoardAssumption
<1>3. progress' \in [Board -> BOOLEAN]
  BY DEF S!ScanNonce, S!TypeOK
<1>4. CASE lost
  <2>1. pending' \in Seq(S!Nonce)
    BY <1>1, <1>4
  <2>2. QED
    BY <1>1, <1>2, <1>3, <1>4, <2>1 DEF S!TypeOK, FetchedInv, PlaceInv, S!RingIsQueue
<1>5. CASE ~lost
  <2>1. num = Len(pending) /\ \A i \in 1..num : ring[S!Slot(rd, i)] = pending[i]
    BY <1>5 DEF S!RingIsQueue
  <2>2. pending # <<>>
    BY <1>1, <2>1
  <2>3. /\ pending' \in Seq(S!Nonce) /\ Len(pending') = num'
        /\ \A i \in 1..num' : pending'[i] = pending[i + 1]
    BY <1>1, <1>5, <2>1, <2>2 DEF S!TypeOK
  <2>4. \A i \in 1..num' : i \in 1..Fifo /\ i + 1 \in 1..num
    BY <1>1 DEF S!TypeOK, S!BoardAssumption
  <2>5. ASSUME NEW i \in 1..num'
        PROVE  ring[S!Slot(rd', i)] = pending'[i]
    <3>1. S!Slot(rd', i) = S!Slot(rd, i + 1)
      BY <1>1, <2>4, Slots DEF S!TypeOK
    <3>2. ring[S!Slot(rd, i + 1)] = pending[i + 1]
      BY <2>1, <2>4
    <3>3. QED
      BY <2>3, <3>1, <3>2
  <2>6. wr = S!Slot(rd', num' + 1)
    <3>1. num \in 1..Fifo /\ num = num' + 1
      BY <1>1 DEF S!TypeOK, S!BoardAssumption
    <3>2. wr = S!Slot(rd, num + 1)
      BY <1>5 DEF PlaceInv
    <3>3. QED
      BY <1>1, <3>1, <3>2, Slots DEF S!TypeOK
  <2>7. S!TypeOK' /\ FetchedInv'
    BY <1>1, <1>2, <1>3, <2>3 DEF S!TypeOK, FetchedInv
  <2>8. PlaceInv' /\ S!RingIsQueue'
    BY <1>1, <2>3, <2>5, <2>6 DEF PlaceInv, S!RingIsQueue, S!Slot
  <2>9. QED
    BY <2>7, <2>8
<1>6. QED
  BY <1>4, <1>5

LEMMA NextBoardInv ==
    ASSUME S!BoardAssumption, BoardInv, [S!Next]_(S!vars)
    PROVE  BoardInv'
<1>1. CASE S!Next
  BY <1>1, OutsideStep, HangStep, PushStep, ScanStep DEF S!Next, S!Scan
<1>2. CASE UNCHANGED S!vars
  <2>1. UNCHANGED S!ringVars
    BY <1>2 DEF S!vars
  <2>2. S!TypeOK' /\ FetchedInv'
    BY <1>2 DEF S!vars, S!fillVars, S!ringVars, BoardInv, S!TypeOK, FetchedInv
  <2>3. QED
    BY <2>1, <2>2, RingUndisturbed DEF BoardInv
<1>3. QED
  BY <1>1, <1>2

\* The invariant holds in every state.
LEMMA BoardInvHolds ==
    ASSUME S!BoardAssumption
    PROVE  S!Spec => []BoardInv
<1>1. S!Init => BoardInv
  BY InitBoardInv
<1>2. BoardInv /\ [S!Next]_(S!vars) => BoardInv'
  BY NextBoardInv
<1>3. QED
  BY <1>1, <1>2, PTL DEF S!Spec

\* The types of the boards' variables, for any boards, jobs and length of the ring.
THEOREM BoardTypes ==
    ASSUME S!BoardAssumption
    PROVE  S!Spec => []S!TypeOK
<1>1. BoardInv => S!TypeOK
  BY DEF BoardInv
<1>2. QED
  BY <1>1, BoardInvHolds, PTL

\* Until it has been full, the ring of nonces is a queue, however the response threads
\* and the mining thread alternate and wherever it wraps.
THEOREM BoardRingIsQueue ==
    ASSUME S!BoardAssumption
    PROVE  S!Spec => []RingIsQueue
<1>1. BoardInv => RingIsQueue
  BY DEF BoardInv, RingIsQueue
<1>2. QED
  BY <1>1, BoardInvHolds, PTL

-----------------------------------------------------------------------------
(* The templates.                                                          *)

\* Who is about to send has looked up a pool, and knows its device.
LookedUpInv ==
    /\ \A d \in Device : loop[d] = "send" => lpool[d] \in Pool
    /\ rpc \in {"mark", "find", "send"} => rdev \in Device
    /\ rpc = "send" => rpool \in Pool

TemplateInv == T!TypeOK /\ LookedUpInv

LEMMA SendTypes ==
    ASSUME T!TypeOK, NEW d \in Device, NEW p \in Pool, T!Send(d, p)
    PROVE  given' \in [Device -> T!Template \cup {None}] /\ marked' \in [Device -> BOOLEAN]
<1>1. [pool |-> p, job |-> job[p]] \in T!Template
  BY DEF T!TypeOK, T!Template
<1>2. QED
  BY <1>1 DEF T!Send, T!Packages, T!TypeOK

LEMMA InitTemplateInv == T!Init => TemplateInv
  BY DEF T!Init, TemplateInv, T!TypeOK, LookedUpInv, T!LLabel, T!RLabel

LEMMA NextTemplateInv == TemplateInv /\ [T!Next]_(T!vars) => TemplateInv'
<1> SUFFICES ASSUME TemplateInv, [T!Next]_(T!vars)
             PROVE  TemplateInv'
  OBVIOUS
<1> USE DEF TemplateInv, LookedUpInv, T!poolVars, T!loopVars, T!rVars
<1>1. ASSUME NEW d \in Device, T!ScanDone(d) \/ T!Reset(d) \/ T!NoUpdate(d) \/ T!TakeUpdate(d)
      PROVE  TemplateInv'
  BY <1>1 DEF T!ScanDone, T!Reset, T!NoUpdate, T!TakeUpdate, T!TypeOK, T!LLabel
<1>2. ASSUME NEW d \in Device, T!UpdateMark(d) \/ T!UpdateFind(d)
      PROVE  TemplateInv'
  BY <1>2 DEF T!UpdateMark, T!UpdateFind, T!Mark, T!TypeOK, T!LLabel
<1>3. ASSUME NEW d \in Device, T!UpdateSend(d)
      PROVE  TemplateInv'
  <2>1. given' \in [Device -> T!Template \cup {None}] /\ marked' \in [Device -> BOOLEAN]
    BY <1>3, SendTypes DEF T!UpdateSend
  <2>2. QED
    BY <1>3, <2>1 DEF T!UpdateSend, T!TypeOK, T!LLabel
<1>4. CASE T!Main
  BY <1>4 DEF T!Main, T!MainRaise, T!MainPass, T!MainClear, T!TypeOK
<1>5. ASSUME NEW p \in Pool, T!Notify(p)
      PROVE  TemplateInv'
  BY <1>5 DEF T!Notify, T!TypeOK
<1>6. CASE T!NotifyTell \/ T!Switch
  BY <1>6 DEF T!NotifyTell, T!Switch, T!TypeOK
<1>7. CASE T!RestartThreads \/ T!RestartPick \/ T!RestartFind \/ T!RestartNext
  BY <1>7 DEF T!RestartThreads, T!RestartPick, T!RestartFind, T!RestartNext, T!TypeOK, T!RLabel
<1>8. CASE T!RestartMark
  BY <1>8 DEF T!RestartMark, T!Mark, T!TypeOK, T!RLabel
<1>9. CASE T!RestartSend
  <2>1. given' \in [Device -> T!Template \cup {None}] /\ marked' \in [Device -> BOOLEAN]
    BY <1>9, SendTypes DEF T!RestartSend
  <2>2. QED
    BY <1>9, <2>1 DEF T!RestartSend, T!TypeOK, T!RLabel
<1>10. CASE UNCHANGED T!vars
  BY <1>10 DEF T!vars, T!TypeOK
<1>11. QED
  BY <1>1, <1>2, <1>3, <1>4, <1>5, <1>6, <1>7, <1>8, <1>9, <1>10
     DEF T!Next, T!Thread, T!Restart

\* The types of the templates' variables: no thread sends without a pool.
THEOREM TemplateTypes == T!Spec => []T!TypeOK
<1>1. TemplateInv => T!TypeOK
  BY DEF TemplateInv
<1>2. QED
  BY <1>1, InitTemplateInv, NextTemplateInv, PTL DEF T!Spec

-----------------------------------------------------------------------------
(* The runs of MCDevices.                                                  *)

\* The steps of a component are its own, or leave its variables alone.
LEMMA EitherStep ==
    [EitherNext]_allVars => [Next]_vars /\ [T!Next]_(T!vars) /\ [S!Next]_(S!vars)
  BY DEF EitherNext, Control, Templates, OnBoard, allVars, vars, templateVars, boardVars,
         apiVars, lifeVars, dogVars, T!vars, T!poolVars, T!loopVars, T!rVars,
         S!vars, S!fillVars, S!ringVars

LEMMA EitherInv == EitherSpec => [](ControlInv /\ TemplateInv /\ BoardInv)
<1>1. EitherInit => ControlInv
  <2>1. ASSUME Parked
        PROVE  ControlInv
    <3>1. TypeOK
      <4>1. idle \in [Device -> 0..DeadTime + 1] /\ sem \in [Device -> Nat]
        BY <2>1, DeviceAssumption DEF Parked
      <4>2. QED
        BY <2>1, <4>1 DEF Parked, TypeOK, TLabel, WLabel, Status
    <3>2. QED
      BY <2>1, <3>1 DEF Parked, ControlInv, SleepsForReason
  <2>2. QED
    BY <2>1, InitControlInv DEF EitherInit
<1>2. EitherInit => TemplateInv /\ BoardInv
  BY RingAssumption, InitTemplateInv, InitBoardInv DEF EitherInit
<1>3. ControlInv /\ [EitherNext]_allVars => ControlInv'
  BY EitherStep, NextControlInv
<1>4. TemplateInv /\ BoardInv /\ [EitherNext]_allVars => (TemplateInv /\ BoardInv)'
  BY EitherStep, RingAssumption, NextTemplateInv, NextBoardInv
<1>5. QED
  BY <1>1, <1>2, <1>3, <1>4, PTL DEF EitherSpec

\* The types of all three components in their runs, for every value of the constants.
THEOREM DeviceRunTypes == EitherSpec => []TypesOK
<1>1. ControlInv /\ TemplateInv /\ BoardInv => TypesOK
  BY DEF ControlInv, TemplateInv, BoardInv, TypesOK
<1>2. QED
  BY <1>1, EitherInv, PTL

\* What else the runs of MCDevices check of every state.
THEOREM DeviceRunsAreSafe == EitherSpec => [](ParkedForReason /\ RingIsQueue)
<1>1. ControlInv /\ BoardInv => ParkedForReason /\ RingIsQueue
  BY DEF ControlInv, SleepsForReason, ParkedForReason, BoardInv, RingIsQueue
<1>2. QED
  BY <1>1, EitherInv, PTL
=============================================================================
