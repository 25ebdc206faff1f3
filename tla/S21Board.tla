------------------------------- MODULE S21Board -------------------------------
(***************************************************************************)
(* The work and the nonces of the boards of the S21 driver.  A board's     *)
(* fill_work thread asks for a work, hangs it in the board as its work in  *)
(* progress and writes a packet made of it to the chips.  Its response     *)
(* thread takes the nonces the chips find from the line and puts them in a *)
(* ring that all boards share.  s21_scanwork, the mining thread's, empties *)
(* the ring, holding both mutexes, and tries each nonce on the work its    *)
(* board has in progress by then; the first share frees that work.         *)
(*                                                                         *)
(* The packet takes merkle root and time from the work, but the previous   *)
(* block, the difficulty bits and the version from what the work's pool    *)
(* has at that moment.  While the device is disabled or paused, no one     *)
(* empties the ring.                                                       *)
(*                                                                         *)
(* A packet, and a nonce, is the work it was made of, as far as it matters *)
(* here: the one in progress or an older one.  Register answers, which     *)
(* share the line with the nonces, and the writes of settings are left     *)
(* out; no board is enabled or disabled at run time.                       *)
(***************************************************************************)
EXTENDS Naturals, Sequences

CONSTANTS
    Board,
    Job,            \* jobs of the pool
    Fifo,           \* MAX_NONCE_NUMBER_IN_FIFO
    None

BoardAssumption ==
    /\ Fifo \in Nat \ {0}
    /\ None \notin Job

VARIABLES
    job,            \* the pool's job: prev_hash, nbit and header_bin
    due,            \* the boards' work_update_interval has been set
    tpc,            \* the fill_work threads
    fetched,        \* fetched[b]: the job new_work was made of
    progress,       \* progress[b]: there is a work_in_progress
    packet,         \* packet[b]: workdata, or None
    chips,          \* chips[b]: the packet the chips work on, or None
    line,           \* line[b]: the nonce the response thread has read, or None
    ring,           \* nonce_data, None where never written
    wr, rd, num,    \* p_wr, p_rd, nonce_num
    scanning,       \* s21_scanwork holds the mutexes
    pending,        \* the nonces that have been put in the ring and not been tried
    lost            \* a nonce not tried has been written over

fillVars == <<due, tpc, fetched, progress, packet, chips>>
ringVars == <<ring, wr, rd, num, pending, lost>>
vars == <<job, fillVars, line, ringVars, scanning>>

TLabel == {"get", "hang", "write"}
Packet == [latest : BOOLEAN, merkle : Job, prev : Job]
Nonce == [board : Board, packet : Packet]

Init ==
    /\ job \in Job /\ due = FALSE
    /\ tpc = [b \in Board |-> "get"] /\ fetched = [b \in Board |-> None]
    /\ progress = [b \in Board |-> FALSE] /\ packet = [b \in Board |-> None]
    /\ chips = [b \in Board |-> None] /\ line = [b \in Board |-> None]
    /\ ring = [i \in 0..Fifo - 1 |-> None]
    /\ wr = 0 /\ rd = 0 /\ num = 0
    /\ scanning = FALSE /\ pending = <<>> /\ lost = FALSE

-----------------------------------------------------------------------------
(* The pool, and the first update_work of the driver.                      *)

Notify ==
    /\ job' \in Job \ {job}
    /\ UNCHANGED <<fillVars, line, ringVars, scanning>>

\* s21_update_work, which then becomes s21_update_work_stub.
UpdateWork ==
    /\ ~due /\ due' = TRUE
    /\ UNCHANGED <<job, tpc, fetched, progress, packet, chips, line, ringVars, scanning>>

-----------------------------------------------------------------------------
(* The fill_work thread of board b.                                        *)

\* get_work, when the interval has passed: a work of the job of the moment.
FillGet(b) ==
    /\ tpc[b] = "get" /\ due /\ tpc' = [tpc EXCEPT ![b] = "hang"]
    /\ fetched' = [fetched EXCEPT ![b] = job]
    /\ UNCHANGED <<job, due, progress, packet, chips, line, ringVars, scanning>>

\* What a packet or nonce p is when another work is in progress.
Old(p) == IF p = None THEN None ELSE [p EXCEPT !.latest = FALSE]
OldNonce(b, n) == IF n # None /\ n.board = b THEN [n EXCEPT !.packet = Old(@)] ELSE n

\* Under works_mutex: the old work is freed, the new one hung in, the packet made.
FillHang(b) ==
    /\ tpc[b] = "hang" /\ ~scanning /\ tpc' = [tpc EXCEPT ![b] = "write"]
    /\ progress' = [progress EXCEPT ![b] = TRUE]
    /\ fetched' = [fetched EXCEPT ![b] = None]
    /\ packet' = [packet EXCEPT ![b] = [latest |-> TRUE, merkle |-> fetched[b], prev |-> job]]
    /\ chips' = [chips EXCEPT ![b] = Old(@)]
    /\ line' = [line EXCEPT ![b] = Old(@)]
    /\ ring' = [i \in DOMAIN ring |-> OldNonce(b, ring[i])]
    /\ pending' = [i \in DOMAIN pending |-> OldNonce(b, pending[i])]
    /\ UNCHANGED <<job, due, wr, rd, num, lost, scanning>>

\* One that writes only when the board has worked on nothing.
FillWriteFirst(b) ==
    /\ tpc[b] = "write" /\ tpc' = [tpc EXCEPT ![b] = "get"]
    /\ chips' = IF chips[b] = None THEN [chips EXCEPT ![b] = packet[b]] ELSE chips
    /\ packet' = [packet EXCEPT ![b] = None]
    /\ UNCHANGED <<job, due, fetched, progress, line, ringVars, scanning>>

FillWrite(b) ==
    /\ tpc[b] = "write" /\ tpc' = [tpc EXCEPT ![b] = "get"]
    /\ chips' = [chips EXCEPT ![b] = packet[b]]
    /\ packet' = [packet EXCEPT ![b] = None]
    /\ UNCHANGED <<job, due, fetched, progress, line, ringVars, scanning>>

-----------------------------------------------------------------------------
(* The nonces.                                                             *)

\* The chips find one, and the response thread reads it.
Find(b) ==
    /\ chips[b] # None /\ line[b] = None
    /\ line' = [line EXCEPT ![b] = chips[b]]
    /\ UNCHANGED <<job, fillVars, ringVars, scanning>>

\* One that goes round too early.
AfterEarly(i) == IF i + 2 >= Fifo THEN 0 ELSE i + 1

After(i) == IF i + 1 >= Fifo THEN 0 ELSE i + 1

CountUpTo == num' = IF num < Fifo THEN num + 1 ELSE num

\* Under nonce_fifo_mutex.  A full ring is written over at p_wr, and p_rd stays.
Push(b) ==
    LET n == [board |-> b, packet |-> line[b]] IN
    /\ line[b] # None /\ ~scanning
    /\ ring' = [ring EXCEPT ![wr] = n]
    /\ wr' = After(wr) /\ CountUpTo
    /\ lost' = (lost \/ num = Fifo)
    /\ pending' = IF lost' THEN <<>> ELSE Append(pending, n)
    /\ line' = [line EXCEPT ![b] = None]
    /\ UNCHANGED <<job, fillVars, rd, scanning>>

ScanLock ==
    /\ ~scanning /\ scanning' = TRUE
    /\ UNCHANGED <<job, fillVars, line, ringVars>>

\* submit_nonce: a nonce is a share of the work in progress only if its packet was
\* made of this work, and of one job.
IsShare(n) == n.packet.latest /\ n.packet.merkle = n.packet.prev

\* One round of the loop.  A share frees the work, so that what else is found on it
\* is dropped; another nonce is a hardware error, and the work stays.
ScanNonce ==
    LET n == ring[rd] IN
    /\ scanning /\ num > 0 /\ num' = num - 1 /\ rd' = After(rd)
    /\ progress' = IF IsShare(n) THEN [progress EXCEPT ![n.board] = FALSE] ELSE progress
    /\ pending' = IF lost THEN <<>> ELSE Tail(pending)
    /\ UNCHANGED <<job, due, tpc, fetched, packet, chips, line, ring, wr, lost, scanning>>

ScanDone ==
    /\ scanning /\ num = 0 /\ scanning' = FALSE
    /\ UNCHANGED <<job, fillVars, line, ringVars>>

Scan == ScanNonce \/ ScanDone

Next ==
    \/ Notify \/ UpdateWork
    \/ \E b \in Board : FillGet(b) \/ FillHang(b) \/ FillWrite(b) \/ Find(b) \/ Push(b)
    \/ ScanLock \/ Scan

\* The threads go on, a mutex is had in the end, get_work returns, and update_work is
\* called once.  Whether the mining thread scans at all is DeviceControl's matter.
Fairness ==
    /\ WF_vars(UpdateWork) /\ WF_vars(Scan)
    /\ \A b \in Board : WF_vars(FillGet(b)) /\ SF_vars(FillHang(b)) /\ WF_vars(FillWrite(b))

Spec == Init /\ [][Next]_vars /\ Fairness

-----------------------------------------------------------------------------
(* Properties.                                                             *)

TypeOK ==
    /\ job \in Job /\ due \in BOOLEAN /\ tpc \in [Board -> TLabel]
    /\ fetched \in [Board -> Job \cup {None}] /\ progress \in [Board -> BOOLEAN]
    /\ packet \in [Board -> Packet \cup {None}] /\ chips \in [Board -> Packet \cup {None}]
    /\ line \in [Board -> Packet \cup {None}]
    /\ ring \in [0..Fifo - 1 -> Nonce \cup {None}]
    /\ wr \in 0..Fifo - 1 /\ rd \in 0..Fifo - 1 /\ num \in 0..Fifo
    /\ scanning \in BOOLEAN /\ pending \in Seq(Nonce) /\ lost \in BOOLEAN

\* The k-th place, from 1 on, of the ring read from place r on.
Slot(r, k) == IF r + k > Fifo THEN r + k - 1 - Fifo ELSE r + k - 1

\* What lies in the ring from p_rd on is what has been put in and not been tried, in
\* this order, whichever boards put it there and wherever the ring wraps; until
\* the ring has once been full: from then on p_rd and p_wr are apart for good.
RingIsQueue ==
    ~lost => /\ num = Len(pending)
             /\ \A i \in 1..num : ring[Slot(rd, i)] = pending[i]

\* A nonce that is no share because its packet mixes two jobs is not tried for ever:
\* if the pool's job stays, each board's chips get, in the end, packets of this job
\* only, however the notify fell between get_work and the making of the packet.
SettledJobIsMined ==
    \A j \in Job, b \in Board :
        <>[](job = j) => <>[](chips[b] # None /\ chips[b].merkle = j /\ chips[b].prev = j)
=============================================================================
