------------------------------ MODULE MCDevices ------------------------------
(***************************************************************************)
(* Small instances of three components in one run: a behaviour is one of   *)
(* DeviceControl, DeviceTemplates or S21Board, and the variables of the    *)
(* others stay as they are.  A device of DeviceControl stands still in the *)
(* other parts: its thread has ended.                                      *)
(***************************************************************************)
EXTENDS DeviceControl

CONSTANTS Pool, JobId, Job, Board, Fifo

VARIABLES
    part,           \* which of them this is
    curPool, job, notifier, optUpdate, mainpc, update, restart, marked, given, loop, lpool,
    rpc, rleft, rdev, rpool,
    bjob, due, fpc, fetched, progress, packet, chips, line, ring, wr, rd, num,
    scanning, pending, lost

T == INSTANCE DeviceTemplates WITH Job <- JobId
S == INSTANCE S21Board WITH tpc <- fpc, job <- bjob

ASSUME RingAssumption == S!BoardAssumption

templateVars == <<curPool, job, notifier, optUpdate, mainpc, update, restart, marked, given,
                  loop, lpool, rpc, rleft, rdev, rpool>>
boardVars == <<bjob, due, fpc, fetched, progress, packet, chips, line, ring, wr, rd, num,
               scanning, pending, lost>>
allVars == <<part, vars, templateVars, boardVars>>

Parked ==
    /\ deven = [d \in Device |-> FALSE] /\ pause = [d \in Device |-> FALSE]
    /\ sem = [d \in Device |-> 0] /\ tpc = [d \in Device |-> "gone"]
    /\ getwork = [d \in Device |-> FALSE] /\ idle = [d \in Device |-> 0]
    /\ status = [d \in Device |-> "init"]
    /\ posting = None /\ run = TRUE /\ schedPaused = FALSE
    /\ wpc = "sleep" /\ wleft = {} /\ wdev = None

EitherInit ==
    /\ T!Init /\ S!Init
    /\ \/ part = "control" /\ Init
       \/ part \in {"templates", "board"} /\ Parked
    /\ part = "templates" \/ /\ curPool = CHOOSE p \in Pool : TRUE
                             /\ job = [p \in Pool |-> CHOOSE j \in JobId : TRUE]
    /\ part = "board" \/ bjob = CHOOSE j \in Job : TRUE

Control == part = "control" /\ UNCHANGED <<part, templateVars, boardVars>>
Templates == part = "templates" /\ UNCHANGED <<part, vars, boardVars>>
OnBoard == part = "board" /\ UNCHANGED <<part, vars, templateVars>>

EitherNext ==
    \/ Control /\ Next
    \/ Templates /\ T!Next
    \/ OnBoard /\ S!Next

EitherFairness ==
    /\ \A d \in Device :
        /\ WF_vars(part = "control" /\ Thread(d)) /\ WF_vars(part = "control" /\ AscPost(d))
        /\ WF_templateVars(part = "templates" /\ T!Thread(d))
    /\ WF_vars(part = "control" /\ Watchdog) /\ WF_vars(part = "control" /\ Tick)
    /\ WF_templateVars(part = "templates" /\ T!NotifyTell)
    /\ WF_templateVars(part = "templates" /\ T!Main)
    /\ WF_templateVars(part = "templates" /\ T!Restart)
    /\ WF_boardVars(part = "board" /\ S!UpdateWork) /\ WF_boardVars(part = "board" /\ S!Scan)
    /\ \A b \in Board :
        /\ WF_boardVars(part = "board" /\ S!FillGet(b))
        /\ SF_boardVars(part = "board" /\ S!FillHang(b))
        /\ WF_boardVars(part = "board" /\ S!FillWrite(b))

EitherSpec == EitherInit /\ [][EitherNext]_allVars /\ EitherFairness

-----------------------------------------------------------------------------
\* The properties of the two other modules, which state and explain them.

\* The types of all three.
TypesOK == TypeOK /\ T!TypeOK /\ S!TypeOK

\* An update that has reached the mining thread is not lost.
RaisedReaches == part = "templates" => T!RaisedReaches

\* The ring of nonces is a queue.
RingIsQueue == S!RingIsQueue

\* The job that stays gets to the chips.
SettledJobIsMined == part = "board" => S!SettledJobIsMined
=============================================================================
