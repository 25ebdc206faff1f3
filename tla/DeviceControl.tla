----------------------------- MODULE DeviceControl -----------------------------
(***************************************************************************)
(* Who may stop a mining thread, who lets it run again, and who says that  *)
(* its device is sick.  A device thread runs hash_driver_work, the loop of *)
(* every driver in the tree, and sleeps on its semaphore while its device  *)
(* is disabled or paused.  The API enables and disables devices, the       *)
(* watchdog pauses and resumes them by the schedule, and judges the life   *)
(* of a device by the time since its thread last reported.                 *)
(*                                                                         *)
(* Nothing is locked: a step is what a thread does between two accesses of *)
(* shared state that another may interleave.  A device has one thread.     *)
(***************************************************************************)
EXTENDS Naturals

CONSTANTS
    Device,
    SickTime,       \* WATCHDOG_SICK_TIME, in units of the clock
    DeadTime,       \* WATCHDOG_DEAD_TIME
    MaxPosts,       \* bound on the posts that others leave in a semaphore
    None

ASSUME DeviceAssumption ==
    /\ SickTime \in Nat /\ DeadTime \in Nat /\ SickTime < DeadTime
    /\ MaxPosts \in Nat \ {0}
    /\ None \notin Device

VARIABLES
    deven,          \* deven[d]: DEV_ENABLED
    pause,          \* thr->pause
    sem,            \* the count of thr->sem
    tpc,            \* the device thread
    getwork,        \* thr->getwork
    idle,           \* the time since thr->last
    status,         \* cgpu->status
    posting,        \* the device ascenable is about to post for, or None
    run,            \* what should_run() answers
    schedPaused,    \* sched_paused
    wpc,            \* the watchdog
    wleft,          \* the devices its loop has not come to yet
    wdev            \* the device it is about to post for, or None

apiVars == <<posting>>
lifeVars == <<getwork, idle, status>>
dogVars == <<schedPaused, wpc, wleft, wdev>>
vars == <<deven, pause, sem, tpc, lifeVars, apiVars, run, dogVars>>

TLabel == {"init", "armed", "scan", "check", "parked", "gone"}
WLabel == {"sleep", "schedule", "resume", "devices"}
Status == {"init", "well", "sick", "dead"}

\* main: a device that is not disabled gets one post; cgpu->status is LIFE_INIT.
Init ==
    /\ deven \in [Device -> BOOLEAN]
    /\ pause = [d \in Device |-> FALSE]
    /\ sem = [d \in Device |-> IF deven[d] THEN 1 ELSE 0]
    /\ tpc = [d \in Device |-> "init"]
    /\ getwork = [d \in Device |-> FALSE]
    /\ idle = [d \in Device |-> 0]
    /\ status = [d \in Device |-> "init"]
    /\ posting = None
    /\ run = TRUE /\ schedPaused = FALSE
    /\ wpc = "sleep" /\ wleft = {} /\ wdev = None

-----------------------------------------------------------------------------
(* The thread of device d.                                                 *)

\* thread_reportout; thread_init succeeds, or the thread ends.
ThreadInit(d) ==
    /\ tpc[d] = "init"
    /\ tpc' \in {[tpc EXCEPT ![d] = l] : l \in {"armed", "gone"}}
    /\ getwork' = [getwork EXCEPT ![d] = TRUE]
    /\ idle' = [idle EXCEPT ![d] = 0]
    /\ status' = [status EXCEPT ![d] = "well"]
    /\ UNCHANGED <<deven, pause, sem, apiVars, run, dogVars>>

\* A cgsem_wait that returns although nothing was posted.
SemWaitAny(d) ==
    /\ tpc[d] \in {"armed", "parked"}
    /\ sem' = [sem EXCEPT ![d] = @ - 1]
    /\ tpc' = [tpc EXCEPT ![d] = "scan"]
    /\ UNCHANGED <<deven, pause, lifeVars, apiVars, run, dogVars>>

\* cgsem_wait: in miner_thread once, in mt_disable from then on.
SemWait(d) ==
    /\ tpc[d] \in {"armed", "parked"} /\ sem[d] > 0
    /\ sem' = [sem EXCEPT ![d] = @ - 1]
    /\ tpc' = [tpc EXCEPT ![d] = "scan"]
    /\ UNCHANGED <<deven, pause, lifeVars, apiVars, run, dogVars>>

\* A get_work that the driver's threads call with this thr_info begins, and waits.
GetWorkOut(d) ==
    /\ tpc[d] \in {"scan", "check", "parked"} /\ ~getwork[d]
    /\ getwork' = [getwork EXCEPT ![d] = TRUE]
    /\ idle' = [idle EXCEPT ![d] = 0]
    /\ status' = [status EXCEPT ![d] = "well"]
    /\ UNCHANGED <<deven, pause, sem, tpc, apiVars, run, dogVars>>

\* It ends.
GetWorkIn(d) ==
    /\ tpc[d] \in {"scan", "check", "parked"} /\ getwork[d]
    /\ getwork' = [getwork EXCEPT ![d] = FALSE]
    /\ idle' = [idle EXCEPT ![d] = 0]
    /\ status' = [status EXCEPT ![d] = "well"]
    /\ UNCHANGED <<deven, pause, sem, tpc, apiVars, run, dogVars>>

\* scanwork returns; hashmeter, when there is something to report.
ScanDone(d) ==
    /\ tpc[d] = "scan" /\ tpc' = [tpc EXCEPT ![d] = "check"]
    /\ idle' \in {idle, [idle EXCEPT ![d] = 0]}
    /\ UNCHANGED <<deven, pause, sem, getwork, status, apiVars, run, dogVars>>

\* scanwork fails: the device is disabled and its thread ends.
ScanFailed(d) ==
    /\ tpc[d] = "scan" /\ tpc' = [tpc EXCEPT ![d] = "gone"]
    /\ deven' = [deven EXCEPT ![d] = FALSE]
    /\ UNCHANGED <<pause, sem, lifeVars, apiVars, run, dogVars>>

\* A loop that looks at its device only.
CheckDeviceOnly(d) ==
    /\ tpc[d] = "check"
    /\ tpc' = [tpc EXCEPT ![d] = IF deven[d] THEN "scan" ELSE "parked"]
    /\ UNCHANGED <<deven, pause, sem, lifeVars, apiVars, run, dogVars>>

\* if(thr->pause || cgpu->deven != DEV_ENABLED) mt_disable.
Check(d) ==
    /\ tpc[d] = "check"
    /\ tpc' = [tpc EXCEPT ![d] = IF pause[d] \/ ~deven[d] THEN "parked" ELSE "scan"]
    /\ UNCHANGED <<deven, pause, sem, lifeVars, apiVars, run, dogVars>>

Thread(d) == ThreadInit(d) \/ SemWait(d) \/ ScanDone(d) \/ Check(d)

-----------------------------------------------------------------------------
(* The API: one thread, one command at a time.                             *)

\* ascenable, only of a disabled device.  MaxPosts bounds the commands, not the code.
AscEnable(d) ==
    /\ posting = None /\ ~deven[d] /\ sem[d] < MaxPosts
    /\ deven' = [deven EXCEPT ![d] = TRUE] /\ posting' = d
    /\ UNCHANGED <<pause, sem, tpc, lifeVars, run, dogVars>>

\* A command that enables the device and wakes no one.
AscForgetPost(d) ==
    /\ posting = d /\ posting' = None
    /\ UNCHANGED <<deven, pause, sem, tpc, lifeVars, run, dogVars>>

\* cgsem_post, after deven was set.
AscPost(d) ==
    /\ posting = d /\ posting' = None
    /\ sem' = [sem EXCEPT ![d] = @ + 1]
    /\ UNCHANGED <<deven, pause, tpc, lifeVars, run, dogVars>>

AscDisable(d) ==
    /\ posting = None /\ deven[d]
    /\ deven' = [deven EXCEPT ![d] = FALSE]
    /\ UNCHANGED <<pause, sem, tpc, lifeVars, apiVars, run, dogVars>>

-----------------------------------------------------------------------------
(* The watchdog.                                                           *)

WSleep ==
    /\ wpc = "sleep" /\ wpc' = "schedule"
    /\ UNCHANGED <<deven, pause, sem, tpc, lifeVars, apiVars, run, schedPaused, wleft, wdev>>

\* The stop time has passed: every thread is paused.
WPause ==
    /\ wpc = "schedule" /\ ~schedPaused /\ ~run
    /\ schedPaused' = TRUE
    /\ pause' = [d \in Device |-> TRUE]
    /\ wpc' = "devices" /\ wleft' = Device
    /\ UNCHANGED <<deven, sem, tpc, lifeVars, apiVars, run, wdev>>

\* The start time has passed.
WResume ==
    /\ wpc = "schedule" /\ schedPaused /\ run
    /\ schedPaused' = FALSE
    /\ wpc' = "resume" /\ wleft' = Device
    /\ UNCHANGED <<deven, pause, sem, tpc, lifeVars, apiVars, run, wdev>>

WNoChange ==
    /\ wpc = "schedule" /\ schedPaused = ~run
    /\ wpc' = "devices" /\ wleft' = Device
    /\ UNCHANGED <<deven, pause, sem, tpc, lifeVars, apiVars, run, schedPaused, wdev>>

\* The resuming loop skips disabled devices, whose pause stays set.
WResumeDevice ==
    /\ wpc = "resume" /\ wdev = None
    /\ \E d \in wleft :
        /\ wleft' = wleft \ {d}
        /\ IF deven[d]
           THEN pause' = [pause EXCEPT ![d] = FALSE] /\ wdev' = d
           ELSE UNCHANGED <<pause, wdev>>
    /\ UNCHANGED <<deven, sem, tpc, lifeVars, apiVars, run, schedPaused, wpc>>

\* Its cgsem_post, after pause was cleared.
WPost ==
    /\ wpc = "resume" /\ wdev # None /\ wdev' = None
    /\ sem' = [sem EXCEPT ![wdev] = @ + 1]
    /\ UNCHANGED <<deven, pause, tpc, lifeVars, apiVars, run, schedPaused, wpc, wleft>>

WResumed ==
    /\ wpc = "resume" /\ wdev = None /\ wleft = {}
    /\ wpc' = "devices" /\ wleft' = Device
    /\ UNCHANGED <<deven, pause, sem, tpc, lifeVars, apiVars, run, schedPaused, wdev>>

\* One that judges the states in the other order, so that a sick device stays sick.
VerdictOnce(d) ==
    IF status[d] # "well" /\ idle[d] < SickTime THEN "well"
    ELSE IF status[d] \in {"well", "sick"} /\ idle[d] > SickTime THEN "sick"
    ELSE status[d]

\* The verdict on a device whose thread neither waits for work nor may stand still.
Verdict(d) ==
    IF status[d] # "well" /\ idle[d] < SickTime THEN "well"
    ELSE IF status[d] = "well" /\ idle[d] > SickTime THEN "sick"
    ELSE IF status[d] = "sick" /\ idle[d] > DeadTime THEN "dead"
    ELSE status[d]

WJudge ==
    /\ wpc = "devices"
    /\ \E d \in wleft :
        /\ wleft' = wleft \ {d}
        /\ status' = IF getwork[d] \/ ~deven[d] \/ pause[d]
                     THEN status ELSE [status EXCEPT ![d] = Verdict(d)]
    /\ UNCHANGED <<deven, pause, sem, tpc, getwork, idle, apiVars, run, schedPaused, wpc, wdev>>

WRoundDone ==
    /\ wpc = "devices" /\ wleft = {} /\ wpc' = "sleep"
    /\ UNCHANGED <<deven, pause, sem, tpc, lifeVars, apiVars, run, schedPaused, wleft, wdev>>

Watchdog ==
    \/ WSleep \/ WPause \/ WResume \/ WNoChange
    \/ WResumeDevice \/ WPost \/ WResumed \/ WJudge \/ WRoundDone

-----------------------------------------------------------------------------
(* Time.                                                                   *)

Tick ==
    /\ idle' = [d \in Device |-> IF idle[d] > DeadTime THEN idle[d] ELSE idle[d] + 1]
    /\ UNCHANGED <<deven, pause, sem, tpc, getwork, status, apiVars, run, dogVars>>

\* The time of day passes a start or a stop time.  MaxPosts bounds the changes.
Schedule ==
    /\ \A d \in Device : sem[d] < MaxPosts
    /\ run' = ~run
    /\ UNCHANGED <<deven, pause, sem, tpc, lifeVars, apiVars, dogVars>>

Next ==
    \/ \E d \in Device :
        \/ Thread(d) \/ ScanFailed(d) \/ GetWorkOut(d) \/ GetWorkIn(d)
        \/ AscEnable(d) \/ AscPost(d) \/ AscDisable(d)
    \/ Watchdog \/ Tick \/ Schedule

\* Threads, the watchdog, a command once begun and time go on.  Nothing is assumed
\* of commands, of the schedule, of get_work, or of how often scanwork reports.
Fairness ==
    /\ \A d \in Device : WF_vars(Thread(d)) /\ WF_vars(AscPost(d))
    /\ WF_vars(Watchdog) /\ WF_vars(Tick)

Spec == Init /\ [][Next]_vars /\ Fairness

-----------------------------------------------------------------------------
(* Properties.                                                             *)

TypeOK ==
    /\ deven \in [Device -> BOOLEAN] /\ pause \in [Device -> BOOLEAN]
    /\ sem \in [Device -> Nat] /\ tpc \in [Device -> TLabel]
    /\ getwork \in [Device -> BOOLEAN] /\ idle \in [Device -> 0..DeadTime + 1]
    /\ status \in [Device -> Status] /\ posting \in Device \cup {None}
    /\ run \in BOOLEAN /\ schedPaused \in BOOLEAN
    /\ wpc \in WLabel /\ wleft \subseteq Device /\ wdev \in Device \cup {None}

\* A thread that sleeps on its semaphore with no post left and none on the way is
\* one whose device is disabled or paused: no wakeup of ascenable or of the
\* schedule is lost, whatever the thread was doing when it was given.
ParkedForReason ==
    \A d \in Device :
        (tpc[d] \in {"armed", "parked"} /\ sem[d] = 0 /\ posting # d /\ wdev # d)
            => ~deven[d] \/ pause[d]

\* Posts that were not needed only cost rounds of the loop: a device that stays
\* disabled, or stays paused while no command posts for it, stops for good.
StoppedStays ==
    \A d \in Device :
        (<>[]~deven[d] \/ <>[](pause[d] /\ posting # d))
            => <>[](tpc[d] \in {"armed", "parked", "gone"})

\* A device that stays enabled and not paused scans again and again, unless its
\* thread has ended.
EnabledRuns ==
    \A d \in Device :
        <>[](deven[d] /\ ~pause[d]) => ([]<>(tpc[d] = "scan") \/ <>[](tpc[d] = "gone"))

\* A device that is enabled for good, and resumed by the schedule again and again, scans
\* again and again, or its thread has ended.  (The resuming loop skips a device that is
\* disabled then, and ascenable leaves its pause set: such a device stands still,
\* enabled and in time of the schedule, until the next stop and start let it run.)
ResumeReaches ==
    \A d \in Device :
        (<>[]deven[d] /\ []<>(wpc = "resume"))
            => ([]<>(tpc[d] = "scan") \/ <>[](tpc[d] = "gone"))

\* A mining thread stands still when told to, and runs when told to: these three.
RunsAsTold == StoppedStays /\ EnabledRuns /\ ResumeReaches

\* A device that may run, waits for no work and reports no more is declared dead
\* in the end, by way of sick.
SilentIsDead ==
    \A d \in Device :
        <>[](deven[d] /\ ~pause[d] /\ ~getwork[d] /\ idle[d] > 0) => <>[](status[d] = "dead")
=============================================================================
