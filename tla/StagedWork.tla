------------------------------ MODULE StagedWork ------------------------------
(***************************************************************************)
(* The queue of staged work between the main scheduler, which makes work   *)
(* and sleeps on gws_cond while there is enough of it, and the device      *)
(* threads, which take it in hash_pop and sleep on getq->cond while there  *)
(* is none.  A notify of the pool makes the work staged before it stale; a *)
(* lost connection clears it; restart threads and watchdog discard it.     *)
(*                                                                         *)
(* Both condition variables go with stgd_lock, so what a thread does from  *)
(* one wait (or lock) to the next (or unlock) is one step.  One pool is    *)
(* mined for; which one, and when it is usable, is PoolConnection's matter.*)
(* Work that grows old (max_expiry) and clones of rollable work are left   *)
(* out.                                                                    *)
(***************************************************************************)
EXTENDS Naturals, FiniteSets

CONSTANTS
    Miner,          \* the device threads that call get_work
    Work,           \* blocks of memory for struct work
    Job,            \* values of swork.job_id
    MaxQueue,       \* max_queue
    None            \* NULL

ASSUME StagedAssumption ==
    /\ IsFiniteSet(Work) /\ None \notin Work /\ Job # {}
    /\ MaxQueue \in Nat \ {0}

VARIABLES
    staged,         \* staged_work
    allocated,      \* made by make_work, not yet freed
    wjob,           \* wjob[w]: work->job_id
    job,            \* the job of the last notify
    active,         \* stratum_active and stratum_notify
    spc,            \* the main scheduler
    swork,          \* its variable work
    mpc,            \* the device threads
    mwork           \* mwork[m]: the work m has taken

workVars == <<staged, allocated, wjob>>
poolVars == <<job, active>>
vars == <<workVars, poolVars, spc, swork, mpc, mwork>>

SLabel == {"top", "wait", "woken", "spare", "make", "stage"}
MLabel == {"ask", "wait", "woken", "test", "wake", "mine"}

Init ==
    /\ staged = {} /\ allocated = {}
    /\ job \in Job /\ active = TRUE
    /\ wjob = [w \in Work |-> job]
    /\ spc = "top" /\ swork = None
    /\ mpc = [m \in Miner |-> "ask"] /\ mwork = [m \in Miner |-> None]

\* stale_work(work, false).
Stale(w) == ~active \/ wjob[w] # job

\* pthread_cond_signal(&gws_cond): the scheduler is the only thread that waits.
SignalScheduler(pc) == IF pc = "wait" THEN "woken" ELSE pc

\* pthread_cond_signal(&getq->cond) and pthread_cond_broadcast.
SignalMiner(pcs) ==
    LET waiting == {m \in Miner : pcs[m] = "wait"} IN
    IF waiting = {} THEN {pcs} ELSE {[pcs EXCEPT ![m] = "woken"] : m \in waiting}

BroadcastMiners(pcs) == [m \in Miner |-> IF pcs[m] = "wait" THEN "woken" ELSE pcs[m]]

-----------------------------------------------------------------------------
(* The main scheduler.                                                     *)

\* More than enough is staged: wait on gws_cond.
STop ==
    /\ spc = "top"
    /\ spc' = IF Cardinality(staged) > MaxQueue THEN "wait" ELSE "make"
    /\ UNCHANGED <<workVars, poolVars, swork, mpc, mwork>>

SSpuriousWake ==
    /\ spc = "wait" /\ spc' = "woken"
    /\ UNCHANGED <<workVars, poolVars, swork, mpc, mwork>>

\* One that takes any wakeup for room in the queue.
SWokenTrusts ==
    /\ spc = "woken" /\ spc' = "make"
    /\ UNCHANGED <<workVars, poolVars, swork, mpc, mwork>>

\* Woken, it counts again.
SWoken ==
    /\ spc = "woken"
    /\ spc' = IF Cardinality(staged) > MaxQueue THEN "spare" ELSE "make"
    /\ UNCHANGED <<workVars, poolVars, swork, mpc, mwork>>

\* Still more than enough: hash_pop(false), and the work is discarded.
SSpareNothing ==
    /\ spc = "spare" /\ staged = {}
    /\ spc' = "top" /\ swork' = None
    /\ UNCHANGED <<workVars, poolVars, mpc, mwork>>

SSpare ==
    /\ spc = "spare" /\ spc' = "top" /\ swork' = None
    /\ \E w \in staged : staged' = staged \ {w} /\ allocated' = allocated \ {w}
    /\ mpc' \in SignalMiner(mpc)
    /\ UNCHANGED <<wjob, poolVars, mwork>>

\* What the last round left in work is discarded; make_work, select_pool until
\* the pool is usable, gen_stratum_work.
SMake ==
    LET kept == allocated \ {swork}
        w == CHOOSE x \in Work \ kept : TRUE
    IN  /\ Work \ kept # {} /\ active
        /\ spc = "make" /\ spc' = "stage"
        /\ allocated' = kept \cup {w}
        /\ swork' = w
        /\ wjob' = [wjob EXCEPT ![w] = job]
        /\ UNCHANGED <<staged, poolVars, mpc, mwork>>

\* stage_work without the line that clears its argument.
SStageKeeps ==
    /\ spc = "stage" /\ spc' = "top"
    /\ staged' = staged \cup {swork}
    /\ mpc' = BroadcastMiners(mpc)
    /\ UNCHANGED <<allocated, wjob, poolVars, swork, mwork>>

\* hash_push that wakes no one.
SStageSilent ==
    /\ spc = "stage" /\ spc' = "top"
    /\ staged' = staged \cup {swork} /\ swork' = None
    /\ UNCHANGED <<allocated, wjob, poolVars, mpc, mwork>>

\* stage_work: hash_push, and work becomes NULL.
SStage ==
    /\ spc = "stage" /\ spc' = "top"
    /\ staged' = staged \cup {swork} /\ swork' = None
    /\ mpc' = BroadcastMiners(mpc)
    /\ UNCHANGED <<allocated, wjob, poolVars, mwork>>

Scheduler == STop \/ SWoken \/ SSpare \/ SSpareNothing \/ SMake \/ SStage

-----------------------------------------------------------------------------
(* Device thread m: get_work, that is hash_pop(true) until the work is not *)
(* stale.                                                                  *)

\* A hash_pop that waits without telling the scheduler.
PopWaitSilent(m) ==
    /\ mpc[m] \in {"ask", "woken"} /\ staged = {}
    /\ mpc' = [mpc EXCEPT ![m] = "wait"]
    /\ UNCHANGED <<workVars, poolVars, spc, swork, mwork>>

\* Nothing staged: signal the scheduler and wait.
PopWait(m) ==
    /\ mpc[m] \in {"ask", "woken"} /\ staged = {}
    /\ mpc' = [mpc EXCEPT ![m] = "wait"]
    /\ spc' = SignalScheduler(spc)
    /\ UNCHANGED <<workVars, poolVars, swork, mwork>>

\* A work is taken; the scheduler and one other waiting thread are signalled.
PopTake(m) ==
    /\ mpc[m] \in {"ask", "woken"}
    /\ \E w \in staged : staged' = staged \ {w} /\ mwork' = [mwork EXCEPT ![m] = w]
    /\ mpc' \in SignalMiner([mpc EXCEPT ![m] = "test"])
    /\ spc' = SignalScheduler(spc)
    /\ UNCHANGED <<allocated, wjob, poolVars, swork>>

\* The wait of hash_pop times out after 10 s, or ends spuriously.
PopTimeout(m) ==
    /\ mpc[m] = "wait" /\ mpc' = [mpc EXCEPT ![m] = "woken"]
    /\ UNCHANGED <<workVars, poolVars, spc, swork, mwork>>

\* A stale work is discarded, another is mined.
Test(m) ==
    /\ mpc[m] = "test"
    /\ IF Stale(mwork[m])
       THEN /\ mpc' = [mpc EXCEPT ![m] = "wake"]
            /\ allocated' = allocated \ {mwork[m]}
            /\ mwork' = [mwork EXCEPT ![m] = None]
       ELSE mpc' = [mpc EXCEPT ![m] = "mine"] /\ UNCHANGED <<allocated, mwork>>
    /\ UNCHANGED <<staged, wjob, poolVars, spc, swork>>

\* wake_gws.
Wake(m) ==
    /\ mpc[m] = "wake" /\ mpc' = [mpc EXCEPT ![m] = "ask"]
    /\ spc' = SignalScheduler(spc)
    /\ UNCHANGED <<workVars, poolVars, swork, mwork>>

\* The work is used up and freed.
Mined(m) ==
    /\ mpc[m] = "mine" /\ mpc' = [mpc EXCEPT ![m] = "ask"]
    /\ allocated' = allocated \ {mwork[m]}
    /\ mwork' = [mwork EXCEPT ![m] = None]
    /\ UNCHANGED <<staged, wjob, poolVars, spc, swork>>

GetWork(m) == PopWait(m) \/ PopTake(m) \/ Test(m) \/ Wake(m) \/ Mined(m)

-----------------------------------------------------------------------------
(* The pool, restart threads, watchdog.                                    *)

\* A notify with another job, the first one after a reconnection included.
Notify ==
    /\ active' = TRUE
    /\ job' \in Job \ {job}
    /\ UNCHANGED <<workVars, spc, swork, mpc, mwork>>

\* The rthread loses the connection: clear_pool_work, which signals no one.
LoseConnection ==
    /\ active /\ active' = FALSE
    /\ staged' = {} /\ allocated' = allocated \ staged
    /\ UNCHANGED <<wjob, job, spc, swork, mpc, mwork>>

\* discard_stale, of the watchdog and of restart threads.
DiscardStale ==
    LET stale == {w \in staged : Stale(w)} IN
    /\ staged' = staged \ stale /\ allocated' = allocated \ stale
    /\ spc' = SignalScheduler(spc)
    /\ UNCHANGED <<wjob, poolVars, swork, mpc, mwork>>

Next ==
    \/ Scheduler \/ SSpuriousWake
    \/ \E m \in Miner : GetWork(m) \/ PopTimeout(m)
    \/ Notify \/ LoseConnection \/ DiscardStale

\* Every thread runs on, and a lost pool comes back.  Nothing is assumed of
\* timeouts, of spurious wakeups, of the watchdog or of restart threads.
Fairness ==
    /\ WF_vars(Scheduler)
    /\ \A m \in Miner : WF_vars(GetWork(m))
    /\ WF_vars(~active /\ Notify)

Spec == Init /\ [][Next]_vars /\ Fairness

-----------------------------------------------------------------------------
(* Properties.                                                             *)

TypeOK ==
    /\ staged \subseteq Work /\ allocated \subseteq Work
    /\ wjob \in [Work -> Job] /\ job \in Job /\ active \in BOOLEAN
    /\ spc \in SLabel /\ swork \in Work \cup {None}
    /\ mpc \in [Miner -> MLabel] /\ mwork \in [Miner -> Work \cup {None}]

\* Every work that is allocated is held by exactly one of the queue, the scheduler
\* and the device threads, and none of them holds one that was freed: nothing
\* leaks, nothing is mined twice or used after it was freed.
HeldAreAllocated ==
    /\ staged \subseteq allocated
    /\ swork # None => swork \in allocated
    /\ \A m \in Miner : mwork[m] # None => mwork[m] \in allocated

HeldOnce ==
    /\ swork \notin staged
    /\ \A m \in Miner : mwork[m] \notin staged /\ (mwork[m] # None => mwork[m] # swork)
    /\ \A m, n \in Miner : mwork[m] # None /\ mwork[m] = mwork[n] => m = n

AllocatedAreHeld ==
    \A w \in allocated : w \in staged \/ w = swork \/ \E m \in Miner : w = mwork[m]

OneHolder == HeldAreAllocated /\ HeldOnce /\ AllocatedAreHeld

\* However often the scheduler is woken, it stages at most one work more than
\* max_queue.
QueueBound == Cardinality(staged) <= MaxQueue + 1

\* What is allocated and neither in the queue nor the scheduler's, a device thread has.
Place(w) ==
    IF w \notin allocated THEN "free"
    ELSE IF w \in staged THEN "staged" ELSE IF w = swork THEN "made" ELSE "taken"

Cycle == INSTANCE WorkCycle WITH place <- [w \in Work |-> Place(w)]

\* A work is staged once and taken once, and who discards or clears work, in whatever
\* thread, frees what is in the queue and never what another has in hand.
RefinesWorkCycle == Cycle!Spec

\* The signals suffice: once the pool stays connected, a device thread that waits
\* for work is woken without any timeout, though the queue was emptied by other
\* threads, and by a lost connection without the scheduler being told.
WaitEnds == <>[]active => \A m \in Miner : mpc[m] = "wait" ~> mpc[m] # "wait"

\* Once the pool stays connected with one job, work of that job is mined again
\* and again, whatever was staged before.
FreshWorkIsMined ==
    (\E j \in Job : <>[](active /\ job = j)) =>
        []<>(\E m \in Miner : mpc[m] = "mine" /\ ~Stale(mwork[m]))
=============================================================================
