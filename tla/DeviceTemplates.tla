---------------------------- MODULE DeviceTemplates ----------------------------
(***************************************************************************)
(* How the drivers that make their own work learn of a new template or of  *)
(* a new block.  A notify of the current pool sets opt_work_update; the    *)
(* main loop passes it on to the mining threads, each of which calls       *)
(* update_work after its round.  A new block, or a lost connection, starts *)
(* a restart thread, which sets work_restart and calls flush_work itself.  *)
(* In the Avalon 9 both hooks are one function, avalon9_sswork_update: it  *)
(* copies work_restart to the driver's own flag, looks up the current pool *)
(* and then, under update_lock and the pool's data_lock, sends the pool's  *)
(* template with that flag, and clears it; unless the job id is that of    *)
(* the last template sent.  A switch of pools by itself tells nobody.      *)
(*                                                                         *)
(* A template is its job id and its pool; pools may give the same ids.     *)
(* (The driver compares checksums of the ids: ids that collide are the     *)
(* same id here.)  The devices are enabled; DeviceControl has what stops a *)
(* thread.  The limits of the controller (coinbase, merkles, nonce2), for  *)
(* which the function gives up, the copies of older templates, by which    *)
(* late nonces are matched, and modules that come and go are left out.     *)
(***************************************************************************)
EXTENDS Naturals

CONSTANTS
    Device,
    Pool,
    Job,            \* job ids
    None

VARIABLES
    curPool,        \* currentpool
    job,            \* job[p]: the template of pool p
    notifier,       \* the pool whose rthread has not yet set opt_work_update, or None
    optUpdate,      \* opt_work_update
    mainpc,         \* the main loop
    update,         \* thr->work_update
    restart,        \* thr->work_restart
    marked,         \* info->work_restart
    given,          \* given[d]: the template device d was last given: info->pool0
    loop,           \* the mining threads
    lpool,          \* lpool[d]: the pool update_work has looked up, or None
    rpc,            \* a restart thread
    rleft,          \* the devices it has not come to
    rdev,           \* the device it flushes
    rpool           \* the pool it has looked up, or None

poolVars == <<curPool, job, notifier, optUpdate>>
loopVars == <<loop, lpool>>
rVars == <<rpc, rleft, rdev, rpool>>
vars == <<poolVars, mainpc, update, restart, marked, given, loopVars, rVars>>

LLabel == {"scan", "reset", "look", "mark", "find", "send"}
RLabel == {"idle", "pick", "mark", "find", "send", "flushed"}
Template == [pool : Pool, job : Job]

\* The first notify came before the main loop began.
Init ==
    /\ curPool \in Pool /\ job \in [Pool -> Job]
    /\ notifier = None /\ optUpdate = TRUE /\ mainpc = "test"
    /\ update = [d \in Device |-> FALSE]
    /\ restart = [d \in Device |-> FALSE]
    /\ marked = [d \in Device |-> FALSE]
    /\ given = [d \in Device |-> None]
    /\ loop = [d \in Device |-> "scan"] /\ lpool = [d \in Device |-> None]
    /\ rpc = "idle" /\ rleft = {} /\ rdev = None /\ rpool = None

-----------------------------------------------------------------------------
(* avalon9_sswork_update, called for device d by whichever thread.         *)

Mark(d) == marked' = [marked EXCEPT ![d] = @ \/ restart[d]]

\* copy_pool_stratum: the driver's copy is of the same job.
SameJob(d, p) == given[d] # None /\ given[d].job = job[p]

\* avalon9_stratum_pkgs: the template, with the flag.  A package is sent until it is
\* acknowledged.
Packages(d, p) ==
    /\ given' = [given EXCEPT ![d] = [pool |-> p, job |-> job[p]]]
    /\ marked' = [marked EXCEPT ![d] = FALSE]

Send(d, p) == IF SameJob(d, p) THEN UNCHANGED <<given, marked>> ELSE Packages(d, p)

-----------------------------------------------------------------------------
(* The mining thread: hash_driver_work.                                    *)

ScanDone(d) ==
    /\ loop[d] = "scan" /\ loop' = [loop EXCEPT ![d] = "reset"]
    /\ UNCHANGED <<poolVars, mainpc, update, restart, marked, given, lpool, rVars>>

\* One that clears both flags.
ResetBoth(d) ==
    /\ loop[d] = "reset" /\ loop' = [loop EXCEPT ![d] = "look"]
    /\ restart' = [restart EXCEPT ![d] = FALSE] /\ update' = [update EXCEPT ![d] = FALSE]
    /\ UNCHANGED <<poolVars, mainpc, marked, given, lpool, rVars>>

\* work_restart is cleared after every scanwork.
Reset(d) ==
    /\ loop[d] = "reset" /\ loop' = [loop EXCEPT ![d] = "look"]
    /\ restart' = [restart EXCEPT ![d] = FALSE]
    /\ UNCHANGED <<poolVars, mainpc, update, marked, given, lpool, rVars>>

NoUpdate(d) ==
    /\ loop[d] = "look" /\ ~update[d] /\ loop' = [loop EXCEPT ![d] = "scan"]
    /\ UNCHANGED <<poolVars, mainpc, update, restart, marked, given, lpool, rVars>>

\* work_update is cleared before the driver is called.
TakeUpdate(d) ==
    /\ loop[d] = "look" /\ update[d] /\ loop' = [loop EXCEPT ![d] = "mark"]
    /\ update' = [update EXCEPT ![d] = FALSE]
    /\ UNCHANGED <<poolVars, mainpc, restart, marked, given, lpool, rVars>>

UpdateMark(d) ==
    /\ loop[d] = "mark" /\ loop' = [loop EXCEPT ![d] = "find"]
    /\ Mark(d)
    /\ UNCHANGED <<poolVars, mainpc, update, restart, given, lpool, rVars>>

UpdateFind(d) ==
    /\ loop[d] = "find" /\ loop' = [loop EXCEPT ![d] = "send"]
    /\ lpool' = [lpool EXCEPT ![d] = curPool]
    /\ UNCHANGED <<poolVars, mainpc, update, restart, marked, given, rVars>>

UpdateSend(d) ==
    /\ loop[d] = "send" /\ loop' = [loop EXCEPT ![d] = "scan"]
    /\ Send(d, lpool[d]) /\ lpool' = [lpool EXCEPT ![d] = None]
    /\ UNCHANGED <<poolVars, mainpc, update, restart, rVars>>

Thread(d) ==
    \/ ScanDone(d) \/ Reset(d) \/ NoUpdate(d)
    \/ TakeUpdate(d) \/ UpdateMark(d) \/ UpdateFind(d) \/ UpdateSend(d)

-----------------------------------------------------------------------------
(* The main loop.                                                          *)

\* signal_work_update, of every thread.
MainRaise ==
    /\ mainpc = "test" /\ optUpdate /\ mainpc' = "clear"
    /\ update' = [d \in Device |-> TRUE]
    /\ UNCHANGED <<poolVars, restart, marked, given, loopVars, rVars>>

MainPass ==
    /\ mainpc = "test" /\ ~optUpdate /\ mainpc' = "clear"
    /\ UNCHANGED <<poolVars, update, restart, marked, given, loopVars, rVars>>

\* opt_work_update=false, whether the test has seen it or not.
MainClear ==
    /\ mainpc = "clear" /\ mainpc' = "test"
    /\ optUpdate' = FALSE
    /\ UNCHANGED <<curPool, job, notifier, update, restart, marked, given, loopVars, rVars>>

Main == MainRaise \/ MainPass \/ MainClear

-----------------------------------------------------------------------------
(* The pool and the restart threads.                                       *)

\* parse_notify of pool p: the job first,
Notify(p) ==
    /\ notifier = None /\ notifier' = p
    /\ \E j \in Job \ {job[p]} : job' = [job EXCEPT ![p] = j]
    /\ UNCHANGED <<curPool, optUpdate, mainpc, update, restart, marked, given, loopVars, rVars>>

\* ... and then, if the pool is the current one, opt_work_update.
NotifyTell ==
    /\ notifier # None /\ notifier' = None
    /\ optUpdate' = (optUpdate \/ notifier = curPool)
    /\ UNCHANGED <<curPool, job, mainpc, update, restart, marked, given, loopVars, rVars>>

\* switch_pools.
Switch ==
    /\ curPool' \in Pool \ {curPool}
    /\ UNCHANGED <<job, notifier, optUpdate, mainpc, update, restart, marked, given, loopVars,
                   rVars>>

\* restart_threads, of a new block, a clean job or a lost connection.
RestartThreads ==
    /\ rpc = "idle" /\ rpc' = "pick" /\ rleft' = Device
    /\ UNCHANGED <<poolVars, mainpc, update, restart, marked, given, loopVars, rdev, rpool>>

RestartPick ==
    /\ rpc = "pick" /\ rpc' = "mark"
    /\ \E d \in rleft :
        /\ rleft' = rleft \ {d} /\ rdev' = d
        /\ restart' = [restart EXCEPT ![d] = TRUE]
    /\ UNCHANGED <<poolVars, mainpc, update, marked, given, loopVars, rpool>>

RestartMark ==
    /\ rpc = "mark" /\ rpc' = "find"
    /\ Mark(rdev)
    /\ UNCHANGED <<poolVars, mainpc, update, restart, given, loopVars, rleft, rdev, rpool>>

RestartFind ==
    /\ rpc = "find" /\ rpc' = "send"
    /\ rpool' = curPool
    /\ UNCHANGED <<poolVars, mainpc, update, restart, marked, given, loopVars, rleft, rdev>>

RestartSend ==
    /\ rpc = "send" /\ rpc' = "flushed"
    /\ Send(rdev, rpool) /\ rpool' = None
    /\ UNCHANGED <<poolVars, mainpc, update, restart, loopVars, rleft, rdev>>

RestartNext ==
    /\ rpc = "flushed" /\ rpc' = IF rleft = {} THEN "idle" ELSE "pick"
    /\ rdev' = None
    /\ UNCHANGED <<poolVars, mainpc, update, restart, marked, given, loopVars, rleft, rpool>>

Restart == RestartPick \/ RestartMark \/ RestartFind \/ RestartSend \/ RestartNext

Next ==
    \/ \E d \in Device : Thread(d)
    \/ \E p \in Pool : Notify(p)
    \/ NotifyTell \/ Switch \/ Main \/ RestartThreads \/ Restart

\* Threads run on: scanwork returns, the watchdog wakes the main loop.
Fairness ==
    /\ \A d \in Device : WF_vars(Thread(d))
    /\ WF_vars(NotifyTell) /\ WF_vars(Main) /\ WF_vars(Restart)

Spec == Init /\ [][Next]_vars /\ Fairness

-----------------------------------------------------------------------------
(* Properties.                                                             *)

TypeOK ==
    /\ curPool \in Pool /\ job \in [Pool -> Job]
    /\ notifier \in Pool \cup {None} /\ optUpdate \in BOOLEAN /\ mainpc \in {"test", "clear"}
    /\ update \in [Device -> BOOLEAN] /\ restart \in [Device -> BOOLEAN]
    /\ marked \in [Device -> BOOLEAN] /\ given \in [Device -> Template \cup {None}]
    /\ loop \in [Device -> LLabel] /\ lpool \in [Device -> Pool \cup {None}]
    /\ rpc \in RLabel /\ rleft \subseteq Device
    /\ rdev \in Device \cup {None} /\ rpool \in Pool \cup {None}

\* A restart thread is about to send the template of a pool that is current no more.
Late == rpc = "send" /\ rpool # curPool

Has(d, j) == given[d] # None /\ given[d].job = j

\* An update that has reached the mining thread is not lost, though the next one
\* may be raised at any point of its call of the driver: the template of a pool that
\* stays current gets to the device, and stays there, or one with the same job id is there;
\* unless a restart thread has looked up the pool before a switch and sends after it.
RaisedReaches ==
    \A d \in Device, p \in Pool, j \in Job :
        (update[d] /\ ~Late /\ [](curPool = p /\ job[p] = j)) ~> []Has(d, j)

\* The update_work of the driver table: "Tell the driver of an updated work
\* template for eg. stratum".  The template that stays reaches the device.  It does not:
\* the main loop's assignment also drops a notify that came after its test.
UpdateReaches ==
    \A d \in Device, p \in Pool, j \in Job :
        <>[](curPool = p /\ job[p] = j) => <>Has(d, j)
=============================================================================
