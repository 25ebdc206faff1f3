------------------------------- MODULE CgLock -------------------------------
(***************************************************************************)
(* The cglock of cgminer.h: a mutex and a pthread rwlock.  Readers pass    *)
(* through the mutex only to take the read lock; a writer keeps the mutex  *)
(* for as long as it holds the write lock, and a downgrade gives up the    *)
(* write lock before it takes the read lock, relying on the mutex it still *)
(* holds to keep the other threads out.                                    *)
(*                                                                         *)
(* A step is one pthread call.  pc[t] names the call thread t makes next   *)
(* ("out" and the two holds name where the thread is between two calls of  *)
(* the cglock functions).  A thread starts no call while it holds the      *)
(* lock, other than the one that downgrades or releases it.  _cg_dwilock   *)
(* has no caller in the repository and is not modelled.                    *)
(***************************************************************************)
CONSTANTS
    Thread,     \* the threads that share the lock
    None        \* "no owner"

ASSUME NoneAssumption == None \notin Thread

VARIABLES
    mutex,      \* owner of lock->mutex, or None
    readers,    \* threads that hold lock->rwlock for reading
    writer,     \* thread that holds lock->rwlock for writing, or None
    pc

vars == <<mutex, readers, writer, pc>>

Label == {"out", "r_rdlock", "r_unlock", "reading",
          "w_wrlock", "writing", "dw_rdlock", "dw_unlock", "wu_unlock"}

Goto(t, from, to) == pc[t] = from /\ pc' = [pc EXCEPT ![t] = to]

Init ==
    /\ mutex = None
    /\ readers = {}
    /\ writer = None
    /\ pc = [t \in Thread |-> "out"]

-----------------------------------------------------------------------------
(* The pthread calls.                                                      *)

MutexLock(t)   == mutex = None /\ mutex' = t /\ UNCHANGED <<readers, writer>>
MutexUnlock(t) == mutex = t /\ mutex' = None /\ UNCHANGED <<readers, writer>>

RdLock(t) ==
    /\ writer = None
    /\ readers' = readers \cup {t}
    /\ UNCHANGED <<mutex, writer>>

WrLock(t) ==
    /\ writer = None /\ readers = {}
    /\ writer' = t
    /\ UNCHANGED <<mutex, readers>>

RwUnlock(t) ==
    /\ readers' = readers \ {t}
    /\ writer' = IF writer = t THEN None ELSE writer
    /\ UNCHANGED mutex

-----------------------------------------------------------------------------
(* cg_rlock, cg_wlock, cg_dwlock, cg_runlock, cg_wunlock.                  *)

\* Two plausible slips, each used to show that a property can fail.
CgRLockNoMutex(t) ==
    \/ Goto(t, "out", "reading") /\ RdLock(t)

CgDwLockUnlocksFirst(t) ==
    \/ Goto(t, "writing", "dw_unlock") /\ RwUnlock(t)
    \/ Goto(t, "dw_unlock", "dw_rdlock") /\ MutexUnlock(t)
    \/ Goto(t, "dw_rdlock", "reading") /\ RdLock(t)

CgRLock(t) ==
    \/ Goto(t, "out", "r_rdlock") /\ MutexLock(t)
    \/ Goto(t, "r_rdlock", "r_unlock") /\ RdLock(t)
    \/ Goto(t, "r_unlock", "reading") /\ MutexUnlock(t)

CgWLock(t) ==
    \/ Goto(t, "out", "w_wrlock") /\ MutexLock(t)
    \/ Goto(t, "w_wrlock", "writing") /\ WrLock(t)

CgDwLock(t) ==
    \/ Goto(t, "writing", "dw_rdlock") /\ RwUnlock(t)
    \/ Goto(t, "dw_rdlock", "dw_unlock") /\ RdLock(t)
    \/ Goto(t, "dw_unlock", "reading") /\ MutexUnlock(t)

CgRUnlock(t) == Goto(t, "reading", "out") /\ RwUnlock(t)

CgWUnlock(t) ==
    \/ Goto(t, "writing", "wu_unlock") /\ RwUnlock(t)
    \/ Goto(t, "wu_unlock", "out") /\ MutexUnlock(t)

Step(t) == \/ CgRLock(t) \/ CgWLock(t) \/ CgDwLock(t)
           \/ CgRUnlock(t) \/ CgWUnlock(t)

Next == \E t \in Thread : Step(t)

\* A thread may stay away from the lock for ever, but a call it has started
\* runs on, and critical sections end: the code holds no cglock across a wait.
Fairness == \A t \in Thread : WF_vars(pc[t] # "out" /\ Step(t))

Spec == Init /\ [][Next]_vars /\ Fairness

-----------------------------------------------------------------------------
(* Properties.                                                             *)

TypeOK ==
    /\ mutex \in Thread \cup {None}
    /\ readers \subseteq Thread
    /\ writer \in Thread \cup {None}
    /\ pc \in [Thread -> Label]

\* The hold each label stands for in the abstract lock.  A downgrading thread
\* still counts as the writer until it has the read lock.
ModeOf(l) == CASE l \in {"r_unlock", "reading", "dw_unlock"} -> "read"
               [] l \in {"writing", "dw_rdlock"} -> "write"
               [] OTHER -> "none"

HoldsMutex == {"r_rdlock", "r_unlock", "w_wrlock", "writing",
               "dw_rdlock", "dw_unlock", "wu_unlock"}

\* The mutex, the read holds and the write hold are where the pcs say they are.
OwnershipInv ==
    \A t \in Thread :
        /\ (mutex = t) <=> (pc[t] \in HoldsMutex)
        /\ (t \in readers) <=> (ModeOf(pc[t]) = "read")
        /\ (writer = t) <=> (pc[t] = "writing")

\* Nobody reads while a thread writes, or is between the two halves of its
\* downgrade, when nobody holds the rwlock at all.
DowngradeInv ==
    \A t \in Thread : pc[t] \in {"writing", "dw_rdlock"} => readers = {}

\* The three calls of every cglock function compose into a discipline: who
\* owns the mutex and the rwlock follows from where the threads are, and a
\* downgrade leaves no window in which another thread has the rwlock
\* (cgminer.h _cg_rlock to _cg_wunlock).
LockInv == TypeOK /\ OwnershipInv /\ DowngradeInv

RW == INSTANCE RWLock WITH mode <- [t \in Thread |-> ModeOf(pc[t])]

\* A writer, a downgrading thread included, is alone: what it wrote cannot be
\* changed or seen half-written by another thread before it downgrades
\* (gen_stratum_work relies on this between nonce2++ and hashing the header).
MutualExclusion ==
    \A t, u \in Thread :
        t # u /\ ModeOf(pc[t]) = "write" => ModeOf(pc[u]) = "none"

\* The cglock implements the lock with an indivisible downgrade.
RefinesRWLock == RW!Spec

\* Readers cannot starve a writer: once it holds the mutex no new reader can
\* enter, so it gets the write lock (_cg_wlock), though pthread rwlocks
\* themselves prefer readers.
WriterProgress ==
    \A t \in Thread : (pc[t] = "w_wrlock") ~> (pc[t] = "writing")
=============================================================================
