------------------------------ MODULE StratumJob ------------------------------
(***************************************************************************)
(* The job of a stratum pool, as its rthread takes it from subscriptions   *)
(* and from the messages mining.notify, mining.set_difficulty and          *)
(* mining.set_extranonce, and the work that the main scheduler makes of it *)
(* and a device thread takes.  Every handler changes the job under         *)
(* data_lock, but a job is many fields, one handler replaces some of them, *)
(* a notify can fail half way, and the scheduler tests that the pool is    *)
(* usable before it takes the lock.  The rthread sets stratum_notify after *)
(* it has released the lock, and by then a sender may have closed the      *)
(* connection.  The handshake with a pool that supports version rolling    *)
(* parses whatever comes before the answer to mining.subscribe, and only   *)
(* then takes the new nonce1.                                              *)
(*                                                                         *)
(* A field stands for the notify it came from, nonce1 and what depends on  *)
(* it for the subscription or set_extranonce it came from.  A pool gives   *)
(* every job an id of its own, over reconnections too.                     *)
(***************************************************************************)
EXTENDS Naturals

CONSTANTS
    Diff,           \* difficulties, numbers greater than 0
    MaxJob,         \* bound on notifies
    MaxNonce1,      \* bound on subscriptions and set_extranonces
    Field           \* what parse_notify replaces, in this order: see Replaced

JobAssumption ==
    /\ Diff \subseteq Nat \ {0} /\ MaxJob \in Nat /\ MaxNonce1 \in Nat
    /\ Field = {"job_id", "merkle", "header", "coinbase"}

VARIABLES
    active,         \* stratum_active
    notified,       \* stratum_notify
    waiting,        \* initiate_stratum is connected and waits for the answer
    rpc,            \* the rthread: reading, about to set stratum_notify, or in a
                    \* handshake in which a notify took the place of the answer
    early,          \* stratum_notify was set while the pool was not subscribed:
                    \* the connection closed already, or before the answer
    jobs,           \* the number of the last notify
    field,          \* field[f]: the notify the field is of, 0 for garbage
    issued,         \* nonce1s the pool has given out
    subscribed,     \* those that came with a subscription
    nonce1,         \* nonce1, n1_len and n2size; 0 for NULL
    coin1,          \* the nonce1 that coinbase and nonce2_offset were made with
    diff,           \* stratum_diff
    next,           \* next_diff
    after,          \* diff_after
    last,           \* the last difficulty the pool set in this session, or 1
    since,          \* notifies since then, up to 2
    leftover,       \* diff_after was set when the session began
    spc,            \* the main scheduler
    work            \* the work it has made, or the device thread has taken

connVars == <<active, waiting, notified, rpc, early>>
fieldVars == <<jobs, field, issued, subscribed, nonce1, coin1>>
diffVars == <<diff, next, after, last, since, leftover>>
workVars == <<spc, work>>
vars == <<connVars, fieldVars, diffVars, workVars>>

NoWork == [job |-> 0, fields |-> {}, nonce1 |-> 0, coin1 |-> 0]

Init ==
    /\ active = FALSE /\ waiting = FALSE /\ notified = FALSE
    /\ rpc = "read" /\ early = FALSE
    /\ jobs = 0 /\ field = [f \in Field |-> 0]
    /\ issued = 0 /\ subscribed = {} /\ nonce1 = 0 /\ coin1 = 0
    /\ diff = 1 /\ next = 0 /\ after = 0
    /\ last = 1 /\ since = 0 /\ leftover = FALSE
    /\ spc = "test" /\ work = NoWork

-----------------------------------------------------------------------------
(* The connection.                                                         *)

\* initiate_stratum has a socket, and may find that the pool supports version
\* rolling.  What an earlier connection left, stratum_notify with it, stays.
Connect ==
    /\ rpc = "read" /\ ~active /\ ~waiting /\ waiting' = TRUE
    /\ UNCHANGED <<active, notified, rpc, early, fieldVars, diffVars, workVars>>

\* The answer is a subscription.  stratum_notify stays as it is, and so does
\* diff_after; next_diff is cleared.
Subscribe ==
    /\ rpc = "read" /\ waiting /\ issued < MaxNonce1
    /\ waiting' = FALSE /\ active' = TRUE
    /\ issued' = issued + 1 /\ nonce1' = issued'
    /\ subscribed' = subscribed \cup {issued'}
    /\ diff' = 1 /\ next' = 0
    /\ last' = 1 /\ since' = 0 /\ leftover' = (after # 0)
    /\ UNCHANGED <<notified, rpc, early, jobs, field, coin1, after, workVars>>

\* It is none, or a message failed in its place: nonce1 is freed and the handshake
\* tried afresh, with a socket or without; or the connection is closed.
SubscribeFails ==
    /\ waiting /\ rpc \in {"read", "failed"} /\ rpc' = "read"
    /\ \/ /\ waiting' \in BOOLEAN /\ nonce1' = 0
          /\ UNCHANGED <<notified, early>>
       \/ /\ waiting' = FALSE /\ notified' = FALSE /\ early' = FALSE
          /\ UNCHANGED nonce1
    /\ UNCHANGED <<active, jobs, field, issued, subscribed, coin1, diffVars, workVars>>

\* suspend_stratum, by the rthread, or by a sender: which may have failed on the
\* connection before.
Suspend ==
    /\ active' = FALSE /\ notified' = FALSE /\ early' = FALSE
    /\ UNCHANGED <<waiting, rpc, fieldVars, diffVars, workVars>>

-----------------------------------------------------------------------------
(* The messages: of a subscribed pool, and in a handshake those that come  *)
(* before the answer.                                                      *)

Reads == rpc = "read" /\ (active \/ waiting)

\* parse_diff: difficulties are stacked for successive notifies, two at most.
SetDifficulty ==
    /\ Reads
    /\ \E d \in Diff :
        /\ IF next # 0 THEN after' = d /\ UNCHANGED next
                       ELSE next' = d /\ UNCHANGED after
        /\ last' = d /\ since' = 0
    /\ UNCHANGED <<connVars, fieldVars, diff, leftover, workVars>>

\* parse_extranonce: the coinbase stays what it was.
SetExtranonce ==
    /\ Reads /\ issued < MaxNonce1
    /\ issued' = issued + 1 /\ nonce1' = issued'
    /\ UNCHANGED <<connVars, jobs, field, subscribed, coin1, diffVars, workVars>>

\* One that forgets the difficulty stacked behind the next one.
TakeDiffOnce ==
    IF next = 0 THEN UNCHANGED <<diff, next, after>>
    ELSE diff' = next /\ next' = 0 /\ after' = 0

\* The stacked difficulties move up with each notify that is not refused at once.
TakeDiff ==
    IF next = 0 THEN UNCHANGED <<diff, next, after>>
    ELSE diff' = next /\ next' = after /\ after' = 0

\* The fields a notify has replaced when it fails at f: those before it; a merkle
\* branch that fails half way is garbage.
Replaced(f) ==
    {"job_id"} \cup (IF f \in {"header", "coinbase"} THEN {"merkle"} ELSE {})
               \cup (IF f = "coinbase" THEN {"header"} ELSE {})

\* parse_notify of a good message, up to the unlock.  It takes nonce1bin, which is
\* that of the last nonce1 even when nonce1 has been freed.
NotifyGood ==
    /\ Reads /\ jobs < MaxJob /\ jobs' = jobs + 1
    /\ field' = [f \in Field |-> jobs']
    /\ coin1' = issued
    /\ TakeDiff
    /\ since' = IF since < 2 THEN since + 1 ELSE 2
    /\ rpc' = "good"
    /\ UNCHANGED <<active, waiting, notified, early, issued, subscribed, nonce1, last, leftover,
                   workVars>>

\* One with a bad string: refused before anything is changed.
NotifyRefused ==
    /\ Reads /\ rpc' = "bad"
    /\ UNCHANGED <<active, waiting, notified, early, fieldVars, diffVars, workVars>>

\* One whose merkle branch, header or coinbase does not convert.
NotifyFails ==
    /\ Reads /\ jobs < MaxJob /\ jobs' = jobs + 1
    /\ \E f \in Field \ {"job_id"} :
        field' = [g \in Field |-> IF g \in Replaced(f) THEN jobs'
                                  ELSE IF g = f /\ g = "merkle" THEN 0 ELSE field[g]]
    /\ TakeDiff
    /\ since' = IF since < 2 THEN since + 1 ELSE 2
    /\ rpc' = "bad"
    /\ UNCHANGED <<active, waiting, notified, early, issued, subscribed, nonce1, coin1, last,
                   leftover, workVars>>

\* parse_method: stratum_notify=ret=...  If that is false, the loop of the handshake
\* ends and takes the message for the answer.
SetNotify ==
    /\ rpc \in {"good", "bad"}
    /\ rpc' = IF rpc = "bad" /\ waiting THEN "failed" ELSE "read"
    /\ notified' = (rpc = "good")
    /\ early' = (rpc = "good" /\ ~active)
    /\ UNCHANGED <<active, waiting, fieldVars, diffVars, workVars>>

Message ==
    \/ SetDifficulty \/ SetExtranonce
    \/ NotifyGood \/ NotifyRefused \/ NotifyFails \/ SetNotify

-----------------------------------------------------------------------------
(* Work.                                                                   *)

\* The scheduler has found the pool usable.
Test ==
    /\ spc = "test" /\ active /\ notified /\ spc' = "make"
    /\ UNCHANGED <<connVars, fieldVars, diffVars, work>>

\* gen_stratum_work, whatever has happened since.
Make ==
    /\ spc = "make" /\ spc' = "staged"
    /\ work' = [job |-> field["job_id"], fields |-> {field[f] : f \in Field},
                nonce1 |-> nonce1, coin1 |-> coin1]
    /\ UNCHANGED <<connVars, fieldVars, diffVars>>

\* One that takes any job of an active pool.
StaleAnyJob == ~active \/ ~notified

\* stale_work(work, false).
Stale == ~active \/ ~notified \/ work.job # field["job_id"]

\* get_work: a stale work is discarded.
Take ==
    /\ spc = "staged" /\ ~Stale
    /\ spc' = "mined"
    /\ UNCHANGED <<connVars, fieldVars, diffVars, work>>

Discard ==
    /\ \/ spc = "staged" /\ Stale
       \/ spc = "mined"
    /\ spc' = "test" /\ work' = NoWork
    /\ UNCHANGED <<connVars, fieldVars, diffVars>>

Next ==
    \/ Connect \/ Subscribe \/ SubscribeFails \/ Suspend \/ Message
    \/ Test \/ Make \/ Take \/ Discard

Spec == Init /\ [][Next]_vars

-----------------------------------------------------------------------------
(* Properties.                                                             *)

TypeOK ==
    /\ active \in BOOLEAN /\ waiting \in BOOLEAN /\ notified \in BOOLEAN
    /\ rpc \in {"read", "good", "bad", "failed"} /\ early \in BOOLEAN
    /\ jobs \in 0..MaxJob /\ field \in [Field -> 0..MaxJob]
    /\ issued \in 0..MaxNonce1 /\ subscribed \subseteq 1..issued
    /\ nonce1 \in 0..issued /\ coin1 \in 0..MaxNonce1
    /\ diff \in Diff \cup {1} /\ next \in Diff \cup {0} /\ after \in Diff \cup {0}
    /\ last \in Diff \cup {1} /\ since \in 0..2 /\ leftover \in BOOLEAN
    /\ spc \in {"test", "make", "staged", "mined"}
    /\ work.job \in 0..MaxJob /\ work.fields \subseteq 0..MaxJob
    /\ work.nonce1 \in 0..MaxNonce1 /\ work.coin1 \in 0..MaxNonce1

\* A pool that is usable has a job all of whose fields are of one notify, however
\* many notifies failed before, and where; except while the rthread has not yet set
\* stratum_notify.
UsableIsWhole == notified /\ rpc = "read" => \A f \in Field : field[f] = jobs

\* Staged work that get_work would accept is of one notify, though the scheduler may
\* have made it of half a notify or while the pool reconnected: the test of the job
\* id is what catches it.  The same exception.
Accepted == spc = "staged" /\ ~Stale /\ rpc = "read"

AcceptedIsWhole == Accepted => work.fields = {work.job} /\ work.job # 0

\* ... and of one nonce1, if it is that of a subscription.  Three times work has a
\* new nonce1 and a coinbase with the old: between a set_extranonce and the next
\* notify; after a reconnection, if stratum_notify was set when the connection was
\* closed already; and if it was set in the handshake, by a notify that came before
\* the answer.
AcceptedHasOneNonce1 ==
    Accepted /\ ~early /\ work.nonce1 \in subscribed => work.coin1 = work.nonce1

\* Job and work are whole wherever they are used.
UsedIsWhole == UsableIsWhole /\ AcceptedIsWhole /\ AcceptedHasOneNonce1

\* Two notifies after the last set_difficulty of a session its value is in force,
\* however many came before it.  Except if diff_after was set when the session began,
\* which is with the answer to mining.subscribe: next_diff is forgotten then, though
\* the pool may have set it on this connection.
LastDiffWins == since = 2 /\ ~leftover => diff = last

\* "Filter out all notifications and wait for the response": a pool that has been
\* subscribed and is usable has a job made with the nonce1 of the subscription, or
\* with a later one.
JobFollowsAnswer ==
    active /\ notified /\ rpc = "read" => \A s \in subscribed : s <= coin1
=============================================================================
