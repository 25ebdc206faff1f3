---------------------------- MODULE StratumShares ----------------------------
(***************************************************************************)
(* The life of a share, from the device thread that found it to the pool's *)
(* answer.  submit_work_async queues it for the pool's stratum_sthread,    *)
(* which sends it and only then enters it in the table stratum_shares; the *)
(* pool's stratum_rthread looks answers up in that table, and clears the   *)
(* pool's entries when it gives the connection up; watchpool_thread prunes *)
(* entries that were never answered; the API can remove the pool.          *)
(*                                                                         *)
(* The table is one for all pools, and an answer is looked up in it by the *)
(* id of the message alone.  The ids come from swork_id, whose races are   *)
(* in ShareIds: here a message may have the id of any other.               *)
(*                                                                         *)
(* Time enters only through the 120 seconds after which a share is "old":  *)
(* the sthread stops retrying it and the pruner may take it.               *)
(***************************************************************************)
EXTENDS Integers, Sequences, FiniteSets

CONSTANTS
    Pool,
    Share,          \* the shares the devices may find, one struct work each
    Request,        \* requests of handshakes the rthread may read the answers of
    Id,             \* message ids
    PoolOf,         \* PoolOf[m]: the pool whose work share m solves, or that is sent m
    Key,            \* Key[s]: the nonce, nonce2 and version of s
    Session,        \* values of pool->nonce1
    None,           \* NULL
    Lowmem,         \* opt_lowmem
    Spurious        \* whether pthread_cond_wait may return unsignalled

Message == Share \cup Request

ASSUME SharesAssumption ==
    /\ IsFiniteSet(Share) /\ Share \cap Request = {}
    /\ PoolOf \in [Message -> Pool]
    /\ None \notin Share \cup Id
    /\ Lowmem \in BOOLEAN /\ Spurious \in BOOLEAN

VARIABLES
    \* shares
    fresh,          \* found by no device yet
    nonce1,         \* nonce1[s]: work->nonce1, the session s was made for
    old,            \* taken by the sthread more than 120 s ago
    freed,          \* free_work called on its work
    tally,          \* tally[s]: times s was added to a share counter
    early,          \* answered before it was entered in the table
    \* stratum_sthread
    queue, frozen,  \* pool->stratum_q
    spc,
    cur,            \* the share the sthread has in hand
    last,           \* last_nonce, last_nonce2, last_version
    \* stratum_rthread and the connection
    rpc,
    active,         \* pool->stratum_active
    session,        \* pool->nonce1, None when NULL
    resumable,      \* pool->sessionid # NULL
    inflight,       \* messages sent on this connection, answer not yet read
    \* shared
    table,          \* stratum_shares, the entries of all pools
    sshares,        \* pool->sshares
    pruned,         \* pruned[p]: entries prune_stratum_shares has taken
    removed,        \* pool->removed
    id              \* id[m]: the id message m was given, None before

shareVars == <<fresh, nonce1, old, freed, tally, early>>
sendVars  == <<queue, frozen, spc, cur, last>>
connVars  == <<rpc, active, session, resumable, inflight>>
tableVars == <<table, sshares, pruned>>
vars == <<shareVars, sendVars, connVars, tableVars, removed, id>>

SLabel == {"top", "pop", "wait", "send", "suspend", "retry", "add", "freeze", "done"}
RLabel == {"run", "clear", "lost", "restart", "auth", "out"}

Entries(p) == {s \in table : PoolOf[s] = p}

Init ==
    /\ fresh = Share /\ old = {} /\ freed = {} /\ early = {}
    /\ nonce1 = [s \in Share |-> None]
    /\ tally = [s \in Share |-> 0]
    /\ queue = [p \in Pool |-> <<>>] /\ frozen = [p \in Pool |-> FALSE]
    /\ spc = [p \in Pool |-> "top"]
    /\ cur = [p \in Pool |-> None] /\ last = [p \in Pool |-> None]
    /\ rpc = [p \in Pool |-> "run"] /\ active = [p \in Pool |-> TRUE]
    /\ session \in [Pool -> Session] /\ resumable = [p \in Pool |-> TRUE]
    /\ inflight = [p \in Pool |-> {}]
    /\ table = {} /\ sshares = [p \in Pool |-> 0] /\ pruned = [p \in Pool |-> 0]
    /\ removed = [p \in Pool |-> FALSE] /\ id = [m \in Message |-> None]

\* free_work on a set of shares, n times added to a counter each.
Free(S, n) ==
    /\ freed' = freed \cup S
    /\ tally' = [s \in Share |-> IF s \in S THEN tally[s] + n ELSE tally[s]]

\* __suspend_stratum: the socket is closed and its buffer emptied, so answers
\* not read yet are lost.
CloseSocket(p) ==
    /\ active' = [active EXCEPT ![p] = FALSE]
    /\ inflight' = [inflight EXCEPT ![p] = {}]

-----------------------------------------------------------------------------
(* Device threads: submit_work_async.                                      *)

\* stale_work(work, true) is decided elsewhere; without opt_submit_stale and
\* submit_old a stale share is only counted.
SubmitStale(s) ==
    /\ s \in fresh
    /\ fresh' = fresh \ {s}
    /\ Free({s}, 1)
    /\ UNCHANGED <<nonce1, old, early, sendVars, connVars, tableVars, removed, id>>

\* tq_push, which drops the share when the queue is frozen.  The work may have
\* been made for a session that has ended since.
SubmitPush(s) ==
    LET p == PoolOf[s] IN
    /\ s \in fresh
    /\ fresh' = fresh \ {s}
    /\ \E n \in Session : nonce1' = [nonce1 EXCEPT ![s] = n]
    /\ IF frozen[p] THEN Free({s}, 0) /\ queue' = queue
       ELSE queue' = [queue EXCEPT ![p] = Append(@, s)] /\ UNCHANGED <<freed, tally>>
    /\ UNCHANGED <<old, early, frozen, spc, cur, last, connVars, tableVars, removed, id>>

-----------------------------------------------------------------------------
(* stratum_sthread.                                                        *)

SGoto(p, from, to) == spc[p] = from /\ spc' = [spc EXCEPT ![p] = to]

\* The loop condition.
SCheckRemoved(p) ==
    /\ SGoto(p, "top", IF removed[p] THEN "freeze" ELSE "pop")
    /\ UNCHANGED <<shareVars, queue, frozen, cur, last, connVars, tableVars, removed, id>>

\* The sthread takes the head of the queue: a share with too long a nonce2 or
\* equal to the one taken before is freed, any other is given an id and sent.
\* (A pool may ask for a nonce2 of up to 16 bytes; the sthread submits 8 at most.)
Take(p) ==
    LET s == Head(queue[p]) IN
    /\ queue[p] # <<>>
    /\ queue' = [queue EXCEPT ![p] = Tail(@)]
    /\ \/ \* nonce2_len > 8, or a duplicate
          /\ spc' = [spc EXCEPT ![p] = "top"]
          /\ Free({s}, 0)
          /\ UNCHANGED <<cur, last, id>>
       \/ /\ last[p] # Key[s]
          /\ spc' = [spc EXCEPT ![p] = "send"]
          /\ cur' = [cur EXCEPT ![p] = s]
          /\ last' = [last EXCEPT ![p] = Key[s]]
          /\ \E i \in Id : id' = [id EXCEPT ![s] = i]
          /\ UNCHANGED <<freed, tally>>
    /\ UNCHANGED <<fresh, nonce1, old, early, frozen, connVars, tableVars, removed>>

\* tq_pop with something in the queue, or with nothing: wait.
SPop(p) == spc[p] = "pop" /\ Take(p)

\* A pop that does not wait ends the thread's loop.
SPopEmptyFails(p) ==
    /\ queue[p] = <<>>
    /\ SGoto(p, "pop", "freeze")
    /\ UNCHANGED <<shareVars, queue, frozen, cur, last, connVars, tableVars, removed, id>>

SPopEmpty(p) ==
    /\ queue[p] = <<>>
    /\ SGoto(p, "pop", "wait")
    /\ UNCHANGED <<shareVars, queue, frozen, cur, last, connVars, tableVars, removed, id>>

\* pthread_cond_wait returns.  Only tq_push signals a waiting sthread, and it
\* leaves an entry in the queue.
SWake(p) == spc[p] = "wait" /\ Take(p)

\* An unsignalled return finds the queue empty: tq_pop returns NULL, which ends
\* the thread's loop.
SWakeSpuriously(p) ==
    /\ Spurious /\ queue[p] = <<>>
    /\ SGoto(p, "wait", "freeze")
    /\ UNCHANGED <<shareVars, queue, frozen, cur, last, connVars, tableVars, removed, id>>

\* stratum_send: the send succeeds, fails on the socket, or is not tried
\* because the connection is down.
SSend(p) ==
    LET s == cur[p] IN
    /\ s \notin old
    /\ \/ /\ active[p]
          /\ SGoto(p, "send", "add")
          /\ inflight' = [inflight EXCEPT ![p] = @ \cup {s}]
       \/ active[p] /\ SGoto(p, "send", "suspend") /\ UNCHANGED inflight
       \/ ~active[p] /\ SGoto(p, "send", "retry") /\ UNCHANGED inflight
    /\ UNCHANGED <<shareVars, queue, frozen, cur, last, rpc, active, session, resumable,
                   tableVars, removed, id>>

\* suspend_stratum after a failed send, by when the rthread may have opened a
\* new connection.
SSuspend(p) ==
    /\ SGoto(p, "suspend", "retry")
    /\ CloseSocket(p)
    /\ UNCHANGED <<shareVars, queue, frozen, cur, last, rpc, session, resumable,
                   tableVars, removed, id>>

\* The share has not been sent in time, or will not be: it is counted as stale.
Discard(p) ==
    /\ Free({cur[p]}, 1)
    /\ cur' = [cur EXCEPT ![p] = None]
    /\ UNCHANGED <<fresh, nonce1, old, early, queue, frozen, last, connVars, tableVars,
                   removed, id>>

\* Slips: a deadline that only looks like one, and a missing break.
SGiveUpNever(p) ==
    /\ cur[p] \in old
    /\ SGoto(p, "send", "retry")
    /\ UNCHANGED <<shareVars, queue, frozen, cur, last, connVars, tableVars, removed, id>>

SNoRetryFallsThrough(p) ==
    /\ SGoto(p, "retry", "send")
    /\ Lowmem \/ session[p] # nonce1[cur[p]]
    /\ Discard(p)

\* The 2 minutes are over before the next attempt.
SGiveUp(p) == cur[p] \in old /\ SGoto(p, "send", "top") /\ Discard(p)

\* After a failed attempt: opt_lowmem and a changed nonce1 end the retries.
SNoRetry(p) ==
    /\ SGoto(p, "retry", "top")
    /\ Lowmem \/ session[p] # nonce1[cur[p]]
    /\ Discard(p)

SRetry(p) ==
    /\ SGoto(p, "retry", "send")
    /\ ~Lowmem /\ session[p] = nonce1[cur[p]]
    /\ UNCHANGED <<shareVars, queue, frozen, cur, last, connVars, tableVars, removed, id>>

\* HASH_ADD_INT and sshares++ under sshare_lock, after the send.  (sshare_sent is
\* written later, with no lock held, and decides nothing.)
SAdd(p) ==
    /\ SGoto(p, "add", "top")
    /\ table' = table \cup {cur[p]}
    /\ sshares' = [sshares EXCEPT ![p] = @ + 1]
    /\ cur' = [cur EXCEPT ![p] = None]
    /\ UNCHANGED <<shareVars, queue, frozen, last, connVars, pruned, removed, id>>

\* tq_freeze on the way out.
SFreeze(p) ==
    /\ SGoto(p, "freeze", "done")
    /\ frozen' = [frozen EXCEPT ![p] = TRUE]
    /\ UNCHANGED <<shareVars, queue, cur, last, connVars, tableVars, removed, id>>

SThread(p) ==
    \/ SCheckRemoved(p) \/ SPop(p) \/ SPopEmpty(p) \/ SWake(p) \/ SWakeSpuriously(p)
    \/ SSend(p) \/ SSuspend(p) \/ SGiveUp(p) \/ SNoRetry(p) \/ SRetry(p)
    \/ SAdd(p) \/ SFreeze(p)

-----------------------------------------------------------------------------
(* stratum_rthread.                                                        *)

RGoto(p, from, to) == rpc[p] = from /\ rpc' = [rpc EXCEPT ![p] = to]

\* HASH_FIND_INT: the entries the answer to message m may take.
Found(m) == {s \in table : id[s] = id[m]}

\* Slips in the handling of an answer and of a lost connection.
ReplyKeepsEntry(p, m) ==
    /\ rpc[p] = "run" /\ m \in inflight[p]
    /\ inflight' = [inflight EXCEPT ![p] = @ \ {m}]
    /\ \E s \in Found(m) : Free({s}, 1) /\ sshares' = [sshares EXCEPT ![p] = @ - 1]
    /\ UNCHANGED <<fresh, nonce1, old, early, sendVars, rpc, active, session, resumable,
                   table, pruned, removed, id>>

ClearAllPools(p) ==
    /\ table' = {}
    /\ sshares' = [q \in Pool |-> sshares[q] - Cardinality(Entries(q))]
    /\ Free(table, 1)

ClearUncounted(p) ==
    /\ table' = table \ Entries(p)
    /\ sshares' = sshares
    /\ Free(Entries(p), 1)

\* parse_stratum_response for the answer to message m of pool p: an entry with its id
\* is freed, whichever share it is for and whichever pool that share is of, and
\* sshares of p goes down.
Answered(p, m) ==
    /\ \E s \in Found(m) : table' = table \ {s} /\ Free({s}, 1)
    /\ sshares' = [sshares EXCEPT ![p] = @ - 1]
    /\ early' = early

\* An answer with no entry in the table is counted for the pool alone, if it has a
\* result.  The share it was for stays where it is, and will be counted again.
Untracked(m) ==
    /\ Found(m) = {}
    /\ \/ UNCHANGED <<tally, early>>
       \/ /\ m \in Share
          /\ tally' = [tally EXCEPT ![m] = @ + 1]
          /\ early' = IF m \in freed THEN early ELSE early \cup {m}
    /\ UNCHANGED <<table, sshares, freed>>

Reply(p, m) ==
    /\ rpc[p] = "run" /\ m \in inflight[p]
    /\ inflight' = [inflight EXCEPT ![p] = @ \ {m}]
    /\ Answered(p, m) \/ Untracked(m)
    /\ UNCHANGED <<fresh, nonce1, old, sendVars, rpc, active, session, resumable,
                   pruned, removed, id>>

\* clear_stratum_shares, one critical section of sshare_lock.
ClearShares(p) ==
    /\ table' = table \ Entries(p)
    /\ sshares' = [sshares EXCEPT ![p] = @ - Cardinality(Entries(p))]
    /\ Free(Entries(p), 1)

\* The connection's top of loop: a removed pool's connection is closed.
RRemoved(p) ==
    /\ removed[p]
    /\ RGoto(p, "run", "out")
    /\ CloseSocket(p)
    /\ UNCHANGED <<shareVars, sendVars, session, resumable, tableVars, removed, id>>

\* cnx_needed, read with no lock, and suspend_stratum: shares waiting for an answer
\* keep the connection open, unless the API has disabled the pool.  Its other
\* conditions (the current pool, its priority, ...) do not depend on the shares, and
\* may or may not ask for the connection.  As the pool may be disabled at any time,
\* what happens between the two calls might as well happen before them.
RNotNeeded(p) ==
    /\ ~removed[p]
    /\ \E enabled \in BOOLEAN : enabled => sshares[p] = 0
    /\ RGoto(p, "run", "clear")
    /\ CloseSocket(p)
    /\ UNCHANGED <<shareVars, sendVars, session, resumable, tableVars, removed, id>>

\* Then it waits to be wanted (wait_lpcurrent), and the connection is opened anew.
RClear(p) ==
    /\ RGoto(p, "clear", "restart")
    /\ ClearShares(p)
    /\ UNCHANGED <<fresh, nonce1, old, early, sendVars, active, session, resumable,
                   inflight, pruned, removed, id>>

\* select timed out (the socket stays as it is) or recv failed (recv_line has
\* closed it).
RLost(p) ==
    /\ RGoto(p, "run", "lost")
    /\ CloseSocket(p) \/ UNCHANGED <<active, inflight>>
    /\ UNCHANGED <<shareVars, sendVars, session, resumable, tableVars, removed, id>>

\* Entries are kept when the session may be resumed.
RLostClear(p) ==
    /\ RGoto(p, "lost", "restart")
    /\ IF ~resumable[p] \/ Lowmem THEN ClearShares(p)
       ELSE UNCHANGED <<table, sshares, freed, tally>>
    /\ UNCHANGED <<fresh, nonce1, old, early, sendVars, active, session, resumable,
                   inflight, pruned, removed, id>>

\* restart_stratum, first initiate_stratum: the subscription gives the pool a
\* session id and a nonce1, the old one if the server resumes the session.  From
\* then on the sthread may send.
RRestart(p) ==
    /\ RGoto(p, "restart", "auth")
    /\ active' = [active EXCEPT ![p] = TRUE]
    /\ inflight' = [inflight EXCEPT ![p] = {}]
    /\ resumable' = [resumable EXCEPT ![p] = TRUE]
    /\ \E n \in Session : session' = [session EXCEPT ![p] = n]
    /\ UNCHANGED <<shareVars, sendVars, tableVars, removed, id>>

\* A failed attempt may have reset sessionid and nonce1; after it the loop
\* looks at pool->removed.
RRestartFails(p) ==
    /\ RGoto(p, "restart", IF removed[p] THEN "out" ELSE "restart")
    /\ CloseSocket(p)
    /\ \/ UNCHANGED <<session, resumable>>
       \/ /\ session' = [session EXCEPT ![p] = None]
          /\ resumable' = [resumable EXCEPT ![p] = FALSE]
    /\ UNCHANGED <<shareVars, sendVars, tableVars, removed, id>>

\* Then subscribe_extranonce, for a pool that has it, and auth_stratum: authorized, or
\* not, after which the connection is closed (at the next attempt if the answer could
\* not be decoded).  Either may read, for its own answer, one to a share sent meanwhile.
\* The rthread then finds the request's answer among those to shares, as it does that
\* to suggest_difficulty, which nobody waits for, and that to extranonce.subscribe when
\* it comes late; some pools answer none of these.
RAuthorized(p) ==
    /\ RGoto(p, "auth", "run")
    /\ \E read \in SUBSET (inflight[p] \cap Share),
         unread \in SUBSET {m \in Request : PoolOf[m] = p /\ id[m] = None} :
          /\ Cardinality(read) <= 2
          /\ inflight' = [inflight EXCEPT ![p] = (@ \ read) \cup unread]
          /\ \E i \in [unread -> Id] :
                id' = [m \in Message |-> IF m \in unread THEN i[m] ELSE id[m]]
    /\ UNCHANGED <<shareVars, sendVars, active, session, resumable, tableVars, removed>>

RAuthFails(p) ==
    /\ RGoto(p, "auth", IF removed[p] THEN "out" ELSE "restart")
    /\ CloseSocket(p) \/ UNCHANGED <<active, inflight>>
    /\ UNCHANGED <<shareVars, sendVars, session, resumable, tableVars, removed, id>>

RThread(p) ==
    \/ \E m \in Message : Reply(p, m)
    \/ RAuthorized(p) \/ RAuthFails(p)
    \/ RRemoved(p) \/ RNotNeeded(p) \/ RClear(p)
    \/ RLost(p) \/ RLostClear(p) \/ RRestart(p) \/ RRestartFails(p)

-----------------------------------------------------------------------------
(* watchpool_thread, the API, and time.                                    *)

\* A pruner that waits for the connection to go down.
PruneDisconnected(p) ==
    LET S == {s \in Entries(p) : s \in old} IN
    /\ ~removed[p] /\ S # {} /\ ~active[p]
    /\ table' = table \ S
    /\ pruned' = [pruned EXCEPT ![p] = @ + Cardinality(S)]
    /\ Free(S, 1)
    /\ UNCHANGED <<fresh, nonce1, old, early, sendVars, connVars, sshares, removed, id>>

\* prune_stratum_shares, run for the pools in pools[] only.  It leaves sshares
\* alone.
Prune(p) ==
    LET S == {s \in Entries(p) : s \in old} IN
    /\ ~removed[p] /\ S # {}
    /\ table' = table \ S
    /\ pruned' = [pruned EXCEPT ![p] = @ + Cardinality(S)]
    /\ Free(S, 1)
    /\ UNCHANGED <<fresh, nonce1, old, early, sendVars, connVars, sshares, removed, id>>

\* remove_pool, called by the API.
Remove(p) ==
    /\ ~removed[p]
    /\ removed' = [removed EXCEPT ![p] = TRUE]
    /\ UNCHANGED <<shareVars, sendVars, connVars, tableVars, id>>

\* sshare_time + 120 passes for a share the sthread has taken.
Age(s) ==
    /\ s \notin old
    /\ s \in table \/ cur[PoolOf[s]] = s
    /\ old' = old \cup {s}
    /\ UNCHANGED <<fresh, nonce1, freed, tally, early, sendVars, connVars, tableVars,
                   removed, id>>

Next ==
    \/ \E s \in Share : SubmitStale(s) \/ SubmitPush(s) \/ Age(s)
    \/ \E p \in Pool : SThread(p) \/ RThread(p) \/ Prune(p) \/ Remove(p)

\* The sthread runs on, the pruner comes round every 5 s, time passes.  Devices
\* need find nothing, the network and the pool server owe nothing.
Fairness ==
    /\ \A p \in Pool : WF_vars(SThread(p)) /\ WF_vars(Prune(p))
    /\ \A s \in Share : WF_vars(Age(s))

Spec == Init /\ [][Next]_vars /\ Fairness
-----------------------------------------------------------------------------
(* Properties.                                                             *)

\* The share whose memory the sthread of p owns.
InHand(p) == IF spc[p] \in {"send", "suspend", "retry", "add"} THEN {cur[p]} ELSE {}

Queued(p) == {queue[p][i] : i \in 1..Len(queue[p])}

TypeOK ==
    /\ fresh \subseteq Share /\ old \subseteq Share /\ freed \subseteq Share
    /\ early \subseteq Share /\ table \subseteq Share
    /\ nonce1 \in [Share -> Session \cup {None}]
    /\ tally \in [Share -> Nat]
    /\ queue \in [Pool -> Seq(Share)] /\ frozen \in [Pool -> BOOLEAN]
    /\ spc \in [Pool -> SLabel] /\ rpc \in [Pool -> RLabel]
    /\ cur \in [Pool -> Share \cup {None}]
    /\ active \in [Pool -> BOOLEAN] /\ resumable \in [Pool -> BOOLEAN]
    /\ session \in [Pool -> Session \cup {None}]
    /\ inflight \in [Pool -> SUBSET Message]
    /\ sshares \in [Pool -> Int] /\ pruned \in [Pool -> Nat]
    /\ removed \in [Pool -> BOOLEAN]
    /\ id \in [Message -> Id \cup {None}]

\* Where the work of a share may be.
Places == {"fresh", "queue", "hand", "table", "freed"}

Owns(place, s) ==
    \/ place = "fresh" /\ s \in fresh
    \/ place = "queue" /\ s \in Queued(PoolOf[s])
    \/ place = "hand"  /\ s \in InHand(PoolOf[s])
    \/ place = "table" /\ s \in table
    \/ place = "freed" /\ s \in freed

QueuedOnce ==
    \A p \in Pool : \A i, j \in 1..Len(queue[p]) : queue[p][i] = queue[p][j] => i = j

\* The work of a share is owned by exactly one of: its device, the queue, the
\* sthread, the table, nobody (freed).  No interleaving of the sthread's send
\* and HASH_ADD with the rthread's answers and disconnects, the pruner and the
\* removal of the pool loses a struct work, frees one twice or enters a freed
\* one in the table (submit_work_async, stratum_sthread, parse_stratum_response,
\* clear_stratum_shares, prune_stratum_shares).
OneOwner ==
    /\ \A s \in Share : \E place \in Places :
          \A other \in Places : Owns(other, s) <=> other = place
    /\ QueuedOnce

\* No share has an id in common with a message of another pool, if one of them is of p.
Apart(p) ==
    \A s \in Share, m \in Message :
        id[s] = id[m] /\ id[s] # None /\ p \in {PoolOf[s], PoolOf[m]} => PoolOf[s] = PoolOf[m]

\* sshares, which cnx_needed reads to keep a connection open, never falls below
\* the number of entries waiting for an answer, and exceeds it by exactly the
\* entries ever pruned: no ordering of the sthread's increment with the
\* rthread's decrements loses one.  The exception: a pool one of whose messages ever
\* had the id of a message of another pool, as an answer on one connection then takes
\* an entry of the other pool (IdIsUnique of ShareIds: ids do repeat).
CountDrift ==
    \A p \in Pool : Apart(p) => sshares[p] = Cardinality(Entries(p)) + pruned[p]

\* Another message, of any pool, was given the id of s.
Repeated(s) == id[s] # None /\ \E m \in Message \ {s} : id[m] = id[s]

\* A share is added to the counters more than once only when its answer came
\* before it was entered in the table, or after its two minutes, or when another
\* message had its id, whose answer took its entry (IdIsUnique: ids do repeat).
CountedOnce ==
    \A s \in Share : tally[s] > 1 => s \in early \cup old \/ Repeated(s)

\* A share the sthread takes is freed in the end, whatever the network and the
\* pool do, unless the pool is removed, whose entries nobody prunes.
TakenIsSettled ==
    \A s \in Share :
        (cur[PoolOf[s]] = s) ~> (s \in freed \/ removed[PoolOf[s]])

\* With no unsignalled wakeup, queued shares are taken in the end: the retries
\* of a share that cannot be sent hold up those behind it for a while only.
QueueIsServed ==
    \A s \in Share :
        (s \in Queued(PoolOf[s])) ~> (s \notin Queued(PoolOf[s]) \/ removed[PoolOf[s]])

\* "Freeze the work queue but don't free up its memory in case there is work
\* still trying to be submitted to the removed pool": a queue is frozen, and
\* its work dropped as "work from removed pool", only when the pool was removed
\* (with no unsignalled wakeup: tq_pop returns NULL after one).
FrozenMeansRemoved == \A p \in Pool : frozen[p] => removed[p]

\* "Parse all data in the queue and anything left should be auth" (auth_stratum):
\* no answer to a share is outstanding while the answer to mining.authorize is
\* awaited.
AuthReadsAuth == \A p \in Pool : rpc[p] = "auth" => inflight[p] = {}
=============================================================================
