------------------------------- MODULE ShareIds -------------------------------
(***************************************************************************)
(* The ids of messages.  swork_id is one counter for all pools.  A sthread *)
(* takes the id of a share from it under sshare_lock; the requests of a    *)
(* handshake take theirs under no lock.  swork_id++ is a load and a store  *)
(* of an int that is not atomic, so whoever holds no lock may store a      *)
(* value that others have gone past.                                       *)
(*                                                                         *)
(* Shares that wait for answers are in the table stratum_shares, by id.    *)
(* The rthread reads the answers of the handshake itself, all but that of  *)
(* suggest_difficulty, which is taken for that of a share with its id.     *)
(*                                                                         *)
(* Which share is whose, retries, the two minutes and what becomes of the  *)
(* counters are in StratumShares; the width of the int is left out.        *)
(***************************************************************************)
EXTENDS Naturals

CONSTANTS
    Pool,
    Share,
    None,
    MaxId           \* bound of swork_id

VARIABLES
    swork_id,
    sshare_lock,    \* the pool whose sthread holds it to take an id, or None
    fresh,          \* shares not found yet
    stratum_q,      \* stratum_q[p]: shares found for pool p that its sthread has not taken
    spc, cur, id,   \* the sthreads: where, the share in hand, its id
    rpc, loaded,    \* the rthreads: where, the value of a swork_id++ begun, or None
    inflight,       \* inflight[p]: messages to pool p whose answers have not been read
    table           \* stratum_shares

idVars == <<swork_id, sshare_lock>>
sVars == <<stratum_q, spc, cur, id>>
rVars == <<rpc, loaded>>
vars == <<idVars, fresh, sVars, rVars, inflight, table>>

SLabel == {"pop", "lock", "store", "send", "add"}

\* The requests of a connection, in this order; then it runs.
Request == {"configure", "subscribe", "extranonce", "authorize", "suggest"}
Id == 0..MaxId
Message == [id : Id, share : Share \cup {None}]

Init ==
    /\ swork_id = 0 /\ sshare_lock = None
    /\ fresh = Share /\ stratum_q = [p \in Pool |-> {}]
    /\ spc = [p \in Pool |-> "pop"] /\ cur = [p \in Pool |-> None] /\ id = [p \in Pool |-> 0]
    /\ rpc = [p \in Pool |-> "configure"] /\ loaded = [p \in Pool |-> None]
    /\ inflight = [p \in Pool |-> {}]
    /\ table = {}

-----------------------------------------------------------------------------
(* Device threads and stratum_sthread.                                     *)

\* submit_work_async.  There is no work before the pool is subscribed.
SubmitWork(p) ==
    /\ rpc[p] \notin {"configure", "subscribe"}
    /\ \E s \in fresh : /\ fresh' = fresh \ {s}
                         /\ stratum_q' = [stratum_q EXCEPT ![p] = @ \cup {s}]
    /\ UNCHANGED <<idVars, spc, cur, id, rVars, inflight, table>>

SPop(p) ==
    /\ spc[p] = "pop"
    /\ \E s \in stratum_q[p] : /\ cur' = [cur EXCEPT ![p] = s]
                                /\ stratum_q' = [stratum_q EXCEPT ![p] = @ \ {s}]
    /\ spc' = [spc EXCEPT ![p] = "lock"]
    /\ UNCHANGED <<idVars, fresh, id, rVars, inflight, table>>

\* sshare->id=swork_id++ under the lock, in two steps: the share has its id ...
SLoad(p) ==
    /\ spc[p] = "lock" /\ sshare_lock = None /\ swork_id < MaxId
    /\ sshare_lock' = p
    /\ id' = [id EXCEPT ![p] = swork_id]
    /\ spc' = [spc EXCEPT ![p] = "store"]
    /\ UNCHANGED <<swork_id, fresh, stratum_q, cur, rVars, inflight, table>>

\* ... and the counter is behind it.
SStore(p) ==
    /\ spc[p] = "store"
    /\ swork_id' = id[p] + 1 /\ sshare_lock' = None
    /\ spc' = [spc EXCEPT ![p] = "send"]
    /\ UNCHANGED <<fresh, stratum_q, cur, id, rVars, inflight, table>>

\* stratum_send, once the pool is subscribed (stratum_active).
SSend(p) ==
    /\ spc[p] = "send" /\ rpc[p] \notin {"configure", "subscribe"}
    /\ inflight' = [inflight EXCEPT ![p] = @ \cup {[id |-> id[p], share |-> cur[p]]}]
    /\ spc' = [spc EXCEPT ![p] = "add"]
    /\ UNCHANGED <<idVars, fresh, stratum_q, cur, id, rVars, table>>

\* The share is given up: its two minutes are over, or its session.
SDiscard(p) ==
    /\ spc[p] = "send"
    /\ cur' = [cur EXCEPT ![p] = None]
    /\ spc' = [spc EXCEPT ![p] = "pop"]
    /\ UNCHANGED <<idVars, fresh, stratum_q, id, rVars, inflight, table>>

\* HASH_ADD_INT.
SAdd(p) ==
    /\ spc[p] = "add" /\ sshare_lock = None
    /\ table' = table \cup {[id |-> id[p], share |-> cur[p], pool |-> p]}
    /\ cur' = [cur EXCEPT ![p] = None]
    /\ spc' = [spc EXCEPT ![p] = "pop"]
    /\ UNCHANGED <<idVars, fresh, stratum_q, id, rVars, inflight>>

SThread(p) == SPop(p) \/ SLoad(p) \/ SStore(p) \/ SSend(p) \/ SDiscard(p) \/ SAdd(p)

-----------------------------------------------------------------------------
(* The handshake, and the answers to shares.                               *)

\* swork_id++ in the arguments of a sprintf, under no lock.
RLoad(p) ==
    /\ rpc[p] \in Request /\ loaded[p] = None /\ swork_id < MaxId
    /\ loaded' = [loaded EXCEPT ![p] = swork_id]
    /\ UNCHANGED <<idVars, fresh, sVars, rpc, inflight, table>>

\* A pool without extranonce_subscribe, or a user without opt_suggest_diff, has not
\* all of the requests.
After(r) ==
    CASE r = "configure" -> {"subscribe"}
      [] r = "subscribe" -> {"extranonce", "authorize"}
      [] r = "extranonce" -> {"authorize"}
      [] r = "authorize" -> {"suggest", "run"}
      [] r = "suggest" -> {"run"}

\* The request is sent, and answered but for the last.  auth_stratum and the others
\* read on to what is no notification: with a share in flight, its answer.
RStore(p) ==
    /\ loaded[p] # None
    /\ swork_id' = loaded[p] + 1 /\ loaded' = [loaded EXCEPT ![p] = None]
    /\ \E r \in After(rpc[p]) : rpc' = [rpc EXCEPT ![p] = r]
    /\ LET m == [id |-> loaded[p], share |-> None]
       IN  IF rpc[p] = "suggest" THEN inflight' = [inflight EXCEPT ![p] = @ \cup {m}]
           ELSE \/ inflight' = inflight
                \/ \E a \in inflight[p] : inflight' = [inflight EXCEPT ![p] = (@ \ {a}) \cup {m}]
    /\ UNCHANGED <<sshare_lock, fresh, sVars, table>>

\* parse_stratum_response: an entry with the id of the answer goes, whichever pool
\* and share it is of.
Answer(p) ==
    /\ rpc[p] = "run" /\ sshare_lock = None
    /\ \E m \in inflight[p] :
          LET found == {e \in table : e.id = m.id}
          IN  /\ inflight' = [inflight EXCEPT ![p] = @ \ {m}]
              /\ IF found = {} THEN table' = table ELSE \E e \in found : table' = table \ {e}
    /\ UNCHANGED <<idVars, fresh, sVars, rVars>>

\* The connection is lost, or a request has failed, and it is opened anew.  The entries
\* of a connection lost are kept if the session may be resumed.
RLost(p) ==
    /\ rpc[p] # "configure" /\ loaded[p] = None /\ sshare_lock = None
    /\ rpc' = [rpc EXCEPT ![p] = "configure"]
    /\ inflight' = [inflight EXCEPT ![p] = {}]
    /\ table' = table \/ (rpc[p] = "run" /\ table' = {e \in table : e.pool # p})
    /\ UNCHANGED <<idVars, fresh, sVars, loaded>>

RThread(p) == RLoad(p) \/ RStore(p) \/ Answer(p) \/ RLost(p)

Next == \E p \in Pool : SubmitWork(p) \/ SThread(p) \/ RThread(p)

Spec == Init /\ [][Next]_vars

-----------------------------------------------------------------------------
(* Properties.                                                             *)

TypeOK ==
    /\ swork_id \in Id /\ sshare_lock \in Pool \cup {None}
    /\ fresh \subseteq Share /\ stratum_q \in [Pool -> SUBSET Share]
    /\ spc \in [Pool -> SLabel] /\ cur \in [Pool -> Share \cup {None}] /\ id \in [Pool -> Id]
    /\ rpc \in [Pool -> Request \cup {"run"}] /\ loaded \in [Pool -> Id \cup {None}]
    /\ inflight \in [Pool -> SUBSET Message]
    /\ table \subseteq [id : Id, share : Share, pool : Pool]

\* "Give the stratum share a unique id": no two shares that wait for answers have one
\* id.  Two may, if a request's increment began before the first got its id and ended
\* before the second did.
IdIsUnique == \A e, f \in table : e.id = f.id => e = f
=============================================================================
