-------------------------------- MODULE MCWork --------------------------------
(***************************************************************************)
(* Small instances of three components: a behaviour is one of StagedWork,  *)
(* StratumJob or PoolQuota, and the variables of the others stay as they   *)
(* are.  In the other parts StagedWork has lost its pool, and PoolQuota    *)
(* has no usable one.                                                      *)
(***************************************************************************)
EXTENDS StagedWork

CONSTANTS
    Diff, MaxJob, MaxNonce1, Field,
    N, Quotas, IntMod, LongMod, MaxOut, MaxChanges

VARIABLES
    part,           \* which of them this is
    connected, waiting, notified, rpc, early, jobs, field, issued, subscribed, nonce1, coin1,
    diff, next, after, jlast, since, leftover, jpc, work,
    quota, quota_gcd, quota_used, global_quota_gcd, rotating_pool, usable, qpc, out, last,
    changes, steady, due, net

J == INSTANCE StratumJob WITH active <- connected, last <- jlast, spc <- jpc
Q == INSTANCE PoolQuota WITH spc <- qpc

ASSUME WorkAssumption == J!JobAssumption /\ Q!QuotaAssumption

jobVars == <<connected, waiting, notified, rpc, early, jobs, field, issued, subscribed,
             nonce1, coin1, diff, next, after, jlast, since, leftover, jpc, work>>
quotaVars == <<quota, quota_gcd, quota_used, global_quota_gcd, rotating_pool, usable, qpc,
               out, last, changes, steady, due, net>>
allVars == <<part, vars, jobVars, quotaVars>>

\* No connection to stage work for.
NoConnection ==
    /\ staged = {} /\ allocated = {}
    /\ job = (CHOOSE j \in Job : TRUE) /\ active = FALSE
    /\ wjob = [w \in Work |-> job]
    /\ spc = "top" /\ swork = None
    /\ mpc = [m \in Miner |-> "ask"] /\ mwork = [m \in Miner |-> None]

\* No pool to select.
NoPools ==
    /\ quota = [p \in Q!Pool |-> 1] /\ quota_gcd = quota
    /\ global_quota_gcd = 1 /\ changes = 0
    /\ quota_used = Q!Nothing /\ rotating_pool = 0
    /\ usable = [p \in Q!Pool |-> FALSE]
    /\ qpc = "again" /\ out = Q!Nothing /\ last = N
    /\ steady = {} /\ due = Q!Nothing /\ net = Q!Nothing

EitherInit ==
    /\ J!Init
    /\ \/ part = "staged" /\ Init /\ NoPools
       \/ part = "job" /\ NoConnection /\ NoPools
       \/ part = "quota" /\ NoConnection /\ Q!Init

Staging == part = "staged" /\ UNCHANGED <<part, jobVars, quotaVars>>
InJob == part = "job" /\ UNCHANGED <<part, vars, quotaVars>>
Selecting == part = "quota" /\ UNCHANGED <<part, vars, jobVars>>

EitherNext ==
    \/ Staging /\ Next
    \/ InJob /\ J!Next
    \/ Selecting /\ Q!Next

EitherFairness ==
    /\ WF_vars(part = "staged" /\ Scheduler)
    /\ \A m \in Miner : WF_vars(part = "staged" /\ GetWork(m))
    /\ WF_vars(part = "staged" /\ ~active /\ Notify)
    /\ WF_quotaVars(part = "quota" /\ Q!Select) /\ WF_quotaVars(part = "quota" /\ Q!SelectAgain)
    /\ \A p \in Q!Pool : WF_quotaVars(part = "quota" /\ Q!Mine(p))

EitherSpec == EitherInit /\ [][EitherNext]_allVars /\ EitherFairness

-----------------------------------------------------------------------------
\* The properties of the modules, which state and explain them.

\* The types of all three.
TypesOK == TypeOK /\ J!TypeOK /\ Q!TypeOK

\* The job of a usable pool is of one notify, and work that get_work would accept is
\* of one notify and one nonce1.
UsedIsWhole == J!UsedIsWhole

\* Two notifies after it, the last difficulty is in force.
LastDiffWins == J!LastDiffWins

\* select_pool keeps to the quotas and still finds a pool.
SelectionIsFair == Q!SelectionIsFair

\* A change of other quotas leaves a pool some of its own.
ChangeKeepsQuota == Q!ChangeKeepsQuota

\* A usable pool with a quota gets work again and again.
PoolIsServed == Q!PoolIsServed
=============================================================================
