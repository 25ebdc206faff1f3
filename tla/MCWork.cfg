SPECIFICATION EitherSpec
\* The bounds of StratumJob are reached.
CHECK_DEADLOCK FALSE
CONSTANTS
    Miner = {m1, m2}
    Work = {1, 2, 3, 4}
    Job = {j1, j2}
    MaxQueue = 1
    None = None
    Diff = {2, 3}
    MaxJob = 2
    MaxNonce1 = 2
    Field = {"job_id", "merkle", "header", "coinbase"}
    N = 2
    Quotas = {0, 2, 3}
    IntMod = 64
    LongMod = 4096
    MaxOut = 1
    MaxChanges = 2
INVARIANTS TypesOK OneHolder UsedIsWhole LastDiffWins
PROPERTIES
    RefinesWorkCycle WaitEnds FreshWorkIsMined
    SelectionIsFair ChangeKeepsQuota PoolIsServed
