SPECIFICATION Spec
\* The bounds are reached.
CHECK_DEADLOCK FALSE
CONSTANTS
    Diff = {2}
    MaxJob = 2
    MaxNonce1 = 2
    Field = {"job_id", "merkle", "header", "coinbase"}
INVARIANT JobFollowsAnswer
