SPECIFICATION EitherSpec
CONSTANTS
    Device = {d1}
    SickTime = 1
    DeadTime = 2
    MaxPosts = 3
    Pool = {p1, p2}
    JobId = {k1, k2}
    Job = {j1, j2}
    Board = {b1}
    Fifo = 2
    None = None
INVARIANTS
    TypesOK ParkedForReason RingIsQueue
PROPERTIES
    RunsAsTold SilentIsDead RaisedReaches SettledJobIsMined
