SPECIFICATION EitherSpec
\* BlockTracker ends at its bound.
CHECK_DEADLOCK FALSE
CONSTANTS
    Thread = {t1, t2, t3, t4}
    None = None
    Sensors = 2
    Low = 0
    High = 2
    Skip = 2
    Pool = {p1, p2}
    Scheduler = Scheduler
    Keep = 3
    Lag = 1
    MaxBlock = 4
INVARIANTS
    LockInv
    SupplyInSteps
    NewOnce
PROPERTIES
    RefinesRWLock
    WriterProgress
    VoltageIsReached
    HeatRunsFans
    NoticedInTheEnd
