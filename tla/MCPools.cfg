SPECIFICATION Spec
\* A program whose currentpool is undefined stops.
CHECK_DEADLOCK FALSE
CONSTANTS
    Pool = {p1, p2, p3}
    None = None
    Strategies = {"FAILOVER", "ROTATE"}
    MaxEnabled = 3
SYMMETRY PoolSymmetry
INVARIANTS
    TypeOK
    ListIsConsistent
    RemovedNotCurrent
PROPERTIES
    SwitchFindsUsable
