SPECIFICATION Spec
\* A program whose currentpool is undefined stops.
CHECK_DEADLOCK FALSE
CONSTANTS
    Pool = {p1, p2, p3}
    None = None
    Strategies = {"FAILOVER"}
    MaxEnabled = 3
SYMMETRY PoolSymmetry
INVARIANT ActiveNotRemoved
