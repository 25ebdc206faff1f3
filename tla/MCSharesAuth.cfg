SPECIFICATION Spec
\* A removed pool's threads end.
CHECK_DEADLOCK FALSE
CONSTANTS
    p1 = p1
    p2 = p2
    s1 = s1
    s2 = s2
    r1 = r1
    r2 = r2
    None = None
    Session = {n1}
    Pool = {p1}
    Share = {s1, s2}
    Request = {r1}
    Id = {i1, i2}
    PoolOf <- OnePool
    Key <- Distinct
    Lowmem = FALSE
    Spurious = FALSE
INVARIANT AuthReadsAuth
