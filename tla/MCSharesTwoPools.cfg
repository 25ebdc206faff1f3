SPECIFICATION Spec
\* A removed pool's threads end.
CHECK_DEADLOCK FALSE
CONSTANTS
    p1 = p1
    p2 = p2
    s1 = s1
    s2 = s2
    r1 = r1
    r2 = r2
    None = None
    Session = {n1}
    Pool = {p1, p2}
    Share = {s1, s2}
    Request = {}
    Id = {i1, i2}
    PoolOf <- OnePoolEach
    Key <- Distinct
    Lowmem = TRUE
    Spurious = TRUE
SYMMETRY PoolSymmetry
INVARIANTS
    TypeOK
    OneOwner
    CountDrift
    CountedOnce
