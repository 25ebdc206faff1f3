SPECIFICATION Spec
CONSTANTS
    Pool = {p1, p2}
    Share = {s1, s2}
    None = None
    MaxId = 8
INVARIANTS IdIsUnique
