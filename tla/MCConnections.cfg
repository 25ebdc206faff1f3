SPECIFICATION Spec
CONSTANTS
    Pool = {1, 2, 3}
    Prio <- Order
    Unsteady = {1, 2}
INVARIANTS
    ConnectionInv
PROPERTIES
    MinersGetWork
    FailsBack
