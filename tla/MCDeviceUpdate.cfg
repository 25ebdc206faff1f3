SPECIFICATION Spec
CONSTANTS
    Device = {d1}
    Pool = {p1}
    Job = {j1, j2}
    None = None
PROPERTIES UpdateReaches
