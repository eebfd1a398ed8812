\* Two jobs of any kind; the portal has one employee; one worker per queue.
CONSTANTS
    Jobs = {j1, j2}
    Types <- MCTypes
    Employees = {e1}
    Workers = 1
    Attempts = 2
    MaxStalled = 1
CHECK_DEADLOCK FALSE
SPECIFICATION Spec
SYMMETRY MCSymmetry
INVARIANTS
    TypeOK
    ToldOncePerRun
