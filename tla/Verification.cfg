\* Two codes of one user, good for a minute; a failure and a restart.
CONSTANTS
    NoCode = NoCode
    Users = {u1}
    Codes = {c1, c2}
    Procs = {p1, p2}
    Duration = 1
    MaxTime = 5
    MaxFaults = 1
    MaxCrashes = 1
CHECK_DEADLOCK FALSE
SPECIFICATION Spec
SYMMETRY MCSymmetry
INVARIANTS
    TypeOK
    UsedIffVerified
    ResetsByCodes
