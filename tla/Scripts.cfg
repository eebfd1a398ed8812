\* A car with two controllers, two names, two scripts, the original of one file
\* service, three requests by two handlers.  Failures and restarts are not bounded.
CONSTANTS
    Car = Car
    NoName = NoName
    NoDoc = NoDoc
    NoScript = NoScript
    NoService = NoService
    NoDir = NoDir
    Upload = Upload
    Procs = {p1, p2}
    Controllers = {k1, k2}
    Names = {n1, n2}
    ScriptIds = {s1, s2}
    Services = {f1}
    MaxRequests = 3
CHECK_DEADLOCK FALSE
SPECIFICATION Spec
SYMMETRY MCSymmetry
INVARIANTS
    TypeOK
    NamedIsStored
    OffersAreSound
