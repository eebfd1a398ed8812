\* Two handlers on a ticket and a file service, a failure and a restart.
CONSTANTS
    t1 = t1
    f1 = f1
    c1 = c1
    m1 = m1
    m2 = m2
    NoDoc = NoDoc
    Tickets = {t1}
    Files = {f1}
    Messages = {c1, m1, m2}
    Comments = {c1}
    MessageOf <- MCMessageOf
    Attached = {t1, m1}
    Procs = {p1, p2}
    MaxFaults = 1
    MaxCrashes = 1
CHECK_DEADLOCK FALSE
SYMMETRY MCSymmetry
SPECIFICATION Spec
INVARIANTS
    TypeOK
    UploadsMatch
    CommentSavedWithTicket
