\* Three requests at once, one decoding; operations time out at the second poll.
\* Refusals, expired tokens and restarts are not bounded.
CONSTANTS
    NoDoc = NoDoc
    Procs = {p1, p2, p3}
    Docs = {d1}
    Timeout = 1
CHECK_DEADLOCK FALSE
SPECIFICATION DecodersSpec
INVARIANTS
    DecodersTypeOK
    SlotsReturned
    NamedIsStored
PROPERTIES
    WorkEnds
