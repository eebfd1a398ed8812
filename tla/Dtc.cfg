\* Two documents, any operation may fail and the server restart once.
CONSTANTS
    Dtcs = {d1, d2}
    MaxRetry = 1
    MaxFaults = 1
    MaxCrashes = 1
CHECK_DEADLOCK FALSE
SPECIFICATION DtcFairSpec
INVARIANTS
    DtcTypeOK
    OutputIsStored
    FailedHasNoAnswer
PROPERTIES
    ResultIsFinal
    JobConcludes
