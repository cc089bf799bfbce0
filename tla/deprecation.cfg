SPECIFICATION FairSpec
CONSTANTS
    Callers = {p1, p2}
    Resources = {r1}
    Digests = {d1, d2}
    MaxAttempts = 3
    MaxFaults = 2
INVARIANTS
    Consistent
    MovedOnce
    AnswerIsStored
    
PROPERTIES
    DeprecationIsWriteOnce
    DeprecationIsChannels
    RetriesDeprecate
CHECK_DEADLOCK FALSE
