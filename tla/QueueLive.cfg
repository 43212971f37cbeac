SPECIFICATION FairSpec
CONSTANTS
    j1 = j1
    j2 = j2
    j3 = j3
    none = none
    Jobs = {j1, j2, j3}
    KindOf <- KindMixed
    SubjectOf <- SubjectAll
    NoSubject = none
    Askers = {a1}
    Workers = {w1}
    Sessions = {s1}
    Reapers = {t1}
    Dispatchers = {d1}
    MaxAttempts = 2
    Ceiling = 1
    BatchLimit = 1
    Events = {"crash", "throw", "giveBack"}
    MaxFaults = 1
    MaxClaims = 3
PROPERTIES
    WorkEnds
CHECK_DEADLOCK FALSE
