SPECIFICATION Spec
CONSTANTS
    j1 = j1
    j2 = j2
    j3 = j3
    none = none
    Jobs = {j1, j2, j3}
    KindOf <- KindThree
    SubjectOf <- SubjectSame
    NoSubject = none
    Askers = {a1, a2}
    Workers = {}
    Sessions = {s1, s2}
    Reapers = {t1}
    Dispatchers = {d1}
    MaxAttempts = 2
    Ceiling = 1
    BatchLimit = 2
    Events = {"groom"}
    MaxFaults = 0
    MaxClaims = 2
SYMMETRY Sym
INVARIANTS
    OneWorker
    PendingBounded
    CeilingHolds
CHECK_DEADLOCK FALSE
