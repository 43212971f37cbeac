SPECIFICATION FairSpec
CONSTANTS
    m1 = m1
    m2 = m2
    r1 = r1
    KindOf <- OneOfEach
    Latched = {1, 3}
    Msgs = {m1, m2}
    Budget = 2
    Runs = {r1}
    Events = {"probe", "crash", "session", "leave"}
    MaxFaults = 1
    MaxVerdicts = 2
INVARIANTS
    ProvedWin
    CountedOnce
    OutcomeAgrees
PROPERTIES
    SettledStays
    WinSeen
CHECK_DEADLOCK FALSE
