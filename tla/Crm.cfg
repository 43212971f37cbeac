SPECIFICATION FairSpec
CONSTANTS
    r1 = r1
    r2 = r2
    Records = {r1, r2}
    Known = {r1}
    KindsOf <- KindsPair
    Events = {"die", "limit", "error", "time", "hand"}
    Reach = 2
    Room = 2
    MaxEvents = 3
    MaxFaults = 1
INVARIANTS
    ReopenedWakes
    OwnNotesAreNotNews
PROPERTIES
    ChangesArrive
CHECK_DEADLOCK FALSE
