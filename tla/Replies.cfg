SPECIFICATION FairSpec
CONSTANTS
    w1 = w1
    w2 = w2
    i1 = i1
    Mails = {w1, w2}
    KindsOf <- KindsTwo
    DoorOf <- DoorTwo
    Msgs = {i1}
    Calls = 2
    Overlap = 1
    Events = {"outage", "overlap", "crash", "clock", "twice"}
    MaxFaults = 1
INVARIANTS
    NotOverTheirWords
PROPERTIES
    
    EveryWordHeard
CHECK_DEADLOCK FALSE
