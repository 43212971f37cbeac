SPECIFICATION FairSpec
CONSTANTS
    r1 = r1
    s1 = s1
    Starts <- Starting
    Framed = {1}
    Worded = {3}
    Budget = 2
    Runs = {r1}
    Sessions = {s1}
    Events = {"crash", "giveUp", "news", "discard", "reply", "refuse"}
    MaxPlans = 2
    MaxFaults = 1
INVARIANTS
    FallbackPerAsk
PROPERTIES
    NeverSilent
    ApprovedStands
CHECK_DEADLOCK FALSE
