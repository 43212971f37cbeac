SPECIFICATION FairSpec
CONSTANTS
    l1 = l1
    l2 = l2
    x1 = x1
    x2 = x2
    x3 = x3
    s1 = s1
    s2 = s2
    r1 = r1
    Leads = {l1, l2}
    Rows = {x1, x2, x3}
    Who <- WhoReturns
    Time <- TimeRising
    Twice = {x1}
    Sources = {s1, s2}
    Lists <- TwoLists
    Whole = {s2}
    Runs = {r1}
    PageSize = 1
    MaxPages = 2
    Events = {"crash", "verify", "optOut", "noChannel"}
    MaxFaults = 1
    MaxPolls = 1
INVARIANTS
    NoLeadLost
    OneOpen
    WonNotRerun
    ArrivedOnce
PROPERTIES
    EveryoneEnters
CHECK_DEADLOCK FALSE
