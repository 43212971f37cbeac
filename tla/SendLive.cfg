SPECIFICATION FairSpec
CONSTANTS
    m1 = m1
    m2 = m2
    p1 = p1
    Msgs = {m1, m2}
    Runs = {r1}
    People = {p1}
    Owner <- OwnerOne
    Replies = {m2}
    Gated = {m1}
    Limit = 2
    Concurrency = 2
    Cap = 1
    Budget = 2
    Events = {"crash", "throw", "broken", "busy", "approve", "reject", "reply", "pause", "unsubscribe", "suppress", "verify", "verdict"}
    MaxFaults = 1
INVARIANTS
    StoppedStaysStopped
    CapHolds
PROPERTIES
    QueueDrains
CHECK_DEADLOCK FALSE
