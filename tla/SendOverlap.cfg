SPECIFICATION Spec
CONSTANTS
    m1 = m1
    m2 = m2
    p1 = p1
    Msgs = {m1, m2}
    Runs = {r1, r2}
    People = {p1}
    Owner <- OwnerOne
    Replies = {m2}
    Gated = {m2}
    Limit = 2
    Concurrency = 2
    Cap = 1
    Budget = 2
    Events = {"approve", "crash", "throw", "return", "lostAnswer", "unsubscribe"}
    MaxFaults = 1
SYMMETRY Sym
INVARIANTS
    OneHolder
    AtMostOnce
PROPERTIES
    ImplementsOutbox
CHECK_DEADLOCK FALSE
