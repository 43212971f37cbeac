SPECIFICATION DeskSpec
CONSTANTS
    m1 = m1
    m2 = m2
    p1 = p1
    Msgs = {m1, m2}
    Runs = {r1}
    People = {p1}
    Owner <- OwnerOne
    Replies = {}
    Gated = {m1}
    Limit = 2
    Concurrency = 2
    Cap = 2
    Budget = 1
    Events = {"crash", "throw", "busy", "clock", "approve", "return", "edit", "reschedule", "regenerate"}
    MaxFaults = 1
    OnDesk = {m1}
    MaxEdits = 2
INVARIANTS
    NothingUnread
    OnePerGap
    BudgetHolds
    ChangesGoOut
    RecordTrue
CHECK_DEADLOCK FALSE
