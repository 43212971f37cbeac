SPECIFICATION FairSpec
CONSTANTS
    m1 = m1
    m2 = m2
    m3 = m3
    g1 = g1
    g2 = g2
    c1 = c1
    c2 = c2
    Checks = {c1, c2}
    Msgs = {m1, m2, m3}
    Campaigns = {g1, g2}
    CampaignOf <- CampaignOfThree
    Queueing = {m3}
    Budget = 1
    Events = {"session", "pause", "crash", "overlap", "crossing", "throttle"}
    MaxFaults = 2
INVARIANTS
    HeldMeansDown
    PauseHolds
    TouchesMatch
PROPERTIES
    GoesOrIsHeld
CHECK_DEADLOCK FALSE
