SPECIFICATION LaneSpec
CONSTANTS
    c1 = c1
    c2 = c2
    c3 = c3
    c4 = c4
    Campaigns = {c1, c2, c3, c4}
    Key <- Sorted
    Favoured = {c2}
    Quantum = 1
    Slots = 3
    MaxWaiting = 2
    MaxTicks = 4
INVARIANTS
    RotationServes
PROPERTIES
    WorkConserving
CHECK_DEADLOCK FALSE
