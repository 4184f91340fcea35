SPECIFICATION Spec
CONSTANTS
    Node = {n1, n2, n3}
    Pt = {p1}
    EventId = {1, 2, 3}
    Faults = {"timeout", "busy"}
    MaxCrash = 2
    MaxStop = 3
    MaxFlap = 2
    MaxMove = 2
    MaxTrouble = 2
    MaxLeader = 0
    BalanceAlgo = "v1.1"
    Prompt = TRUE
SYMMETRY Symmetry
CHECK_DEADLOCK FALSE
INVARIANTS SingleServer OnlineServed ClockUnique
