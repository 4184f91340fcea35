SPECIFICATION Spec
CONSTANTS
    Node = {n1, n2}
    Pt = {p1}
    EventId = {1, 2, 3}
    Faults = {"noconn"}
    MaxCrash = 0
    MaxStop = 0
    MaxFlap = 0
    MaxMove = 1
    MaxTrouble = 2
    MaxLeader = 0
    BalanceAlgo = "v1.1"
    Prompt = TRUE
SYMMETRY Symmetry
CHECK_DEADLOCK FALSE
INVARIANT SingleServer
