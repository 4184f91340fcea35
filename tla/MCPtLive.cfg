SPECIFICATION FairSpec
CONSTANTS
    Node = {n1, n2}
    Pt = {p1}
    EventId = {1, 2, 3}
    Faults = {"busy"}
    MaxCrash = 1
    MaxStop = 2
    MaxFlap = 0
    MaxMove = 1
    MaxTrouble = 2
    MaxLeader = 0
    BalanceAlgo = "v1.1"
    Prompt = FALSE
CHECK_DEADLOCK FALSE
INVARIANT OneEventPerPt
PROPERTY Recovers
