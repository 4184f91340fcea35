SPECIFICATION Spec
CONSTANTS
    Node = {n1, n2}
    Pt = {p1}
    EventId = {1, 2}
    Faults = {"loaderr", "same", "noconn"}
    MaxCrash = 2
    MaxStop = 0
    MaxFlap = 2
    MaxMove = 2
    MaxTrouble = 2
    MaxLeader = 2
    BalanceAlgo = "v1.0"
    Prompt = TRUE
SYMMETRY Symmetry
CHECK_DEADLOCK FALSE
INVARIANTS TypeOK OnlineOnAliveNode NoLeakedEvent
PROPERTIES OwnerChangesOffline
