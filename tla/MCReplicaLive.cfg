SPECIFICATION FairSpec
CONSTANTS
    Db = {a, b}
    N = 3
    First = 3
    Old = {a, b}
    ReplicasN = 3
    MaxCrash = 2
    MaxModify = 1
    MaxTrouble = 2
    AnyGroup = FALSE
PROPERTIES
    Balances
    FailoverServes
CHECK_DEADLOCK FALSE
