SPECIFICATION Spec
CONSTANTS
    Db = {a}
    N = 4
    First = 2
    Old = {}
    ReplicasN = 3
    MaxCrash = 2
    MaxModify = 1
    MaxTrouble = 2
    AnyGroup = FALSE
INVARIANTS
    TypeOK
    MembersKept
    HealthIsMajority
CHECK_DEADLOCK FALSE
