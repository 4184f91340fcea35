SPECIFICATION FairSpec
CONSTANTS
    User = {u1, u2}
    Mig = {}
    Dropper = d
    Assigner = other
    Shard = {s1, s2}
    None = None
    Parallel = FALSE
    Raft = TRUE
CHECK_DEADLOCK FALSE
PROPERTIES  UserReturns
