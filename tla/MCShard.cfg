SPECIFICATION Spec
CONSTANTS
    Writer = {w1, w2}
    Key = {a, b}
    MaxWrite = 2
    MaxPart = 2
    MaxCrash = 2
    MaxClose = 1
    MaxRetry = 1
    Limit = 2
    FileSize = 1
    Engines = {"ts"}
    Outcomes = {"ok", "limited"}
    SnapshotTblNum = 1
SYMMETRY Symmetry
INVARIANTS
    TypeOK
    Durable
    Visible
    OnePartitionKeepsOrder
    IndexCovers
    FlushCovers
