SPECIFICATION FairSpec
CONSTANTS
    Writer = {w1}
    Key = {a}
    MaxWrite = 2
    MaxPart = 1
    MaxCrash = 0
    MaxClose = 1
    MaxRetry = 1
    Limit = 1
    FileSize = 1
    Engines = {"ts", "cs"}
    Outcomes = {"ok", "limited", "fails"}
    SnapshotTblNum = 2
INVARIANTS
    TokensReleasedOpen
    NoPanic
PROPERTIES
    MemtableFlushed
    OpenReturns
    CloseReturns
