SPECIFICATION Spec
CONSTANTS
    User = {u1, u2}
    Mig = {m1, m2}
    Dropper = d
    Assigner = other
    Shard = {s1}
    None = None
    Parallel = FALSE
    Raft = FALSE
SYMMETRY Symmetry
INVARIANTS TypeOK NoPanic NoLostWakeup MoveExcludesOffload NoDeleteInMigration OldShardsQuiet
PROPERTIES HolderKeepsPt GateSpec
