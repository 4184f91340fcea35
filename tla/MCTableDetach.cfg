SPECIFICATION Spec
CONSTANTS
    Time = {1, 2}
    Reader = {r1}
    Group = 2
    SelfGroup = 2
    Modes = {"fast", "stream"}
    Limit = 2
    MaxWrite = 3
    MaxReload = 1
INVARIANT FlushListed
