SPECIFICATION FairSpec
CHECK_DEADLOCK FALSE
CONSTANTS
    a = a
    w1 = w1
    w2 = w2
    Blocks = {a}
    Workers = {w1}
    NShard = 2
    Work <- WholeBlocks
    IoFails = TRUE
    Timeouts = TRUE
    MaxCrashes = 1
INVARIANT VisibleIsWhole
PROPERTY WaitEnds
