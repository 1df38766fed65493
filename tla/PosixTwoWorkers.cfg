SPECIFICATION Spec
CHECK_DEADLOCK FALSE
CONSTANTS
    a = a
    w1 = w1
    w2 = w2
    Blocks = {a}
    Workers = {w1, w2}
    NShard = 2
    Work <- WholeBlocks
    IoFails = FALSE
    Timeouts = FALSE
    MaxCrashes = 0
INVARIANT LoadOkIsRight
