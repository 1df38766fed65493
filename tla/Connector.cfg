CONSTANTS
    Requests = {"r1", "r2", "r3"}
    Loads <- MixedLoads
    MaxOutput = 1
    Reply <- Replies
    BlockSize = 2
    HbmBlocks = 12
    Budget = 3
SPECIFICATION Spec
INVARIANTS
    TypeOK StoredIsRight ComputedIsRight PromptIsKept
CHECK_DEADLOCK FALSE
