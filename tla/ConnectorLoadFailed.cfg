CONSTANTS
    Requests = {"r1", "r2"}
    Loads <- LoadsFromStore
    MaxOutput = 1
    Reply <- Replies
    BlockSize = 2
    HbmBlocks = 8
    Budget = 3
SPECIFICATION Spec
INVARIANTS
    StoredIsRight
CHECK_DEADLOCK FALSE
