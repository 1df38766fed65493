CONSTANTS
    Requests <- MCRequests
    Loads <- MCLoads
    Answer <- MCAnswer
    MaxOutput = 3
    BlockSize = 2
    HbmBlocks = 16
    MaxRunning = 2
    ChunkEnd = 9
    MinBlendThreshold = 1
    Ratio = 25
    Layers = 3
    BlendLayer = 2
    Model = "llama"
    PatchedBy = "file"
SPECIFICATION Spec
INVARIANTS BlendIsRight DumpedIsRight RowsTogether LogitsAreOwn
\* requests end
CHECK_DEADLOCK FALSE
