CONSTANTS
    Requests <- MCRequests
    Loads <- MCLoads
    Answer <- MCAnswer
    MaxOutput = 6
    BlockSize = 2
    HbmBlocks = 16
    MaxRunning = 2
    EsaInit = 1
    EsaLocal = 1
    EsaMinBlocks = 3
    EsaRatio = 70
    EsaStride = 3
    EsaModelLen = 15
    StarInit = 1
    StarLocal = 1
    StarRatio = 50
    StarStride = 2
    TopkTokens = 6
    NumLayers = 6
    RollbackLayers = {1, 4}
    SkipLayers = {3, 6}
    SeqLenThreshold = 6
    GsaThreshold = 8
    GsaMinTopk = 3
    GsaMaxTopk = 3
    GsaPrefetch = 1
    GsaSlots = 3
    ReropeWindow = 4
    QueryHeads = 6
    KvHeads = 2
    BlockM = 8
    Segments = 4
SPECIFICATION FairSpec
INVARIANTS BlocksAreWhole TablesAgree RunnersAgree CompressedContextIsRight SlotsAreOwn GsaContextIsRight RectifiedIsRight  KHashIsRight DecodeTablesAreRight  NothingStays
PROPERTY AllServed
\* requests end
CHECK_DEADLOCK FALSE
