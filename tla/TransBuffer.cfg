SPECIFICATION Spec
CONSTANTS
    k1 = k1
    k2 = k2
    k3 = k3
    k4 = k4
    b1 = b1
    b2 = b2
    Keys <- MCKeys
    Buckets <- MCBuckets
    Hash <- MCHash
    Threads = {t1, t2}
    Handles = {h1, h2}
    NNode = 3
    Shared = TRUE
    NoThread = NoThread
    NoKey = NoKey
    NoBucket = NoBucket
    NoHandle = NoHandle
SYMMETRY Symmetry
INVARIANTS
    TypeOK
    ChainsAreWhole
    ExistIsAccurate
    NoDeadlock
PROPERTY
    PoolSpec
