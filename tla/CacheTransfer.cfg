SPECIFICATION FairSpec
CHECK_DEADLOCK FALSE
CONSTANTS
    a = a
    b = b
    c = c
    Keys = {a, b, c}
    Nodes = {n1, n2, n3}
    NoKey = NoKey
    NoNode = NoNode
    Tasks = {1, 2, 3}
    Mixes <- MCMixes
    QueueCapacity = 1
INVARIANTS TypeOK ReadyIsRight LoadOkIsRight StoredIsRight NothingLeft
PROPERTY WaitEnds
