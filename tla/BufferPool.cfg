SPECIFICATION Spec
CONSTANTS
    Keys = {k1, k2, k3}
    Handles = {h1, h2, h3}
    Nodes = {n1, n2}
    NoKey = NoKey
    NoNode = NoNode
INVARIANTS
    TypeOK
    RefCountsHandles
    OneOwner
    OneNodePerKey
PROPERTY
    HeldNodeIsStable
