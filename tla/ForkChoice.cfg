SPECIFICATION Spec
CONSTANTS
    g = g
    a1 = a1
    a2 = a2
    a3 = a3
    b1 = b1
    b2 = b2
    b3 = b3
    c1 = c1
    c2 = c2
    x2 = x2
    x3 = x3
    Genesis = g
    Block <- MCTree
    Parent <- MCParent
    Height <- MCHeight
    Difficulty <- MCDifficulty
    Depth <- MCDepth
    HeaderOK <- MCTree
    Early = {b2}
    Valid <- MCValid
    FullyValid <- MCFullyValid
    Batches <- MCBatches
CHECK_DEADLOCK FALSE
INVARIANTS
    ChainSound
    LogReplaysToPath
PROPERTIES
    ImplementsHeaviestChain
