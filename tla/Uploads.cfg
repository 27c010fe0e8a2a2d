SPECIFICATION Spec
CONSTANTS
    w1 = w1
    w2 = w2
    w3 = w3
    Worker <- MCWorker
    Object <- MCObject
    NumChunks = 2
    NumPieces = 2
    MinPieces = 1
    OnDisk <- MCOnDisk
    Base = 5
    MaxStuck = 1
    Profiles <- MCProfiles
SYMMETRY Symmetry
CHECK_DEADLOCK FALSE
INVARIANTS
    MemorySound
    OneRepairPerChunk
    PiecesSound
    
    PauseHonoured
