SPECIFICATION BankSpec
CONSTANTS
    Slot = {r1, r2}
    Lane = {a, b}
    None = None
    r1 = r1
    r2 = r2
    Rows <- ThreeAndOne
    Kinds <- Layers
    MAX_TOKENS = 3
    REPLAY = 2
    GROUP = 2
    CAPACITY = 2
    Chunks <- OneOrTwo
    MaxLeases = 2
SYMMETRY Symmetry
CHECK_DEADLOCK FALSE
INVARIANTS
    BankTypeOK
    FrontiersAgree
    ChunksFollowEachOther
    HistoriesAgree
    QueuedWritesAreOwned
PROPERTIES
    AdvancesByWholeChunks
