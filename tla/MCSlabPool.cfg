SPECIFICATION Spec
CONSTANTS
    PageClass = PageClass
    TailClass = TailClass
    ScoresClass = ScoresClass
    NoClass = NoClass
    Class <- MCClass
    Size <- MCSize
    ChunkBytes = 3
    Quota = 11
INVARIANTS
    TypeOK
    EachSlabInOnePlace
    ListsHoldTheOpenChunks
PROPERTIES
    RecarvedOnlyWhenEmpty
    ImplementsRangeStore
