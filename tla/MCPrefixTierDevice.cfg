SPECIFICATION TierSpec
CONSTANTS
    Slab = {s1}
    NoSlab = NoSlab
    PageId = {p1, p2, p3}
    NoId = NoId
    Arena = {d1, d2, d3, d4}
    Fresh = Fresh
    Junk = Junk
    PAGE_TOKENS = 2
    CopiesFail = FALSE
    StoreModes = {"OnRetain"}
    Meta <- MCMeta
    MaxKeys = 1
    Slot = {r1, r2}
    NoSlot = NoSlot
    Prompts <- TwoPrompts
    Vocabulary <- TwoTokens
    MAX_TOKENS = 3
    LIMIT = 1
    REPLAY = 0
    Lanes = 2
SYMMETRY DeviceSymmetry
CHECK_DEADLOCK FALSE
INVARIANTS
    TierTypeOK
    TierReadsRight
    BuffersAccounted
    ArenaCoversRetention
