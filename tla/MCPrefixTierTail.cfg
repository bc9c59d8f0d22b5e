SPECIFICATION TierSpec
CONSTANTS
    Slab = {s1, s2, s3}
    NoSlab = NoSlab
    PageId = {p1, p2, p3}
    NoId = NoId
    Arena = {d1, d2, d3, d4}
    Fresh = Fresh
    Junk = Junk
    PAGE_TOKENS = 2
    CopiesFail = FALSE
    StoreModes = {"OnRetain"}
    Meta <- MCMeta
    MaxKeys = 2
    Slot = {r1}
    NoSlot = NoSlot
    Prompts <- ShortPrompt
    Vocabulary <- OneToken
    MAX_TOKENS = 2
    LIMIT = 1
    REPLAY = 0
    Lanes = 1
SYMMETRY HostSymmetry
CHECK_DEADLOCK FALSE
INVARIANTS
    ResidentBytesRight
