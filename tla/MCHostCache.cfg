SPECIFICATION CacheSpec
CONSTANTS
    Slab = {s1, s2, s3}
    NoSlab = NoSlab
    PageId = {p1, p2}
    NoId = NoId
    Arena = {d1, d2}
    Fresh = Fresh
    Junk = Junk
    PAGE_TOKENS = 1
    CopiesFail = TRUE
    StoreModes = {"OnRetain", "OnEvict"}
    Offered <- PromptAndShortTurn
    Meta <- MCMeta
    MaxKeys = 3
SYMMETRY Symmetry
CHECK_DEADLOCK FALSE
INVARIANTS
    CacheTypeOK
    ResidentBytesRight
    PayloadsFollowSnapshots
    TicketsReportedOnce
    PlansAreInFlightOrHeld
PROPERTIES
    DrainedTickReportsAll
