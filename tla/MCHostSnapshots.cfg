SPECIFICATION Spec
CONSTANTS
    Slab = {s1, s2, s3, s4, s5}
    NoSlab = NoSlab
    p1 = p1
    p2 = p2
    PageId = {p1, p2}
    NoId = NoId
    Meta <- MCMeta
    MaxKeys = 3
SYMMETRY Symmetry
CHECK_DEADLOCK FALSE
INVARIANTS
    SlabsAccounted
    IdentityMapExact
    BanksListResidents
