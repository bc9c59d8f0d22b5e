SPECIFICATION Spec
CONSTANTS
    Page = {p1, p2, p3}
    Slot = {s1, s2}
    Lane = {l1, l2}
    Handle = {h1}
    Value = {a, b}
    PAGE_ROWS = 3
    MaxRows = 4
SYMMETRY Symmetry
VIEW View
INVARIANTS
    TypeOK
    PagesAccounted
    TablesCoverTheirRows
    WritesArePrivate
    PrefixesKeepTheirRows
    IdleSlotsReadTheirRows
