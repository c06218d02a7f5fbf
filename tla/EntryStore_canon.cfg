SPECIFICATION Spec
CONSTANTS
    r1 = r1
    r2 = r2
    k1 = k1
    k2 = k2
    i1 = i1
    i2 = i2
    c1 = c1
    c2 = c2
    none = none
    None = none
    Reqs = {r1, r2}
    Entries <- ThreeEntries
    Keys = {k1, k2}
    Idents = {i1, i2}
    IdentOf <- MCIdentOf
    SingleCurrent = {i1}
    Contents = {c1}
    RowLocking = TRUE
    MaxCaptures = 0
SYMMETRY ReqSymmetry
INVARIANTS
    TypeOK
    AtMostOneCanon
    SupersessionLinks
    HistoryReachesCanon
PROPERTIES
    CanonStays
CHECK_DEADLOCK FALSE
