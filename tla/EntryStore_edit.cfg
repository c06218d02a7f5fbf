SPECIFICATION Spec
CONSTANTS
    r1 = r1
    r2 = r2
    k1 = k1
    k2 = k2
    i1 = i1
    i2 = i2
    c1 = c1
    c2 = c2
    none = none
    None = none
    Reqs = {r1, r2}
    Entries <- TwoEntries
    Keys = {k1}
    Idents = {i1}
    IdentOf <- MCSingle
    SingleCurrent = {i1}
    Contents = {c1, c2}
    RowLocking = TRUE
    MaxCaptures = 2
SYMMETRY ContentSymmetry
INVARIANTS
    CaptureChain
PROPERTIES
    ReviewedFrozen
    ImplementsLifecycle
CHECK_DEADLOCK FALSE
