SPECIFICATION Spec
CONSTANTS
    a1 = a1
    a2 = a2
    a3 = a3
    s1 = s1
    s2 = s2
    w1 = w1
    w2 = w2
    none = none
    None = none
    Streams = {a1}
    Saves = {s1}
    Workers = {w1}
    RowLocking = TRUE
    MaxTokens = 1
    Texts <- SpacedTexts
PROPERTIES
    NothingOverwritten
CHECK_DEADLOCK FALSE
