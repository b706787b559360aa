SPECIFICATION Spec
CONSTANTS
    a = a
    b = b
    c = c
    None = None
    Users = {a, b, c}
    Spelling <- OwnIds
    HashBits = 8
    Tracks = 1
    MaxClicks = 2
INVARIANTS NobodyIsShownUnasked
CHECK_DEADLOCK FALSE
