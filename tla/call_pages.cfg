SPECIFICATION FairSpec
CONSTANTS
    a = a
    b = b
    c = c
    None = None
    Users = {a, b, c}
    Spelling <- BadId
    HashBits = 8
    Tracks = 2
    MaxClicks = 2
INVARIANTS TypeOK ShownIsAgreed AstrayExplained CallsBounded
PROPERTIES AcceptedIsSeen
CHECK_DEADLOCK FALSE
