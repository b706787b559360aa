SPECIFICATION Spec
CONSTANTS
    u1 = u1
    s1 = s1
    s2 = s2
    None = None
    Users = {u1}
    Sessions = {s1, s2}
    NumLoops = 2
    MapIds = {0, 1, 2}
    Cmds <- EveryKind
    MaxCmds = 3
INVARIANTS TypeOK AdmittedHasCharacter LiveIsFound UntoldIsCurrent
SYMMETRY SessionSymmetry
CHECK_DEADLOCK FALSE
