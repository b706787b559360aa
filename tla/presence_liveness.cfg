SPECIFICATION FairSpec
CONSTANTS
    u1 = u1
    s1 = s1
    s2 = s2
    None = None
    Users = {u1}
    Sessions = {s1, s2}
    NumLoops = 2
    MapIds = {0, 1, 2}
    Cmds <- LoginOrBad
    MaxCmds = 2
PROPERTIES  AbsentIsForgotten
CHECK_DEADLOCK FALSE
