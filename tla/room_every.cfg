SPECIFICATION Spec
CONSTANTS
    m = m
    a = a
    b = b
    l1 = l1
    l2 = l2
    None = None
    Characters = {m, a}
    Master = m
    Loops = {l1, l2}
    Capacity = 2
    QueueCapacity = 1
    Cmds <- EveryCmd
    Flaky = {}
    Roamers = {}
    Hosting = TRUE
    Sweeps = {}
    MaxCmds = 1
INVARIANTS TypeOK 
PROPERTIES OnlyKickRemoves
SYMMETRY LoopSymmetry
CHECK_DEADLOCK FALSE
