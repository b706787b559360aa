SPECIFICATION Spec
CONSTANTS
    m = m
    a = a
    b = b
    l1 = l1
    l2 = l2
    None = None
    Characters = {m, a, b}
    Master = m
    Loops = {l1, l2}
    Capacity = 2
    QueueCapacity = 1
    Cmds <- NoCmds
    Flaky = {}
    Roamers = {}
    Hosting = TRUE
    Sweeps = {}
    MaxCmds = 0
SYMMETRY LoopSymmetry
INVARIANTS OvershootBounded EveryoneIsIntroduced
CHECK_DEADLOCK FALSE
