SPECIFICATION FairSpec
CONSTANTS
    m = m
    a = a
    b = b
    l1 = l1
    l2 = l2
    None = None
    Characters = {m}
    Master = m
    Loops = {l1}
    Capacity = 4
    QueueCapacity = 2
    Cmds <- SelfOrClose
    Flaky = {m}
    Roamers = {}
    Hosting = TRUE
    Sweeps = {"factory", "worker"}
    MaxCmds = 3
PROPERTIES  AbandonedIsRemoved
CHECK_DEADLOCK FALSE
