SPECIFICATION Spec
CONSTANTS
    m = m
    a = a
    b = b
    l1 = l1
    l2 = l2
    None = None
    Characters = {m, a}
    Master = m
    Loops = {l1}
    Capacity = 4
    QueueCapacity = 2
    Cmds <- KickOrClose
    Flaky = {}
    Roamers = {a}
    Hosting = TRUE
    Sweeps = {"factory", "worker"}
    MaxCmds = 4
INVARIANTS StageFollowsCount ClosedExactlyByMaster QueueIsFifo StaysHosted
PROPERTIES MailboxSpec
CHECK_DEADLOCK FALSE
