SPECIFICATION FairSpec
CONSTANTS
    None = None
    Rooms = {r, s}
    Adders = {a, b}
    Capacity = 1
    MaxWorkers = 2
    MaxSweeps = 1
    Hosting = TRUE
INVARIANTS TypeOK NoMissedWakeup OneThreadUpdates
 
CHECK_DEADLOCK FALSE
