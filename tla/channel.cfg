SPECIFICATION FairSpec
CONSTANTS
    Sizes = {1, 3}
    Limit = 1
    MaxClicks = 3
    BlobFrom = 2
INVARIANTS TypeOK NothingIsStuck FramesInOrder DeliveredWhole
PROPERTIES CourierSpec 
CHECK_DEADLOCK FALSE
