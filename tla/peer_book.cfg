SPECIFICATION Spec
CONSTANTS
    Peers <- MCPeers
    Ids <- MCIds
    MaxConns = 3
    MaxMessages = 2
INVARIANTS
    TypeOK
    BookComplete
    NoneMissed
    
    SocketFollows
CHECK_DEADLOCK FALSE
