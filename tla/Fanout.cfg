SPECIFICATION FairSpec
CONSTANTS
    N = 2
    MessageLen = 2
    AckLen = 1
    DownRoom = 1
    UpRoom = 1
    Pausing = {1}
    MaxMessages = 3
    MaxRequests = 1
INVARIANTS
    TypeOK
    BytesConserved
    OnePace

    
    
CHECK_DEADLOCK FALSE
