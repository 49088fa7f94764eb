SPECIFICATION FairSpec
CONSTANTS
    RequestLen = 2
    MessageLen = 3
    UpRoom = 3
    DownRoom = 3
    MaxLines = 3
    MaxMessages = 1
INVARIANTS
    TypeOK
    FramesIntact
    ReadsAccountedFor
PROPERTIES
    LinesHandled
    TrafficArrives
CHECK_DEADLOCK FALSE
