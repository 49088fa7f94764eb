SPECIFICATION Spec
CONSTANTS
    RequestLen = 2
    MessageLen = 3
    UpRoom = 3
    DownRoom = 3
    MaxLines = 3
    MaxMessages = 1
INVARIANTS
    RequestsIntact
CHECK_DEADLOCK FALSE
