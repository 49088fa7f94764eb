SPECIFICATION Spec
CONSTANTS
    Ids = {C1, C2}
    Subs = {s1, s2, s3}
    Patterns <- WildcardOnly
    Topics <- MCTopics
    Lines = {}
    MaxFds = 2
    Backlog = 2
    MaxTyped = 1
    MaxMessages = 1
    MaxRequests = 2
    None = None
INVARIANTS
    TypeOK
    SessionTables
PROPERTIES
    MessagesReachSubscribersOnly
SYMMETRY ServerSymmetry
CHECK_DEADLOCK FALSE
