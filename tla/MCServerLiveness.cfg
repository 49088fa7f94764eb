SPECIFICATION FairSpec
CONSTANTS
    Ids = {C1}
    Subs = {s1, s2}
    Patterns <- WildcardOnly
    Topics <- MCTopics
    Lines = {"exit", "other"}
    MaxFds = 1
    Backlog = 2
    MaxTyped = 2
    MaxMessages = 1
    MaxRequests = 1
    None = None
PROPERTIES
    ClientsAnswered
    RequestsServed
    DatagramsRouted
    ExitReachesEveryone
CHECK_DEADLOCK FALSE
