SPECIFICATION Spec
CONSTANTS
    Ids = {C1}
    Subs = {s1, s2}
    Patterns <- WildcardOnly
    Topics <- MCTopics
    Lines = {}
    MaxFds = 2
    Backlog = 2
    MaxTyped = 1
    MaxMessages = 1
    MaxRequests = 1
    None = None
INVARIANTS
    SurvivesDisconnects
CHECK_DEADLOCK FALSE
