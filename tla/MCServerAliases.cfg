SPECIFICATION Spec
CONSTANTS
    Ids = {C1}
    Subs = {s1, s2}
    Patterns <- MCAliases
    Topics <- MCAliasTopic
    Lines = {}
    MaxFds = 2
    Backlog = 2
    MaxTyped = 1
    MaxMessages = 1
    MaxRequests = 3
    None = None
INVARIANTS
    RoutedToEverySubscriber
CHECK_DEADLOCK FALSE
