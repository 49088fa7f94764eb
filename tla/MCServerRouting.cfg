SPECIFICATION Spec
CONSTANTS
    Ids = {C1}
    Subs = {s1, s2}
    Patterns <- MCPatterns
    Topics <- MCTwoTopics
    Lines = {"exit"}
    MaxFds = 2
    Backlog = 2
    MaxTyped = 1
    MaxMessages = 2
    MaxRequests = 2
    None = None
INVARIANTS
    TrieMirrorsTopics
    DeliveredOnceInOrder
    RoutedToEverySubscriber
    AcksTellTheTruth
PROPERTIES
    ImplementsPubSub
SYMMETRY ServerSymmetry
CHECK_DEADLOCK FALSE
