SPECIFICATION FairSpec
CONSTANTS
    None = None
    Text = Text
    Commands <- MCCommands
    Payloads <- MCPayloads
    Leftovers <- MCLeftovers
    Beyond <- MCBeyond
    MaxSent = 4
    MaxLines = 3
    QueueRoom = 2
    ByteBase = 32
    MAX_TOPIC_LENGTH = 2
    MAX_CONTENT_LENGTH = 7
    ExactUpTo = 6
    WordBits = 20
INVARIANTS
    PathTypeOK
    ReportsFollowSends
    ManualFollowsOperator
    ShownAsDescribed
    ShownInOrder
    OnlyLargeExponentsKill
PROPERTIES
    ImplementsWorkload
    RunEnds
    SentIsShown
CHECK_DEADLOCK FALSE
