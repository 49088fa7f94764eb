SPECIFICATION Spec
CONSTANTS
    None = None
    Text = Text
    Commands <- MCTexts
    Payloads <- MCPayloads
    Leftovers <- MCZeros
    Beyond <- MCNothing
    MaxSent = 4
    MaxLines = 3
    QueueRoom = 2
    ByteBase = 32
    MAX_TOPIC_LENGTH = 2
    MAX_CONTENT_LENGTH = 7
    ExactUpTo = 6
    WordBits = 20
INVARIANTS
    TextsShownExactly
CHECK_DEADLOCK FALSE
