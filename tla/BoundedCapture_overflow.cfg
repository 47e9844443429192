SPECIFICATION Spec
CONSTANTS
    None = None
    Limit = 4
    Chunk = 2
    PipeSize = 3
    MaxOutput = 5
CHECK_DEADLOCK FALSE
INVARIANTS OverflowFailsClosed
