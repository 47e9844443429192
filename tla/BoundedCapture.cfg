\* Reads of two units, a limit of two reads, six units of output on each stream:
\* the limit is met exactly, passed by part of a read and passed by a whole one.
SPECIFICATION FairSpec
CONSTANTS
    None = None
    Limit = 4
    Chunk = 2
    PipeSize = 3
    MaxOutput = 6
CHECK_DEADLOCK FALSE
INVARIANTS
    NothingIsMissing
    ReturnedIsDead
    SuccessIsOwn
PROPERTIES
    RunsEnd
