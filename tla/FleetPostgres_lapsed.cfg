\* Three leases that are over, and a loop that fetches two rows at a time.
SPECIFICATION FairFromAllLapsed
CONSTANTS
    s1 = s1
    s2 = s2
    a = a
    b = b
    p = p
    None = None
    Sessions = {s1, s2}
    Jobs = {1, 2, 3}
    Plans = {p}
    Actors = {a, b}
    Budgets = {2}
    LeaseSeconds = {1}
    RenewSeconds = {1}
    RetryDelays = {0}
    Receipts <- GoodOnly
    Prefetch = 2
    MaxClock = 2
    MaxSeq = 11
CHECK_DEADLOCK FALSE
INVARIANTS
    ChainVerifies
    CirclesNeedReaps
PROPERTIES
    CallsEnd
