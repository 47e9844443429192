SPECIFICATION Spec
CONSTANTS
    s1 = s1
    s2 = s2
    a = a
    b = b
    p = p
    None = None
    Sessions = {s1}
    Jobs = {1}
    Plans = {p}
    Actors = {a}
    Budgets = {2}
    LeaseSeconds = {1}
    RenewSeconds = {1}
    RetryDelays = {0}
    Receipts <- GoodAndTerse
    Prefetch = 2
    MaxClock = 1
    MaxSeq = 5
CHECK_DEADLOCK FALSE
INVARIANTS AcceptedSayUnknown
