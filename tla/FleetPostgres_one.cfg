SPECIFICATION Spec
CONSTANTS
    s1 = s1
    s2 = s2
    a = a
    b = b
    p = p
    None = None
    Sessions = {s1, s2}
    Jobs = {1}
    Plans = {p}
    Actors = {a, b}
    Budgets = {2}
    LeaseSeconds = {1}
    RenewSeconds <- Renewals
    RetryDelays = {0}
    Receipts <- GoodAndFailing
    Prefetch = 2
    MaxClock = 2
    MaxSeq = 5
SYMMETRY Symmetric
CHECK_DEADLOCK FALSE
INVARIANTS
    OnlyNewestLeaseCounts
    EventsMatchRows
PROPERTIES
    TakenBackWhenOver
    KeepsContract
