SPECIFICATION Spec
CONSTANTS
    a = a
    b = b
    c = c
    None = None
    Jobs = {1}
    Plans = {7}
    Actors = {a, b}
    Budgets = {2}
    Priorities = {0}
    LeaseSeconds = {1}
    RenewSeconds <- Renewals
    RetryDelays <- Delays
    MaxWait = 1
    MaxClock = 4
    MaxInspections = 2
SYMMETRY Symmetric
INVARIANTS
    OnlyNewestLeaseCounts
    NoJobIsStranded
    ReceiptFromNewestLease
    VerdictIsIndependent
    LedgerBalances
PROPERTIES
    DeadlinesBind
    KeepsContract
