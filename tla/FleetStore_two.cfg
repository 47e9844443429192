SPECIFICATION Spec
CONSTANTS
    a = a
    b = b
    c = c
    None = None
    Jobs = {1, 2}
    Plans = {7}
    Actors = {a, b}
    Budgets = {1}
    Priorities = {0, 1}
    LeaseSeconds = {1}
    RenewSeconds = {1}
    RetryDelays = {0}
    MaxWait = 0
    MaxClock = 3
    MaxInspections = 1
SYMMETRY Symmetric
INVARIANTS
    NoOvertaking
