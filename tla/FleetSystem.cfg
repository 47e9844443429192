SPECIFICATION FairSpec
CONSTANTS
    a = a
    b = b
    c = c
    None = None
    Jobs = {1}
    Workers = {a}
    Verifiers = {c}
    Budget = 2
    JoinTimesOut = TRUE
    MaxFaults = 2
INVARIANTS
    ReportsAreTrue
    RunsWithinBudget
    VerifiedIsEarned
PROPERTIES
    JobsEnd
