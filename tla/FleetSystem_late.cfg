SPECIFICATION Spec
CONSTANTS
    a = a
    b = b
    c = c
    None = None
    Jobs = {1}
    Workers = {a}
    Verifiers = {c}
    Budget = 2
    JoinTimesOut = TRUE
    MaxFaults = 1
INVARIANTS WithheldAfterLoss
