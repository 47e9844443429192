SPECIFICATION Spec
CONSTANTS
    a = a
    b = b
    c = c
    None = None
    Jobs = {1}
    Workers = {a, b}
    Verifiers = {c}
    Budget = 2
    JoinTimesOut = FALSE
    MaxFaults = 1
INVARIANTS WithheldAfterLoss
