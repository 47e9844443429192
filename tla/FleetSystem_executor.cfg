SPECIFICATION Spec
CONSTANTS
    a = a
    b = b
    c = c
    None = None
    Jobs = {1}
    Workers = {a, b}
    Verifiers = {b}
    Budget = 2
    JoinTimesOut = TRUE
    MaxFaults = 0
INVARIANTS ExecutorNeverInspects
