\* Two processes are given one file; five events.
SPECIFICATION Spec
CONSTANTS
    p1 = p1
    p2 = p2
    Processes = {p1, p2}
    MaxEvents = 5
SYMMETRY Symmetric
CHECK_DEADLOCK FALSE
INVARIANTS
    VerifiedIsHistory
    NothingForgotten
    AlwaysVerifies
