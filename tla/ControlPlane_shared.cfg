SPECIFICATION Spec
CONSTANTS
    c1 = c1
    c2 = c2
    t1 = t1
    t2 = t2
    p = p
    q = q
    None = None
    Coordinators = {c1, c2}
    Threads = {t1}
    Plans = {p}
    Window = 2
    MaxOps = 2
    MaxCrashes = 0
CHECK_DEADLOCK FALSE
INVARIANTS ExecutedAreLocallyRecorded
