\* Two coordinators, each with or without a fleet store, and two threads.
SPECIFICATION FairSpec
CONSTANTS
    c1 = c1
    c2 = c2
    t1 = t1
    t2 = t2
    p = p
    q = q
    None = None
    Coordinators = {c1, c2}
    Threads = {t1, t2}
    Plans = {p}
    Window = 2
    MaxOps = 3
    MaxCrashes = 1
CHECK_DEADLOCK FALSE
INVARIANTS
    OnlyVerifiedPlansRun
    GroupsStandTogether
    AnsweredIsRecorded
    ReportedAsRecorded
PROPERTIES
    RequestsEnd
