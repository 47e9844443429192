SPECIFICATION Spec
CONSTANTS
    r1 = r1
    r2 = r2
    h1 = h1
    h2 = h2
    None = None
    Requests = {r1}
    Handlers = {h1, h2}
    Ttls = {1, 2}
    Skews <- Ahead
    MaxTtl = 1
    ClockSkew = 1
    MaxStall = 1
    MaxClock = 3
SYMMETRY Symmetric
INVARIANTS ReplayStaysBlocked
