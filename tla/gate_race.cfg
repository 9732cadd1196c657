SPECIFICATION Spec
CONSTANTS
    Check = {c1, c2}
    Resolution = {r1}
    None = None
    Threads = 2
    Persist = TRUE
    DurableQueue = TRUE
    Overrides <- TwoOverrides
    Faults <- NoFaults
    MaxCrashes = 0
INVARIANT ChainIntact
