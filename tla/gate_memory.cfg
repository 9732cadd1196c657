SPECIFICATION FairSpec
CONSTANTS
    Check = {c1, c2}
    Resolution = {r1}
    None = None
    Threads = 3
    Persist = FALSE
    DurableQueue = FALSE
    Overrides <- TwoOverrides
    Faults <- Fault
    MaxCrashes = 1
PROPERTIES
    CallsEnd
