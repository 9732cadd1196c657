SPECIFICATION Spec
CONSTANTS
    Check = {c1, c2}
    Resolution = {r1, r2}
    None = None
    Threads = 2
    Persist = TRUE
    DurableQueue = TRUE
    Overrides <- TwoOverrides
    Faults <- DiskFaults
    MaxCrashes = 1
SYMMETRY Symmetry
INVARIANTS
    NothingExecutesUnrecorded
    OneRecordPerCheck
    TicketFollowsRecord
    LogIsTree
    ResolutionIsWhole
    OverrideFollowsReview
PROPERTY KeepsPromise
