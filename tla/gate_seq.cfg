SPECIFICATION Spec
CONSTANTS
    Check = {c1, c2}
    Resolution = {r1, r2}
    None = None
    Threads = 1
    Persist = TRUE
    DurableQueue = TRUE
    Overrides <- Effect
    Faults <- Fault
    MaxCrashes = 1
SYMMETRY Symmetry
INVARIANTS
    TypeOK
    ParkedHasTicket
    ChainIntact
    FileBreaksOnlyByFailure
    OverrideIsAudited
    LastOverrideIsTheTickets
