SPECIFICATION Spec
CONSTANTS
    None = None
    Tool <- MCTool
    Action <- MCAction
    Patterns <- MCPatterns
    PolicyOf <- MCPolicyOf
    Extractor <- MCExtractor
    Adapters <- BothAdapters
    Mappings <- MCMappings
    MaxRuns = 3
    MaxParallel = 2
    MaxSessions = 2
    MaxNow = 0
CHECK_DEADLOCK FALSE
INVARIANTS
    TypeOK
    EvidenceIsEarned
    PendingLeaksOnlyRefused
    SeesWhatCameBefore
PROPERTY KeepsPromise
