SPECIFICATION Spec
CONSTANTS
    None = None
    Tool <- MCTool
    Action <- MCAction
    Patterns <- MCPatterns
    PolicyOf <- MCPolicyOf
    Extractor <- MCExtractor
    Adapters <- OneAdapter
    Mappings <- MCMappings
    MaxRuns = 3
    MaxParallel = 1
    MaxSessions = 2
    MaxNow = 1
CHECK_DEADLOCK FALSE
INVARIANTS
    ReplayAgreesPerTurn
    CoverageIsHonest
