SPECIFICATION Spec
CONSTANTS
    None = None
    Policies <- AllPolicies
    Items <- AllItems
    MaxItems = 3
    MaxNow = 2
CHECK_DEADLOCK FALSE
INVARIANTS
    TypeOK
    AllowIsProved
    RulesOnlyTighten
    RefreshCures
    OrderMattersOnlyForTies
PROPERTIES
    EvidenceNeverUnmeets
    TimeOnlyStales
    ConflictStays
    WeakerNeverSpeaks
