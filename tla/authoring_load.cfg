SPECIFICATION Spec
CONSTANTS
    Command = {c1}
    Action <- MCAction
    Text <- MCText
    None = None
    Empty = "empty"
    Torn = "torn"
    Drafted <- MCDrafted
    PolicyIn <- MCPolicyIn
    NumFiles = 3
    FileFor <- MCFileFor
    Shipped <- MCShipped
INVARIANT ActivatedLoads
