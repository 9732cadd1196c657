SPECIFICATION Spec
CONSTANTS
    Command = {c1, c2, c3}
    Action <- MCAction
    Text <- MCText
    None = None
    Empty = "empty"
    Torn = "torn"
    Drafted <- MCDrafted
    PolicyIn <- MCPolicyIn
    NumFiles = 3
    FileFor <- MCFileFor
    Shipped <- MCShipped
SYMMETRY Symmetry
INVARIANTS
    TypeOK
    LiveWasSigned
    ShippedStaysGoverned
    NothingIsShadowed
