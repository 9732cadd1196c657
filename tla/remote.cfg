SPECIFICATION FairSpec
CONSTANTS
    c1 = c1
    c2 = c2
    k1 = k1
    Call = {c1, c2}
    Request = {"refund-1"}
    Action <- MCAction
    RequestOf <- MCRequestOf
    ActionOf <- MCActionOf
    None = None
    Key = {k1}
    ServiceKey = k1
    ClientKey <- MCClientKey
    GuardKey = k1
    Guards <- MCGuards
    Offset <- ClientAhead
    Second = 2
    Ttl = 1
    MaxNow = 5
    MaxUses = 1
CHECK_DEADLOCK FALSE
INVARIANTS
    TypeOK
    AnswerIsTheVerdict
    GuardOpensInWindow
    TokenLivesItsTtl
PROPERTIES
    CallsReturn
    KeepsPromise
