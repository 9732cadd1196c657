SPECIFICATION Spec
CONSTANTS
    None = None
    Policies <- OnlyRefund
    Items <- AmountItems
    MaxItems = 2
    MaxNow = 1
CHECK_DEADLOCK FALSE
INVARIANT ComparedEvidenceIsVetted
