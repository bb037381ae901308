SPECIFICATION Spec
CONSTANTS
    Days = 6
    MaxOccurrences = 4
    Calls = {c1, c2}
    Requests <- MCRequests
    Stored <- MCStored
    MaxRetries = 1
    MaxEdits = 1
SYMMETRY Interchangeable
INVARIANTS
    NothingDuplicated
    RuleDividedExactly
    LostRestIsTold
CHECK_DEADLOCK FALSE
