SPECIFICATION Spec
CONSTANTS
    Calls = {k1, k2}
    Cals <- MCCals
    Primary = "me"
    Fresh = {"new"}
    Unlisted = {"club"}
    Owned = {"me", "new"}
    PageOf <- MCPageOf
    Pages = 2
    Requests <- MCRequests
    MaxRetries = 1
    MaxEdits = 1
SYMMETRY Interchangeable
INVARIANTS
    KeptRowsAreCurrent
    StaleMeansChanged
    ClaimsLanded
CHECK_DEADLOCK FALSE
