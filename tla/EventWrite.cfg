SPECIFICATION Spec
CONSTANTS
    Calls = {c1, c2}
    Events <- MCEvents
    SeriesOf <- MCSeriesOf
    Guests = {"me", "out"}
    Me = "me"
    Outside = {"out"}
    Hidden = {}
    Titles = {"t0", "t1"}
    Keep = "keep"
    Requests <- MCRequests
    Stored <- MCStoredInside
    MaxRetries = 1
    MaxEdits = 1
SYMMETRY Interchangeable
INVARIANTS
    LandsAsFirstPlanned
    NobodyReachedUnasked
PROPERTIES
    OthersKept
CHECK_DEADLOCK FALSE
