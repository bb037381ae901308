SPECIFICATION Spec
CONSTANTS
    Calls = {c1}
    Events <- MCEvents
    SeriesOf <- MCSeriesOf
    Guests = {"me", "ann", "out"}
    Me = "me"
    Outside = {"out"}
    Hidden = {"out"}
    Titles = {"t0", "t1"}
    Keep = "keep"
    Requests <- MCEveryRequest
    Stored <- MCStoredAny
    MaxRetries = 1
    MaxEdits = 1
INVARIANTS
    CallerEtagDecides
    MoveMayLandOnce
    OwnDeleteNotDenied
PROPERTIES
    ImplementsAtomic
    AllAnswered
CHECK_DEADLOCK FALSE
