SPECIFICATION Spec
CONSTANTS
    Calls = {k1}
    Requests <- MCRequests
    Addresses = {"me", "ana", "out"}
    Me = "me"
    Insiders = {"me", "ana"}
    Domains = {"dom"}
    Listed <- MCListed
    PageOf <- MCPageOf
    Pages = 2
    MaxRetries = 1
    MaxEdits = 2
    EditRoles = {0, 2, 4}
INVARIANTS
    EachToolWithinItsReach
    LandsOnce
    OnlyUnseenRulesReplaced
CHECK_DEADLOCK FALSE
