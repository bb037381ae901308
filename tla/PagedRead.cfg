SPECIFICATION FairSpec
CONSTANTS
    Cals = {mine, team}
    LastRow = 4
    Queries <- MCQueries
    Budgets = {1, 2, 3}
    Stored <- MCStored
    MaxEdits = 1
    MaxFails = 1
INVARIANTS
    WalkComplete
    NoRowTwice
    DrainBounded
PROPERTIES
    WalkEnds
CHECK_DEADLOCK FALSE
