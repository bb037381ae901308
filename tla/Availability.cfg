SPECIFICATION MCSpec
CONSTANTS
    Day = 6
    Hour = 2
    Calendars <- MCCalendars
    Groups <- MCGroups
    Named <- MCNamed
    Zones <- MCZones
    Asks <- MCAsks
    Worlds <- MCWorlds
    MaxRefs = 4
    Batch = 2
    MaxMembers = 2
    MaxAskedAgain = 3
INVARIANTS
    KnownMeansRead
    AskedAgainIsAnswered
    GapsAreTheFreeTime
CHECK_DEADLOCK FALSE
