SPECIFICATION StatusSpec
CONSTANTS
    Day = 4
    Hour = 1
    Week = 3
    YearMonths = 2
    Lengths <- MCLengths
    Zones <- MCZones
    MaxOccurrences = 4
    MaxCandidates = 48
    Creates <- MCCreates
    Drafts <- MCDrafts
    Elsewhere <- MCElsewhere
    Limits = {1, 3}
    MaxChanges = 1
INVARIANTS
    GoogleTakesIt
    ExpansionIsTheRule
    ReachIsTrue
PROPERTIES
    WarnsOfDeclines
CHECK_DEADLOCK FALSE
