\* Two pull requests at most, and up to two releases after the first.
SPECIFICATION Spec
CONSTANTS
    Items <- MCItems
    Schema <- MCSchema
    Values <- MCValues
    TypesOf <- MCTypesOf
    FirstSurface <- MCFirst
    NewForms <- MCNewForms
    Versions <- MCVersions
    MaxMerges = 2
INVARIANTS
    BaselineIsWhatShipped
    EveryChangeNamed
PROPERTIES
    MinorKeepsCallers
CHECK_DEADLOCK FALSE
