SPECIFICATION ServerSpec
CONSTANTS
    RawSettings <- MCRawSettings
    Tokens = {1, 2}
    Outages = {{}, {"exchange"}, {"settings.list"}, {"calendarList.get"}, {"acl.list"}}
    Unticked = {"acls.readonly"}
INVARIANTS
    OnlyWhatWasMeant
    DoctorTellsTheTruth
    HintsAreTrue
