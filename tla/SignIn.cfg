SPECIFICATION Spec
CONSTANTS
    Commands = {"k1", "k2"}
    Asked <- MCAsked
    Profiles = {"work", "home"}
    Accounts = {"ana", "bo"}
    Clients = {"desktop"}
    DefaultClient = "desktop"
    NoToken = NoToken
    Nobody = Nobody
    NoRecord = NoRecord
    Blank = Blank
    Torn = Torn
    Before = Before
    Earlier <- MCEarlier
    MaxTurns = 2
    MaxCrashes = 2
INVARIANTS
    SignedOutForgets
    RevokedOrTold
PROPERTIES
    LoginNeverSignsOut
    AllEnded
CHECK_DEADLOCK FALSE
