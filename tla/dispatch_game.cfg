SPECIFICATION DispatchSpec
CONSTANTS
    ann = ann
    bob = bob
    gus = gus
    gil = gil
    None = None
    Player <- MCPlayer
    Guest <- MCGuest
    display_name <- MCNames
    RuleChoices <- HouseOnly
    CardInputs <- OneCount
    MaxSeq = 100
    StartRooms <- Tables
    Ops <- GameOps
    MaxRequests = 2
    Pollers <- JustBob
    DISPATCH_ATTEMPTS = 2
CHECK_DEADLOCK FALSE
PROPERTIES
    CommitsAreCommands
    LandsWhereAimed
    ShownNeverGoesBack
