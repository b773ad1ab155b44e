SPECIFICATION DispatchSpec
CONSTANTS
    ann = ann
    bob = bob
    gus = gus
    gil = gil
    None = None
    Player <- LobbyPlayer
    Guest <- LobbyGuest
    display_name <- MCNames
    RuleChoices <- HouseOnly
    CardInputs <- OneCount
    MaxSeq = 100
    StartRooms <- Lobbies
    Ops <- LobbyOps
    MaxRequests = 2
    Pollers <- Both
    DISPATCH_ATTEMPTS = 1
CHECK_DEADLOCK FALSE
INVARIANTS
    ConflictBringsNews
PROPERTIES
    EveryTapAnswered
