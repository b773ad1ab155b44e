SPECIFICATION MCSpec
CONSTANTS
    ann = ann
    bob = bob
    cat = cat
    dan = dan
    gus = gus
    Me = ann
    None = None
    Player <- AllPlayers
    Guest <- MCGuest
    display_name <- MCNames
    RuleChoices <- ForFree
    SeatMaps <- NoMaps
    SeatInputs <- NoSeats
    TaiInputs <- NoTai
    MAX_WINDS = 1
    MaxSeq = 4
CHECK_DEADLOCK FALSE
INVARIANTS
    DealFollowsTheRule
    OnlyNewsRefuses
PROPERTIES
    ClosedHandsAreFinal
    FlowHitsItsHand
    SwapsTradeSeats
