SPECIFICATION OpenSpec
CONSTANTS
    ann = ann
    bob = bob
    cat = cat
    dan = dan
    gus = gus
    gil = gil
    None = None
    Player <- SixPlayers
    Guest <- MCGuest
    display_name <- MCNames
    RuleChoices <- ForChips
    SeatMaps <- PairMaps
    SeatInputs <- AnySeat
    TaiInputs <- AnyTai
    MAX_WINDS = 1
    MaxSeq = 5
SYMMETRY AnyAccounts
CHECK_DEADLOCK FALSE
INVARIANTS
    EverySeatOnePlayer
    LedgerMatchesBalances
    OffersAreAccepted
    EveryTurnCanBeEntered
