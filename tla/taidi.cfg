SPECIFICATION Spec
CONSTANTS
    ann = ann
    bob = bob
    gus = gus
    gil = gil
    nil = nil
    None = None
    Player <- MCPlayer
    Guest <- MCGuest
    display_name <- MCNames
    RuleChoices <- BothRules
    CardInputs <- MCCards
    MaxSeq = 9
SYMMETRY TwoAndTwo
CHECK_DEADLOCK FALSE
INVARIANTS
    HostPresides
    RoundsInOrder
    OffersAreAccepted
    EveryTurnCanBeEntered
    LogExplainsBalances
PROPERTIES
    PaymentsStand
