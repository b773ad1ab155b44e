SPECIFICATION PageSpec
CONSTANTS
    ann = ann
    bob = bob
    cat = cat
    gus = gus
    gil = gil
    table = table
    toAnn = toAnn
    toGil = toGil
    h1 = h1
    h2 = h2
    NoOne = NoOne
    Nothing = Nothing
    Me = ann
    MovesOverlap = FALSE
    MaxElsewhere = 1
    Account = {ann, bob, cat}
    Guest = {gus, gil}
    Game = {table}
    Debt = {toAnn, toGil}
    Request = {h1, h2}
    Players <- MCPlayers
    Host <- MCHost
    RoomOf <- MCRoomOf
    Owed <- MCOwed
    ClaimsOverlap = FALSE
SYMMETRY Interchangeable
INVARIANTS
    OnePersonOneSeat
    EveryOpenDebtHasAMove
PROPERTIES
    MovesByThoseEntitled
    ClosedForGood
    OnlyNewsRefuses
    PollsNeverReopen
