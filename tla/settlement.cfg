SPECIFICATION Spec
CONSTANTS
    ann = ann
    bob = bob
    cat = cat
    dan = dan
    Player <- MCPlayer
    Games <- MCGames
CHECK_DEADLOCK FALSE
INVARIANTS
    PairsDiffer
PROPERTIES
    EveryBalanceCleared
    ImplementsClearing
