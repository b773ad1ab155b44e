\* Two people and their requests; a group of up to two of three people; one person with
\* the form of a new room, and one in and out of rooms.
SPECIFICATION PagesSpec
CONSTANTS
    ann = ann
    ben = ben
    cat = cat
    dan = dan
    eve = eve
    nobody = nobody
    Account <- MCAccount
    Nobody <- nobody
    MaxTaps = 4
    Person <- MCPerson
    Unowned <- nobody
    MAX_GROUP_MEMBERS = 2
    MaxRequests = 4
    Stored <- MCStored
    Texts <- MCTexts
    MaxActs = 3
    MaxAsks = 2
    MaxEvents = 3
SYMMETRY Alike
CONSTRAINT Unexcused
CHECK_DEADLOCK FALSE
INVARIANTS
    OnlyByConsent
    MutualAddsMakeFriends
    OwnerAmongMembers
    RulesAgree
    OneGameAtATime
    StakesAreCents
