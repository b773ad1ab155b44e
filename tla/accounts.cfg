\* Two newcomers, on the home page or on one a shared link leads to; an account of the
\* API's own on two phones; the profiles of two accounts on one phone.
SPECIFICATION AccountsSpec
CONSTANTS
    kim = kim
    lee = lee
    joe = joe
    tablet = tablet
    mobile = mobile
    ann = ann
    ben = ben
    nobody = nobody
    Newcomer <- MCNewcomer
    NoHandle <- nobody
    Wanted <- MCWanted
    Suggested <- MCSuggested
    Pages <- MCAnyPage
    LocalMode = TRUE
    ConfirmEmail = FALSE
    MaxAttempts = 4
    MaxEdits = 3
    Holder <- MCHolder
    NoHolder <- nobody
    Phone <- MCPhone
    MaxExchanges = 3
    Account <- MCAccount
    Nobody <- nobody
    Edited <- MCEdited
    Played <- MCPlayed
    MaxSaves = 2
    MaxTaps = 2
    MaxVisits = 2
CONSTRAINT Bounded
CHECK_DEADLOCK FALSE
INVARIANTS
    HandleOrNoticeAtHome
    DeletedStaysDeleted
    SavedPasswordWorks
    DeviceFollowsProfile
    ShownIsStored
