\* Supabase accounts: the claim overlaps the top bar's first request.
SPECIFICATION SignUpSpec
CONSTANTS
    kim = kim
    lee = lee
    nohandle = nohandle
    Newcomer <- MCNewcomer
    NoHandle <- nohandle
    Wanted <- MCWanted
    Suggested <- MCSuggested
    Pages <- MCHomePage
    LocalMode = FALSE
    ConfirmEmail = FALSE
    MaxAttempts = 4
    MaxEdits = 3
CHECK_DEADLOCK FALSE
INVARIANTS
    HandleOrNotice
