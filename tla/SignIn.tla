-------------------------------- MODULE SignIn --------------------------------
(***************************************************************************)
(* Accounts of the API's own (routers/local_auth.py) and the phones signed *)
(* in to them: logging in, reset links, changing the name, the username    *)
(* and the password in Settings, signing out, and deleting the account.    *)
(*                                                                         *)
(* A token carries the name its account had when it was issued, and every  *)
(* request refreshes the directory from the token it came with.  A request *)
(* reads the account, writes it, reads it again and refreshes the          *)
(* directory in steps of their own, and may outlive the page that made it. *)
(* Signing up, and which usernames are free, is the matter of SignUp;      *)
(* changing the address is left out.                                       *)
(***************************************************************************)
EXTENDS Naturals, FiniteSets

CONSTANTS
    Holder, NoHolder,
    Phone,
    MaxExchanges   \* bound: the requests made in all; they also number names and passwords

ASSUME SignInAssumption == NoHolder \notin Holder /\ MaxExchanges \in Nat

VARIABLES
    registered,  \* the rows of test_accounts: name, password and reset link
    directory,   \* the names in the table users
    handles,     \* whose rows of that table have a username
    remembered,  \* the accounts whose tokens the API refuses as deleted
    sessions,    \* what each phone has stored of its session
    exchanges,   \* the requests under way
    begun,       \* how many were begun
    links,       \* the reset links sent, with their accounts
    told,        \* the password last confirmed to each holder (history)
    muddled,     \* whose password changes overlapped or went unanswered (history)
    overtaken    \* whose deletion overtook a request that sets a username (history)

signInVars ==
    <<registered, directory, handles, remembered, sessions, exchanges, begun, links, told, muddled,
      overtaken>>

-----------------------------------------------------------------------------
NoAccount == {}

NoLink == 0

DELETED_NAME == MaxExchanges + 1

SignedOut == [who |-> NoHolder, name |-> 0]

\* Everyone has an account and is signed in nowhere; names and passwords are numbered.
\* An account has no username if the first request that should have given it one failed.
SignInInit ==
    /\ registered = [h \in Holder |-> {[name |-> 0, password |-> 0, link |-> NoLink]}]
    /\ directory = [h \in Holder |-> 0] /\ handles \in SUBSET Holder
    /\ remembered = {} /\ exchanges = {} /\ begun = 0 /\ links = {}
    /\ sessions = [ph \in Phone |-> SignedOut]
    /\ told = [h \in Holder |-> 0]
    /\ muddled = {} /\ overtaken = {}

PasswordOps == {"password", "confirm"}

ChangingPassword(h) == {c \in exchanges : c.who = h /\ c.op \in PasswordOps}

-----------------------------------------------------------------------------
(* The phone. *)

getStoredAuth(ph) == sessions[ph]

\* The button of a form is disabled while the page waits for its answer.
Busy(ph, ops) == \E c \in exchanges : c.phone = ph /\ c.op \in ops /\ c.mounted

\* A request of phone ph about account h; seen is the name in its token, later the
\* name read from the account.
Send(ph, op, h, value) ==
    /\ begun < MaxExchanges /\ begun' = begun + 1
    /\ exchanges' = exchanges \cup
        {[phone |-> ph, op |-> op, who |-> h, value |-> value, seen |-> sessions[ph].name,
          stage |-> "sent", mounted |-> TRUE, heard |-> TRUE, no |-> begun + 1]}
    /\ muddled' = IF op \in PasswordOps /\ ChangingPassword(h) # {} THEN muddled \cup {h} ELSE muddled
    /\ UNCHANGED <<registered, directory, handles, remembered, sessions, links, told, overtaken>>

signInWithPassword(ph, h, password) == Send(ph, "login", h, password)

requestPasswordReset(ph, h) == Send(ph, "forgot", h, 0)

confirmLocalPasswordReset(ph, link, password) ==
    Send(ph, "confirm", link.who, [link |-> link.no, password |-> password])

updateLocalAccount(ph, field, value) == Send(ph, field, sessions[ph].who, value)

\* One form is shown at a time, and all of them share busy.
SignInForm(ph) == getStoredAuth(ph) = SignedOut /\ ~Busy(ph, {"login", "forgot"})

\* Any password may be tried.
handleLogin(ph, h, password) == SignInForm(ph) /\ signInWithPassword(ph, h, password)

handleForgot(ph, h) == SignInForm(ph) /\ requestPasswordReset(ph, h)

\* A reset link is opened on any phone, signed in or not, and sets a new password.
NewPasswordForm(ph) == ~Busy(ph, {"confirm"})

handleSetPassword(ph, link) ==
    NewPasswordForm(ph) /\ confirmLocalPasswordReset(ph, link, begun + 1)

DisplayNameRow(ph) ==
    /\ getStoredAuth(ph) # SignedOut /\ ~Busy(ph, {"name"})
    /\ updateLocalAccount(ph, "name", begun + 1)

\* Setting a username that is not the one of the profile.
setUsername(ph) ==
    /\ getStoredAuth(ph) # SignedOut /\ ~Busy(ph, {"username"})
    /\ Send(ph, "username", sessions[ph].who, 0)

AccountForms(ph) == getStoredAuth(ph) # SignedOut /\ ~Busy(ph, {"password"})

handleSavePassword(ph) == AccountForms(ph) /\ updateLocalAccount(ph, "password", begun + 1)

confirmDelete(ph) ==
    /\ getStoredAuth(ph) # SignedOut /\ ~Busy(ph, {"delete"})
    /\ Send(ph, "delete", sessions[ph].who, 0)

\* Any other page of the app.
request(ph) ==
    /\ getStoredAuth(ph) # SignedOut
    /\ Send(ph, "other", sessions[ph].who, 0)

Unmounted(ph, cs) == {[c EXCEPT !.mounted = @ /\ c.phone # ph] : c \in cs}

\* What is under way is not called off.
signOut(ph, cs) ==
    /\ sessions' = [sessions EXCEPT ![ph] = SignedOut]
    /\ exchanges' = Unmounted(ph, cs)

handleSignOut(ph) ==
    /\ getStoredAuth(ph) # SignedOut
    /\ signOut(ph, exchanges)
    /\ UNCHANGED <<registered, directory, handles, remembered, begun, links, told, muddled, overtaken>>

\* The session that was handed out is stored, whoever uses the phone by now.
storeLocalSession(c) ==
    /\ c.stage = "answered" /\ c.heard /\ c.op \in {"login", "confirm", "name", "password"}
    /\ sessions' = [sessions EXCEPT ![c.phone] = [who |-> c.who, name |-> c.seen]]
    /\ exchanges' = exchanges \ {c}
    /\ told' = IF c.op = "password" THEN [told EXCEPT ![c.who] = c.value]
               ELSE IF c.op = "confirm" THEN [told EXCEPT ![c.who] = c.value.password] ELSE told
    /\ UNCHANGED <<registered, directory, handles, remembered, begun, links, muddled, overtaken>>

\* After the deletion the phone signs out.
deleteAccount(c) ==
    /\ c.stage = "answered" /\ c.heard /\ c.op = "delete"
    /\ signOut(c.phone, exchanges \ {c})
    /\ UNCHANGED <<registered, directory, handles, remembered, begun, links, told, muddled, overtaken>>

\* Refused, or no answer came; what is not carried out yet may still be.
NotDone(c) ==
    /\ c.heard
    /\ exchanges' = (exchanges \ {c}) \cup
        {d \in {[c EXCEPT !.heard = FALSE, !.mounted = FALSE]} : c.stage \notin {"refused", "answered"}}
    /\ muddled' = IF c.op \in PasswordOps /\ c.stage # "refused" THEN muddled \cup {c.who} ELSE muddled
    /\ UNCHANGED <<registered, directory, handles, remembered, sessions, begun, links, told, overtaken>>

-----------------------------------------------------------------------------
(* The API. *)

\* An answer nobody waits for is dropped.
At(c, stage) ==
    exchanges' = (exchanges \ {c}) \cup
        {d \in {[c EXCEPT !.stage = stage]} : c.heard \/ stage \notin {"answered", "refused"}}

NotesUnchanged == UNCHANGED <<sessions, begun, told, muddled, overtaken>>

\* get_current_user asks no database: tokens of recently deleted accounts are refused.
get_current_user(c) == c.op \in {"login", "forgot", "confirm"} \/ c.who \notin remembered

\* The account is read: the row for a login or a change, the reset link's for a new password.
_account(c) ==
    {row \in registered[c.who] :
        CASE c.op = "login" -> row.password = c.value
          [] c.op = "confirm" -> row.link = c.value.link
          [] OTHER -> TRUE}

\* login goes on to hand out a session for the row as read, the others to write.
AccountRead(c) ==
    /\ c.stage = "sent" /\ c.op \in {"login", "confirm", "name", "password"}
    /\ IF ~get_current_user(c) \/ _account(c) = NoAccount THEN At(c, "refused")
       ELSE \E row \in _account(c) :
            exchanges' = (exchanges \ {c}) \cup
                {[c EXCEPT !.seen = row.name, !.stage = IF c.op = "login" THEN "session" ELSE "found"]}
    /\ NotesUnchanged /\ UNCHANGED <<registered, directory, handles, remembered, links>>

\* Mutant: a field that was not sent is written as if it were empty.
update_account_Whole(c, row) ==
    CASE c.op = "name" -> [row EXCEPT !.name = c.value, !.password = 0]
      [] c.op = "password" -> [row EXCEPT !.password = c.value]
      [] c.op = "confirm" -> [row EXCEPT !.password = c.value.password, !.link = NoLink]

\* Only what was sent is written; a link that was used is cleared.
update_account(c, row) ==
    CASE c.op = "name" -> [row EXCEPT !.name = c.value]
      [] c.op = "password" -> [row EXCEPT !.password = c.value]
      [] c.op = "confirm" -> [row EXCEPT !.password = c.value.password, !.link = NoLink]

\* The update finds no row if the account is gone.
AccountWritten(c) ==
    /\ c.stage = "found"
    /\ registered' = [registered EXCEPT ![c.who] = {update_account(c, row) : row \in @}]
    /\ At(c, "written")
    /\ NotesUnchanged /\ UNCHANGED <<directory, handles, remembered, links>>

AccountReadAgain(c) ==
    /\ c.stage = "written"
    /\ IF registered[c.who] = NoAccount THEN At(c, "refused")
       ELSE \E row \in registered[c.who] :
            exchanges' = (exchanges \ {c}) \cup {[c EXCEPT !.seen = row.name, !.stage = "session"]}
    /\ NotesUnchanged /\ UNCHANGED <<registered, directory, handles, remembered, links>>

\* Mutant: a token from before the deletion writes its name back.
InDirectory_Always(h, name) == [directory EXCEPT ![h] = name]

\* A deleted account stays deleted.
InDirectory(h, name) ==
    IF directory[h] = DELETED_NAME THEN directory ELSE [directory EXCEPT ![h] = name]

\* A username is still to be set, a session to be handed out, or nothing is left to do.
GoesOn(c) ==
    CASE c.op = "username" -> At(c, "known")
      [] c.op = "other" -> exchanges' = exchanges \ {c}
      [] OTHER -> At(c, "answered")

\* ensure_user: the row takes the name of the account or the token; one that was not
\* deleted and has no username is to be given one.
InDirectoryNow(c) ==
    /\ directory' = InDirectory(c.who, c.seen)
    /\ IF directory[c.who] # DELETED_NAME /\ c.who \notin handles THEN At(c, "nameless")
       ELSE GoesOn(c)

_session_for(c) ==
    /\ c.stage = "session"
    /\ InDirectoryNow(c)
    /\ NotesUnchanged /\ UNCHANGED <<registered, handles, remembered, links>>

\* GET /users/me and the like, and setting a username.
Served(c) ==
    /\ c.stage = "sent" /\ c.op \in {"other", "username"}
    /\ IF get_current_user(c) THEN InDirectoryNow(c)
       ELSE exchanges' = exchanges \ {c} /\ UNCHANGED directory
    /\ NotesUnchanged /\ UNCHANGED <<registered, handles, remembered, links>>

\* The username is written, or is found taken, without another look at the row, which
\* may have been emptied by a deletion.
UsernameWritten(c) ==
    /\ handles' \in {handles, handles \cup {c.who}}
    /\ NotesUnchanged /\ UNCHANGED <<registered, directory, remembered, links>>

\* assign_username, then what the request was for.
UsernameGiven(c) == c.stage = "nameless" /\ GoesOn(c) /\ UsernameWritten(c)

\* set_username.
put_username(c) == c.stage = "known" /\ exchanges' = exchanges \ {c} /\ UsernameWritten(c)

\* A new link replaces the last one; nothing is said of an address without an account.
request_password_reset(c) ==
    /\ c.stage = "sent" /\ c.op = "forgot"
    /\ registered' = [registered EXCEPT ![c.who] = {[row EXCEPT !.link = c.no] : row \in @}]
    /\ links' = links \cup {l \in {[no |-> c.no, who |-> c.who]} : registered[c.who] # NoAccount}
    /\ exchanges' = exchanges \ {c}
    /\ NotesUnchanged /\ UNCHANGED <<directory, handles, remembered>>

LinkExpires(h) ==
    /\ \E row \in registered[h] : row.link # NoLink
    /\ registered' = [registered EXCEPT ![h] = {[row EXCEPT !.link = NoLink] : row \in @}]
    /\ NotesUnchanged /\ UNCHANGED <<directory, handles, remembered, exchanges, links>>

\* One transaction, refused during a game or over open debts; a repetition finds nothing
\* left.
delete_account(c) ==
    /\ c.stage = "sent" /\ c.op = "delete"
    /\ \/ At(c, "refused") /\ UNCHANGED <<registered, directory, handles>>
       \/ /\ get_current_user(c)
          /\ registered' = [registered EXCEPT ![c.who] = NoAccount]
          /\ directory' = [directory EXCEPT ![c.who] = DELETED_NAME]
          /\ handles' = handles \ {c.who}
          /\ At(c, "deleted")
    /\ NotesUnchanged /\ UNCHANGED <<remembered, links>>

\* The requests of h that will still write its username, if it is free.
SettingUsername(h) == {d \in exchanges : d.who = h /\ d.stage \in {"nameless", "known"}}

\* From here on tokens of the account are refused.
remember_deleted(c) ==
    /\ c.stage = "deleted"
    /\ remembered' = remembered \cup {c.who}
    /\ At(c, "answered")
    /\ overtaken' = overtaken \cup {h \in {c.who} : h \in handles \/ SettingUsername(h) # {}}
    /\ UNCHANGED <<registered, directory, handles, sessions, begun, links, told, muddled>>

\* What is remembered is lost when the API restarts, and after two hours.
Forgotten ==
    /\ remembered # {}
    /\ remembered' = {}
    /\ NotesUnchanged /\ UNCHANGED <<registered, directory, handles, exchanges, links>>

SignInNext ==
    \/ \E ph \in Phone :
        \/ \E h \in Holder :
            handleForgot(ph, h) \/ \E password \in 0..begun : handleLogin(ph, h, password)
        \/ \E link \in links : handleSetPassword(ph, link)
        \/ DisplayNameRow(ph) \/ setUsername(ph) \/ handleSavePassword(ph)
        \/ confirmDelete(ph) \/ request(ph) \/ handleSignOut(ph)
    \/ \E c \in exchanges :
        \/ storeLocalSession(c) \/ deleteAccount(c) \/ NotDone(c)
        \/ AccountRead(c) \/ AccountWritten(c) \/ AccountReadAgain(c) \/ _session_for(c)
        \/ Served(c) \/ UsernameGiven(c) \/ put_username(c)
        \/ request_password_reset(c) \/ delete_account(c) \/ remember_deleted(c)
    \/ \E h \in Holder : LinkExpires(h)
    \/ Forgotten

SignInSpec == SignInInit /\ [][SignInNext]_signInVars

-----------------------------------------------------------------------------
(* Properties. *)

\* A deleted account keeps no display name, whatever old tokens on other phones, requests
\* that were under way and a restart of the API bring back: ensure_user writes no name to
\* a deleted row.  Nor does it get a username again while the API remembers it, unless a
\* request had come past get_current_user before.  (auth.py:222 has it that even with an
\* old token after a restart "the users row can't be revived", but set_username and
\* assign_username do not look whether the row was deleted.)
DeletedStaysDeleted ==
    \A h \in Holder :
        /\ registered[h] = NoAccount => directory[h] = DELETED_NAME
        /\ h \in remembered \ overtaken => h \notin handles

\* The password last confirmed as saved is the one that logs in, across reset links and
\* changes of the name that overlap it on other phones, unless two changes of the
\* password overlapped or one went unanswered.
SavedPasswordWorks ==
    \A h \in Holder \ muddled :
        ChangingPassword(h) = {} => \A row \in registered[h] : row.password = told[h]
=============================================================================
