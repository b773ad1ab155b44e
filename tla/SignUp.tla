-------------------------------- MODULE SignUp --------------------------------
(***************************************************************************)
(* Signing up with a username: the form of                                 *)
(* web/src/components/SupabaseAuthForm.tsx, one phone for each person, and *)
(* the usernames of api/app/users_service.py.                              *)
(*                                                                         *)
(* The username is checked while it is typed, again when the form is sent, *)
(* and claimed once the account exists; everyone without one is given one  *)
(* by the first request the API sees (ensure_user).  The phone sends such  *)
(* a request of its own once it is signed in.  The form is on the home     *)
(* page and on the pages shared links lead to.  Well-formed names are      *)
(* tried.                                                                  *)
(***************************************************************************)
EXTENDS Naturals, FiniteSets

CONSTANTS
    Newcomer, NoHandle,
    Wanted,        \* the usernames people try
    Suggested,     \* the username each name suggests
    Pages,         \* the pages with the form: "home", "claim", "join"
    LocalMode,     \* whether the accounts are the API's own, else Supabase's
    ConfirmEmail,  \* whether Supabase lets in nobody before the address is confirmed
    MaxAttempts,   \* bound: the variants of a suggestion that are tried (50 in the code)
    MaxEdits       \* bound: the times a username is typed

\* A suggestion's variants are numbered; a username is a base and a number.
suggestion(p, attempt) == <<Suggested[p], attempt>>

ASSUME SignUpAssumption ==
    /\ NoHandle \notin Wanted /\ <<NoHandle>> \notin Wanted
    /\ DOMAIN Suggested = Newcomer
    /\ Pages # {} /\ Pages \subseteq {"home", "claim", "join"}
    /\ LocalMode \in BOOLEAN /\ ConfirmEmail \in BOOLEAN
    /\ MaxAttempts \in Nat \ {0} /\ MaxEdits \in Nat

VARIABLES
    accounts,  \* who has an account to sign in with
    users,     \* the usernames in the table users; Unlisted without a row
    form,      \* the form on each phone
    handling,  \* the requests of the signed-in phones
    edited     \* how many times a username was typed

signUpVars == <<accounts, users, form, handling, edited>>

-----------------------------------------------------------------------------
Unlisted == <<NoHandle>>

NoCheck == [for |-> NoHandle, available |-> FALSE]

\* check is the last answer, asking the check under way and what the API found;
\* stage is how far a sent form has come, want the username it was sent with, until
\* the person is told that signing up failed.
SignUpInit ==
    /\ accounts = {}
    /\ users = [p \in Newcomer |-> Unlisted]
    /\ form \in [Newcomer -> {[page |-> page, typed |-> NoHandle, check |-> NoCheck,
                               asking |-> "no", stage |-> "editing", want |-> NoHandle,
                               notice |-> FALSE] : page \in Pages}]
    /\ handling = {} /\ edited = 0

username_taken(h, ignoring) == \E p \in Newcomer \ ignoring : users[p] = h

-----------------------------------------------------------------------------
(* The form. *)

\* The answer counts for what is typed now only.
handleResult(f) == IF f.check.for = f.typed THEN f.check ELSE NoCheck

\* The button needs a username that was found available.
SignUpForm(f) == f.stage = "editing" /\ f.typed # NoHandle /\ handleResult(f).available

\* Typing calls off the check under way; the fields can be edited while a sent form waits.
Type(p, h) ==
    /\ form[p].stage # "in" /\ form[p].typed # h /\ edited < MaxEdits
    /\ form' = [form EXCEPT ![p].typed = h, ![p].asking = "sent"]
    /\ edited' = edited + 1
    /\ UNCHANGED <<accounts, users, handling>>

username_available(p) ==
    /\ form[p].asking = "sent"
    /\ form' = [form EXCEPT ![p].asking =
                    IF username_taken(form[p].typed, {}) THEN "taken" ELSE "free"]
    /\ UNCHANGED <<accounts, users, handling, edited>>

\* A check that fails strands nobody: the claim validates too.
HandleChecked(p) ==
    /\ form[p].asking # "no" /\ form[p].stage # "in"
    /\ \E failed \in BOOLEAN :
        /\ form[p].asking = "sent" => failed
        /\ form' = [form EXCEPT ![p].asking = "no",
                                ![p].check = [for |-> form[p].typed,
                                              available |-> failed \/ form[p].asking = "free"]]
    /\ UNCHANGED <<accounts, users, handling, edited>>

handleSignup(p) ==
    /\ SignUpForm(form[p])
    /\ form' = [form EXCEPT ![p].stage = "checking", ![p].want = form[p].typed]
    /\ UNCHANGED <<accounts, users, handling, edited>>

\* The check is made again, or fails.
Rechecked(p) ==
    /\ form[p].stage = "checking"
    /\ form' = IF username_taken(form[p].want, {})
               THEN [form EXCEPT ![p].stage = "editing", ![p].want = NoHandle,
                                 ![p].check = [for |-> form[p].want, available |-> FALSE]]
               ELSE [form EXCEPT ![p].stage = "signing up"]
    /\ UNCHANGED <<accounts, users, handling, edited>>

RecheckFailed(p) ==
    /\ form[p].stage = "checking"
    /\ form' = [form EXCEPT ![p].stage = "signing up"]
    /\ UNCHANGED <<accounts, users, handling, edited>>

Ask(p, op) == [user |-> p, op |-> op, stage |-> "sent", attempt |-> 1, heard |-> TRUE]

\* The session is announced: the top bar loads the profile, and the form goes on to claim.
Announced(p, others) ==
    /\ form' = [form EXCEPT ![p].stage = "claiming"]
    /\ handling' = others \cup {Ask(p, "me"), Ask(p, "claim")}

\* In local mode the API lists the account before it hands out the session.  If the
\* address is to be confirmed there is no session, and nothing more is said or done of
\* the username.
signUpWithPassword(p) ==
    /\ form[p].stage = "signing up" /\ p \notin accounts
    /\ accounts' = accounts \cup {p}
    /\ IF LocalMode
       THEN /\ handling' = handling \cup {Ask(p, "signup")}
            /\ form' = [form EXCEPT ![p].stage = "listing"]
       ELSE IF ConfirmEmail
       THEN form' = [form EXCEPT ![p].stage = "editing"] /\ UNCHANGED handling
       ELSE Announced(p, handling)
    /\ UNCHANGED <<users, edited>>

\* An address that has an account is refused; an answer may be lost, too.
SignUpFailed(p) ==
    /\ form[p].stage \in {"signing up", "listing"}
    /\ form' = [form EXCEPT ![p].stage = "editing", ![p].want = NoHandle]
    /\ \/ form[p].stage = "signing up" /\ UNCHANGED handling
       \/ \E r \in handling :
            /\ r.user = p /\ r.op = "signup" /\ r.heard
            /\ handling' = (handling \ {r}) \cup {[r EXCEPT !.heard = FALSE]}
    /\ UNCHANGED <<accounts, users, edited>>

\* Mutant: a claim that was refused goes unmentioned.
onSignedIn_Silently(p, refused) ==
    form' = [form EXCEPT ![p].stage = "in", ![p].asking = "no"]

\* The person is let in either way, and told when the claim failed by the home page only:
\* the pages of shared links leave the handler out.
onSignedIn(p, refused) ==
    form' = [form EXCEPT ![p].stage = "in", ![p].asking = "no",
                         ![p].notice = refused /\ form[p].page = "home"]

\* The form to log in of an account that was made before; the request stands for the
\* API's at the log-in and the top bar's after it.
LogIn(p) ==
    /\ form[p].stage = "editing" /\ p \in accounts
    /\ onSignedIn(p, FALSE)
    /\ handling' = handling \cup {Ask(p, "me")}
    /\ UNCHANGED <<accounts, users, edited>>

Claimed(r) ==
    /\ r.op = "claim" /\ r.stage \in {"ok", "refused"}
    /\ onSignedIn(r.user, r.stage = "refused")
    /\ handling' = handling \ {r}
    /\ UNCHANGED <<accounts, users, edited>>

\* No answer came; the claim may still be carried out.
ClaimUnheard(r) ==
    /\ r.op = "claim" /\ r.heard
    /\ onSignedIn(r.user, TRUE)
    /\ handling' = (handling \ {r}) \cup
                    {q \in {[r EXCEPT !.heard = FALSE]} : r.stage \notin {"ok", "refused"}}
    /\ UNCHANGED <<accounts, users, edited>>

-----------------------------------------------------------------------------
(* users_service.py *)

Step(r, stage) == handling' = (handling \ {r}) \cup {[r EXCEPT !.stage = stage]}

\* What follows ensure_user: the claim, the session of a new account, or nothing.
Ensured(r) ==
    CASE r.op = "claim" -> Step(r, "taken?") /\ UNCHANGED form
      [] r.op = "signup" /\ r.heard -> Announced(r.user, handling \ {r})
      [] OTHER -> handling' = handling \ {r} /\ UNCHANGED form

\* The row is written if there is none; one without a username is to be given one.
ensure_user(r) ==
    /\ r.stage = "sent"
    /\ IF users[r.user] = Unlisted THEN Step(r, "assign") /\ UNCHANGED form ELSE Ensured(r)
    /\ UNCHANGED <<accounts, users, edited>>

\* assign_username, asking: the first variant nobody has; after the last there is none.
assign_username(r) ==
    /\ r.stage = "assign"
    /\ IF r.attempt > MaxAttempts THEN Ensured(r)
       ELSE /\ IF username_taken(suggestion(r.user, r.attempt), {})
               THEN handling' = (handling \ {r}) \cup {[r EXCEPT !.attempt = @ + 1]}
               ELSE Step(r, "assigning")
            /\ UNCHANGED form
    /\ UNCHANGED <<accounts, users, edited>>

\* assign_username, writing: the unique index refuses what was taken meanwhile.  That
\* the account has no username was read before, and is not asked again.
Assigned(r) ==
    /\ r.stage = "assigning"
    /\ LET h == suggestion(r.user, r.attempt)
       IN  IF username_taken(h, {r.user})
           THEN /\ handling' = (handling \ {r}) \cup
                                {[r EXCEPT !.stage = "assign", !.attempt = @ + 1]}
                /\ UNCHANGED <<users, form>>
           ELSE /\ users' = [users EXCEPT ![r.user] = h]
                /\ Ensured(r)
    /\ UNCHANGED <<accounts, edited>>

want(r) == form[r.user].want

\* The answer of a claim nobody waits for is dropped.
ClaimAnswer(r, stage) ==
    handling' = (handling \ {r}) \cup {q \in {[r EXCEPT !.stage = stage]} : r.heard}

\* set_username, asking.
set_username(r) ==
    /\ r.stage = "taken?"
    /\ IF username_taken(want(r), {r.user}) THEN ClaimAnswer(r, "refused") ELSE Step(r, "free")
    /\ UNCHANGED <<accounts, users, form, edited>>

\* set_username, writing.
UsernameSet(r) ==
    /\ r.stage = "free"
    /\ IF username_taken(want(r), {r.user})
       THEN ClaimAnswer(r, "refused") /\ UNCHANGED users
       ELSE ClaimAnswer(r, "ok") /\ users' = [users EXCEPT ![r.user] = want(r)]
    /\ UNCHANGED <<accounts, form, edited>>

SignUpNext ==
    \/ \E p \in Newcomer :
        \/ \E h \in Wanted : Type(p, h)
        \/ username_available(p) \/ HandleChecked(p)
        \/ handleSignup(p) \/ Rechecked(p) \/ RecheckFailed(p)
        \/ signUpWithPassword(p) \/ SignUpFailed(p) \/ LogIn(p)
    \/ \E r \in handling :
        \/ Claimed(r) \/ ClaimUnheard(r)
        \/ ensure_user(r) \/ assign_username(r) \/ Assigned(r) \/ set_username(r) \/ UsernameSet(r)

SignUpSpec == SignUpInit /\ [][SignUpNext]_signUpVars

-----------------------------------------------------------------------------
(* Properties. *)

\* Whoever signed up has the username the form was sent with, or was told that it could
\* not be had ("it must not pass silently", handleSignup): another may take it after
\* the last check, and the API gives out usernames of its own at the same time.
HandleOrNotice ==
    \A p \in Newcomer :
        form[p].stage = "in" => form[p].notice \/ form[p].want \in {NoHandle, users[p]}

\* So it is for those who sign up on the home page, whoever else signs up elsewhere.  The
\* pages that shared links lead to drop the reason they are given (claim/page.tsx:113,
\* groups/join/page.tsx:56), so HandleOrNotice itself does not hold of them.
HandleOrNoticeAtHome ==
    \A p \in Newcomer :
        form[p].stage = "in" /\ form[p].page = "home" =>
            form[p].notice \/ form[p].want \in {NoHandle, users[p]}
=============================================================================
