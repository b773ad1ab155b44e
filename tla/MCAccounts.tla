------------------------------ MODULE MCAccounts ------------------------------
(***************************************************************************)
(* Small instance of three parts of the app that concern accounts: SignUp, *)
(* SignIn and Profile.  They share no state here, and interleaving them    *)
(* would show nothing new, so each behaviour moves one of them, chosen at  *)
(* the start.                                                              *)
(***************************************************************************)
EXTENDS SignUp, SignIn, Profile, TLC

CONSTANTS kim, lee, joe, tablet, mobile, ann, ben, nobody

VARIABLE part

MCNewcomer == {kim, lee}

MCHolder == {joe}

MCPhone == {tablet, mobile}

MCAccount == {ann, ben}

\* Two newcomers of one name want a username of their own, or one that the API may have
\* given out.
MCSuggested == [p \in MCNewcomer |-> "kim"]

MCWanted == {<<"ace", 1>>, <<"kim", 2>>}

MCAnyPage == {"home", "claim"}

\* ann has games in her history, ben has not.
MCPlayed == {ann}

\* A preference the phone follows and shows at once, and the name that is shown when it
\* is answered; ben only sees the walkthrough.
MCEdited == (ann :> {"theme", "username"}) @@ (ben :> {})

\* Both phones of an account have signed in, and one request less is to come.
BothSignedIn ==
    /\ registered = [h \in Holder |-> {[name |-> 0, password |-> 0, link |-> NoLink]}]
    /\ directory = [h \in Holder |-> 0] /\ handles \in SUBSET Holder
    /\ remembered = {} /\ exchanges = {} /\ begun = 1 /\ links = {}
    /\ sessions = [ph \in Phone |-> [who |-> joe, name |-> 0]]
    /\ told = [h \in Holder |-> 0]
    /\ muddled = {} /\ overtaken = {}

\* The parts that do not move rest in one state.  In sign up kim's form is on any page.
AccountsInit ==
    /\ part \in {"sign up", "sign in", "profile"}
    /\ SignUpInit /\ Init
    /\ SignInInit \/ (part = "sign in" /\ BothSignedIn)
    /\ \A p \in Newcomer : form[p].page = "home" \/ (p = kim /\ part = "sign up")
    /\ part # "sign in" => handles = {}

AccountsNext ==
    /\ UNCHANGED part
    /\ \/ part = "sign up" /\ SignUpNext /\ UNCHANGED <<signInVars, vars>>
       \/ part = "sign in" /\ SignInNext /\ UNCHANGED <<signUpVars, vars>>
       \/ part = "profile" /\ Next /\ UNCHANGED <<signUpVars, signInVars>>

AccountsSpec ==
    AccountsInit /\ [][AccountsNext]_<<part, signUpVars, signInVars, vars>>

\* Bound: a phone on which somebody has signed in again sees one change in Settings.
Bounded == visits + taps <= 3
=============================================================================
