------------------------------- MODULE Profile -------------------------------
(***************************************************************************)
(* Your own profile: the one copy of web/src/lib/me.ts, the rows of the    *)
(* Settings page that change it, the theme and currency the device takes   *)
(* from it (PreferencesSync), the first-run walkthrough (Onboarding), and  *)
(* the endpoints of api/app/routers/profile.py that store it.              *)
(*                                                                         *)
(* A profile is a value for each of its fields.  Rows differ in when they  *)
(* change what is shown: on the tap, put back if the save fails, or when   *)
(* the answer comes.  Nothing keeps two saves, or a save and a load, from  *)
(* being under way at once.                                                *)
(***************************************************************************)
EXTENDS Naturals, FiniteSets

CONSTANTS
    Account, Nobody,
    Edited,       \* bound: the fields that each account edits
    MaxSaves,     \* bound: the saves under way at one time
    MaxTaps,      \* bound: the changes made in Settings
    MaxVisits,    \* bound: how many times somebody signs in
    Played        \* the accounts that have games in their history

Prefs == {"theme", "currency_symbol", "default_rules", "onboarded"}

Columns == {"photo", "username", "about", "accent", "privacy"}

Field == Prefs \cup Columns

ASSUME ProfileAssumption ==
    /\ Nobody \notin Account
    /\ Edited \in [Account -> SUBSET Field]
    /\ MaxSaves \in Nat /\ MaxTaps \in Nat /\ MaxVisits \in Nat
    /\ Played \subseteq Account

VARIABLES
    stored,     \* the profiles in the table users
    user,       \* who is signed in on the phone
    current,    \* me.ts: whose profile is held, and what it says
    inflight,   \* me.ts: the load under way
    device,     \* the theme and the currency symbol the phone uses
    saves,      \* the saves under way
    decided,    \* Onboarding: whose walkthrough was decided, and how
    asking,     \* Onboarding: whose history has been asked for
    crossed,    \* whether what is shown may be older than what is stored (history)
    taps,       \* how many changes were made in Settings (bound)
    visits      \* how many times somebody signed in (bound)

vars == <<stored, user, current, inflight, device, saves, decided, asking, crossed, taps, visits>>

-----------------------------------------------------------------------------
(* What is shown. *)

Unset == [f \in Field |-> 0]

None == [owner |-> Nobody, profile |-> Unset]

useMe(cur, u) == IF cur.owner = u THEN cur ELSE None

me == useMe(current, user)

DeviceFields == {"theme", "currency_symbol"}

\* setThemePref and setCurrencySymbol; other choices are not kept on the device.
SetOnDevice(f, v) == IF f \in DeviceFields THEN [device EXCEPT ![f] = v] ELSE device

needed(m) == m.owner # Nobody /\ m.profile["onboarded"] = 0

\* Mutant: the account's choices are adopted when it signs in only.
PreferencesSync_AtSignIn(dev, old, new) ==
    [d \in DeviceFields |-> IF new.owner # old.owner /\ new.owner # Nobody
                            THEN new.profile[d] ELSE dev[d]]

\* The device adopts a choice of the account when that choice changes.
PreferencesSync(dev, old, new) ==
    [d \in DeviceFields |->
        IF new.owner # Nobody /\ (old.owner = Nobody \/ old.profile[d] # new.profile[d])
        THEN new.profile[d] ELSE dev[d]]

\* Onboarding asks for the history when the walkthrough comes to be needed, and
\* drops an answer asked for before.
Asked(old, new) ==
    IF needed(old) = needed(new) /\ old.owner = new.owner THEN asking
    ELSE IF needed(new) THEN new.owner ELSE Nobody

\* The screen after the signed-in account, the held profile and the device's own
\* choices have become u, cur and dev: the effects that follow have run.
Rendered(u, cur, dev) ==
    LET new == useMe(cur, u)
    IN  /\ user' = u
        /\ current' = cur
        /\ device' = PreferencesSync(dev, me, new)
        /\ asking' = Asked(me, new)

setMe(cur) == Rendered(user, cur, device)

Held(owner, profile) == [owner |-> owner, profile |-> profile]

NoLoad == [owner |-> Nobody, profile |-> Unset, served |-> FALSE]

Init ==
    /\ stored = [a \in Account |-> Unset]
    /\ user = Nobody /\ current = None /\ inflight = NoLoad
    /\ device = [d \in DeviceFields |-> 0]
    /\ saves = {}
    /\ decided = [owner |-> Nobody, show |-> FALSE]
    /\ asking = Nobody
    /\ crossed = FALSE /\ taps = 0 /\ visits = 0

-----------------------------------------------------------------------------
(* Signing in and out, and loading. *)

\* loadMe, forced: a load of the same account that is under way is shared.
loadMe(a) == IF inflight.owner = a THEN inflight ELSE [NoLoad EXCEPT !.owner = a]

SignIn(a) ==
    /\ user = Nobody
    /\ Rendered(a, current, device)
    /\ inflight' = IF current.owner = a THEN inflight ELSE loadMe(a)
    /\ crossed' = (crossed \/ saves # {})
    /\ visits' = visits + 1 /\ visits' <= MaxVisits
    /\ UNCHANGED <<stored, saves, decided, taps>>

\* handleSignOut, and confirmDelete once the account is gone.
SignOut ==
    /\ user # Nobody
    /\ Rendered(Nobody, None, device)
    /\ UNCHANGED <<stored, inflight, saves, decided, crossed, taps, visits>>

\* The top bar loads the profile again on a navigation, the name row after a save.
Reload ==
    /\ user # Nobody /\ inflight.owner # user
    /\ inflight' = loadMe(user)
    /\ crossed' = (saves # {})
    /\ UNCHANGED <<stored, user, current, device, saves, decided, asking, taps, visits>>

LoadServed ==
    /\ inflight.owner # Nobody /\ ~inflight.served
    /\ inflight' = [inflight EXCEPT !.served = TRUE, !.profile = stored[inflight.owner]]
    /\ UNCHANGED <<stored, user, current, device, saves, decided, asking, crossed, taps, visits>>

LoadLands ==
    /\ inflight.served
    /\ setMe(Held(inflight.owner, inflight.profile))
    /\ inflight' = NoLoad
    /\ UNCHANGED <<stored, saves, decided, crossed, taps, visits>>

LoadFails ==
    /\ inflight.owner # Nobody
    /\ inflight' = NoLoad
    /\ crossed' = TRUE
    /\ UNCHANGED <<stored, user, current, device, saves, decided, asking, taps, visits>>

-----------------------------------------------------------------------------
(* The rows of Settings. *)

PhotoRow == {<<"photo", 0, "at once">>, <<"photo", 1, "answer">>}

UsernameRow == {<<"username", 1, "patch">>}

AboutRow == {<<"about", v, "answer">> : v \in {0, 1}}

AccentRow == {<<"accent", v, "at once">> : v \in {0, 1}}

AppearanceSection == {<<choice[1], choice[2], "at once">> : choice \in DeviceFields \X {0, 1}}

DefaultsSection == {<<"default_rules", 0, "answer">>}

PrivacySection == {<<"privacy", v, "at once">> : v \in {0, 1}}

Rows == PhotoRow \cup UsernameRow \cup AboutRow \cup AccentRow
        \cup AppearanceSection \cup DefaultsSection \cup PrivacySection

\* Rows whose button is disabled while their save is under way.
HasBusy == {"photo", "username", "about", "default_rules"}

\* before is the profile the row was drawn with, device what the phone used for f.
Save(f, v, style) ==
    [field |-> f, value |-> v, style |-> style, stage |-> "sent", seen |-> Unset,
     before |-> IF style \in {"at once", "patch"} THEN me ELSE Held(me.owner, Unset),
     device |-> IF f \in DeviceFields THEN device[f] ELSE 0]

\* A row is tapped: rows that show at once write the profile they were drawn with.
Tap(f, v, style) ==
    /\ me.owner # Nobody /\ f \in Edited[user] /\ Cardinality(saves) < MaxSaves
    /\ me.profile[f] # v
    /\ f \in HasBusy => \A s \in saves : s.field # f
    /\ Save(f, v, style) \notin saves
    /\ saves' = saves \cup {Save(f, v, style)}
    /\ IF style = "at once"
       THEN Rendered(user, Held(user, [me.profile EXCEPT ![f] = v]), SetOnDevice(f, v))
       ELSE UNCHANGED <<user, current, device, asking>>
    /\ crossed' = (crossed \/ saves # {} \/ inflight.owner # Nobody)
    /\ taps' = taps + 1 /\ taps' <= MaxTaps
    /\ UNCHANGED <<stored, inflight, decided, visits>>

\* Mutant: a failed save leaves what it showed.
PutBack_Never(s) == UNCHANGED <<user, current, device, asking>>

\* What was shown at once is put back: the device's choice and the profile.
PutBack(s) ==
    IF s.style = "at once"
    THEN Rendered(user, s.before, SetOnDevice(s.field, s.device))
    ELSE UNCHANGED <<user, current, device, asking>>

\* The answer is the whole profile, except that of the username row.
Taken(s) ==
    Held(s.before.owner,
         IF s.style = "patch" THEN [s.before.profile EXCEPT ![s.field] = s.value] ELSE s.seen)

Succeeds(s) ==
    /\ s.stage = "answered"
    /\ setMe(Taken(s))
    /\ saves' = saves \ {s}
    /\ UNCHANGED <<stored, inflight, decided, crossed, taps, visits>>

\* Refused, or not answered in time; then it may have been carried out, or yet be.
Fails(s) ==
    /\ s.stage # "unheard"
    /\ PutBack(s)
    /\ \/ /\ s.stage = "sent"
          /\ saves' = saves \ {s} /\ UNCHANGED crossed
       \/ /\ saves' = (saves \ {s}) \cup
                        {q \in {[s EXCEPT !.style = "unheard", !.device = 0, !.before.profile = Unset]} :
                             s.stage \in {"sent", "read"}}
          /\ crossed' = TRUE
    /\ UNCHANGED <<stored, inflight, decided, taps, visits>>

-----------------------------------------------------------------------------
(* routers/profile.py *)

Owner(s) == s.before.owner

Go(s, t) == saves' = (saves \ {s}) \cup {t}

\* put_preferences reads the preferences and writes all of them back later.
ReadPreferences(s) ==
    /\ s.stage = "sent" /\ s.field \in Prefs
    /\ Go(s, [s EXCEPT !.stage = "read",
                        !.seen = [f \in Field |-> IF f \in Prefs THEN stored[Owner(s)][f] ELSE 0]])
    /\ UNCHANGED <<stored, user, current, inflight, device, decided, asking, crossed, taps, visits>>

Merged(s) ==
    [f \in Field |-> IF f = s.field THEN s.value
                     ELSE IF f \in Prefs THEN s.seen[f] ELSE stored[Owner(s)][f]]

\* The row is updated: the fields sent, of the preferences all.
Update(s) ==
    /\ s.stage = (IF s.field \in Prefs THEN "read" ELSE "sent")
    /\ stored' = [stored EXCEPT ![Owner(s)] =
                    IF s.field \in Prefs THEN Merged(s) ELSE [@ EXCEPT ![s.field] = s.value]]
    /\ saves' = (saves \ {s}) \cup
                    {q \in {[s EXCEPT !.stage = "updated", !.seen = Unset]} : s.style # "unheard"}
    /\ UNCHANGED <<user, current, inflight, device, decided, asking, crossed, taps, visits>>

\* _my_profile, after the commit.
MyProfile(s) ==
    /\ s.stage = "updated"
    /\ Go(s, [s EXCEPT !.stage = "answered", !.seen = stored[Owner(s)]])
    /\ UNCHANGED <<stored, user, current, inflight, device, decided, asking, crossed, taps, visits>>

-----------------------------------------------------------------------------
(* The walkthrough. *)

Open == needed(me) /\ decided.owner = me.owner /\ decided.show

MarkSeen ==
    /\ saves' = saves \cup {Save("onboarded", 1, "quiet")}
    /\ crossed' = (crossed \/ saves # {} \/ inflight.owner # Nobody)

\* The history arrives: somebody who has played is marked without being shown it.
HistoryArrives ==
    /\ asking # Nobody
    /\ decided' = [owner |-> asking, show |-> asking \notin Played]
    /\ asking' = Nobody
    /\ IF asking \in Played THEN Cardinality(saves) < MaxSaves /\ MarkSeen
       ELSE UNCHANGED <<saves, crossed>>
    /\ UNCHANGED <<stored, user, current, inflight, device, taps, visits>>

HistoryFails ==
    /\ asking # Nobody
    /\ asking' = Nobody
    /\ UNCHANGED <<stored, user, current, inflight, device, saves, decided, crossed, taps, visits>>

\* Skip and Done.
Finish ==
    /\ Open /\ Cardinality(saves) < MaxSaves
    /\ decided' = [owner |-> user, show |-> FALSE]
    /\ MarkSeen
    /\ UNCHANGED <<stored, user, current, inflight, device, asking, taps, visits>>

Next ==
    \/ \E a \in Account : SignIn(a)
    \/ SignOut \/ Reload \/ LoadServed \/ LoadLands \/ LoadFails
    \/ \E row \in Rows : Tap(row[1], row[2], row[3])
    \/ \E s \in saves : Succeeds(s) \/ Fails(s) \/ ReadPreferences(s) \/ Update(s) \/ MyProfile(s)
    \/ HistoryArrives \/ HistoryFails \/ Finish

Spec == Init /\ [][Next]_vars
-----------------------------------------------------------------------------
(* Properties. *)

\* The theme and the currency symbol the phone uses are those of the profile it
\* shows, whatever taps, refusals, late answers and changes of account led there
\* (PreferencesSync, savePreference and its undo).
DeviceFollowsProfile ==
    me.owner # Nobody => \A d \in DeviceFields : device[d] = me.profile[d]

\* Once everything is answered, Settings shows what is stored: a refused change is
\* put back and an accepted one is taken over, unless requests crossed or went
\* unheard since the profile was last loaded.
ShownIsStored ==
    saves = {} /\ inflight.owner = Nobody /\ me.owner # Nobody /\ ~crossed
        => me.profile = stored[user]
=============================================================================
