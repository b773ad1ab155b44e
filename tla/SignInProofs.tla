----------------------------- MODULE SignInProofs -----------------------------
(***************************************************************************)
(* Theorems about accounts, for any number of phones and requests: what a  *)
(* deletion and a saved password are worth (SignIn), the username a        *)
(* newcomer ends up with (SignUp), and the profile a phone shows and what  *)
(* of it the phone has put into force (Profile).                           *)
(***************************************************************************)
EXTENDS SignIn, SignUp, Profile, Sequences, TLAPS

Row == [name : Nat, password : Nat, link : Nat]

Link == [no : Nat, who : Holder]

Ops == {"login", "forgot", "confirm", "name", "username", "password", "delete", "other"}

Stages ==
    {"sent", "found", "written", "session", "nameless", "known", "deleted", "answered", "refused"}

Reset == [link : Nat, password : Nat]

Exchange ==
    [phone : Phone, op : Ops, who : Holder, value : Nat \cup Reset, seen : Nat,
     stage : Stages, mounted : BOOLEAN, heard : BOOLEAN, no : Nat]

\* What a request carries, and how far it can have come.
Fits(c) ==
    /\ c.op = "confirm" => c.value \in Reset
    /\ c.op # "confirm" => c.value \in Nat
    /\ c.stage \in {"found", "written"} => c.op \in {"name", "password", "confirm"}
    /\ c.stage = "deleted" => c.op = "delete"
    /\ c.stage = "known" => c.op = "username"
    /\ c.stage = "session" => c.op # "username"

Typed ==
    /\ registered \in [Holder -> SUBSET Row]
    /\ directory \in [Holder -> Nat]
    /\ sessions \in [Phone -> {SignedOut} \cup [who : Holder, name : Nat]]
    /\ exchanges \subseteq Exchange
    /\ \A c \in exchanges : Fits(c)
    /\ begun \in Nat
    /\ links \subseteq Link
    /\ told \in [Holder -> Nat]

-----------------------------------------------------------------------------
(* The types are kept by the steps of a phone and of the API. *)

LEMMA InitTyped == SignInInit => Typed
  BY SignInAssumption DEF SignInInit, Typed, Row, NoLink, SignedOut

LEMMA SendTyped ==
    ASSUME Typed, NEW ph \in Phone, NEW op \in Ops, NEW h \in Holder, NEW value,
           op = "confirm" => value \in Reset, op # "confirm" => value \in Nat,
           Send(ph, op, h, value)
    PROVE  Typed'
<1> DEFINE c == [phone |-> ph, op |-> op, who |-> h, value |-> value, seen |-> sessions[ph].name,
                 stage |-> "sent", mounted |-> TRUE, heard |-> TRUE, no |-> begun + 1]
<1>1. c \in Exchange /\ Fits(c)
  <2>1. sessions[ph].name \in Nat
    BY DEF Typed, SignedOut
  <2> QED
    BY <2>1 DEF Typed, Exchange, Stages, Fits
<1>2. exchanges' = exchanges \cup {c} /\ begun' \in Nat
  BY DEF Send, Typed
<1>3. UNCHANGED <<registered, directory, sessions, links, told>>
  BY DEF Send
<1> HIDE DEF c
<1> QED
  BY <1>1, <1>2, <1>3 DEF Typed

\* Whatever is tapped, it is a request of the kind SendTyped allows.
Request(ph) ==
    \E op \in Ops, h \in Holder, value \in Nat \cup Reset :
        /\ op = "confirm" => value \in Reset
        /\ op # "confirm" => value \in Nat
        /\ Send(ph, op, h, value)

Tapped(ph) ==
    \/ \E h \in Holder :
        handleForgot(ph, h) \/ \E password \in 0 .. begun : handleLogin(ph, h, password)
    \/ \E link \in links : handleSetPassword(ph, link)
    \/ DisplayNameRow(ph) \/ setUsername(ph) \/ handleSavePassword(ph)
    \/ confirmDelete(ph) \/ request(ph)

LEMMA TapsAreRequests ==
    ASSUME Typed, NEW ph \in Phone, Tapped(ph)
    PROVE  Request(ph)
<1>1. begun + 1 \in Nat /\ \A password \in 0 .. begun : password \in Nat
  BY DEF Typed
<1>2. getStoredAuth(ph) # SignedOut => sessions[ph].who \in Holder
  BY DEF Typed, getStoredAuth
<1>3. \A link \in links : link.who \in Holder /\ [link |-> link.no, password |-> begun + 1] \in Reset
  BY <1>1 DEF Typed, Link, Reset
<1>4. CASE \E h \in Holder : handleForgot(ph, h)
  BY <1>4 DEF handleForgot, requestPasswordReset, Request, Ops
<1>5. CASE \E h \in Holder, password \in 0 .. begun : handleLogin(ph, h, password)
  BY <1>1, <1>5 DEF handleLogin, signInWithPassword, Request, Ops
<1>6. CASE \E link \in links : handleSetPassword(ph, link)
  BY <1>3, <1>6 DEF handleSetPassword, confirmLocalPasswordReset, Request, Ops
<1>7. CASE DisplayNameRow(ph)
  BY <1>1, <1>2, <1>7 DEF DisplayNameRow, updateLocalAccount, Request, Ops
<1>8. CASE handleSavePassword(ph)
  BY <1>1, <1>2, <1>8 DEF handleSavePassword, AccountForms, updateLocalAccount, Request, Ops
<1>9. CASE confirmDelete(ph)
  BY <1>2, <1>9 DEF confirmDelete, Request, Ops
<1>10. CASE request(ph)
  BY <1>2, <1>10 DEF request, Request, Ops
<1>11. CASE setUsername(ph)
  BY <1>2, <1>11 DEF setUsername, Request, Ops
<1> QED
  BY <1>4, <1>5, <1>6, <1>7, <1>8, <1>9, <1>10, <1>11 DEF Tapped

\* A request that moves on is still one.
LEMMA StageMoves ==
    ASSUME NEW c \in Exchange, Fits(c), NEW stage \in Stages,
           stage \in {"found", "written"} => c.op \in {"name", "password", "confirm"},
           stage = "deleted" => c.op = "delete", stage = "known" => c.op = "username",
           stage = "session" => c.op # "username", NEW n \in Nat
    PROVE  /\ [c EXCEPT !.stage = stage] \in Exchange /\ Fits([c EXCEPT !.stage = stage])
           /\ [c EXCEPT !.seen = n, !.stage = stage] \in Exchange
           /\ Fits([c EXCEPT !.seen = n, !.stage = stage])
  BY DEF Exchange, Fits

LEMMA Unheard ==
    ASSUME NEW c \in Exchange, Fits(c)
    PROVE  /\ [c EXCEPT !.heard = FALSE, !.mounted = FALSE] \in Exchange
           /\ Fits([c EXCEPT !.heard = FALSE, !.mounted = FALSE])
  BY DEF Exchange, Fits

LEMMA UnmountedTyped ==
    ASSUME NEW ph, NEW cs, cs \subseteq Exchange, \A c \in cs : Fits(c)
    PROVE  Unmounted(ph, cs) \subseteq Exchange /\ \A d \in Unmounted(ph, cs) : Fits(d)
<1>1. ASSUME NEW c \in cs
      PROVE  LET d == [c EXCEPT !.mounted = @ /\ c.phone # ph]
             IN  d \in Exchange /\ Fits(d)
  <2>1. (c.mounted /\ c.phone # ph) \in BOOLEAN
    OBVIOUS
  <2> QED
    BY <1>1, <2>1 DEF Exchange, Fits
<1> QED
  BY <1>1 DEF Unmounted

\* The answers that reach a phone, and the patience that ends.
LEMMA HeardTyped ==
    ASSUME Typed, NEW c \in exchanges, storeLocalSession(c) \/ deleteAccount(c) \/ NotDone(c)
    PROVE  Typed'
<1>1. c \in Exchange /\ Fits(c) /\ c.who \in Holder /\ c.phone \in Phone /\ c.seen \in Nat
  BY DEF Typed, Exchange
<1>2. CASE storeLocalSession(c)
  <2>1. sessions' \in [Phone -> {SignedOut} \cup [who : Holder, name : Nat]]
    BY <1>1, <1>2 DEF storeLocalSession, Typed
  <2>2. told' \in [Holder -> Nat]
    <3>1. c.op = "password" => c.value \in Nat
      BY <1>1 DEF Fits
    <3>2. c.op = "confirm" => c.value.password \in Nat
      BY <1>1 DEF Fits, Reset
    <3> QED
      BY <1>1, <1>2, <3>1, <3>2 DEF storeLocalSession, Typed
  <2> QED
    BY <1>2, <2>1, <2>2 DEF storeLocalSession, Typed
<1>3. CASE deleteAccount(c)
  <2>1. exchanges' \subseteq Exchange /\ \A d \in exchanges' : Fits(d)
    BY <1>3, UnmountedTyped DEF deleteAccount, signOut, Typed
  <2>2. sessions' \in [Phone -> {SignedOut} \cup [who : Holder, name : Nat]]
    BY <1>1, <1>3 DEF deleteAccount, signOut, Typed
  <2> QED
    BY <1>3, <2>1, <2>2 DEF deleteAccount, Typed
<1>4. CASE NotDone(c)
  BY <1>1, <1>4, Unheard DEF NotDone, Typed
<1> QED
  BY <1>2, <1>3, <1>4

LEMMA SignOutTyped ==
    ASSUME Typed, NEW ph \in Phone, handleSignOut(ph)
    PROVE  Typed'
<1>1. exchanges' \subseteq Exchange /\ \A d \in exchanges' : Fits(d)
  BY UnmountedTyped DEF handleSignOut, signOut, Typed
<1>2. sessions' \in [Phone -> {SignedOut} \cup [who : Holder, name : Nat]]
  BY DEF handleSignOut, signOut, Typed
<1> QED
  BY <1>1, <1>2 DEF handleSignOut, Typed

\* A step of the API on a request.
Carried(c) ==
    \/ AccountRead(c) \/ AccountWritten(c) \/ AccountReadAgain(c) \/ _session_for(c)
    \/ Served(c) \/ UsernameGiven(c) \/ put_username(c)
    \/ request_password_reset(c) \/ delete_account(c) \/ remember_deleted(c)

\* What becomes of the request: nothing, or the same one further on.
LEMMA CarriedOn ==
    ASSUME Typed, NEW c \in exchanges, Carried(c)
    PROVE  \E S \in SUBSET {d \in Exchange : Fits(d) /\ d.who = c.who /\ d.op = c.op
                                            /\ d.value = c.value /\ d.heard = c.heard} :
                exchanges' = (exchanges \ {c}) \cup S
<1> DEFINE Follow == {d \in Exchange : Fits(d) /\ d.who = c.who /\ d.op = c.op
                                    /\ d.value = c.value /\ d.heard = c.heard}
<1> SUFFICES \E S \in SUBSET Follow : exchanges' = (exchanges \ {c}) \cup S
  OBVIOUS
<1>1. c \in Exchange /\ Fits(c)
  BY DEF Typed
<1>2. ASSUME NEW stage \in Stages, NEW n \in Nat,
             stage \in {"found", "written"} => c.op \in {"name", "password", "confirm"},
             stage = "deleted" => c.op = "delete", stage = "known" => c.op = "username",
             stage = "session" => c.op # "username"
      PROVE  [c EXCEPT !.stage = stage] \in Follow /\ [c EXCEPT !.seen = n, !.stage = stage] \in Follow
  BY <1>1, <1>2, StageMoves DEF Exchange
<1> HIDE DEF Follow
<1>3. ASSUME NEW stage \in Stages, At(c, stage),
             stage \in {"found", "written"} => c.op \in {"name", "password", "confirm"},
             stage = "deleted" => c.op = "delete", stage = "known" => c.op = "username",
             stage = "session" => c.op # "username"
      PROVE  \E S \in SUBSET Follow : exchanges' = (exchanges \ {c}) \cup S
  <2>1. [c EXCEPT !.stage = stage] \in Follow
    BY <1>2, <1>3
  <2> QED
    BY <1>3, <2>1 DEF At
<1>4. registered[c.who] \subseteq Row
  BY <1>1 DEF Typed, Exchange
<1>5. CASE AccountRead(c)
  <2>1. CASE At(c, "refused")
    BY <1>3, <2>1 DEF Stages
  <2>2. CASE \E row \in _account(c) :
            exchanges' = (exchanges \ {c}) \cup
                {[c EXCEPT !.seen = row.name, !.stage = IF c.op = "login" THEN "session" ELSE "found"]}
    <3>1. PICK row \in _account(c) :
            exchanges' = (exchanges \ {c}) \cup
                {[c EXCEPT !.seen = row.name, !.stage = IF c.op = "login" THEN "session" ELSE "found"]}
      BY <2>2
    <3>2. row.name \in Nat
      BY <1>4 DEF _account, Row
    <3>3. [c EXCEPT !.seen = row.name, !.stage = IF c.op = "login" THEN "session" ELSE "found"] \in Follow
      <4>1. c.op \in {"login", "confirm", "name", "password"}
        BY <1>5 DEF AccountRead
      <4>2. CASE c.op = "login"
        BY <1>2, <3>2, <4>2 DEF Stages
      <4>3. CASE c.op # "login"
        BY <1>2, <3>2, <4>1, <4>3 DEF Stages
      <4> QED
        BY <4>2, <4>3
    <3> QED
      BY <3>1, <3>3
  <2> QED
    BY <1>5, <2>1, <2>2 DEF AccountRead
<1>6. CASE AccountWritten(c)
  BY <1>1, <1>3, <1>6 DEF AccountWritten, Stages, Fits
<1>7. CASE AccountReadAgain(c)
  <2>1. CASE At(c, "refused")
    BY <1>3, <2>1 DEF Stages
  <2>2. CASE \E row \in registered[c.who] :
            exchanges' = (exchanges \ {c}) \cup {[c EXCEPT !.seen = row.name, !.stage = "session"]}
    <3>1. PICK row \in registered[c.who] :
            exchanges' = (exchanges \ {c}) \cup {[c EXCEPT !.seen = row.name, !.stage = "session"]}
      BY <2>2
    <3>2. row.name \in Nat /\ c.op # "username"
      BY <1>1, <1>4, <1>7 DEF Row, AccountReadAgain, Fits
    <3>3. [c EXCEPT !.seen = row.name, !.stage = "session"] \in Follow
      BY <1>2, <3>2 DEF Stages
    <3> QED
      BY <3>1, <3>3
  <2> QED
    BY <1>7, <2>1, <2>2 DEF AccountReadAgain
<1>8. CASE exchanges' = exchanges \ {c}
  <2>1. exchanges' = (exchanges \ {c}) \cup {} /\ {} \in SUBSET Follow
    BY <1>8
  <2> QED
    BY <2>1
<1>9. CASE _session_for(c) \/ Served(c) \/ UsernameGiven(c)
  <2>1. GoesOn(c) => \E S \in SUBSET Follow : exchanges' = (exchanges \ {c}) \cup S
    BY <1>3, <1>8 DEF GoesOn, Stages
  <2>2. At(c, "nameless") => \E S \in SUBSET Follow : exchanges' = (exchanges \ {c}) \cup S
    BY <1>3 DEF Stages
  <2> QED
    BY <1>8, <1>9, <2>1, <2>2 DEF _session_for, Served, UsernameGiven, InDirectoryNow
<1>10. CASE delete_account(c)
  BY <1>3, <1>10 DEF delete_account, Stages
<1>11. CASE remember_deleted(c)
  BY <1>3, <1>11 DEF remember_deleted, Stages
<1> QED
  BY <1>5, <1>6, <1>7, <1>8, <1>9, <1>10, <1>11
    DEF Carried, put_username, request_password_reset

Value(c) == IF c.op = "password" THEN c.value ELSE c.value.password

\* The rows of an account after a request was carried on: an old password, unless the
\* request writes its own.
PasswordsKept(h) ==
    \A row \in registered'[h] : \E old \in registered[h] : row.password = old.password

Gone(h) == registered[h] = NoAccount => directory[h] = DELETED_NAME

LEMMA RowsCarried ==
    ASSUME Typed, NEW c \in exchanges, Carried(c)
    PROVE  /\ registered' \in [Holder -> SUBSET Row]
           /\ \A h \in Holder \ {c.who} : registered'[h] = registered[h]
           /\ IF c.stage = "found" /\ c.op \in PasswordOps
              THEN \A row \in registered'[c.who] : row.password = Value(c)
              ELSE PasswordsKept(c.who)
<1>1. c \in Exchange /\ Fits(c) /\ c.who \in Holder /\ c.no \in Nat
  BY DEF Typed, Exchange
<1>2. registered \in [Holder -> SUBSET Row]
  BY DEF Typed
<1>3. CASE AccountWritten(c)
  <2>1. c.op \in {"name", "password", "confirm"} /\ c.stage = "found"
    BY <1>1, <1>3 DEF AccountWritten, Fits
  <2>2. ASSUME NEW row \in Row
        PROVE  /\ update_account(c, row) \in Row
               /\ update_account(c, row).password =
                    IF c.op \in PasswordOps THEN Value(c) ELSE row.password
    <3>1. CASE c.op = "name"
      BY <1>1, <2>2, <3>1 DEF update_account, Row, PasswordOps, Fits
    <3>2. CASE c.op = "password"
      BY <1>1, <2>2, <3>2 DEF update_account, Row, PasswordOps, Fits, Value
    <3>3. CASE c.op = "confirm"
      BY <1>1, <2>2, <3>3 DEF update_account, Row, PasswordOps, Fits, Value, Reset, NoLink
    <3> QED
      BY <2>1, <3>1, <3>2, <3>3
  <2>3. registered' = [registered EXCEPT ![c.who] = {update_account(c, row) : row \in registered[c.who]}]
    BY <1>3 DEF AccountWritten
  <2>4. registered' \in [Holder -> SUBSET Row] /\ \A h \in Holder \ {c.who} : registered'[h] = registered[h]
    BY <1>1, <1>2, <2>2, <2>3
  <2>5. \A row \in registered'[c.who] :
            \E old \in registered[c.who] : row = update_account(c, old) /\ old \in Row
    BY <1>1, <1>2, <2>3
  <2>6. CASE c.op \in PasswordOps
    BY <2>1, <2>2, <2>4, <2>5, <2>6
  <2>7. CASE c.op \notin PasswordOps
    BY <2>2, <2>4, <2>5, <2>7 DEF PasswordsKept
  <2> QED
    BY <2>6, <2>7
<1>4. CASE request_password_reset(c)
  <2>1. registered' = [registered EXCEPT ![c.who] = {[row EXCEPT !.link = c.no] : row \in @}]
        /\ c.stage = "sent"
    BY <1>4 DEF request_password_reset
  <2>2. ASSUME NEW row \in Row
        PROVE  [row EXCEPT !.link = c.no] \in Row /\ [row EXCEPT !.link = c.no].password = row.password
    BY <1>1 DEF Row
  <2>3. registered' \in [Holder -> SUBSET Row] /\ \A h \in Holder \ {c.who} : registered'[h] = registered[h]
    BY <1>1, <1>2, <2>1, <2>2
  <2>4. \A row \in registered'[c.who] :
            \E old \in registered[c.who] : row = [old EXCEPT !.link = c.no] /\ old \in Row
    BY <1>1, <1>2, <2>1
  <2>5. ASSUME NEW row \in registered'[c.who]
        PROVE  \E old \in registered[c.who] : row.password = old.password
    <3>1. PICK old \in registered[c.who] : row = [old EXCEPT !.link = c.no] /\ old \in Row
      BY <2>4
    <3>2. row.password = old.password
      BY <2>2, <3>1
    <3> QED
      BY <3>2
  <2> QED
    BY <2>1, <2>3, <2>5 DEF PasswordsKept
<1>5. CASE delete_account(c)
  BY <1>1, <1>2, <1>5 DEF delete_account, PasswordsKept, NoAccount
<1>6. CASE \/ AccountRead(c) \/ AccountReadAgain(c) \/ _session_for(c)
          \/ Served(c) \/ UsernameGiven(c) \/ put_username(c) \/ remember_deleted(c)
  <2>1. c.stage # "found" /\ registered' = registered
    BY <1>6 DEF AccountRead, AccountReadAgain, _session_for, Served, UsernameGiven,
                put_username, UsernameWritten, remember_deleted
  <2> QED
    BY <1>1, <1>2, <2>1 DEF PasswordsKept
<1> QED
  BY <1>3, <1>4, <1>5, <1>6
    DEF Carried

LEMMA NamesInDirectory ==
    ASSUME Typed, NEW h \in Holder, NEW name \in Nat
    PROVE  /\ InDirectory(h, name) \in [Holder -> Nat]
           /\ \A g \in Holder : directory[g] = DELETED_NAME => InDirectory(h, name)[g] = DELETED_NAME
  BY DEF InDirectory, Typed

LEMMA DirectoryCarried ==
    ASSUME Typed, NEW c \in exchanges, Carried(c)
    PROVE  directory' \in [Holder -> Nat] /\ \A h \in Holder : Gone(h) => Gone(h)'
<1>1. c.who \in Holder /\ c.seen \in Nat
  BY DEF Typed, Exchange
<1>2. directory \in [Holder -> Nat] /\ registered \in [Holder -> SUBSET Row]
  BY DEF Typed
<1>3. CASE _session_for(c) \/ Served(c)
  <2>1. registered' = registered /\ (directory' = directory \/ directory' = InDirectory(c.who, c.seen))
    BY <1>3 DEF _session_for, Served, InDirectoryNow
  <2>2. directory' \in [Holder -> Nat] /\ \A g \in Holder : directory[g] = DELETED_NAME => directory'[g] = DELETED_NAME
    <3>1. CASE directory' = directory
      BY <1>2, <3>1
    <3>2. CASE directory' = InDirectory(c.who, c.seen)
      <4>1. /\ InDirectory(c.who, c.seen) \in [Holder -> Nat]
            /\ \A g \in Holder : directory[g] = DELETED_NAME => InDirectory(c.who, c.seen)[g] = DELETED_NAME
        BY <1>1, NamesInDirectory
      <4> QED
        BY <3>2, <4>1
    <3> QED
      BY <2>1, <3>1, <3>2
  <2> QED
    BY <2>1, <2>2 DEF Gone
<1>4. CASE delete_account(c)
  <2>1. CASE registered' = registered /\ directory' = directory
    BY <1>2, <2>1 DEF Gone
  <2>2. CASE /\ registered' = [registered EXCEPT ![c.who] = NoAccount]
             /\ directory' = [directory EXCEPT ![c.who] = DELETED_NAME]
    <3>1. DELETED_NAME \in Nat
      BY SignInAssumption DEF DELETED_NAME
    <3>2. directory' \in [Holder -> Nat] /\ directory'[c.who] = DELETED_NAME
      BY <1>1, <1>2, <2>2, <3>1
    <3>3. \A h \in Holder \ {c.who} : registered'[h] = registered[h] /\ directory'[h] = directory[h]
      BY <1>1, <1>2, <2>2
    <3> QED
      BY <3>2, <3>3 DEF Gone
  <2> QED
    BY <1>4, <2>1, <2>2 DEF delete_account
<1>5. CASE \/ AccountRead(c) \/ AccountReadAgain(c) \/ UsernameGiven(c) \/ put_username(c)
          \/ remember_deleted(c)
  <2>1. registered' = registered /\ directory' = directory
    BY <1>5 DEF AccountRead, AccountReadAgain, UsernameGiven, put_username, UsernameWritten,
                remember_deleted
  <2> QED
    BY <1>2, <2>1 DEF Gone
<1>6. CASE AccountWritten(c) \/ request_password_reset(c)
  <2>1. directory' = directory
    BY <1>6 DEF AccountWritten, request_password_reset
  <2>2. ASSUME NEW h \in Holder, registered[h] # NoAccount PROVE registered'[h] # NoAccount
    <3>1. PICK row \in registered[h] : TRUE
      BY <2>2 DEF NoAccount
    <3>2. CASE h # c.who
      BY <2>2, <3>2, RowsCarried
    <3>3. CASE h = c.who /\ AccountWritten(c)
      <4>1. update_account(c, row) \in registered'[h]
        BY <1>1, <1>2, <3>1, <3>3 DEF AccountWritten
      <4> QED
        BY <4>1 DEF NoAccount
    <3>4. CASE h = c.who /\ request_password_reset(c)
      <4>1. [row EXCEPT !.link = c.no] \in registered'[h]
        BY <1>1, <1>2, <3>1, <3>4 DEF request_password_reset
      <4> QED
        BY <4>1 DEF NoAccount
    <3> QED
      BY <1>6, <3>2, <3>3, <3>4
  <2> QED
    BY <1>2, <2>1, <2>2 DEF Gone
<1> QED
  BY <1>3, <1>4, <1>5, <1>6 DEF Carried

LEMMA CarriedTyped ==
    ASSUME Typed, NEW c \in exchanges, Carried(c)
    PROVE  Typed'
<1>1. exchanges' \subseteq Exchange /\ \A d \in exchanges' : Fits(d)
  BY CarriedOn DEF Typed
<1>2. links' \subseteq Link
  <2>1. CASE request_password_reset(c)
    <3>1. [no |-> c.no, who |-> c.who] \in Link
      BY DEF Typed, Exchange, Link
    <3> QED
      BY <2>1, <3>1 DEF request_password_reset, Typed
  <2>2. CASE ~request_password_reset(c)
    BY <2>2 DEF Carried, AccountRead, AccountWritten, AccountReadAgain, _session_for, Served,
                UsernameGiven, put_username, UsernameWritten, delete_account,
                remember_deleted, Typed
  <2> QED
    BY <2>1, <2>2
<1>3. UNCHANGED <<sessions, begun, told, muddled>>
  BY DEF Carried, AccountRead, AccountWritten, AccountReadAgain, _session_for, Served,
         UsernameGiven, put_username, UsernameWritten, request_password_reset,
         delete_account, remember_deleted, NotesUnchanged
<1> QED
  BY <1>1, <1>2, <1>3, RowsCarried, DirectoryCarried DEF Typed

LEMMA ExpiryTyped ==
    ASSUME Typed, NEW g \in Holder, LinkExpires(g)
    PROVE  Typed' /\ \A h \in Holder : PasswordsKept(h) /\ (Gone(h) => Gone(h)')
<1>1. registered' = [registered EXCEPT ![g] = {[row EXCEPT !.link = NoLink] : row \in @}]
  BY DEF LinkExpires
<1>2. ASSUME NEW row \in Row
      PROVE  /\ [row EXCEPT !.link = NoLink] \in Row
             /\ [row EXCEPT !.link = NoLink].password = row.password
  BY DEF Row, NoLink
<1>3. registered \in [Holder -> SUBSET Row]
  BY DEF Typed
<1>4. registered' \in [Holder -> SUBSET Row] /\ \A h \in Holder \ {g} : registered'[h] = registered[h]
  BY <1>1, <1>2, <1>3
<1>5. ASSUME NEW row \in registered'[g]
      PROVE  \E old \in registered[g] : row.password = old.password
  <2>1. PICK old \in registered[g] : row = [old EXCEPT !.link = NoLink]
    BY <1>1, <1>3
  <2>2. row.password = old.password
    BY <1>2, <1>3, <2>1
  <2> QED
    BY <2>2
<1>6. \A h \in Holder : PasswordsKept(h)
  BY <1>4, <1>5 DEF PasswordsKept
<1>7. registered[g] # NoAccount => registered'[g] # NoAccount
  <2> SUFFICES ASSUME registered[g] # NoAccount PROVE registered'[g] # NoAccount
    OBVIOUS
  <2>1. PICK row \in registered[g] : TRUE
    BY DEF NoAccount
  <2>2. [row EXCEPT !.link = NoLink] \in registered'[g]
    BY <1>1, <1>3
  <2> QED
    BY <2>2 DEF NoAccount
<1>8. UNCHANGED <<directory, exchanges, links, sessions, begun, told>>
  BY DEF LinkExpires, NotesUnchanged
<1> QED
  BY <1>4, <1>6, <1>7, <1>8 DEF Typed, Gone

-----------------------------------------------------------------------------
(* Deleted accounts. *)

Deleted == Typed /\ \A h \in Holder : Gone(h)

LEMMA TypedKept ==
    ASSUME Typed, [SignInNext]_signInVars
    PROVE  Typed'
<1>1. ASSUME NEW ph \in Phone, Tapped(ph) PROVE Typed'
  <2>1. Request(ph)
    BY <1>1, TapsAreRequests
  <2> QED
    BY <2>1, SendTyped DEF Request
<1>2. CASE UNCHANGED signInVars
  BY <1>2 DEF signInVars, Typed, Fits
<1>3. CASE Forgotten
  BY <1>3 DEF Forgotten, NotesUnchanged, Typed
<1> QED
  BY <1>1, <1>2, <1>3, SignOutTyped, HeardTyped, CarriedTyped, ExpiryTyped
    DEF SignInNext, Tapped, Carried

LEMMA GoneKept ==
    ASSUME Deleted, [SignInNext]_signInVars, NEW h \in Holder
    PROVE  Gone(h)'
<1>1. ASSUME NEW ph \in Phone, Tapped(ph) \/ handleSignOut(ph) PROVE UNCHANGED <<registered, directory>>
  BY <1>1, TapsAreRequests DEF Deleted, Request, Send, handleSignOut
<1>2. ASSUME NEW c \in exchanges, storeLocalSession(c) \/ deleteAccount(c) \/ NotDone(c)
      PROVE  UNCHANGED <<registered, directory>>
  BY <1>2 DEF storeLocalSession, deleteAccount, NotDone
<1>3. CASE UNCHANGED <<registered, directory>>
  BY <1>3 DEF Deleted, Gone
<1>4. UNCHANGED signInVars \/ Forgotten => UNCHANGED <<registered, directory>>
  BY DEF signInVars, Forgotten
<1>5. ASSUME NEW c \in exchanges, Carried(c) PROVE Gone(h)'
  BY <1>5, DirectoryCarried DEF Deleted
<1>6. ASSUME NEW g \in Holder, LinkExpires(g) PROVE Gone(h)'
  BY <1>6, ExpiryTyped DEF Deleted
<1> QED
  BY <1>1, <1>2, <1>3, <1>4, <1>5, <1>6 DEF SignInNext, Tapped, Carried

\* An account the API remembers as deleted, unless the deletion overtook a request that
\* sets its username, has none, and nothing under way gives it one.
Barred(h) ==
    h \in remembered \ overtaken =>
        /\ registered[h] = NoAccount
        /\ h \notin handles
        /\ SettingUsername(h) = {}

\* By the time a deletion is remembered the account is gone.
GoneFirst == \A c \in exchanges : c.stage = "deleted" => registered[c.who] = NoAccount

Nameless == Deleted /\ GoneFirst /\ \A h \in Holder : Barred(h)

\* An account that is gone stays gone.
LEMMA StaysGone ==
    ASSUME Typed, [SignInNext]_signInVars, NEW h \in Holder, registered[h] = NoAccount
    PROVE  registered'[h] = NoAccount
<1>1. ASSUME NEW ph \in Phone, Tapped(ph) \/ handleSignOut(ph) PROVE UNCHANGED registered
  BY <1>1, TapsAreRequests DEF Request, Send, handleSignOut
<1>2. ASSUME NEW c \in exchanges, storeLocalSession(c) \/ deleteAccount(c) \/ NotDone(c)
      PROVE  UNCHANGED registered
  BY <1>2 DEF storeLocalSession, deleteAccount, NotDone
<1>3. UNCHANGED signInVars \/ Forgotten => UNCHANGED registered
  BY DEF signInVars, Forgotten
<1>4. ASSUME NEW c \in exchanges, Carried(c) PROVE registered'[h] = NoAccount
  <2>1. registered \in [Holder -> SUBSET Row] /\ c.who \in Holder
    BY DEF Typed, Exchange
  <2>2. CASE h # c.who
    BY <1>4, <2>2, RowsCarried
  <2>3. CASE h = c.who
    <3>1. CASE AccountWritten(c)
      BY <2>1, <2>3, <3>1 DEF AccountWritten, NoAccount
    <3>2. CASE ~AccountWritten(c)
      <4>1. c.stage # "found"
        BY <1>4, <3>2 DEF Carried, AccountRead, AccountReadAgain, _session_for, Served, UsernameGiven,
                          put_username, request_password_reset, delete_account, remember_deleted
      <4>2. PasswordsKept(h)
        BY <1>4, <2>3, <4>1, RowsCarried
      <4> QED
        BY <4>2 DEF PasswordsKept, NoAccount
    <3> QED
      BY <3>1, <3>2
  <2> QED
    BY <2>2, <2>3
<1>5. ASSUME NEW g \in Holder, LinkExpires(g) PROVE registered'[h] = NoAccount
  BY <1>5 DEF Typed, LinkExpires, NoAccount
<1> QED
  BY <1>1, <1>2, <1>3, <1>4, <1>5 DEF SignInNext, Tapped, Carried

\* What the phones do to the requests: none gets on.
LEMMA PhonesCarryNothingOn ==
    ASSUME Typed, NEW d \in exchanges',
           \/ \E ph \in Phone : Tapped(ph) \/ handleSignOut(ph)
           \/ \E c \in exchanges : storeLocalSession(c) \/ deleteAccount(c) \/ NotDone(c)
    PROVE  d.stage = "sent" \/ \E c \in exchanges : c.who = d.who /\ c.stage = d.stage
<1>1. ASSUME NEW ph \in Phone, Tapped(ph)
      PROVE  d.stage = "sent" \/ d \in exchanges
  <2>1. Request(ph)
    BY <1>1, TapsAreRequests
  <2> QED
    BY <2>1 DEF Request, Send
<1>2. ASSUME NEW ph, NEW cs, cs \subseteq exchanges, exchanges' = Unmounted(ph, cs)
      PROVE  \E c \in exchanges : c.who = d.who /\ c.stage = d.stage
  <2>1. PICK c \in cs : d = [c EXCEPT !.mounted = c.mounted /\ c.phone # ph]
    BY <1>2 DEF Unmounted
  <2>2. c \in exchanges /\ c \in Exchange
    BY <1>2 DEF Typed
  <2>3. c.who = d.who /\ c.stage = d.stage
    BY <2>1, <2>2 DEF Exchange
  <2> QED
    BY <2>2, <2>3
<1>3. ASSUME NEW c \in exchanges, NotDone(c)
      PROVE  \E b \in exchanges : b.who = d.who /\ b.stage = d.stage
  <2>1. CASE d \in exchanges
    BY <2>1
  <2>2. CASE d \notin exchanges
    <3>1. d = [c EXCEPT !.heard = FALSE, !.mounted = FALSE] /\ c \in Exchange
      BY <1>3, <2>2 DEF NotDone, Typed
    <3>2. d.who = c.who /\ d.stage = c.stage
      BY <3>1 DEF Exchange
    <3> QED
      BY <3>2
  <2> QED
    BY <2>1, <2>2
<1>4. ASSUME NEW c \in exchanges, storeLocalSession(c)
      PROVE  d \in exchanges
  BY <1>4 DEF storeLocalSession
<1>5. ASSUME NEW ph, handleSignOut(ph)
      PROVE  exchanges' = Unmounted(ph, exchanges)
  BY <1>5 DEF handleSignOut, signOut
<1>6. ASSUME NEW c \in exchanges, deleteAccount(c)
      PROVE  exchanges' = Unmounted(c.phone, exchanges \ {c})
  BY <1>6 DEF deleteAccount, signOut
<1>7. \A c : exchanges \ {c} \subseteq exchanges
  OBVIOUS
<1> QED
  BY <1>1, <1>2, <1>3, <1>4, <1>5, <1>6, <1>7

\* A request that got on came to the stage the step says.
LEMMA CameTo ==
    ASSUME Typed, NEW c \in exchanges, NEW d \in exchanges', d \notin exchanges
    PROVE  /\ \A stage : At(c, stage) => d.stage = stage /\ d.who = c.who
           /\ \A stage, n : exchanges' = (exchanges \ {c}) \cup {[c EXCEPT !.seen = n, !.stage = stage]}
                => d.stage = stage
<1>1. c \in Exchange
  BY DEF Typed
<1>2. ASSUME NEW stage, At(c, stage) PROVE d.stage = stage /\ d.who = c.who
  <2>1. d = [c EXCEPT !.stage = stage]
    BY <1>2 DEF At
  <2> QED
    BY <1>1, <2>1 DEF Exchange
<1>3. ASSUME NEW stage, NEW n,
             exchanges' = (exchanges \ {c}) \cup {[c EXCEPT !.seen = n, !.stage = stage]}
      PROVE  d.stage = stage
  <2>1. d = [c EXCEPT !.seen = n, !.stage = stage]
    BY <1>3
  <2> QED
    BY <1>1, <2>1 DEF Exchange
<1> QED
  BY <1>2, <1>3

\* The stages a request comes to in a step that ends in no session.
LEMMA StagesCameTo ==
    ASSUME Typed, NEW c \in exchanges, Carried(c), NEW d \in exchanges', d \notin exchanges
    PROVE  \/ d.stage \in {"refused", "found", "session", "written", "answered"}
           \/ d.stage = "deleted" /\ delete_account(c) /\ At(c, "deleted")
           \/ d.stage = "nameless" /\ InDirectoryNow(c) /\ directory[c.who] # DELETED_NAME
           \/ d.stage = "known" /\ c.op = "username"
              /\ (InDirectoryNow(c) \/ c.stage = "nameless")
<1>1. \A stage : At(c, stage) => d.stage = stage
  BY CameTo
<1>2. \A stage, n : exchanges' = (exchanges \ {c}) \cup {[c EXCEPT !.seen = n, !.stage = stage]}
            => d.stage = stage
  BY CameTo
<1>3. exchanges' # exchanges \ {c} /\ exchanges' # exchanges
  OBVIOUS
<1>4. GoesOn(c) => d.stage = "answered" \/ (d.stage = "known" /\ c.op = "username")
  BY <1>1, <1>3 DEF GoesOn
<1>5. InDirectoryNow(c) =>
        \/ d.stage = "nameless" /\ directory[c.who] # DELETED_NAME
        \/ GoesOn(c)
  BY <1>1 DEF InDirectoryNow
<1>6. CASE AccountRead(c)
  <2>1. \/ At(c, "refused")
        \/ \E row : exchanges' = (exchanges \ {c}) \cup {[c EXCEPT !.seen = row.name, !.stage = "session"]}
        \/ \E row : exchanges' = (exchanges \ {c}) \cup {[c EXCEPT !.seen = row.name, !.stage = "found"]}
    BY <1>6 DEF AccountRead
  <2> QED
    BY <1>1, <1>2, <2>1
<1>7. CASE AccountReadAgain(c)
  BY <1>1, <1>2, <1>7 DEF AccountReadAgain
<1>8. CASE _session_for(c) \/ Served(c)
  <2>1. InDirectoryNow(c)
    BY <1>3, <1>8 DEF _session_for, Served
  <2> QED
    BY <1>4, <1>5, <2>1
<1>9. CASE UsernameGiven(c)
  BY <1>4, <1>9 DEF UsernameGiven
<1>10. CASE delete_account(c)
  BY <1>1, <1>10 DEF delete_account
<1>11. CASE AccountWritten(c) \/ remember_deleted(c)
  BY <1>1, <1>11 DEF AccountWritten, remember_deleted
<1>12. ~put_username(c) /\ ~request_password_reset(c)
  BY <1>3 DEF put_username, request_password_reset
<1> QED
  BY <1>6, <1>7, <1>8, <1>9, <1>10, <1>11, <1>12 DEF Carried

LEMMA GoneFirstKept ==
    ASSUME Nameless, [SignInNext]_signInVars
    PROVE  GoneFirst'
<1>1. Typed
  BY DEF Nameless, Deleted
<1>2. ASSUME NEW d \in exchanges', d.stage = "deleted",
             \E c \in exchanges : c.who = d.who /\ c.stage = d.stage
      PROVE  registered'[d.who] = NoAccount
  <2>1. d.who \in Holder /\ registered[d.who] = NoAccount
    BY <1>1, <1>2 DEF Nameless, GoneFirst, Typed, Exchange
  <2> QED
    BY <1>1, <2>1, StaysGone
<1>3. ASSUME NEW c \in exchanges, Carried(c), NEW d \in exchanges', d.stage = "deleted"
      PROVE  registered'[d.who] = NoAccount
  <2>1. CASE d \in exchanges
    BY <1>2, <1>3, <2>1
  <2>2. CASE d \notin exchanges
    <3>1. c.who \in Holder /\ registered \in [Holder -> SUBSET Row]
      BY <1>1 DEF Typed, Exchange
    <3>2. delete_account(c) /\ At(c, "deleted")
      BY <1>1, <1>3, <2>2, StagesCameTo
    <3>3. At(c, "refused") => d.stage = "refused"
      BY <1>1, <1>3, <2>2, CameTo
    <3>4. registered' = [registered EXCEPT ![c.who] = NoAccount]
      BY <1>3, <3>2, <3>3 DEF delete_account
    <3>5. d.who = c.who
      BY <1>1, <1>3, <2>2, <3>2, CameTo
    <3> QED
      BY <3>1, <3>4, <3>5
  <2> QED
    BY <2>1, <2>2
<1>4. ASSUME exchanges' = exchanges PROVE GoneFirst'
  BY <1>2, <1>4 DEF GoneFirst
<1>5. ASSUME \/ \E ph \in Phone : Tapped(ph) \/ handleSignOut(ph)
             \/ \E c \in exchanges : storeLocalSession(c) \/ deleteAccount(c) \/ NotDone(c)
      PROVE  GoneFirst'
  BY <1>1, <1>2, <1>5, PhonesCarryNothingOn DEF GoneFirst
<1>6. ASSUME NEW c \in exchanges, Carried(c) PROVE GoneFirst'
  BY <1>3, <1>6 DEF GoneFirst
<1>7. UNCHANGED signInVars \/ Forgotten \/ (\E h \in Holder : LinkExpires(h)) => exchanges' = exchanges
  BY DEF signInVars, Forgotten, LinkExpires
<1> QED
  BY <1>4, <1>5, <1>6, <1>7 DEF SignInNext, Tapped, Carried

\* get_current_user turns away what would set the username of a remembered account, and
\* ensure_user finds its row deleted.
LEMMA NothingGivesName ==
    ASSUME Typed, NEW c \in exchanges, Carried(c), NEW h \in remembered, h \notin handles,
           SettingUsername(h) = {}, directory[h] = DELETED_NAME
    PROVE  h \notin handles' /\ SettingUsername(h)' = {}
<1>1. c \in Exchange /\ Fits(c)
  BY DEF Typed
<1>2. c.who = h => c.stage \notin {"nameless", "known"}
  BY DEF SettingUsername
<1>3. h \notin handles'
  BY <1>2 DEF Carried, AccountRead, AccountWritten, AccountReadAgain, _session_for, Served, UsernameGiven,
              put_username, UsernameWritten, request_password_reset, delete_account, remember_deleted
<1>4. ASSUME NEW d \in exchanges', d \notin exchanges, d.who = h
      PROVE  d.stage \notin {"nameless", "known"}
  <2>1. c.who = h
    BY <1>4, CarriedOn
  <2>2. d.stage # "nameless"
    BY <1>4, <2>1, StagesCameTo
  <2>3. ASSUME d.stage = "known" PROVE FALSE
    <3>1. c.op = "username" /\ InDirectoryNow(c)
      BY <1>2, <1>4, <2>1, <2>3, StagesCameTo
    <3>2. ~_session_for(c)
      BY <1>1, <3>1 DEF _session_for, Fits
    <3>3. ~Served(c)
      BY <1>4, <2>1, <3>1 DEF Served, get_current_user
    <3>4. c.stage \notin {"session", "sent"}
      BY <1>1, <1>4, <3>1, <3>2, <3>3
        DEF Carried, AccountRead, AccountWritten, AccountReadAgain, UsernameGiven, put_username,
            request_password_reset, delete_account, remember_deleted, Fits
    <3> QED
      BY <1>1, <1>2, <1>4, <2>1, <3>1, <3>2, <3>3, <3>4
        DEF Carried, AccountRead, AccountWritten, AccountReadAgain, UsernameGiven, put_username,
            request_password_reset, delete_account, remember_deleted, Fits
  <2> QED
    BY <2>2, <2>3
<1> QED
  BY <1>3, <1>4 DEF SettingUsername

LEMMA BarredKept ==
    ASSUME Nameless, [SignInNext]_signInVars, NEW h \in Holder
    PROVE  Barred(h)'
<1> SUFFICES ASSUME h \in remembered' \ overtaken' PROVE Barred(h)'
  BY DEF Barred
<1>1. Typed /\ GoneFirst /\ Gone(h) /\ Barred(h)
  BY DEF Nameless, Deleted
<1>2. CASE \E c \in exchanges : remember_deleted(c) /\ c.who = h
  <2>1. PICK c \in exchanges : remember_deleted(c) /\ c.who = h
    BY <1>2
  <2>2. c \in Exchange /\ c.stage = "deleted" /\ h \notin handles /\ SettingUsername(h) = {}
    BY <1>1, <2>1 DEF remember_deleted, Typed
  <2>3. registered[h] = NoAccount /\ registered' = registered /\ handles' = handles
    BY <1>1, <2>1, <2>2 DEF GoneFirst, remember_deleted
  <2>4. [c EXCEPT !.stage = "answered"].stage = "answered"
    BY <2>2 DEF Exchange
  <2>5. SettingUsername(h)' = {}
    BY <2>1, <2>2, <2>4 DEF remember_deleted, At, SettingUsername
  <2> QED
    BY <2>2, <2>3, <2>5 DEF Barred
<1>3. CASE ~\E c \in exchanges : remember_deleted(c) /\ c.who = h
  <2>1. h \in remembered \ overtaken
    <3>1. ASSUME NEW ph \in Phone, Tapped(ph) \/ handleSignOut(ph)
          PROVE  UNCHANGED <<remembered, overtaken>>
      BY <1>1, <3>1, TapsAreRequests DEF Request, Send, handleSignOut
    <3>2. ASSUME NEW c \in exchanges, storeLocalSession(c) \/ deleteAccount(c) \/ NotDone(c)
          PROVE  UNCHANGED <<remembered, overtaken>>
      BY <3>2 DEF storeLocalSession, deleteAccount, NotDone
    <3>3. ASSUME NEW c \in exchanges, Carried(c), ~remember_deleted(c)
          PROVE  UNCHANGED <<remembered, overtaken>>
      BY <3>3 DEF Carried, AccountRead, AccountWritten, AccountReadAgain, _session_for, Served,
                  UsernameGiven, put_username, UsernameWritten, request_password_reset,
                  delete_account, NotesUnchanged
    <3>4. ASSUME NEW c \in exchanges, remember_deleted(c)
          PROVE  h \in remembered \ overtaken
      BY <1>3, <3>4 DEF remember_deleted
    <3>5. ~Forgotten
      BY DEF Forgotten
    <3>6. ASSUME UNCHANGED signInVars \/ \E g \in Holder : LinkExpires(g)
          PROVE  UNCHANGED <<remembered, overtaken>>
      BY <3>6 DEF signInVars, LinkExpires, NotesUnchanged
    <3> QED
      BY <3>1, <3>2, <3>3, <3>4, <3>5, <3>6 DEF SignInNext, Tapped, Carried
  <2>2. registered[h] = NoAccount /\ h \notin handles /\ SettingUsername(h) = {}
        /\ directory[h] = DELETED_NAME
    BY <1>1, <2>1 DEF Barred, Gone
  <2>3. registered'[h] = NoAccount
    BY <1>1, <2>2, StaysGone
  <2>4. h \notin handles' /\ SettingUsername(h)' = {}
    <3>1. ASSUME \/ \E ph \in Phone : Tapped(ph) \/ handleSignOut(ph)
                 \/ \E c \in exchanges : storeLocalSession(c) \/ deleteAccount(c) \/ NotDone(c)
          PROVE  handles' = handles /\ SettingUsername(h)' = {}
      <4>1. handles' = handles
        BY <1>1, <3>1, TapsAreRequests
          DEF Request, Send, handleSignOut, storeLocalSession, deleteAccount, NotDone
      <4>2. SettingUsername(h)' = {}
        BY <1>1, <2>2, <3>1, PhonesCarryNothingOn DEF SettingUsername
      <4> QED
        BY <4>1, <4>2
    <3>2. ASSUME NEW c \in exchanges, Carried(c) PROVE h \notin handles' /\ SettingUsername(h)' = {}
      BY <1>1, <2>1, <2>2, <3>2, NothingGivesName
    <3>3. UNCHANGED signInVars \/ Forgotten \/ (\E g \in Holder : LinkExpires(g))
            => UNCHANGED <<handles, exchanges>>
      BY DEF signInVars, Forgotten, LinkExpires
    <3>4. UNCHANGED <<handles, exchanges>> => h \notin handles' /\ SettingUsername(h)' = {}
      BY <2>2 DEF SettingUsername
    <3> QED
      BY <2>2, <3>1, <3>2, <3>3, <3>4 DEF SignInNext, Tapped, Carried
  <2> QED
    BY <2>3, <2>4 DEF Barred
<1> QED
  BY <1>2, <1>3

\* A deleted account never gets its display name back, whatever tokens, requests and
\* restarts of the API are still to come (users_service.ensure_user,
\* account_service.delete_account); nor its username while the API remembers the deletion,
\* unless that overtook a request past get_current_user (auth.get_current_user).
THEOREM DeletedForGood == SignInSpec => []DeletedStaysDeleted
<1>1. SignInInit => Nameless
  BY InitTyped DEF Nameless, Deleted, Gone, GoneFirst, Barred, SignInInit, NoAccount
<1>2. Nameless /\ [SignInNext]_signInVars => Nameless'
  BY TypedKept, GoneKept, GoneFirstKept, BarredKept DEF Nameless, Deleted
<1>3. Nameless => DeletedStaysDeleted
  BY DEF Nameless, Deleted, Gone, Barred, DeletedStaysDeleted
<1> QED
  BY <1>1, <1>2, <1>3, PTL DEF SignInSpec

-----------------------------------------------------------------------------
(* Passwords. *)

\* The password the account of a change has while the change is under way.
Standing(c) == IF c.stage \in {"written", "session", "nameless", "answered"} THEN Value(c) ELSE told[c.who]

\* While nothing was muddled, one change at a time is under way and somebody waits for it.
Agreed(h) ==
    h \notin muddled =>
        /\ \A c, d \in ChangingPassword(h) : c = d
        /\ \A c \in ChangingPassword(h) : c.heard
        /\ \A row \in registered[h] :
            /\ ChangingPassword(h) = {} => row.password = told[h]
            /\ \A c \in ChangingPassword(h) : row.password = Standing(c)

\* Whatever leaves the changes of h and what was told as they are.
LEMMA NothingOfTheirs ==
    ASSUME Typed, NEW h \in Holder, Agreed(h),
           ChangingPassword(h)' = ChangingPassword(h), told'[h] = told[h],
           muddled \subseteq muddled', PasswordsKept(h)
    PROVE  Agreed(h)'
<1> SUFFICES ASSUME h \notin muddled' PROVE Agreed(h)'
  BY DEF Agreed
<1>1. \A c \in ChangingPassword(h) : c.who = h
  BY DEF ChangingPassword
<1>2. \A c \in ChangingPassword(h) : Standing(c)' = Standing(c)
  BY <1>1 DEF Standing, Value
<1>3. ASSUME NEW row \in registered'[h]
      PROVE  /\ ChangingPassword(h) = {} => row.password = told[h]
             /\ \A c \in ChangingPassword(h) : row.password = Standing(c)
  <2>1. PICK old \in registered[h] : row.password = old.password
    BY DEF PasswordsKept
  <2> QED
    BY <2>1 DEF Agreed
<1> QED
  BY <1>2, <1>3 DEF Agreed

LEMMA OneRequest ==
    ASSUME NEW c \in exchanges, NEW S, \A d \in S : d.who = c.who /\ d.op = c.op,
           exchanges' = (exchanges \ {c}) \cup S, NEW h \in Holder
    PROVE  /\ h # c.who \/ c.op \notin PasswordOps => ChangingPassword(h)' = ChangingPassword(h)
           /\ /\ h = c.who /\ c.op \in PasswordOps
              /\ \A d, e \in ChangingPassword(h) : d = e
              => ChangingPassword(h)' = S /\ ChangingPassword(h) = {c}
  BY DEF ChangingPassword, PasswordOps

\* A change of a password, carried on by one step.
FurtherOn(c, d) ==
    /\ exchanges' = (exchanges \ {c}) \cup {d}
    /\ d.who = c.who /\ d.op = c.op /\ d.value = c.value /\ d.heard
    /\ \/ c.stage = "sent" /\ d.stage \in {"refused", "found"} /\ registered' = registered
       \/ c.stage = "found" /\ d.stage = "written"
       \/ /\ c.stage = "written" /\ d.stage = "refused"
          /\ registered[c.who] = {} /\ registered' = registered
       \/ /\ c.stage \in {"written", "session", "nameless"}
          /\ d.stage \in {"session", "nameless", "answered"}
          /\ registered' = registered

LEMMA ChangeCarriedOn ==
    ASSUME Typed, NEW c \in exchanges, Carried(c), c.op \in PasswordOps, c.heard
    PROVE  \E d : FurtherOn(c, d)
<1>1. c \in Exchange /\ Fits(c) /\ c.op \in {"password", "confirm"}
  BY DEF Typed, PasswordOps
<1>2. ASSUME NEW stage, At(c, stage)
      PROVE  exchanges' = (exchanges \ {c}) \cup {[c EXCEPT !.stage = stage]}
  BY <1>2 DEF At
<1>3. ASSUME NEW stage, NEW n
      PROVE  /\ [c EXCEPT !.stage = stage].who = c.who /\ [c EXCEPT !.stage = stage].op = c.op
             /\ [c EXCEPT !.stage = stage].value = c.value /\ [c EXCEPT !.stage = stage].heard
             /\ [c EXCEPT !.stage = stage].stage = stage
             /\ [c EXCEPT !.seen = n, !.stage = stage].who = c.who
             /\ [c EXCEPT !.seen = n, !.stage = stage].op = c.op
             /\ [c EXCEPT !.seen = n, !.stage = stage].value = c.value
             /\ [c EXCEPT !.seen = n, !.stage = stage].heard
             /\ [c EXCEPT !.seen = n, !.stage = stage].stage = stage
  BY <1>1 DEF Exchange
<1>4. CASE AccountRead(c)
  <2>1. c.stage = "sent" /\ registered' = registered
    BY <1>4 DEF AccountRead
  <2>2. CASE At(c, "refused")
    <3>1. FurtherOn(c, [c EXCEPT !.stage = "refused"])
      BY <1>2, <1>3, <2>1, <2>2 DEF FurtherOn
    <3> QED
      BY <3>1
  <2>3. CASE \E row \in _account(c) :
            exchanges' = (exchanges \ {c}) \cup
                {[c EXCEPT !.seen = row.name, !.stage = IF c.op = "login" THEN "session" ELSE "found"]}
    <3>1. PICK row : exchanges' = (exchanges \ {c}) \cup
                        {[c EXCEPT !.seen = row.name, !.stage = "found"]}
      BY <1>1, <2>3
    <3>2. FurtherOn(c, [c EXCEPT !.seen = row.name, !.stage = "found"])
      BY <1>3, <2>1, <3>1 DEF FurtherOn
    <3> QED
      BY <3>2
  <2> QED
    BY <1>4, <2>2, <2>3 DEF AccountRead
<1>5. CASE AccountWritten(c)
  <2>1. FurtherOn(c, [c EXCEPT !.stage = "written"])
    BY <1>2, <1>3, <1>5 DEF AccountWritten, FurtherOn
  <2> QED
    BY <2>1
<1>6. CASE AccountReadAgain(c)
  <2>1. c.stage = "written" /\ registered' = registered
    BY <1>6 DEF AccountReadAgain
  <2>2. CASE registered[c.who] = NoAccount /\ At(c, "refused")
    <3>1. FurtherOn(c, [c EXCEPT !.stage = "refused"])
      BY <1>2, <1>3, <2>1, <2>2 DEF FurtherOn, NoAccount
    <3> QED
      BY <3>1
  <2>3. CASE \E row \in registered[c.who] :
            exchanges' = (exchanges \ {c}) \cup {[c EXCEPT !.seen = row.name, !.stage = "session"]}
    <3>1. PICK row : exchanges' = (exchanges \ {c}) \cup
                        {[c EXCEPT !.seen = row.name, !.stage = "session"]}
      BY <2>3
    <3>2. FurtherOn(c, [c EXCEPT !.seen = row.name, !.stage = "session"])
      BY <1>3, <2>1, <3>1 DEF FurtherOn
    <3> QED
      BY <3>2
  <2> QED
    BY <1>6, <2>2, <2>3 DEF AccountReadAgain
<1>7. CASE _session_for(c) \/ UsernameGiven(c)
  <2>1. GoesOn(c) => At(c, "answered")
    BY <1>1 DEF GoesOn
  <2>2. \E stage \in {"nameless", "answered"} : At(c, stage)
    BY <1>7, <2>1 DEF _session_for, UsernameGiven, InDirectoryNow
  <2>3. PICK stage \in {"nameless", "answered"} : At(c, stage)
    BY <2>2
  <2>4. c.stage \in {"session", "nameless"} /\ registered' = registered
    BY <1>7 DEF _session_for, UsernameGiven, UsernameWritten
  <2>5. FurtherOn(c, [c EXCEPT !.stage = stage])
    BY <1>2, <1>3, <2>3, <2>4 DEF FurtherOn
  <2> QED
    BY <2>5
<1>8. /\ ~Served(c) /\ ~put_username(c)
      /\ ~request_password_reset(c) /\ ~delete_account(c) /\ ~remember_deleted(c)
  BY <1>1 DEF Served, put_username, request_password_reset, delete_account, remember_deleted, Fits
<1> QED
  BY <1>4, <1>5, <1>6, <1>7, <1>8 DEF Carried

LEMMA CarriedAgreed ==
    ASSUME Typed, NEW c \in exchanges, Carried(c), NEW h \in Holder, Agreed(h)
    PROVE  Agreed(h)'
<1>1. UNCHANGED <<told, muddled>>
  BY DEF Carried, AccountRead, AccountWritten, AccountReadAgain, _session_for, Served,
         UsernameGiven, put_username, UsernameWritten, request_password_reset,
         delete_account, remember_deleted, NotesUnchanged
<1>2. CASE h # c.who \/ c.op \notin PasswordOps
  <2>1. PICK S : /\ exchanges' = (exchanges \ {c}) \cup S
                 /\ \A d \in S : d.who = c.who /\ d.op = c.op
    BY CarriedOn
  <2>2. ChangingPassword(h)' = ChangingPassword(h)
    BY <1>2, <2>1, OneRequest
  <2>3. PasswordsKept(h)
    BY <1>2, RowsCarried DEF PasswordsKept
  <2> QED
    BY <1>1, <2>2, <2>3, NothingOfTheirs
<1>3. CASE h = c.who /\ c.op \in PasswordOps /\ h \notin muddled
  <2>1. c \in ChangingPassword(h) /\ c.heard /\ \A d, e \in ChangingPassword(h) : d = e
    BY <1>3 DEF ChangingPassword, Agreed
  <2>2. PICK d : FurtherOn(c, d)
    BY <1>3, <2>1, ChangeCarriedOn
  <2>3. ChangingPassword(h)' = {d}
    BY <1>3, <2>1, <2>2, OneRequest DEF FurtherOn
  <2>4. Value(d) = Value(c) /\ Value(d)' = Value(d)
    BY <2>2 DEF FurtherOn, Value
  <2>5. \A row \in registered[h] : row.password = Standing(c)
    BY <1>3, <2>1 DEF Agreed
  <2>6. \A row \in registered'[h] : row.password = Standing(d)'
    <3>1. CASE c.stage = "found" /\ d.stage = "written"
      BY <1>3, <2>2, <2>4, <3>1, RowsCarried DEF Standing, FurtherOn
    <3>2. CASE c.stage # "found" /\ registered' = registered
      BY <1>1, <1>3, <2>2, <2>4, <2>5, <3>2 DEF Standing, FurtherOn
    <3> QED
      BY <2>2, <3>1, <3>2 DEF FurtherOn
  <2> QED
    BY <1>1, <2>2, <2>3, <2>6 DEF Agreed, FurtherOn
<1> QED
  BY <1>1, <1>2, <1>3 DEF Agreed

LEMMA TapAgreed ==
    ASSUME Typed, NEW ph \in Phone, Request(ph), NEW h \in Holder, Agreed(h)
    PROVE  Agreed(h)'
<1>1. PICK op \in Ops, g \in Holder, value \in Nat \cup Reset : Send(ph, op, g, value)
  BY DEF Request
<1>2. \E c : /\ c.who = g /\ c.op = op /\ c.stage = "sent" /\ c.heard
            /\ exchanges' = exchanges \cup {c}
  BY <1>1 DEF Send
<1>3. PICK c : /\ c.who = g /\ c.op = op /\ c.stage = "sent" /\ c.heard
               /\ exchanges' = exchanges \cup {c}
  BY <1>2
<1>4. /\ registered' = registered /\ told' = told
      /\ muddled' = IF op \in PasswordOps /\ ChangingPassword(g) # {} THEN muddled \cup {g} ELSE muddled
  BY <1>1 DEF Send
<1>5. CASE h # g \/ op \notin PasswordOps
  <2>1. ChangingPassword(h)' = ChangingPassword(h)
    BY <1>3, <1>4, <1>5 DEF ChangingPassword
  <2> QED
    BY <1>4, <2>1, NothingOfTheirs DEF PasswordsKept
<1>6. CASE h = g /\ op \in PasswordOps /\ ChangingPassword(h) = {}
  <2>1. ChangingPassword(h)' = {c}
    BY <1>3, <1>4, <1>6 DEF ChangingPassword
  <2>2. Standing(c)' = told[h]
    BY <1>3, <1>4, <1>6 DEF Standing
  <2>3. h \notin muddled' => \A row \in registered[h] : row.password = told[h]
    BY <1>4, <1>6 DEF Agreed
  <2> QED
    BY <1>3, <1>4, <2>1, <2>2, <2>3 DEF Agreed
<1>7. CASE h = g /\ op \in PasswordOps /\ ChangingPassword(h) # {}
  BY <1>4, <1>7 DEF Agreed
<1> QED
  BY <1>5, <1>6, <1>7

\* Signing out changes nothing but who is still looking.
LEMMA UnmountedChanges ==
    ASSUME NEW ph, NEW cs, cs \subseteq Exchange, NEW h
    PROVE  LET changes == {c \in cs : c.who = h /\ c.op \in PasswordOps}
           IN  {d \in Unmounted(ph, cs) : d.who = h /\ d.op \in PasswordOps} = Unmounted(ph, changes)
<1>1. \A c \in Exchange : LET d == [c EXCEPT !.mounted = @ /\ c.phone # ph]
                          IN  d.who = c.who /\ d.op = c.op
  BY DEF Exchange
<1> QED
  BY <1>1 DEF Unmounted

LEMMA SignedOutAgreed ==
    ASSUME Typed, NEW ph \in Phone, NEW cs \in SUBSET exchanges, NEW h \in Holder, Agreed(h),
           exchanges' = Unmounted(ph, cs), ChangingPassword(h) \subseteq cs,
           UNCHANGED <<registered, told, muddled>>
    PROVE  Agreed(h)'
<1> SUFFICES ASSUME h \notin muddled PROVE Agreed(h)'
  BY DEF Agreed
<1>1. cs \subseteq Exchange
  BY DEF Typed
<1>2. ChangingPassword(h) = {c \in cs : c.who = h /\ c.op \in PasswordOps}
  BY DEF ChangingPassword
<1>3. ChangingPassword(h)' = Unmounted(ph, ChangingPassword(h))
  BY <1>1, <1>2, UnmountedChanges DEF ChangingPassword
<1>4. CASE ChangingPassword(h) = {}
  <2>1. ChangingPassword(h)' = {}
    BY <1>3, <1>4 DEF Unmounted
  <2> QED
    BY <1>4, <2>1 DEF Agreed
<1>5. CASE ChangingPassword(h) # {}
  <2>1. PICK c \in ChangingPassword(h) : ChangingPassword(h) = {c}
    BY <1>5 DEF Agreed
  <2> DEFINE d == [c EXCEPT !.mounted = @ /\ c.phone # ph]
  <2>2. ChangingPassword(h)' = {d}
    BY <1>3, <2>1 DEF Unmounted
  <2>3. c \in Exchange
    BY <1>1, <1>2
  <2>4. d.who = c.who /\ d.op = c.op /\ d.value = c.value /\ d.stage = c.stage /\ d.heard = c.heard
    BY <2>3 DEF Exchange
  <2> HIDE DEF d
  <2>5. Standing(d)' = Standing(c)
    BY <2>4 DEF Standing, Value
  <2>6. c.heard /\ \A row \in registered[h] : row.password = Standing(c)
    BY <2>1 DEF Agreed
  <2> QED
    BY <2>2, <2>4, <2>5, <2>6 DEF Agreed
<1> QED
  BY <1>4, <1>5

LEMMA HeardAgreed ==
    ASSUME Typed, NEW c \in exchanges, storeLocalSession(c) \/ NotDone(c),
           NEW h \in Holder, Agreed(h)
    PROVE  Agreed(h)'
<1>1. c \in Exchange
  BY DEF Typed
<1>2. registered' = registered /\ muddled \subseteq muddled'
  BY DEF storeLocalSession, NotDone
<1>3. \E S : /\ exchanges' = (exchanges \ {c}) \cup S
             /\ \A d \in S : d.who = c.who /\ d.op = c.op
             /\ storeLocalSession(c) \/ c.stage = "refused" => S = {}
  <2>1. CASE storeLocalSession(c)
    <3>1. exchanges' = (exchanges \ {c}) \cup {}
      BY <2>1 DEF storeLocalSession
    <3> QED
      BY <3>1
  <2>2. CASE NotDone(c)
    <3> DEFINE S == {d \in {[c EXCEPT !.heard = FALSE, !.mounted = FALSE]} :
                        c.stage \notin {"refused", "answered"}}
    <3>1. exchanges' = (exchanges \ {c}) \cup S
      BY <2>2 DEF NotDone
    <3>2. \A d \in S : d.who = c.who /\ d.op = c.op
      BY <1>1 DEF Exchange
    <3>3. c.stage = "refused" => S = {}
      OBVIOUS
    <3>4. storeLocalSession(c) => S = {}
      BY DEF storeLocalSession
    <3> QED
      BY <3>1, <3>2, <3>3, <3>4
  <2> QED
    BY <2>1, <2>2
<1>4. PICK S : /\ exchanges' = (exchanges \ {c}) \cup S
               /\ \A d \in S : d.who = c.who /\ d.op = c.op
               /\ storeLocalSession(c) \/ c.stage = "refused" => S = {}
  BY <1>3
<1>5. CASE h # c.who \/ c.op \notin PasswordOps
  <2>1. ChangingPassword(h)' = ChangingPassword(h)
    BY <1>4, <1>5, OneRequest
  <2>2. told'[h] = told[h]
    <3>1. c.op \notin PasswordOps => told' = told
      BY DEF storeLocalSession, NotDone, PasswordOps
    <3>2. h # c.who => told'[h] = told[h]
      BY DEF storeLocalSession, NotDone, Typed
    <3> QED
      BY <1>5, <3>1, <3>2
  <2> QED
    BY <1>2, <2>1, <2>2, NothingOfTheirs DEF PasswordsKept
<1>6. CASE h = c.who /\ c.op \in PasswordOps /\ h \notin muddled'
  <2>1. h \notin muddled /\ c \in ChangingPassword(h) /\ \A d, e \in ChangingPassword(h) : d = e
    BY <1>2, <1>6 DEF Agreed, ChangingPassword
  <2>2. \A row \in registered[h] : row.password = Standing(c)
    BY <2>1 DEF Agreed
  <2>3. CASE storeLocalSession(c)
    <3>1. ChangingPassword(h)' = {}
      BY <1>4, <1>6, <2>1, <2>3, OneRequest
    <3>2. told'[h] = Value(c) /\ Standing(c) = Value(c)
      BY <1>6, <2>3 DEF storeLocalSession, Typed, PasswordOps, Value, Standing
    <3> QED
      BY <1>2, <2>2, <3>1, <3>2 DEF Agreed
  <2>4. CASE NotDone(c)
    <3>1. c.stage = "refused" /\ told' = told
      BY <1>6, <2>4 DEF NotDone
    <3>2. ChangingPassword(h)' = {}
      BY <1>4, <1>6, <2>1, <3>1, OneRequest
    <3>3. Standing(c) = told[h]
      BY <1>6, <3>1 DEF Standing
    <3> QED
      BY <1>2, <2>2, <3>1, <3>2, <3>3 DEF Agreed
  <2> QED
    BY <2>3, <2>4
<1> QED
  BY <1>5, <1>6 DEF Agreed

LEMMA AgreedKept ==
    ASSUME Typed, [SignInNext]_signInVars, NEW h \in Holder, Agreed(h)
    PROVE  Agreed(h)'
<1>1. ASSUME NEW ph \in Phone, Tapped(ph) PROVE Agreed(h)'
  BY <1>1, TapsAreRequests, TapAgreed
<1>2. ASSUME NEW ph \in Phone, handleSignOut(ph) PROVE Agreed(h)'
  <2>1. /\ exchanges' = Unmounted(ph, exchanges) /\ ChangingPassword(h) \subseteq exchanges
        /\ UNCHANGED <<registered, told, muddled>>
    BY <1>2 DEF handleSignOut, signOut, ChangingPassword
  <2> QED
    BY <2>1, SignedOutAgreed
<1>3. ASSUME NEW c \in exchanges, deleteAccount(c) PROVE Agreed(h)'
  <2>1. c.phone \in Phone /\ c.op \notin PasswordOps
    BY <1>3 DEF deleteAccount, Typed, Exchange, PasswordOps
  <2>2. /\ exchanges' = Unmounted(c.phone, exchanges \ {c})
        /\ exchanges \ {c} \in SUBSET exchanges
        /\ ChangingPassword(h) \subseteq exchanges \ {c}
        /\ UNCHANGED <<registered, told, muddled>>
    BY <1>3, <2>1 DEF deleteAccount, signOut, ChangingPassword
  <2> QED
    BY <2>1, <2>2, SignedOutAgreed
<1>4. ASSUME NEW g \in Holder, LinkExpires(g) PROVE Agreed(h)'
  <2>1. PasswordsKept(h)
    BY <1>4, ExpiryTyped
  <2>2. UNCHANGED <<exchanges, told, muddled>>
    BY <1>4 DEF LinkExpires, NotesUnchanged
  <2> QED
    BY <2>1, <2>2, NothingOfTheirs DEF ChangingPassword
<1>5. CASE Forgotten \/ UNCHANGED signInVars
  <2>1. UNCHANGED <<registered, exchanges, told, muddled>>
    BY <1>5 DEF Forgotten, NotesUnchanged, signInVars
  <2> QED
    BY <2>1, NothingOfTheirs DEF ChangingPassword, PasswordsKept
<1> QED
  BY <1>1, <1>2, <1>3, <1>4, <1>5, HeardAgreed, CarriedAgreed DEF SignInNext, Tapped, Carried

\* The password last confirmed is the one the account has, for any number of phones,
\* reset links and requests that cross (routers/local_auth.py, lib/account.ts).
THEOREM SavedIsStored == SignInSpec => []SavedPasswordWorks
<1> DEFINE IInv == Typed /\ \A h \in Holder : Agreed(h)
<1>1. SignInInit => IInv
  BY InitTyped DEF SignInInit, Agreed, ChangingPassword
<1>2. IInv /\ [SignInNext]_signInVars => IInv'
  BY TypedKept, AgreedKept
<1>3. IInv => SavedPasswordWorks
  BY DEF Agreed, SavedPasswordWorks
<1> QED
  BY <1>1, <1>2, <1>3, PTL DEF SignInSpec

-----------------------------------------------------------------------------
(* Signing up with a username, when the accounts are the API's own. *)

\* A suggestion has a variant left to try.
VariantsLeft == \A r \in handling : r.attempt <= MaxAttempts

Handle == Wanted \cup {suggestion(p, n) : p \in Newcomer, n \in Nat}

Typable == Wanted \cup {NoHandle}

Form ==
    [page : Pages, typed : Typable, check : [for : Typable, available : BOOLEAN],
     asking : {"no", "sent", "taken", "free"},
     stage : {"editing", "checking", "signing up", "listing", "claiming", "in"},
     want : Typable, notice : BOOLEAN]

Handling ==
    [user : Newcomer, op : {"signup", "me", "claim"},
     stage : {"sent", "assign", "assigning", "taken?", "free", "ok", "refused"},
     attempt : Nat, heard : BOOLEAN]

SignUpTyped ==
    /\ users \in [Newcomer -> Handle \cup {Unlisted}]
    /\ form \in [Newcomer -> Form]
    /\ handling \subseteq Handling

\* A form that was sent holds the username it was sent with; one that was not, or for
\* which signing up failed, asks for none.
FormRight(p) ==
    /\ form[p].stage = "editing" => form[p].want = NoHandle
    /\ form[p].stage \notin {"editing", "in"} => form[p].want \in Wanted
    /\ form[p].stage \in {"listing", "claiming", "in"} => p \in accounts
    /\ form[p].stage = "in" /\ form[p].page = "home" =>
            form[p].notice \/ form[p].want \in {NoHandle, users[p]}

\* While an account is listed nothing else runs for it, unless its form failed and the
\* person logged in.  Once it is listed, the account of a form that succeeded keeps a
\* username, and no request but the claim changes it.
RequestRight(r) ==
    LET f == form[r.user]
    IN  /\ r.user \in accounts
        /\ r.op = "signup" =>
            /\ r.stage \in {"sent", "assign", "assigning"}
            /\ f.stage # "claiming"
            /\ f.stage = "in" => f.want = NoHandle
            /\ r.heard => f.stage = "listing"
        /\ r.op = "me" =>
            /\ r.stage \in {"sent", "assign", "assigning"}
            /\ f.stage \in {"claiming", "in"}
            /\ f.want # NoHandle => r.stage = "sent" /\ users[r.user] # Unlisted
        /\ r.op = "claim" =>
            /\ r.stage \in {"sent", "taken?", "free", "ok", "refused"}
            /\ f.stage \in {"claiming", "in"}
            /\ f.want \in Wanted /\ users[r.user] # Unlisted
        /\ r.stage = "ok" => users[r.user] = f.want

OneListing == \A r, q \in handling : r.op = "signup" /\ q.op = "signup" /\ r.user = q.user => r = q

SignUpInv ==
    /\ SignUpTyped
    /\ \A p \in Newcomer : FormRight(p)
    /\ \A r \in handling : RequestRight(r)
    /\ OneListing

LEMMA NoHandleIsWanted == Unlisted \notin Handle /\ NoHandle \notin Wanted
<1> SUFFICES ASSUME Unlisted \in Handle PROVE FALSE
  BY SignUpAssumption
<1>1. PICK p \in Newcomer, n \in Nat : <<NoHandle>> = <<Suggested[p], n>>
  BY SignUpAssumption DEF Handle, suggestion, Unlisted
<1>2. Len(<<NoHandle>>) = 1 /\ Len(<<Suggested[p], n>>) = 2
  OBVIOUS
<1> QED
  BY <1>1, <1>2, SignUpAssumption

(* A phone changes its form: before it asks for an account, or without a change to the
   username asked for. *)
LEMMA FormTurned ==
    ASSUME SignUpInv, UNCHANGED <<accounts, users, handling>>, NEW p \in Newcomer,
           NEW f \in Form, form' = [form EXCEPT ![p] = f], f.page = form[p].page,
           \/ f.stage = form[p].stage /\ f.want = form[p].want /\ f.notice = form[p].notice
           \/ /\ {f.stage, form[p].stage} \subseteq {"editing", "checking", "signing up"}
              /\ IF f.stage = "editing" THEN f.want = NoHandle ELSE f.want \in Wanted
    PROVE  SignUpInv'
<1>1. form \in [Newcomer -> Form]
  BY DEF SignUpInv, SignUpTyped
<1>2. form'[p] = f /\ \A o \in Newcomer : o # p => form'[o] = form[o]
  BY <1>1
<1>3. SignUpTyped'
  BY <1>1 DEF SignUpInv, SignUpTyped
<1>4. ASSUME NEW o \in Newcomer PROVE FormRight(o)'
  <2>1. FormRight(o)
    BY DEF SignUpInv
  <2> QED
    BY <1>2, <2>1 DEF FormRight
<1>5. ASSUME NEW r \in handling PROVE RequestRight(r)'
  <2>1. RequestRight(r) /\ r \in Handling
    BY DEF SignUpInv, SignUpTyped
  <2>2. r.user \in Newcomer /\ r.op \in {"signup", "me", "claim"}
    BY <2>1 DEF Handling
  <2>3. CASE r.user # p
    <3>1. form'[r.user] = form[r.user]
      BY <1>2, <2>2, <2>3
    <3> QED
      BY <2>1, <3>1 DEF RequestRight
  <2>4. CASE r.user = p
    BY <1>2, <2>1, <2>2, <2>4 DEF RequestRight
  <2> QED
    BY <2>3, <2>4
<1> QED
  BY <1>3, <1>4, <1>5 DEF SignUpInv, OneListing

LEMMA FormsKeep ==
    ASSUME SignUpInv, NEW p \in Newcomer,
           \/ \E h \in Wanted : Type(p, h)
           \/ username_available(p) \/ HandleChecked(p)
           \/ handleSignup(p) \/ Rechecked(p) \/ RecheckFailed(p)
    PROVE  SignUpInv'
<1>1. form \in [Newcomer -> Form] /\ form[p] \in Form
  BY DEF SignUpInv, SignUpTyped
<1>2. UNCHANGED <<accounts, users, handling>>
  BY DEF Type, username_available, HandleChecked, handleSignup, Rechecked, RecheckFailed
<1>3. FormRight(p)
  BY DEF SignUpInv
<1>4. ASSUME NEW h \in Wanted, Type(p, h) PROVE SignUpInv'
  <2>1. PICK f : f = [form[p] EXCEPT !.typed = h, !.asking = "sent"]
    OBVIOUS
  <2>2. /\ f \in Form /\ f.stage = form[p].stage /\ f.want = form[p].want
        /\ f.notice = form[p].notice /\ f.page = form[p].page
    BY <1>1, <2>1 DEF Form, Typable
  <2>3. form' = [form EXCEPT ![p] = f]
    BY <1>1, <1>4, <2>1 DEF Type
  <2> QED
    BY <1>2, <2>2, <2>3, FormTurned
<1>5. CASE username_available(p)
  <2>1. PICK f : f = [form[p] EXCEPT !.asking =
                        IF username_taken(form[p].typed, {}) THEN "taken" ELSE "free"]
    OBVIOUS
  <2>2. /\ f \in Form /\ f.stage = form[p].stage /\ f.want = form[p].want
        /\ f.notice = form[p].notice /\ f.page = form[p].page
    BY <1>1, <2>1 DEF Form
  <2>3. form' = [form EXCEPT ![p] = f]
    BY <1>1, <1>5, <2>1 DEF username_available
  <2> QED
    BY <1>2, <2>2, <2>3, FormTurned
<1>6. CASE HandleChecked(p)
  <2>1. PICK failed \in BOOLEAN :
            form' = [form EXCEPT ![p].asking = "no",
                                 ![p].check = [for |-> form[p].typed,
                                               available |-> failed \/ form[p].asking = "free"]]
    BY <1>6 DEF HandleChecked
  <2>2. PICK f : f = [form[p] EXCEPT !.asking = "no",
                        !.check = [for |-> form[p].typed,
                                   available |-> failed \/ form[p].asking = "free"]]
    OBVIOUS
  <2>3. /\ f \in Form /\ f.stage = form[p].stage /\ f.want = form[p].want
        /\ f.notice = form[p].notice /\ f.page = form[p].page
    BY <1>1, <2>2 DEF Form
  <2>4. form' = [form EXCEPT ![p] = f]
    BY <1>1, <2>1, <2>2
  <2> QED
    BY <1>2, <2>3, <2>4, FormTurned
<1>7. CASE handleSignup(p)
  <2>1. form[p].stage = "editing" /\ form[p].typed \in Wanted
    BY <1>1, <1>7 DEF handleSignup, SignUpForm, Form, Typable
  <2>2. PICK f : f = [form[p] EXCEPT !.stage = "checking", !.want = form[p].typed]
    OBVIOUS
  <2>3. f \in Form /\ f.stage = "checking" /\ f.want \in Wanted /\ f.page = form[p].page
    BY <1>1, <2>1, <2>2 DEF Form
  <2>4. form' = [form EXCEPT ![p] = f]
    BY <1>1, <1>7, <2>2 DEF handleSignup
  <2> QED
    BY <1>2, <2>1, <2>3, <2>4, FormTurned
<1>8. CASE Rechecked(p) \/ RecheckFailed(p)
  <2>1. form[p].stage = "checking" /\ form[p].want \in Wanted
    BY <1>3, <1>8 DEF Rechecked, RecheckFailed, FormRight
  <2>2. PICK f, g : /\ f = [form[p] EXCEPT !.stage = "signing up"]
                    /\ g = [form[p] EXCEPT !.stage = "editing", !.want = NoHandle,
                                           !.check = [for |-> form[p].want, available |-> FALSE]]
    OBVIOUS
  <2>3. /\ f \in Form /\ f.stage = "signing up" /\ f.want \in Wanted /\ f.page = form[p].page
        /\ g \in Form /\ g.stage = "editing" /\ g.want = NoHandle /\ g.page = form[p].page
    BY <1>1, <2>1, <2>2 DEF Form, Typable
  <2>4. form' = [form EXCEPT ![p] = f] \/ form' = [form EXCEPT ![p] = g]
    BY <1>1, <1>8, <2>2 DEF Rechecked, RecheckFailed
  <2> QED
    BY <1>2, <2>1, <2>3, <2>4, FormTurned
<1> QED
  BY <1>4, <1>5, <1>6, <1>7, <1>8

(* An account is asked for: nothing ran for it before. *)
LEMMA SignUpKeeps ==
    ASSUME SignUpInv, LocalMode, NEW p \in Newcomer, signUpWithPassword(p)
    PROVE  SignUpInv'
<1>1. form \in [Newcomer -> Form] /\ form[p] \in Form /\ FormRight(p)
  BY DEF SignUpInv, SignUpTyped
<1>2. PICK q, f : q = Ask(p, "signup") /\ f = [form[p] EXCEPT !.stage = "listing"]
  OBVIOUS
<1>3. /\ form[p].stage = "signing up" /\ p \notin accounts /\ accounts' = accounts \cup {p}
      /\ users' = users /\ handling' = handling \cup {q} /\ form' = [form EXCEPT ![p] = f]
  BY <1>1, <1>2 DEF signUpWithPassword
<1>4. f \in Form /\ f.stage = "listing" /\ f.want = form[p].want /\ f.notice = form[p].notice
  BY <1>1, <1>2 DEF Form
<1>5. q \in Handling /\ q.user = p /\ q.op = "signup" /\ q.stage = "sent"
  BY <1>2 DEF Ask, Handling
<1>6. form'[p] = f /\ \A o \in Newcomer : o # p => form'[o] = form[o]
  BY <1>1, <1>3
<1>7. SignUpTyped'
  BY <1>1, <1>3, <1>4, <1>5 DEF SignUpInv, SignUpTyped
<1>8. ASSUME NEW o \in Newcomer PROVE FormRight(o)'
  <2>1. FormRight(o)
    BY DEF SignUpInv
  <2> QED
    BY <1>1, <1>3, <1>4, <1>6, <2>1 DEF FormRight
<1>9. \A r \in handling : r.user # p /\ r.user \in Newcomer
  BY <1>3 DEF SignUpInv, SignUpTyped, RequestRight, Handling
<1>10. ASSUME NEW r \in handling PROVE RequestRight(r)'
  <2>1. RequestRight(r) /\ form'[r.user] = form[r.user]
    BY <1>6, <1>9 DEF SignUpInv
  <2> QED
    BY <1>3, <2>1 DEF RequestRight
<1>11. RequestRight(q)'
  BY <1>3, <1>4, <1>5, <1>6 DEF RequestRight
<1>12. OneListing'
  BY <1>3, <1>5, <1>9 DEF SignUpInv, OneListing
<1> QED
  BY <1>3, <1>7, <1>8, <1>10, <1>11, <1>12 DEF SignUpInv

(* A request gets on, and the table and the forms stay as they are. *)
LEMMA RequestTurned ==
    ASSUME SignUpInv, NEW r \in handling, NEW q \in Handling, RequestRight(q)',
           q.user = r.user, q.op = r.op,
           handling' \subseteq (handling \ {r}) \cup {q}, UNCHANGED <<accounts, users, form>>
    PROVE  SignUpInv'
<1>1. \A o \in Newcomer : FormRight(o)'
  BY DEF SignUpInv, FormRight
<1>2. \A o \in handling : RequestRight(o)'
  BY DEF SignUpInv, RequestRight
<1>3. OneListing'
  BY DEF SignUpInv, OneListing
<1> QED
  BY <1>1, <1>2, <1>3 DEF SignUpInv, SignUpTyped

(* Signing up failed, for all the phone knows; the request goes on. *)
LEMMA FailureKeeps ==
    ASSUME SignUpInv, NEW p \in Newcomer, SignUpFailed(p)
    PROVE  SignUpInv'
<1>1. form \in [Newcomer -> Form] /\ form[p] \in Form /\ FormRight(p)
  BY DEF SignUpInv, SignUpTyped
<1>2. PICK f : f = [form[p] EXCEPT !.stage = "editing", !.want = NoHandle]
  OBVIOUS
<1>3. /\ form' = [form EXCEPT ![p] = f] /\ UNCHANGED <<accounts, users>>
      /\ form[p].stage \in {"signing up", "listing"}
  BY <1>1, <1>2 DEF SignUpFailed
<1>4. f \in Form /\ f.stage = "editing" /\ f.want = NoHandle /\ f.page = form[p].page
  BY <1>1, <1>2 DEF Form, Typable
<1>5. CASE form[p].stage = "signing up" /\ UNCHANGED handling
  BY <1>3, <1>4, <1>5, FormTurned
<1>6. ASSUME NEW r \in handling, r.user = p, r.op = "signup",
             handling' = (handling \ {r}) \cup {[r EXCEPT !.heard = FALSE]}
      PROVE  SignUpInv'
  <2>1. PICK q : q = [r EXCEPT !.heard = FALSE]
    OBVIOUS
  <2>2. r \in Handling /\ RequestRight(r)
    BY DEF SignUpInv, SignUpTyped
  <2>3. q \in Handling /\ q.user = p /\ q.op = "signup" /\ q.stage = r.stage /\ ~q.heard
    BY <1>6, <2>1, <2>2 DEF Handling
  <2>4. form'[p] = f /\ \A o \in Newcomer : o # p => form'[o] = form[o]
    BY <1>1, <1>3
  <2>5. handling' = (handling \ {r}) \cup {q}
    BY <1>6, <2>1
  <2>6. SignUpTyped'
    BY <1>1, <1>3, <1>4, <2>3, <2>5 DEF SignUpInv, SignUpTyped
  <2>7. ASSUME NEW o \in Newcomer PROVE FormRight(o)'
    <3>1. FormRight(o)
      BY DEF SignUpInv
    <3> QED
      BY <1>3, <1>4, <2>4, <3>1 DEF FormRight
  <2>8. \A o \in handling \ {r} : o.user # p \/ o.op # "signup"
    BY <1>6 DEF SignUpInv, OneListing
  <2>9. ASSUME NEW o \in handling \ {r} PROVE RequestRight(o)'
    <3>1. RequestRight(o) /\ o.user \in Newcomer /\ o.op \in {"signup", "me", "claim"}
      BY DEF SignUpInv, SignUpTyped, Handling
    <3>2. o.user # p
      BY <1>3, <2>8, <3>1 DEF RequestRight
    <3>3. form'[o.user] = form[o.user]
      BY <2>4, <3>1, <3>2
    <3> QED
      BY <1>3, <3>1, <3>3 DEF RequestRight
  <2>10. RequestRight(q)'
    BY <1>3, <1>4, <1>6, <2>2, <2>3, <2>4 DEF RequestRight
  <2>11. OneListing'
    BY <2>3, <2>5, <2>8 DEF SignUpInv, OneListing
  <2> QED
    BY <2>5, <2>6, <2>7, <2>9, <2>10, <2>11 DEF SignUpInv
<1> QED
  BY <1>5, <1>6 DEF SignUpFailed

(* The answer to the claim, or none, lets the person in. *)
LEMMA LettingInKeeps ==
    ASSUME SignUpInv, NEW r \in handling, Claimed(r) \/ ClaimUnheard(r)
    PROVE  SignUpInv'
<1>1. r \in Handling /\ RequestRight(r) /\ r.op = "claim"
  BY DEF SignUpInv, SignUpTyped, Claimed, ClaimUnheard
<1>2. r.user \in Newcomer /\ form[r.user].stage \in {"claiming", "in"}
  BY <1>1 DEF RequestRight, Handling
<1>3. form \in [Newcomer -> Form] /\ form[r.user] \in Form /\ FormRight(r.user)
  BY <1>2 DEF SignUpInv, SignUpTyped
<1>4. PICK refused \in BOOLEAN :
            /\ onSignedIn(r.user, refused)
            /\ refused \/ r.stage = "ok"
  BY DEF Claimed, ClaimUnheard
<1>5. PICK f : f = [form[r.user] EXCEPT !.stage = "in", !.asking = "no",
                                        !.notice = refused /\ form[r.user].page = "home"]
  OBVIOUS
<1>6. form' = [form EXCEPT ![r.user] = f]
  BY <1>3, <1>4, <1>5 DEF onSignedIn
<1>7. /\ f \in Form /\ f.stage = "in" /\ f.want = form[r.user].want
      /\ f.page = form[r.user].page /\ (f.page = "home" => f.notice = refused)
  <2>1. (refused /\ form[r.user].page = "home") \in BOOLEAN
    OBVIOUS
  <2>2. PICK b \in BOOLEAN : b = (refused /\ form[r.user].page = "home")
    BY <2>1
  <2>3. f = [form[r.user] EXCEPT !.stage = "in", !.asking = "no", !.notice = b]
    BY <1>5, <2>2
  <2> QED
    BY <1>3, <1>4, <2>2, <2>3 DEF Form
<1>8. form'[r.user] = f /\ \A o \in Newcomer : o # r.user => form'[o] = form[o]
  BY <1>2, <1>3, <1>6
<1>9. UNCHANGED <<accounts, users>>
  BY DEF Claimed, ClaimUnheard
<1>10. PICK q : q = [r EXCEPT !.heard = FALSE]
  OBVIOUS
<1>11. handling' \subseteq (handling \ {r}) \cup {q}
  BY <1>10 DEF Claimed, ClaimUnheard
<1>12. q \in Handling /\ q.user = r.user /\ q.op = "claim" /\ q.stage = r.stage
  BY <1>1, <1>10 DEF Handling
<1>13. SignUpTyped'
  BY <1>2, <1>3, <1>6, <1>7, <1>9, <1>11, <1>12 DEF SignUpInv, SignUpTyped
<1>14. ASSUME NEW o \in Newcomer PROVE FormRight(o)'
  <2>1. FormRight(o)
    BY DEF SignUpInv
  <2>2. CASE o # r.user
    BY <1>8, <1>9, <2>1, <2>2 DEF FormRight
  <2>3. CASE o = r.user
    <3>1. o \in accounts
      BY <1>1, <2>3 DEF RequestRight
    <3>2. f.page = "home" => f.notice \/ users[o] = f.want
      BY <1>1, <1>4, <1>7, <2>3 DEF RequestRight
    <3> QED
      BY <1>7, <1>8, <1>9, <2>3, <3>1, <3>2 DEF FormRight
  <2> QED
    BY <2>2, <2>3
<1>15. ASSUME NEW o \in Handling, RequestRight(o)
       PROVE  RequestRight(o)'
  <2>1. o.user \in Newcomer /\ o.op \in {"signup", "me", "claim"}
    BY DEF Handling
  <2>2. CASE o.user # r.user
    BY <1>8, <1>9, <1>15, <2>1, <2>2 DEF RequestRight
  <2>3. CASE o.user = r.user
    BY <1>1, <1>2, <1>7, <1>8, <1>9, <1>15, <2>1, <2>3, NoHandleIsWanted DEF RequestRight
  <2> QED
    BY <2>2, <2>3
<1>16. RequestRight(q)
  BY <1>1, <1>12 DEF RequestRight
<1>17. \A o \in handling' : o \in Handling /\ RequestRight(o)
  BY <1>11, <1>12, <1>16 DEF SignUpInv, SignUpTyped
<1>18. OneListing'
  BY <1>11, <1>12 DEF SignUpInv, OneListing
<1> QED
  BY <1>13, <1>14, <1>15, <1>17, <1>18 DEF SignUpInv

(* Someone whose form failed logs in to the account that was made all the same. *)
LEMMA LogInKeeps ==
    ASSUME SignUpInv, NEW p \in Newcomer, LogIn(p)
    PROVE  SignUpInv'
<1>1. form \in [Newcomer -> Form] /\ form[p] \in Form /\ FormRight(p)
  BY DEF SignUpInv, SignUpTyped
<1>2. form[p].stage = "editing" /\ p \in accounts /\ form[p].want = NoHandle
  BY <1>1 DEF LogIn, FormRight
<1>3. PICK f, q : /\ f = [form[p] EXCEPT !.stage = "in", !.asking = "no", !.notice = FALSE]
                  /\ q = Ask(p, "me")
  OBVIOUS
<1>4. /\ form' = [form EXCEPT ![p] = f] /\ handling' = handling \cup {q}
      /\ UNCHANGED <<accounts, users>>
  BY <1>1, <1>3 DEF LogIn, onSignedIn
<1>5. f \in Form /\ f.stage = "in" /\ f.want = NoHandle
  BY <1>1, <1>2, <1>3 DEF Form
<1>6. q \in Handling /\ q.user = p /\ q.op = "me" /\ q.stage = "sent"
  BY <1>3 DEF Ask, Handling
<1>7. form'[p] = f /\ \A o \in Newcomer : o # p => form'[o] = form[o]
  BY <1>1, <1>4
<1>8. SignUpTyped'
  BY <1>1, <1>4, <1>5, <1>6 DEF SignUpInv, SignUpTyped
<1>9. ASSUME NEW o \in Newcomer PROVE FormRight(o)'
  <2>1. FormRight(o)
    BY DEF SignUpInv
  <2> QED
    BY <1>2, <1>4, <1>5, <1>7, <2>1 DEF FormRight
<1>10. ASSUME NEW r \in handling PROVE RequestRight(r)'
  <2>1. RequestRight(r) /\ r.user \in Newcomer /\ r.op \in {"signup", "me", "claim"}
    BY DEF SignUpInv, SignUpTyped, Handling
  <2>2. CASE r.user # p
    BY <1>4, <1>7, <2>1, <2>2 DEF RequestRight
  <2>3. CASE r.user = p
    BY <1>2, <1>4, <1>5, <1>7, <2>1, <2>3 DEF RequestRight
  <2> QED
    BY <2>2, <2>3
<1>11. RequestRight(q)'
  BY <1>2, <1>4, <1>5, <1>6, <1>7 DEF RequestRight
<1>12. OneListing'
  BY <1>4, <1>6 DEF SignUpInv, OneListing
<1> QED
  BY <1>4, <1>8, <1>9, <1>10, <1>11, <1>12 DEF SignUpInv

(* A username is written for somebody, or left alone, and their request gets on or is
   dropped; a claim sets the username its form was sent with. *)
LEMMA NameWritten ==
    ASSUME SignUpInv, NEW r \in handling, NEW h \in Handle, users' = [users EXCEPT ![r.user] = h],
           UNCHANGED <<accounts, form>>,
           \/ r.op # "claim" /\ r.stage = "assigning" /\ handling' \subseteq handling \ {r}
           \/ /\ r.op = "claim" /\ h = want(r)
              /\ handling' \subseteq (handling \ {r}) \cup {[r EXCEPT !.stage = "ok"]}
    PROVE  SignUpInv'
<1>1. r \in Handling /\ RequestRight(r)
  BY DEF SignUpInv, SignUpTyped
<1>2. r.user \in Newcomer /\ users \in [Newcomer -> Handle \cup {Unlisted}]
  BY <1>1 DEF SignUpInv, SignUpTyped, Handling
<1>3. users'[r.user] = h /\ \A o \in Newcomer : o # r.user => users'[o] = users[o]
  BY <1>2
<1>4. PICK q : q = [r EXCEPT !.stage = "ok"]
  OBVIOUS
<1>5. q \in Handling /\ q.user = r.user /\ q.op = r.op /\ q.stage = "ok" /\ q.heard = r.heard
  BY <1>1, <1>4 DEF Handling
<1>6. handling' \subseteq (handling \ {r}) \cup {q} /\ (q \in handling' => q \in handling \/ r.op = "claim")
  BY <1>4
<1>7. SignUpTyped'
  BY <1>2, <1>5, <1>6 DEF SignUpInv, SignUpTyped
<1>8. ASSUME NEW o \in Newcomer PROVE FormRight(o)'
  <2>1. FormRight(o)
    BY DEF SignUpInv
  <2>2. CASE o = r.user
    BY <1>1, <1>2, <1>3, <2>1, <2>2, NoHandleIsWanted DEF FormRight, RequestRight, want, Handling
  <2>3. CASE o # r.user
    BY <1>3, <2>1, <2>3 DEF FormRight
  <2> QED
    BY <2>2, <2>3
<1>9. ASSUME NEW o \in handling \ {r} PROVE o \in handling' => RequestRight(o)'
  <2>1. RequestRight(o) /\ o.user \in Newcomer /\ o.op \in {"signup", "me", "claim"}
    BY DEF SignUpInv, SignUpTyped, Handling
  <2>2. CASE o.user # r.user
    BY <1>3, <2>1, <2>2 DEF RequestRight
  <2>3. CASE o.user = r.user /\ r.op = "signup"
    <3>1. o.op # "signup"
      BY <2>3 DEF SignUpInv, OneListing
    <3> QED
      BY <1>1, <2>1, <2>3, <3>1, NoHandleIsWanted DEF RequestRight
  <2>4. CASE o.user = r.user /\ r.op = "me"
    BY <1>1, <1>3, <2>1, <2>4, NoHandleIsWanted DEF RequestRight
  <2>5. CASE o.user = r.user /\ r.op = "claim"
    BY <1>1, <1>3, <2>1, <2>5, NoHandleIsWanted DEF RequestRight, want
  <2> QED
    BY <1>1, <2>2, <2>3, <2>4, <2>5 DEF Handling
<1>10. r.op = "claim" => RequestRight(q)'
  BY <1>1, <1>3, <1>5, NoHandleIsWanted DEF RequestRight, want
<1>11. \A o \in handling' : RequestRight(o)'
  BY <1>6, <1>9, <1>10
<1>12. OneListing'
  BY <1>5, <1>6 DEF SignUpInv, OneListing
<1> QED
  BY <1>7, <1>8, <1>11, <1>12 DEF SignUpInv

(* An account is listed, and its phone goes on to claim. *)
LEMMA AnnouncedKeeps ==
    ASSUME SignUpInv, NEW r \in handling, r.op = "signup", r.heard,
           Announced(r.user, handling \ {r}), UNCHANGED accounts,
           \/ users' = users /\ users[r.user] # Unlisted
           \/ \E h \in Handle : users' = [users EXCEPT ![r.user] = h]
    PROVE  SignUpInv'
<1> PICK p : p = r.user
  OBVIOUS
<1>1. r \in Handling /\ RequestRight(r)
  BY DEF SignUpInv, SignUpTyped
<1>2. p \in Newcomer /\ form[p].stage = "listing" /\ p \in accounts
  BY <1>1 DEF RequestRight, Handling
<1>3. form \in [Newcomer -> Form] /\ form[p] \in Form /\ FormRight(p)
  BY <1>2 DEF SignUpInv, SignUpTyped
<1>4. PICK f, m, c : /\ f = [form[p] EXCEPT !.stage = "claiming"]
                     /\ m = Ask(p, "me") /\ c = Ask(p, "claim")
  OBVIOUS
<1>5. form' = [form EXCEPT ![p] = f] /\ handling' = (handling \ {r}) \cup {m, c}
  BY <1>3, <1>4 DEF Announced
<1>6. f \in Form /\ f.stage = "claiming" /\ f.want = form[p].want
  BY <1>3, <1>4 DEF Form
<1>7. form'[p] = f /\ \A o \in Newcomer : o # p => form'[o] = form[o]
  BY <1>2, <1>3, <1>5
<1>8. /\ m \in Handling /\ m.user = p /\ m.op = "me" /\ m.stage = "sent"
      /\ c \in Handling /\ c.user = p /\ c.op = "claim" /\ c.stage = "sent"
  BY <1>2, <1>4 DEF Ask, Handling
<1>9. users' \in [Newcomer -> Handle \cup {Unlisted}] /\ users'[p] # Unlisted
      /\ \A o \in Newcomer : o # p => users'[o] = users[o]
  <2>1. users \in [Newcomer -> Handle \cup {Unlisted}]
    BY DEF SignUpInv, SignUpTyped
  <2>2. ASSUME NEW h \in Handle, users' = [users EXCEPT ![p] = h]
        PROVE  users' \in [Newcomer -> Handle \cup {Unlisted}] /\ users'[p] # Unlisted
               /\ \A o \in Newcomer : o # p => users'[o] = users[o]
    BY <1>2, <2>1, <2>2, NoHandleIsWanted
  <2> QED
    BY <2>1, <2>2
<1>10. SignUpTyped'
  BY <1>2, <1>3, <1>5, <1>6, <1>8, <1>9 DEF SignUpInv, SignUpTyped
<1>11. ASSUME NEW o \in Newcomer PROVE FormRight(o)'
  <2>1. FormRight(o)
    BY DEF SignUpInv
  <2> QED
    BY <1>2, <1>6, <1>7, <1>9, <2>1 DEF FormRight
<1>12. ASSUME NEW o \in handling \ {r} PROVE RequestRight(o)'
  <2>1. RequestRight(o) /\ o.user \in Newcomer /\ o.op \in {"signup", "me", "claim"}
    BY DEF SignUpInv, SignUpTyped, Handling
  <2>2. o.user = p => o.op # "signup"
    BY DEF SignUpInv, OneListing
  <2>3. o.user # p
    BY <1>2, <2>1, <2>2 DEF RequestRight
  <2>4. form'[o.user] = form[o.user] /\ users'[o.user] = users[o.user]
    BY <1>7, <1>9, <2>1, <2>3
  <2> QED
    BY <2>1, <2>4 DEF RequestRight
<1>13. RequestRight(m)' /\ RequestRight(c)'
  BY <1>2, <1>3, <1>6, <1>7, <1>8, <1>9 DEF RequestRight, FormRight
<1>14. OneListing'
  BY <1>5, <1>8 DEF SignUpInv, OneListing
<1> QED
  BY <1>5, <1>10, <1>11, <1>12, <1>13, <1>14 DEF SignUpInv

(* ensure_user has found or given a username. *)
LEMMA EnsuredKeeps ==
    ASSUME SignUpInv, NEW r \in handling, users[r.user] # Unlisted, Ensured(r),
           UNCHANGED <<accounts, users>>
    PROVE  SignUpInv'
<1>1. r \in Handling /\ RequestRight(r)
  BY DEF SignUpInv, SignUpTyped
<1>2. CASE r.op = "claim"
  <2>1. PICK q : q = [r EXCEPT !.stage = "taken?"]
    OBVIOUS
  <2>2. q \in Handling /\ q.user = r.user /\ q.op = r.op /\ q.stage = "taken?"
    BY <1>1, <2>1 DEF Handling
  <2>3. UNCHANGED form /\ handling' = (handling \ {r}) \cup {q}
    BY <1>2, <2>1 DEF Ensured, Step
  <2>4. RequestRight(q)'
    BY <1>1, <1>2, <2>2, <2>3 DEF RequestRight
  <2> QED
    BY <2>2, <2>3, <2>4, RequestTurned
<1>3. CASE r.op = "signup" /\ r.heard
  <2>1. Announced(r.user, handling \ {r})
    BY <1>3 DEF Ensured
  <2> QED
    BY <1>3, <2>1, AnnouncedKeeps
<1>4. CASE r.op # "claim" /\ ~(r.op = "signup" /\ r.heard)
  <2>1. handling' = handling \ {r} /\ UNCHANGED form
    BY <1>4 DEF Ensured
  <2>2. RequestRight(r)'
    BY <1>1, <2>1 DEF RequestRight
  <2> QED
    BY <1>1, <2>1, <2>2, RequestTurned
<1> QED
  BY <1>2, <1>3, <1>4

LEMMA EnsuringKeeps ==
    ASSUME SignUpInv, VariantsLeft, NEW r \in handling,
           ensure_user(r) \/ assign_username(r) \/ Assigned(r)
    PROVE  SignUpInv'
<1>1. r \in Handling /\ RequestRight(r) /\ r.attempt <= MaxAttempts
  BY DEF SignUpInv, SignUpTyped, VariantsLeft
<1>2. r.user \in Newcomer /\ r.attempt \in Nat /\ r.op \in {"signup", "me", "claim"}
  BY <1>1 DEF Handling
<1>3. UNCHANGED accounts
  BY DEF ensure_user, assign_username, Assigned
<1>4. r.stage \in {"sent", "assign", "assigning"}
  BY DEF ensure_user, assign_username, Assigned
<1>5. ASSUME NEW q \in Handling, q.user = r.user, q.op = r.op, q.heard = r.heard, r.op # "claim",
             q.stage \in {"assign", "assigning"},
             r.op = "me" => form[r.user].want = NoHandle,
             handling' = (handling \ {r}) \cup {q}, UNCHANGED <<users, form>>
      PROVE  SignUpInv'
  <2>1. RequestRight(q)'
    BY <1>1, <1>3, <1>5 DEF RequestRight
  <2> QED
    BY <1>3, <1>5, <2>1, RequestTurned
<1>6. CASE ensure_user(r)
  <2>1. CASE users[r.user] = Unlisted
    <3>1. r.op # "claim" /\ (r.op = "me" => form[r.user].want = NoHandle)
      BY <1>1, <2>1 DEF RequestRight
    <3>2. PICK q : q = [r EXCEPT !.stage = "assign"]
      OBVIOUS
    <3>3. q \in Handling /\ q.user = r.user /\ q.op = r.op /\ q.heard = r.heard /\ q.stage = "assign"
      BY <1>1, <3>2 DEF Handling
    <3>4. handling' = (handling \ {r}) \cup {q} /\ UNCHANGED <<users, form>>
      BY <1>6, <2>1, <3>2 DEF ensure_user, Step
    <3> QED
      BY <1>5, <3>1, <3>3, <3>4
  <2>2. CASE users[r.user] # Unlisted
    BY <1>6, <2>2, EnsuredKeeps DEF ensure_user
  <2> QED
    BY <2>1, <2>2
<1>7. CASE assign_username(r)
  <2>1. r.stage = "assign" /\ r.op # "claim" /\ (r.op = "me" => form[r.user].want = NoHandle)
    BY <1>1, <1>7 DEF assign_username, RequestRight
  <2>2. ~(r.attempt > MaxAttempts)
    BY <1>1, <1>2, SignUpAssumption
  <2>3. PICK q, o : q = [r EXCEPT !.attempt = r.attempt + 1] /\ o = [r EXCEPT !.stage = "assigning"]
    OBVIOUS
  <2>4. /\ q \in Handling /\ q.user = r.user /\ q.op = r.op /\ q.heard = r.heard /\ q.stage = "assign"
        /\ o \in Handling /\ o.user = r.user /\ o.op = r.op /\ o.heard = r.heard /\ o.stage = "assigning"
    BY <1>1, <2>1, <2>3 DEF Handling
  <2>5. /\ UNCHANGED <<users, form>>
        /\ handling' = (handling \ {r}) \cup {q} \/ handling' = (handling \ {r}) \cup {o}
    BY <1>1, <1>7, <2>2, <2>3 DEF assign_username, Step, Handling
  <2> QED
    BY <1>5, <2>1, <2>4, <2>5
<1>8. CASE Assigned(r)
  <2>1. r.stage = "assigning" /\ r.op # "claim" /\ (r.op = "me" => form[r.user].want = NoHandle)
    BY <1>1, <1>8 DEF Assigned, RequestRight
  <2> PICK h : h = suggestion(r.user, r.attempt)
    OBVIOUS
  <2>2. h \in Handle
    BY <1>2 DEF Handle
  <2>3. CASE username_taken(h, {r.user})
    <3>1. PICK q : q = [r EXCEPT !.stage = "assign", !.attempt = r.attempt + 1]
      OBVIOUS
    <3>2. q \in Handling /\ q.user = r.user /\ q.op = r.op /\ q.heard = r.heard /\ q.stage = "assign"
      <4>1. r.attempt + 1 \in Nat
        BY <1>2
      <4>2. PICK n : n = r.attempt + 1
        OBVIOUS
      <4> QED
        BY <1>1, <3>1, <4>1, <4>2 DEF Handling
    <3>3. handling' = (handling \ {r}) \cup {q} /\ UNCHANGED <<users, form>>
      BY <1>1, <1>8, <2>3, <3>1 DEF Assigned, Handling
    <3> QED
      BY <1>5, <2>1, <3>2, <3>3
  <2>4. CASE ~username_taken(h, {r.user})
    <3>1. users' = [users EXCEPT ![r.user] = h] /\ Ensured(r)
      BY <1>8, <2>4 DEF Assigned
    <3>2. CASE r.op = "signup" /\ r.heard
      BY <1>3, <2>1, <2>2, <3>1, <3>2, AnnouncedKeeps DEF Ensured
    <3>3. CASE ~(r.op = "signup" /\ r.heard)
      <4>1. handling' = handling \ {r} /\ UNCHANGED form
        BY <2>1, <3>1, <3>3 DEF Ensured
      <4> QED
        BY <1>3, <2>1, <2>2, <3>1, <4>1, NameWritten
    <3> QED
      BY <3>2, <3>3
  <2> QED
    BY <2>3, <2>4
<1> QED
  BY <1>6, <1>7, <1>8

LEMMA ClaimsKeep ==
    ASSUME SignUpInv, NEW r \in handling, set_username(r) \/ UsernameSet(r)
    PROVE  SignUpInv'
<1>1. r \in Handling /\ RequestRight(r)
  BY DEF SignUpInv, SignUpTyped
<1>2. r.stage \in {"taken?", "free"} /\ UNCHANGED <<accounts, form>>
  BY DEF set_username, UsernameSet
<1>3. r.op = "claim" /\ r.user \in Newcomer
  BY <1>1, <1>2 DEF RequestRight, Handling
<1>4. want(r) \in Wanted
  BY <1>1, <1>3 DEF SignUpInv, FormRight, RequestRight, want
<1>5. ASSUME NEW stage \in {"refused", "free"}, UNCHANGED users,
             handling' \subseteq (handling \ {r}) \cup {[r EXCEPT !.stage = stage]}
      PROVE  SignUpInv'
  <2>1. PICK q : q = [r EXCEPT !.stage = stage]
    OBVIOUS
  <2>2. q \in Handling /\ q.user = r.user /\ q.op = r.op /\ q.stage = stage
    BY <1>1, <2>1 DEF Handling
  <2>3. RequestRight(q)'
    BY <1>1, <1>2, <1>3, <1>5, <2>2 DEF RequestRight
  <2> QED
    BY <1>2, <1>5, <2>1, <2>2, <2>3, RequestTurned
<1>6. CASE set_username(r)
  BY <1>5, <1>6 DEF set_username, ClaimAnswer, Step
<1>7. CASE UsernameSet(r)
  <2>1. CASE username_taken(want(r), {r.user})
    BY <1>5, <1>7, <2>1 DEF UsernameSet, ClaimAnswer
  <2>2. CASE ~username_taken(want(r), {r.user})
    <3>1. users' = [users EXCEPT ![r.user] = want(r)] /\ want(r) \in Handle
          /\ handling' \subseteq (handling \ {r}) \cup {[r EXCEPT !.stage = "ok"]}
      BY <1>4, <1>7, <2>2 DEF UsernameSet, ClaimAnswer, Handle
    <3> QED
      BY <1>2, <1>3, <3>1, NameWritten
  <2> QED
    BY <2>1, <2>2
<1> QED
  BY <1>6, <1>7

\* Whoever signed up on the home page has the username the form was sent with, or was
\* told that it could not be had, for any number of newcomers and whatever pages the
\* others use: where the API keeps the accounts, and as long as no suggestion runs out of
\* variants (routers/local_auth.py, handleSignup).
THEOREM NamesAreToldOf == SignUpSpec /\ [](LocalMode /\ VariantsLeft) => []HandleOrNoticeAtHome
<1>1. SignUpInit => SignUpInv
  <2> SUFFICES ASSUME SignUpInit PROVE SignUpInv
    OBVIOUS
  <2>1. /\ form \in [Newcomer -> Form]
        /\ \A p \in Newcomer : form[p].stage = "editing" /\ form[p].want = NoHandle
    <3> DEFINE Blank(page) == [page |-> page, typed |-> NoHandle, check |-> NoCheck,
                               asking |-> "no", stage |-> "editing", want |-> NoHandle,
                               notice |-> FALSE]
    <3>1. \A page \in Pages : Blank(page) \in Form /\ Blank(page).stage = "editing"
                                                /\ Blank(page).want = NoHandle
      BY DEF Form, NoCheck, Typable
    <3>2. form \in [Newcomer -> {Blank(page) : page \in Pages}]
      BY DEF SignUpInit
    <3> HIDE DEF Blank
    <3> QED
      BY <3>1, <3>2
  <2>2. SignUpTyped
    BY <2>1 DEF SignUpInit, SignUpTyped
  <2> QED
    BY <2>1, <2>2 DEF SignUpInit, SignUpInv, FormRight, OneListing
<1>2. SignUpInv /\ (LocalMode /\ VariantsLeft) /\ [SignUpNext]_signUpVars => SignUpInv'
  <2> SUFFICES ASSUME SignUpInv, LocalMode, VariantsLeft, [SignUpNext]_signUpVars PROVE SignUpInv'
    OBVIOUS
  <2>1. CASE UNCHANGED signUpVars
    BY <2>1 DEF signUpVars, SignUpInv, SignUpTyped, FormRight, RequestRight, OneListing
  <2> QED
    BY <2>1, FormsKeep, SignUpKeeps, FailureKeeps, LogInKeeps, LettingInKeeps, EnsuringKeeps, ClaimsKeep
       DEF SignUpNext
<1>3. SignUpInv => HandleOrNoticeAtHome
  BY DEF SignUpInv, FormRight, HandleOrNoticeAtHome
<1> QED
  BY <1>1, <1>2, <1>3, PTL DEF SignUpSpec

-----------------------------------------------------------------------------
(* The profile and the device: the device follows the profile whatever is rendered, and
   what is shown is what is stored while saves and loads come one at a time. *)

Values == [Field -> Nat]

Copy == [owner : Account \cup {Nobody}, profile : Values]

Saves ==
    [field : Field, value : Nat, style : {"at once", "answer", "patch", "quiet", "unheard"},
     stage : {"sent", "read", "updated", "answered"}, seen : Values,
     before : [owner : Account, profile : Values], device : Nat]

ScreenTyped ==
    /\ user \in Account \cup {Nobody} /\ asking \in Account \cup {Nobody}
    /\ current \in Copy
    /\ device \in [DeviceFields -> Nat]

SavingTyped ==
    /\ stored \in [Account -> Values]
    /\ inflight \in [owner : Account \cup {Nobody}, profile : Values, served : BOOLEAN]
    /\ inflight.served => inflight.owner # Nobody
    /\ saves \subseteq Saves
    /\ crossed \in BOOLEAN

\* Only the history of who is shown and may need the walkthrough is asked for.
AsksForShown == asking # Nobody => needed(me) /\ asking = me.owner

\* What a save would put back agrees with what the device would be put back to.
SaveRight(s) ==
    /\ s.style = "at once" /\ s.field \in DeviceFields => s.device = s.before.profile[s.field]
    /\ s.style = "patch" => s.field = "username"
    /\ s.stage = "read" => s.field \in Prefs

\* What the only save under way leads to, whether it is carried out or refused.
Tracks(s) ==
    /\ s.stage \in {"sent", "read"} =>
        /\ s.style \in {"at once", "patch"} => s.before.profile = stored[Owner(s)]
        /\ s.style # "at once" /\ current.owner # Nobody => current.profile = stored[current.owner]
        /\ s.stage = "read" => \A f \in Prefs : s.seen[f] = stored[Owner(s)][f]
    /\ s.stage \in {"updated", "answered"} /\ s.style = "patch" =>
            [s.before.profile EXCEPT ![s.field] = s.value] = stored[Owner(s)]
    /\ s.stage = "answered" => s.seen = stored[Owner(s)]
    /\ s.style # "unheard"

OneAtATime ==
    ~crossed =>
        /\ saves # {} => inflight.owner = Nobody /\ \E s \in saves : saves = {s} /\ Tracks(s)
        /\ inflight.served => inflight.profile = stored[inflight.owner]
        /\ saves = {} /\ inflight.owner = Nobody /\ current.owner # Nobody =>
                current.profile = stored[current.owner]

ScreenInv == ScreenTyped /\ AsksForShown /\ DeviceFollowsProfile

SavingInv == SavingTyped /\ \A s \in saves : SaveRight(s)

ProfileInv == ScreenInv /\ SavingInv /\ OneAtATime

-----------------------------------------------------------------------------
(* What is shown. *)

LEMMA Showing ==
    ASSUME NEW cur \in Copy, NEW u \in Account \cup {Nobody}
    PROVE  /\ useMe(cur, u) \in Copy
           /\ useMe(cur, u).owner # Nobody => useMe(cur, u) = cur /\ cur.owner = u
BY DEF useMe, None, Unset, Copy, Values

LEMMA RenderedRight ==
    ASSUME ScreenInv, NEW u \in Account \cup {Nobody}, NEW cur \in Copy,
           NEW dev \in [DeviceFields -> Nat], Rendered(u, cur, dev),
           useMe(cur, u).owner # Nobody =>
                \A d \in DeviceFields : dev[d] \in {device[d], useMe(cur, u).profile[d]}
    PROVE  ScreenInv' /\ user' = u /\ current' = cur
<1> PICK old, new : old = me /\ new = useMe(cur, u)
  OBVIOUS
<1>1. /\ user' = u /\ current' = cur
      /\ device' = PreferencesSync(dev, old, new) /\ asking' = Asked(old, new)
  BY DEF Rendered
<1>2. me' = new
  BY <1>1 DEF me
<1>3. old \in Copy /\ new \in Copy
  BY Showing DEF me, ScreenInv, ScreenTyped
<1>4. DeviceFields \subseteq Field
  BY DEF DeviceFields, Field, Prefs
<1>5. asking' \in Account \cup {Nobody} /\ AsksForShown'
  BY <1>1, <1>2, <1>3 DEF Asked, needed, AsksForShown, ScreenInv, ScreenTyped, Copy
<1>6. device' \in [DeviceFields -> Nat]
  <2>1. \A d \in DeviceFields : new.profile[d] \in Nat
    BY <1>3, <1>4 DEF Copy, Values
  <2> QED
    BY <1>1, <2>1 DEF PreferencesSync
<1>7. DeviceFollowsProfile'
  <2> SUFFICES ASSUME new.owner # Nobody, NEW d \in DeviceFields PROVE device'[d] = new.profile[d]
    BY <1>2 DEF DeviceFollowsProfile
  <2>1. old.owner # Nobody => device[d] = old.profile[d]
    BY DEF ScreenInv, DeviceFollowsProfile
  <2>2. dev[d] = device[d] \/ dev[d] = new.profile[d]
    OBVIOUS
  <2>3. device'[d] = IF old.owner = Nobody \/ old.profile[d] # new.profile[d]
                     THEN new.profile[d] ELSE dev[d]
    BY <1>1 DEF PreferencesSync
  <2> QED
    BY <2>1, <2>2, <2>3
<1> QED
  BY <1>1, <1>5, <1>6, <1>7 DEF ScreenInv, ScreenTyped

LEMMA ScreenKept ==
    ASSUME ScreenInv, UNCHANGED <<user, current, device, asking>>
    PROVE  ScreenInv'
BY DEF ScreenInv, ScreenTyped, AsksForShown, DeviceFollowsProfile, me

(* An answer shows a copy; the device keeps what it uses. *)
LEMMA SetMeRight ==
    ASSUME ScreenInv, NEW cur \in Copy, setMe(cur)
    PROVE  ScreenInv' /\ user' = user /\ current' = cur
<1>1. user \in Account \cup {Nobody} /\ device \in [DeviceFields -> Nat]
  BY DEF ScreenInv, ScreenTyped
<1> QED
  BY <1>1, RenderedRight DEF setMe

-----------------------------------------------------------------------------
(* Signing in and out, and loading. *)

LEMMA LoadsKeep ==
    ASSUME ProfileInv,
           (\E a \in Account : SignIn(a)) \/ SignOut \/ Reload \/ LoadServed \/ LoadLands \/ LoadFails
    PROVE  ProfileInv'
<1>0. /\ current \in Copy /\ user \in Account \cup {Nobody} /\ device \in [DeviceFields -> Nat]
      /\ inflight \in [owner : Account \cup {Nobody}, profile : Values, served : BOOLEAN]
      /\ stored \in [Account -> Values] /\ ScreenInv
      /\ inflight.served => inflight.owner \in Account
  BY DEF ProfileInv, ScreenInv, ScreenTyped, SavingInv, SavingTyped
<1> DEFINE Load == [owner : Account \cup {Nobody}, profile : Values, served : BOOLEAN]
           Fresh(l, a) == l \in Load /\ l.owner = a /\ (l.served => l = inflight)
<1>1. ASSUME NEW a \in Account, NEW l, l = loadMe(a) PROVE Fresh(l, a)
  BY <1>0, <1>1 DEF loadMe, NoLoad, Unset, Values
<1>2. NoLoad \in [owner : Account \cup {Nobody}, profile : Values, served : BOOLEAN]
      /\ NoLoad.owner = Nobody /\ ~NoLoad.served
  BY DEF NoLoad, Unset, Values
<1>3. None \in Copy /\ None.owner = Nobody
  BY DEF None, Unset, Copy, Values
<1>4. ASSUME NEW a \in Account, SignIn(a) PROVE ProfileInv'
  <2>1. ScreenInv' /\ current' = current
    BY <1>0, <1>4, RenderedRight DEF SignIn
  <2>0. PICK l : l = loadMe(a)
    OBVIOUS
  <2>2. /\ UNCHANGED <<stored, saves>> /\ crossed' = (crossed \/ saves # {})
        /\ inflight' = IF current.owner = a THEN inflight ELSE l
    BY <1>4, <2>0 DEF SignIn
  <2>5. Fresh(l, a)
    BY <1>1, <2>0
  <2>6. inflight' \in Load /\ (inflight'.served => inflight'.owner # Nobody) /\ crossed' \in BOOLEAN
    BY <1>0, <2>2, <2>5, ProfileAssumption DEF ProfileInv, SavingInv, SavingTyped
  <2>3. SavingInv'
    BY <1>0, <2>2, <2>6 DEF ProfileInv, SavingInv, SavingTyped, SaveRight
  <2>4. OneAtATime'
    <3> SUFFICES ASSUME ~crossed, saves = {}
                 PROVE  /\ inflight'.served => inflight'.profile = stored[inflight'.owner]
                        /\ inflight'.owner = Nobody /\ current.owner # Nobody =>
                                current.profile = stored[current.owner]
      BY <2>1, <2>2 DEF OneAtATime
    <3>1. /\ inflight.served => inflight.profile = stored[inflight.owner]
          /\ inflight.owner = Nobody /\ current.owner # Nobody =>
                current.profile = stored[current.owner]
      BY DEF ProfileInv, OneAtATime
    <3> QED
      BY <2>2, <2>5, <3>1, ProfileAssumption
  <2> QED
    BY <2>1, <2>3, <2>4 DEF ProfileInv
<1>5. CASE SignOut
  <2>1. ScreenInv' /\ current' = None
    BY <1>0, <1>3, <1>5, RenderedRight DEF SignOut
  <2>2. UNCHANGED <<stored, inflight, saves, crossed>>
    BY <1>5 DEF SignOut
  <2>3. \A s : Tracks(s) => Tracks(s)'
    BY <1>3, <2>1, <2>2 DEF Tracks
  <2>4. OneAtATime'
    BY <1>3, <2>1, <2>2, <2>3 DEF ProfileInv, OneAtATime
  <2> QED
    BY <2>1, <2>2, <2>4 DEF ProfileInv, SavingInv, SavingTyped, SaveRight
<1>6. CASE Reload
  <2>0. PICK a, l : a = user /\ l = loadMe(a)
    OBVIOUS
  <2>1. a \in Account /\ UNCHANGED <<stored, user, current, device, saves, asking>>
        /\ crossed' = (saves # {}) /\ inflight' = l /\ inflight.owner # a
    BY <1>0, <1>6, <2>0 DEF Reload
  <2>2. l \in Load /\ ~l.served /\ l.owner # Nobody
    BY <1>1, <2>0, <2>1, ProfileAssumption
  <2>3. SavingInv'
    BY <2>1, <2>2 DEF ProfileInv, SavingInv, SavingTyped, SaveRight
  <2>4. OneAtATime'
    BY <2>1, <2>2 DEF OneAtATime
  <2> QED
    BY <1>0, <2>1, <2>3, <2>4, ScreenKept DEF ProfileInv
<1>7. CASE LoadServed
  <2>1. PICK l : l = [inflight EXCEPT !.served = TRUE, !.profile = stored[inflight.owner]]
    OBVIOUS
  <2>2. inflight' = l /\ UNCHANGED <<stored, user, current, device, saves, asking, crossed>>
        /\ inflight.owner \in Account
    BY <1>0, <1>7, <2>1 DEF LoadServed
  <2>3. /\ l \in [owner : Account \cup {Nobody}, profile : Values, served : BOOLEAN]
        /\ l.owner = inflight.owner /\ l.profile = stored[l.owner]
    BY <1>0, <2>1, <2>2
  <2>4. SavingInv'
    BY <2>2, <2>3, ProfileAssumption DEF ProfileInv, SavingInv, SavingTyped, SaveRight
  <2>5. \A s : Tracks(s) => Tracks(s)'
    BY <2>2 DEF Tracks
  <2>6. OneAtATime'
    BY <2>2, <2>3, <2>5 DEF ProfileInv, OneAtATime
  <2> QED
    BY <1>0, <2>2, <2>4, <2>6, ScreenKept DEF ProfileInv
<1>8. CASE LoadLands
  <2>1. PICK cur : cur = Held(inflight.owner, inflight.profile)
    OBVIOUS
  <2>2. cur \in Copy /\ cur.owner = inflight.owner /\ cur.profile = inflight.profile
    BY <1>0, <2>1 DEF Held, Copy
  <2>3. setMe(cur) /\ inflight' = NoLoad /\ UNCHANGED <<stored, saves, crossed>> /\ inflight.served
    BY <1>8, <2>1 DEF LoadLands
  <2>4. ScreenInv' /\ current' = cur
    BY <1>0, <2>2, <2>3, SetMeRight
  <2>5. SavingInv'
    BY <1>2, <2>3 DEF ProfileInv, SavingInv, SavingTyped, SaveRight
  <2>6. ~crossed => saves = {} /\ cur.profile = stored[cur.owner]
    BY <1>0, <2>2, <2>3, ProfileAssumption DEF ProfileInv, OneAtATime
  <2>7. OneAtATime'
    BY <1>2, <2>3, <2>4, <2>6 DEF OneAtATime
  <2> QED
    BY <2>4, <2>5, <2>7 DEF ProfileInv
<1>9. CASE LoadFails
  <2>1. inflight' = NoLoad /\ crossed' = TRUE /\ UNCHANGED <<stored, user, current, device, saves, asking>>
    BY <1>9 DEF LoadFails
  <2>2. SavingInv' /\ OneAtATime'
    BY <1>2, <2>1 DEF ProfileInv, SavingInv, SavingTyped, SaveRight, OneAtATime
  <2> QED
    BY <1>0, <2>1, <2>2, ScreenKept DEF ProfileInv
<1> QED
  BY <1>4, <1>5, <1>6, <1>7, <1>8, <1>9

-----------------------------------------------------------------------------
(* Saves. *)

LEMMA MeIsCurrent ==
    ASSUME ScreenInv, me.owner # Nobody
    PROVE  me = current /\ user = current.owner /\ user \in Account /\ current \in Copy
<1>1. current \in Copy /\ user \in Account \cup {Nobody}
  BY DEF ScreenInv, ScreenTyped
<1> QED
  BY <1>1, Showing DEF me, Copy

(* A save is begun by who is shown; what it may be begun with. *)
LEMMA SaveMade ==
    ASSUME ProfileInv, me.owner # Nobody, NEW f \in Field, NEW v \in Nat,
           NEW style \in {"at once", "answer", "patch", "quiet"},
           style = "patch" => f = "username",
           saves' = saves \cup {Save(f, v, style)},
           crossed' = (crossed \/ saves # {} \/ inflight.owner # Nobody),
           UNCHANGED <<stored, inflight>>,
           style # "at once" => current' = current
    PROVE  SavingInv' /\ OneAtATime'
<1>1. me = current /\ current \in Copy /\ current.owner \in Account
  BY MeIsCurrent DEF ProfileInv
<1>2. PICK s : s = Save(f, v, style)
  OBVIOUS
<1> PICK b : b = IF style \in {"at once", "patch"} THEN current ELSE Held(current.owner, Unset)
  OBVIOUS
<1>3. b \in [owner : Account, profile : Values] /\ b.owner = current.owner
      /\ (style \in {"at once", "patch"} => b.profile = current.profile)
  BY <1>1 DEF Held, Unset, Copy, Values
<1> PICK d : d = IF f \in DeviceFields THEN device[f] ELSE 0
  OBVIOUS
<1>4. d \in Nat /\ (f \in DeviceFields => d = current.profile[f])
  BY <1>1 DEF ProfileInv, ScreenInv, ScreenTyped, DeviceFollowsProfile
<1>5. s = [field |-> f, value |-> v, style |-> style, stage |-> "sent", seen |-> Unset,
           before |-> b, device |-> d]
  BY <1>1, <1>2 DEF Save
<1>6. /\ s \in Saves /\ s.style = style /\ s.field = f /\ s.stage = "sent" /\ s.before = b
      /\ s.device = d
  BY <1>3, <1>4, <1>5 DEF Saves, Unset, Values
<1>7. SaveRight(s)
  BY <1>3, <1>4, <1>6 DEF SaveRight
<1>8. SavingInv'
  BY <1>2, <1>6, <1>7 DEF ProfileInv, SavingInv, SavingTyped, SaveRight
<1>9. OneAtATime'
  <2> SUFFICES ASSUME ~crossed, saves = {}, inflight.owner = Nobody
               PROVE  Tracks(s)' /\ ~inflight.served
    BY <1>2 DEF OneAtATime
  <2>1. current.profile = stored[current.owner]
    BY <1>1, ProfileAssumption DEF ProfileInv, OneAtATime
  <2>2. ~inflight.served
    BY DEF ProfileInv, SavingInv, SavingTyped
  <2>3. Tracks(s)'
    BY <1>3, <1>6, <2>1 DEF Tracks, Owner
  <2> QED
    BY <2>2, <2>3
<1> QED
  BY <1>8, <1>9

LEMMA RowsTyped ==
    ASSUME NEW row \in Rows
    PROVE  /\ row[1] \in Field /\ row[2] \in Nat /\ row[3] \in {"at once", "answer", "patch"}
           /\ row[3] = "patch" => row[1] = "username"
<1>1. ASSUME NEW f \in Field, NEW v \in Nat, NEW style \in {"at once", "answer", "patch"},
             style = "patch" => f = "username", row = <<f, v, style>>
      PROVE  /\ row[1] \in Field /\ row[2] \in Nat /\ row[3] \in {"at once", "answer", "patch"}
             /\ row[3] = "patch" => row[1] = "username"
  <2>1. row[1] = f /\ row[2] = v /\ row[3] = style
    BY <1>1
  <2> QED
    BY <1>1, <2>1
<1>2. {"photo", "username", "about", "accent", "privacy", "default_rules"} \subseteq Field
      /\ DeviceFields \subseteq Field
  BY DEF DeviceFields, Field, Prefs, Columns
<1>3. CASE row \in PhotoRow \cup UsernameRow \cup DefaultsSection
  <2>1. row \in {<<"photo", 0, "at once">>, <<"photo", 1, "answer">>, <<"username", 1, "patch">>,
                 <<"default_rules", 0, "answer">>}
    BY <1>3 DEF PhotoRow, UsernameRow, DefaultsSection
  <2> QED
    BY <1>1, <1>2, <2>1
<1>4. CASE row \in AboutRow
  <2>1. PICK v \in {0, 1} : row = <<"about", v, "answer">>
    BY <1>4 DEF AboutRow
  <2> QED
    BY <1>1, <1>2, <2>1
<1>5. CASE row \in AccentRow
  <2>1. PICK v \in {0, 1} : row = <<"accent", v, "at once">>
    BY <1>5 DEF AccentRow
  <2> QED
    BY <1>1, <1>2, <2>1
<1>6. CASE row \in PrivacySection
  <2>1. PICK v \in {0, 1} : row = <<"privacy", v, "at once">>
    BY <1>6 DEF PrivacySection
  <2> QED
    BY <1>1, <1>2, <2>1
<1>7. CASE row \in AppearanceSection
  <2>1. PICK choice \in DeviceFields \X {0, 1} : row = <<choice[1], choice[2], "at once">>
    BY <1>7 DEF AppearanceSection
  <2>2. choice[1] \in DeviceFields /\ choice[2] \in {0, 1}
    BY <2>1
  <2> QED
    BY <1>1, <1>2, <2>1, <2>2
<1> QED
  BY <1>3, <1>4, <1>5, <1>6, <1>7 DEF Rows

(* A choice is shown at once: the device and the profile take it together. *)
LEMMA ShownAtOnce ==
    ASSUME ScreenInv, NEW cur \in Copy, NEW f \in Field, NEW v \in Nat,
           f \in DeviceFields => v = cur.profile[f],
           Rendered(user, cur, SetOnDevice(f, v))
    PROVE  ScreenInv' /\ current' = cur
<1>1. user \in Account \cup {Nobody} /\ device \in [DeviceFields -> Nat]
  BY DEF ScreenInv, ScreenTyped
<1>2. PICK dev : dev = SetOnDevice(f, v)
  OBVIOUS
<1>3. dev \in [DeviceFields -> Nat]
      /\ \A d \in DeviceFields : dev[d] = device[d] \/ (d = f /\ dev[d] = v)
  BY <1>1, <1>2 DEF SetOnDevice
<1>4. useMe(cur, user).owner # Nobody =>
            \A d \in DeviceFields : dev[d] \in {device[d], useMe(cur, user).profile[d]}
  BY <1>1, <1>3, Showing
<1> QED
  BY <1>1, <1>2, <1>3, <1>4, RenderedRight

LEMMA TapKeeps ==
    ASSUME ProfileInv, NEW row \in Rows, Tap(row[1], row[2], row[3])
    PROVE  ProfileInv'
<1>1. PICK f, v, style : f = row[1] /\ v = row[2] /\ style = row[3]
  OBVIOUS
<1>2. /\ f \in Field /\ v \in Nat /\ style \in {"at once", "answer", "patch"}
      /\ style = "patch" => f = "username"
  BY <1>1, RowsTyped
<1>3. /\ me.owner # Nobody /\ saves' = saves \cup {Save(f, v, style)}
      /\ crossed' = (crossed \/ saves # {} \/ inflight.owner # Nobody)
      /\ UNCHANGED <<stored, inflight>>
  BY <1>1 DEF Tap
<1>4. me = current /\ user = current.owner /\ user \in Account /\ current \in Copy /\ ScreenInv
  BY <1>3, MeIsCurrent DEF ProfileInv
<1>5. CASE style = "at once"
  <2>1. PICK cur : cur = Held(user, [me.profile EXCEPT ![f] = v])
    OBVIOUS
  <2>2. cur \in Copy /\ cur.profile[f] = v
    BY <1>2, <1>4, <2>1 DEF Held, Copy, Values
  <2>3. Rendered(user, cur, SetOnDevice(f, v))
    BY <1>1, <1>5, <2>1 DEF Tap
  <2> QED
    BY <1>2, <1>3, <1>4, <1>5, <2>2, <2>3, ShownAtOnce, SaveMade DEF ProfileInv
<1>6. CASE style # "at once"
  <2>1. UNCHANGED <<user, current, device, asking>>
    BY <1>1, <1>6 DEF Tap
  <2> QED
    BY <1>2, <1>3, <1>4, <1>6, <2>1, ScreenKept, SaveMade DEF ProfileInv
<1> QED
  BY <1>5, <1>6

(* The walkthrough. *)
LEMMA WalkthroughKeeps ==
    ASSUME ProfileInv, HistoryArrives \/ HistoryFails \/ Finish
    PROVE  ProfileInv'
<1>1. UNCHANGED <<stored, user, current, inflight, device>> /\ asking' \in {asking, Nobody}
  BY DEF HistoryArrives, HistoryFails, Finish
<1>2. ScreenInv'
  BY <1>1 DEF ProfileInv, ScreenInv, ScreenTyped, AsksForShown, DeviceFollowsProfile, me
<1>3. CASE MarkSeen
  <2>1. me.owner # Nobody
    BY <1>3 DEF HistoryArrives, HistoryFails, Finish, Open, needed, ProfileInv, ScreenInv, AsksForShown
  <2>2. "onboarded" \in Field /\ 1 \in Nat
    BY DEF Field, Prefs
  <2> QED
    BY <1>1, <1>2, <1>3, <2>1, <2>2, SaveMade DEF MarkSeen, ProfileInv
<1>4. CASE UNCHANGED <<saves, crossed>>
  <2>1. \A s : Tracks(s) => Tracks(s)'
    BY <1>1, <1>4 DEF Tracks
  <2>2. OneAtATime'
    BY <1>1, <1>4, <2>1 DEF ProfileInv, OneAtATime
  <2> QED
    BY <1>1, <1>2, <1>4, <2>2 DEF ProfileInv, SavingInv, SavingTyped, SaveRight
<1> QED
  BY <1>3, <1>4 DEF HistoryArrives, HistoryFails, Finish

(* A save succeeds: the answer is taken over. *)
LEMMA SuccessKeeps ==
    ASSUME ProfileInv, NEW s \in saves, Succeeds(s)
    PROVE  ProfileInv'
<1>1. s \in Saves /\ SaveRight(s) /\ s.stage = "answered"
  BY DEF ProfileInv, SavingInv, SavingTyped, Succeeds
<1>2. PICK cur : cur = Taken(s)
  OBVIOUS
<1>3. cur = Held(s.before.owner,
                 IF s.style = "patch" THEN [s.before.profile EXCEPT ![s.field] = s.value] ELSE s.seen)
  BY <1>2 DEF Taken
<1>4. cur \in Copy /\ cur.owner = s.before.owner
      /\ cur.profile = IF s.style = "patch" THEN [s.before.profile EXCEPT ![s.field] = s.value] ELSE s.seen
  BY <1>1, <1>3 DEF Held, Copy, Values, Saves
<1>5. ScreenInv' /\ current' = cur
  BY <1>2, <1>4, SetMeRight DEF ProfileInv, Succeeds
<1>6. saves' = saves \ {s} /\ UNCHANGED <<stored, inflight, crossed>>
  BY DEF Succeeds
<1>7. SavingInv'
  BY <1>6 DEF ProfileInv, SavingInv, SavingTyped, SaveRight
<1>8. OneAtATime'
  <2> SUFFICES ASSUME ~crossed
               PROVE  saves' = {} /\ ~inflight.served /\ cur.profile = stored[cur.owner]
    BY <1>5, <1>6 DEF OneAtATime
  <2>1. saves = {s} /\ Tracks(s) /\ inflight.owner = Nobody
    BY DEF ProfileInv, OneAtATime
  <2>2. ~inflight.served
    BY <2>1 DEF ProfileInv, SavingInv, SavingTyped
  <2> QED
    BY <1>1, <1>4, <1>6, <2>1, <2>2 DEF Tracks, Owner
<1> QED
  BY <1>5, <1>7, <1>8 DEF ProfileInv

(* A save fails: what it showed is put back. *)
LEMMA FailKeeps ==
    ASSUME ProfileInv, NEW s \in saves, Fails(s)
    PROVE  ProfileInv'
<1>1. s \in Saves /\ SaveRight(s) /\ ScreenInv
  BY DEF ProfileInv, SavingInv, SavingTyped
<1>2. UNCHANGED <<stored, inflight>> /\ PutBack(s)
  BY DEF Fails
<1>3. s.before \in Copy /\ s.field \in Field /\ s.device \in Nat /\ s.before.owner \in Account
  BY <1>1 DEF Saves, Copy
<1>4. ScreenInv' /\ current' = IF s.style = "at once" THEN s.before ELSE current
  <2>1. CASE s.style = "at once"
    BY <1>1, <1>2, <1>3, <2>1, ShownAtOnce DEF PutBack, SaveRight
  <2>2. CASE s.style # "at once"
    BY <1>1, <1>2, <2>2, ScreenKept DEF PutBack
  <2> QED
    BY <2>1, <2>2
<1>5. CASE s.stage = "sent" /\ saves' = saves \ {s} /\ UNCHANGED crossed
  <2>1. SavingInv'
    BY <1>2, <1>5 DEF ProfileInv, SavingInv, SavingTyped, SaveRight
  <2>2. OneAtATime'
    <3> SUFFICES ASSUME ~crossed
                 PROVE  /\ saves' = {} /\ ~inflight.served
                        /\ current'.owner # Nobody => current'.profile = stored[current'.owner]
      BY <1>2, <1>5 DEF OneAtATime
    <3>1. saves = {s} /\ Tracks(s) /\ inflight.owner = Nobody
      BY DEF ProfileInv, OneAtATime
    <3>2. ~inflight.served
      BY <3>1 DEF ProfileInv, SavingInv, SavingTyped
    <3> QED
      BY <1>4, <1>5, <3>1, <3>2 DEF Tracks, Owner
  <2> QED
    BY <1>4, <2>1, <2>2 DEF ProfileInv
<1>6. ASSUME crossed' = TRUE,
             saves' \subseteq (saves \ {s}) \cup
                {[s EXCEPT !.style = "unheard", !.device = 0, !.before.profile = Unset]}
      PROVE  ProfileInv'
  <2>1. PICK q : q = [s EXCEPT !.style = "unheard", !.device = 0, !.before.profile = Unset]
    OBVIOUS
  <2>2. q \in Saves /\ q.style = "unheard" /\ q.stage = s.stage /\ q.field = s.field
    BY <1>1, <2>1 DEF Saves, Unset, Values
  <2>3. SaveRight(q)
    BY <1>1, <2>2 DEF SaveRight
  <2>4. \A r \in saves' : r \in Saves /\ SaveRight(r)
    BY <1>6, <2>1, <2>2, <2>3 DEF ProfileInv, SavingInv, SavingTyped
  <2>5. SavingInv'
    BY <1>2, <1>6, <2>4 DEF ProfileInv, SavingInv, SavingTyped, SaveRight
  <2>6. OneAtATime'
    BY <1>6 DEF OneAtATime
  <2> QED
    BY <1>4, <2>5, <2>6 DEF ProfileInv
<1> QED
  BY <1>5, <1>6 DEF Fails

-----------------------------------------------------------------------------
(* The server carries a save out. *)

(* A save gets on without a change of what is shown. *)
LEMMA SaveTurned ==
    ASSUME ProfileInv, NEW s \in saves, NEW t \in Saves, SaveRight(t),
           saves' \subseteq (saves \ {s}) \cup {t}, t \in saves' \/ crossed,
           stored' \in [Account -> Values],
           UNCHANGED <<user, current, inflight, device, asking, crossed>>,
           ~crossed /\ Tracks(s) => Tracks(t)'
    PROVE  ProfileInv'
<1>1. ScreenInv'
  BY ScreenKept DEF ProfileInv
<1>2. SavingInv'
  BY DEF ProfileInv, SavingInv, SavingTyped, SaveRight
<1>3. OneAtATime'
  <2> SUFFICES ASSUME ~crossed
               PROVE  saves' = {t} /\ Tracks(t)' /\ inflight.owner = Nobody /\ ~inflight.served
    BY DEF OneAtATime
  <2>1. saves = {s} /\ Tracks(s) /\ inflight.owner = Nobody
    BY DEF ProfileInv, OneAtATime
  <2>2. ~inflight.served
    BY <2>1 DEF ProfileInv, SavingInv, SavingTyped
  <2> QED
    BY <2>1, <2>2
<1> QED
  BY <1>1, <1>2, <1>3 DEF ProfileInv

LEMMA ReadKeeps ==
    ASSUME ProfileInv, NEW s \in saves, ReadPreferences(s)
    PROVE  ProfileInv'
<1>1. s \in Saves /\ SaveRight(s) /\ stored \in [Account -> Values] /\ Owner(s) \in Account
  BY DEF ProfileInv, SavingInv, SavingTyped, Saves, Owner
<1>2. PICK seen : seen = [f \in Field |-> IF f \in Prefs THEN stored[Owner(s)][f] ELSE 0]
  OBVIOUS
<1>3. seen \in Values /\ \A f \in Prefs : seen[f] = stored[Owner(s)][f]
  <2>1. \A f \in Field : stored[Owner(s)][f] \in Nat
    BY <1>1 DEF Values
  <2>2. Prefs \subseteq Field
    BY DEF Field
  <2> QED
    BY <1>2, <2>1, <2>2 DEF Values
<1>4. PICK t : t = [s EXCEPT !.stage = "read", !.seen = seen]
  OBVIOUS
<1>5. /\ t \in Saves /\ t.stage = "read" /\ t.seen = seen /\ t.field = s.field /\ t.style = s.style
      /\ t.before = s.before /\ t.device = s.device /\ t.value = s.value
  BY <1>1, <1>3, <1>4 DEF Saves
<1>6. /\ s.stage = "sent" /\ s.field \in Prefs /\ saves' = (saves \ {s}) \cup {t}
      /\ UNCHANGED <<stored, user, current, inflight, device, asking, crossed>>
  BY <1>2, <1>4 DEF ReadPreferences, Go
<1>7. SaveRight(t)
  BY <1>1, <1>5, <1>6 DEF SaveRight
<1>8. Tracks(s) => Tracks(t)'
  BY <1>3, <1>5, <1>6 DEF Tracks, Owner
<1> QED
  BY <1>1, <1>5, <1>6, <1>7, <1>8, SaveTurned

(* What is written is what was sent; of the preferences all, as they were read. *)
LEMMA UpdateKeeps ==
    ASSUME ProfileInv, NEW s \in saves, Update(s)
    PROVE  ProfileInv'
<1>1. s \in Saves /\ SaveRight(s) /\ stored \in [Account -> Values] /\ Owner(s) \in Account
      /\ Owner(s) = s.before.owner
  BY DEF ProfileInv, SavingInv, SavingTyped, Saves, Owner
<1>2. s.field \in Field /\ s.value \in Nat /\ s.seen \in Values /\ stored[Owner(s)] \in Values
  BY <1>1 DEF Saves
<1>3. PICK row : row = IF s.field \in Prefs THEN Merged(s) ELSE [stored[Owner(s)] EXCEPT ![s.field] = s.value]
  OBVIOUS
<1>4. row \in Values
      /\ ((\A f \in Prefs : s.seen[f] = stored[Owner(s)][f]) \/ s.field \notin Prefs =>
                row = [stored[Owner(s)] EXCEPT ![s.field] = s.value])
  <2>1. CASE s.field \in Prefs
    <3>1. row = [f \in Field |-> IF f = s.field THEN s.value
                                 ELSE IF f \in Prefs THEN s.seen[f] ELSE stored[Owner(s)][f]]
      BY <1>3, <2>1 DEF Merged
    <3>2. row \in Values
      BY <1>2, <3>1 DEF Values
    <3>3. ASSUME \A f \in Prefs : s.seen[f] = stored[Owner(s)][f]
          PROVE  row = [stored[Owner(s)] EXCEPT ![s.field] = s.value]
      <4>1. [stored[Owner(s)] EXCEPT ![s.field] = s.value]
                = [f \in Field |-> IF f = s.field THEN s.value ELSE stored[Owner(s)][f]]
        BY <1>2 DEF Values
      <4> QED
        BY <3>1, <3>3, <4>1
    <3> QED
      BY <2>1, <3>2, <3>3
  <2>2. CASE s.field \notin Prefs
    <3>1. row = [stored[Owner(s)] EXCEPT ![s.field] = s.value]
      BY <1>3, <2>2
    <3> QED
      BY <1>2, <3>1 DEF Values
  <2> QED
    BY <2>1, <2>2
<1>5. PICK t : t = [s EXCEPT !.stage = "updated", !.seen = Unset]
  OBVIOUS
<1>6. /\ t \in Saves /\ t.stage = "updated" /\ t.field = s.field /\ t.style = s.style
      /\ t.before = s.before /\ t.device = s.device /\ t.value = s.value
  BY <1>1, <1>5 DEF Saves, Unset, Values
<1>7. /\ stored' = [stored EXCEPT ![Owner(s)] = row]
      /\ saves' = (saves \ {s}) \cup {q \in {t} : s.style # "unheard"}
      /\ UNCHANGED <<user, current, inflight, device, asking, crossed>>
      /\ s.stage = (IF s.field \in Prefs THEN "read" ELSE "sent")
  BY <1>1, <1>3, <1>5 DEF Update
<1>8. stored' \in [Account -> Values] /\ stored'[Owner(s)] = row
  BY <1>1, <1>4, <1>7
<1>9. SaveRight(t)
  BY <1>1, <1>6 DEF SaveRight
<1>10. Tracks(s) => Tracks(t)'
  <2> SUFFICES ASSUME Tracks(s) PROVE Tracks(t)'
    OBVIOUS
  <2>1. t.style = "patch" => t.before.profile = stored[Owner(s)] /\ t.field \notin Prefs
    BY <1>1, <1>6, <1>7 DEF Tracks, SaveRight, Prefs
  <2>2. t.style = "patch" => [t.before.profile EXCEPT ![t.field] = t.value] = row
    BY <1>4, <1>6, <2>1
  <2>3. t.style # "unheard"
    BY <1>6 DEF Tracks
  <2> QED
    BY <1>1, <1>6, <1>8, <2>2, <2>3 DEF Tracks, Owner
<1>11. t \in saves' \/ crossed
  BY <1>7 DEF ProfileInv, OneAtATime, Tracks
<1> QED
  BY <1>6, <1>7, <1>8, <1>9, <1>10, <1>11, SaveTurned

LEMMA AnswerKeeps ==
    ASSUME ProfileInv, NEW s \in saves, MyProfile(s)
    PROVE  ProfileInv'
<1>1. s \in Saves /\ SaveRight(s) /\ stored \in [Account -> Values] /\ Owner(s) \in Account
  BY DEF ProfileInv, SavingInv, SavingTyped, Saves, Owner
<1>2. PICK seen : seen = stored[Owner(s)]
  OBVIOUS
<1>3. PICK t : t = [s EXCEPT !.stage = "answered", !.seen = seen]
  OBVIOUS
<1>4. /\ t \in Saves /\ t.stage = "answered" /\ t.seen = seen /\ t.field = s.field /\ t.style = s.style
      /\ t.before = s.before /\ t.device = s.device /\ t.value = s.value
  BY <1>1, <1>2, <1>3 DEF Saves
<1>5. /\ s.stage = "updated" /\ saves' = (saves \ {s}) \cup {t}
      /\ UNCHANGED <<stored, user, current, inflight, device, asking, crossed>>
  BY <1>2, <1>3 DEF MyProfile, Go
<1>6. SaveRight(t)
  BY <1>1, <1>4 DEF SaveRight
<1>7. Tracks(s) => Tracks(t)'
  BY <1>2, <1>4, <1>5 DEF Tracks, Owner
<1> QED
  BY <1>1, <1>4, <1>5, <1>6, <1>7, SaveTurned

LEMMA ProfileInitRight == Init => ProfileInv
<1> SUFFICES ASSUME Init PROVE ProfileInv
  OBVIOUS
<1>1. Unset \in Values /\ NoLoad.owner = Nobody /\ None.owner = Nobody /\ ~NoLoad.served
      /\ NoLoad \in [owner : Account \cup {Nobody}, profile : Values, served : BOOLEAN]
      /\ None \in Copy
  BY DEF Unset, Values, NoLoad, None, Copy
<1>2. me = None
  BY DEF Init, me, useMe
<1>3. ScreenInv
  BY <1>1, <1>2 DEF Init, ScreenInv, ScreenTyped, AsksForShown, DeviceFollowsProfile
<1>4. stored \in [Account -> Values]
  <2> HIDE DEF Unset, Values
  <2> QED
    BY <1>1 DEF Init
<1>5. SavingInv /\ OneAtATime
  BY <1>1, <1>4 DEF Init, SavingInv, SavingTyped, OneAtATime
<1> QED
  BY <1>3, <1>5 DEF ProfileInv

LEMMA ProfileStep == ProfileInv /\ [Next]_vars => ProfileInv'
<1> SUFFICES ASSUME ProfileInv, [Next]_vars PROVE ProfileInv'
  OBVIOUS
<1>1. CASE UNCHANGED vars
  <2>1. UNCHANGED <<stored, user, current, inflight, device, saves, asking, crossed>>
    BY <1>1 DEF vars
  <2>2. \A s : Tracks(s) => Tracks(s)'
    BY <2>1 DEF Tracks, Owner
  <2>3. OneAtATime'
    BY <2>1, <2>2 DEF ProfileInv, OneAtATime
  <2> QED
    BY <2>1, <2>3, ScreenKept DEF ProfileInv, SavingInv, SavingTyped, SaveRight
<1>2. ASSUME NEW s \in saves,
             Succeeds(s) \/ Fails(s) \/ ReadPreferences(s) \/ Update(s) \/ MyProfile(s)
      PROVE  ProfileInv'
  BY <1>2, SuccessKeeps, FailKeeps, ReadKeeps, UpdateKeeps, AnswerKeeps
<1> QED
  BY <1>1, <1>2, LoadsKeep, TapKeeps, WalkthroughKeeps DEF Next

\* The theme and the currency symbol of the phone are those of the profile it shows, for
\* any accounts, taps, refusals, late answers and changes of account (PreferencesSync).
THEOREM DeviceIsInStep == Spec => []DeviceFollowsProfile
<1>1. ProfileInv => DeviceFollowsProfile
  BY DEF ProfileInv, ScreenInv
<1> QED
  BY <1>1, ProfileInitRight, ProfileStep, PTL DEF Spec

\* Once everything is answered, Settings shows what is stored, for any number of saves and
\* loads of which no two crossed and none went unheard since the profile was last loaded
\* (me.ts, the rows of Settings, put_preferences).
THEOREM SettingsAreStored == Spec => []ShownIsStored
<1>1. ProfileInv => ShownIsStored
  BY MeIsCurrent DEF ProfileInv, OneAtATime, ShownIsStored
<1> QED
  BY <1>1, ProfileInitRight, ProfileStep, PTL DEF Spec
=============================================================================
