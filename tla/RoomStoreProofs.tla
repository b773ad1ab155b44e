-------------------------- MODULE RoomStoreProofs --------------------------
(***************************************************************************)
(* The one-active-room rule, for any number of rooms, requests and         *)
(* commands.                                                               *)
(*                                                                         *)
(* A search is right although it works from a list of candidates and from  *)
(* statuses that are out of date: a status that says closed is never wrong *)
(* (StatusFollows), so that the list holds every room the person is in;    *)
(* and rooms the person is in only become fewer while no other request of  *)
(* the person writes (Onward), so that what was ruled out stays ruled out. *)
(*                                                                         *)
(* And opening a room (NewRoom): it is played in cents, and the form takes *)
(* what the API takes.                                                     *)
(***************************************************************************)
EXTENDS RoomStore, NewRoom, FiniteSetTheorems, TLAPS

Logs == {"lobby", "in_progress", "disbanded", "ended"}

Rooms == [log : Logs, counting : BOOLEAN, seq : Nat, idle : BOOLEAN, status : Logs,
          hosted : BOOLEAN, member : BOOLEAN, listed : BOOLEAN]

Folds == [log : Logs, seq : Nat, member : BOOLEAN]

Reading == {"closing", "again", "folded"}

Asks == [op : {"create", "join", "active"}, room : Nat,
         stage : {"sent", "looking", "free"} \cup Reading,
         todo : SUBSET [room : Nat, status : Logs], at : Nat, stored : Logs,
         saw : Folds, no : Nat]

\* The open rooms the person is in.
MyRooms == {n \in DOMAIN store : store[n].log \in Open /\ store[n].member}

\* Whoever is in a room is listed, and an open room is open by its column, too.
StatusFollows ==
    \A n \in DOMAIN store : /\ store[n].log \in Open => store[n].status \in Open
                            /\ store[n].member => store[n].listed

StoreOK ==
    /\ asked \in Nat
    /\ excused \in BOOLEAN
    /\ DOMAIN store \subseteq 0 .. asked
    /\ store \in [DOMAIN store -> Rooms]
    /\ StatusFollows

\* What a request refers to is there, a room to be created is not yet, and a closed
\* room that was seen as such is closed.
AskOK(c) ==
    /\ c \in Asks
    /\ IF c.op = "create" THEN c.room = c.no /\ c.room \in (1 .. asked) \ DOMAIN store
       ELSE c.room \in DOMAIN store
    /\ \A t \in c.todo : t.room \in DOMAIN store
    /\ c.stage \in Reading => c.at \in DOMAIN store
    /\ c.stage = "folded" /\ c.saw.log \notin Open => store[c.at].log \notin Open

OneEach ==
    \A c, d \in asks : c.op = "create" /\ d.op = "create" /\ c.room = d.room => c = d

\* Where a search of the person's has got to: which rooms it may still find.
Left(c) ==
    CASE c.stage = "looking" -> {t.room : t \in c.todo}
      [] c.stage \in {"closing", "again"} -> {t.room : t \in c.todo} \cup {c.at}
      [] c.stage = "folded" -> IF c.saw.log \in Open /\ c.saw.member THEN {c.at}
                               ELSE {t.room : t \in c.todo}
      [] c.stage = "free" -> IF c.op = "join" THEN {c.room} ELSE {}
      [] OTHER -> DOMAIN store

Searching(c) == c.op # "active" /\ c.stage # "sent"

SearchOK(c) == Searching(c) => MyRooms \subseteq Left(c)

IInv ==
    /\ StoreOK
    /\ \A c \in asks : AskOK(c)
    /\ OneEach
    /\ ~excused => /\ \A m, n \in MyRooms : m = n
                   /\ \A c \in asks : SearchOK(c)

-----------------------------------------------------------------------------
(* How rooms change. *)

\* Rooms are neither opened nor entered.
Onward ==
    /\ DOMAIN store' = DOMAIN store
    /\ \A n \in DOMAIN store :
        /\ store'[n].log \in Open => store[n].log \in Open
        /\ store'[n].member => store[n].member

(* A command of a room keeps its column in step with its log. *)
LEMMA Appended ==
    ASSUME StoreOK, NEW n \in DOMAIN store, NEW after \in Rooms, append_events(n, after),
           after.status = store[n].status,
           after.member => after.listed,
           asked' = asked, excused' \in BOOLEAN
    PROVE  /\ StoreOK'
           /\ DOMAIN store' = DOMAIN store
           /\ store'[n].log = after.log /\ store'[n].member = after.member
           /\ \A m \in DOMAIN store : m # n => store'[m] = store[m]
<1> DEFINE next == [after EXCEPT !.seq = store[n].seq + 1, !.idle = FALSE,
                                 !.status = IF after.log # store[n].log THEN after.log ELSE @]
<1> USE DEF Rooms, Logs
<1>1. store[n] \in Rooms /\ (store[n].log \in Open => store[n].status \in Open)
  BY DEF StoreOK, StatusFollows
<1>2. /\ next \in Rooms
      /\ next.log = after.log /\ next.member = after.member /\ next.listed = after.listed
      /\ next.status = IF after.log # store[n].log THEN after.log ELSE after.status
  <2> DEFINE seq == store[n].seq + 1
             status == IF after.log # store[n].log THEN after.log ELSE after.status
  <2>1. seq \in Nat /\ status \in Logs
    BY <1>1
  <2>2. next = [after EXCEPT !.seq = seq, !.idle = FALSE, !.status = status]
    OBVIOUS
  <2> HIDE DEF seq, next
  <2> QED
    BY <2>1, <2>2
<1>3. next.log \in Open => next.status \in Open
  BY <1>1, <1>2
<1>4. store' = [store EXCEPT ![n] = next]
  BY DEF append_events
<1> HIDE DEF next
<1>5. /\ DOMAIN store' = DOMAIN store /\ store'[n] = next
      /\ \A m \in DOMAIN store : m # n => store'[m] = store[m]
  BY <1>4
<1>6. StoreOK'
  BY <1>2, <1>3, <1>4, <1>5 DEF StoreOK, StatusFollows
<1> QED
  BY <1>2, <1>5, <1>6

(* What goes on in the rooms opens none and lets nobody in. *)
LEMMA Playing ==
    ASSUME StoreOK, NEW n \in DOMAIN store,
           \/ start_game(n) \/ disband_room(n) \/ end_game(n) \/ claim_win(n)
           \/ leave_room(n) \/ step_out(n) \/ GoesStale(n)
    PROVE  StoreOK' /\ Onward /\ UNCHANGED <<asks, excused, asked>>
<1> USE DEF Open, Logs, Rooms
<1>1. store[n] \in Rooms /\ (store[n].member => store[n].listed)
  BY DEF StoreOK, StatusFollows
<1>2. ASSUME NEW after \in Rooms, Played(n, after),
             after.status = store[n].status, after.member => store[n].member,
             after.listed = store[n].listed, store[n].log \in Open
      PROVE  StoreOK' /\ Onward /\ UNCHANGED <<asks, excused, asked>>
  <2>1. append_events(n, after) /\ UNCHANGED <<asks, excused, asked>>
    BY <1>2 DEF Played
  <2>2. after.member => after.listed
    BY <1>1, <1>2
  <2>3. excused' \in BOOLEAN
    BY <2>1 DEF StoreOK
  <2> QED
    BY <1>2, <2>1, <2>2, <2>3, Appended DEF Onward
<1>3. CASE start_game(n)
  BY <1>1, <1>2, <1>3 DEF start_game
<1>4. CASE disband_room(n)
  BY <1>1, <1>2, <1>4 DEF disband_room
<1>5. CASE end_game(n)
  BY <1>1, <1>2, <1>5 DEF end_game
<1>6. CASE claim_win(n)
  BY <1>1, <1>2, <1>6 DEF claim_win
<1>7. CASE leave_room(n)
  BY <1>1, <1>2, <1>7 DEF leave_room
<1>8. CASE step_out(n)
  <2>1. PICK log \in {"in_progress", "ended"} :
            Played(n, [store[n] EXCEPT !.member = FALSE, !.counting = FALSE, !.log = log])
    BY <1>8 DEF step_out
  <2> QED
    BY <1>1, <1>2, <1>8, <2>1 DEF step_out
<1>9. CASE GoesStale(n)
  BY <1>1, <1>9 DEF GoesStale, StoreOK, StatusFollows, Onward
<1> QED
  BY <1>3, <1>4, <1>5, <1>6, <1>7, <1>8, <1>9

-----------------------------------------------------------------------------
(* How requests go on. *)

(* A request stays in order while rooms go on, and with rooms as they are. *)
LEMMA AskKept ==
    ASSUME Onward, asked' = asked, NEW c, AskOK(c)
    PROVE  AskOK(c)'
<1> USE DEF Onward
<1>1. ASSUME c.stage \in Reading PROVE c.at \in DOMAIN store
  BY <1>1 DEF AskOK
<1> QED
  BY <1>1 DEF AskOK, Reading

(* Rooms the person is in only become fewer, and no search misses one for it. *)
LEMMA SearchKept ==
    ASSUME Onward, NEW c, SearchOK(c)
    PROVE  MyRooms' \subseteq MyRooms /\ SearchOK(c)'
<1>1. MyRooms' \subseteq MyRooms
  BY DEF Onward, MyRooms
<1>2. Searching(c)' <=> Searching(c)
  BY DEF Searching
<1>3. Searching(c) => Left(c)' = Left(c)
  BY DEF Onward, Left
<1> QED
  BY <1>1, <1>2, <1>3 DEF SearchOK

(* One request goes on to be d, and what it does to the rooms opens none. *)
LEMMA TurnKeeps ==
    ASSUME IInv, Onward, StoreOK', asked' = asked, excused' \in BOOLEAN, ~excused' => ~excused,
           NEW c \in asks, NEW d,
           asks' = (asks \ {c}) \cup {d} \/ asks' = asks \ {c},
           asks' # asks \ {c} => /\ AskOK(d)'
                                 /\ d.op = c.op /\ d.room = c.room
                                 /\ ~excused' => SearchOK(d)'
    PROVE  IInv'
<1>1. \A e \in asks : AskOK(e)' /\ (~excused => SearchOK(e)')
  BY AskKept, SearchKept DEF IInv
<1>2. \A e \in asks' : e \in asks \ {c} \/ (e = d /\ asks' # asks \ {c})
  OBVIOUS
<1>3. \A e \in asks' : AskOK(e)' /\ (~excused' => SearchOK(e)')
  BY <1>1, <1>2
<1>4. OneEach'
  BY <1>2 DEF IInv, OneEach
<1>5. MyRooms' \subseteq MyRooms
  BY DEF Onward, MyRooms
<1>6. ~excused' => \A m, n \in MyRooms' : m = n
  BY <1>5 DEF IInv
<1> QED
  BY <1>3, <1>4, <1>6 DEF IInv

-----------------------------------------------------------------------------
(* The steps of a search. *)

(* Nothing but requests changes. *)
LEMMA Still == StoreOK /\ UNCHANGED <<store, excused, asked>> => Onward /\ StoreOK'
BY DEF StoreOK, StatusFollows, Onward

LEMMA ListKeeps ==
    ASSUME IInv, NEW c \in asks, find_active_room_state(c)
    PROVE  IInv'
<1>0. PICK d : d = [c EXCEPT !.stage = "looking", !.todo = {Candidate(n) : n \in Candidates}]
  OBVIOUS
<1>1. /\ AskOK(c) /\ c.stage = "sent"
      /\ asks' = (asks \ {c}) \cup {d} /\ UNCHANGED <<store, excused, asked>>
  BY <1>0 DEF IInv, find_active_room_state, Turn
<1>2. Onward /\ StoreOK' /\ excused' \in BOOLEAN
  BY <1>1, Still DEF IInv, StoreOK
<1>3. \A t \in d.todo : t \in [room : Nat, status : Logs] /\ t.room \in DOMAIN store
  <2>1. d.todo = {Candidate(n) : n \in Candidates}
    BY <1>0, <1>1 DEF AskOK, Asks
  <2>2. \A n \in Candidates : /\ Candidate(n) \in [room : Nat, status : Logs]
                              /\ Candidate(n).room \in DOMAIN store
    BY DEF IInv, StoreOK, Candidate, Candidates, Rooms
  <2> QED
    BY <2>1, <2>2
<1>4. d.op = c.op /\ d.room = c.room /\ d.no = c.no /\ d.stage = "looking"
  BY <1>0, <1>1 DEF AskOK, Asks
<1>5. MyRooms \subseteq {t.room : t \in d.todo}
  <2>1. \A n \in MyRooms : n \in Candidates /\ Candidate(n).room = n
    BY DEF IInv, StoreOK, StatusFollows, MyRooms, Candidates, Candidate
  <2>2. d.todo = {Candidate(n) : n \in Candidates}
    BY <1>0, <1>1 DEF AskOK, Asks
  <2> QED
    BY <2>1, <2>2
<1>6. d \in Asks
  BY <1>0, <1>1, <1>3 DEF AskOK, Asks
<1>7. AskOK(d)'
  BY <1>1, <1>3, <1>4, <1>6 DEF AskOK, Reading
<1>8. SearchOK(d)'
  <2>1. MyRooms' = MyRooms /\ Left(d)' = {t.room : t \in d.todo}
    BY <1>1, <1>4 DEF MyRooms, Left
  <2> QED
    BY <1>5, <2>1 DEF SearchOK
<1> QED
  BY <1>1, <1>2, <1>4, <1>7, <1>8, TurnKeeps

(* What a search keeps of a room it has read is true of it. *)
LEMMA SawTrue ==
    ASSUME IInv, NEW c \in asks, NEW n \in DOMAIN store
    PROVE  /\ Saw(c, n) = [c EXCEPT !.saw = Folded(store[n]), !.stage = "folded"]
           /\ Folded(store[n]) \in Folds
           /\ Folded(store[n]).log = store[n].log
           /\ Folded(store[n]).member = store[n].member
BY DEF Saw, Folded, Folds, IInv, StoreOK, Rooms

LEMMA ReadKeeps ==
    ASSUME IInv, NEW c \in asks, _confirm_candidate(c)
    PROVE  IInv'
<1>1. PICK candidate \in c.todo :
        LET d == [Saw(c, candidate.room) EXCEPT !.at = candidate.room, !.stored = candidate.status,
                                                !.todo = @ \ {candidate}]
        IN  Turn(c, IF d.saw.log \in Open /\ store[d.at].idle THEN [d EXCEPT !.stage = "closing"] ELSE d)
  BY DEF _confirm_candidate
<1> DEFINE n == candidate.room
<1>2. /\ AskOK(c) /\ c.stage = "looking" /\ UNCHANGED <<store, excused, asked>>
      /\ n \in DOMAIN store
  BY DEF IInv, _confirm_candidate, AskOK
<1>3. Onward /\ StoreOK' /\ excused' \in BOOLEAN
  BY <1>2, Still DEF IInv, StoreOK
<1>4. PICK stage \in {"closing", "folded"} :
        asks' = (asks \ {c}) \cup
                    {[c EXCEPT !.saw = Folded(store[n]), !.stage = stage, !.at = n,
                               !.stored = candidate.status, !.todo = @ \ {candidate}]}
  <2>1. c \in Asks /\ candidate \in [room : Nat, status : Logs]
    BY <1>2 DEF AskOK, Asks
  <2>2. Saw(c, n) = [c EXCEPT !.saw = Folded(store[n]), !.stage = "folded"]
    BY <1>2, SawTrue
  <2> QED
    BY <1>1, <2>1, <2>2 DEF Turn, Asks
<1>0. PICK d : d = [c EXCEPT !.saw = Folded(store[n]), !.stage = stage, !.at = n,
                             !.stored = candidate.status, !.todo = @ \ {candidate}]
  OBVIOUS
<1>5. Folded(store[n]) \in Folds
  BY <1>2, SawTrue
<1>6. /\ d \in Asks
      /\ d.op = c.op /\ d.room = c.room /\ d.no = c.no /\ d.stage = stage /\ d.at = n
      /\ d.todo = c.todo \ {candidate} /\ d.saw = Folded(store[n])
  <2>1. c \in Asks /\ candidate \in [room : Nat, status : Logs]
    BY <1>2 DEF AskOK, Asks
  <2> QED
    BY <1>0, <1>5, <2>1 DEF Asks, Reading
<1>7. AskOK(d)'
  <2>1. d.saw.log = store[n].log
    BY <1>2, <1>6, SawTrue
  <2> QED
    BY <1>2, <1>6, <2>1 DEF AskOK, Reading
<1>8. ASSUME ~excused' PROVE SearchOK(d)'
  <2>1. ASSUME Searching(c) PROVE MyRooms \subseteq Left(d)
    <3>1. MyRooms \subseteq {t.room : t \in c.todo}
      BY <1>2, <1>8, <2>1 DEF IInv, SearchOK, Left
    <3>2. \A m \in MyRooms : m = n \/ \E t \in d.todo : t.room = m
      BY <1>6, <3>1
    <3>3. CASE stage = "closing"
      BY <1>6, <3>2, <3>3 DEF Left
    <3>4. CASE stage = "folded"
      <4>1. n \in MyRooms <=> d.saw.log \in Open /\ d.saw.member
        <5>1. d.saw.log = store[n].log /\ d.saw.member = store[n].member
          BY <1>2, <1>6, SawTrue
        <5> QED
          BY <1>2, <5>1 DEF MyRooms
      <4>2. n \in MyRooms => MyRooms = {n}
        BY <1>2, <1>8 DEF IInv
      <4> QED
        BY <1>6, <3>2, <3>4, <4>1, <4>2 DEF Left
    <3> QED
      BY <3>3, <3>4
  <2>2. MyRooms' = MyRooms /\ Left(d)' = Left(d)
    BY <1>2 DEF MyRooms, Left
  <2> QED
    BY <1>2, <1>6, <2>1, <2>2 DEF SearchOK, Searching
<1> QED
  BY <1>0, <1>2, <1>3, <1>4, <1>6, <1>7, <1>8, TurnKeeps

(* A room closed for being stale is closed in the log and in what the search holds. *)
LEMMA CloseKeeps ==
    ASSUME IInv, NEW c \in asks, _maybe_close_stale_room(c)
    PROVE  IInv'
<1>1. /\ AskOK(c) /\ c \in Asks /\ c.stage = "closing" /\ c.at \in DOMAIN store
      /\ UNCHANGED <<excused, asked>> /\ StoreOK
  BY DEF IInv, _maybe_close_stale_room, AskOK, Reading
<1>2. CASE store[c.at].seq = c.saw.seq
  <2>0. PICK d : d = [c EXCEPT !.saw = closing(@), !.stage = "folded"]
    OBVIOUS
  <2>1. /\ append_events(c.at, [closing(store[c.at]) EXCEPT !.counting = FALSE])
        /\ asks' = (asks \ {c}) \cup {d}
    BY <1>2, <2>0 DEF _maybe_close_stale_room, Turn
  <2> DEFINE log == IF store[c.at].log = "lobby" THEN "disbanded" ELSE "ended"
             after == [closing(store[c.at]) EXCEPT !.counting = FALSE]
  <2>2. /\ after \in Rooms /\ after.status = store[c.at].status /\ after.log = log
        /\ after.member = store[c.at].member /\ after.listed = store[c.at].listed
        /\ after.member => after.listed
    BY <1>1 DEF closing, StoreOK, StatusFollows, Rooms, Logs
  <2> HIDE DEF after
  <2>3. excused' \in BOOLEAN
    BY <1>1 DEF StoreOK
  <2>4. /\ StoreOK' /\ DOMAIN store' = DOMAIN store
        /\ store'[c.at].log = log /\ store'[c.at].member = store[c.at].member
        /\ \A m \in DOMAIN store : m # c.at => store'[m] = store[m]
    BY <1>1, <2>1, <2>2, <2>3, Appended DEF after
  <2>5. log \notin Open
    BY DEF Open
  <2>6. Onward
    BY <2>4, <2>5 DEF Onward
  <2>7. /\ d \in Asks
        /\ d.op = c.op /\ d.room = c.room /\ d.no = c.no /\ d.stage = "folded" /\ d.at = c.at
        /\ d.todo = c.todo /\ d.saw.log \notin Open
    BY <1>1, <2>0 DEF closing, Asks, Reading, Folds, Logs, Open
  <2>8. AskOK(d)'
    BY <1>1, <2>4, <2>5, <2>7 DEF AskOK, Reading
  <2>9. ASSUME ~excused' PROVE SearchOK(d)'
    <3>1. MyRooms' \subseteq MyRooms /\ c.at \notin MyRooms'
      BY <2>4, <2>5, <2>6 DEF MyRooms, Onward
    <3>2. Searching(c) => MyRooms \subseteq {t.room : t \in c.todo} \cup {c.at}
      BY <1>1, <2>9 DEF IInv, SearchOK, Left
    <3>3. Left(d)' = {t.room : t \in c.todo}
      BY <2>7 DEF Left
    <3> QED
      BY <1>1, <2>7, <3>1, <3>2, <3>3 DEF SearchOK, Searching
  <2> QED
    BY <1>1, <2>1, <2>3, <2>4, <2>6, <2>7, <2>8, <2>9, TurnKeeps
<1>3. CASE store[c.at].seq # c.saw.seq
  <2>0. PICK d : d = [c EXCEPT !.stage = "again"]
    OBVIOUS
  <2>1. asks' = (asks \ {c}) \cup {d} /\ UNCHANGED store
    BY <1>3, <2>0 DEF _maybe_close_stale_room, Turn, Collided
  <2>2. Onward /\ StoreOK' /\ excused' \in BOOLEAN
    BY <1>1, <2>1, Still DEF StoreOK
  <2>3. /\ d \in Asks
        /\ d.op = c.op /\ d.room = c.room /\ d.no = c.no /\ d.stage = "again" /\ d.at = c.at
        /\ d.todo = c.todo /\ d.saw = c.saw
    BY <1>1, <2>0 DEF Asks, Reading
  <2>4. AskOK(d)'
    BY <1>1, <2>1, <2>3 DEF AskOK, Reading
  <2>5. ASSUME ~excused' PROVE SearchOK(d)'
    <3>1. MyRooms' = MyRooms /\ Left(d)' = Left(c)
      BY <1>1, <2>1, <2>3 DEF MyRooms, Left
    <3>2. Searching(c) => MyRooms \subseteq Left(c)
      BY <1>1, <2>5 DEF IInv, SearchOK
    <3> QED
      BY <1>1, <2>3, <3>1, <3>2 DEF SearchOK, Searching
  <2> QED
    BY <1>1, <2>1, <2>2, <2>3, <2>4, <2>5, TurnKeeps
<1> QED
  BY <1>2, <1>3

LEMMA RebuildKeeps ==
    ASSUME IInv, NEW c \in asks, _rebuild(c)
    PROVE  IInv'
<1>1. /\ AskOK(c) /\ c \in Asks /\ c.stage = "again" /\ c.at \in DOMAIN store
      /\ UNCHANGED <<store, excused, asked>> /\ StoreOK
  BY DEF IInv, _rebuild, AskOK, Reading
<1>0. PICK d : d = [c EXCEPT !.saw = Folded(store[c.at]), !.stage = "folded"]
  OBVIOUS
<1>2. asks' = (asks \ {c}) \cup {d}
  BY <1>0, <1>1, SawTrue DEF _rebuild, Turn
<1>3. Onward /\ StoreOK' /\ excused' \in BOOLEAN
  BY <1>1, Still DEF StoreOK
<1>4. /\ d \in Asks
      /\ d.op = c.op /\ d.room = c.room /\ d.no = c.no /\ d.stage = "folded" /\ d.at = c.at
      /\ d.todo = c.todo /\ d.saw = Folded(store[c.at])
  <2>1. Folded(store[c.at]) \in Folds
    BY <1>1, SawTrue
  <2> QED
    BY <1>0, <1>1, <2>1 DEF Asks, Reading
<1>5. d.saw.log = store[c.at].log /\ d.saw.member = store[c.at].member
  BY <1>1, <1>4, SawTrue
<1>6. AskOK(d)'
  BY <1>1, <1>4, <1>5 DEF AskOK, Reading
<1>7. ASSUME ~excused' PROVE SearchOK(d)'
  <2>1. MyRooms' = MyRooms
    BY <1>1 DEF MyRooms
  <2>2. Searching(c) => MyRooms \subseteq {t.room : t \in c.todo} \cup {c.at}
    BY <1>1, <1>7 DEF IInv, SearchOK, Left
  <2>3. c.at \in MyRooms <=> d.saw.log \in Open /\ d.saw.member
    BY <1>1, <1>5 DEF MyRooms
  <2>4. c.at \in MyRooms => MyRooms = {c.at}
    BY <1>1, <1>7 DEF IInv
  <2>5. Left(d)' = IF d.saw.log \in Open /\ d.saw.member THEN {c.at} ELSE {t.room : t \in c.todo}
    BY <1>4 DEF Left
  <2> QED
    BY <1>1, <1>4, <2>1, <2>2, <2>3, <2>4, <2>5 DEF SearchOK, Searching
<1> QED
  BY <1>1, <1>2, <1>3, <1>4, <1>6, <1>7, TurnKeeps

(* What is left of a request that goes on to look further, or to write. *)
LEMMA BackTyped ==
    ASSUME NEW c \in Asks, asked \in Nat, NEW stage \in {"looking", "free"}
    PROVE  /\ Back(c, stage) \in Asks
           /\ Back(c, stage).op = c.op /\ Back(c, stage).room = c.room
           /\ Back(c, stage).no = c.no /\ Back(c, stage).stage = stage
           /\ Back(c, stage).todo = IF stage = "looking" THEN c.todo ELSE {}
BY DEF Back, Request, Asks, Folded, new, Folds, Logs, NoRoom, Reading

LEMMA BackOK ==
    ASSUME IInv, NEW c \in asks, NEW stage \in {"looking", "free"}, NEW d, d = Back(c, stage),
           DOMAIN store' = DOMAIN store, asked' = asked
    PROVE  AskOK(d)'
<1>1. AskOK(c) /\ c \in Asks /\ asked \in Nat
  BY DEF IInv, AskOK, StoreOK
<1>2. /\ d \in Asks /\ d.op = c.op /\ d.room = c.room /\ d.no = c.no /\ d.stage = stage
      /\ d.todo = IF stage = "looking" THEN c.todo ELSE {}
  BY <1>1, BackTyped
<1> QED
  BY <1>1, <1>2 DEF AskOK, Reading

LEMMA SkipKeeps ==
    ASSUME IInv, NEW c \in asks, Skipped(c)
    PROVE  IInv'
<1>1. /\ excused' = TRUE /\ UNCHANGED <<store, asked>> /\ StoreOK /\ c \in Asks
  BY DEF IInv, Skipped, AskOK
<1>0. PICK d : d = Back(c, "looking")
  OBVIOUS
<1>2. asks' = (asks \ {c}) \cup {d}
  BY <1>0 DEF Skipped, Turn
<1>3. StoreOK' /\ Onward
  BY <1>1 DEF StoreOK, StatusFollows, Onward
<1>4. AskOK(d)' /\ d.op = c.op /\ d.room = c.room
  BY <1>0, <1>1, BackOK, BackTyped DEF StoreOK
<1> QED
  BY <1>1, <1>2, <1>3, <1>4, TurnKeeps

(* A status written from what was folded earlier may be old, but says closed only of
   what is closed. *)
LEMMA CorrectionIsHarmless ==
    ASSUME StoreOK, NEW c, AskOK(c), c.stage = "folded", store' = Corrected(c),
           UNCHANGED <<excused, asked>>
    PROVE  StoreOK' /\ Onward
<1>1. c.at \in DOMAIN store /\ c.saw.log \in Logs /\ store[c.at] \in Rooms
  BY DEF AskOK, Reading, Asks, Folds, StoreOK
<1>2. store[c.at].log \in Open => c.saw.log \in Open
  BY DEF AskOK
<1>3. CASE c.saw.log = c.stored
  BY <1>3, Still DEF Corrected
<1>4. CASE c.saw.log # c.stored
  <2> DEFINE corrected == [store[c.at] EXCEPT !.status = c.saw.log]
  <2>1. store' = [store EXCEPT ![c.at] = corrected]
    BY <1>4 DEF Corrected
  <2>2. /\ corrected \in Rooms /\ corrected.status = c.saw.log
        /\ corrected.log = store[c.at].log /\ corrected.member = store[c.at].member
        /\ corrected.listed = store[c.at].listed
    BY <1>1 DEF Rooms, Logs
  <2> HIDE DEF corrected
  <2>3. /\ DOMAIN store' = DOMAIN store
        /\ \A n \in DOMAIN store : store'[n] = IF n = c.at THEN corrected ELSE store[n]
    BY <2>1
  <2> QED
    BY <1>1, <1>2, <2>1, <2>2, <2>3 DEF StoreOK, StatusFollows, Onward
<1> QED
  BY <1>3, <1>4

LEMMA ConfirmKeeps ==
    ASSUME IInv, NEW c \in asks, Confirmed(c)
    PROVE  IInv'
<1>1. /\ AskOK(c) /\ c \in Asks /\ c.stage = "folded" /\ StoreOK /\ asked \in Nat
      /\ UNCHANGED <<excused, asked>> /\ store' = Corrected(c)
  BY DEF IInv, Confirmed, AskOK, StoreOK
<1>2. StoreOK' /\ Onward /\ excused' \in BOOLEAN
  BY <1>1, CorrectionIsHarmless DEF StoreOK
<1>3. MyRooms' \subseteq MyRooms
  BY <1>2 DEF Onward, MyRooms
<1>4. Searching(c) /\ ~excused => MyRooms \subseteq Left(c)
  BY DEF IInv, SearchOK
<1>5. CASE ~InIt(c)
  <2>0. PICK d : d = Back(c, "looking")
    OBVIOUS
  <2>1. asks' = (asks \ {c}) \cup {d}
    BY <1>5, <2>0 DEF Confirmed, Turn
  <2>2. AskOK(d)' /\ d.op = c.op /\ d.room = c.room /\ d.stage = "looking" /\ d.todo = c.todo
    BY <1>1, <1>2, <2>0, BackOK, BackTyped DEF Onward
  <2>3. ASSUME ~excused' PROVE SearchOK(d)'
    <3>1. Searching(c) => Left(c) = {t.room : t \in c.todo}
      BY <1>1, <1>5 DEF Searching, Left, InIt
    <3>2. Left(d)' = {t.room : t \in c.todo}
      BY <2>2 DEF Left
    <3> QED
      BY <1>1, <1>3, <1>4, <2>2, <2>3, <3>1, <3>2 DEF SearchOK, Searching
  <2> QED
    BY <1>1, <1>2, <2>1, <2>2, <2>3, TurnKeeps
<1>6. CASE InIt(c) /\ c.op = "join" /\ c.at = c.room
  <2>0. PICK d : d = Back(c, "free")
    OBVIOUS
  <2>1. asks' = (asks \ {c}) \cup {d}
    BY <1>6, <2>0 DEF Confirmed, Turn
  <2>2. AskOK(d)' /\ d.op = c.op /\ d.room = c.room /\ d.stage = "free"
    BY <1>1, <1>2, <2>0, BackOK, BackTyped DEF Onward
  <2>3. ASSUME ~excused' PROVE SearchOK(d)'
    <3>1. Searching(c) /\ Left(c) = {c.room}
      BY <1>1, <1>6 DEF Searching, Left, InIt
    <3>2. Left(d)' = {c.room}
      BY <1>6, <2>2 DEF Left
    <3> QED
      BY <1>1, <1>3, <1>4, <2>3, <3>1, <3>2 DEF SearchOK
  <2> QED
    BY <1>1, <1>2, <2>1, <2>2, <2>3, TurnKeeps
<1>7. CASE InIt(c) /\ ~(c.op = "join" /\ c.at = c.room)
  <2>1. asks' = asks \ {c}
    BY <1>7 DEF Confirmed
  <2> QED
    BY <1>1, <1>2, <2>1, TurnKeeps
<1> QED
  BY <1>5, <1>6, <1>7

(* A search that has looked everywhere without finding a room has none to find. *)
LEMMA ExhaustKeeps ==
    ASSUME IInv, NEW c \in asks, Exhausted(c)
    PROVE  IInv'
<1>1. /\ AskOK(c) /\ c \in Asks /\ c.stage = "looking" /\ c.todo = {} /\ asked \in Nat
      /\ UNCHANGED <<store, excused, asked>>
  BY DEF IInv, Exhausted, AskOK, StoreOK
<1>2. Onward /\ StoreOK' /\ excused' \in BOOLEAN
  BY <1>1, Still DEF IInv, StoreOK
<1>3. CASE c.op = "active"
  BY <1>1, <1>2, <1>3, TurnKeeps DEF Exhausted
<1>4. CASE c.op # "active"
  <2>0. PICK d : d = Back(c, "free")
    OBVIOUS
  <2>1. asks' = (asks \ {c}) \cup {d}
    BY <1>4, <2>0 DEF Exhausted, Turn
  <2>2. AskOK(d)' /\ d.op = c.op /\ d.room = c.room /\ d.stage = "free"
    BY <1>1, <1>2, <2>0, BackOK, BackTyped DEF Onward
  <2>3. ASSUME ~excused' PROVE SearchOK(d)'
    <3>1. MyRooms = {}
      BY <1>1, <1>4, <2>3 DEF IInv, SearchOK, Searching, Left
    <3> QED
      BY <1>1, <3>1 DEF SearchOK, MyRooms
  <2> QED
    BY <1>1, <1>2, <2>1, <2>2, <2>3, TurnKeeps
<1> QED
  BY <1>3, <1>4

-----------------------------------------------------------------------------
(* The writes, and new requests. *)

(* When a request writes and no other one of the person has begun its search, the
   room it writes to is the only one left. *)
LEMMA WriteKeeps ==
    ASSUME IInv, NEW c \in asks, c.op # "active", c.stage = "free",
           StoreOK', asked' = asked, asks' = asks \ {c},
           DOMAIN store' = DOMAIN store \cup {c.room},
           \A n \in DOMAIN store : n # c.room => store'[n] = store[n],
           c.room \in DOMAIN store => c.op # "create" /\ store'[c.room].log = store[c.room].log,
           excused' = (excused \/ Races(c))
    PROVE  IInv'
<1>1. \A e \in asks' : AskOK(e)'
  <2> SUFFICES ASSUME NEW e \in asks \ {c} PROVE AskOK(e)'
    OBVIOUS
  <2>1. AskOK(e) /\ AskOK(c)
    BY DEF IInv
  <2>2. e.stage \in Reading => e.at \in DOMAIN store
    BY <2>1 DEF AskOK
  <2>3. e.op = "create" => e.room # c.room
    BY <2>1 DEF IInv, OneEach, AskOK
  <2>4. c.room \in DOMAIN store \/ c.room \notin DOMAIN store
    OBVIOUS
  <2>5. ASSUME e.stage \in Reading
        PROVE  e.at \in DOMAIN store' /\ store'[e.at].log = store[e.at].log
    BY <2>2, <2>4, <2>5
  <2> QED
    BY <2>1, <2>3, <2>5 DEF AskOK, Reading
<1>2. OneEach'
  BY DEF IInv, OneEach
<1>3. ASSUME ~excused' PROVE /\ \A m, n \in MyRooms' : m = n
                             /\ \A e \in asks' : SearchOK(e)'
  <2>1. MyRooms \subseteq {c.room}
    BY <1>3 DEF IInv, SearchOK, Searching, Left
  <2>2. MyRooms' \subseteq {c.room}
    BY <2>1 DEF MyRooms
  <2>3. \A e \in asks' : ~Searching(e)
    BY <1>3 DEF Races, Searching
  <2> QED
    BY <2>2, <2>3 DEF SearchOK, Searching
<1> QED
  BY <1>1, <1>2, <1>3 DEF IInv

LEMMA CreateKeeps ==
    ASSUME IInv, NEW c \in asks, create_room(c)
    PROVE  IInv'
<1>1. /\ c.stage = "free" /\ c.op = "create" /\ asks' = asks \ {c} /\ asked' = asked
      /\ excused' = (excused \/ Races(c)) /\ AskOK(c)
      /\ store' = [n \in DOMAIN store \cup {c.room} |-> IF n = c.room THEN new(TRUE) ELSE store[n]]
  BY DEF create_room, IInv
<1>2. c.room \in (1 .. asked) \ DOMAIN store
  BY <1>1 DEF AskOK
<1>3. /\ new(TRUE) \in Rooms /\ new(TRUE).status \in Open /\ new(TRUE).listed
  BY DEF new, Rooms, Logs, Open
<1>4. /\ DOMAIN store' = DOMAIN store \cup {c.room} /\ store'[c.room] = new(TRUE)
      /\ \A n \in DOMAIN store : n # c.room => store'[n] = store[n]
  BY <1>1
<1>5. excused' \in BOOLEAN
  BY <1>1 DEF IInv, StoreOK
<1>6. StoreOK'
  <2>1. StoreOK
    BY DEF IInv
  <2>2. \A n \in DOMAIN store' : store'[n] = new(TRUE) \/ (n \in DOMAIN store /\ store'[n] = store[n])
    BY <1>4
  <2>3. StatusFollows'
    BY <1>3, <2>1, <2>2 DEF StoreOK, StatusFollows
  <2>4. store' \in [DOMAIN store' -> Rooms]
    <3>1. \A n \in DOMAIN store' : store'[n] \in Rooms
      BY <1>3, <2>1, <2>2 DEF StoreOK
    <3> QED
      BY <1>1, <3>1
  <2>5. DOMAIN store' \subseteq 0 .. asked'
    <3>1. c.room \in 0 .. asked /\ DOMAIN store \subseteq 0 .. asked /\ asked' = asked
      BY <1>1, <1>2, <2>1 DEF StoreOK
    <3> QED
      BY <1>4, <3>1
  <2>6. asked' \in Nat
    BY <1>1, <2>1 DEF StoreOK
  <2> QED
    BY <1>5, <2>3, <2>4, <2>5, <2>6 DEF StoreOK
<1> QED
  BY <1>1, <1>2, <1>4, <1>6, WriteKeeps

LEMMA JoinKeeps ==
    ASSUME IInv, NEW c \in asks, join_player(c)
    PROVE  IInv'
<1>1. /\ c.stage = "free" /\ c.op = "join" /\ asks' = asks \ {c} /\ asked' = asked
      /\ AskOK(c) /\ c.room \in DOMAIN store /\ StoreOK
  BY DEF join_player, IInv, AskOK
<1>2. CASE store[c.room].log = "lobby" /\ ~store[c.room].member
  <2> DEFINE after == [store[c.room] EXCEPT !.member = TRUE, !.listed = TRUE]
  <2>1. append_events(c.room, after) /\ excused' = (excused \/ Races(c))
    BY <1>2 DEF join_player
  <2>2. /\ after \in Rooms /\ after.status = store[c.room].status /\ after.listed
        /\ after.log = store[c.room].log
    BY <1>1 DEF StoreOK, Rooms
  <2> HIDE DEF after
  <2>3. excused' \in BOOLEAN
    BY <1>1, <2>1 DEF StoreOK
  <2>4. /\ StoreOK' /\ DOMAIN store' = DOMAIN store
        /\ store'[c.room].log = store[c.room].log
        /\ \A m \in DOMAIN store : m # c.room => store'[m] = store[m]
    BY <1>1, <2>1, <2>2, <2>3, Appended
  <2> QED
    BY <1>1, <2>1, <2>4, WriteKeeps
<1>3. CASE ~(store[c.room].log = "lobby" /\ ~store[c.room].member)
  <2>1. UNCHANGED <<store, excused>>
    BY <1>3 DEF join_player
  <2>2. Onward /\ StoreOK' /\ excused' \in BOOLEAN
    BY <1>1, <2>1, Still DEF StoreOK
  <2> QED
    BY <1>1, <2>1, <2>2, TurnKeeps
<1> QED
  BY <1>2, <1>3

(* New requests have seen nothing yet. *)
LEMMA NewAskKeeps ==
    ASSUME IInv, NEW e, asks' = asks \cup {e}, UNCHANGED <<store, excused>>,
           asked' \in {asked, asked + 1},
           e \in Asks, \A t \in e.todo : t.room \in DOMAIN store, e.stage \notin Reading,
           ~Searching(e),
           IF e.op = "create" THEN /\ e.room = e.no /\ e.room = asked + 1
                                  /\ asked' = asked + 1
           ELSE e.room \in DOMAIN store
    PROVE  IInv'
<1>1. StoreOK /\ asked \in Nat /\ DOMAIN store \subseteq 0 .. asked
  BY DEF IInv, StoreOK
<1>2. StoreOK'
  <2>1. asked' \in Nat /\ 0 .. asked \subseteq 0 .. asked'
    BY <1>1
  <2> QED
    BY <1>1, <2>1 DEF StoreOK, StatusFollows
<1>3. AskOK(e)'
  BY <1>1 DEF AskOK, Reading
<1>4. \A c \in asks : AskOK(c)'
  <2>1. 1 .. asked \subseteq 1 .. asked'
    BY <1>1
  <2> QED
    BY <2>1 DEF IInv, AskOK
<1>5. OneEach'
  <2>1. \A c \in asks : c.op = "create" => c.room # asked + 1
    BY <1>1 DEF IInv, AskOK
  <2> QED
    BY <2>1 DEF IInv, OneEach
<1>6. ~excused' => /\ \A m, n \in MyRooms' : m = n
                   /\ \A c \in asks' : SearchOK(c)'
  <2>1. MyRooms' = MyRooms
    BY DEF MyRooms
  <2>2. \A c : Left(c)' = Left(c)
    BY DEF Left
  <2> QED
    BY <2>1, <2>2 DEF IInv, SearchOK, Searching
<1> QED
  BY <1>2, <1>3, <1>4, <1>5, <1>6 DEF IInv

LEMMA AskKeeps ==
    ASSUME IInv, AskToCreate \/ \E n \in DOMAIN store : AskToJoin(n) \/ AskForActive(n)
    PROVE  IInv'
<1> USE DEF Request, Asks, Folded, new, Folds, Logs, NoRoom, Reading, Searching
<1>1. StoreOK /\ asked \in Nat /\ DOMAIN store \subseteq 0 .. asked
  BY DEF IInv, StoreOK
<1>2. CASE AskToCreate
  <2>0. PICK e : e = Request("create", asked + 1)
    OBVIOUS
  <2>1. /\ e \in Asks /\ e.op = "create" /\ e.room = asked + 1 /\ e.no = asked + 1
        /\ e.todo = {} /\ e.stage = "sent"
    BY <1>1, <2>0
  <2>2. asks' = asks \cup {e} /\ UNCHANGED <<store, excused>> /\ asked' = asked + 1
    BY <1>2, <2>0 DEF AskToCreate
  <2> QED
    BY <2>1, <2>2, NewAskKeeps
<1>3. ASSUME NEW n \in DOMAIN store, AskToJoin(n) PROVE IInv'
  <2>0. PICK e : e = Request("join", n)
    OBVIOUS
  <2>1. /\ e \in Asks /\ e.op = "join" /\ e.room = n /\ e.todo = {} /\ e.stage = "sent"
    BY <1>1, <2>0
  <2>2. asks' = asks \cup {e} /\ UNCHANGED <<store, excused>> /\ asked' = asked + 1
    BY <1>3, <2>0 DEF AskToJoin
  <2> QED
    BY <2>1, <2>2, NewAskKeeps
<1>4. ASSUME NEW n \in DOMAIN store, AskForActive(n) PROVE IInv'
  <2>0. PICK e : e = [Request("active", n) EXCEPT !.stage = "looking",
                                                  !.todo = {Candidate(n)}, !.no = 0]
    OBVIOUS
  <2>1. Candidate(n) \in [room : Nat, status : Logs] /\ Candidate(n).room = n
    BY <1>1 DEF StoreOK, Rooms, Candidate
  <2>2. /\ e \in Asks /\ e.op = "active" /\ e.room = n /\ e.todo = {Candidate(n)}
        /\ e.stage = "looking"
    BY <1>1, <2>0, <2>1
  <2>3. asks' = asks \cup {e} /\ UNCHANGED <<store, excused>> /\ asked' = asked
    BY <1>4, <2>0 DEF AskForActive
  <2> QED
    BY <2>1, <2>2, <2>3, NewAskKeeps
<1> QED
  BY <1>2, <1>3, <1>4

-----------------------------------------------------------------------------
(* The theorem. *)

LEMMA InitGood == RoomStoreInit => IInv
<1> SUFFICES ASSUME RoomStoreInit PROVE IInv
  OBVIOUS
<1>1. new(FALSE) \in Rooms /\ new(FALSE).log = "lobby" /\ ~new(FALSE).member
      /\ new(FALSE).status = "lobby"
  BY DEF new, Rooms, Logs
<1>2. DOMAIN store = {0} /\ store[0] = new(FALSE) /\ store \in [DOMAIN store -> {new(FALSE)}]
  BY DEF RoomStoreInit, NoRoom
<1>3. StoreOK
  <2>1. asked \in Nat /\ excused \in BOOLEAN /\ DOMAIN store \subseteq 0 .. asked
    <3>1. asked = 0 /\ excused = FALSE
      BY DEF RoomStoreInit
    <3>2. {0} \subseteq 0 .. 0
      OBVIOUS
    <3> QED
      BY <1>2, <3>1, <3>2
  <2>2. store \in [DOMAIN store -> Rooms]
    BY <1>1, <1>2
  <2>3. StatusFollows
    BY <1>1, <1>2 DEF StatusFollows, Open
  <2> QED
    BY <2>1, <2>2, <2>3 DEF StoreOK
<1>4. MyRooms = {}
  BY <1>1, <1>2 DEF MyRooms
<1> QED
  BY <1>3, <1>4 DEF RoomStoreInit, IInv, OneEach

LEMMA NextKeeps == IInv /\ [RoomStoreNext]_storeVars => IInv'
<1> SUFFICES ASSUME IInv, [RoomStoreNext]_storeVars PROVE IInv'
  OBVIOUS
<1>1. ASSUME NEW n \in DOMAIN store,
             \/ start_game(n) \/ disband_room(n) \/ end_game(n) \/ claim_win(n)
             \/ leave_room(n) \/ step_out(n) \/ GoesStale(n)
      PROVE  IInv'
  <2>1. StoreOK' /\ Onward /\ UNCHANGED <<asks, excused, asked>>
    BY <1>1, Playing DEF IInv
  <2>2. \A c \in asks : AskOK(c)'
    BY <2>1, AskKept DEF IInv
  <2>3. MyRooms' \subseteq MyRooms
    BY <2>1 DEF Onward, MyRooms
  <2>4. ~excused => \A c \in asks : SearchOK(c)'
    BY <2>1, SearchKept DEF IInv
  <2> QED
    BY <2>1, <2>2, <2>3, <2>4 DEF IInv, OneEach
<1>2. CASE AskToCreate \/ \E n \in DOMAIN store : AskToJoin(n) \/ AskForActive(n)
  BY <1>2, AskKeeps
<1>3. ASSUME NEW c \in asks,
             \/ find_active_room_state(c) \/ _confirm_candidate(c) \/ _maybe_close_stale_room(c)
             \/ _rebuild(c) \/ Skipped(c) \/ Confirmed(c) \/ Exhausted(c)
             \/ create_room(c) \/ join_player(c)
      PROVE  IInv'
  BY <1>3, ListKeeps, ReadKeeps, CloseKeeps, RebuildKeeps, SkipKeeps, ConfirmKeeps, ExhaustKeeps,
     CreateKeeps, JoinKeeps
<1>4. CASE UNCHANGED storeVars
  <2>1. StoreOK' /\ Onward /\ UNCHANGED <<asks, excused, asked>>
    BY <1>4 DEF IInv, StoreOK, StatusFollows, Onward, storeVars
  <2>2. \A c \in asks : AskOK(c)'
    BY <2>1, AskKept DEF IInv
  <2>3. MyRooms' \subseteq MyRooms
    BY <2>1 DEF Onward, MyRooms
  <2>4. ~excused => \A c \in asks : SearchOK(c)'
    BY <2>1, SearchKept DEF IInv
  <2> QED
    BY <2>1, <2>2, <2>3, <2>4 DEF IInv, OneEach
<1> QED
  BY <1>1, <1>2, <1>3, <1>4 DEF RoomStoreNext

(* Nobody is in two open rooms, whatever columns are out of date, whichever searches
   close and correct rooms meanwhile, and however commands and requests interleave, as
   long as no race the code accepts has happened (ensure_no_other_active_room,
   find_active_room_state). *)
THEOREM OneOpenRoom == RoomStoreSpec => []OneGameAtATime
<1>1. IInv => OneGameAtATime
  <2> SUFFICES ASSUME IInv, ~excused PROVE Cardinality(MyRooms) <= 1
    BY DEF OneGameAtATime, MyRooms
  <2>1. \A m, n \in MyRooms : m = n
    BY DEF IInv
  <2>2. CASE MyRooms = {}
    BY <2>2, FS_EmptySet
  <2>3. CASE MyRooms # {}
    <3>1. PICK n \in MyRooms : TRUE
      BY <2>3
    <3>2. MyRooms = {n}
      BY <2>1, <3>1
    <3> QED
      BY <3>2, FS_Singleton
  <2> QED
    BY <2>2, <2>3
<1> QED
  BY <1>1, InitGood, NextKeeps, PTL DEF RoomStoreSpec

(* The column rooms.status may be out of date, but an open room is never taken for a
   closed one by it, nor is a member missing from the rooms that are looked at: the list
   of candidates misses no room (Candidates, append_events, Corrected). *)
THEOREM CandidatesSuffice ==
    RoomStoreSpec => [](\A n \in DOMAIN store :
                            store[n].log \in Open /\ store[n].member => n \in Candidates)
<1>1. IInv => \A n \in DOMAIN store :
                store[n].log \in Open /\ store[n].member => n \in Candidates
  BY DEF IInv, StoreOK, StatusFollows, Candidates
<1> QED
  BY <1>1, InitGood, NextKeeps, PTL DEF RoomStoreSpec

-----------------------------------------------------------------------------
(* Opening a room: the room the phone is taken to is played in cents. *)

Posts == [op : {"create", "disband"}, game : Game, valid : BOOLEAN,
          stage : {"sent", "created", "refused", "disbanded"}, unit : {1, 50}, no : Nat,
          heard : BOOLEAN]

StakesTyped ==
    /\ acts \in Nat
    /\ screen \in [busy : BOOLEAN, entered : Nat]
    /\ posted \subseteq Posts
    /\ rooms \subseteq [no : Nat, unit : {1, 50}]

Numbered ==
    /\ \A r \in posted : r.no \in 1 .. acts
    /\ \A room \in rooms : room.no \in 1 .. acts
    /\ \A r, q \in posted : r.no = q.no => r = q

\* A room is created once, and the phone is not in it before it has the answer.
Unentered ==
    \A r \in posted : r.op = "create" =>
        /\ r.no # screen.entered
        /\ r.stage = "sent" => \A room \in rooms : room.no # r.no

\* The answer gives the unit the room is played in.
Told ==
    \A r \in posted : r.op = "create" /\ r.stage = "created" =>
        /\ \A room \in rooms : room.no = r.no => room.unit = r.unit
        /\ r.game # "mahjong" => r.unit = 1

StakesInv == StakesTyped /\ Numbered /\ Unentered /\ Told /\ StakesAreCents

LEMMA NothingPosted == NewRoomInit => StakesInv
BY DEF NewRoomInit, StakesInv, StakesTyped, Numbered, Unentered, Told, StakesAreCents, Opened0

(* A request that changes into another of its number, or into nothing. *)
LEMMA OneRequestMoves ==
    ASSUME StakesInv, NEW r \in posted, NEW Next, Next \subseteq Posts,
           \A q \in Next : q.no = r.no,
           \A q, t \in Next : q = t,
           posted' = (posted \ {r}) \cup Next, acts' = acts
    PROVE  /\ posted' \subseteq Posts
           /\ \A q \in posted' : q.no \in 1 .. acts'
           /\ \A q, t \in posted' : q.no = t.no => q = t
BY DEF StakesInv, StakesTyped, Numbered

LEMMA ApiKnows == \A g \in Game : \A rules : parse_rules(g, rules) \in BOOLEAN
BY DEF parse_rules, Taidi!ValidRules, Mahjong!ValidRules

LEMMA PhoneKeepsStakes ==
    ASSUME StakesInv,
           \/ ProfileLoaded \/ BackToNew \/ Deployed
           \/ \E g \in Game : saveDefault(g) \/ \E f : Edit(g, f)
    PROVE  StakesInv'
<1>1. /\ posted' = posted /\ rooms' = rooms
      /\ acts' \in {acts, acts + 1}
      /\ screen' = screen \/ screen' = [busy |-> FALSE, entered |-> 0]
  BY DEF StakesInv, StakesTyped, ProfileLoaded, BackToNew, Deployed, saveDefault, Edit, server,
         phone, Opened0
<1>2. StakesTyped' /\ Numbered'
  <2>1. StakesTyped'
    <3>1. acts \in Nat /\ screen \in [busy : BOOLEAN, entered : Nat]
      BY DEF StakesInv, StakesTyped
    <3>2. acts' \in Nat
      BY <1>1, <3>1
    <3>3. screen' \in [busy : BOOLEAN, entered : Nat]
      <4>1. [busy |-> FALSE, entered |-> 0] \in [busy : BOOLEAN, entered : Nat]
        OBVIOUS
      <4> DEFINE Screens == [busy : BOOLEAN, entered : Nat]
                 out == [busy |-> FALSE, entered |-> 0]
      <4>2. screen \in Screens /\ out \in Screens /\ (screen' = screen \/ screen' = out)
        BY <1>1, <3>1, <4>1
      <4> HIDE DEF Screens, out
      <4>3. screen' \in Screens
        BY <4>2
      <4> QED
        BY <4>3 DEF Screens
    <3> QED
      BY <1>1, <3>2, <3>3 DEF StakesInv, StakesTyped
  <2>2. Numbered'
    BY <1>1 DEF StakesInv, StakesTyped, Numbered
  <2> QED
    BY <2>1, <2>2
<1>3. Unentered' /\ Told'
  BY <1>1 DEF StakesInv, StakesTyped, Numbered, Unentered, Told
<1>4. StakesAreCents'
  BY <1>1 DEF StakesInv, StakesTyped, Numbered, StakesAreCents
<1> QED
  BY <1>2, <1>3, <1>4 DEF StakesInv

LEMMA CreateAsked ==
    ASSUME StakesInv, NEW g \in Game, handleCreate(g)
    PROVE  StakesInv'
<1>1. PICK valid \in BOOLEAN : posted' = posted \cup {Post("create", g, valid)}
  BY ApiKnows DEF handleCreate
<1> DEFINE new1 == Post("create", g, valid)
<1>2. /\ new1 \in Posts /\ new1.no = acts + 1 /\ new1.stage = "sent" /\ new1.op = "create"
      /\ acts' = acts + 1 /\ rooms' = rooms
      /\ screen = [busy |-> FALSE, entered |-> 0] /\ screen' = [screen EXCEPT !.busy = TRUE]
  BY DEF handleCreate, Post, Posts, StakesInv, StakesTyped, Opened0
<1>3. /\ screen' \in [busy : BOOLEAN, entered : Nat] /\ screen'.entered = 0 /\ screen.entered = 0
  BY <1>2
<1> HIDE DEF new1
<1>8. posted' = posted \cup {new1}
  BY <1>1 DEF new1
<1>4. StakesTyped'
  BY <1>8, <1>2, <1>3 DEF StakesInv, StakesTyped
<1>5. Numbered'
  BY <1>8, <1>2 DEF StakesInv, StakesTyped, Numbered
<1>6. Unentered' /\ Told'
  BY <1>8, <1>2, <1>3 DEF StakesInv, StakesTyped, Numbered, Unentered, Told
<1>7. StakesAreCents'
  BY <1>2, <1>3 DEF StakesInv, StakesTyped, Numbered, StakesAreCents
<1> QED
  BY <1>4, <1>5, <1>6, <1>7 DEF StakesInv

(* Any request that is answered, carried out or given up. *)
LEMMA RequestMoves ==
    ASSUME StakesInv, NEW r \in posted,
           \/ Created(r) \/ NotCreated(r) \/ CreatedUnheard(r)
           \/ Refused(r) \/ create(r) \/ disband(r)
    PROVE  StakesInv'
<1>r. r \in Posts /\ acts \in Nat
  BY DEF StakesInv, StakesTyped
<1>1. CASE Created(r) /\ EchoesCents(r)
  <2>1. /\ screen' = [busy |-> FALSE, entered |-> r.no] /\ posted' = (posted \ {r}) \cup {}
        /\ rooms' = rooms /\ acts' = acts /\ r.op = "create" /\ r.stage = "created"
        /\ r.game = "mahjong" => r.unit = 1
    BY <1>1 DEF Created, EchoesCents
  <2>2. StakesTyped' /\ Numbered'
    BY <1>r, <2>1 DEF StakesInv, StakesTyped, Numbered, Posts
  <2>3. Unentered' /\ Told'
    BY <1>r, <2>1 DEF StakesInv, Numbered, Unentered, Told, Posts
  <2>4. StakesAreCents'
    BY <1>r, <2>1 DEF StakesInv, Told, StakesAreCents, Posts
  <2> QED
    BY <2>2, <2>3, <2>4 DEF StakesInv
<1>2. CASE Created(r) /\ ~EchoesCents(r)
  <2> DEFINE q == [r EXCEPT !.op = "disband", !.stage = "sent"]
  <2>1. /\ screen' = screen /\ posted' = (posted \ {r}) \cup {q}
        /\ rooms' = rooms /\ acts' = acts
        /\ q \in Posts /\ q.op = "disband" /\ q.no = r.no
    BY <1>2, <1>r DEF Created, Posts
  <2> HIDE DEF q
  <2>2. StakesTyped' /\ Numbered'
    <3> DEFINE Next == {q}
    <3>1. /\ Next \subseteq Posts /\ \A x \in Next : x.no = r.no
          /\ \A x, t \in Next : x = t
          /\ posted' = (posted \ {r}) \cup Next
      BY <2>1
    <3> HIDE DEF Next
    <3>2. /\ posted' \subseteq Posts
          /\ \A x \in posted' : x.no \in 1 .. acts'
          /\ \A x, t \in posted' : x.no = t.no => x = t
      BY <2>1, <3>1, OneRequestMoves
    <3> QED
      BY <2>1, <3>2 DEF StakesInv, StakesTyped, Numbered
  <2>3. Unentered' /\ Told' /\ StakesAreCents'
    BY <2>1 DEF StakesInv, Unentered, Told, StakesAreCents
  <2> QED
    BY <2>2, <2>3 DEF StakesInv
<1>3. CASE NotCreated(r) \/ CreatedUnheard(r)
  <2> DEFINE unheard == [r EXCEPT !.heard = FALSE]
  <2>1. /\ screen' = [screen EXCEPT !.busy = FALSE] /\ rooms' = rooms /\ acts' = acts
        /\ unheard \in Posts /\ unheard.op = r.op /\ unheard.no = r.no
        /\ unheard.stage = r.stage /\ unheard.unit = r.unit /\ unheard.game = r.game
    BY <1>3, <1>r DEF NotCreated, CreatedUnheard, Posts
  <2>2. PICK Next \in SUBSET {unheard} : posted' = (posted \ {r}) \cup Next
    <3>1. CASE CreatedUnheard(r)
      <4>1. posted' = (posted \ {r}) \cup {}
        BY <3>1 DEF CreatedUnheard
      <4> QED
        BY <4>1
    <3>2. CASE NotCreated(r)
      <4>1. PICK Next : Next = {q \in {unheard} : r.stage \notin {"refused", "disbanded"}}
        OBVIOUS
      <4> QED
        BY <3>2, <4>1 DEF NotCreated
    <3> QED
      BY <1>3, <3>1, <3>2
  <2>3. screen' \in [busy : BOOLEAN, entered : Nat] /\ screen'.entered = screen.entered
    BY <2>1 DEF StakesInv, StakesTyped
  <2> HIDE DEF unheard
  <2>4. StakesTyped' /\ Numbered'
    <3>1. Next \subseteq Posts /\ (\A q \in Next : q.no = r.no) /\ \A q, t \in Next : q = t
      BY <2>1, <2>2
    <3>2. /\ posted' \subseteq Posts
          /\ \A x \in posted' : x.no \in 1 .. acts'
          /\ \A x, t \in posted' : x.no = t.no => x = t
      BY <2>1, <2>2, <3>1, OneRequestMoves
    <3> QED
      BY <2>1, <2>3, <3>2 DEF StakesInv, StakesTyped, Numbered
  <2>5. Unentered'
    BY <2>1, <2>2, <2>3 DEF StakesInv, Unentered
  <2>6. Told' /\ StakesAreCents'
    BY <2>1, <2>2, <2>3 DEF StakesInv, Told, StakesAreCents
  <2> QED
    BY <2>4, <2>5, <2>6 DEF StakesInv
<1>4. CASE Refused(r) \/ disband(r)
  <2>1. PICK stage \in {"refused", "disbanded"} : Done(r, stage)
    BY <1>4 DEF Refused, disband
  <2> DEFINE q == [r EXCEPT !.stage = stage]
  <2>2. /\ screen' = screen /\ acts' = acts /\ rooms' \subseteq rooms
        /\ q \in Posts /\ q.op = r.op /\ q.no = r.no /\ q.stage = stage
    BY <1>4, <1>r DEF Refused, disband, phone, Posts
  <2>3. PICK Next \in SUBSET {q} : posted' = (posted \ {r}) \cup Next
    <3>1. PICK Next : Next = {x \in {q} : r.heard}
      OBVIOUS
    <3> QED
      BY <2>1, <3>1 DEF Done
  <2> HIDE DEF q
  <2>4. StakesTyped' /\ Numbered'
    <3>1. Next \subseteq Posts /\ (\A x \in Next : x.no = r.no) /\ \A x, t \in Next : x = t
      BY <2>2, <2>3
    <3>2. /\ posted' \subseteq Posts
          /\ \A x \in posted' : x.no \in 1 .. acts'
          /\ \A x, t \in posted' : x.no = t.no => x = t
      BY <2>2, <2>3, <3>1, OneRequestMoves
    <3> QED
      BY <2>2, <3>2 DEF StakesInv, StakesTyped, Numbered
  <2>5. Unentered' /\ Told' /\ StakesAreCents'
    BY <2>2, <2>3 DEF StakesInv, Unentered, Told, StakesAreCents
  <2> QED
    BY <2>4, <2>5 DEF StakesInv
<1>5. CASE create(r)
  <2>1. PICK unit \in {1, 50} :
            /\ unit = IF r.game = "mahjong" /\ api = "old" THEN 50 ELSE 1
            /\ rooms' = rooms \cup {[no |-> r.no, unit |-> unit]}
            /\ posted' = (posted \ {r}) \cup
                    {x \in {[r EXCEPT !.stage = "created", !.unit = unit]} : r.heard}
    <3>1. PICK unit : unit = IF r.game = "mahjong" /\ api = "old" THEN 50 ELSE 1
      OBVIOUS
    <3> QED
      BY <1>5, <3>1 DEF create, Mahjong!LEGACY_CENTS_PER_CHIP
  <2> DEFINE q == [r EXCEPT !.stage = "created", !.unit = unit]
             made == [no |-> r.no, unit |-> unit]
  <2>2. /\ screen' = screen /\ acts' = acts /\ r.op = "create" /\ r.stage = "sent"
        /\ q \in Posts /\ q.op = "create" /\ q.no = r.no /\ q.stage = "created"
        /\ q.unit = unit /\ q.game = r.game
        /\ made \in [no : Nat, unit : {1, 50}] /\ made.no = r.no /\ made.unit = unit
    BY <1>5, <1>r DEF create, phone, Posts
  <2>3. PICK Next \in SUBSET {q} : posted' = (posted \ {r}) \cup Next
    <3>1. PICK Next : Next = {x \in {q} : r.heard}
      OBVIOUS
    <3> QED
      BY <2>1, <3>1
  <2>4. rooms' = rooms \cup {made}
    BY <2>1
  <2> HIDE DEF q, made
  <2>5. StakesTyped' /\ Numbered'
    <3>1. Next \subseteq Posts /\ (\A x \in Next : x.no = r.no) /\ \A x, t \in Next : x = t
      BY <2>2, <2>3
    <3>2. /\ posted' \subseteq Posts
          /\ \A x \in posted' : x.no \in 1 .. acts'
          /\ \A x, t \in posted' : x.no = t.no => x = t
      BY <2>2, <2>3, <3>1, OneRequestMoves
    <3> QED
      BY <2>2, <2>4, <3>2 DEF StakesInv, StakesTyped, Numbered
  <2>6. Unentered'
    BY <2>2, <2>3, <2>4 DEF StakesInv, Numbered, Unentered
  <2>7. Told'
    BY <2>1, <2>2, <2>3, <2>4 DEF StakesInv, Numbered, Unentered, Told
  <2>8. StakesAreCents'
    BY <2>2, <2>4 DEF StakesInv, Unentered, StakesAreCents
  <2> QED
    BY <2>5, <2>6, <2>7, <2>8 DEF StakesInv
<1> QED
  BY <1>1, <1>2, <1>3, <1>4, <1>5

(* The phone is never taken into a room whose amounts are read as chips, whichever API
   is deployed while the request is under way, and however answers are lost and requests
   repeated (handleCreate). *)
THEOREM PhonesPlayInCents == NewRoomSpec => []StakesAreCents
<1>1. ASSUME StakesInv, [NewRoomNext]_newRoomVars PROVE StakesInv'
  <2>1. CASE UNCHANGED newRoomVars
    BY <1>1, <2>1
    DEF newRoomVars, StakesInv, StakesTyped, Numbered, Unentered, Told, StakesAreCents
  <2>2. CASE setT \/ setM \/ setTaiRow \/ setMaxTai \/ Presets
    <3>1. \E g \in Game : \E f : Edit(g, f)
      BY <2>2 DEF setT, setM, setTaiRow, setMaxTai, Presets, Game
    <3> QED
      BY <1>1, <3>1, PhoneKeepsStakes
  <2>3. CASE \E g \in Game : saveDefault(g) \/ handleCreate(g)
    BY <1>1, <2>3, PhoneKeepsStakes, CreateAsked
  <2>4. CASE \E r \in posted :
                \/ Created(r) \/ NotCreated(r) \/ CreatedUnheard(r)
                \/ Refused(r) \/ create(r) \/ disband(r)
    BY <1>1, <2>4, RequestMoves
  <2>5. CASE ProfileLoaded \/ BackToNew \/ Deployed
    BY <1>1, <2>5, PhoneKeepsStakes
  <2> QED
    BY <1>1, <2>1, <2>2, <2>3, <2>4, <2>5 DEF NewRoomNext
<1>2. StakesInv => StakesAreCents
  BY DEF StakesInv
<1> QED
  BY <1>1, <1>2, NothingPosted, PTL DEF NewRoomSpec

-----------------------------------------------------------------------------
(* Opening a room: the form and the API take the same rules. *)

Payoffs == [hu : Int, zimo : Int]

Tables == UNION {[D -> Payoffs] : D \in SUBSET Nat}

MahjongForms ==
    {f \in [amounts : [Amount -> Int], maxTai : 1 .. MAX_TAI_LIMIT, table : Tables] :
        1 .. f.maxTai \subseteq DOMAIN f.table}

GoodForm(g, f) == IF g = "taidi" THEN f \in Taidi!RuleShape ELSE f \in MahjongForms

FormOf(g, rules) == IF g = "taidi" THEN taidiForm(rules) ELSE mahjongForm(rules)

\* Rules the form takes for themselves.
GoodRules(g, rules) ==
    /\ IF g = "taidi" THEN rules \in Taidi!RuleShape
       ELSE /\ rules.max_tai \in 1 .. MAX_TAI_LIMIT
            /\ \A tai \in DOMAIN rules.tai_table : rules.tai_table[tai] \in Payoffs
    /\ check(g, FormOf(g, rules)) = {rules}

FormsInv ==
    /\ saved = [g \in Game |-> saved[g]]
    /\ edit = [g \in Game |-> edit[g]]
    /\ \A g \in Game :
            /\ \A f \in edit[g] : GoodForm(g, f)
            /\ \A rules \in saved[g] : GoodRules(g, rules)
            /\ \A rules \in profile[g] : GoodRules(g, rules)

LEMMA TableIs ==
    ASSUME NEW t \in Tables
    PROVE  t \in [DOMAIN t -> Payoffs] /\ DOMAIN t \subseteq Nat
<1>1. PICK D \in SUBSET Nat : t \in [D -> Payoffs]
  BY DEF Tables
<1> QED
  BY <1>1

LEMMA IsTable ==
    ASSUME NEW D \in SUBSET Nat, NEW t \in [D -> Payoffs]
    PROVE  t \in Tables
BY DEF Tables

(* What the Taidi form makes of its fields is taken by the API, and by the form. *)
LEMMA TaidiFormsFit ==
    ASSUME NEW f \in Taidi!RuleShape, NEW rules \in checkTaidi(f)
    PROVE  GoodRules("taidi", rules) /\ Taidi!ValidRules(rules)
<1>1. PICK d, t, h :
        /\ d = Hidden(f.multipliers_enabled, f.double_threshold, DEFAULT_RULES.double_threshold)
        /\ t = Hidden(f.multipliers_enabled, f.triple_threshold, DEFAULT_RULES.triple_threshold)
        /\ h = Hidden(f.special_hands_enabled, f.special_hand_cards,
                      DEFAULT_RULES.special_hand_cards)
  OBVIOUS
<1>2. /\ d = IF f.multipliers_enabled THEN f.double_threshold ELSE 10
      /\ t = IF f.multipliers_enabled THEN f.triple_threshold ELSE 13
      /\ h = IF f.special_hands_enabled THEN f.special_hand_cards ELSE 5
  BY <1>1 DEF Hidden, DEFAULT_RULES
<1>3. rules =
        [card_value_cents |-> f.card_value_cents, base_cards |-> f.base_cards,
         multipliers_enabled |-> f.multipliers_enabled, double_threshold |-> d,
         triple_threshold |-> t, difference_payouts |-> f.difference_payouts,
         special_hands_enabled |-> f.special_hands_enabled, special_hand_cards |-> h]
  BY <1>1 DEF checkTaidi
<1>4. TaidiFieldsRight(f)
  BY DEF checkTaidi
<1>5. d \in Int /\ t \in Int /\ h \in Int
  BY <1>2 DEF Taidi!RuleShape
<1>6. /\ rules \in Taidi!RuleShape
      /\ rules.card_value_cents = f.card_value_cents /\ rules.base_cards = f.base_cards
      /\ rules.multipliers_enabled = f.multipliers_enabled
      /\ rules.special_hands_enabled = f.special_hands_enabled
      /\ rules.double_threshold = d /\ rules.triple_threshold = t
      /\ rules.special_hand_cards = h
  BY <1>3, <1>5 DEF Taidi!RuleShape
<1>7. TaidiFieldsRight(rules) /\ Taidi!ValidRules(rules)
  <2>1. /\ rules.card_value_cents \in 0 .. 10000 /\ rules.base_cards \in 0 .. 52
        /\ h \in 0 .. 52
    BY <1>2, <1>4, <1>6, SMTT(30) DEF TaidiFieldsRight, dollarsToCents, wholeNumber
  <2>2. /\ d \in 1 .. 52 /\ t \in 1 .. 52
        /\ f.multipliers_enabled => t >= d
    BY <1>2, <1>4, SMTT(30) DEF TaidiFieldsRight, wholeNumber
  <2>3. TaidiFieldsRight(rules)
    BY <1>6, <2>1, <2>2, SMTT(30) DEF TaidiFieldsRight, dollarsToCents, wholeNumber
  <2>4. Taidi!ValidRules(rules)
    BY <1>6, <2>1, <2>2, SMTT(30)
    DEF Taidi!ValidRules, Taidi!MAX_CARD_VALUE_CENTS, Taidi!MAX_CARDS
  <2> QED
    BY <2>3, <2>4
<1>8. rules =
        [card_value_cents |-> rules.card_value_cents, base_cards |-> rules.base_cards,
         multipliers_enabled |-> rules.multipliers_enabled, double_threshold |-> d,
         triple_threshold |-> t, difference_payouts |-> rules.difference_payouts,
         special_hands_enabled |-> rules.special_hands_enabled, special_hand_cards |-> h]
  BY <1>3
<1>9. /\ d = Hidden(rules.multipliers_enabled, rules.double_threshold,
                    DEFAULT_RULES.double_threshold)
      /\ t = Hidden(rules.multipliers_enabled, rules.triple_threshold,
                    DEFAULT_RULES.triple_threshold)
      /\ h = Hidden(rules.special_hands_enabled, rules.special_hand_cards,
                    DEFAULT_RULES.special_hand_cards)
  BY <1>2, <1>6 DEF Hidden, DEFAULT_RULES
<1>10. checkTaidi(taidiForm(rules)) = {rules}
  BY <1>7, <1>8, <1>9, Zenon DEF checkTaidi, taidiForm
<1> QED
  BY <1>6, <1>7, <1>10 DEF GoodRules, check, FormOf

(* What the Mahjong form makes of its fields is taken by the API, and by the form. *)
LEMMA MahjongFormsFit ==
    ASSUME NEW f \in MahjongForms, NEW rules \in checkMahjong(f)
    PROVE  GoodRules("mahjong", rules) /\ Mahjong!ValidRules(rules)
<1> DEFINE sent == [tai \in 1 .. f.maxTai |-> f.table[tai]]
<1>1. /\ MahjongFieldsRight(f)
      /\ rules = [cents_per_unit |-> 1, max_tai |-> f.maxTai,
                  yao_amount |-> f.amounts["yao_amount"],
                  gang_amount |-> f.amounts["gang_amount"],
                  zimo_bonus_amount |-> f.amounts["zimo_bonus_amount"],
                  klppdd_amount |-> f.amounts["klppdd_amount"], tai_table |-> sent]
  BY DEF checkMahjong
<1>2. /\ f.maxTai \in 1 .. 20 /\ f.table \in Tables /\ 1 .. f.maxTai \subseteq DOMAIN f.table
      /\ f.amounts \in [Amount -> Int]
  BY DEF MahjongForms, MAX_TAI_LIMIT
<1>3. MAX_TAI_CENTS = Mahjong!MAX_TAI_PAYOUT /\ MAX_ACTION_CENTS = Mahjong!MAX_ACTION_AMOUNT
  BY DEF MAX_TAI_CENTS, MAX_ACTION_CENTS, Mahjong!MAX_TAI_PAYOUT, Mahjong!MAX_ACTION_AMOUNT
<1>4. \A tai \in 1 .. f.maxTai :
        /\ sent[tai] = f.table[tai]
        /\ sent[tai].hu \in 0 .. MAX_TAI_CENTS /\ sent[tai].zimo \in 0 .. MAX_TAI_CENTS
  BY <1>1 DEF MahjongFieldsRight, dollarsToCents
<1>5. \A tai \in 1 .. f.maxTai : sent[tai] \in Payoffs
  BY <1>2, <1>4, TableIs
<1>6. \A a \in Amount : f.amounts[a] \in 0 .. MAX_ACTION_CENTS
  BY <1>1 DEF MahjongFieldsRight, dollarsToCents
<1>7. /\ rules.cents_per_unit = 1 /\ rules.max_tai = f.maxTai /\ rules.tai_table = sent
      /\ rules.yao_amount = f.amounts["yao_amount"]
      /\ rules.gang_amount = f.amounts["gang_amount"]
      /\ rules.zimo_bonus_amount = f.amounts["zimo_bonus_amount"]
      /\ rules.klppdd_amount = f.amounts["klppdd_amount"]
  BY <1>1
<1>8. DOMAIN sent = 1 .. f.maxTai /\ sent = [tai \in 1 .. f.maxTai |-> sent[tai]]
  OBVIOUS
<1> HIDE DEF sent
<1>9. Mahjong!ValidRules(rules)
  <2>1. \A amount \in {rules.yao_amount, rules.gang_amount,
                       rules.zimo_bonus_amount, rules.klppdd_amount} :
            amount \in 0 .. Mahjong!MAX_ACTION_AMOUNT
    BY <1>3, <1>6, <1>7 DEF Amount
  <2>2. rules.cents_per_unit \in 1 .. Mahjong!LEGACY_CENTS_PER_CHIP
    BY <1>7 DEF Mahjong!LEGACY_CENTS_PER_CHIP
  <2>3. rules.max_tai \in 1 .. Mahjong!MAX_TAI /\ 1 .. rules.max_tai \subseteq 1 .. Mahjong!MAX_TAI
    BY <1>2, <1>7 DEF Mahjong!MAX_TAI
  <2>4. DOMAIN rules.tai_table = 1 .. rules.max_tai
    BY <1>7, <1>8
  <2>5. \A tai \in DOMAIN rules.tai_table :
            /\ rules.tai_table[tai].hu \in 0 .. Mahjong!MAX_TAI_PAYOUT
            /\ rules.tai_table[tai].zimo \in 0 .. Mahjong!MAX_TAI_PAYOUT
    BY <1>3, <1>4, <1>7, <1>8
  <2> QED
    BY <2>1, <2>2, <2>3, <2>4, <2>5 DEF Mahjong!ValidRules
<1>10. PICK form : form = mahjongForm(rules)
  OBVIOUS
<1>11. /\ form.maxTai = f.maxTai /\ form.table = sent
       /\ \A a \in Amount : form.amounts[a] = f.amounts[a]
  BY <1>7, <1>10 DEF mahjongForm, Amount
<1>12. MahjongFieldsRight(form)
  BY <1>4, <1>6, <1>8, <1>11 DEF MahjongFieldsRight, dollarsToCents
<1>13. [tai \in 1 .. form.maxTai |-> form.table[tai]] = sent
  BY <1>8, <1>11
<1>14. checkMahjong(form) = {rules}
  BY <1>1, <1>11, <1>12, <1>13 DEF checkMahjong, Amount, sent
<1>15. GoodRules("mahjong", rules)
  <2>1. rules.max_tai \in 1 .. MAX_TAI_LIMIT
    BY <1>2, <1>7 DEF MAX_TAI_LIMIT
  <2>2. \A tai \in DOMAIN rules.tai_table : rules.tai_table[tai] \in Payoffs
    BY <1>5, <1>7, <1>8
  <2>3. check("mahjong", FormOf("mahjong", rules)) = {rules}
    BY <1>10, <1>14 DEF check, FormOf
  <2> QED
    BY <2>1, <2>2, <2>3 DEF GoodRules
<1> QED
  BY <1>9, <1>15

(* Rules the form takes for themselves can be shown in it. *)
LEMMA RulesCanBeShown ==
    ASSUME NEW g \in Game, NEW rules, GoodRules(g, rules)
    PROVE  GoodForm(g, FormOf(g, rules))
<1>1. CASE g = "taidi"
  BY <1>1 DEF GoodRules, GoodForm, FormOf, taidiForm
<1>2. CASE g = "mahjong"
  <2>1. PICK f : f = mahjongForm(rules)
    OBVIOUS
  <2>2. f = [amounts |-> [a \in Amount |-> rules[a]], maxTai |-> rules.max_tai,
             table |-> rules.tai_table]
    BY <2>1 DEF mahjongForm
  <2>3. checkMahjong(f) = {rules}
    BY <1>2, <2>1 DEF GoodRules, check, FormOf
  <2>4. MahjongFieldsRight(f)
    BY <2>3 DEF checkMahjong
  <2>5. rules.tai_table = [tai \in 1 .. f.maxTai |-> f.table[tai]]
    <3>1. rules \in checkMahjong(f)
      BY <2>3
    <3>2. rules =
            [cents_per_unit |-> 1, max_tai |-> f.maxTai,
             yao_amount |-> f.amounts["yao_amount"], gang_amount |-> f.amounts["gang_amount"],
             zimo_bonus_amount |-> f.amounts["zimo_bonus_amount"],
             klppdd_amount |-> f.amounts["klppdd_amount"],
             tai_table |-> [tai \in 1 .. f.maxTai |-> f.table[tai]]]
      BY <2>4, <3>1 DEF checkMahjong
    <3>3. PICK t : t = [tai \in 1 .. f.maxTai |-> f.table[tai]]
      OBVIOUS
    <3> QED
      BY <3>2, <3>3
  <2>6. f.maxTai \in 1 .. MAX_TAI_LIMIT
    BY <1>2, <2>2 DEF GoodRules
  <2>7. /\ DOMAIN rules.tai_table = 1 .. f.maxTai
        /\ rules.tai_table \in [1 .. f.maxTai -> Payoffs]
    <3>1. PICK t : t = rules.tai_table
      OBVIOUS
    <3>2. t = [tai \in 1 .. f.maxTai |-> f.table[tai]]
      BY <2>5, <3>1
    <3>3. DOMAIN t = 1 .. f.maxTai
      BY <3>2
    <3>4. \A tai \in 1 .. f.maxTai : t[tai] \in Payoffs
      BY <1>2, <3>1, <3>3 DEF GoodRules
    <3> QED
      BY <3>1, <3>2, <3>3, <3>4
  <2>8. f.table \in Tables
    <3>1. 1 .. f.maxTai \in SUBSET Nat
      BY <2>6 DEF MAX_TAI_LIMIT
    <3> QED
      BY <2>2, <2>7, <3>1, IsTable
  <2>9. f.amounts \in [Amount -> Int]
    <3>1. \A a \in Amount : f.amounts[a] \in 0 .. MAX_ACTION_CENTS
      BY <2>4 DEF MahjongFieldsRight, dollarsToCents
    <3>2. \A a \in Amount : f.amounts[a] \in Int
      BY <3>1
    <3> QED
      BY <2>2, <3>2
  <2>10. f \in MahjongForms
    BY <2>2, <2>6, <2>7, <2>8, <2>9 DEF MahjongForms
  <2> QED
    BY <1>2, <2>1, <2>10 DEF GoodForm, FormOf
<1> QED
  BY <1>1, <1>2 DEF Game

LEMMA StandardRulesFit ==
    /\ DEFAULT_RULES \in Taidi!RuleShape
    /\ mahjongForm(DEFAULT_MAHJONG_RULES) \in MahjongForms
    /\ mahjongForm(HIGH_STAKES_MAHJONG_RULES) \in MahjongForms
<1>1. DEFAULT_RULES \in Taidi!RuleShape
  BY DEF DEFAULT_RULES, Taidi!RuleShape
<1>2. BAN_3_6_TABLE \in Tables /\ DOMAIN BAN_3_6_TABLE = 1 .. 5
  <2>1. BAN_3_6_TABLE \in [1 .. 5 -> Payoffs]
    BY DEF BAN_3_6_TABLE, Payout, Payoffs
  <2> QED
    BY <2>1, IsTable
<1>3. BAN_5_1_TABLE \in Tables /\ DOMAIN BAN_5_1_TABLE = 1 .. 7
  <2>1. BAN_5_1_TABLE \in [1 .. 7 -> Payoffs]
    BY DEF BAN_5_1_TABLE, Payout, Payoffs
  <2> QED
    BY <2>1, IsTable
<1>4. mahjongForm(DEFAULT_MAHJONG_RULES) \in MahjongForms
  BY <1>2 DEF mahjongForm, DEFAULT_MAHJONG_RULES, MahjongForms, Amount, MAX_TAI_LIMIT
<1>5. mahjongForm(HIGH_STAKES_MAHJONG_RULES) \in MahjongForms
  BY <1>3 DEF mahjongForm, HIGH_STAKES_MAHJONG_RULES, MahjongForms, Amount, MAX_TAI_LIMIT
<1> QED
  BY <1>1, <1>4, <1>5

LEMMA ShownGood ==
    ASSUME FormsInv, NEW g \in Game
    PROVE  GoodForm(g, Shown(g))
<1> DEFINE standard == IF g = "taidi" THEN DEFAULT_RULES ELSE DEFAULT_MAHJONG_RULES
           candidates == IF profile[g] = {} THEN {standard} ELSE profile[g]
           rules == CHOOSE r \in candidates : TRUE
<1>1. CASE edit[g] # {}
  <2>1. Shown(g) \in edit[g]
    BY <1>1 DEF Shown
  <2> QED
    BY <2>1 DEF FormsInv
<1>2. CASE edit[g] = {}
  <2>1. Shown(g) = FormOf(g, rules)
    BY <1>2 DEF Shown, FormOf
  <2>2. rules \in candidates
    OBVIOUS
  <2>3. CASE profile[g] = {}
    BY <2>1, <2>2, <2>3, StandardRulesFit DEF GoodForm, FormOf, taidiForm
  <2>4. CASE profile[g] # {}
    BY <2>1, <2>2, <2>4, RulesCanBeShown DEF FormsInv
  <2> QED
    BY <2>3, <2>4
<1> QED
  BY <1>1, <1>2

(* The form makes rules of a good form, and they are good rules. *)
LEMMA FormsFit ==
    ASSUME NEW g \in Game, NEW f, GoodForm(g, f), NEW rules \in check(g, f)
    PROVE  GoodRules(g, rules) /\ parse_rules(g, rules)
BY TaidiFormsFit, MahjongFormsFit DEF GoodForm, check, parse_rules, Game

(* No edit of a good form makes it anything else. *)
LEMMA TaidiEdits ==
    ASSUME FormsInv, setT
    PROVE  \E f : GoodForm("taidi", f) /\ Edit("taidi", f)
<1>1. PICK f : f = Shown("taidi")
  OBVIOUS
<1>2. f \in Taidi!RuleShape
  BY <1>1, ShownGood DEF GoodForm, Game
<1>3. CASE \E key \in TaidiNumbers(f), raw \in Texts["taidi"] :
              Edit("taidi", [f EXCEPT ![key] = raw])
  <2>1. PICK key \in TaidiNumbers(f), raw \in Texts["taidi"] :
              Edit("taidi", [f EXCEPT ![key] = raw])
    BY <1>3
  <2>2. raw \in Int
    BY NewRoomAssumption DEF Game, NotANumber
  <2>3. key \in {"card_value_cents", "base_cards", "double_threshold", "triple_threshold",
                 "special_hand_cards"}
    BY DEF TaidiNumbers
  <2>4. [f EXCEPT ![key] = raw] \in Taidi!RuleShape
    BY <1>2, <2>2, <2>3 DEF Taidi!RuleShape
  <2> QED
    BY <2>1, <2>4 DEF GoodForm
<1>4. CASE \E key \in Toggles : Edit("taidi", [f EXCEPT ![key] = ~@])
  <2>1. PICK key \in Toggles : Edit("taidi", [f EXCEPT ![key] = ~@])
    BY <1>4
  <2>2. [f EXCEPT ![key] = ~@] \in Taidi!RuleShape
    BY <1>2 DEF Taidi!RuleShape, Toggles
  <2> QED
    BY <2>1, <2>2 DEF GoodForm
<1> QED
  BY <1>1, <1>3, <1>4 DEF setT

LEMMA MahjongEdits ==
    ASSUME FormsInv, setM \/ setTaiRow \/ setMaxTai \/ Presets
    PROVE  \E f : GoodForm("mahjong", f) /\ Edit("mahjong", f)
<1>1. PICK f : f = Shown("mahjong")
  OBVIOUS
<1>2. f \in MahjongForms
  BY <1>1, ShownGood DEF GoodForm, Game
<1>3. /\ f.maxTai \in 1 .. MAX_TAI_LIMIT /\ 1 .. f.maxTai \subseteq DOMAIN f.table
      /\ f.table \in Tables /\ f.amounts \in [Amount -> Int]
      /\ f.table \in [DOMAIN f.table -> Payoffs] /\ DOMAIN f.table \in SUBSET Nat
  BY <1>2, TableIs DEF MahjongForms
<1>4. \A raw \in Texts["mahjong"] : raw \in Int
  BY NewRoomAssumption DEF Game, NotANumber
<1>5. CASE setM
  <2>1. PICK a \in Amount, raw \in Texts["mahjong"] :
            Edit("mahjong", [f EXCEPT !.amounts[a] = raw])
    BY <1>1, <1>5 DEF setM
  <2>2. PICK e : e = [f EXCEPT !.amounts[a] = raw]
    OBVIOUS
  <2>3. e \in MahjongForms
    BY <1>2, <1>4, <2>2 DEF MahjongForms
  <2> QED
    BY <2>1, <2>2, <2>3 DEF GoodForm
<1>6. CASE setTaiRow
  <2>1. PICK tai \in {1, f.maxTai}, raw \in Texts["mahjong"] :
            \/ Edit("mahjong", [f EXCEPT !.table[tai].hu = raw])
            \/ Edit("mahjong", [f EXCEPT !.table[tai].zimo = raw])
    BY <1>1, <1>6 DEF setTaiRow
  <2>2. tai \in DOMAIN f.table
    BY <1>3 DEF MAX_TAI_LIMIT
  <2>3. ASSUME NEW row \in Payoffs
        PROVE  [f EXCEPT !.table[tai] = row] \in MahjongForms
    <3>1. PICK t : t = [f.table EXCEPT ![tai] = row]
      OBVIOUS
    <3>2. t \in [DOMAIN f.table -> Payoffs] /\ DOMAIN t = DOMAIN f.table
      BY <1>3, <3>1
    <3>3. t \in Tables
      BY <1>3, <3>2, IsTable
    <3>4. [f EXCEPT !.table[tai] = row] = [f EXCEPT !.table = t]
      BY <3>1
    <3> QED
      BY <1>2, <1>3, <3>2, <3>3, <3>4 DEF MahjongForms
  <2>4. [f.table[tai] EXCEPT !.hu = raw] \in Payoffs /\ [f.table[tai] EXCEPT !.zimo = raw] \in Payoffs
    BY <1>3, <1>4, <2>2 DEF Payoffs
  <2>5. /\ [f EXCEPT !.table[tai].hu = raw] = [f EXCEPT !.table[tai] = [f.table[tai] EXCEPT !.hu = raw]]
        /\ [f EXCEPT !.table[tai].zimo = raw]
                = [f EXCEPT !.table[tai] = [f.table[tai] EXCEPT !.zimo = raw]]
    OBVIOUS
  <2> QED
    BY <2>1, <2>3, <2>4, <2>5 DEF GoodForm
<1>7. CASE setMaxTai
  <2> DEFINE t(max) == [tai \in DOMAIN f.table \cup 1 .. max |->
                           IF tai \in DOMAIN f.table THEN f.table[tai] ELSE Payout(0, 0)]
  <2>1. PICK max \in {f.maxTai - 1, f.maxTai + 1} \cap (1 .. MAX_TAI_LIMIT) :
            Edit("mahjong", [f EXCEPT !.maxTai = max, !.table = t(max)])
    BY <1>1, <1>7 DEF setMaxTai
  <2>2. PICK s : s = t(max)
    OBVIOUS
  <2>3. DOMAIN s = DOMAIN f.table \cup 1 .. max /\ DOMAIN s \in SUBSET Nat
    BY <1>3, <2>2 DEF MAX_TAI_LIMIT
  <2>4. Payout(0, 0) \in Payoffs
    BY DEF Payout, Payoffs
  <2>5. s \in [DOMAIN s -> Payoffs]
    BY <1>3, <2>2, <2>3, <2>4
  <2>6. s \in Tables
    BY <2>3, <2>5, IsTable
  <2>7. PICK e : e = [f EXCEPT !.maxTai = max, !.table = s]
    OBVIOUS
  <2>8. e \in MahjongForms
    BY <1>2, <2>3, <2>6, <2>7 DEF MahjongForms
  <2> QED
    BY <2>1, <2>2, <2>7, <2>8 DEF GoodForm
<1>8. CASE Presets
  <2>1. PICK rules \in {DEFAULT_MAHJONG_RULES, HIGH_STAKES_MAHJONG_RULES} \cup profile["mahjong"] :
            Edit("mahjong", mahjongForm(rules))
    BY <1>8 DEF Presets
  <2>2. GoodForm("mahjong", mahjongForm(rules))
    BY StandardRulesFit, RulesCanBeShown DEF GoodForm, FormOf, FormsInv, Game
  <2> QED
    BY <2>1, <2>2
<1> QED
  BY <1>5, <1>6, <1>7, <1>8

(* The API takes the rules of every form that lets Create be tapped, whatever its hidden
   fields hold and however it came about, and the form takes every saved default for the
   same rules (checkTaidi, checkMahjong, saveDefault, GameRules, MahjongRules). *)
THEOREM FormsAndApiAgree == NewRoomSpec => []RulesAgree
<1>1. NewRoomInit => FormsInv
  <2> SUFFICES ASSUME NewRoomInit PROVE FormsInv
    OBVIOUS
  <2>1. /\ saved \in Stored /\ edit = [g \in Game |-> {}] /\ profile = [g \in Game |-> {}]
    BY DEF NewRoomInit, Unsaved
  <2>2. saved = [g \in Game |-> saved[g]]
    BY <2>1, StoredAssumption
  <2>3. \A rules \in saved["taidi"] : GoodRules("taidi", rules)
    BY <2>1, StoredAssumption DEF GoodRules, check, FormOf
  <2>4. \A rules \in saved["mahjong"] : GoodRules("mahjong", rules)
    BY <2>1, StoredAssumption DEF GoodRules, check, FormOf, Payoffs
  <2> QED
    BY <2>1, <2>2, <2>3, <2>4 DEF FormsInv, Game
<1>2. ASSUME FormsInv, [NewRoomNext]_newRoomVars PROVE FormsInv'
  <2>1. CASE UNCHANGED <<saved, profile, edit>>
    BY <1>2, <2>1 DEF FormsInv, GoodRules
  <2>2. CASE setT \/ setM \/ setTaiRow \/ setMaxTai \/ Presets
    <3>0. PICK g \in Game : \E f : GoodForm(g, f) /\ Edit(g, f)
      BY <1>2, <2>2, TaidiEdits, MahjongEdits DEF Game
    <3>1. PICK f : GoodForm(g, f) /\ Edit(g, f)
      BY <3>0
    <3>2. /\ edit' = [edit EXCEPT ![g] = {f}] /\ saved' = saved /\ profile' = profile
      BY <3>1 DEF Edit
    <3>3. edit' = [x \in Game |-> IF x = g THEN {f} ELSE edit[x]]
      BY <1>2, <3>2 DEF FormsInv
    <3> QED
      BY <1>2, <3>1, <3>2, <3>3 DEF FormsInv
  <2>3. CASE ProfileLoaded
    BY <1>2, <2>3 DEF FormsInv, ProfileLoaded
  <2>4. CASE \E g \in Game : saveDefault(g)
    <3>1. PICK g \in Game : saveDefault(g)
      BY <2>4
    <3>2. /\ saved' = [saved EXCEPT ![g] = shownRules(g)] /\ profile' = saved' /\ edit' = edit
      BY <3>1 DEF saveDefault
    <3>3. PICK new1 : new1 = shownRules(g)
      OBVIOUS
    <3>4. \A rules \in new1 : GoodRules(g, rules)
      BY <1>2, <3>3, ShownGood, FormsFit DEF shownRules
    <3>5. saved' = [x \in Game |-> IF x = g THEN new1 ELSE saved[x]]
      BY <1>2, <3>2, <3>3 DEF FormsInv
    <3> QED
      BY <1>2, <3>2, <3>4, <3>5 DEF FormsInv
  <2>5. CASE \E g \in Game : handleCreate(g)
    BY <2>1, <2>5 DEF handleCreate
  <2>6. CASE BackToNew \/ Deployed
    BY <2>1, <2>6 DEF BackToNew, Deployed, phone
  <2>7. CASE \E r \in posted :
                \/ NotCreated(r) \/ CreatedUnheard(r)
                \/ Refused(r) \/ create(r) \/ disband(r)
    BY <2>1, <2>7 DEF NotCreated, CreatedUnheard, Refused, create, disband, phone
  <2>8. CASE \E r \in posted : Created(r)
    <3>1. /\ edit' = edit \/ edit' = [g \in Game |-> {}]
          /\ saved' = saved /\ profile' = profile
      BY <2>8 DEF Created, Unsaved
    <3> QED
      BY <1>2, <3>1 DEF FormsInv
  <2>9. CASE UNCHANGED newRoomVars
    BY <2>1, <2>9 DEF newRoomVars
  <2> QED
    BY <1>2, <2>2, <2>3, <2>4, <2>5, <2>6, <2>7, <2>8, <2>9 DEF NewRoomNext
<1>3. FormsInv => RulesAgree
  <2> SUFFICES ASSUME FormsInv, NEW g \in Game
               PROVE  /\ \A f \in edit[g] : \A rules \in check(g, f) : parse_rules(g, rules)
                      /\ \A rules \in saved[g] :
                            /\ parse_rules(g, rules)
                            /\ check(g, FormOf(g, rules)) = {rules}
    BY DEF RulesAgree, FormOf
  <2>1. \A f \in edit[g] : \A rules \in check(g, f) : parse_rules(g, rules)
    BY FormsFit DEF FormsInv
  <2>2. ASSUME NEW rules \in saved[g]
        PROVE  parse_rules(g, rules) /\ check(g, FormOf(g, rules)) = {rules}
    <3>1. GoodRules(g, rules)
      BY DEF FormsInv
    <3>2. rules \in check(g, FormOf(g, rules))
      BY <3>1 DEF GoodRules
    <3> QED
      BY <3>1, <3>2, RulesCanBeShown, FormsFit DEF GoodRules
  <2> QED
    BY <2>1, <2>2
<1> QED
  BY <1>1, <1>2, <1>3, PTL DEF NewRoomSpec
=============================================================================
