------------------------------- MODULE RoomStore -------------------------------
(***************************************************************************)
(* The one-active-room rule over the stored rooms: api/app/events_store.py *)
(* and the create and join endpoints.                                      *)
(*                                                                         *)
(* Whether a room is open and who is in it is read from its log.  The      *)
(* column rooms.status is written along with the log and only says which   *)
(* rooms are worth reading; it is put right, and a room nobody has touched *)
(* for long is closed, where a search for a player's room comes across it. *)
(* One person is followed.  A search is a sequence of statements, and the  *)
(* games, other searches and other people's closings go on in between.     *)
(***************************************************************************)
EXTENDS Integers, FiniteSets

CONSTANTS
    MaxAsks,     \* bound: the person's requests
    MaxEvents    \* bound: the commands that go through in all rooms

ASSUME RoomStoreAssumption == MaxAsks \in Nat /\ MaxEvents \in Nat

VARIABLES
    store,     \* the rooms
    asks,      \* the requests under way
    excused,   \* a race the code accepts has happened, or a room could not be read (history)
    events,    \* how many commands went through
    asked      \* how many requests the person made; also the numbers of the person's own rooms

storeVars == <<store, asks, excused, events, asked>>

-----------------------------------------------------------------------------
(* The log of a room, its row in rooms, and room_participants. *)

Open == {"lobby", "in_progress"}

\* `listed': the person has a row in room_participants, or hosts the room.
new(hosted) ==
    [log |-> "lobby", counting |-> FALSE, seq |-> 0, idle |-> FALSE, status |-> "lobby",
     hosted |-> hosted, member |-> hosted, listed |-> hosted]

\* What a search keeps of a log it has read.
Folded(room) == [log |-> room.log, seq |-> room.seq, member |-> room.member]

NoRoom == 0

\* Number 0 is a room of somebody else.
RoomStoreInit ==
    /\ store = [n \in {NoRoom} |-> new(FALSE)]
    /\ asks = {} /\ excused = FALSE /\ events = 0 /\ asked = 0

\* The events that lead to `after', and the status column with them.
append_events(n, after) ==
    store' = [store EXCEPT ![n] =
                [after EXCEPT !.seq = store[n].seq + 1, !.idle = FALSE,
                              !.status = IF after.log # store[n].log THEN after.log ELSE @]]

-----------------------------------------------------------------------------
(* What goes on in the rooms: the commands of the two machines. *)

Played(n, after) ==
    /\ events < MaxEvents
    /\ events' = events + 1
    /\ append_events(n, after)
    /\ UNCHANGED <<asks, excused, asked>>

start_game(n) == store[n].log = "lobby" /\ Played(n, [store[n] EXCEPT !.log = "in_progress"])

disband_room(n) == store[n].log = "lobby" /\ Played(n, [store[n] EXCEPT !.log = "disbanded"])

end_game(n) ==
    /\ store[n].log = "in_progress" /\ ~store[n].counting
    /\ Played(n, [store[n] EXCEPT !.log = "ended"])

\* A round is being counted in Taidi; somebody else steps out, or the round is undone.
claim_win(n) ==
    /\ store[n].log = "in_progress"
    /\ Played(n, [store[n] EXCEPT !.counting = ~@])

\* The host of a lobby disbands it.
leave_room(n) ==
    /\ store[n].log = "lobby" /\ store[n].member /\ ~store[n].hosted
    /\ Played(n, [store[n] EXCEPT !.member = FALSE])

step_out(n) ==
    /\ store[n].log = "in_progress" /\ store[n].member
    /\ \E log \in {"in_progress", "ended"} :
            Played(n, [store[n] EXCEPT !.member = FALSE, !.counting = FALSE, !.log = log])

\* Nobody does anything for half a day, or for a day of a game.
GoesStale(n) ==
    /\ store[n].log \in Open /\ ~store[n].idle
    /\ store' = [store EXCEPT ![n].idle = TRUE]
    /\ UNCHANGED <<asks, excused, events, asked>>

-----------------------------------------------------------------------------
(* The requests. *)

Request(op, n) ==
    [op |-> op, room |-> n, stage |-> "sent", todo |-> {}, at |-> NoRoom, stored |-> "lobby",
     saw |-> Folded(new(FALSE)), no |-> asked + 1]

Back(c, stage) ==
    [Request(c.op, c.room) EXCEPT !.no = c.no, !.stage = stage,
                              !.todo = IF stage = "looking" THEN c.todo ELSE {}]

AskToCreate ==
    /\ asked < MaxAsks
    /\ asks' = asks \cup {Request("create", asked + 1)}
    /\ asked' = asked + 1
    /\ UNCHANGED <<store, excused, events>>

AskToJoin(n) ==
    /\ asked < MaxAsks
    /\ asks' = asks \cup {Request("join", n)}
    /\ asked' = asked + 1
    /\ UNCHANGED <<store, excused, events>>

Candidate(n) == [room |-> n, status |-> store[n].status]

\* GET /rooms/active of somebody else in the room; bound: one at a time.
AskForActive(n) ==
    /\ \A c \in asks : c.op # "active"
    /\ store[n].status \in Open
    /\ asks' = asks \cup {[Request("active", n) EXCEPT !.stage = "looking",
                                                   !.todo = {Candidate(n)}, !.no = 0]}
    /\ UNCHANGED <<store, excused, events, asked>>

Turn(c, d) == asks' = (asks \ {c}) \cup {d}

\* Mutant: only rooms the person made are looked at.
Candidates_Hosted == {n \in DOMAIN store : store[n].hosted /\ store[n].status \in Open}

Candidates == {n \in DOMAIN store : store[n].listed /\ store[n].status \in Open}

find_active_room_state(c) ==
    /\ c.stage = "sent"
    /\ Turn(c, [c EXCEPT !.stage = "looking", !.todo = {Candidate(n) : n \in Candidates}])
    /\ UNCHANGED <<store, excused, events, asked>>

Saw(c, n) == [c EXCEPT !.saw = Folded(store[n]), !.stage = "folded"]

\* The candidates come in no order.
_confirm_candidate(c) ==
    /\ c.stage = "looking"
    /\ \E candidate \in c.todo :
        LET d == [Saw(c, candidate.room) EXCEPT !.at = candidate.room, !.stored = candidate.status,
                                                !.todo = @ \ {candidate}]
        IN  Turn(c, IF d.saw.log \in Open /\ store[d.at].idle THEN [d EXCEPT !.stage = "closing"] ELSE d)
    /\ UNCHANGED <<store, excused, events, asked>>

\* A lobby is disbanded, a game ended; a round still being counted is undone first.
closing(state) == [state EXCEPT !.log = IF @ = "lobby" THEN "disbanded" ELSE "ended"]

\* Mutant: a closing that collides is taken for done.
Collided_Done(c) == Turn(c, [c EXCEPT !.saw = closing(@), !.stage = "folded"])

Collided(c) == Turn(c, [c EXCEPT !.stage = "again"])

_maybe_close_stale_room(c) ==
    /\ c.stage = "closing"
    /\ IF store[c.at].seq = c.saw.seq
       THEN /\ append_events(c.at, [closing(store[c.at]) EXCEPT !.counting = FALSE])
            /\ Turn(c, [c EXCEPT !.saw = closing(@), !.stage = "folded"])
       ELSE Collided(c) /\ UNCHANGED store
    /\ UNCHANGED <<excused, events, asked>>

_rebuild(c) ==
    /\ c.stage = "again"
    /\ Turn(c, Saw(c, c.at))
    /\ UNCHANGED <<store, excused, events, asked>>

\* "One room that can't be folded or closed must not lock its members out".
Skipped(c) ==
    /\ c.stage \in {"closing", "again", "folded"}
    /\ Turn(c, Back(c, "looking"))
    /\ excused' = TRUE
    /\ UNCHANGED <<store, events, asked>>

\* The status read at first is compared with the log read later, and the column is
\* written later still.
Corrected(c) ==
    IF c.saw.log = c.stored THEN store
    ELSE [store EXCEPT ![c.at].status = c.saw.log]

InIt(c) == c.op # "active" /\ c.saw.log \in Open /\ c.saw.member

\* The first room found is the answer; finding the room to be joined is no obstacle.
Confirmed(c) ==
    /\ c.stage = "folded"
    /\ store' = Corrected(c)
    /\ IF ~InIt(c) THEN Turn(c, Back(c, "looking"))
       ELSE IF c.op = "join" /\ c.at = c.room THEN Turn(c, Back(c, "free"))
       ELSE asks' = asks \ {c}
    /\ UNCHANGED <<excused, events, asked>>

Exhausted(c) ==
    /\ c.stage = "looking" /\ c.todo = {}
    /\ IF c.op = "active" THEN asks' = asks \ {c} ELSE Turn(c, Back(c, "free"))
    /\ UNCHANGED <<store, excused, events, asked>>

\* "Two requests racing here can both pass before either room exists".
Races(c) == \E d \in asks \ {c} : d.op # "active" /\ d.stage # "sent"

create_room(c) ==
    /\ c.stage = "free" /\ c.op = "create"
    /\ store' = [n \in DOMAIN store \cup {c.room} |-> IF n = c.room THEN new(TRUE) ELSE store[n]]
    /\ asks' = asks \ {c}
    /\ excused' = (excused \/ Races(c))
    /\ UNCHANGED <<events, asked>>

join_player(c) ==
    /\ c.stage = "free" /\ c.op = "join"
    /\ IF store[c.room].log = "lobby" /\ ~store[c.room].member
       THEN /\ append_events(c.room, [store[c.room] EXCEPT !.member = TRUE, !.listed = TRUE])
            /\ excused' = (excused \/ Races(c))
       ELSE UNCHANGED <<store, excused>>
    /\ asks' = asks \ {c}
    /\ UNCHANGED <<events, asked>>

RoomStoreNext ==
    \/ AskToCreate
    \/ \E n \in DOMAIN store :
        \/ start_game(n) \/ disband_room(n) \/ end_game(n) \/ claim_win(n) \/ leave_room(n)
        \/ step_out(n) \/ GoesStale(n) \/ AskToJoin(n) \/ AskForActive(n)
    \/ \E c \in asks :
        \/ find_active_room_state(c) \/ _confirm_candidate(c) \/ _maybe_close_stale_room(c)
        \/ _rebuild(c) \/ Skipped(c) \/ Confirmed(c) \/ Exhausted(c)
        \/ create_room(c) \/ join_player(c)

RoomStoreSpec == RoomStoreInit /\ [][RoomStoreNext]_storeVars

-----------------------------------------------------------------------------
(* Properties. *)

\* Nobody is in two open rooms, also when a request is sent again, when rooms are closed
\* for being stale while somebody acts in them, and when searches write the status of
\* a room back that has moved on; unless two requests were between their search and
\* their write at once ("best-effort", ensure_no_other_active_room), or a room could
\* not be read.
OneGameAtATime ==
    ~excused => Cardinality({n \in DOMAIN store : store[n].log \in Open /\ store[n].member}) <= 1
=============================================================================
