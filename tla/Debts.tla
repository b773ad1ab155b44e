-------------------------------- MODULE Debts --------------------------------
(***************************************************************************)
(* The money after a game: api/app/debts_service.py and                    *)
(* api/app/routers/guests.py over the tables settlements and guests.       *)
(*                                                                         *)
(* When a game ends its debts are written.  The debtor marks one paid, the *)
(* creditor approves or rejects.  A guest plays without an account; until  *)
(* an account claims the guest, the other side settles alone.              *)
(*                                                                         *)
(* Every handler is a chain of statements of a READ COMMITTED transaction, *)
(* one stage each; the last one is an UPDATE guarded by what was read,     *)
(* with its commit.                                                        *)
(***************************************************************************)
EXTENDS FiniteSets

CONSTANTS
    Account, Guest,
    NoOne,
    Game,
    Players,       \* game -> whose balances it holds, guests among them
    Host,          \* game -> its host
    RoomOf,        \* guest -> the game the guest was seated in
    Debt,
    Owed,          \* debt -> the row without its status
    Request,       \* the handlers at work at one time
    ClaimsOverlap  \* whether an account may have two claims under way

ASSUME DebtsAssumption ==
    /\ Account \cap Guest = {}
    /\ NoOne \notin Account \cup Guest
    /\ Players \in [Game -> SUBSET (Account \cup Guest)]
    /\ Host \in [Game -> Account \cup Guest]
    /\ RoomOf \in [Guest -> Game]
    /\ \A g \in Game, p \in Guest : p \in Players[g] => RoomOf[p] = g
    /\ Owed \in [Debt -> [room_id : Game, from_player : Account \cup Guest,
                          to_player : Account \cup Guest]]
    /\ \A d \in Debt : /\ Owed[d].from_player # Owed[d].to_player
                       /\ {Owed[d].from_player, Owed[d].to_player} \subseteq Players[Owed[d].room_id]
    /\ Debt \cap Guest = {}
    /\ ClaimsOverlap \in BOOLEAN

VARIABLES
    ended,        \* the games that are over
    status,       \* settlements.status; "none" while there is no row
    claimed_by,   \* guests.claimed_by
    reqs

vars == <<ended, status, claimed_by, reqs>>

-----------------------------------------------------------------------------
(* Requests. *)

Transitions == {"mark_paid", "approve", "reject"}

Statuses == {"none", "pending", "marked_paid", "approved"}

Under == {"sent", "row", "party", "room", "checked"}

Requests == [stage : Under \cup {"idle", "ok", "refused"},
             kind : Transitions \cup {"settle", "claim", "none"},
             actor : Account \cup {NoOne},
             subject : Debt \cup Guest \cup {NoOne},
             seen : Statuses,
             other : Account \cup Guest \cup {NoOne}]

Blank(stage) == [stage |-> stage, kind |-> "none", actor |-> NoOne, subject |-> NoOne,
                 seen |-> "none", other |-> NoOne]

authorized_column(kind) == IF kind = "mark_paid" THEN "from_player" ELSE "to_player"

expected_status(kind) == IF kind = "mark_paid" THEN "pending" ELSE "marked_paid"

new_status(kind) ==
    CASE kind = "mark_paid" -> "marked_paid"
      [] kind = "reject"    -> "pending"
      [] OTHER              -> "approved"

\* The account and every guest it has claimed.
identity_ids(a) == {a} \cup {g \in Guest : claimed_by[g] = a}

Init ==
    /\ ended = {}
    /\ status = [d \in Debt |-> "none"]
    /\ claimed_by = [g \in Guest |-> NoOne]
    /\ reqs = [r \in Request |-> Blank("idle")]

\* The request goes on to the next stage, or is answered.
Go(r, req) == reqs' = [reqs EXCEPT ![r] = req]

Proceed(r, stage) == Go(r, [reqs[r] EXCEPT !.stage = stage])

Answer(r, outcome) == Go(r, Blank(outcome))

Guarded(r, condition, stage) ==
    IF condition THEN Proceed(r, stage) ELSE Answer(r, "refused")

-----------------------------------------------------------------------------
(* The steps of a handler. *)

\* The event that ends a game and the rows of its debts are one transaction.
GameEnds(g) ==
    /\ g \notin ended
    /\ ended' = ended \cup {g}
    /\ status' = [d \in Debt |-> IF Owed[d].room_id = g THEN "pending" ELSE status[d]]
    /\ UNCHANGED <<claimed_by, reqs>>

Send(r, kind, a, subject) ==
    /\ reqs[r].stage \notin Under
    /\ kind = "claim" => \/ ClaimsOverlap
                         \/ \A q \in Request : ~(reqs[q].kind = "claim" /\ reqs[q].actor = a)
    /\ Go(r, [Blank("sent") EXCEPT !.kind = kind, !.actor = a, !.subject = subject])
    /\ UNCHANGED <<ended, status, claimed_by>>

\* The row of the debt, or of the guest behind the claim link.
ReadRow(r) ==
    LET req == reqs[r]
    IN  /\ req.stage = "sent"
        /\ \/ /\ req.kind = "claim"
              /\ Guarded(r, claimed_by[req.subject] = NoOne, "row")
           \/ /\ req.kind # "claim"
              /\ IF status[req.subject] = "none" THEN Answer(r, "refused")
                 ELSE Go(r, [req EXCEPT !.stage = "row", !.seen = status[req.subject]])
        /\ UNCHANGED <<ended, status, claimed_by>>

\* Mutant: whoever has the link of the debt may move it.
MayMove_Anyone(req) == req.seen = expected_status(req.kind)

MayMove(req) ==
    /\ Owed[req.subject][authorized_column(req.kind)] \in identity_ids(req.actor)
    /\ req.seen = expected_status(req.kind)

\* _transition: who is asking, and is the debt where it should be?
Authorise(r) ==
    /\ reqs[r].stage = "row" /\ reqs[r].kind \in Transitions
    /\ Guarded(r, MayMove(reqs[r]), "checked")
    /\ UNCHANGED <<ended, status, claimed_by>>

\* settle: which side is asking?
FindParty(r) ==
    LET req == reqs[r]
        row == Owed[req.subject]
        ids == identity_ids(req.actor)
    IN  /\ req.stage = "row" /\ req.kind = "settle"
        /\ IF row.from_player \in ids THEN Go(r, [req EXCEPT !.stage = "party", !.other = row.to_player])
           ELSE IF row.to_player \in ids THEN Go(r, [req EXCEPT !.stage = "party", !.other = row.from_player])
           ELSE Answer(r, "refused")
        /\ UNCHANGED <<ended, status, claimed_by>>

IsUnclaimedGuest(p) == p \in Guest /\ claimed_by[p] = NoOne

\* settle: is the other side a guest whom nobody has claimed?
LookAtGuest(r) ==
    /\ reqs[r].stage = "party"
    /\ Guarded(r, IsUnclaimedGuest(reqs[r].other) /\ reqs[r].seen # "approved", "checked")
    /\ UNCHANGED <<ended, status, claimed_by>>

\* claim: is the game over?
LoadRoom(r) ==
    /\ reqs[r].stage = "row" /\ reqs[r].kind = "claim"
    /\ Guarded(r, RoomOf[reqs[r].subject] \in ended, "room")
    /\ UNCHANGED <<ended, status, claimed_by>>

\* Mutant: only the account itself is looked for among the players.
Seated_AccountOnly(a, g) == a \in Players[g] \/ a = Host[g]

Seated(a, g) == \E p \in identity_ids(a) : p \in Players[g] \/ p = Host[g]

\* claim: did this person play the game already?
CheckSeats(r) ==
    /\ reqs[r].stage = "room"
    /\ Guarded(r, ~Seated(reqs[r].actor, RoomOf[reqs[r].subject]), "checked")
    /\ UNCHANGED <<ended, status, claimed_by>>

\* Mutant: the row is written whatever has become of it.
StillAsRead_Always(req) == TRUE

StillAsRead(req) == status[req.subject] = req.seen

Lost(r) == Answer(r, "refused")

UpdateDebt(r) ==
    LET req == reqs[r]
    IN  /\ req.stage = "checked" /\ req.kind # "claim"
        /\ IF StillAsRead(req)
           THEN /\ status' = [status EXCEPT ![req.subject] = new_status(req.kind)]
                /\ Answer(r, "ok")
           ELSE UNCHANGED status /\ Lost(r)
        /\ UNCHANGED <<ended, claimed_by>>

Unclaimed(g) == claimed_by[g] = NoOne

UpdateGuest(r) ==
    LET req == reqs[r]
    IN  /\ req.stage = "checked" /\ req.kind = "claim"
        /\ IF Unclaimed(req.subject)
           THEN /\ claimed_by' = [claimed_by EXCEPT ![req.subject] = req.actor]
                /\ Answer(r, "ok")
           ELSE UNCHANGED claimed_by /\ Lost(r)
        /\ UNCHANGED <<ended, status>>

Next ==
    \/ \E g \in Game : GameEnds(g)
    \/ \E r \in Request :
        \/ \E a \in Account :
            \/ \E kind \in Transitions \cup {"settle"}, d \in Debt : Send(r, kind, a, d)
            \/ \E g \in Guest : Send(r, "claim", a, g)
        \/ ReadRow(r) \/ Authorise(r) \/ FindParty(r) \/ LookAtGuest(r)
        \/ LoadRoom(r) \/ CheckSeats(r) \/ UpdateDebt(r) \/ UpdateGuest(r)

Spec == Init /\ [][Next]_vars

-----------------------------------------------------------------------------
(* Properties. *)

TypeOK ==
    /\ ended \subseteq Game
    /\ status \in [Debt -> Statuses]
    /\ claimed_by \in [Guest -> Account \cup {NoOne}]
    /\ reqs \in [Request -> Requests]

\* "One person, one seat" (guests.py): no account comes to hold two of the balances
\* of a game, its own and those of guests it has claimed.  Its net result and the
\* view of its debts (identity.remap) depend on it.
OnePersonOneSeat ==
    \A g \in Game, a \in Account :
        \A p, q \in Players[g] \cap identity_ids(a) : p = q

\* The step is one move of the debt d, by a handler whose account is the right side
\* of it at that moment.
Entitled(d) ==
    \E r \in Request :
        /\ reqs[r].subject = d /\ reqs[r].stage = "checked"
        /\ reqs'[r].stage = "ok"
        /\ LET debtor == Owed[d].from_player
               creditor == Owed[d].to_player
               mine == identity_ids(reqs[r].actor)
           IN  \/ /\ status[d] = "pending" /\ status'[d] = "marked_paid"
                  /\ debtor \in mine
               \/ /\ status[d] = "marked_paid" /\ status'[d] \in {"pending", "approved"}
                  /\ creditor \in mine
               \/ /\ status'[d] = "approved"
                  /\ \/ debtor \in mine /\ creditor \in Guest
                     \/ creditor \in mine /\ debtor \in Guest

\* A debt moves by one of the four moves of debts_service, each from the status it is
\* for and made by somebody who at that moment is the right side of it: the debtor
\* marks, the creditor approves or rejects, either settles with a guest.
MovesByThoseEntitled ==
    [][\A d \in Debt : status[d] # status'[d] /\ status[d] # "none" => Entitled(d)]_vars

\* A settled debt stays settled, and a guest belongs for good to the first account
\* that claimed it, however handlers overlap.
ClosedForGood ==
    [][/\ \A d \in Debt : status[d] = "approved" => status'[d] = "approved"
       /\ \A g \in Guest : claimed_by[g] # NoOne => claimed_by'[g] = claimed_by[g]]_vars
=============================================================================
