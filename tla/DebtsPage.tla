------------------------------ MODULE DebtsPage ------------------------------
(***************************************************************************)
(* The Debts page (web/src/app/debts/page.tsx) on the phone of one         *)
(* account, over the handlers of Debts.                                    *)
(*                                                                         *)
(* The page polls the account's debts and offers the moves they call for.  *)
(* A tapped move goes to the API; its answer is painted over the row, a    *)
(* refusal is shown and the row left to the next poll.  While a move is    *)
(* under way its row is disabled, but only the row tapped last, so moves   *)
(* on several debts may be under way.  The page stays in view.             *)
(***************************************************************************)
EXTENDS Debts, Polling

CONSTANTS
    Me,            \* whose phone it is
    MovesOverlap   \* bound: whether other phones have several moves under way at once

ASSUME PageAssumption == Me \in Account /\ MovesOverlap \in BOOLEAN

VARIABLES
    poll,      \* the polling loop; its data is the row of each debt
    flights,   \* the moves under way
    busyId     \* the debt whose buttons are disabled

pageVars == <<ended, status, claimed_by, reqs, poll, flights, busyId>>

-----------------------------------------------------------------------------
(* What the API lists and what the page offers. *)

\* Mutant: a guest counts as one even when an account has claimed the guest.
counterparty_is_guest_Claimed(p) == p \in Guest

counterparty_is_guest(p) == p \in Guest /\ claimed_by[p] = NoOne

DebtView(a, d) ==
    LET is_owing == Owed[d].from_player \in identity_ids(a)
        counterparty == IF is_owing THEN Owed[d].to_player ELSE Owed[d].from_player
    IN  [tab |-> IF is_owing THEN "owing" ELSE "owed",
         status |-> status[d],
         is_guest |-> counterparty_is_guest(counterparty)]

Involves(a, d) == {Owed[d].from_player, Owed[d].to_player} \cap identity_ids(a) # {}

Listed(a) == {d \in Debt : status[d] # "none" /\ Involves(a, d)}

build_debts_for(a) == [d \in Listed(a) |-> DebtView(a, d)]

OwingRow(row) ==
    IF row.is_guest /\ row.status # "approved" THEN {"settle"}
    ELSE IF row.status = "pending" THEN {"mark_paid"} ELSE {}

\* Mutant: a payment can be confirmed before it was marked.
OwedRow_AnyTime(row) ==
    IF row.status = "approved" THEN {}
    ELSE IF row.is_guest THEN {"settle"} ELSE {"approve", "reject"}

OwedRow(row) ==
    IF row.is_guest /\ row.status # "approved" THEN {"settle"}
    ELSE IF row.status = "marked_paid" THEN {"approve", "reject"} ELSE {}

Offers(row) == IF row.tab = "owing" THEN OwingRow(row) ELSE OwedRow(row)

-----------------------------------------------------------------------------
(* The page. *)

PageInit ==
    /\ Init
    /\ poll = Mounted(Nothing)
    /\ flights = {}
    /\ busyId = NoOne

Handlers == <<ended, status, claimed_by, reqs>>

PollServed ==
    /\ poll.inFlight /\ poll.result = Nothing
    /\ poll' = Served(poll, build_debts_for(Me))
    /\ UNCHANGED <<Handlers, flights, busyId>>

PollLands ==
    /\ poll.inFlight /\ poll.result # Nothing
    /\ poll' = Landed(poll, FALSE)
    /\ UNCHANGED <<Handlers, flights, busyId>>

PollFails ==
    /\ poll.inFlight
    /\ poll' = Failed(poll, FALSE)
    /\ UNCHANGED <<Handlers, flights, busyId>>

TimerFires ==
    /\ poll.timer
    /\ poll' = tick(poll)
    /\ UNCHANGED <<Handlers, flights, busyId>>

\* Rows of the list a move was tapped in: the answer is painted over the row, if
\* the list still holds it.
Patched(list, f) ==
    IF list # Nothing /\ f.debt \in DOMAIN list /\ list[f.debt].tab = f.saw.tab
    THEN [list EXCEPT ![f.debt].status = new_status(f.kind)] ELSE list

Free(r) == \A f \in flights : f.slot # r

Idle(r) == reqs[r].stage \notin Under /\ Free(r)

\* runAction, up to the call.
Tap(r, d, kind) ==
    /\ Idle(r)
    /\ poll.data # Nothing /\ d \in DOMAIN poll.data /\ busyId # d
    /\ kind \in Offers(poll.data[d])
    /\ Send(r, kind, Me, d)
    /\ flights' = flights \cup {[slot |-> r, debt |-> d, kind |-> kind, saw |-> poll.data[d]]}
    /\ busyId' = d
    /\ UNCHANGED poll

\* runAction, from the answer on.
Answered(f) ==
    /\ f \in flights /\ reqs[f.slot].stage \in {"ok", "refused"}
    /\ poll' = IF reqs[f.slot].stage = "ok" THEN refresh(setData(poll, Patched(poll.data, f)))
               ELSE poll
    /\ flights' = flights \ {f}
    /\ busyId' = NoOne
    /\ UNCHANGED Handlers

\* The request timed out on the phone; it may still be carried out.
GaveUp(f) ==
    /\ f \in flights
    /\ flights' = flights \ {f}
    /\ busyId' = NoOne
    /\ UNCHANGED <<Handlers, poll>>

MoveElsewhere(r) == Free(r) /\ reqs[r].stage \in Under /\ reqs[r].kind # "claim"

\* The handlers, and what other phones ask of them.
Elsewhere ==
    /\ \/ \E g \in Game : GameEnds(g)
       \/ \E r \in Request :
            \/ /\ Idle(r)
               /\ \/ /\ MovesOverlap \/ ~\E q \in Request : MoveElsewhere(q)
                     /\ \E a \in Account \ {Me}, kind \in Transitions \cup {"settle"}, d \in Debt :
                            Send(r, kind, a, d)
                  \/ \E a \in Account, g \in Guest : Send(r, "claim", a, g)
            \/ ReadRow(r) \/ Authorise(r) \/ FindParty(r) \/ LookAtGuest(r)
            \/ LoadRoom(r) \/ CheckSeats(r) \/ UpdateDebt(r) \/ UpdateGuest(r)
    /\ UNCHANGED <<poll, flights, busyId>>

PageNext ==
    \/ PollServed \/ PollLands \/ PollFails \/ TimerFires
    \/ \E r \in Request, d \in Debt, kind \in Transitions \cup {"settle"} : Tap(r, d, kind)
    \/ \E f \in flights : Answered(f) \/ GaveUp(f)
    \/ Elsewhere

PageSpec == PageInit /\ [][PageNext]_pageVars

-----------------------------------------------------------------------------
(* Properties. *)

\* A button of the page is refused only because something has happened that the
\* page did not show when it was tapped: the debt has moved, or its guest has been
\* claimed; never because page and API disagree on who may do what.
OnlyNewsRefuses ==
    [][\A f \in flights :
        LET req == reqs[f.slot]
        IN  req.stage \in Under /\ reqs'[f.slot].stage = "refused" =>
                \/ req.stage # "sent" /\ req.seen # f.saw.status
                \/ status[f.debt] # f.saw.status
                \/ f.saw.is_guest /\ ~DebtView(Me, f.debt).is_guest]_pageVars

\* The API would carry out what a's up-to-date page offers on d.
WouldDo(a, d, kind) ==
    IF kind = "settle"
    THEN IsUnclaimedGuest(IF Owed[d].from_player \in identity_ids(a)
                          THEN Owed[d].to_player ELSE Owed[d].from_player)
    ELSE MayMove([actor |-> a, subject |-> d, kind |-> kind, seen |-> status[d]])

\* No open debt is stuck: as long as one of the two is or has become an account,
\* somebody's page offers a move on it, and whatever is offered would be carried
\* out, before and after guests are claimed.
EveryOpenDebtHasAMove ==
    \A d \in Debt :
        LET sides == {a \in Account : Involves(a, d)}
            moves(a) == Offers(DebtView(a, d))
        IN  status[d] \notin {"none", "approved"} /\ sides # {} =>
                /\ \E a \in sides : moves(a) # {}
                /\ \A a \in sides : \A kind \in moves(a) : WouldDo(a, d, kind)

\* "usePolling drops any poll that set off before the patch, so it can't undo it"
\* (page.tsx:263): no poll that lands opens a debt again which the page showed as
\* settled.
PollsNeverReopen ==
    [][PollLands /\ poll.data # Nothing =>
        \A d \in DOMAIN poll.data :
            poll.data[d].status = "approved" =>
                d \in DOMAIN poll'.data /\ poll'.data[d].status = "approved"]_pageVars
=============================================================================
