------------------------------- MODULE Dispatch -------------------------------
(***************************************************************************)
(* The one write path of a room: api/app/dispatch.py and the command       *)
(* endpoints of routers/rooms.py, driven by the phones of useRoom.ts.      *)
(*                                                                         *)
(* Requests run concurrently.  Each one rebuilds the room from its events  *)
(* (a snapshot), validates its command against the snapshot and appends    *)
(* the events it produced; (room_id, seq) is unique, so the append of a    *)
(* request that lost a race fails and the request starts over.             *)
(*                                                                         *)
(* `room' is the fold of the events stored so far, and a request carries   *)
(* the state its phone was showing, of which it sends the seq and, for the *)
(* commands on a round, the number of the last round (the pin).            *)
(***************************************************************************)
EXTENDS TaidiRoom

CONSTANTS
    StartRooms,         \* the rooms a behaviour may start from
    Ops,                \* the commands phones may send
    MaxRequests,        \* bound: how many commands are sent in all
    Pollers,            \* bound: the phones that poll
    DISPATCH_ATTEMPTS   \* tries of one request before it gives up

ASSUME DispatchAssumption ==
    /\ Pollers \subseteq Account
    /\ MaxRequests \in Nat
    /\ DISPATCH_ATTEMPTS \in Nat \ {0}
    /\ \A r \in StartRooms : GoodRoom(r)

VARIABLES
    shown,     \* the state each account's phone shows
    polled,    \* the state on its way to each phone in answer to a poll, or None
    waiting,   \* the request each phone waits for, 0 if none (inFlight)
    reqs       \* the requests sent, by number

vars == <<room, shown, polled, waiting, reqs>>

-----------------------------------------------------------------------------
(* Commands as they are sent.                                              *)

PinnedOps == {"win", "cards", "submit_for", "special", "void_special", "void"}

\* The endpoints whose body can name a guest to act for.
ProxyOps == {"win", "cards", "special", "void_special", "void", "step_out"}

\* A command of u: `for' is the player acted for, u itself unless a guest is
\* named; the arguments an endpoint does not take are fixed.
Commands(u) ==
    [op : Ops \ ({"submit_for", "cards", "start", "add_guest", "remove_guest"} \cup ProxyOps),
     user : {u}, for : {u}, target : {None}, cards : {0}, rules : {None}]
    \cup [op : Ops \cap (ProxyOps \ {"cards"}),
          user : {u}, for : {u} \cup Guest, target : {None}, cards : {0}, rules : {None}]
    \cup [op : Ops \cap {"cards"},
          user : {u}, for : {u} \cup Guest, target : {None}, cards : CardInputs, rules : {None}]
    \cup [op : Ops \cap {"submit_for"},
          user : {u}, for : {u}, target : Player, cards : CardInputs, rules : {None}]
    \cup [op : Ops \cap {"start"},
          user : {u}, for : {u}, target : {None}, cards : {0}, rules : RuleChoices]
    \cup [op : Ops \cap {"add_guest", "remove_guest"},
          user : {u}, for : {u}, target : Guest, cards : {0}, rules : {None}]

Allowed(r, c) ==
    \/ c.op = "join" /\ CanJoin(r, c.user)
    \/ c.op = "leave" /\ CanLeave(r, c.user)
    \/ c.op = "disband" /\ CanDisband(r, c.user)
    \/ c.op = "start" /\ CanStart(r, c.user)
    \/ c.op = "add_guest" /\ CanAddGuest(r, c.user, c.target)
    \/ c.op = "remove_guest" /\ CanRemoveGuest(r, c.user, c.target)
    \/ c.op = "win" /\ CanClaimWin(r, c.for)
    \/ c.op = "cards" /\ CanSubmit(r, c.for, c.for, c.cards)
    \/ c.op = "submit_for" /\ CanSubmitFor(r, c.user, c.target, c.cards)
    \/ c.op = "special" /\ CanAddSpecial(r, c.for)
    \/ c.op = "void_special" /\ CanVoidSpecial(r, c.for)
    \/ c.op = "void" /\ CanVoidRound(r, c.for)
    \/ c.op = "step_out" /\ CanStepOut(r, c.for)
    \/ c.op = "end" /\ CanEnd(r, c.user)

Result(r, c) ==
    CASE c.op = "join" -> PlayerJoined(r, c.user)
      [] c.op = "leave" -> PlayerLeft(r, c.user)
      [] c.op = "disband" -> RoomDisbanded(r)
      [] c.op = "start" -> GameStarted(r, c.rules)
      [] c.op = "add_guest" -> PlayerJoined(r, c.target)
      [] c.op = "remove_guest" -> PlayerLeft(r, c.target)
      [] c.op = "win" -> WinClaimed(r, c.for)
      [] c.op = "cards" -> DoSubmit(r, c.for, c.cards)
      [] c.op = "submit_for" -> DoSubmit(r, c.target, c.cards)
      [] c.op = "special" -> SpecialHand(r, c.for)
      [] c.op = "void_special" -> SpecialHandVoided(r, c.for)
      [] c.op = "void" -> DoVoidRound(r)
      [] c.op = "step_out" -> DoStepOut(r, c.for)
      [] c.op = "end" -> GameEnded(r)

-----------------------------------------------------------------------------
(* The check of one request against a snapshot.                            *)

pin(r) == IF Last(r) = 0 THEN 0 ELSE Current(r).round_no

\* Mutant: what the command was aimed at is not looked at.
SeqConflict_NoPin(r, q) == FALSE

\* pinned_seq refuses a pin that is not the current round; without a pin the
\* seq must be the one the phone showed, except that joining takes any seq.
SeqConflict(r, q) ==
    IF q.cmd.op \in PinnedOps THEN pin(r) # pin(q.seen)
    ELSE q.cmd.op # "join" /\ r.seq # q.seen.seq

acting_as(r, c) == c.for = c.user \/ (c.user = r.host_id /\ c.for \in Members(r) \cap Guest)

\* A pin is checked before who acts, a bare seq after.
Verdict(r, q) ==
    IF q.cmd.op \in PinnedOps /\ SeqConflict(r, q) THEN "conflict"
    ELSE IF ~acting_as(r, q.cmd) THEN "refused"
    ELSE IF SeqConflict(r, q) THEN "conflict"
    ELSE IF Allowed(r, q.cmd) THEN "ok"
    ELSE "refused"

-----------------------------------------------------------------------------
(* The server.  Stages of a request: arrived (about to load), loaded (holds *)
(* a snapshot), done (answered), lost.                                      *)

Finish(i, outcome, answer) ==
    reqs' = [reqs EXCEPT ![i] =
                [reqs[i] EXCEPT !.stage = "done", !.outcome = outcome, !.snap = answer]]

Load(i) ==
    /\ reqs[i].stage = "arrived"
    /\ reqs[i].attempt < DISPATCH_ATTEMPTS
    /\ reqs' = [reqs EXCEPT ![i] =
                    [reqs[i] EXCEPT !.stage = "loaded", !.snap = room, !.attempt = @ + 1]]
    /\ UNCHANGED <<room, shown, polled, waiting>>

Refuse(i) ==
    /\ reqs[i].stage = "loaded"
    /\ Verdict(reqs[i].snap, reqs[i]) # "ok"
    /\ Finish(i, Verdict(reqs[i].snap, reqs[i]), reqs[i].snap)
    /\ UNCHANGED <<room, shown, polled, waiting>>

Ready(i) == reqs[i].stage = "loaded" /\ Verdict(reqs[i].snap, reqs[i]) = "ok"

\* Mutant: the insert of a request that lost a race succeeds.
SeqFree_Always(i) == TRUE

\* The events carry the seqs after the snapshot's: the insert succeeds only if
\* nobody has stored an event there.
SeqFree(i) == reqs[i].snap.seq = room.seq

Commit(i) ==
    /\ Ready(i)
    /\ SeqFree(i)
    /\ room' = Result(reqs[i].snap, reqs[i].cmd)
    /\ Finish(i, "ok", room')
    /\ UNCHANGED <<shown, polled, waiting>>

Collide(i) ==
    /\ Ready(i)
    /\ ~SeqFree(i)
    /\ reqs' = [reqs EXCEPT ![i] = [reqs[i] EXCEPT !.stage = "arrived"]]
    /\ UNCHANGED <<room, shown, polled, waiting>>

\* Mutant: a request may give up before its last attempt.
GiveUp_Early(i) ==
    /\ reqs[i].stage = "arrived"
    /\ reqs[i].attempt <= DISPATCH_ATTEMPTS
    /\ Finish(i, "conflict", room)
    /\ UNCHANGED <<room, shown, polled, waiting>>

\* Mutant: the loop does not stop after the last attempt.
GiveUp_OneLate(i) ==
    /\ reqs[i].stage = "arrived"
    /\ reqs[i].attempt > DISPATCH_ATTEMPTS
    /\ Finish(i, "conflict", room)
    /\ UNCHANGED <<room, shown, polled, waiting>>

GiveUp(i) ==
    /\ reqs[i].stage = "arrived"
    /\ reqs[i].attempt = DISPATCH_ATTEMPTS
    /\ Finish(i, "conflict", room)
    /\ UNCHANGED <<room, shown, polled, waiting>>

-----------------------------------------------------------------------------
(* The phones.                                                             *)

Request(c, seen, retry) ==
    [cmd |-> c, seen |-> seen, retry |-> retry, stage |-> "arrived", attempt |-> 0,
     snap |-> seen, outcome |-> "none"]

\* One command at a time; the commands on a round need a round to name.
Tap(u, c) ==
    /\ waiting[u] = 0
    /\ Len(reqs) < MaxRequests
    /\ c.op \in PinnedOps => Last(shown[u]) > 0
    /\ reqs' = Append(reqs, Request(c, shown[u], FALSE))
    /\ waiting' = [waiting EXCEPT ![u] = Len(reqs) + 1]
    /\ UNCHANGED <<room, shown, polled>>

\* Mutant: whatever arrives is painted.
Painted_Always(before, answer) == answer

\* isStale: a state no newer than the one on screen is not painted.
Painted(before, answer) == IF answer.seq <= before.seq THEN before ELSE answer

\* run: a command without a pin, joining by the button included, is sent once more
\* after a 409, against the state the answer brought; a pinned one never is.  The
\* phone that joins by itself after a shared link was opened does not use run: it
\* drops a 409, which is Timeout here, and keeps no other command from being sent.
WillRetry(q) == q.outcome = "conflict" /\ ~q.retry /\ q.cmd.op \notin PinnedOps

\* A refusal (400, 403) brings no state along.  A state written by the phone
\* itself makes it drop the answer to a poll that set off before (writes).
Deliver(u) ==
    LET i == waiting[u]
        q == reqs[i]
    IN  /\ i > 0
        /\ q.stage = "done"
        /\ IF q.outcome = "refused" THEN UNCHANGED <<shown, polled>>
           ELSE /\ shown' = [shown EXCEPT ![u] = Painted(@, q.snap)]
                /\ polled' = [polled EXCEPT ![u] = None]
        /\ IF WillRetry(q)
           THEN /\ reqs' = [reqs EXCEPT ![i] = Request(q.cmd, q.snap, TRUE)]
                /\ UNCHANGED waiting
           ELSE /\ waiting' = [waiting EXCEPT ![u] = 0]
                /\ UNCHANGED reqs
        /\ UNCHANGED room

\* The phone gives up (api.ts TIMEOUT_MS, network error); its request may never
\* have arrived, or may still be carried out.
Timeout(u) ==
    LET i == waiting[u]
    IN  /\ i > 0
        /\ waiting' = [waiting EXCEPT ![u] = 0]
        /\ \/ UNCHANGED reqs
           \/ /\ reqs[i].stage = "arrived" /\ reqs[i].attempt = 0
              /\ reqs' = [reqs EXCEPT ![i] = [reqs[i] EXCEPT !.stage = "lost"]]
        /\ UNCHANGED <<room, shown, polled>>

\* One poll at a time; the answer may reach the phone much later.
Poll(u) ==
    /\ u \in Pollers /\ polled[u] = None
    /\ polled' = [polled EXCEPT ![u] = room]
    /\ UNCHANGED <<room, shown, waiting, reqs>>

PollArrives(u) ==
    /\ polled[u] # None
    /\ shown' = [shown EXCEPT ![u] = Painted(@, polled[u])]
    /\ polled' = [polled EXCEPT ![u] = None]
    /\ UNCHANGED <<room, waiting, reqs>>

-----------------------------------------------------------------------------

DispatchInit ==
    /\ room \in StartRooms
    /\ shown = [u \in Account |-> room]
    /\ polled = [u \in Account |-> None]
    /\ waiting = [u \in Account |-> 0]
    /\ reqs = << >>

ServerStep(i) == Load(i) \/ Refuse(i) \/ Commit(i) \/ Collide(i) \/ GiveUp(i)

PhoneStep(u) ==
    (\E c \in Commands(u) : Tap(u, c)) \/ Deliver(u) \/ Timeout(u) \/ Poll(u) \/ PollArrives(u)

DispatchNext == (\E i \in 1 .. Len(reqs) : ServerStep(i)) \/ (\E u \in Account : PhoneStep(u))

\* A request that reached the server is worked on until it is answered, and an
\* answer reaches the phone unless the phone has given up waiting.
Fairness ==
    /\ \A i \in 1 .. MaxRequests : WF_vars(i \in 1 .. Len(reqs) /\ ServerStep(i))
    /\ \A u \in Account : WF_vars(Deliver(u))

DispatchSpec == DispatchInit /\ [][DispatchNext]_vars /\ Fairness

-----------------------------------------------------------------------------
(* Properties.                                                             *)

Stages == {"arrived", "loaded", "done", "lost"}

\* s is no newer than r, and is r if it has the seq of r.
Past(s, r) == s.seq <= r.seq /\ (s.seq = r.seq => s = r)

\* One seq, one state: whatever a phone shows, a request validates against or an
\* answer carries is the room as it was at that seq, so a state with the seq of
\* the room is the room ("An equal seq is the same state again", usePolling.ts).
\* Without it the insert could succeed on a snapshot that was never the room.
SameSeqSameState ==
    /\ \A u \in Account : Past(shown[u], room) /\ (polled[u] # None => Past(polled[u], room))
    /\ \A i \in 1 .. Len(reqs) : Past(reqs[i].snap, room) /\ Past(reqs[i].seen, reqs[i].snap)

\* A 409 always brings a state newer than the one the command was aimed at: it is
\* never an answer to a phone that was up to date.
ConflictBringsNews ==
    \A i \in 1 .. Len(reqs) :
        reqs[i].outcome = "conflict" => reqs[i].snap.seq > reqs[i].seen.seq

\* Whatever the races, snapshots and retries, the stored events are a run of the
\* room machine: every commit is one command validated against the room as it is
\* at that moment.
CommitsAreCommands == [][Command]_room

Commits(i) ==
    i \in 1 .. Len(reqs) /\ reqs[i].outcome = "none" /\ reqs'[i].outcome = "ok"

\* A command on a round lands while that round is the last one, any other command
\* but joining on exactly the state its phone was showing or was sent by the 409
\* it is a retry of.
LandsWhereAimed ==
    [][\A i \in 1 .. MaxRequests : Commits(i) =>
        LET q == reqs[i]
        IN  IF q.cmd.op \in PinnedOps THEN pin(room) = pin(q.seen)
            ELSE q.cmd.op = "join" \/ room = q.seen]_vars

\* A phone never goes back to an older state of the room, though its own answer
\* may arrive after a poll that is already past it.
ShownNeverGoesBack == [][\A u \in Account : shown'[u].seq >= shown[u].seq]_vars

\* Every phone that sent a command stops waiting for it.
EveryTapAnswered == \A u \in Account : waiting[u] # 0 ~> waiting[u] = 0

\* "if the round or hand has moved on it's refused, so nothing is ever applied to
\* one the player didn't see" (dispatch.py): an undo undoes the round it would
\* have undone in the state its player saw.
UndoHitsWhatWasSeen ==
    [][\A i \in 1 .. MaxRequests : Commits(i) /\ reqs[i].cmd.op = "void" =>
        VoidTarget(room) = VoidTarget(reqs[i].seen)]_vars
=============================================================================
