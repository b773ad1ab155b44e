------------------------------ MODULE TaidiRoom ------------------------------
(***************************************************************************)
(* One Taidi room: core/taidi_core/machine.py over the RoomState of        *)
(* core/taidi_core/models.py.                                              *)
(*                                                                         *)
(* The source splits a command in two: a command function validates the    *)
(* current state and returns events, `apply' changes the state event by    *)
(* event.  Here every event is an operator from room states to room        *)
(* states, every command function is a guard Can<Command> plus the events  *)
(* it emits composed in order, Do<Command>, and every command is one       *)
(* action.  The guards and results take the room as a parameter, because   *)
(* the API evaluates them on a snapshot (module Dispatch).                 *)
(***************************************************************************)
EXTENDS TaidiRules, Seating, Sequences

CONSTANTS
    Player,       \* everyone who can sit at a table, accounts and guests
    Guest,        \* those without an account: seated by a host, never by joining
    display_name, \* what each is called, case and spacing apart; None where the
                  \* name is empty or longer than MAX_GUEST_NAME
    None,         \* no player, no rules
    RuleChoices,  \* the rules a host may pick from when starting
    CardInputs,   \* the card counts a client may send, good or bad
    MaxSeq        \* bound: a room with this many events takes no more commands

ASSUME PlayerAssumption ==
    /\ IsFiniteSet(Player)
    /\ Guest \subseteq Player
    /\ None \notin Player \cup (1 .. MAX_CARDS)
    /\ DOMAIN display_name = Player

ASSUME InputAssumption ==
    /\ RuleChoices \subseteq GameRules
    /\ None \notin GameRules
    /\ CardInputs \subseteq Int
    /\ MaxSeq \in Nat

VARIABLE room

-----------------------------------------------------------------------------
(* The state.  `members' maps the players at the table to their seats, and *)
(* is_guest is membership in Guest.  In cards_submitted None stands for a  *)
(* missing key, in special_counts 0 does.                                  *)

Statuses == {"lobby", "in_progress", "ended", "disbanded"}

Phases == {"playing", "collecting", "resolved"}

RoundState ==
    [round_no: Nat, phase: Phases, winner: Player \cup {None},
     cards_submitted: [Player -> 1 .. MAX_CARDS \cup {None}],
     special_counts: [Player -> Nat],
     transfers: SUBSET Payments(Player)]

FreshRound(n) ==
    [round_no |-> n, phase |-> "playing", winner |-> None,
     cards_submitted |-> [p \in Player |-> None],
     special_counts |-> [p \in Player |-> 0], transfers |-> {}]

Submitted(round) == {p \in Player : round.cards_submitted[p] # None}

\* Mutant: a round with special hands in it counts as empty.
is_empty_IgnoresSpecials(round) == round.phase = "playing"

is_empty(round) == round.phase = "playing" /\ round.transfers = {}

NewRoom(host) ==
    [status |-> "lobby", seq |-> 0, host_id |-> host, members |-> [p \in {host} |-> 0],
     rules |-> None, rounds |-> << >>, balances |-> [p \in {host} |-> 0], departed |-> {}]

Members(r) == DOMAIN r.members

Last(r) == Len(r.rounds)

Current(r) == r.rounds[Last(r)]

InPhase(r, phase) == Last(r) > 0 /\ Current(r).phase = phase

Specials(round) == {t \in round.transfers : t.kind = "special"}

-----------------------------------------------------------------------------
(* apply: how one event changes the room.                                  *)

PlayerJoined(r, p) ==
    [r EXCEPT !.seq = @ + 1,
              !.members = With(@, p, LowestFreeSeat(@)),
              !.balances = With(@, p, 0)]

PlayerLeft(r, p) ==
    [r EXCEPT !.seq = @ + 1, !.members = Without(@, p), !.balances = Without(@, p)]

RoomDisbanded(r) == [r EXCEPT !.seq = @ + 1, !.status = "disbanded"]

GameStarted(r, rules) ==
    [r EXCEPT !.seq = @ + 1, !.rules = rules, !.status = "in_progress",
              !.rounds = <<FreshRound(1)>>]

WinClaimed(r, p) ==
    [r EXCEPT !.seq = @ + 1,
              !.rounds[Last(r)] = [@ EXCEPT !.phase = "collecting", !.winner = p]]

\* cards_submitted and submitted_for differ only in who sent them.
Counted(round, p, cards) ==
    [round EXCEPT !.cards_submitted = [round.cards_submitted EXCEPT ![p] = cards]]

CardsSubmitted(r, target, cards) ==
    [r EXCEPT !.seq = @ + 1, !.rounds[Last(r)] = Counted(@, target, cards)]

CardCounts(round) ==
    [p \in Submitted(round) \cup {round.winner} |->
        IF p = round.winner THEN 0 ELSE round.cards_submitted[p]]

Resolved(round, paid) == [round EXCEPT !.phase = "resolved", !.transfers = @ \cup paid]

RoundResolved(r) ==
    LET paid == compute_card_transfers(CardCounts(Current(r)), r.rules)
    IN  [r EXCEPT !.seq = @ + 1,
                  !.balances = Moved(@, paid),
                  !.rounds = Append([@ EXCEPT ![Last(r)] = Resolved(Current(r), paid)],
                                    FreshRound(Current(r).round_no + 1))]

\* Mutant: everyone with a balance pays, those who stepped out too.
OthersAtTable_AllBalances(r, claimer) == DOMAIN r.balances \ {claimer}

OthersAtTable(r, claimer) == Members(r) \ {claimer}

ClaimAdded(round, claimer, paid) ==
    [round EXCEPT !.special_counts = [round.special_counts EXCEPT ![claimer] = @ + 1],
                  !.transfers = @ \cup paid]

SpecialHand(r, claimer) ==
    LET paid == compute_special_transfer(claimer, OthersAtTable(r, claimer), r.rules, r.seq + 1)
    IN  [r EXCEPT !.seq = @ + 1,
                  !.balances = Moved(@, paid),
                  !.rounds[Last(r)] = ClaimAdded(@, claimer, paid)]

\* The claimer's latest claim in the round, as its payments were recorded.
LatestClaim(round, claimer) ==
    LET mine == {t \in Specials(round) : t.to_player = claimer}
    IN  {t \in mine : \A u \in mine : u.claim_seq <= t.claim_seq}

ClaimRemoved(round, claimer, claim) ==
    [round EXCEPT !.special_counts = [round.special_counts EXCEPT ![claimer] = IF @ > 0 THEN @ - 1 ELSE 0],
                  !.transfers = @ \ claim]

SpecialHandVoided(r, claimer) ==
    LET claim == LatestClaim(Current(r), claimer)
    IN  [r EXCEPT !.seq = @ + 1,
                  !.balances = Reversed(@, claim),
                  !.rounds[Last(r)] = ClaimRemoved(@, claimer, claim)]

\* Mutant: the specials of the rounds a void drops are dropped with them.
SpecialsFrom_First(r, idx) == Specials(r.rounds[idx])

\* What a void keeps: the special hands of the round and of those it drops.
SpecialsFrom(r, idx) == UNION {Specials(r.rounds[i]) : i \in idx .. Last(r)}

\* Their number.  Only the last round or the one before it is ever voided
\* (VoidTarget), so at most one round is dropped.
CountsFrom(r, idx) ==
    [p \in Player |->
        r.rounds[idx].special_counts[p]
        + (IF idx < Last(r) THEN Current(r).special_counts[p] ELSE 0)]

\* Only the card payments of the round are given back.
RoundVoided(r, round_no) ==
    LET idx == CHOOSE i \in 1 .. Last(r) : r.rounds[i].round_no = round_no
        settled == r.rounds[idx].transfers \ Specials(r.rounds[idx])
        reverted == [FreshRound(round_no) EXCEPT !.special_counts = CountsFrom(r, idx),
                                                 !.transfers = SpecialsFrom(r, idx)]
    IN  [r EXCEPT !.seq = @ + 1,
                  !.balances = Reversed(@, settled),
                  !.rounds = Append(SubSeq(@, 1, idx - 1), reverted)]

GameEnded(r) ==
    [r EXCEPT !.seq = @ + 1, !.status = "ended",
              !.rounds = IF Last(r) > 0 /\ is_empty(Current(r))
                         THEN SubSeq(@, 1, Last(r) - 1) ELSE @]

\* Mutant: the lowest seat inherits, guest or not.
NextHost_AnySeat(members) ==
    CHOOSE p \in DOMAIN members : \A q \in DOMAIN members : members[p] <= members[q]

\* The lowest-seated account, or the lowest-seated guest when only guests stay.
NextHost(members) ==
    LET accounts == DOMAIN members \ Guest
        heirs == IF accounts = {} THEN DOMAIN members ELSE accounts
    IN  CHOOSE p \in heirs : \A q \in heirs : members[p] <= members[q]

PlayerSteppedOut(r, p) ==
    LET staying == Without(r.members, p)
    IN  [r EXCEPT !.seq = @ + 1, !.members = staying, !.departed = @ \cup {p},
                  !.host_id = IF @ = p /\ DOMAIN staying # {} THEN NextHost(staying) ELSE @]

-----------------------------------------------------------------------------
(* The commands: what each one requires, and the events it emits.          *)

CanJoin(r, p) == r.status = "lobby" /\ p \notin Members(r)

\* An account may join under a name that is taken; a guest is not seated under one.
NameTaken(r, g) == \E p \in Members(r) : display_name[p] = display_name[g]

CanAddGuest(r, actor, g) ==
    /\ actor = r.host_id /\ r.status = "lobby" /\ g \notin Members(r)
    /\ display_name[g] # None /\ ~NameTaken(r, g)

CanRemoveGuest(r, actor, g) ==
    actor = r.host_id /\ r.status = "lobby" /\ g \in Members(r) \cap Guest

CanLeave(r, actor) == actor \in Members(r) /\ r.status = "lobby" /\ actor # r.host_id

CanDisband(r, actor) == actor = r.host_id /\ r.status = "lobby"

CanStart(r, actor) ==
    actor = r.host_id /\ r.status = "lobby" /\ Cardinality(Members(r)) >= 2

MayPlay(r, actor) == r.status = "in_progress" /\ actor \in Members(r)

CanClaimWin(r, actor) == MayPlay(r, actor) /\ InPhase(r, "playing")

CanSubmit(r, actor, target, cards) ==
    /\ MayPlay(r, actor)
    /\ target \in Members(r)
    /\ InPhase(r, "collecting")
    /\ target # Current(r).winner
    /\ target \notin Submitted(Current(r))
    /\ 1 <= cards /\ cards <= MAX_CARDS

CanSubmitFor(r, actor, target, cards) ==
    actor = r.host_id /\ CanSubmit(r, actor, target, cards)

AllCountsIn(r) ==
    Members(r) \ {Current(r).winner} \subseteq Submitted(Current(r))

\* The last missing count resolves the round in the same command.
DoSubmit(r, target, cards) ==
    LET submitted == CardsSubmitted(r, target, cards)
    IN  IF AllCountsIn(submitted) THEN RoundResolved(submitted) ELSE submitted

CanAddSpecial(r, actor) ==
    /\ MayPlay(r, actor)
    /\ r.rules.special_hands_enabled
    /\ InPhase(r, "playing") \/ InPhase(r, "collecting")

CanVoidSpecial(r, actor) ==
    MayPlay(r, actor) /\ Last(r) > 0 /\ Current(r).special_counts[actor] > 0

\* The current round once a win was claimed in it, else the one before (0: none).
VoidTarget(r) == IF InPhase(r, "playing") THEN Last(r) - 1 ELSE Last(r)

CanVoidRound(r, actor) ==
    /\ MayPlay(r, actor)
    /\ VoidTarget(r) > 0
    /\ actor \in {r.host_id, r.rounds[VoidTarget(r)].winner}

DoVoidRound(r) == RoundVoided(r, r.rounds[VoidTarget(r)].round_no)

CanStepOut(r, actor) == MayPlay(r, actor)

\* Up to three events: void a round that is collecting, go, end a table of one.
DoStepOut(r, actor) ==
    LET opened == IF InPhase(r, "collecting")
                  THEN RoundVoided(r, Current(r).round_no) ELSE r
        gone == PlayerSteppedOut(opened, actor)
    IN  IF Cardinality(Members(r)) - 1 < 2 THEN GameEnded(gone) ELSE gone

\* Mutant: a game ends with a round still collecting.
CanEnd_AnyPhase(r, actor) == r.status = "in_progress" /\ actor = r.host_id

CanEnd(r, actor) ==
    r.status = "in_progress" /\ actor = r.host_id /\ ~InPhase(r, "collecting")

-----------------------------------------------------------------------------
(* The room as a state machine: one action per command.                    *)

Account == Player \ Guest

Join(p) == CanJoin(room, p) /\ room' = PlayerJoined(room, p)

AddGuest(actor, g) ==
    CanAddGuest(room, actor, g) /\ room' = PlayerJoined(room, g)

RemoveGuest(actor, g) ==
    CanRemoveGuest(room, actor, g) /\ room' = PlayerLeft(room, g)

Leave(p) == CanLeave(room, p) /\ room' = PlayerLeft(room, p)

Disband(p) == CanDisband(room, p) /\ room' = RoomDisbanded(room)

Start(p, rules) == CanStart(room, p) /\ room' = GameStarted(room, rules)

ClaimWin(p) == CanClaimWin(room, p) /\ room' = WinClaimed(room, p)

SubmitCards(p, cards) ==
    CanSubmit(room, p, p, cards) /\ room' = DoSubmit(room, p, cards)

SubmitFor(p, target, cards) ==
    CanSubmitFor(room, p, target, cards) /\ room' = DoSubmit(room, target, cards)

AddSpecial(p) == CanAddSpecial(room, p) /\ room' = SpecialHand(room, p)

VoidSpecial(p) == CanVoidSpecial(room, p) /\ room' = SpecialHandVoided(room, p)

VoidLastRound(p) == CanVoidRound(room, p) /\ room' = DoVoidRound(room)

StepOut(p) == CanStepOut(room, p) /\ room' = DoStepOut(room, p)

EndGame(p) == CanEnd(room, p) /\ room' = GameEnded(room)

Init == \E host \in Account : room = NewRoom(host)

LobbyStep ==
    \/ \E p \in Account : Join(p)
    \/ \E p \in Player, g \in Guest : AddGuest(p, g) \/ RemoveGuest(p, g)
    \/ \E p \in Player : Leave(p) \/ Disband(p)
    \/ \E p \in Player, rules \in RuleChoices : Start(p, rules)

GameStep ==
    \E p \in Player :
        \/ ClaimWin(p) \/ AddSpecial(p) \/ VoidSpecial(p)
        \/ VoidLastRound(p) \/ StepOut(p) \/ EndGame(p)
        \/ \E cards \in CardInputs : SubmitCards(p, cards)
        \/ \E target \in Player, cards \in CardInputs : SubmitFor(p, target, cards)

Command == LobbyStep \/ GameStep

Within == room.seq < MaxSeq

Next == Within /\ Command

Spec == Init /\ [][Next]_room

-----------------------------------------------------------------------------
(* Invariants.  Those with a proof in TaidiRoomProofs are predicates on a  *)
(* room, so that lemmas can speak of the rooms between two events.         *)

\* Which fields a room has and what they hold, the amounts of money left open.
IsRoom(r) ==
    /\ DOMAIN r = {"status", "seq", "host_id", "members", "rules", "rounds",
                   "balances", "departed"}
    /\ r.status \in Statuses
    /\ r.seq \in Nat
    /\ r.host_id \in Player
    /\ Members(r) \subseteq Player
    /\ r.members \in [Members(r) -> Nat]
    /\ r.rules \in GameRules \cup {None}
    /\ r.status = "in_progress" => r.rules # None
    /\ r.rounds \in Seq(RoundState)
    /\ r.departed \subseteq Player
    /\ DOMAIN r.balances = Members(r) \cup r.departed

Hosted(r) ==
    r.status \in {"lobby", "in_progress"} =>
        /\ r.host_id \in Members(r)
        /\ r.host_id \in Guest => r.status = "in_progress" /\ Members(r) \subseteq Guest

Ordered(r) ==
    /\ \A i \in 1 .. Last(r) :
        /\ r.rounds[i].round_no = i
        /\ i < Last(r) => r.rounds[i].phase = "resolved"
    /\ r.status \in {"lobby", "disbanded"} => r.rounds = << >>
    /\ r.status = "in_progress" => InPhase(r, "playing") \/ InPhase(r, "collecting")
    /\ r.status = "ended" => ~InPhase(r, "collecting")

Finishable(r) ==
    /\ InPhase(r, "playing") => Submitted(Current(r)) = {}
    /\ InPhase(r, "collecting") =>
        /\ Current(r).winner \in Members(r)
        /\ Submitted(Current(r)) \subseteq Members(r) \ {Current(r).winner}
        /\ ~AllCountsIn(r)

Staffed(r) ==
    /\ Members(r) \cap r.departed = {}
    /\ r.status \in {"lobby", "disbanded"} => r.departed = {}
    /\ r.status = "in_progress" => Cardinality(Members(r)) >= 2

GoodRoom(r) == IsRoom(r) /\ Hosted(r) /\ Ordered(r) /\ Finishable(r) /\ Staffed(r)

\* The types of the room.  Exactly the members and those who stepped out have a
\* balance, so apply never meets a payment to a player it has no entry for.
TypeOK == IsRoom(room) /\ room.balances \in [DOMAIN room.balances -> Int]

\* Two members never share a seat, whoever left before them: seat order decides
\* who becomes host (_lowest_free_seat).
SeatsDistinct ==
    \A p, q \in Members(room) : room.members[p] = room.members[q] => p = q

\* As long as a room is open its host sits at the table, and a guest, for whom
\* nobody could act, holds the title only over guests.  Ending, disbanding and
\* submitting for others are host-only: without this the room could never be
\* closed (machine.py PLAYER_STEPPED_OUT).
HostPresides == Hosted(room)

\* Rounds are numbered 1, 2, ... through every void; all but the last are resolved;
\* a running game has exactly one open round, at the end; and a finished game has
\* no round still waiting for counts whose money the settlement would miss.  (The
\* docstring of TaidiPlayerStats, models.py:260, has it that a claimed round "can
\* survive into an ended room's final state"; end_game refuses to leave one behind,
\* and what does survive is a round being played with special hands in it.)
RoundsInOrder == Ordered(room)

\* A round nobody has won holds no card counts left over from an attempt that was
\* voided, and a round that collects counts can still be finished: its claimant is at the
\* table, only losers at the table have submitted, and one of them is still to
\* come.  Otherwise no submission would ever resolve it (step_out voids it for
\* this reason).
CollectingCanFinish == Finishable(room)

\* Nobody is at the table and departed at once, a lobby forgets who leaves, and a
\* running game keeps two players (step_out ends it before).
TableStaffed == Staffed(room)

AllPayments(r) == UNION {r.rounds[i].transfers : i \in 1 .. Last(r)}

-----------------------------------------------------------------------------
(* Action properties.                                                      *)

Finished == room.status \in {"ended", "disbanded"}

\* Once a game has ended or a room was disbanded nothing changes any more: its
\* balances have become debts.
FinishedIsFinal == [][~Finished]_room

PaymentsOf(r, p) == {t \in AllPayments(r) : p \in {t.from_player, t.to_player}}

AllSpecials(r) == {t \in AllPayments(r) : t.kind = "special"}

\* The special payments in lost are those of one claim, and nothing else in the ledger
\* changes with them.
OneClaimUndone(lost) ==
    /\ \A t, u \in AllSpecials(room) : t \in lost /\ u.claim_seq = t.claim_seq => u \in lost
    /\ \A t, u \in lost : t.claim_seq = u.claim_seq
    /\ AllPayments(room') = AllPayments(room) \ lost

\* Who pays whom only changes where it should.  Someone who stepped out is never charged
\* or paid anew: later steps can only give payments of theirs back.  And special hands
\* are undone one claim at a time and only by an undo: voiding a round, stepping out and
\* ending keep them all.
PaymentsStand ==
    [][/\ \A p \in room.departed : PaymentsOf(room', p) \subseteq PaymentsOf(room, p)
       /\ LET lost == AllSpecials(room) \ AllSpecials(room')
          IN  lost # {} => OneClaimUndone(lost)]_room
=============================================================================
