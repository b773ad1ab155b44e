----------------------------- MODULE MahjongRoom -----------------------------
(***************************************************************************)
(* One Mahjong room: core/mahjong_core/machine.py over the RoomState of    *)
(* core/mahjong_core/models.py.  Laid out like TaidiRoom: events are       *)
(* operators on rooms, commands a guard Can<Command> and the one event     *)
(* each of them emits.                                                     *)
(*                                                                         *)
(* A hand keeps what each player won or lost in it (`paid') instead of the *)
(* list of its payments; mode, tai and declarations of a hand, which only  *)
(* statistics read, are left out.                                          *)
(***************************************************************************)
EXTENDS MahjongRules, Seating, Sequences, FiniteSetsExt

CONSTANTS
    Player,       \* everyone who can sit at a table, accounts and guests
    Guest,        \* those without an account
    display_name, \* what each is called, case and spacing apart; None where the
                  \* name is empty or longer than MAX_GUEST_NAME
    None,         \* no player, no rules
    RuleChoices,  \* the rules a host may pick from when starting
    SeatMaps,     \* the (partial) seat maps a host may send
    SeatInputs,   \* the seats a declaration may name, good or bad
    TaiInputs,    \* the tai a win may state, good or bad
    MAX_WINDS,    \* winds of a full cycle: 4 in the code
    MaxSeq        \* bound: a room with this many events takes no more commands

ASSUME PlayerAssumption ==
    /\ IsFiniteSet(Player)
    /\ Guest \subseteq Player
    /\ None \notin Player
    /\ DOMAIN display_name = Player

ASSUME InputAssumption ==
    /\ \A rules \in RuleChoices : ValidRules(rules)
    /\ None \notin RuleChoices
    /\ SeatInputs \subseteq Int
    /\ TaiInputs \subseteq Int
    /\ MAX_WINDS \in Nat \ {0}
    /\ MaxSeq \in Nat

VARIABLE room

SEAT_COUNT == 4

Statuses == {"lobby", "in_progress", "ended", "disbanded"}

Account == Player \ Guest

-----------------------------------------------------------------------------
(* The state.                                                              *)

NewRoom(host) ==
    [status |-> "lobby", seq |-> 0, host_id |-> host, members |-> [p \in {host} |-> 0],
     rules |-> None, hands |-> << >>, balances |-> [p \in {host} |-> 0],
     pending_wind_decision |-> FALSE]

HandStates ==
    [hand_no: Nat, wind: Nat \ {0}, dealer_seat: 0 .. SEAT_COUNT - 1, had_gang: BOOLEAN,
     closed: BOOLEAN, winner: Player \cup {None}, paid: [Player -> Int]]

\* An open hand.
HandState(hand_no, wind, dealer_seat) ==
    [hand_no |-> hand_no, wind |-> wind, dealer_seat |-> dealer_seat, had_gang |-> FALSE,
     closed |-> FALSE, winner |-> None, paid |-> [p \in Player |-> 0]]

Members(r) == DOMAIN r.members

Last(r) == Len(r.hands)

Current(r) == r.hands[Last(r)]

SeatTaken(r, seat) == \E p \in Members(r) : r.members[p] = seat

SeatPlayer(r, seat) == CHOOSE p \in Members(r) : r.members[p] = seat

Others(r, p) == Members(r) \ {p}

-----------------------------------------------------------------------------
(* Payments, in units of the rules: every payer gives the payee `amount'.  *)

Charge(payers, payee, amount) ==
    [p \in Player |-> IF p \in payers THEN -amount
                      ELSE IF p = payee THEN amount * Cardinality(payers) ELSE 0]

Yao(r, actor, seat, an) ==
    LET target == SeatPlayer(r, seat)
    IN  Charge(IF target = actor THEN Others(r, actor) ELSE {target}, actor,
               yao_amount(r.rules, an))

Gang(r, actor, seat) ==
    LET target == SeatPlayer(r, seat)
    IN  IF target = actor THEN Charge(Others(r, actor), actor, gang_amount_self(r.rules))
        ELSE Charge({target}, actor, gang_amount_other(r.rules))

Angang(r, actor) == Charge(Others(r, actor), actor, gang_amount_angang(r.rules))

Modes == {"direct", "zimo", "bao"}

Hu(r, actor, h) ==
    IF h.mode = "zimo"
    THEN Charge(Others(r, actor), actor,
                hu_amount_zimo_each(r.rules, h.tai)
                + (IF h.zimo_bonus THEN r.rules.zimo_bonus_amount ELSE 0)
                + (IF h.klppdd THEN klppdd_amount_each(r.rules) ELSE 0))
    ELSE Charge({SeatPlayer(r, h.target_seat)}, actor,
                (IF h.mode = "direct" THEN hu_amount_direct(r.rules, h.tai)
                 ELSE hu_amount_bao(r.rules, h.tai))
                + (IF h.klppdd THEN klppdd_amount_single_payer(r.rules) ELSE 0))

-----------------------------------------------------------------------------
(* apply: how one event changes the room.                                  *)

PlayerJoined(r, p) ==
    [r EXCEPT !.seq = @ + 1,
              !.members = With(@, p, LowestFreeSeat(@)),
              !.balances = With(@, p, 0)]

PlayerLeft(r, p) ==
    [r EXCEPT !.seq = @ + 1, !.members = Without(@, p), !.balances = Without(@, p)]

RoomDisbanded(r) == [r EXCEPT !.seq = @ + 1, !.status = "disbanded"]

Reseated(members, seat_map) ==
    [p \in DOMAIN members |-> IF p \in DOMAIN seat_map THEN seat_map[p] ELSE members[p]]

SeatsAssigned(r, seat_map) == [r EXCEPT !.seq = @ + 1, !.members = Reseated(@, seat_map)]

GameStarted(r, rules) ==
    [r EXCEPT !.seq = @ + 1, !.rules = rules, !.status = "in_progress",
              !.hands = <<HandState(1, 1, 0)>>]

\* Mutant: the hand keeps units, the balances cents.
InHand_Units(r, paid) == [p \in Player |-> Current(r).paid[p] + paid[p]]

\* What the players won or lost in the hand, the new payments included.
InHand(r, paid) == [p \in Player |-> Current(r).paid[p] + paid[p] * r.rules.cents_per_unit]

Credited(r, paid) == [p \in DOMAIN r.balances |-> r.balances[p] + paid[p] * r.rules.cents_per_unit]

YaoDeclared(r, paid) ==
    [r EXCEPT !.seq = @ + 1, !.balances = Credited(r, paid),
              !.hands[Last(r)] = [Current(r) EXCEPT !.paid = InHand(r, paid)]]

GangDeclared(r, paid) ==
    [r EXCEPT !.seq = @ + 1, !.balances = Credited(r, paid),
              !.hands[Last(r)] = [Current(r) EXCEPT !.paid = InHand(r, paid), !.had_gang = TRUE]]

\* The last seat of the last wind, or of any wind after it.
is_final_hand(hand) == hand.wind >= MAX_WINDS /\ hand.dealer_seat = SEAT_COUNT - 1

\* Wind and dealer of the hand that follows, unless the host is to decide.
NextDeal(hand, should_rotate) ==
    LET next_seat == (hand.dealer_seat + 1) % SEAT_COUNT
    IN  IF ~should_rotate \/ is_final_hand(hand) THEN <<hand.wind, hand.dealer_seat>>
        ELSE <<IF next_seat = 0 THEN hand.wind + 1 ELSE hand.wind, next_seat>>

OpenNextHand(hands, deal) ==
    Append(hands, HandState(hands[Len(hands)].hand_no + 1, deal[1], deal[2]))

HandClosed(r, winner, paid) ==
    [r.hands EXCEPT ![Last(r)] =
        [Current(r) EXCEPT !.closed = TRUE, !.winner = winner, !.paid = InHand(r, paid)]]

HuDeclared(r, actor, paid) ==
    LET hand == Current(r)
        closed == HandClosed(r, actor, paid)
    IN  [r EXCEPT !.seq = @ + 1, !.balances = Credited(r, paid),
                  !.pending_wind_decision = is_final_hand(hand),
                  !.hands = IF is_final_hand(hand) THEN closed
                            ELSE OpenNextHand(closed,
                                     NextDeal(hand, r.members[actor] # hand.dealer_seat))]

NoWinDeclared(r) ==
    [r EXCEPT !.seq = @ + 1, !.pending_wind_decision = FALSE,
              !.hands = OpenNextHand(HandClosed(r, None, [p \in Player |-> 0]),
                                     NextDeal(Current(r), Current(r).had_gang))]

\* Mutant: the new wind starts where the old one stopped.
WindContinued_SameSeat(r) ==
    [r EXCEPT !.seq = @ + 1, !.pending_wind_decision = FALSE,
              !.hands = OpenNextHand(@, <<Current(r).wind + 1, Current(r).dealer_seat>>)]

WindContinued(r) ==
    [r EXCEPT !.seq = @ + 1, !.pending_wind_decision = FALSE,
              !.hands = OpenNextHand(@, <<Current(r).wind + 1, 0>>)]

GameEnded(r) ==
    [r EXCEPT !.seq = @ + 1, !.status = "ended", !.pending_wind_decision = FALSE]

-----------------------------------------------------------------------------
(* The commands: what each one requires.                                   *)

CanJoin(r, p) ==
    r.status = "lobby" /\ p \notin Members(r) /\ Cardinality(Members(r)) < SEAT_COUNT

\* An account may join under a name that is taken; a guest is not seated under one.
NameTaken(r, g) == \E p \in Members(r) : display_name[p] = display_name[g]

CanAddGuest(r, actor, g) ==
    actor = r.host_id /\ CanJoin(r, g) /\ display_name[g] # None /\ ~NameTaken(r, g)

CanRemoveGuest(r, actor, g) ==
    actor = r.host_id /\ r.status = "lobby" /\ g \in Members(r) \cap Guest

CanLeave(r, actor) == actor \in Members(r) /\ r.status = "lobby" /\ actor # r.host_id

CanDisband(r, actor) == actor = r.host_id /\ r.status = "lobby"

AllSeats(members) == {members[p] : p \in DOMAIN members} = 0 .. SEAT_COUNT - 1

\* Mutant: the result need not give each seat to one player.
CanAssignSeats_AnyMap(r, actor, seat_map) ==
    /\ actor = r.host_id /\ r.status = "lobby"
    /\ Cardinality(Members(r)) = SEAT_COUNT
    /\ DOMAIN seat_map \subseteq Members(r)

CanAssignSeats(r, actor, seat_map) ==
    /\ actor = r.host_id /\ r.status = "lobby"
    /\ Cardinality(Members(r)) = SEAT_COUNT
    /\ DOMAIN seat_map \subseteq Members(r)
    /\ AllSeats(Reseated(r.members, seat_map))

CanStart(r, actor) ==
    /\ actor = r.host_id /\ r.status = "lobby"
    /\ Cardinality(Members(r)) = SEAT_COUNT
    /\ AllSeats(r.members)

\* Mutant: a closed hand still takes declarations.
MayDeclare_Closed(r, actor) == r.status = "in_progress" /\ actor \in Members(r)

\* _require_in_progress, _require_member and _require_open_hand.
MayDeclare(r, actor) ==
    /\ r.status = "in_progress"
    /\ actor \in Members(r)
    /\ Last(r) > 0 /\ ~Current(r).closed

CanHu(r, actor, h) ==
    /\ MayDeclare(r, actor)
    /\ 1 <= h.tai /\ h.tai <= r.rules.max_tai
    /\ h.zimo_bonus => h.mode = "zimo"
    /\ h.mode # "zimo" => SeatTaken(r, h.target_seat) /\ SeatPlayer(r, h.target_seat) # actor

CanContinueWind(r, actor) ==
    actor = r.host_id /\ r.status = "in_progress" /\ r.pending_wind_decision

CanEnd(r, actor) == actor = r.host_id /\ r.status = "in_progress"

-----------------------------------------------------------------------------
(* The room as a state machine: one action per command.                    *)

Join(p) == CanJoin(room, p) /\ room' = PlayerJoined(room, p)

AddGuest(actor, g) == CanAddGuest(room, actor, g) /\ room' = PlayerJoined(room, g)

RemoveGuest(actor, g) == CanRemoveGuest(room, actor, g) /\ room' = PlayerLeft(room, g)

Leave(p) == CanLeave(room, p) /\ room' = PlayerLeft(room, p)

Disband(p) == CanDisband(room, p) /\ room' = RoomDisbanded(room)

AssignSeats(p, seat_map) ==
    CanAssignSeats(room, p, seat_map) /\ room' = SeatsAssigned(room, seat_map)

Start(p, rules) == CanStart(room, p) /\ room' = GameStarted(room, rules)

DeclareYao(p, seat, an) ==
    /\ MayDeclare(room, p) /\ SeatTaken(room, seat)
    /\ room' = YaoDeclared(room, Yao(room, p, seat, an))

DeclareGang(p, seat) ==
    /\ MayDeclare(room, p) /\ SeatTaken(room, seat)
    /\ room' = GangDeclared(room, Gang(room, p, seat))

DeclareAngang(p) ==
    /\ MayDeclare(room, p)
    /\ room' = GangDeclared(room, Angang(room, p))

DeclareHu(p, h) == CanHu(room, p, h) /\ room' = HuDeclared(room, p, Hu(room, p, h))

DeclareNoWin(p) == MayDeclare(room, p) /\ room' = NoWinDeclared(room)

ContinueWind(p) == CanContinueWind(room, p) /\ room' = WindContinued(room)

EndGame(p) == CanEnd(room, p) /\ room' = GameEnded(room)

Init == \E host \in Account : room = NewRoom(host)

LobbyStep ==
    \/ \E p \in Account : Join(p)
    \/ \E p \in Player, g \in Guest : AddGuest(p, g) \/ RemoveGuest(p, g)
    \/ \E p \in Player : Leave(p) \/ Disband(p)
    \/ \E p \in Player, seat_map \in SeatMaps : AssignSeats(p, seat_map)
    \/ \E p \in Player, rules \in RuleChoices : Start(p, rules)

HuInputs ==
    [mode : Modes, target_seat : SeatInputs, tai : TaiInputs,
     zimo_bonus : BOOLEAN, klppdd : BOOLEAN]

HandStep ==
    \E p \in Player :
        \/ \E seat \in SeatInputs, an \in BOOLEAN : DeclareYao(p, seat, an)
        \/ \E seat \in SeatInputs : DeclareGang(p, seat)
        \/ DeclareAngang(p)
        \/ \E h \in HuInputs : DeclareHu(p, h)
        \/ DeclareNoWin(p) \/ ContinueWind(p) \/ EndGame(p)

Command == LobbyStep \/ HandStep

Within == room.seq < MaxSeq

Next == Within /\ Command

Spec == Init /\ [][Next]_room

-----------------------------------------------------------------------------
(* Invariants, as predicates on a room where they are proved               *)
(* (MahjongRoomProofs).                                                    *)

IsRoom(r) ==
    /\ DOMAIN r = {"status", "seq", "host_id", "members", "rules", "hands", "balances",
                   "pending_wind_decision"}
    /\ r.status \in Statuses
    /\ r.seq \in Nat
    /\ r.host_id \in Account
    /\ Members(r) \subseteq Player
    /\ r.members \in [Members(r) -> 0 .. SEAT_COUNT - 1]
    /\ r.status \in {"lobby", "in_progress"} => r.host_id \in Members(r)
    /\ r.status = "in_progress" => r.rules \in RuleChoices
    /\ r.hands \in Seq(HandStates)
    /\ r.balances \in [Members(r) -> Int]
    /\ r.pending_wind_decision \in BOOLEAN

Seated(r) ==
    /\ \A p, q \in Members(r) : r.members[p] = r.members[q] => p = q
    /\ r.status \in {"in_progress", "ended"} => AllSeats(r.members)

Ordered(r) ==
    /\ \A i \in 1 .. Last(r) :
        /\ r.hands[i].hand_no = i
        /\ i < Last(r) => r.hands[i].closed
    /\ r.status \in {"lobby", "disbanded"} => r.hands = << >>
    /\ r.status = "in_progress" =>
        /\ Last(r) > 0
        /\ Current(r).closed <=> r.pending_wind_decision
    /\ r.pending_wind_decision =>
        /\ r.status = "in_progress"
        /\ is_final_hand(Current(r)) /\ Current(r).winner # None

\* How far round the table and the winds a hand is.
Position(hand) == SEAT_COUNT * hand.wind + hand.dealer_seat

\* The rule as the docstring of _plan_hand_close states it: in the last seat of a
\* last wind a win always ends the wind and a no-win hand repeats; elsewhere a win
\* passes the deal unless the dealer won, a no-win hand does if there was a gang.
PassesDeal(hand, members) ==
    IF hand.winner = None THEN hand.had_gang /\ ~is_final_hand(hand)
    ELSE is_final_hand(hand) \/ members[hand.winner] # hand.dealer_seat

Dealt(r) ==
    /\ Last(r) > 0 => Position(r.hands[1]) = SEAT_COUNT
    /\ \A i \in 1 .. Last(r) - 1 :
        Position(r.hands[i + 1]) =
            Position(r.hands[i]) + (IF PassesDeal(r.hands[i], r.members) THEN 1 ELSE 0)

AtSeat(r, seat) == r.balances[SeatPlayer(r, seat)]

Balanced(r) ==
    /\ r.status \in {"lobby", "disbanded"} => \A p \in Members(r) : r.balances[p] = 0
    /\ r.status \in {"in_progress", "ended"} =>
            AtSeat(r, 0) + AtSeat(r, 1) + AtSeat(r, 2) + AtSeat(r, 3) = 0

Accounted(r) ==
    \A p \in Members(r) :
        r.balances[p] = SumFunction([i \in 1 .. Last(r) |-> r.hands[i].paid[p]])

GoodRoom(r) == IsRoom(r) /\ Seated(r) /\ Ordered(r) /\ Dealt(r) /\ Balanced(r)

\* The types of the room and of its hands: a running game has its host, its rules
\* and a balance for everyone in it.
TypeOK == IsRoom(room)

\* Two players never share a seat, and in a game each of the seats 0 to 3 has its
\* player, after any mix of leaving, joining and rearranging: "two players in one
\* seat means declaring against a seat charges the wrong person" (machine.py).
EverySeatOnePlayer == Seated(room)

\* A full table always passes the seat check of start_game.
FullTableCanStart ==
    room.status = "lobby" /\ Cardinality(Members(room)) = SEAT_COUNT => AllSeats(room.members)

\* Hands are numbered 1, 2, ... and closed but for the last; the last one is open
\* unless the host has to decide on the wind, which he has only after a win in
\* the last seat of a last wind.  So a running game always has somebody to move.
HandsInOrder == Ordered(room)

\* Deal and wind go round together, one seat at a time and only when the rule
\* passes the deal, through every win, no-win and continued wind.
DealFollowsTheRule == Dealt(room)

\* Nothing is won that nobody lost: the four balances of a game add up to nothing
\* whatever was declared, three payers or one (_apply_transfers).
MoneyConserved == Balanced(room)

\* Each balance is what the hands say the player won or lost in them.
LedgerMatchesBalances == Accounted(room)

\* A hand that was closed never changes and hands never go away, so a hand number
\* names one hand for ever: the pin of a declaration cannot hit another hand.
ClosedHandsAreFinal ==
    [][/\ Last(room') >= Last(room)
       /\ \A i \in 1 .. Last(room) : room.hands[i].closed => room'.hands[i] = room.hands[i]]_room
=============================================================================
