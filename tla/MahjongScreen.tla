---------------------------- MODULE MahjongScreen ----------------------------
(***************************************************************************)
(* The Mahjong screen of the web client, web/src/app/room/MahjongRoom.tsx, *)
(* as a function of the room it shows and of what its owner has tapped so  *)
(* far: which commands can be sent, for whom, and what the API makes of    *)
(* them.  As in TaidiScreen a phone belongs to an account and the host's   *)
(* phone enters the turns of the guests.                                   *)
(***************************************************************************)
EXTENDS MahjongRoom, TLC

isMember(r, me) == me \in Members(r)

isHost(r, me) == r.host_id = me

guests(r, me) == IF isHost(r, me) THEN Members(r) \cap Guest ELSE {}

\* Whom a declaration is for: the picked guest, or the phone's owner.
Actor(r, me, pick) == IF pick \in guests(r, me) THEN pick ELSE me

\* dispatch.acting_as
ActsFor(r, caller, p) == p = caller \/ p \in guests(r, caller)

NoSeat == -1

NoHu == [mode |-> "none", target_seat |-> NoSeat, tai |-> 0, zimo_bonus |-> FALSE, klppdd |-> FALSE]

\* A command as the phone sends it, its arguments empty where it has none.
Cmd(name, caller, actor) ==
    [name |-> name, caller |-> caller, actor |-> actor, seat |-> NoSeat, an |-> FALSE,
     h |-> NoHu, seat_map |-> << >>]

Live(condition, c) == IF condition THEN {c} ELSE {}

-----------------------------------------------------------------------------
(* Lobby *)

canRearrange(r, me) == isHost(r, me) /\ Cardinality(Members(r)) = 4

\* Mutant: the whole table is sent, as it was shown.
SwapSeats_WholeTable(r, me, p, q) ==
    [Cmd("assign_seats", me, me) EXCEPT
        !.seat_map = [r.members EXCEPT ![p] = r.members[q], ![q] = r.members[p]]]

\* The second tap of two trades the seats of the players tapped.
SwapSeats(r, me, p, q) ==
    [Cmd("assign_seats", me, me) EXCEPT !.seat_map =
        [x \in {p, q} |-> IF x = p THEN r.members[q] ELSE r.members[p]]]

Swaps(r, me) ==
    IF canRearrange(r, me)
    THEN {SwapSeats(r, me, t[1], t[2]) : t \in {u \in Members(r) \X Members(r) : u[1] # u[2]}}
    ELSE {}

AddGuestForm(r, me) == isHost(r, me) /\ isMember(r, me) /\ Cardinality(Members(r)) < 4

\* The form takes any name that is neither blank nor too long, taken or not.
Enterable(g) == display_name[g] # None

LobbyCommands(r, me, blocked) ==
    IF r.status # "lobby" THEN {}
    ELSE Live(~isMember(r, me) /\ ~blocked /\ Cardinality(Members(r)) < 4, Cmd("join", me, me))
         \cup Live(isMember(r, me) /\ isHost(r, me) /\ Cardinality(Members(r)) = 4,
                   Cmd("start", me, me))
         \cup Live(isMember(r, me) /\ isHost(r, me), Cmd("disband", me, me))
         \cup Live(isMember(r, me) /\ ~isHost(r, me), Cmd("leave", me, me))
         \cup {Cmd("remove_guest", me, g) : g \in guests(r, me)}
         \cup {Cmd("add_guest", me, g) :
                  g \in {h \in Guest \ Members(r) : AddGuestForm(r, me) /\ Enterable(h)}}
         \cup Swaps(r, me)

-----------------------------------------------------------------------------
(* The flows.  Each is opened for a hand and collects what a declaration   *)
(* needs; `tai' and the toggles keep their value until the flow closes.    *)

Flow(kind, handNo) ==
    [kind |-> kind, handNo |-> handNo, step |-> "pick", mode |-> "direct", seat |-> NoSeat,
     tai |-> 1, zimoBonus |-> FALSE, klppdd |-> FALSE]

NoFlow == Flow("none", 0)

PlayerPicker(exclude) == (0 .. 3) \ {exclude}

\* YaoFlow, first tap.
YaoPicked(f, seat) == [f EXCEPT !.step = "how", !.seat = seat]

\* Mutant: a self-draw is sent as a win off one's own seat.
HuPicked_Self(f, mySeat, seat) == [f EXCEPT !.step = "tai", !.mode = "direct", !.seat = seat]

HuPicked(f, mySeat, seat) ==
    IF seat = mySeat
    THEN [f EXCEPT !.step = "tai", !.mode = "zimo", !.seat = NoSeat]
    ELSE [f EXCEPT !.step = "tai", !.mode = "direct", !.seat = seat]

BaoPicked(f, seat) == [f EXCEPT !.step = "tai", !.mode = "bao", !.seat = seat]

\* Mutant: both toggles are there for a self-draw only.
HuTuned_SelfDraw(f, maxTai) ==
    {[f EXCEPT !.tai = IF @ < maxTai THEN @ + 1 ELSE maxTai]}
    \cup (IF f.mode = "zimo" THEN {[f EXCEPT !.zimoBonus = ~@], [f EXCEPT !.klppdd = ~@]} ELSE {})

\* The buttons of HuFlow that change nothing but the form.
HuTuned(f, maxTai) ==
    {[f EXCEPT !.tai = IF @ > 1 THEN @ - 1 ELSE 1],
     [f EXCEPT !.tai = IF @ < maxTai THEN @ + 1 ELSE maxTai],
     [f EXCEPT !.klppdd = ~@]}
    \cup (IF f.mode = "zimo" THEN {[f EXCEPT !.zimoBonus = ~@]} ELSE {})

\* The flows one tap leads to, none of them a submit, when the player it is for sits
\* at mySeat.
Tapped(f, mySeat, maxTai) ==
    CASE f.kind = "yao" /\ f.step = "pick" -> {YaoPicked(f, seat) : seat \in PlayerPicker(NoSeat)}
      [] f.kind = "hu" /\ f.step = "pick" ->
            {[f EXCEPT !.step = "pick-bao"]}
            \cup {HuPicked(f, mySeat, seat) : seat \in PlayerPicker(NoSeat)}
      [] f.kind = "hu" /\ f.step = "pick-bao" ->
            {BaoPicked(f, seat) : seat \in PlayerPicker(mySeat)}
      [] f.kind = "hu" /\ f.step = "tai" -> HuTuned(f, maxTai)
      [] OTHER -> {}

HuSent(f) ==
    [mode |-> f.mode, target_seat |-> f.seat, tai |-> f.tai, zimo_bonus |-> f.zimoBonus,
     klppdd |-> f.klppdd]

\* The declarations the next tap sends.
Submits(f, me, actor) ==
    CASE f.kind = "yao" /\ f.step = "how" ->
            {[Cmd("yao", me, actor) EXCEPT !.seat = f.seat, !.an = an] : an \in BOOLEAN}
      [] f.kind = "gang" ->
            {[Cmd("gang", me, actor) EXCEPT !.seat = seat] : seat \in PlayerPicker(NoSeat)}
            \cup {Cmd("angang", me, actor)}
      [] f.kind = "hu" /\ f.step = "tai" -> {[Cmd("hu", me, actor) EXCEPT !.h = HuSent(f)]}
      [] OTHER -> {}

OneTapMore(forms, mySeat, maxTai) ==
    forms \cup (UNION {Tapped(f, mySeat, maxTai) : f \in forms})

Opening == {Flow(kind, 1) : kind \in {"yao", "gang", "hu"}}

\* What the flows of a hand look like after so many taps.
FormsAfter(most, mySeat, maxTai) ==
    LET after[taps \in 0 .. most] ==
            IF taps = 0 THEN Opening ELSE OneTapMore(after[taps - 1], mySeat, maxTai)
    IN  after[most]

\* Every form they can take, by seat and top tai.  The longest way is two taps to who
\* pays, one for each further tai, and the toggles.
Forms ==
    [mySeat \in 0 .. 3 |-> [maxTai \in {rules.max_tai : rules \in RuleChoices} |->
        FormsAfter(maxTai + 2, mySeat, maxTai)]]

FormsFor(r, p) == Forms[r.members[p]][r.rules.max_tai]

-----------------------------------------------------------------------------
(* TableView *)

Deciding(r) == r.status = "in_progress" /\ r.pending_wind_decision

AtTable(r, me) == r.status = "in_progress" /\ ~r.pending_wind_decision /\ isMember(r, me)

WindDecisionView(r, me) ==
    IF Deciding(r) /\ isHost(r, me)
    THEN {Cmd("continue_wind", me, me), Cmd("end_game", me, me)} ELSE {}

\* What can be sent while no flow is open.
TableButtons(r, me) ==
    Live(AtTable(r, me), Cmd("no_win", me, me))
    \cup Live(AtTable(r, me) /\ isHost(r, me), Cmd("end_game", me, me))

-----------------------------------------------------------------------------
(* What the API makes of a command in room r.                              *)

Accepts(r, c) ==
    CASE c.name = "join"          -> CanJoin(r, c.actor)
      [] c.name = "start"         -> CanStart(r, c.caller)
      [] c.name = "disband"       -> CanDisband(r, c.caller)
      [] c.name = "leave"         -> CanLeave(r, c.caller)
      [] c.name = "add_guest"     -> CanAddGuest(r, c.caller, c.actor)
      [] c.name = "remove_guest"  -> CanRemoveGuest(r, c.caller, c.actor)
      [] c.name = "assign_seats"  -> CanAssignSeats(r, c.caller, c.seat_map)
      [] c.name = "continue_wind" -> CanContinueWind(r, c.caller)
      [] c.name = "end_game"      -> CanEnd(r, c.caller)
      [] c.name = "hu"            -> ActsFor(r, c.caller, c.actor) /\ CanHu(r, c.actor, c.h)
      [] c.name \in {"yao", "gang"} ->
            ActsFor(r, c.caller, c.actor) /\ MayDeclare(r, c.actor) /\ SeatTaken(r, c.seat)
      [] OTHER -> ActsFor(r, c.caller, c.actor) /\ MayDeclare(r, c.actor)

Effect(r, c) ==
    CASE c.name \in {"join", "add_guest"}     -> PlayerJoined(r, c.actor)
      [] c.name \in {"leave", "remove_guest"} -> PlayerLeft(r, c.actor)
      [] c.name = "start"         -> GameStarted(r, CHOOSE rules \in RuleChoices : TRUE)
      [] c.name = "disband"       -> RoomDisbanded(r)
      [] c.name = "assign_seats"  -> SeatsAssigned(r, c.seat_map)
      [] c.name = "continue_wind" -> WindContinued(r)
      [] c.name = "end_game"      -> GameEnded(r)
      [] c.name = "hu"            -> HuDeclared(r, c.actor, Hu(r, c.actor, c.h))
      [] c.name = "yao"           -> YaoDeclared(r, Yao(r, c.actor, c.seat, c.an))
      [] c.name = "gang"          -> GangDeclared(r, Gang(r, c.actor, c.seat))
      [] c.name = "angang"        -> GangDeclared(r, Angang(r, c.actor))
      [] c.name = "no_win"        -> NoWinDeclared(r)

-----------------------------------------------------------------------------
(* Properties: invariants of the room, over every phone looking at it.     *)

\* A phone that shows the room as it is never offers a tap the API would refuse: not
\* in the lobby, whoever sits where, but for the name of a guest that somebody at the
\* table has, which the form does not look at; not while the host decides about the wind; and
\* not at the end of any way through a flow, for the owner of the phone or for a guest
\* (declare_hu refuses a win off oneself, a bonus without a self-draw and tai out of
\* range, and HuFlow must not produce them).
OffersAreAccepted ==
    \A me \in Account :
        /\ \A c \in LobbyCommands(room, me, FALSE) :
            Accepts(room, c) \/ (c.name = "add_guest" /\ NameTaken(room, c.actor))
        /\ \A c \in WindDecisionView(room, me) \cup TableButtons(room, me) : Accepts(room, c)
        /\ AtTable(room, me) => \A actor \in {Actor(room, me, pick) : pick \in Guest \cup {None}} :
            \A f \in FormsFor(room, actor) : \A c \in Submits(f, me, actor) : Accepts(room, c)

\* The wins that name each thing once.
Wins(maxTai) ==
    {h \in [mode : Modes, target_seat : NoSeat .. 3, tai : 1 .. maxTai, zimo_bonus : BOOLEAN,
            klppdd : BOOLEAN] : h.mode = "zimo" => h.target_seat = NoSeat}

\* Everything me could ask the API to declare for p: the bonus and the gang of every
\* seat, the four of one's own, and the wins.
Declarations(me, p, maxTai) ==
    {[Cmd("yao", me, p) EXCEPT !.seat = t[1], !.an = t[2]] : t \in (0 .. 3) \X BOOLEAN}
    \cup {[Cmd("gang", me, p) EXCEPT !.seat = seat] : seat \in 0 .. 3}
    \cup {Cmd("angang", me, p)}
    \cup {[Cmd("hu", me, p) EXCEPT !.h = h] : h \in Wins(maxTai)}

\* What the ways through the flows of a phone that acts for p end in.
Offered(r, me, p) == UNION {Submits(f, me, p) : f \in FormsFor(r, p)}

\* Whatever a player at the table may declare, the owner of a phone or a guest, at any
\* tai, some phone has a way through its flows to it; a hand that nobody won can be
\* closed; and when the host has to decide his phone offers both answers.  So nobody is
\* kept from claiming what is theirs.
EveryTurnCanBeEntered ==
    room.status = "in_progress" =>
        /\ room.pending_wind_decision =>
            Cardinality(WindDecisionView(room, room.host_id)) = 2
        /\ ~room.pending_wind_decision =>
            /\ \A p \in Members(room) : \E me \in Account, pick \in {p, None} :
                /\ AtTable(room, me) /\ Actor(room, me, pick) = p
                /\ LET offered == Offered(room, me, p)
                   IN  \A c \in Declarations(me, p, room.rules.max_tai) :
                        Accepts(room, c) => c \in offered
            /\ \A me \in Members(room) \ Guest : \E c \in TableButtons(room, me) : c.name = "no_win"
=============================================================================
