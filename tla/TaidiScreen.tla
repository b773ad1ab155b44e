----------------------------- MODULE TaidiScreen -----------------------------
(***************************************************************************)
(* The Taidi screen of the web client, web/src/app/room/TaidiRoom.tsx, as  *)
(* a function of the room it shows: which buttons and forms are live, for  *)
(* whom each of them sends its command, and what the round log says.       *)
(*                                                                         *)
(* A phone belongs to an account.  Guests have none: the host enters their *)
(* turns, choosing with the ActingAs picker for whom the next tap is       *)
(* meant.  The screen's decisions are compared with what the engine        *)
(* (module TaidiRoom) accepts in the same room.                            *)
(***************************************************************************)
EXTENDS TaidiRoom

\* useRoom
isMember(r, me) == me \in Members(r)

isHost(r, me) == r.host_id = me

guests(r) == Members(r) \cap Guest

\* Mutant: whoever was picked stays picked.
Actor_StalePick(r, me, pick) == IF isHost(r, me) /\ pick \in Guest THEN pick ELSE me

\* Whom Win, Special, Undo special and Leave act for: the picked guest, while it
\* sits at the table and the phone is the host's; else the phone's owner.
Actor(r, me, pick) == IF isHost(r, me) /\ pick \in guests(r) THEN pick ELSE me

\* dispatch.acting_as: for whom a caller's command is accepted at all.
ActsFor(r, caller, p) == p = caller \/ (isHost(r, caller) /\ p \in guests(r))

-----------------------------------------------------------------------------
(* Lobby *)

JoinButton(r, me, blocked) == r.status = "lobby" /\ ~isMember(r, me) /\ ~blocked

AddGuestForm(r, me) == r.status = "lobby" /\ isHost(r, me) /\ isMember(r, me)

\* The form takes any name that is neither blank nor too long, taken or not.
Enterable(g) == display_name[g] # None

RemoveButton(r, me, m) == r.status = "lobby" /\ isHost(r, me) /\ m \in guests(r)

StartButton(r, me) ==
    r.status = "lobby" /\ isMember(r, me) /\ isHost(r, me) /\ Cardinality(Members(r)) >= 2

CloseRoomButton(r, me) == r.status = "lobby" /\ isMember(r, me) /\ isHost(r, me)

LeaveRoomButton(r, me) == r.status = "lobby" /\ isMember(r, me) /\ ~isHost(r, me)

-----------------------------------------------------------------------------
(* TableView *)

AtTable(r, me) == r.status = "in_progress" /\ isMember(r, me)

isPlaying(r) == InPhase(r, "playing")

isCollecting(r) == InPhase(r, "collecting")

iAmWinner(r, me) == Current(r).winner = me

haveSubmitted(r, p) == p \in Submitted(Current(r))

\* The players the "Waiting for" line names.
pending(r) == Members(r) \ (Submitted(Current(r)) \cup {Current(r).winner})

WinButton(r, me) == AtTable(r, me) /\ isPlaying(r)

SpecialButton(r, me) == AtTable(r, me) /\ isPlaying(r) /\ r.rules.special_hands_enabled

\* What the form holds, None when it is no number: the card form and GuestCardsRow.
CardsValid(value) == value # None /\ value >= 1 /\ value <= 52

CardForm(r, me) ==
    AtTable(r, me) /\ isCollecting(r) /\ ~iAmWinner(r, me) /\ ~haveSubmitted(r, me)

\* Mutant: a row for every guest at a phone of the round's winner.
guestsOwing_Winner(r, me) ==
    IF isCollecting(r) /\ iAmWinner(r, me)
    THEN {g \in guests(r) : g # Current(r).winner /\ ~haveSubmitted(r, g)} ELSE {}

guestsOwing(r, me) ==
    IF isCollecting(r) /\ isHost(r, me)
    THEN {g \in guests(r) : g # Current(r).winner /\ ~haveSubmitted(r, g)} ELSE {}

\* What the forms of the screen may hold.
Typed == CardInputs \cup {None}

actorSpecials(r, actor) == Current(r).special_counts[actor]

UndoSpecialButton(r, me, actor) == AtTable(r, me) /\ actorSpecials(r, actor) > 0

UndoWinButton(r, me) ==
    AtTable(r, me) /\ isCollecting(r) /\ (isHost(r, me) \/ iAmWinner(r, me))

EndGameButton(r, me) == AtTable(r, me) /\ isHost(r, me)

LeaveGameButton(r, me) == AtTable(r, me)

-----------------------------------------------------------------------------
(* What a tap sends: the command, who sends it, for whom, and the count.   *)

Cmd(name, caller, actor, cards) ==
    [name |-> name, caller |-> caller, actor |-> actor, cards |-> cards]

Live(condition, c) == IF condition THEN {c} ELSE {}

GuestCardsRow(me, g, typed) ==
    {Cmd("submit_cards", me, g, value) : value \in {v \in typed : CardsValid(v)}}

LobbyCommands(r, me, blocked) ==
    Live(JoinButton(r, me, blocked), Cmd("join", me, me, None))
    \cup Live(StartButton(r, me), Cmd("start", me, me, None))
    \cup Live(CloseRoomButton(r, me), Cmd("disband", me, me, None))
    \cup Live(LeaveRoomButton(r, me), Cmd("leave", me, me, None))
    \cup {Cmd("add_guest", me, g, None) : g \in {h \in Guest \ Members(r) : AddGuestForm(r, me) /\ Enterable(h)}}
    \cup {Cmd("remove_guest", me, g, None) : g \in {h \in Guest : RemoveButton(r, me, h)}}

\* For the player the picker is set to; `typed' are the counts that the card form, or
\* a guest's row, may hold.
TableCommands(r, me, actor, typed) ==
    IF ~AtTable(r, me) THEN {}
    ELSE Live(WinButton(r, me), Cmd("claim_win", me, actor, None))
         \cup Live(SpecialButton(r, me), Cmd("special_hand", me, actor, None))
         \cup Live(UndoSpecialButton(r, me, actor), Cmd("void_special", me, actor, None))
         \cup {Cmd("submit_cards", me, me, value) :
                  value \in {v \in typed : CardForm(r, me) /\ CardsValid(v)}}
         \cup (UNION {GuestCardsRow(me, g, typed) : g \in guestsOwing(r, me)})
         \cup Live(UndoWinButton(r, me), Cmd("void_round", me, me, None))
         \cup Live(EndGameButton(r, me), Cmd("end_game", me, me, None))
         \cup Live(LeaveGameButton(r, me), Cmd("step_out", me, actor, None))

\* What the API makes of it in room r: acting_as, then the engine.
Accepts(r, c) ==
    CASE c.name = "join"         -> CanJoin(r, c.actor)
      [] c.name = "start"        -> CanStart(r, c.caller)
      [] c.name = "disband"      -> CanDisband(r, c.caller)
      [] c.name = "leave"        -> CanLeave(r, c.caller)
      [] c.name = "add_guest"    -> CanAddGuest(r, c.caller, c.actor)
      [] c.name = "remove_guest" -> CanRemoveGuest(r, c.caller, c.actor)
      [] c.name = "void_round"   -> CanVoidRound(r, c.caller)
      [] c.name = "end_game"     -> CanEnd(r, c.caller)
      [] OTHER ->
            /\ ActsFor(r, c.caller, c.actor)
            /\ CASE c.name = "claim_win"    -> CanClaimWin(r, c.actor)
                 [] c.name = "special_hand" -> CanAddSpecial(r, c.actor)
                 [] c.name = "void_special" -> CanVoidSpecial(r, c.actor)
                 [] c.name = "submit_cards" -> CanSubmit(r, c.actor, c.actor, c.cards)
                 [] c.name = "step_out"     -> CanStepOut(r, c.actor)

-----------------------------------------------------------------------------
(* RoundLog *)

Played(r) == {i \in 1 .. Last(r) : r.rounds[i].transfers # {} \/ r.rounds[i].winner # None}

LogNet(r, i, me) == Net(r.rounds[i].transfers, me)

-----------------------------------------------------------------------------
(* Properties: invariants of the room, over every phone looking at it.     *)

\* A phone that shows the room as it is never offers a tap the API would refuse,
\* neither for its owner nor for the guest its picker is set to, whoever left since
\* the guest was picked ("a button that always fails", TaidiRoom.tsx:270).  There are
\* two exceptions.  The guest form, which does not look at who is there, sends a name
\* that somebody at the table has, whatever its case; and End Game is offered while a
\* round still collects, where the same phone can restart the round instead.
OffersAreAccepted ==
    \A me \in Account :
        /\ \A c \in LobbyCommands(room, me, FALSE) :
            Accepts(room, c) \/ (c.name = "add_guest" /\ NameTaken(room, c.actor))
        /\ \A actor \in {Actor(room, me, pick) : pick \in Guest \cup {None}} :
            \A c \in TableCommands(room, me, actor, Typed) :
                Accepts(room, c) \/ (c.name = "end_game" /\ UndoWinButton(room, me))

\* The phones on which command `name' for p can be entered.
PhonesFor(name, p) ==
    {me \in Account \cap {p, room.host_id} :
        \E c \in TableCommands(room, me, Actor(room, me, p), {1}) : c.name = name /\ c.actor = p}

\* As long as an account is left at the table, every turn the engine waits for can be
\* entered: a win and a way out for each player, guests included, while a round is
\* played; while it collects, each missing count on exactly one phone, the player's
\* or the host's, and a restart of the round on the host's, should a player have gone
\* quiet.  Otherwise the round would "sit in `collecting` forever" (TaidiRoom.tsx:645).
\* (events_store.py:440 gives "Nothing in the UI can void that round" as its reason for
\* voiding one itself; this button can.)
EveryTurnCanBeEntered ==
    room.status = "in_progress" /\ Members(room) \ Guest # {} =>
        /\ \A p \in Members(room) :
            /\ PhonesFor("step_out", p) # {}
            /\ isPlaying(room) => PhonesFor("claim_win", p) # {}
        /\ isCollecting(room) =>
            /\ \A p \in pending(room) : Cardinality(PhonesFor("submit_cards", p)) = 1
            /\ room.host_id \in PhonesFor("void_round", room.host_id)

\* The round log answers "what did I get charged for?" completely: the amounts of the
\* rounds it lists add up to the balance on the screen, for those who stepped out as
\* well, after any mix of voided rounds, dropped rounds, kept and undone special
\* hands ("so the round list keeps matching the balances", machine.py).
LogExplainsBalances ==
    \A p \in DOMAIN room.balances :
        room.balances[p] = SumFunction([i \in Played(room) |-> LogNet(room, i, p)])
=============================================================================
