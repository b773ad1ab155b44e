----------------------------- MODULE MahjongPhone -----------------------------
(***************************************************************************)
(* One phone at a Mahjong table: what its screen keeps between two renders *)
(* (web/src/app/room/MahjongRoom.tsx), the command it has under way        *)
(* (useRoom.ts) and the polls that bring it the room, while the other      *)
(* players go on playing.                                                  *)
(*                                                                         *)
(* The phone is the host's, who rearranges the seats of the lobby, decides *)
(* about the wind and enters the turns of the guests.  A command is        *)
(* carried out and answered in one step; lost and late answers are the     *)
(* subject of module Dispatch.                                             *)
(***************************************************************************)
EXTENDS MahjongScreen

CONSTANT Me     \* the owner of the phone

ASSUME MeAssumption == Me \in Account

\* The form of the lobby always has rules to start with.
ASSUME RulesAssumption == RuleChoices # {}

VARIABLES
    seen,    \* the room as the phone shows it
    ui,      \* what its screen remembers: useState
    flight,  \* the command under way, if any
    aim      \* history, read by the properties only: the hand and the player that the
             \* latest flow was opened for

vars == <<room, seen, ui, flight, aim>>

-----------------------------------------------------------------------------
(* The screen. *)

Blank == [picked |-> None, opened |-> NoFlow, pick |-> None, asking |-> FALSE]

\* A flow is shown only for the hand it was opened on.
FlowShown(r, u) ==
    u.opened.kind # "none" /\ AtTable(r, Me) /\ u.opened.handNo = Current(r).hand_no

\* What is left of the screen's memory once it shows room r: a component that is no
\* longer drawn forgets.
Redrawn(u, r) ==
    [picked |-> IF r.status = "lobby" THEN u.picked ELSE None,
     opened |-> IF FlowShown(r, u) THEN u.opened ELSE NoFlow,
     pick   |-> IF r.status = "in_progress" THEN u.pick ELSE None,
     asking |-> u.asking /\ AtTable(r, Me) /\ ~FlowShown(r, u)]

Show(r, u) == seen' = r /\ ui' = Redrawn(u, r)

actor == Actor(seen, Me, ui.pick)

-----------------------------------------------------------------------------
(* run: one command at a time, pinned to a hand or to a seq.               *)

NoCommand == [cmd |-> Cmd("none", Me, Me), pin |-> 0, seq |-> 0, attempt |-> 0]

Busy == flight # NoCommand

lastHandNo(r) == IF Last(r) > 0 THEN Current(r).hand_no ELSE 0

\* pin 0: the command is checked against the seq.
Run(c, pin) == ~Busy /\ flight' = [cmd |-> c, pin |-> pin, seq |-> seen.seq, attempt |-> 0]

\* pinned_seq and _check_seq.
OnTime(r) == IF flight.pin # 0 THEN lastHandNo(r) = flight.pin ELSE r.seq = flight.seq

FlowCommands == {"yao", "gang", "angang", "hu"}

\* finish: the flow closes and the picker goes back to the host.
Finished(u, c) ==
    IF c.name \in FlowCommands THEN [u EXCEPT !.opened = NoFlow, !.pick = None] ELSE u

Land ==
    LET c == flight.cmd
    IN  /\ Busy
        /\ \/ /\ OnTime(room) /\ Accepts(room, c)
              /\ room' = Effect(room, c)
              /\ Show(room', Finished(ui, c))
              /\ flight' = NoCommand
           \/ /\ OnTime(room) /\ ~Accepts(room, c)
              /\ flight' = NoCommand
              /\ UNCHANGED <<room, seen, ui>>
           \/ /\ ~OnTime(room)
              /\ Show(room, ui)
              /\ flight' = IF flight.pin = 0 /\ flight.attempt = 0
                           THEN [flight EXCEPT !.seq = room.seq, !.attempt = 1] ELSE NoCommand
              /\ UNCHANGED room

-----------------------------------------------------------------------------
(* Taps. *)

\* tapSeat, first tap, or the same seat again.
PickSeat(p) ==
    /\ seen.status = "lobby" /\ canRearrange(seen, Me) /\ ~Busy
    /\ p \in Members(seen)
    /\ \/ ui.picked = None /\ ui' = [ui EXCEPT !.picked = p]
       \/ ui.picked = p /\ ui' = [ui EXCEPT !.picked = None]
    /\ UNCHANGED <<room, seen, flight>>

\* tapSeat, second tap.  When the player picked first has left the lobby since, the
\* handler reads the seat of nobody and throws: nothing changes, `picked' neither.
TapSwap(p) ==
    /\ seen.status = "lobby" /\ canRearrange(seen, Me)
    /\ p \in Members(seen) /\ ui.picked \in Members(seen) \ {p}
    /\ Run(SwapSeats(seen, Me, ui.picked, p), 0)
    /\ ui' = [ui EXCEPT !.picked = None]
    /\ UNCHANGED <<room, seen>>

\* The other buttons of the lobby.  Closing the room leaves the screen.
TapLobby(c) ==
    /\ c \in LobbyCommands(seen, Me, FALSE) /\ c.name \notin {"assign_seats", "disband"}
    /\ Run(c, 0)
    /\ UNCHANGED <<room, seen, ui>>

TapWind(c) ==
    /\ c \in WindDecisionView(seen, Me)
    /\ Run(c, IF c.name = "continue_wind" THEN lastHandNo(seen) ELSE 0)
    /\ UNCHANGED <<room, seen, ui>>

AtButtons == AtTable(seen, Me) /\ ~FlowShown(seen, ui)

PickActor(p) ==
    /\ AtButtons /\ p \in guests(seen, Me) \cup {Me} /\ p # ui.pick
    /\ ui' = [ui EXCEPT !.pick = p]
    /\ UNCHANGED <<room, seen, flight>>

openFlow(kind) ==
    /\ AtButtons /\ ~Busy
    /\ ui' = [ui EXCEPT !.opened = Flow(kind, Current(seen).hand_no), !.asking = FALSE]
    /\ aim' = [hand |-> Current(seen).hand_no, who |-> actor]
    /\ UNCHANGED <<room, seen, flight>>

\* A tap inside the flow; seats cannot be picked while a command is under way.
TapFlow(f) ==
    /\ FlowShown(seen, ui)
    /\ f \in Tapped(ui.opened, seen.members[actor], seen.rules.max_tai)
    /\ Busy => f.seat = ui.opened.seat /\ f.mode = ui.opened.mode
    /\ ui' = [ui EXCEPT !.opened = f]
    /\ UNCHANGED <<room, seen, flight>>

CancelFlow ==
    /\ FlowShown(seen, ui)
    /\ ui' = [ui EXCEPT !.opened = NoFlow]
    /\ UNCHANGED <<room, seen, flight>>

\* Mutant: the declaration names no hand.
SubmitFlow_Unpinned(c) ==
    /\ FlowShown(seen, ui)
    /\ c \in Submits(ui.opened, Me, actor)
    /\ Run(c, 0)
    /\ UNCHANGED <<room, seen, ui>>

\* The submit of a flow is pinned to the hand the flow was opened on.
SubmitFlow(c) ==
    /\ FlowShown(seen, ui)
    /\ c \in Submits(ui.opened, Me, actor)
    /\ Run(c, ui.opened.handNo)
    /\ UNCHANGED <<room, seen, ui>>

\* No Win asks first; its answer is pinned to the hand on the screen then.
AskNoWin ==
    /\ AtButtons /\ ~Busy /\ ~ui.asking
    /\ ui' = [ui EXCEPT !.asking = TRUE]
    /\ UNCHANGED <<room, seen, flight>>

CancelNoWin ==
    /\ ui.asking
    /\ ui' = [ui EXCEPT !.asking = FALSE]
    /\ UNCHANGED <<room, seen, flight>>

ConfirmNoWin ==
    /\ ui.asking
    /\ Run(Cmd("no_win", Me, Me), lastHandNo(seen))
    /\ ui' = [ui EXCEPT !.asking = FALSE]
    /\ UNCHANGED <<room, seen>>

TapEnd ==
    /\ AtButtons /\ Cmd("end_game", Me, Me) \in TableButtons(seen, Me)
    /\ Run(Cmd("end_game", Me, Me), 0)
    /\ UNCHANGED <<room, seen, ui>>

Poll == seen # room /\ Show(room, ui) /\ UNCHANGED <<room, flight>>

-----------------------------------------------------------------------------
(* Everybody else. *)

SelfDrawn == [NoHu EXCEPT !.mode = "zimo", !.tai = 1]

OtherStep ==
    /\ Within
    /\ \E p \in Account \ {Me} :
        \/ Join(p) \/ Leave(p)
        \/ DeclareHu(p, SelfDrawn) \/ DeclareNoWin(p) \/ DeclareAngang(p)
    /\ UNCHANGED <<seen, ui, flight>>

TapStep ==
    \/ \E p \in Player : PickSeat(p) \/ TapSwap(p) \/ PickActor(p)
    \/ \E c \in LobbyCommands(seen, Me, FALSE) : TapLobby(c)
    \/ \E c \in WindDecisionView(seen, Me) : TapWind(c)
    \/ \E f \in IF FlowShown(seen, ui)
                THEN Tapped(ui.opened, seen.members[actor], seen.rules.max_tai) ELSE {} : TapFlow(f)
    \/ \E c \in Submits(ui.opened, Me, actor) : SubmitFlow(c)
    \/ CancelFlow \/ AskNoWin \/ CancelNoWin \/ ConfirmNoWin \/ TapEnd \/ Poll

PhoneStep ==
    \/ \E kind \in {"yao", "gang", "hu"} : openFlow(kind)
    \/ TapStep /\ UNCHANGED aim

NextStep == (Within /\ PhoneStep) \/ ((Land \/ OtherStep) /\ UNCHANGED aim)

PhoneInit(r) ==
    room = r /\ seen = r /\ ui = Blank /\ flight = NoCommand /\ aim = [hand |-> 0, who |-> None]

\* A phone that opens whatever room the engine may have produced.
PhoneSpec == (\E r : GoodRoom(r) /\ PhoneInit(r)) /\ [][NextStep]_vars

-----------------------------------------------------------------------------
(* Properties. *)

\* "A HU half-entered for hand 3 must never land on hand 4": a declaration that is
\* carried out goes to the hand that was on the screen when its flow was opened, and is
\* made for the player who was picked then, however many hands went by while it was
\* open or under way and whatever was tapped meanwhile (TableView, MahjongRoom.tsx:355).
FlowHitsItsHand ==
    [][Land /\ flight.cmd.name \in FlowCommands /\ room' # room =>
        /\ lastHandNo(room) = aim.hand /\ flight.cmd.actor = aim.who
        /\ flight.cmd.name = "hu" =>
            room'.hands[aim.hand].closed /\ room'.hands[aim.hand].winner = aim.who]_vars

\* A declaration that finds its hand still open is carried out: whatever the way
\* through the flow, the picker and the toggles, only a hand that has moved on, or a
\* game that is over, keeps it from counting.
OnlyNewsRefuses ==
    flight.cmd.name \in FlowCommands \cup {"no_win"} /\ OnTime(room)
        /\ room.status = "in_progress" /\ ~Current(room).closed
    => Accepts(room, flight.cmd)

\* The two seats tapped are traded, and nobody else's, even when the swap is sent a
\* second time after somebody left or joined in between.
SwapsTradeSeats ==
    [][Land /\ flight.cmd.name = "assign_seats" /\ room' # room =>
        \E p, q \in Members(room) :
            /\ DOMAIN flight.cmd.seat_map = {p, q}
            /\ \A x \in Members(room) \ {p, q} : room'.members[x] = room.members[x]
            /\ {room'.members[p], room'.members[q]} = {room.members[p], room.members[q]}]_vars
=============================================================================
