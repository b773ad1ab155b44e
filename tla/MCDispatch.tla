------------------------------ MODULE MCDispatch ------------------------------
(***************************************************************************)
(* Dispatch for TLC.  The start rooms are reached by the commands of a     *)
(* host ann, a player bob and a guest gus; another guest, gil, is called   *)
(* like bob.                                                               *)
(***************************************************************************)
EXTENDS Dispatch, TLC

CONSTANTS ann, bob, gus, gil

LobbyPlayer == {ann, bob, gus, gil}

LobbyGuest == {gus, gil}

MCPlayer == {ann, bob, gus}

MCGuest == {gus}

MCNames == [p \in Player |-> IF p = gil THEN bob ELSE p]

HouseRules ==
    [card_value_cents |-> 1, base_cards |-> 1, multipliers_enabled |-> TRUE,
     double_threshold |-> 2, triple_threshold |-> 3, difference_payouts |-> TRUE,
     special_hands_enabled |-> TRUE, special_hand_cards |-> 5]

HouseOnly == {HouseRules}

OneCount == {2}

Lobby == PlayerJoined(NewRoom(ann), bob)

Alone == NewRoom(ann)

WithGuest == PlayerJoined(NewRoom(ann), gus)

\* ann and bob in the first round; in a second round that ann has claimed.
FirstRound == GameStarted(Lobby, HouseRules)

SecondRound == DoSubmit(WinClaimed(FirstRound, bob), ann, 2)

SecondClaimed == WinClaimed(SecondRound, bob)

GuestTable == GameStarted(WithGuest, HouseRules)

Lobbies == {Alone, Lobby, WithGuest}

Tables == {SecondClaimed, GuestTable}

Both == {ann, bob}

JustBob == {bob}

LobbyOps == {"join", "leave", "disband", "start", "add_guest", "remove_guest"}

GameOps ==
    {"win", "cards", "submit_for", "special", "void_special", "void", "step_out", "end"}

VoidOps == {"void"}

ClaimedTables == {SecondClaimed}
=============================================================================
