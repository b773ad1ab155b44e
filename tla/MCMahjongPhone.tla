--------------------------- MODULE MCMahjongPhone ---------------------------
(***************************************************************************)
(* MahjongPhone for TLC: ann hosts, gus is her guest, and dan has a        *)
(* namesake in him.                                                        *)
(***************************************************************************)
EXTENDS MahjongPhone

CONSTANTS ann, bob, cat, dan, gus

AllPlayers == {ann, bob, cat, dan, gus}

MCGuest == {gus}

MCNames == [p \in AllPlayers |-> IF p = dan THEN gus ELSE p]

\* Playing for nothing: hands differ only in who won, and how the deal goes round.
FreeRules ==
    [cents_per_unit |-> 1, yao_amount |-> 0, gang_amount |-> 0, zimo_bonus_amount |-> 0,
     klppdd_amount |-> 0, max_tai |-> 1, tai_table |-> <<[hu |-> 0, zimo |-> 0]>>]

ForFree == {FreeRules}

NoMaps == {}

NoSeats == {}

NoTai == {}

FullLobby == PlayerJoined(PlayerJoined(PlayerJoined(NewRoom(ann), bob), cat), gus)

\* A hand in the last seat of the wind.
WonBy(r, p) == HuDeclared(r, p, Hu(r, p, SelfDrawn))

LateTable == WonBy(WonBy(WonBy(GameStarted(FullLobby, FreeRules), gus), cat), ann)

\* Numbering the events from zero again leaves the bound to what follows.
AtZero(r) == [r EXCEPT !.seq = 0]

Starts == {AtZero(FullLobby), AtZero(LateTable)}

\* They are rooms that the engine produces, as PhoneSpec asks for.
ASSUME StartsAreGood == \A r \in Starts : GoodRoom(r)

MCInit == \E r \in Starts : PhoneInit(r)

MCSpec == MCInit /\ [][NextStep]_vars
=============================================================================
