---------------------------- MODULE MCMahjongRoom ----------------------------
(***************************************************************************)
(* MahjongRoom for TLC.  The guests gus and gil have the same name, so     *)
(* only one of them can sit at the table.                                  *)
(***************************************************************************)
EXTENDS MahjongScreen, TLC

CONSTANTS ann, bob, cat, dan, gus, gil

SixPlayers == {ann, bob, cat, dan, gus, gil}

MCGuest == {gus, gil}

MCNames == [p \in SixPlayers |-> IF p = gil THEN gus ELSE p]

\* Two tai levels, in the chips of games from before dollars.
ChipRules ==
    [cents_per_unit |-> 50, yao_amount |-> 1, gang_amount |-> 2, zimo_bonus_amount |-> 3,
     klppdd_amount |-> 5, max_tai |-> 2,
     tai_table |-> <<[hu |-> 7, zimo |-> 4], [hu |-> 9, zimo |-> 6]>>]

ForChips == {ChipRules}

\* Three accounts and a guest in seat 3, and the game they start.
LobbyOf(a, b, c) == PlayerJoined(PlayerJoined(PlayerJoined(NewRoom(a), b), c), gus)

TableOf(a, b, c, rules) == GameStarted(LobbyOf(a, b, c), rules)

WonBy(r, p) ==
    HuDeclared(r, p, Hu(r, p, [NoHu EXCEPT !.mode = "zimo", !.tai = 1]))

\* The same table in the last seat of its last wind.
LateTableOf(a, b, c, rules) == WonBy(WonBy(WonBy(TableOf(a, b, c, rules), gus), a), a)

\* Numbering the events anew leaves the bound to what follows: a full lobby can be
\* left, joined and rearranged, and two more declarations are made at a table.
From(r, seq) == [r EXCEPT !.seq = seq]

FullInit ==
    \E a, b, c \in Account, rules \in RuleChoices :
        /\ Cardinality({a, b, c}) = 3
        /\ room \in {From(LobbyOf(a, b, c), 2), From(TableOf(a, b, c, rules), 3),
                     From(LateTableOf(a, b, c, rules), 3)}

\* An empty room, a full one, a table that has just started, or one that has come far.
OpenSpec == (Init \/ FullInit) /\ [][Next]_room

AnyAccounts == Permutations({ann, bob, cat, dan})

\* Maps for up to two players, onto taken, free and missing seats.
PairMaps == UNION {[P -> 0 .. 4] : P \in {{}} \cup {{p, q} : p, q \in Player}}

AnySeat == 0 .. 4

AnyTai == 0 .. 3
=============================================================================
