------------------------------ MODULE MCDebts ------------------------------
(***************************************************************************)
(* Debts for TLC: ann hosts a game with two guests, of whom one owes her   *)
(* and the other; bob and cat are there to claim them.  The handlers are   *)
(* interchangeable, and so are bob and cat.                                *)
(***************************************************************************)
EXTENDS DebtsPage, TLC

CONSTANTS ann, bob, cat, gus, gil, table, toAnn, toGil, h1, h2

MCPlayers == [g \in {table} |-> {ann, gus, gil}]
MCHost == [g \in {table} |-> ann]
MCRoomOf == [p \in {gus, gil} |-> table]
MCOwed ==
    (toAnn :> [room_id |-> table, from_player |-> gus, to_player |-> ann]) @@
    (toGil :> [room_id |-> table, from_player |-> gus, to_player |-> gil])

Interchangeable == Permutations({h1, h2}) \cup Permutations({bob, cat})
=============================================================================
