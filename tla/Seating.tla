------------------------------ MODULE Seating ------------------------------
(***************************************************************************)
(* Who sits where: what the two game engines do identically when players   *)
(* come and go.  `members' maps the players at a table to their seats.     *)
(***************************************************************************)
EXTENDS Integers, FiniteSets

With(f, x, v) == [y \in DOMAIN f \cup {x} |-> IF y = x THEN v ELSE f[y]]

Without(f, x) == [y \in DOMAIN f \ {x} |-> f[y]]

\* Mutant: the next seat is the number of members, taken once someone left.
LowestFreeSeat_Count(members) == Cardinality(DOMAIN members)

LowestFreeSeat(members) ==
    LET taken == {members[p] : p \in DOMAIN members}
    IN  CHOOSE s \in 0 .. Cardinality(DOMAIN members) :
            /\ s \notin taken
            /\ \A t \in 0 .. (s - 1) : t \in taken
=============================================================================
