------------------------------ MODULE Clearing ------------------------------
(***************************************************************************)
(* What a settlement promises, however it is computed: people who owe pay  *)
(* people who are owed, nobody more than is open, and every payment clears *)
(* one of the two.                                                         *)
(***************************************************************************)
EXTENDS Integers

CONSTANT Player

VARIABLES
    open,   \* what each player is still owed (positive) or still owes
    paid    \* the payments so far

Init == open \in [Player -> Int] /\ paid = {}

Pay(d, c, amount) ==
    /\ open[d] < 0 /\ open[c] > 0
    /\ amount > 0
    /\ amount <= open[c] /\ amount <= -open[d]
    /\ amount \in {open[c], -open[d]}
    /\ open' = [open EXCEPT ![d] = @ + amount, ![c] = @ - amount]
    /\ paid' = paid \cup {[from_player |-> d, to_player |-> c, amount_cents |-> amount]}

Next == \E d, c \in Player, amount \in {open[x] : x \in Player} \cup {-open[x] : x \in Player} :
            Pay(d, c, amount)

Spec == Init /\ [][Next]_<<open, paid>>
=============================================================================
