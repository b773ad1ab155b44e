----------------------------- MODULE MCTaidiRoom -----------------------------
(***************************************************************************)
(* TaidiRoom for TLC.  Two cards pay double under HouseRules and once      *)
(* under PlainRules; 0 and 53 are no card counts.  The guests gus and gil  *)
(* have the same name, so only one of them can sit at the table.           *)
(***************************************************************************)
EXTENDS TaidiScreen, TLC

CONSTANTS ann, bob, gus, gil, nil

MCPlayer == {ann, bob, gus, gil, nil}

MCGuest == {gus, gil, nil}

\* The third guest was given no name.
MCNames ==
    [p \in MCPlayer |-> CASE p = ann -> "ann" [] p = bob -> "bob" [] p = nil -> None [] OTHER -> "gus"]

HouseRules ==
    [card_value_cents |-> 1, base_cards |-> 1, multipliers_enabled |-> TRUE,
     double_threshold |-> 2, triple_threshold |-> 3, difference_payouts |-> TRUE,
     special_hands_enabled |-> TRUE, special_hand_cards |-> 5]

PlainRules ==
    [HouseRules EXCEPT !.multipliers_enabled = FALSE, !.difference_payouts = FALSE,
                       !.special_hands_enabled = FALSE, !.base_cards = 0]

BothRules == {HouseRules, PlainRules}

MCCards == {0, 2, 53}

TwoAndTwo == Permutations({ann, bob}) \cup Permutations({gus, gil})
=============================================================================
