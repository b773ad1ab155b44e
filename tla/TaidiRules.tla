----------------------------- MODULE TaidiRules -----------------------------
(***************************************************************************)
(* Taidi (Big Two) scoring: core/taidi_core/rules.py and GameRules in      *)
(* core/taidi_core/models.py.  Card counts become payments, a special hand *)
(* becomes one payment from every other member.                            *)
(*                                                                         *)
(* A list of Transfer objects is modelled as a SET of payments: inside one *)
(* round no two payments agree on payer, receiver, kind and claim, so      *)
(* nothing collapses.  `cards' and `mult' of a Transfer only explain the   *)
(* amount to the reader of a history page and are left out, `round_no' is  *)
(* the round that holds the payment.                                       *)
(***************************************************************************)
EXTENDS Integers, FiniteSets, FiniteSetsExt

MAX_CARDS == 52

MAX_CARD_VALUE_CENTS == 10000

RuleShape == [card_value_cents: Int, base_cards: Int, multipliers_enabled: BOOLEAN,
              double_threshold: Int, triple_threshold: Int, difference_payouts: BOOLEAN,
              special_hands_enabled: BOOLEAN, special_hand_cards: Int]

\* What GameRules accepts when a host starts a game (not on replay).
ValidRules(rules) ==
    /\ rules.card_value_cents \in 0 .. MAX_CARD_VALUE_CENTS
    /\ rules.base_cards \in 0 .. MAX_CARDS
    /\ rules.special_hand_cards \in 0 .. MAX_CARDS
    /\ rules.double_threshold \in 1 .. MAX_CARDS
    /\ rules.triple_threshold \in 1 .. MAX_CARDS
    /\ rules.multipliers_enabled => rules.triple_threshold >= rules.double_threshold

GameRules == {rules \in RuleShape : ValidRules(rules)}

multiplier(rules, payer_cards) ==
    IF ~rules.multipliers_enabled THEN 1
    ELSE IF payer_cards >= rules.triple_threshold THEN 3
    ELSE IF payer_cards >= rules.double_threshold THEN 2
    ELSE 1

-----------------------------------------------------------------------------
(* Payments.  claim_seq is 0 except for a special hand, where it is the    *)
(* seq of the event that produced it.                                      *)

Kinds == {"cards", "difference", "base", "special"}

Payment(payer, receiver, amount, kind, claim_seq) ==
    [from_player |-> payer, to_player |-> receiver, amount_cents |-> amount,
     kind |-> kind, claim_seq |-> claim_seq]

Payments(P) == [from_player: P, to_player: P, amount_cents: Int, kind: Kinds, claim_seq: Nat]

\* The round's settlement from the final card counts, a function that gives 0
\* to exactly one player.  The code sorts the losers and lets each pay every
\* loser sorted before it whose count differs: those with fewer cards.
compute_card_transfers(card_counts, rules) ==
    LET winner == CHOOSE p \in DOMAIN card_counts : card_counts[p] = 0
        losers == DOMAIN card_counts \ {winner}
        price(payer, cards) ==
            cards * multiplier(rules, card_counts[payer]) * rules.card_value_cents
        to_winner == {Payment(p, winner, price(p, card_counts[p]), "cards", 0) : p \in losers}
        behind == {d \in losers \X losers : card_counts[d[1]] > card_counts[d[2]]}
        differences == {Payment(d[1], d[2],
                                price(d[1], card_counts[d[1]] - card_counts[d[2]]),
                                "difference", 0) : d \in behind}
        base == {Payment(p, winner, rules.base_cards * rules.card_value_cents, "base", 0) :
                    p \in losers}
    IN  to_winner
        \cup (IF rules.difference_payouts THEN differences ELSE {})
        \cup (IF rules.base_cards > 0 THEN base ELSE {})

compute_special_transfer(claimer, others, rules, claim_seq) ==
    {Payment(p, claimer, rules.special_hand_cards * rules.card_value_cents,
             "special", claim_seq) : p \in others}

-----------------------------------------------------------------------------
(* Balances: apply adds every payment to the receiver and takes it from    *)
(* the payer; reversing does the opposite.                                 *)

Total(T) == SumFunction([t \in T |-> t.amount_cents])

Net(T, p) == Total({t \in T : t.to_player = p}) - Total({t \in T : t.from_player = p})

Moved(balances, T) == [p \in DOMAIN balances |-> balances[p] + Net(T, p)]

Reversed(balances, T) == [p \in DOMAIN balances |-> balances[p] - Net(T, p)]
=============================================================================
