---------------------------- MODULE MahjongRules ----------------------------
(***************************************************************************)
(* Mahjong money: core/mahjong_core/rules.py and MahjongRules in           *)
(* core/mahjong_core/models.py.  Amounts are in the units of the rules;    *)
(* cents_per_unit turns them into cents.                                   *)
(***************************************************************************)
EXTENDS Integers, FiniteSets

MAX_TAI == 20

MAX_TAI_PAYOUT == 1000000

MAX_ACTION_AMOUNT == 100000

LEGACY_CENTS_PER_CHIP == 50

\* What MahjongRules accepts when a host starts a game (not on replay).
ValidRules(rules) ==
    /\ \A amount \in {rules.yao_amount, rules.gang_amount,
                      rules.zimo_bonus_amount, rules.klppdd_amount} :
            amount \in 0 .. MAX_ACTION_AMOUNT
    /\ rules.cents_per_unit \in 1 .. LEGACY_CENTS_PER_CHIP
    /\ rules.max_tai \in 1 .. MAX_TAI
    /\ 1 .. rules.max_tai \subseteq DOMAIN rules.tai_table
    /\ DOMAIN rules.tai_table \subseteq 1 .. MAX_TAI
    /\ \A tai \in DOMAIN rules.tai_table :
            /\ rules.tai_table[tai].hu \in 0 .. MAX_TAI_PAYOUT
            /\ rules.tai_table[tai].zimo \in 0 .. MAX_TAI_PAYOUT

yao_amount(rules, an) == rules.yao_amount * (IF an THEN 2 ELSE 1)

gang_amount_self(rules) == rules.gang_amount

gang_amount_other(rules) == rules.gang_amount * 3

gang_amount_angang(rules) == rules.gang_amount * 2

hu_amount_direct(rules, tai) == rules.tai_table[tai].hu

hu_amount_zimo_each(rules, tai) == rules.tai_table[tai].zimo

hu_amount_bao(rules, tai) == rules.tai_table[tai].zimo * 3

klppdd_amount_each(rules) == rules.klppdd_amount

klppdd_amount_single_payer(rules) == rules.klppdd_amount * 3
=============================================================================
