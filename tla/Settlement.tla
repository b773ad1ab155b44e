----------------------------- MODULE Settlement -----------------------------
(***************************************************************************)
(* From what a game left on the table to who pays whom:                    *)
(* core/taidi_core/settlement.py, shared by both games.                    *)
(*                                                                         *)
(* `minimize_transfers' is modelled as the loop it is, one iteration a     *)
(* step; `pairwise_net' as an operator.  A game is given by the transfers  *)
(* that were made in it and the balances they left.                        *)
(***************************************************************************)
EXTENDS Integers, Sequences, FiniteSets, FiniteSetsExt, SequencesExt

CONSTANTS
    Player,
    Games     \* the games to settle: records of transfers and balances

Payment(d, c, amount) == [from_player |-> d, to_player |-> c, amount_cents |-> amount]

\* What the transfer t is to p.
Share(t, p) ==
    (IF t.to_player = p THEN t.amount_cents ELSE 0)
    - (IF t.from_player = p THEN t.amount_cents ELSE 0)

\* Where a list of transfers leaves p.
Left(transfers, p) ==
    SumFunctionOnSet([i \in DOMAIN transfers |-> Share(transfers[i], p)], DOMAIN transfers)

Transfers == [from_player : Player, to_player : Player, amount_cents : Int]

\* The transfers of a game account for its balances: what the rooms of both games keep.
ASSUME GamesAssumption ==
    /\ IsFiniteSet(Player)
    /\ \A g \in Games :
          /\ g.transfers \in Seq(Transfers)
          /\ g.balances \in [Player -> Int]
          /\ \A p \in Player : g.balances[p] = Left(g.transfers, p)

VARIABLES
    game,
    remaining,
    creditor_ids, debtor_ids,
    ci, di,
    settlements

vars == <<game, remaining, creditor_ids, debtor_ids, ci, di, settlements>>

-----------------------------------------------------------------------------
(* minimize_transfers                                                      *)

\* The lists of S with the larger amounts first.  Equal amounts keep the order of
\* the dictionary of balances, which may be any.
BiggestFirst(S, amount) ==
    {s \in [1 .. Cardinality(S) -> S] :
        /\ {s[i] : i \in DOMAIN s} = S
        /\ \A i, j \in DOMAIN s : i < j => s[i] # s[j] /\ amount[s[i]] >= amount[s[j]]}

Smaller(x, y) == IF x <= y THEN x ELSE y

Init ==
    /\ game \in Games
    /\ remaining = game.balances
    /\ creditor_ids \in BiggestFirst({p \in Player : remaining[p] > 0}, remaining)
    /\ debtor_ids \in BiggestFirst({p \in Player : remaining[p] < 0},
                                   [p \in Player |-> -remaining[p]])
    /\ ci = 1 /\ di = 1
    /\ settlements = << >>

Finished == ci > Len(creditor_ids) \/ di > Len(debtor_ids)

\* Mutant: the creditor is taken to be through whatever was paid.
NextIndex_Always(index, left) == index + 1

\* Mutant: somebody who has been cleared stays in turn.
NextIndex_Never(index, left) == index

NextIndex(index, left) == IF left = 0 THEN index + 1 ELSE index

\* Mutant: the debtor pays all he owes to the creditor in turn.
Amount_AllOwed(credit, debt) == debt

\* Mutant: debts are paid off in parts.
Amount_OneCent(credit, debt) == 1

Amount(credit, debt) == Smaller(credit, debt)

Match ==
    LET cid == creditor_ids[ci]
        did == debtor_ids[di]
        amount == Amount(remaining[cid], -remaining[did])
    IN  /\ ~Finished
        /\ settlements' = IF amount > 0 THEN Append(settlements, Payment(did, cid, amount))
                          ELSE settlements
        /\ remaining' = [remaining EXCEPT ![cid] = @ - amount, ![did] = @ + amount]
        /\ ci' = NextIndex(ci, remaining'[cid])
        /\ di' = NextIndex(di, remaining'[did])
        /\ UNCHANGED <<game, creditor_ids, debtor_ids>>

Spec == Init /\ [][Match]_vars /\ WF_vars(Match)

-----------------------------------------------------------------------------
(* pairwise_net                                                            *)

Pair(t) == {t.from_player, t.to_player}

\* Mutant: every transfer counts as going the way of the first.
Signed_Unsigned(t, first) == t.amount_cents

Signed(t, first) == IF t.from_player = first.from_player THEN t.amount_cents ELSE -t.amount_cents

Between(transfers, pair) == {i \in DOMAIN transfers : Pair(transfers[i]) = pair}

\* The first transfer of a pair gives the direction in which the others are netted.
Canonical(transfers, pair) == transfers[Min(Between(transfers, pair))]

Net(transfers, pair) ==
    SumFunctionOnSet([i \in DOMAIN transfers |-> Signed(transfers[i], Canonical(transfers, pair))],
                     Between(transfers, pair))

Netted(transfers, pair) ==
    LET a == Canonical(transfers, pair).from_player
        b == Canonical(transfers, pair).to_player
        amount == Net(transfers, pair)
    IN  IF amount > 0 THEN Payment(a, b, amount) ELSE Payment(b, a, -amount)

pairwise_net(transfers) ==
    LET pairs == {Pair(transfers[i]) : i \in DOMAIN transfers}
    IN  {Netted(transfers, pair) : pair \in {q \in pairs : Net(transfers, q) # 0}}

-----------------------------------------------------------------------------
(* Properties.                                                             *)

\* What the payments T bring p, less what they cost p.
Received(T, p) == SumFunctionOnSet([t \in T |-> Share(t, p)], T)

AllCleared ==
    \A p \in Player :
        /\ Received(ToSet(settlements), p) = game.balances[p]
        /\ Received(pairwise_net(game.transfers), p) = game.balances[p]

\* Both strategies come to the same end: the loop of minimize_transfers finishes, with
\* nothing left over in the list that ran out later, and its payments, like those of
\* pairwise_net, give every player exactly the balance of the game.
EveryBalanceCleared == <>(Finished /\ AllCleared)

\* "minimize_transfers() never emits two settlements for the same (room, from, to)
\* pair in one call" (db.py): the insert skips rows whose pair is there already, so
\* a second payment of a pair would be lost without a trace.
PairsDiffer ==
    \A i, j \in DOMAIN settlements :
        /\ settlements[i].from_player = settlements[j].from_player
        /\ settlements[i].to_player = settlements[j].to_player
        => i = j

Promise == INSTANCE Clearing WITH open <- remaining, paid <- ToSet(settlements)

\* The loop is a way of clearing: it keeps what Clearing promises at every step.
ImplementsClearing == Promise!Spec
=============================================================================
