-------------------------- MODULE SettlementProofs --------------------------
(***************************************************************************)
(* minimize_transfers for any number of players and any balances: it       *)
(* refines Clearing, no pair pays twice, and it clears every balance, as   *)
(* pairwise_net does.                                                      *)
(*                                                                         *)
(* The two lists are walked once: whoever lies before the index has        *)
(* nothing open, whoever is still to come has what the sort put him on     *)
(* the list for.  So a payment finds both of its people with money open,   *)
(* and leaves one of them without: that pair cannot come up again.         *)
(*                                                                         *)
(* And the money: every transfer takes from one what it brings to another, *)
(* so what is open comes to nothing, and when one list is through it is    *)
(* nothing for everybody.  pairwise_net is compared with the transfers     *)
(* pair by pair.                                                           *)
(***************************************************************************)
EXTENDS Settlement, Sums, SequenceTheorems

\* Names of one list do not repeat, and from the index on their money is open.
Creditors ==
    /\ creditor_ids \in Seq(Player) /\ ci \in Nat /\ ci >= 1
    /\ \A i, j \in 1 .. Len(creditor_ids) : i < j => creditor_ids[i] # creditor_ids[j]
    /\ \A i \in 1 .. Len(creditor_ids) : i >= ci => remaining[creditor_ids[i]] > 0

Debtors ==
    /\ debtor_ids \in Seq(Player) /\ di \in Nat /\ di >= 1
    /\ \A i, j \in 1 .. Len(debtor_ids) : i < j => debtor_ids[i] # debtor_ids[j]
    /\ \A i \in 1 .. Len(debtor_ids) : i >= di => remaining[debtor_ids[i]] < 0

\* Nobody is on both lists, however far the loop has come.
ListsApart ==
    \A i \in 1 .. Len(creditor_ids), j \in 1 .. Len(debtor_ids) : creditor_ids[i] # debtor_ids[j]

\* One of the two of a payment has nothing open any more.
PaidIsThrough ==
    \A i \in 1 .. Len(settlements) :
        remaining[settlements[i].from_player] = 0 \/ remaining[settlements[i].to_player] = 0

IInv ==
    /\ remaining \in [Player -> Int]
    /\ settlements \in Seq(Transfers)
    /\ Creditors /\ Debtors /\ ListsApart
    /\ PaidIsThrough
    /\ PairsDiffer

-----------------------------------------------------------------------------

LEMMA StartsSo == Init => IInv
<1> SUFFICES ASSUME Init PROVE IInv
  OBVIOUS
<1>1. remaining \in [Player -> Int]
  BY GamesAssumption DEF Init
<1> DEFINE C == {p \in Player : remaining[p] > 0}
           D == {p \in Player : remaining[p] < 0}
           owed == [p \in Player |-> -remaining[p]]
<1>2. /\ ci = 1 /\ di = 1 /\ settlements = << >>
      /\ creditor_ids \in BiggestFirst(C, remaining)
      /\ debtor_ids \in BiggestFirst(D, owed)
  BY DEF Init
<1>3. Cardinality(C) \in Nat /\ Cardinality(D) \in Nat
  BY GamesAssumption, FS_Subset, FS_CardinalityType
<1>4. /\ creditor_ids \in [1 .. Cardinality(C) -> C]
      /\ \A i, j \in DOMAIN creditor_ids : i < j => creditor_ids[i] # creditor_ids[j]
  BY <1>2 DEF BiggestFirst
<1>5. /\ debtor_ids \in [1 .. Cardinality(D) -> D]
      /\ \A i, j \in DOMAIN debtor_ids : i < j => debtor_ids[i] # debtor_ids[j]
  BY <1>2 DEF BiggestFirst
<1>6. creditor_ids \in Seq(C) /\ Len(creditor_ids) = Cardinality(C)
  <2>1. creditor_ids \in Seq(C)
    BY <1>3, <1>4, SeqDef
  <2> QED
    BY <1>3, <1>4, <2>1, LenProperties
<1>7. debtor_ids \in Seq(D) /\ Len(debtor_ids) = Cardinality(D)
  <2>1. debtor_ids \in Seq(D)
    BY <1>3, <1>5, SeqDef
  <2> QED
    BY <1>3, <1>5, <2>1, LenProperties
<1>8. \A i \in 1 .. Len(creditor_ids) : creditor_ids[i] \in C
  BY <1>6
<1>9. \A i \in 1 .. Len(debtor_ids) : debtor_ids[i] \in D
  BY <1>7
<1>10. creditor_ids \in Seq(Player) /\ debtor_ids \in Seq(Player)
  BY <1>6, <1>7
<1>11. Creditors
  BY <1>2, <1>4, <1>6, <1>8, <1>10 DEF Creditors
<1>12. Debtors
  BY <1>2, <1>5, <1>7, <1>9, <1>10 DEF Debtors
<1>13. ListsApart
  BY <1>1, <1>8, <1>9 DEF ListsApart
<1>14. settlements \in Seq(Transfers) /\ PaidIsThrough /\ PairsDiffer
  BY <1>2 DEF PaidIsThrough, PairsDiffer
<1> QED
  BY <1>1, <1>11, <1>12, <1>13, <1>14 DEF IInv

-----------------------------------------------------------------------------
(* One iteration: the two in turn, what they have open, what is paid. *)

Cid == creditor_ids[ci]
Did == debtor_ids[di]
Due == Amount(remaining[Cid], -remaining[Did])

(* A payment is made, of the smaller of the two amounts that are open. *)
LEMMA InTurn ==
    ASSUME IInv, ~Finished
    PROVE  /\ Cid \in Player /\ Did \in Player /\ Cid # Did
           /\ ci \in 1 .. Len(creditor_ids) /\ di \in 1 .. Len(debtor_ids)
           /\ remaining[Cid] \in Int /\ remaining[Did] \in Int
           /\ remaining[Cid] > 0 /\ remaining[Did] < 0
           /\ Due \in Int /\ Due > 0
           /\ Due <= remaining[Cid] /\ Due <= -remaining[Did]
           /\ Due = remaining[Cid] \/ Due = -remaining[Did]
<1>1. ci \in 1 .. Len(creditor_ids) /\ di \in 1 .. Len(debtor_ids)
  BY DEF IInv, Creditors, Debtors, Finished
<1>2. Cid \in Player /\ Did \in Player
  BY <1>1 DEF IInv, Creditors, Debtors, Cid, Did
<1>3. Cid # Did
  BY <1>1 DEF IInv, ListsApart, Cid, Did
<1>4. remaining[Cid] > 0 /\ remaining[Did] < 0
  BY <1>1 DEF IInv, Creditors, Debtors, Cid, Did
<1>5. remaining[Cid] \in Int /\ remaining[Did] \in Int
  BY <1>2 DEF IInv
<1> QED
  BY <1>1, <1>2, <1>3, <1>4, <1>5 DEF Due, Amount, Smaller

(* The same iteration without the conditions that always hold. *)
LEMMA Iteration ==
    ASSUME IInv, Match
    PROVE  /\ ~Finished
           /\ settlements' = Append(settlements, Payment(Did, Cid, Due))
           /\ remaining' = [remaining EXCEPT ![Cid] = @ - Due, ![Did] = @ + Due]
           /\ remaining'[Cid] = remaining[Cid] - Due
           /\ remaining'[Did] = remaining[Did] + Due
           /\ remaining' \in [Player -> Int]
           /\ \A p \in Player \ {Cid, Did} : remaining'[p] = remaining[p]
           /\ ci' = IF remaining'[Cid] = 0 THEN ci + 1 ELSE ci
           /\ di' = IF remaining'[Did] = 0 THEN di + 1 ELSE di
           /\ creditor_ids' = creditor_ids /\ debtor_ids' = debtor_ids
<1>1. ~Finished
  BY DEF Match
<1>2. /\ Cid \in Player /\ Did \in Player /\ Cid # Did /\ Due \in Int /\ Due > 0
      /\ remaining[Cid] \in Int /\ remaining[Did] \in Int
  BY <1>1, InTurn
<1>3. /\ settlements' = IF Due > 0 THEN Append(settlements, Payment(Did, Cid, Due))
                        ELSE settlements
      /\ remaining' = [remaining EXCEPT ![Cid] = @ - Due, ![Did] = @ + Due]
      /\ ci' = NextIndex(ci, remaining'[Cid])
      /\ di' = NextIndex(di, remaining'[Did])
      /\ creditor_ids' = creditor_ids /\ debtor_ids' = debtor_ids
  BY DEF Match, Cid, Did, Due
<1>4. remaining \in [Player -> Int]
  BY DEF IInv
<1>5. /\ remaining' \in [Player -> Int]
      /\ remaining'[Cid] = remaining[Cid] - Due
      /\ remaining'[Did] = remaining[Did] + Due
      /\ \A p \in Player \ {Cid, Did} : remaining'[p] = remaining[p]
  BY <1>2, <1>3, <1>4
<1> QED
  BY <1>1, <1>2, <1>3, <1>5 DEF NextIndex

LEMMA StaysSo ==
    ASSUME IInv, [Match]_vars
    PROVE  IInv'
<1>1. CASE UNCHANGED vars
  BY <1>1 DEF vars, IInv, Creditors, Debtors, ListsApart, PaidIsThrough, PairsDiffer
<1>2. CASE Match
  <2> DEFINE n == Len(settlements)
             new == Payment(Did, Cid, Due)
  <2>1. /\ settlements' = Append(settlements, new)
        /\ remaining'[Cid] = remaining[Cid] - Due
        /\ remaining'[Did] = remaining[Did] + Due
        /\ remaining' \in [Player -> Int]
        /\ \A p \in Player \ {Cid, Did} : remaining'[p] = remaining[p]
        /\ ci' = IF remaining'[Cid] = 0 THEN ci + 1 ELSE ci
        /\ di' = IF remaining'[Did] = 0 THEN di + 1 ELSE di
        /\ creditor_ids' = creditor_ids /\ debtor_ids' = debtor_ids
    BY <1>2, Iteration
  <2>2. ~Finished
    BY <1>2 DEF Match
  <2>3. /\ Cid \in Player /\ Did \in Player /\ Cid # Did
        /\ ci \in 1 .. Len(creditor_ids) /\ di \in 1 .. Len(debtor_ids)
        /\ remaining[Cid] \in Int /\ remaining[Did] \in Int
        /\ remaining[Cid] > 0 /\ remaining[Did] < 0
        /\ Due \in Int /\ Due <= remaining[Cid] /\ Due <= -remaining[Did]
        /\ Due = remaining[Cid] \/ Due = -remaining[Did]
    BY <2>2, InTurn
  <2>4. new \in Transfers /\ new.from_player = Did /\ new.to_player = Cid
    BY <2>3 DEF Payment, Transfers
  <2>5. /\ settlements' \in Seq(Transfers) /\ Len(settlements') = n + 1 /\ n \in Nat
        /\ settlements'[n + 1] = new
        /\ \A i \in 1 .. n : settlements'[i] = settlements[i]
    BY <2>1, <2>4 DEF IInv
  <2> HIDE DEF new
  <2>6. Creditors'
    <3>1. /\ ci' \in Nat /\ ci' >= ci /\ ci >= 1
          /\ ci' > ci \/ (ci' = ci /\ remaining'[Cid] > 0)
      BY <2>1, <2>3
    <3>2. ASSUME NEW i \in 1 .. Len(creditor_ids), i >= ci'
          PROVE  remaining'[creditor_ids[i]] > 0
      <4>1. CASE i = ci
        BY <3>1, <3>2, <4>1 DEF Cid
      <4>2. CASE i > ci
        <5>1. creditor_ids[i] # Cid
          BY <2>3, <4>2 DEF IInv, Creditors, Cid
        <5>2. creditor_ids[i] # Did
          BY <2>3 DEF IInv, ListsApart, Did
        <5>3. creditor_ids[i] \in Player /\ remaining[creditor_ids[i]] > 0
          BY <4>2, <3>1 DEF IInv, Creditors
        <5> QED
          BY <2>1, <5>1, <5>2, <5>3
      <4> QED
        BY <3>1, <3>2, <4>1, <4>2, <2>3
    <3> QED
      BY <2>1, <3>1, <3>2 DEF IInv, Creditors
  <2>7. Debtors'
    <3>1. /\ di' \in Nat /\ di' >= di /\ di >= 1
          /\ di' > di \/ (di' = di /\ remaining'[Did] < 0)
      BY <2>1, <2>3
    <3>2. ASSUME NEW i \in 1 .. Len(debtor_ids), i >= di'
          PROVE  remaining'[debtor_ids[i]] < 0
      <4>1. CASE i = di
        BY <3>1, <3>2, <4>1 DEF Did
      <4>2. CASE i > di
        <5>1. debtor_ids[i] # Did
          BY <2>3, <4>2 DEF IInv, Debtors, Did
        <5>2. debtor_ids[i] # Cid
          BY <2>3 DEF IInv, ListsApart, Cid
        <5>3. debtor_ids[i] \in Player /\ remaining[debtor_ids[i]] < 0
          BY <4>2, <3>1 DEF IInv, Debtors
        <5> QED
          BY <2>1, <5>1, <5>2, <5>3
      <4> QED
        BY <3>1, <3>2, <4>1, <4>2, <2>3
    <3> QED
      BY <2>1, <3>1, <3>2 DEF IInv, Debtors
  <2>8. ListsApart'
    BY <2>1 DEF IInv, ListsApart
  <2>9. remaining'[Did] = 0 \/ remaining'[Cid] = 0
    BY <2>1, <2>3
  <2>10. ASSUME NEW i \in 1 .. n
         PROVE  /\ settlements[i].from_player \in Player /\ settlements[i].to_player \in Player
                /\ remaining[settlements[i].from_player] = 0
                   \/ remaining[settlements[i].to_player] = 0
    <3>1. settlements[i] \in Transfers
      BY ElementOfSeq DEF IInv
    <3> QED
      BY <3>1 DEF IInv, PaidIsThrough, Transfers
  <2>11. PaidIsThrough'
    <3>1. ASSUME NEW p \in Player, remaining[p] = 0
          PROVE  remaining'[p] = 0
      <4>1. p # Cid /\ p # Did
        BY <2>3, <3>1
      <4> QED
        BY <2>1, <3>1, <4>1
    <3>2. ASSUME NEW i \in 1 .. n + 1
          PROVE  \/ remaining'[settlements'[i].from_player] = 0
                 \/ remaining'[settlements'[i].to_player] = 0
      <4>1. CASE i = n + 1
        BY <2>4, <2>5, <2>9, <4>1
      <4>2. CASE i \in 1 .. n
        BY <2>5, <2>10, <3>1, <4>2
      <4> QED
        BY <4>1, <4>2, <2>5
    <3> QED
      BY <3>2, <2>5 DEF PaidIsThrough
  <2>12. PairsDiffer'
    <3>1. \A i \in 1 .. n : settlements[i].from_player # Did \/ settlements[i].to_player # Cid
      BY <2>3, <2>10
    <3>2. \A i, j \in 1 .. n :
              /\ settlements[i].from_player = settlements[j].from_player
              /\ settlements[i].to_player = settlements[j].to_player
              => i = j
      BY DEF IInv, PairsDiffer
    <3>3. ASSUME NEW i \in 1 .. n + 1, NEW j \in 1 .. n + 1,
                 settlements'[i].from_player = settlements'[j].from_player,
                 settlements'[i].to_player = settlements'[j].to_player
          PROVE  i = j
      <4>1. CASE i \in 1 .. n /\ j \in 1 .. n
        BY <2>5, <3>2, <3>3, <4>1
      <4>2. CASE i = n + 1 /\ j \in 1 .. n
        BY <2>4, <2>5, <3>1, <3>3, <4>2
      <4>3. CASE j = n + 1 /\ i \in 1 .. n
        BY <2>4, <2>5, <3>1, <3>3, <4>3
      <4>4. CASE i = n + 1 /\ j = n + 1
        BY <4>4
      <4> QED
        BY <4>1, <4>2, <4>3, <4>4, <2>5
    <3>4. DOMAIN settlements' = 1 .. n + 1
      BY <2>5
    <3> QED
      BY <3>3, <3>4 DEF PairsDiffer
  <2> QED
    BY <2>1, <2>5, <2>6, <2>7, <2>8, <2>11, <2>12 DEF IInv
<1> QED
  BY <1>1, <1>2

(* The lists, the indices and what is open keep in step through the loop. *)
THEOREM Inductive == Spec => []IInv
<1> QED
  BY StartsSo, StaysSo, PTL DEF Spec

(* No pair of people pays twice in one settlement, for any balances: no payment is
   skipped when `append_events' inserts them, one row a pair. *)
THEOREM OneDebtPerPair == Spec => []PairsDiffer
<1>1. IInv => PairsDiffer
  BY DEF IInv
<1> QED
  BY <1>1, Inductive, PTL

-----------------------------------------------------------------------------

(* Every payment takes the loop further down one list or the other. *)
EachPaymentAdvances ==
    /\ Len(settlements) <= (ci - 1) + (di - 1)
    /\ settlements # << >> => Len(settlements) < Len(creditor_ids) + Len(debtor_ids)

LEMMA AdvancesStep ==
    ASSUME IInv, EachPaymentAdvances, [Match]_vars
    PROVE  EachPaymentAdvances'
<1>1. CASE UNCHANGED vars
  BY <1>1 DEF vars, EachPaymentAdvances
<1>2. CASE Match
  <2>1. ~Finished
    BY <1>2 DEF Match
  <2>2. /\ ci \in 1 .. Len(creditor_ids) /\ di \in 1 .. Len(debtor_ids)
        /\ Len(creditor_ids) \in Nat /\ Len(debtor_ids) \in Nat
        /\ remaining[Cid] \in Int /\ remaining[Did] \in Int /\ Due \in Int
        /\ Due = remaining[Cid] \/ Due = -remaining[Did]
    BY <2>1, InTurn DEF IInv, Creditors, Debtors
  <2>3. /\ ci' = IF remaining[Cid] - Due = 0 THEN ci + 1 ELSE ci
        /\ di' = IF remaining[Did] + Due = 0 THEN di + 1 ELSE di
        /\ settlements' = Append(settlements, Payment(Did, Cid, Due))
        /\ creditor_ids' = creditor_ids /\ debtor_ids' = debtor_ids
    BY <1>2, Iteration
  <2>4. ci' \in Int /\ di' \in Int /\ ci' + di' > ci + di
    BY <2>2, <2>3
  <2>5. Len(settlements') = Len(settlements) + 1 /\ Len(settlements) \in Nat
    BY <2>3 DEF IInv
  <2> QED
    BY <2>2, <2>3, <2>4, <2>5 DEF EachPaymentAdvances
<1> QED
  BY <1>1, <1>2

(* minimize_transfers settles a game in fewer payments than there are people with
   money open (settlement.py:9), and every iteration makes one: so it is through
   after fewer iterations than that. *)
THEOREM FewPayments ==
    Spec => /\ [](settlements # << >> =>
                    Len(settlements) < Len(creditor_ids) + Len(debtor_ids))
            /\ [][Len(settlements') = Len(settlements) + 1]_vars
<1>1. Init => EachPaymentAdvances
  BY DEF Init, EachPaymentAdvances
<1>2. IInv /\ EachPaymentAdvances /\ [Match]_vars => EachPaymentAdvances'
  BY AdvancesStep
<1>3. EachPaymentAdvances =>
        (settlements # << >> => Len(settlements) < Len(creditor_ids) + Len(debtor_ids))
  BY DEF EachPaymentAdvances
<1>4. IInv /\ [Match]_vars => [Len(settlements') = Len(settlements) + 1]_vars
  <2> SUFFICES ASSUME IInv, Match PROVE Len(settlements') = Len(settlements) + 1
    OBVIOUS
  <2>1. settlements' = Append(settlements, Payment(Did, Cid, Due))
    BY Iteration
  <2> QED
    BY <2>1 DEF IInv
<1> QED
  BY <1>1, <1>2, <1>3, <1>4, Inductive, PTL DEF Spec

-----------------------------------------------------------------------------

(* `minimize_transfers' is a way of clearing: every iteration is a payment by
   someone who owes to someone who is owed, of all that one of them has open. *)
THEOREM Clears == Spec => ImplementsClearing
<1> DEFINE paid == ToSet(settlements)
<1>1. Init => Promise!Init
  BY GamesAssumption DEF Init, Promise!Init, ToSet
<1>2. ASSUME IInv, [Match]_vars
      PROVE  [Promise!Next]_<<remaining, paid>>
  <2>1. CASE UNCHANGED vars
    BY <2>1 DEF vars, ToSet
  <2>2. CASE Match
    <3>1. ~Finished
      BY <2>2 DEF Match
    <3>2. /\ settlements' = Append(settlements, Payment(Did, Cid, Due))
          /\ remaining' = [remaining EXCEPT ![Cid] = @ - Due, ![Did] = @ + Due]
      BY <1>2, <2>2, Iteration
    <3>3. /\ Cid \in Player /\ Did \in Player /\ Cid # Did
          /\ remaining[Cid] > 0 /\ remaining[Did] < 0
          /\ Due \in Int /\ Due > 0 /\ Due <= remaining[Cid] /\ Due <= -remaining[Did]
          /\ Due = remaining[Cid] \/ Due = -remaining[Did]
      BY <1>2, <3>1, InTurn
    <3>4. remaining' = [remaining EXCEPT ![Did] = @ + Due, ![Cid] = @ - Due]
      <4>1. /\ remaining \in [Player -> Int] /\ remaining' \in [Player -> Int]
            /\ remaining'[Cid] = remaining[Cid] - Due
            /\ remaining'[Did] = remaining[Did] + Due
            /\ \A p \in Player \ {Cid, Did} : remaining'[p] = remaining[p]
        BY <1>2, <2>2, Iteration DEF IInv
      <4> DEFINE other == [remaining EXCEPT ![Did] = @ + Due, ![Cid] = @ - Due]
      <4>2. /\ other \in [Player -> Int]
            /\ \A p \in Player : other[p] = remaining'[p]
        <5>1. remaining[Cid] \in Int /\ remaining[Did] \in Int
          BY <3>3, <4>1
        <5> QED
          BY <3>3, <4>1, <5>1
      <4> HIDE DEF other
      <4>3. other = remaining'
        BY <4>1, <4>2
      <4> QED
        BY <4>3 DEF other
    <3>5. paid' = paid \cup {Payment(Did, Cid, Due)}
      <4> DEFINE n == Len(settlements)
                 new == Payment(Did, Cid, Due)
      <4>1. new \in Transfers
        BY <3>3 DEF Payment, Transfers
      <4> HIDE DEF new
      <4>2. /\ settlements \in Seq(Transfers) /\ settlements' = Append(settlements, new)
            /\ n \in Nat
        BY <1>2, <3>2 DEF IInv, new
      <4>3. /\ DOMAIN settlements' = 1 .. n + 1 /\ DOMAIN settlements = 1 .. n
            /\ settlements'[n + 1] = new
            /\ \A i \in 1 .. n : settlements'[i] = settlements[i]
        BY <4>1, <4>2
      <4>4. paid = {settlements[i] : i \in 1 .. n} /\ paid' = {settlements'[i] : i \in 1 .. n + 1}
        BY <4>3 DEF ToSet
      <4>5. 1 .. n + 1 = (1 .. n) \cup {n + 1}
        BY <4>2
      <4> HIDE DEF n, paid
      <4> QED
        BY <4>3, <4>4, <4>5 DEF new
    <3>6. Promise!Pay(Did, Cid, Due)
      BY <3>3, <3>4, <3>5 DEF Promise!Pay, Payment
    <3>7. Due \in {remaining[x] : x \in Player} \cup {-remaining[x] : x \in Player}
      BY <3>3
    <3> QED
      BY <3>3, <3>6, <3>7 DEF Promise!Next
  <2> QED
    BY <1>2, <2>1, <2>2
<1> QED
  BY <1>1, <1>2, Inductive, PTL DEF Spec, ImplementsClearing, Promise!Spec

-----------------------------------------------------------------------------
(* What transfers are to the players.  Each takes from one what it brings to
   another, so balances that transfers account for come to nothing. *)

LEMMA ShareIsInt == \A t \in Transfers, p \in Player : Share(t, p) \in Int
BY DEF Transfers, Share

LEMMA SharesCancel ==
    ASSUME NEW t \in Transfers
    PROVE  SumFunctionOnSet([p \in Player |-> Share(t, p)], Player) = 0
<1> DEFINE amount == t.amount_cents
           gain == [p \in Player |-> IF t.to_player = p THEN amount ELSE 0]
           cost == [p \in Player |-> IF t.from_player = p THEN -amount ELSE 0]
           share == [p \in Player |-> Share(t, p)]
<1>1. IsFiniteSet(Player) /\ amount \in Int /\ t.to_player \in Player /\ t.from_player \in Player
  BY GamesAssumption DEF Transfers
<1>2. /\ \A p \in Player : gain[p] \in Int /\ cost[p] \in Int /\ share[p] = gain[p] + cost[p]
      /\ gain[t.to_player] = amount /\ \A p \in Player : p # t.to_player => gain[p] = 0
      /\ cost[t.from_player] = -amount /\ \A p \in Player : p # t.from_player => cost[p] = 0
  BY <1>1 DEF Share
<1> HIDE DEF gain, cost, share, amount
<1>3. SumFunctionOnSet(share, Player)
      = SumFunctionOnSet(gain, Player) + SumFunctionOnSet(cost, Player)
  BY <1>1, <1>2, SumOfSums
<1>4. SumFunctionOnSet(gain, Player) = amount
  BY <1>1, <1>2, SumOfOneTerm
<1>5. SumFunctionOnSet(cost, Player) = -amount
  <2>1. -amount \in Int
    BY <1>1
  <2> QED
    BY <1>1, <1>2, <2>1, SumOfOneTerm
<1>6. SumFunctionOnSet(share, Player) = 0
  BY <1>1, <1>3, <1>4, <1>5
<1> QED
  BY <1>6 DEF share

(* What a set of transfers brings all players together. *)
LEMMA ReceivedCancels ==
    ASSUME NEW T \in SUBSET Transfers, IsFiniteSet(T)
    PROVE  SumFunctionOnSet([p \in Player |-> Received(T, p)], Player) = 0
<1> DEFINE f == [t \in T |-> [p \in Player |-> Share(t, p)]]
           column == [p \in Player |-> [t \in T |-> Share(t, p)]]
           g == [p \in Player |-> Received(T, p)]
<1>1. \A t \in T, p \in Player : f[t][p] \in Int /\ column[p][t] = f[t][p]
  BY ShareIsInt
<1>2. \A t \in T : SumFunctionOnSet(f[t], Player) = 0
  BY SharesCancel
<1>3. \A p \in Player : g[p] = SumFunctionOnSet(column[p], T)
  BY DEF Received
<1>4. IsTable(T, Player, f, column, g)
  BY <1>1, <1>3, GamesAssumption DEF IsTable
<1> HIDE DEF f, column, g
<1>5. SumFunctionOnSet(g, Player) = 0
  BY <1>2, <1>4, SumsCancel
<1> QED
  BY <1>5 DEF g

LEMMA ListIsFinite ==
    ASSUME NEW s \in Seq(Transfers)
    PROVE  DOMAIN s = 1 .. Len(s) /\ Len(s) \in Nat /\ IsFiniteSet(1 .. Len(s))
<1>1. DOMAIN s = 1 .. Len(s) /\ Len(s) \in Nat
  OBVIOUS
<1>2. 1 \in Int /\ Len(s) \in Int
  BY <1>1
<1>3. IsFiniteSet(1 .. Len(s))
  BY <1>2, FS_Interval
<1> QED
  BY <1>1, <1>3

LEMMA GameIsOfTransfers ==
    ASSUME NEW g \in Games
    PROVE  /\ g.transfers \in Seq(Transfers) /\ g.balances \in [Player -> Int]
           /\ IsFiniteSet(DOMAIN g.transfers)
           /\ \A i \in DOMAIN g.transfers : g.transfers[i] \in Transfers
           /\ \A p \in Player : g.balances[p] = Left(g.transfers, p)
<1>1. /\ g.transfers \in Seq(Transfers) /\ g.balances \in [Player -> Int]
      /\ \A p \in Player : g.balances[p] = Left(g.transfers, p)
  BY GamesAssumption
<1>2. IsFiniteSet(DOMAIN g.transfers)
  BY <1>1, ListIsFinite
<1>3. \A i \in DOMAIN g.transfers : g.transfers[i] \in Transfers
  BY <1>1, ListIsFinite, ElementOfSeq
<1> QED
  BY <1>1, <1>2, <1>3

(* The balances of a game come to nothing. *)
LEMMA BalancesCancel ==
    ASSUME NEW g \in Games
    PROVE  SumFunctionOnSet(g.balances, Player) = 0
<1> DEFINE ts == g.transfers
           S == DOMAIN ts
           b == g.balances
           f == [i \in S |-> [p \in Player |-> Share(ts[i], p)]]
           column == [p \in Player |-> [i \in S |-> Share(ts[i], p)]]
<1>1. /\ IsFiniteSet(S) /\ \A i \in S : ts[i] \in Transfers
      /\ \A p \in Player : b[p] = Left(ts, p)
  BY GameIsOfTransfers
<1>2. \A i \in S, p \in Player : f[i][p] \in Int /\ column[p][i] = f[i][p]
  BY <1>1, ShareIsInt
<1>3. \A i \in S : SumFunctionOnSet(f[i], Player) = 0
  BY <1>1, SharesCancel
<1>4. \A p \in Player : b[p] = SumFunctionOnSet(column[p], S)
  BY <1>1 DEF Left
<1>5. IsTable(S, Player, f, column, b)
  BY <1>1, <1>2, <1>4, GamesAssumption DEF IsTable
<1> HIDE DEF f, column, S, b
<1>6. SumFunctionOnSet(b, Player) = 0
  BY <1>3, <1>5, SumsCancel
<1> QED
  BY <1>6 DEF b
-----------------------------------------------------------------------------
(* The loop comes to its end with nothing open.  Whoever is owed money still has
   his turn, and so has whoever owes: when one list is through nobody is owed, or
   nobody owes, and as what is open comes to nothing there is nothing open. *)

\* Everybody has what the payments brought him and what is open for him.
PaidAndOpen ==
    \A p \in Player : game.balances[p] = Received(ToSet(settlements), p) + remaining[p]

StillInTurn ==
    \A p \in Player :
        /\ remaining[p] > 0 => \E i \in 1 .. Len(creditor_ids) : i >= ci /\ creditor_ids[i] = p
        /\ remaining[p] < 0 => \E i \in 1 .. Len(debtor_ids) : i >= di /\ debtor_ids[i] = p

CInv == game \in Games /\ PaidAndOpen /\ StillInTurn

LEMMA StartsOpen == Init => CInv
<1> SUFFICES ASSUME Init PROVE CInv
  OBVIOUS
<1> DEFINE C == {p \in Player : remaining[p] > 0}
           D == {p \in Player : remaining[p] < 0}
           owed == [p \in Player |-> -remaining[p]]
<1>1. /\ game \in Games /\ remaining = game.balances /\ remaining \in [Player -> Int]
      /\ ci = 1 /\ di = 1 /\ settlements = << >>
      /\ creditor_ids \in BiggestFirst(C, remaining)
      /\ debtor_ids \in BiggestFirst(D, owed)
  BY GamesAssumption DEF Init
<1>2. PaidAndOpen
  <2>1. ToSet(settlements) = {}
    BY <1>1 DEF ToSet
  <2>2. \A p \in Player : Received({}, p) = 0
    BY SumOfNone DEF Received
  <2> SUFFICES ASSUME NEW p \in Player PROVE game.balances[p] = 0 + remaining[p]
    BY <2>1, <2>2 DEF PaidAndOpen
  <2> QED
    BY <1>1
<1>3. creditor_ids \in Seq(Player) /\ debtor_ids \in Seq(Player)
  BY StartsSo DEF IInv, Creditors, Debtors
<1>4. /\ {creditor_ids[i] : i \in DOMAIN creditor_ids} = C
      /\ {debtor_ids[i] : i \in DOMAIN debtor_ids} = D
  BY <1>1 DEF BiggestFirst
<1>5. DOMAIN creditor_ids = 1 .. Len(creditor_ids) /\ DOMAIN debtor_ids = 1 .. Len(debtor_ids)
  BY <1>3
<1>6. StillInTurn
  <2> SUFFICES ASSUME NEW p \in Player
               PROVE  /\ p \in C => \E i \in 1 .. Len(creditor_ids) : i >= ci /\ creditor_ids[i] = p
                      /\ p \in D => \E i \in 1 .. Len(debtor_ids) : i >= di /\ debtor_ids[i] = p
    BY DEF StillInTurn
  <2> HIDE DEF C, D
  <2>1. ASSUME p \in C PROVE \E i \in 1 .. Len(creditor_ids) : i >= ci /\ creditor_ids[i] = p
    <3>1. PICK i \in 1 .. Len(creditor_ids) : creditor_ids[i] = p
      BY <2>1, <1>4, <1>5
    <3>2. i >= ci
      BY <1>1, <1>3
    <3> QED
      BY <3>1, <3>2
  <2>2. ASSUME p \in D PROVE \E i \in 1 .. Len(debtor_ids) : i >= di /\ debtor_ids[i] = p
    <3>1. PICK i \in 1 .. Len(debtor_ids) : debtor_ids[i] = p
      BY <2>2, <1>4, <1>5
    <3>2. i >= di
      BY <1>1, <1>3
    <3> QED
      BY <3>1, <3>2
  <2> QED
    BY <2>1, <2>2
<1> QED
  BY <1>1, <1>2, <1>6 DEF CInv

(* The settlements so far, as a set. *)
LEMMA SettlementSet ==
    ASSUME NEW s \in Seq(Transfers)
    PROVE  /\ ToSet(s) \in SUBSET Transfers /\ IsFiniteSet(ToSet(s))
           /\ \A t \in Transfers : ToSet(Append(s, t)) = ToSet(s) \cup {t}
<1>1. ToSet(s) = {s[i] : i \in 1 .. Len(s)} /\ Len(s) \in Nat
  BY DEF ToSet
<1>2. \A i \in 1 .. Len(s) : s[i] \in Transfers
  BY ElementOfSeq
<1>3. IsFiniteSet(ToSet(s))
  <2>1. IsFiniteSet(1 .. Len(s))
    BY ListIsFinite
  <2>2. s \in Surjection(1 .. Len(s), ToSet(s))
    BY <1>1 DEF Surjection
  <2> QED
    BY <2>1, <2>2, FS_Surjection
<1>4. ASSUME NEW t \in Transfers PROVE ToSet(Append(s, t)) = ToSet(s) \cup {t}
  <2> DEFINE n == Len(s)
             e == Append(s, t)
  <2>1. /\ DOMAIN e = 1 .. n + 1 /\ e[n + 1] = t
        /\ \A i \in 1 .. n : e[i] = s[i]
    OBVIOUS
  <2>2. 1 .. n + 1 = (1 .. n) \cup {n + 1}
    BY <1>1
  <2> HIDE DEF e, n
  <2>3. ToSet(e) = {e[i] : i \in 1 .. n + 1}
    BY <2>1 DEF ToSet
  <2> QED
    BY <1>1, <2>1, <2>2, <2>3 DEF e, n
<1> QED
  BY <1>1, <1>2, <1>3, <1>4

(* What one more payment brings. *)
LEMMA OneMorePayment ==
    ASSUME NEW T \in SUBSET Transfers, IsFiniteSet(T), NEW t \in Transfers \ T, NEW p \in Player
    PROVE  /\ Received(T \cup {t}, p) = Received(T, p) + Share(t, p)
           /\ Received(T, p) \in Int
<1> DEFINE f == [x \in T |-> Share(x, p)]
           e == [x \in T \cup {t} |-> Share(x, p)]
<1>1. /\ \A x \in T : f[x] \in Int /\ f[x] = e[x]
      /\ e[t] = Share(t, p) /\ e[t] \in Int
      /\ \A x \in T \cup {t} : e[x] \in Int
  BY ShareIsInt
<1>2. IsFiniteSet(T \cup {t}) /\ (T \cup {t}) \ {t} = T /\ t \in T \cup {t}
  BY FS_AddElement
<1> HIDE DEF e, f
<1>3. SumFunctionOnSet(e, T \cup {t}) = e[t] + SumFunctionOnSet(e, T)
  <2> DEFINE U == T \cup {t}
  <2>1. IsFiniteSet(U) /\ t \in U /\ \A x \in U : e[x] \in Int
    BY <1>1, <1>2
  <2> HIDE DEF U
  <2>2. SumFunctionOnSet(e, U) = e[t] + SumFunctionOnSet(e, U \ {t})
    BY <2>1, SumTakenOut
  <2> QED
    BY <1>2, <2>2 DEF U
<1>4. SumFunctionOnSet(f, T) = SumFunctionOnSet(e, T) /\ SumFunctionOnSet(f, T) \in Int
  BY <1>1, SumOfSame, SumIsInt
<1> QED
  BY <1>1, <1>3, <1>4 DEF Received, e, f

LEMMA StaysOpen ==
    ASSUME IInv, CInv, [Match]_vars
    PROVE  CInv'
<1>1. CASE UNCHANGED vars
  BY <1>1 DEF vars, CInv, PaidAndOpen, StillInTurn
<1>2. CASE Match
  <2> DEFINE new == Payment(Did, Cid, Due)
             T == ToSet(settlements)
  <2>1. /\ ~Finished
        /\ settlements' = Append(settlements, new)
        /\ remaining'[Cid] = remaining[Cid] - Due
        /\ remaining'[Did] = remaining[Did] + Due
        /\ \A p \in Player \ {Cid, Did} : remaining'[p] = remaining[p]
        /\ ci' = IF remaining'[Cid] = 0 THEN ci + 1 ELSE ci
        /\ di' = IF remaining'[Did] = 0 THEN di + 1 ELSE di
        /\ creditor_ids' = creditor_ids /\ debtor_ids' = debtor_ids
    BY <1>2, Iteration
  <2>2. /\ Cid \in Player /\ Did \in Player /\ Cid # Did
        /\ ci \in 1 .. Len(creditor_ids) /\ di \in 1 .. Len(debtor_ids)
        /\ remaining[Cid] \in Int /\ remaining[Did] \in Int
        /\ remaining[Cid] > 0 /\ remaining[Did] < 0
        /\ Due \in Int /\ Due <= remaining[Cid] /\ Due <= -remaining[Did]
    BY <2>1, InTurn
  <2>3. game' = game
    BY <1>2 DEF Match
  <2>4. new \in Transfers /\ \A p \in Player : Share(new, p) = (IF p = Cid THEN Due ELSE 0)
                                                               - (IF p = Did THEN Due ELSE 0)
    BY <2>2 DEF Payment, Transfers, Share
  <2>5. new \notin T
    <3> SUFFICES ASSUME new \in T PROVE FALSE
      OBVIOUS
    <3>1. PICK i \in 1 .. Len(settlements) : settlements[i] = new
      BY DEF IInv, ToSet
    <3>2. remaining[Did] = 0 \/ remaining[Cid] = 0
      BY <3>1 DEF IInv, PaidIsThrough, Payment
    <3> QED
      BY <2>2, <3>2
  <2>6. /\ T \in SUBSET Transfers /\ IsFiniteSet(T)
        /\ ToSet(settlements') = T \cup {new}
    BY <2>1, <2>4, SettlementSet DEF IInv
  <2> HIDE DEF new, T
  <2>7. PaidAndOpen'
    <3> SUFFICES ASSUME NEW p \in Player
                 PROVE  game.balances[p] = Received(T \cup {new}, p) + remaining'[p]
      BY <2>3, <2>6 DEF PaidAndOpen
    <3>1. /\ Received(T \cup {new}, p) = Received(T, p) + Share(new, p)
          /\ Received(T, p) \in Int
      BY <2>4, <2>5, <2>6, OneMorePayment
    <3>2. game.balances[p] = Received(T, p) + remaining[p] /\ remaining[p] \in Int
      BY DEF CInv, IInv, PaidAndOpen, T
    <3>3. CASE p = Cid
      <4>1. p # Did /\ Share(new, p) = Due
        BY <2>2, <2>4, <3>3
      <4>2. remaining'[p] = remaining[p] - Due
        BY <2>1, <3>3
      <4> QED
        BY <2>2, <3>1, <3>2, <4>1, <4>2
    <3>4. CASE p = Did
      <4>1. p # Cid /\ Share(new, p) = -Due
        BY <2>2, <2>4, <3>4
      <4>2. remaining'[p] = remaining[p] + Due
        BY <2>1, <3>4
      <4> QED
        BY <2>2, <3>1, <3>2, <4>1, <4>2
    <3>5. CASE p # Cid /\ p # Did
      <4>1. Share(new, p) = 0
        BY <2>4, <3>5
      <4>2. remaining'[p] = remaining[p]
        BY <2>1, <3>5
      <4> QED
        BY <3>1, <3>2, <4>1, <4>2
    <3> QED
      BY <3>3, <3>4, <3>5
  <2>8. ASSUME NEW p \in Player, remaining'[p] > 0
        PROVE  \E i \in 1 .. Len(creditor_ids) : i >= ci' /\ creditor_ids[i] = p
    <3>1. p # Did
      BY <2>1, <2>2, <2>8
    <3>2. CASE p = Cid
      BY <2>1, <2>2, <2>8, <3>2 DEF Cid
    <3>3. CASE p # Cid
      <4>1. remaining[p] > 0
        BY <2>1, <2>8, <3>1, <3>3
      <4>2. PICK i \in 1 .. Len(creditor_ids) : i >= ci /\ creditor_ids[i] = p
        BY <4>1 DEF CInv, StillInTurn
      <4>3. i # ci
        BY <3>3, <4>2 DEF Cid
      <4> QED
        BY <2>1, <2>2, <4>2, <4>3
    <3> QED
      BY <3>2, <3>3
  <2>9. ASSUME NEW p \in Player, remaining'[p] < 0
        PROVE  \E i \in 1 .. Len(debtor_ids) : i >= di' /\ debtor_ids[i] = p
    <3>1. p # Cid
      BY <2>1, <2>2, <2>9
    <3>2. CASE p = Did
      BY <2>1, <2>2, <2>9, <3>2 DEF Did
    <3>3. CASE p # Did
      <4>1. remaining[p] < 0
        BY <2>1, <2>9, <3>1, <3>3
      <4>2. PICK i \in 1 .. Len(debtor_ids) : i >= di /\ debtor_ids[i] = p
        BY <4>1 DEF CInv, StillInTurn
      <4>3. i # di
        BY <3>3, <4>2 DEF Did
      <4> QED
        BY <2>1, <2>2, <4>2, <4>3
    <3> QED
      BY <3>2, <3>3
  <2>10. StillInTurn'
    BY <2>1, <2>8, <2>9 DEF StillInTurn
  <2> QED
    BY <2>3, <2>7, <2>10 DEF CInv
<1> QED
  BY <1>1, <1>2

(* When the loop ends, nobody has anything open. *)
LEMMA NothingOpen ==
    ASSUME IInv, CInv, Finished
    PROVE  \A p \in Player : remaining[p] = 0
<1> DEFINE T == ToSet(settlements)
           paid == [p \in Player |-> Received(T, p)]
           balances == game.balances
<1>1. T \in SUBSET Transfers /\ IsFiniteSet(T)
  BY SettlementSet DEF IInv
<1>2. IsFiniteSet(Player) /\ remaining \in [Player -> Int] /\ balances \in [Player -> Int]
  BY GamesAssumption DEF IInv, CInv
<1>3. \A p \in Player : /\ balances[p] = paid[p] + remaining[p] /\ remaining[p] \in Int
                        /\ paid[p] \in Int
  <2> SUFFICES ASSUME NEW p \in Player
               PROVE  /\ balances[p] = Received(T, p) + remaining[p] /\ remaining[p] \in Int
                      /\ Received(T, p) \in Int
    OBVIOUS
  <2> DEFINE f == [t \in T |-> Share(t, p)]
  <2>1. \A t \in T : f[t] \in Int
    BY <1>1, ShareIsInt
  <2> HIDE DEF f
  <2>2. SumFunctionOnSet(f, T) \in Int
    BY <1>1, <2>1, SumIsInt
  <2> QED
    BY <1>2, <2>2 DEF CInv, PaidAndOpen, Received, f
<1>4. SumFunctionOnSet(paid, Player) = 0
  BY <1>1, ReceivedCancels
<1>5. SumFunctionOnSet(balances, Player) = 0
  BY BalancesCancel DEF CInv
<1> HIDE DEF T, paid, balances
<1>6. SumFunctionOnSet(balances, Player)
      = SumFunctionOnSet(paid, Player) + SumFunctionOnSet(remaining, Player)
  BY <1>2, <1>3, SumOfSums
<1>7. SumFunctionOnSet(remaining, Player) = 0
  <2>1. SumFunctionOnSet(remaining, Player) \in Int
    BY <1>2, <1>3, SumIsInt
  <2> QED
    BY <1>4, <1>5, <1>6, <2>1
<1>8. CASE ci > Len(creditor_ids)
  <2>1. \A i \in 1 .. Len(creditor_ids) : ~(i >= ci)
    BY <1>8 DEF IInv, Creditors
  <2>2. \A p \in Player : remaining[p] \in Int /\ remaining[p] <= 0
    BY <1>3, <2>1 DEF CInv, StillInTurn
  <2> QED
    BY <1>2, <1>7, <2>2, NoneAboveAllZero
<1>9. CASE di > Len(debtor_ids)
  <2>1. \A i \in 1 .. Len(debtor_ids) : ~(i >= di)
    BY <1>9 DEF IInv, Debtors
  <2>2. \A p \in Player : remaining[p] \in Int /\ remaining[p] >= 0
    BY <1>3, <2>1 DEF CInv, StillInTurn
  <2> QED
    BY <1>2, <1>7, <2>2, NoneBelowAllZero
<1> QED
  BY <1>8, <1>9 DEF Finished

-----------------------------------------------------------------------------
(* pairwise_net: the transfers of a game taken pair by pair. *)

\* What p has from the transfers between one pair.
OfPair(ts, pair, p) ==
    SumFunctionOnSet([i \in DOMAIN ts |-> Share(ts[i], p)], Between(ts, pair))

Pairs(ts) == {Pair(ts[i]) : i \in DOMAIN ts}

(* The transfer that gives a pair its direction is one of the pair. *)
LEMMA CanonicalIsOne ==
    ASSUME NEW ts \in Seq(Transfers), NEW pair \in Pairs(ts)
    PROVE  /\ Canonical(ts, pair) \in Transfers
           /\ Pair(Canonical(ts, pair)) = pair
           /\ \A i \in Between(ts, pair) : ts[i] \in Transfers /\ Pair(ts[i]) = pair
           /\ IsFiniteSet(Between(ts, pair))
           /\ Between(ts, pair) \in SUBSET DOMAIN ts
<1> DEFINE B == Between(ts, pair)
<1>1. DOMAIN ts = 1 .. Len(ts) /\ Len(ts) \in Nat /\ IsFiniteSet(DOMAIN ts)
  BY ListIsFinite
<1>2. /\ B \in SUBSET (1 .. Len(ts)) /\ B # {} /\ IsFiniteSet(B)
      /\ \A i \in B : Pair(ts[i]) = pair
  BY <1>1, FS_Subset DEF Between, Pairs
<1>3. \A i \in B : ts[i] \in Transfers
  BY <1>1, <1>2, ElementOfSeq
<1>4. PICK m \in B : \A n \in B : m <= n
  <2>1. B \in SUBSET Nat
    BY <1>1, <1>2
  <2> QED
    BY <1>2, <2>1, LeastNat
<1>5. Min(B) \in B
  BY <1>4 DEF Min
<1> QED
  BY <1>1, <1>2, <1>3, <1>5 DEF Canonical

Gain(d, c, amount, p) == (IF c = p THEN amount ELSE 0) - (IF d = p THEN amount ELSE 0)

LEMMA PaymentIs ==
    ASSUME NEW d \in Player, NEW c \in Player, NEW amount \in Int, NEW p \in Player
    PROVE  /\ Payment(d, c, amount) \in Transfers
           /\ Pair(Payment(d, c, amount)) = {d, c}
           /\ Share(Payment(d, c, amount), p) = Gain(d, c, amount, p)
BY DEF Gain, Payment, Transfers, Pair, Share

(* What the pair is netted to brings each player what the pair's transfers did;
   where it is nothing, they brought nobody anything. *)
LEMMA NettedIsFair ==
    ASSUME NEW ts \in Seq(Transfers), NEW pair \in Pairs(ts), NEW p \in Player
    PROVE  /\ Net(ts, pair) \in Int
           /\ Netted(ts, pair) \in Transfers
           /\ Net(ts, pair) # 0 => Pair(Netted(ts, pair)) = pair
           /\ OfPair(ts, pair, p) = IF Net(ts, pair) = 0 THEN 0 ELSE Share(Netted(ts, pair), p)
<1> DEFINE first == Canonical(ts, pair)
           a == first.from_player
           b == first.to_player
           B == Between(ts, pair)
           signed == [i \in DOMAIN ts |-> Signed(ts[i], first)]
           share == [i \in DOMAIN ts |-> Share(ts[i], p)]
           net == Net(ts, pair)
<1>1. /\ first \in Transfers /\ Pair(first) = pair
      /\ \A i \in B : ts[i] \in Transfers /\ Pair(ts[i]) = pair
      /\ IsFiniteSet(B) /\ B \in SUBSET DOMAIN ts
  BY CanonicalIsOne
<1>2. a \in Player /\ b \in Player /\ pair = {a, b}
  BY <1>1 DEF Transfers, Pair
<1>3. \A i \in B : /\ signed[i] = Signed(ts[i], first) /\ signed[i] \in Int
                  /\ share[i] = Share(ts[i], p) /\ share[i] \in Int
  <2> SUFFICES ASSUME NEW i \in B
               PROVE  Signed(ts[i], first) \in Int /\ Share(ts[i], p) \in Int
    BY <1>1
  <2>1. ts[i] \in Transfers /\ ts[i].amount_cents \in Int
    BY <1>1 DEF Transfers
  <2> QED
    BY <2>1, ShareIsInt DEF Signed
<1>4. net = SumFunctionOnSet(signed, B) /\ OfPair(ts, pair, p) = SumFunctionOnSet(share, B)
  BY DEF Net, OfPair
<1>5. net \in Int
  <2> HIDE DEF signed, B, net
  <2> QED
    BY <1>1, <1>3, <1>4, SumIsInt
<1>6. ASSUME NEW i \in B
      PROVE  /\ a = b => share[i] = 0
             /\ a # b /\ p = b => share[i] = signed[i]
             /\ a # b /\ p = a => share[i] = -signed[i]
             /\ p # a /\ p # b => share[i] = 0
  <2> DEFINE from == ts[i].from_player
             to == ts[i].to_player
             amount == ts[i].amount_cents
  <2>1. from \in Player /\ to \in Player /\ amount \in Int /\ {from, to} = {a, b}
    BY <1>1, <1>2 DEF Transfers, Pair
  <2>2. /\ share[i] = (IF to = p THEN amount ELSE 0) - (IF from = p THEN amount ELSE 0)
        /\ signed[i] = IF from = a THEN amount ELSE -amount
    BY <1>3 DEF Share, Signed
  <2>3. (from = a /\ to = b) \/ (from = b /\ to = a)
    BY <2>1
  <2> HIDE DEF from, to, amount, a, b, share, signed
  <2> QED
    BY <2>1, <2>2, <2>3
<1>7. /\ a = b => OfPair(ts, pair, p) = 0
      /\ a # b /\ p = b => OfPair(ts, pair, p) = net
      /\ a # b /\ p = a => OfPair(ts, pair, p) = -net
      /\ p # a /\ p # b => OfPair(ts, pair, p) = 0
  <2> HIDE DEF a, b, signed, share, B, net
  <2>1. CASE a = b \/ (p # a /\ p # b)
    <3>1. \A i \in B : share[i] = 0
      BY <1>6, <2>1
    <3>2. SumFunctionOnSet(share, B) = 0
      BY <1>1, <3>1, SumOfZeros
    <3> QED
      BY <1>4, <2>1, <3>2
  <2>2. CASE a # b /\ p = b
    <3>1. \A i \in B : signed[i] \in Int /\ signed[i] = share[i]
      BY <1>3, <1>6, <2>2
    <3>2. SumFunctionOnSet(signed, B) = SumFunctionOnSet(share, B)
      BY <1>1, <3>1, SumOfSame
    <3> QED
      BY <1>4, <2>2, <3>2
  <2>3. CASE a # b /\ p = a
    <3>1. \A i \in B : signed[i] \in Int /\ share[i] = -signed[i]
      BY <1>3, <1>6, <2>3
    <3>2. SumFunctionOnSet(share, B) = -SumFunctionOnSet(signed, B)
      BY <1>1, <3>1, SumOfOpposites
    <3> QED
      BY <1>4, <2>3, <3>2
  <2> QED
    BY <2>1, <2>2, <2>3
<1>8. /\ net > 0 => Netted(ts, pair) = Payment(a, b, net)
      /\ ~(net > 0) => Netted(ts, pair) = Payment(b, a, -net)
  BY DEF Netted
<1>9. /\ Netted(ts, pair) \in Transfers /\ Pair(Netted(ts, pair)) = pair
      /\ a = b => Share(Netted(ts, pair), p) = 0
      /\ a # b /\ p = b => Share(Netted(ts, pair), p) = net
      /\ a # b /\ p = a => Share(Netted(ts, pair), p) = -net
      /\ p # a /\ p # b => Share(Netted(ts, pair), p) = 0
  <2> HIDE DEF a, b, net
  <2>1. CASE net > 0
    <3>1. Netted(ts, pair) = Payment(a, b, net) /\ {a, b} = pair
      BY <1>2, <1>8, <2>1
    <3>2. /\ Payment(a, b, net) \in Transfers /\ Pair(Payment(a, b, net)) = {a, b}
          /\ Share(Payment(a, b, net), p) = Gain(a, b, net, p)
      BY <1>2, <1>5, PaymentIs
    <3> QED
      BY <1>5, <3>1, <3>2 DEF Gain
  <2>2. CASE ~(net > 0)
    <3> DEFINE amount == -net
    <3>1. /\ Netted(ts, pair) = Payment(b, a, amount) /\ {b, a} = pair
          /\ amount \in Int /\ amount = -net
      BY <1>2, <1>5, <1>8, <2>2
    <3> HIDE DEF amount
    <3>2. /\ Payment(b, a, amount) \in Transfers /\ Pair(Payment(b, a, amount)) = {b, a}
          /\ Share(Payment(b, a, amount), p) = Gain(b, a, amount, p)
      BY <1>2, <3>1, PaymentIs
    <3>3. Netted(ts, pair) \in Transfers /\ Pair(Netted(ts, pair)) = pair
      BY <3>1, <3>2
    <3>4. Share(Netted(ts, pair), p) = Gain(b, a, amount, p)
      BY <3>1, <3>2
    <3>5. amount \in Int /\ amount = -net
      BY <3>1
    <3> QED
      BY <1>5, <3>3, <3>4, <3>5 DEF Gain
  <2> QED
    BY <2>1, <2>2
<1> HIDE DEF a, b, net
<1>10. OfPair(ts, pair, p) = IF net = 0 THEN 0 ELSE Share(Netted(ts, pair), p)
  BY <1>5, <1>7, <1>9
<1> QED
  BY <1>5, <1>9, <1>10 DEF net

(* Pair by pair, pairwise_net brings every player what the transfers did. *)
LEMMA PairwiseIsFair ==
    ASSUME NEW ts \in Seq(Transfers), NEW p \in Player
    PROVE  Received(pairwise_net(ts), p) = Left(ts, p)
<1> DEFINE S == DOMAIN ts
           P == Pairs(ts)
           open == {pair \in P : Net(ts, pair) # 0}
           T == {Netted(ts, pair) : pair \in open}
           share == [i \in S |-> Share(ts[i], p)]
           kind == [i \in S |-> Pair(ts[i])]
           ofPair == [pair \in P |-> OfPair(ts, pair, p)]
<1>1. T = pairwise_net(ts)
  BY DEF pairwise_net, Pairs
<1>2. IsFiniteSet(S) /\ IsFiniteSet(P) /\ IsFiniteSet(open)
  <2>1. IsFiniteSet(S)
    BY ListIsFinite
  <2>2. IsFiniteSet(P)
    <3>1. kind \in Surjection(S, P)
      BY DEF Surjection, Pairs
    <3> QED
      BY <2>1, <3>1, FS_Surjection
  <2> QED
    BY <2>1, <2>2, FS_Subset
<1>3. Left(ts, p) = SumFunctionOnSet(ofPair, P)
  <2>1. \A i \in S : share[i] \in Int /\ kind[i] \in P
    BY ShareIsInt, ElementOfSeq DEF Pairs
  <2>2. \A pair \in P : ofPair[pair] = SumFunctionOnSet(share, {i \in S : kind[i] = pair})
    <3> SUFFICES ASSUME NEW pair \in P
                 PROVE  Between(ts, pair) = {i \in S : kind[i] = pair}
      BY DEF OfPair
    <3> QED
      BY DEF Between
  <2>3. Left(ts, p) = SumFunctionOnSet(share, S)
    BY DEF Left
  <2>4. IsClassed(S, share, P, kind, ofPair)
    BY <1>2, <2>1, <2>2 DEF IsClassed
  <2> HIDE DEF S, P, share, kind, ofPair
  <2> QED
    BY <2>3, <2>4, SumByClass
<1>4. /\ \A pair \in P : ofPair[pair] \in Int
      /\ \A pair \in open : /\ ofPair[pair] = Share(Netted(ts, pair), p)
                           /\ Netted(ts, pair) \in Transfers
                           /\ Pair(Netted(ts, pair)) = pair
      /\ \A pair \in P \ open : ofPair[pair] = 0
  BY NettedIsFair, ShareIsInt
<1> HIDE DEF P, ofPair
<1>5. SumFunctionOnSet(ofPair, P) = SumFunctionOnSet(ofPair, open)
  <2>1. open \in SUBSET P /\ (\A x \in open : ofPair[x] \in Int) /\ \A x \in P \ open : ofPair[x] = 0
    BY <1>4
  <2> HIDE DEF open
  <2> QED
    BY <1>2, <2>1, SumOfPart
<1> DEFINE paid == [t \in T |-> Share(t, p)]
           pairOf == [t \in T |-> Pair(t)]
<1>6. Received(T, p) = SumFunctionOnSet(ofPair, open)
  <2>1. \A t \in T : paid[t] \in Int /\ pairOf[t] \in open
    BY <1>4, ShareIsInt
  <2>2. IsFiniteSet(T)
    <3> DEFINE netted == [pair \in open |-> Netted(ts, pair)]
    <3>1. netted \in Surjection(open, T)
      BY DEF Surjection
    <3> QED
      BY <1>2, <3>1, FS_Surjection
  <2>3. ASSUME NEW pair \in open
        PROVE  ofPair[pair] = SumFunctionOnSet(paid, {t \in T : pairOf[t] = pair})
    <3> DEFINE one == {t \in T : pairOf[t] = pair}
               t1 == Netted(ts, pair)
    <3>1. one = {t1}
      <4>1. t1 \in one
        BY <1>4
      <4>2. \A t \in one : t = t1
        BY <1>4
      <4> QED
        BY <4>1, <4>2
    <3>2. t1 \in T /\ paid[t1] = ofPair[pair] /\ paid[t1] \in Int
      BY <1>4
    <3> HIDE DEF t1, one, paid
    <3>3. SumFunctionOnSet(paid, {t1}) = paid[t1]
      <4>1. IsFiniteSet({t1}) /\ \A y \in {t1} : y # t1 => paid[y] = 0
        BY FS_Singleton
      <4> QED
        BY <3>2, <4>1, SumOfOneTerm
    <3> QED
      BY <3>1, <3>2, <3>3 DEF one
  <2>4. Received(T, p) = SumFunctionOnSet(paid, T)
    BY DEF Received
  <2>5. IsClassed(T, paid, open, pairOf, ofPair)
    BY <1>2, <2>1, <2>2, <2>3 DEF IsClassed
  <2> HIDE DEF T, open, paid, pairOf
  <2> QED
    BY <2>4, <2>5, SumByClass
<1> QED
  BY <1>1, <1>3, <1>5, <1>6

-----------------------------------------------------------------------------

(* Both strategies come to the same end: once the loop of `minimize_transfers' is
   through, its payments give every player exactly the balance of the game, and so do
   those of `pairwise_net', for any number of players and any transfers.  What
   EveryBalanceCleared adds is that the loop ends. *)
THEOREM AllClearedAtTheEnd == Spec => [](Finished => AllCleared)
<1>1. ASSUME IInv, CInv, Finished PROVE AllCleared
  <2> SUFFICES ASSUME NEW p \in Player
               PROVE  /\ Received(ToSet(settlements), p) = game.balances[p]
                      /\ Received(pairwise_net(game.transfers), p) = game.balances[p]
    BY DEF AllCleared
  <2>1. /\ game.transfers \in Seq(Transfers) /\ game.balances \in [Player -> Int]
        /\ game.balances[p] = Left(game.transfers, p)
    BY <1>1, GamesAssumption DEF CInv
  <2>2. Received(pairwise_net(game.transfers), p) = game.balances[p]
    BY <2>1, PairwiseIsFair
  <2>3. remaining[p] = 0
    BY <1>1, NothingOpen
  <2>4. game.balances[p] = Received(ToSet(settlements), p) + 0
    BY <1>1, <2>3 DEF CInv, PaidAndOpen
  <2>5. Received(ToSet(settlements), p) \in Int
    <3> DEFINE T == ToSet(settlements)
               f == [t \in T |-> Share(t, p)]
    <3>1. T \in SUBSET Transfers /\ IsFiniteSet(T)
      BY <1>1, SettlementSet DEF IInv
    <3>2. Received(T, p) = SumFunctionOnSet(f, T) /\ \A t \in T : f[t] \in Int
      BY <3>1, ShareIsInt DEF Received
    <3> HIDE DEF T, f
    <3>3. Received(T, p) \in Int
      BY <3>1, <3>2, SumIsInt
    <3> QED
      BY <3>3 DEF T
  <2> QED
    BY <2>2, <2>4, <2>5
<1>2. Init => CInv
  BY StartsOpen
<1>3. IInv /\ CInv /\ [Match]_vars => CInv'
  BY StaysOpen
<1> QED
  BY <1>1, <1>2, <1>3, Inductive, PTL DEF Spec
=============================================================================
