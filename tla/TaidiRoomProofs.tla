--------------------------- MODULE TaidiRoomProofs ---------------------------
(***************************************************************************)
(* What holds of every Taidi room, for any players, rules and number of    *)
(* commands: its shape, who hosts it, the order of its rounds, that a      *)
(* collecting round can finish and that the table is staffed.              *)
(*                                                                         *)
(* The five invariants are inductive only together: a round stays          *)
(* finishable because nobody joins a running game, the host stays at the   *)
(* table because two players are left when one steps out, and so on.       *)
(*                                                                         *)
(* From them: the screens offer what the engine takes and every turn can   *)
(* be entered (TaidiScreen); payments are undone only as they may be; the  *)
(* balances are what the rounds charged; and all of it stays so when many  *)
(* requests race on a room (Dispatch).                                     *)
(***************************************************************************)
EXTENDS Dispatch, TaidiScreen, Sums, SequenceTheorems

-----------------------------------------------------------------------------
(* The seat given out is free. *)

(* A table always has a free seat, and the seat given out is a number nobody has. *)
LEMMA FreeSeat ==
    ASSUME NEW members, IsFiniteSet(DOMAIN members), members \in [DOMAIN members -> Nat]
    PROVE  /\ LowestFreeSeat(members) \in Nat
           /\ LowestFreeSeat(members) <= Cardinality(DOMAIN members)
           /\ \A p \in DOMAIN members : members[p] # LowestFreeSeat(members)
<1> DEFINE n == Cardinality(DOMAIN members)
           taken == {members[p] : p \in DOMAIN members}
           free == (0 .. n) \ taken
<1>1. n \in Nat
  BY FS_CardinalityType
<1>2. IsFiniteSet(taken) /\ Cardinality(taken) <= n
  <2>1. members \in Surjection(DOMAIN members, taken)
    BY DEF Surjection
  <2> QED
    BY <2>1, FS_Surjection
<1>3. free # {}
  <2>1. SUFFICES ASSUME 0 .. n \subseteq taken PROVE FALSE
    OBVIOUS
  <2>2. Cardinality(0 .. n) = n + 1
    <3> HIDE DEF n
    <3>1. 0 \in Int /\ n \in Int /\ ~(0 > n) /\ n - 0 + 1 = n + 1
      BY <1>1
    <3> QED
      BY <3>1, FS_Interval
  <2>3. Cardinality(0 .. n) <= Cardinality(taken)
    BY <1>2, <2>1, FS_Subset
  <2> QED
    BY <1>1, <1>2, <2>2, <2>3, FS_CardinalityType
<1>4. PICK m \in free : \A s \in free : m <= s
  <2>1. free \in SUBSET Nat
    BY <1>1
  <2> QED
    BY <1>3, <2>1, LeastNat, Zenon
<1>5. \A t \in 0 .. (m - 1) : t \in taken
  BY <1>1, <1>4
<1>6. /\ LowestFreeSeat(members) \in 0 .. n
      /\ LowestFreeSeat(members) \notin taken
  BY <1>4, <1>5 DEF LowestFreeSeat
<1> QED
  BY <1>1, <1>6

-----------------------------------------------------------------------------

IInv == GoodRoom(room)

-----------------------------------------------------------------------------
(* Payments and lists of rounds keep their types. *)

(* Settling final card counts yields payments between the players counted, none *)
(* of them for a special hand.                                                  *)
LEMMA CardPayments ==
    ASSUME NEW rules \in GameRules, NEW counts,
           \A p \in DOMAIN counts : counts[p] \in Int,
           \E p \in DOMAIN counts : counts[p] = 0
    PROVE  \A t \in compute_card_transfers(counts, rules) :
               t \in Payments(DOMAIN counts) /\ t.kind # "special"
<1> DEFINE winner == CHOOSE p \in DOMAIN counts : counts[p] = 0
           losers == DOMAIN counts \ {winner}
           price(payer, cards) ==
               cards * multiplier(rules, counts[payer]) * rules.card_value_cents
           to_winner == {Payment(p, winner, price(p, counts[p]), "cards", 0) : p \in losers}
           behind == {d \in losers \X losers : counts[d[1]] > counts[d[2]]}
           differences == {Payment(d[1], d[2], price(d[1], counts[d[1]] - counts[d[2]]),
                                   "difference", 0) : d \in behind}
           base == {Payment(p, winner, rules.base_cards * rules.card_value_cents, "base", 0) :
                       p \in losers}
           dues == {t \in Payments(DOMAIN counts) : t.kind # "special"}
<1>1. winner \in DOMAIN counts
  OBVIOUS
<1>2. rules.card_value_cents \in Int /\ rules.base_cards \in Int
  BY DEF GameRules, RuleShape
<1>3. \A p \in losers, c \in Int : price(p, c) \in Int
  <2>1. \A p \in losers : multiplier(rules, counts[p]) \in Int
    BY DEF multiplier
  <2>2. \A a, b \in Int : a * b \in Int
    OBVIOUS
  <2> QED
    BY <1>2, <2>1, <2>2
<1>4. rules.base_cards * rules.card_value_cents \in Int
  BY <1>2
<1> HIDE DEF winner, price
<1>5. \A p, q \in DOMAIN counts, a \in Int, k \in Kinds \ {"special"} :
          Payment(p, q, a, k, 0) \in dues
  BY DEF Payment, Payments
<1> HIDE DEF dues
<1>6. to_winner \subseteq dues
  BY <1>1, <1>3, <1>5 DEF Kinds
<1>7. differences \subseteq dues
  BY <1>3, <1>5 DEF Kinds
<1>8. base \subseteq dues
  BY <1>1, <1>4, <1>5 DEF Kinds
<1> HIDE DEF to_winner, differences, base
<1>9. compute_card_transfers(counts, rules) \subseteq dues
  BY <1>6, <1>7, <1>8 DEF compute_card_transfers, to_winner, differences, base, behind, losers,
                          winner, price
<1> QED
  BY <1>9 DEF dues

(* A special hand yields payments from the others to the claimer. *)
LEMMA SpecialPayments ==
    ASSUME NEW rules \in GameRules, NEW claimer \in Player, NEW others \in SUBSET Player,
           NEW seq \in Nat
    PROVE  compute_special_transfer(claimer, others, rules, seq) \in SUBSET Payments(Player)
<1>1. rules.special_hand_cards * rules.card_value_cents \in Int
  BY DEF GameRules, RuleShape
<1> QED
  BY <1>1 DEF compute_special_transfer, Payment, Payments, Kinds

(* The list of rounds after a change to the last one. *)
LEMMA LastReplaced ==
    ASSUME NEW rs \in Seq(RoundState), NEW x \in RoundState, Len(rs) > 0
    PROVE  LET ts == [rs EXCEPT ![Len(rs)] = x]
           IN  /\ ts \in Seq(RoundState)
               /\ Len(ts) = Len(rs)
               /\ ts[Len(rs)] = x
               /\ \A i \in 1 .. Len(rs) : i < Len(rs) => ts[i] = rs[i]
OBVIOUS

(* The list of rounds cut after k rounds. *)
LEMMA Cut ==
    ASSUME NEW rs \in Seq(RoundState), NEW k \in 0 .. Len(rs)
    PROVE  /\ SubSeq(rs, 1, k) \in Seq(RoundState)
           /\ Len(SubSeq(rs, 1, k)) = k
           /\ \A i \in 1 .. k : SubSeq(rs, 1, k)[i] = rs[i]
OBVIOUS

(* The list of rounds cut after k rounds and continued with one more. *)
LEMMA CutAndContinued ==
    ASSUME NEW rs \in Seq(RoundState), NEW k \in 0 .. Len(rs), NEW x \in RoundState
    PROVE  LET ts == Append(SubSeq(rs, 1, k), x)
           IN  /\ ts \in Seq(RoundState)
               /\ Len(ts) = k + 1
               /\ ts[k + 1] = x
               /\ \A i \in 1 .. k : ts[i] = rs[i]
OBVIOUS

-----------------------------------------------------------------------------
(* In the lobby: joining, leaving, disbanding and starting keep a good room. *)

LEMMA JoinedGood ==
    ASSUME NEW r, GoodRoom(r), NEW p \in Player, CanJoin(r, p)
    PROVE  GoodRoom(PlayerJoined(r, p))
<1> DEFINE s == PlayerJoined(r, p)
<1>1. LowestFreeSeat(r.members) \in Nat
  BY PlayerAssumption, FS_Subset, FreeSeat DEF GoodRoom, IsRoom, Members
<1>2. /\ DOMAIN s = DOMAIN r
      /\ s.status = r.status /\ s.seq = r.seq + 1 /\ s.host_id = r.host_id
      /\ s.rules = r.rules /\ s.rounds = r.rounds /\ s.departed = r.departed
      /\ s.members = With(r.members, p, LowestFreeSeat(r.members))
      /\ s.balances = With(r.balances, p, 0)
  BY DEF PlayerJoined, GoodRoom, IsRoom
<1>3. /\ Members(s) = Members(r) \cup {p}
      /\ s.members \in [Members(s) -> Nat]
      /\ DOMAIN s.balances = DOMAIN r.balances \cup {p}
  BY <1>1, <1>2 DEF With, Members, GoodRoom, IsRoom
<1> HIDE DEF s
<1>4. IsRoom(s)
  <2>1. DOMAIN s.balances = Members(s) \cup s.departed
    BY <1>2, <1>3 DEF GoodRoom, IsRoom
  <2> QED
    BY <1>2, <1>3, <2>1 DEF GoodRoom, IsRoom
<1>5. Hosted(s) /\ Staffed(s)
  BY <1>2, <1>3 DEF GoodRoom, CanJoin, Hosted, Staffed
<1>6. Ordered(s) /\ Finishable(s)
  BY <1>2 DEF GoodRoom, CanJoin, Ordered, Finishable, InPhase, Last, IsRoom
<1> QED
  BY <1>4, <1>5, <1>6 DEF GoodRoom, s

LEMMA LeftGood ==
    ASSUME NEW r, GoodRoom(r), NEW p \in Player, r.status = "lobby", p # r.host_id
    PROVE  GoodRoom(PlayerLeft(r, p))
<1> DEFINE s == PlayerLeft(r, p)
<1>1. /\ DOMAIN s = DOMAIN r
      /\ s.status = r.status /\ s.seq = r.seq + 1 /\ s.host_id = r.host_id
      /\ s.rules = r.rules /\ s.rounds = r.rounds /\ s.departed = r.departed
      /\ s.members = Without(r.members, p) /\ s.balances = Without(r.balances, p)
  BY DEF PlayerLeft, GoodRoom, IsRoom
<1>2. /\ Members(s) = Members(r) \ {p}
      /\ s.members \in [Members(s) -> Nat]
      /\ DOMAIN s.balances = DOMAIN r.balances \ {p}
  BY <1>1 DEF Without, Members, GoodRoom, IsRoom
<1> HIDE DEF s
<1>3. IsRoom(s)
  BY <1>1, <1>2 DEF GoodRoom, IsRoom, Staffed
<1>4. Hosted(s) /\ Staffed(s)
  BY <1>1, <1>2 DEF GoodRoom, Hosted, Staffed
<1>5. Ordered(s) /\ Finishable(s)
  BY <1>1 DEF GoodRoom, Ordered, Finishable, InPhase, Last, IsRoom
<1> QED
  BY <1>3, <1>4, <1>5 DEF GoodRoom, s

LEMMA DisbandedGood ==
    ASSUME NEW r, GoodRoom(r), r.status = "lobby"
    PROVE  GoodRoom(RoomDisbanded(r))
<1> DEFINE s == RoomDisbanded(r)
<1>1. /\ DOMAIN s = DOMAIN r
      /\ s.status = "disbanded" /\ s.seq = r.seq + 1 /\ s.host_id = r.host_id
      /\ s.rules = r.rules /\ s.rounds = r.rounds /\ s.departed = r.departed
      /\ s.members = r.members /\ s.balances = r.balances
  BY DEF RoomDisbanded, GoodRoom, IsRoom
<1> HIDE DEF s
<1>2. IsRoom(s) /\ Members(s) = Members(r)
  BY <1>1 DEF GoodRoom, IsRoom, Members, Statuses
<1>3. Hosted(s) /\ Staffed(s)
  BY <1>1, <1>2 DEF GoodRoom, Hosted, Staffed
<1>4. Ordered(s) /\ Finishable(s)
  BY <1>1 DEF GoodRoom, Ordered, Finishable, InPhase, Last, IsRoom
<1> QED
  BY <1>2, <1>3, <1>4 DEF GoodRoom, s

LEMMA FreshRoundType ==
    ASSUME NEW n \in Nat
    PROVE  /\ FreshRound(n) \in RoundState
           /\ FreshRound(n).round_no = n /\ FreshRound(n).phase = "playing"
           /\ Submitted(FreshRound(n)) = {}
BY DEF FreshRound, RoundState, Phases, Submitted

LEMMA StartedGood ==
    ASSUME NEW r, GoodRoom(r), NEW actor \in Player, NEW rules \in RuleChoices,
           CanStart(r, actor)
    PROVE  GoodRoom(GameStarted(r, rules))
<1> DEFINE s == GameStarted(r, rules)
<1>1. /\ DOMAIN s = DOMAIN r
      /\ s.status = "in_progress" /\ s.seq = r.seq + 1 /\ s.host_id = r.host_id
      /\ s.rules = rules /\ s.rounds = <<FreshRound(1)>> /\ s.departed = r.departed
      /\ s.members = r.members /\ s.balances = r.balances
  BY DEF GameStarted, GoodRoom, IsRoom
<1>2. /\ FreshRound(1) \in RoundState
      /\ FreshRound(1).round_no = 1 /\ FreshRound(1).phase = "playing"
      /\ Submitted(FreshRound(1)) = {}
  BY FreshRoundType
<1> HIDE DEF s
<1>3. /\ s.rounds \in Seq(RoundState) /\ Last(s) = 1 /\ Current(s) = FreshRound(1)
      /\ Members(s) = Members(r)
  BY <1>1, <1>2 DEF Last, Current, Members
<1>4. IsRoom(s)
  BY <1>1, <1>3, InputAssumption DEF GoodRoom, IsRoom, Statuses, Members
<1>5. Hosted(s) /\ Staffed(s)
  BY <1>1, <1>3 DEF GoodRoom, Hosted, Staffed, CanStart
<1>6. Ordered(s) /\ Finishable(s)
  BY <1>1, <1>2, <1>3 DEF Ordered, Finishable, InPhase, Last, Current
<1> QED
  BY <1>4, <1>5, <1>6 DEF GoodRoom, s

-----------------------------------------------------------------------------
(* During the game.  A command changes the last round, appends one after   *)
(* it, or cuts the list and continues it with a reverted round.            *)

\* Everything but the rounds and the amounts is as before.
SameTable(s, r) ==
    /\ DOMAIN s = DOMAIN r
    /\ s.status = r.status /\ s.seq \in Nat /\ s.host_id = r.host_id
    /\ s.members = r.members /\ s.rules = r.rules /\ s.departed = r.departed
    /\ DOMAIN s.balances = DOMAIN r.balances

LEMMA TableKept ==
    ASSUME NEW r, IsRoom(r), Hosted(r), Staffed(r),
           NEW s, SameTable(s, r), s.rounds \in Seq(RoundState)
    PROVE  Members(s) = Members(r) /\ IsRoom(s) /\ Hosted(s) /\ Staffed(s)
<1>1. Members(s) = Members(r)
  BY DEF SameTable, Members
<1>2. IsRoom(s)
  BY <1>1 DEF IsRoom, SameTable
<1> QED
  BY <1>1, <1>2 DEF SameTable, Hosted, Staffed

(* A change to the open round that keeps its number and leaves it open. *)
LEMMA OpenRoundChanged ==
    ASSUME NEW r, IsRoom(r), Hosted(r), Ordered(r), Staffed(r), r.status = "in_progress",
           NEW x \in RoundState, x.round_no = Last(r), x.phase \in {"playing", "collecting"},
           NEW s, SameTable(s, r), s.rounds = [r.rounds EXCEPT ![Last(r)] = x]
    PROVE  /\ IsRoom(s) /\ Hosted(s) /\ Ordered(s) /\ Staffed(s)
           /\ Last(s) = Last(r) /\ Current(s) = x /\ Members(s) = Members(r)
<1>1. r.rounds \in Seq(RoundState) /\ Last(r) > 0
  BY DEF IsRoom, Ordered, InPhase
<1>2. /\ s.rounds \in Seq(RoundState)
      /\ Last(s) = Last(r) /\ Current(s) = x
      /\ \A i \in 1 .. Last(r) : i < Last(r) => s.rounds[i] = r.rounds[i]
  BY <1>1, LastReplaced DEF Last, Current
<1>3. Last(r) \in Nat
  BY <1>1 DEF Last
<1>4. Ordered(s)
  <2>1. \A i \in 1 .. Last(s) : /\ s.rounds[i].round_no = i
                                /\ i < Last(s) => s.rounds[i].phase = "resolved"
    BY <1>2, <1>3 DEF Ordered, Current
  <2> QED
    BY <1>1, <1>2, <2>1 DEF SameTable, Ordered, InPhase
<1> QED
  BY <1>2, <1>4, TableKept

(* The list cut before round k and continued with a reverted round k. *)
LEMMA RoundsCut ==
    ASSUME NEW r, GoodRoom(r), r.status = "in_progress", NEW k \in 1 .. Last(r),
           NEW x \in RoundState, x.round_no = k, x.phase = "playing", Submitted(x) = {},
           NEW s, SameTable(s, r), s.rounds = Append(SubSeq(r.rounds, 1, k - 1), x)
    PROVE  GoodRoom(s) /\ Current(s) = x /\ Members(s) = Members(r)
<1>1. r.rounds \in Seq(RoundState) /\ Last(r) \in Nat /\ k \in Nat
  BY DEF GoodRoom, IsRoom, Last
<1>2. /\ s.rounds \in Seq(RoundState)
      /\ Last(s) = k /\ Current(s) = x
      /\ \A i \in 1 .. (k - 1) : s.rounds[i] = r.rounds[i]
  BY <1>1, CutAndContinued, k - 1 \in 0 .. Len(r.rounds) DEF Last, Current
<1>3. Ordered(s)
  <2>1. ASSUME NEW i \in 1 .. k
        PROVE  s.rounds[i].round_no = i /\ (i < k => s.rounds[i].phase = "resolved")
    <3>1. CASE i = k
      BY <1>1, <1>2, <3>1 DEF Current
    <3>2. CASE i # k
      <4>1. i \in 1 .. (k - 1) /\ i \in 1 .. Last(r) /\ i < Last(r)
        BY <1>1, <3>2
      <4> QED
        BY <1>2, <4>1 DEF GoodRoom, Ordered
    <3> QED
      BY <3>1, <3>2
  <2> QED
    BY <1>1, <1>2, <2>1 DEF SameTable, Ordered, InPhase
<1>4. Finishable(s)
  BY <1>2 DEF Finishable, InPhase
<1> QED
  BY <1>2, <1>3, <1>4, TableKept DEF GoodRoom

LEMMA ClaimedGood ==
    ASSUME NEW r, GoodRoom(r), NEW p \in Player, CanClaimWin(r, p)
    PROVE  GoodRoom(WinClaimed(r, p))
<1> DEFINE s == WinClaimed(r, p)
           x == [Current(r) EXCEPT !.phase = "collecting", !.winner = p]
<1>1. /\ r.status = "in_progress" /\ p \in Members(r)
      /\ Current(r).phase = "playing" /\ Last(r) > 0
      /\ r.rounds \in Seq(RoundState) /\ Last(r) \in Nat /\ Current(r) \in RoundState
  BY DEF CanClaimWin, MayPlay, InPhase, GoodRoom, IsRoom, Last, Current
<1>2. /\ x \in RoundState /\ x.round_no = Last(r) /\ x.phase = "collecting" /\ x.winner = p
      /\ x.cards_submitted = Current(r).cards_submitted
  <2>1. Current(r).round_no = Last(r)
    BY <1>1 DEF GoodRoom, Ordered, Current
  <2>2. p \in Player
    OBVIOUS
  <2> QED
    BY <1>1, <2>1, <2>2 DEF RoundState, Phases
<1>3. SameTable(s, r)
  BY DEF WinClaimed, SameTable, GoodRoom, IsRoom
<1>4. s.rounds = [r.rounds EXCEPT ![Last(r)] = x]
  BY <1>1 DEF WinClaimed, GoodRoom, IsRoom, Current
<1> HIDE DEF s, x
<1>5. /\ IsRoom(s) /\ Hosted(s) /\ Ordered(s) /\ Staffed(s)
      /\ Current(s) = x /\ Members(s) = Members(r)
  BY <1>1, <1>2, <1>3, <1>4, OpenRoundChanged DEF GoodRoom
<1>6. Submitted(x) = {}
  BY <1>1, <1>2 DEF GoodRoom, Finishable, InPhase, Submitted
<1>7. Members(r) \ {p} # {}
  <2>1. IsFiniteSet(Members(r)) /\ Cardinality(Members(r)) >= 2
    BY <1>1, PlayerAssumption, FS_Subset DEF GoodRoom, IsRoom, Staffed
  <2>2. Cardinality(Members(r) \ {p}) = Cardinality(Members(r)) - 1 /\ Cardinality(Members(r)) \in Nat
    BY <1>1, <2>1, FS_RemoveElement, FS_CardinalityType
  <2> QED
    BY <2>1, <2>2, FS_EmptySet
<1>8. Finishable(s)
  BY <1>1, <1>2, <1>5, <1>6, <1>7 DEF Finishable, InPhase, AllCountsIn
<1> QED
  BY <1>5, <1>8 DEF GoodRoom, s

(* The open round of a running game: a fact every game lemma starts from. *)
LEMMA OpenRound ==
    ASSUME NEW r, GoodRoom(r), r.status = "in_progress"
    PROVE  /\ r.rounds \in Seq(RoundState) /\ Last(r) \in Nat /\ Last(r) > 0
           /\ Current(r) \in RoundState /\ Current(r).round_no = Last(r)
           /\ Current(r).phase \in {"playing", "collecting"}
           /\ r.rules \in GameRules
BY DEF GoodRoom, IsRoom, Ordered, InPhase, Last, Current

\* x is a round that differs from round y in its special hands and payments only.
SameRound(x, y) ==
    /\ x \in RoundState
    /\ x.round_no = y.round_no /\ x.phase = y.phase
    /\ x.winner = y.winner /\ x.cards_submitted = y.cards_submitted

(* A claim added to a round or taken out of it changes nothing else there. *)
LEMMA ClaimTypes ==
    ASSUME NEW round \in RoundState, NEW p \in Player, NEW claim \in SUBSET Payments(Player)
    PROVE  SameRound(ClaimAdded(round, p, claim), round)
           /\ SameRound(ClaimRemoved(round, p, claim), round)
<1> DEFINE more == [round.special_counts EXCEPT ![p] = @ + 1]
           fewer == [round.special_counts EXCEPT ![p] = IF @ > 0 THEN @ - 1 ELSE 0]
<1>1. more \in [Player -> Nat]
  BY DEF RoundState
<1>2. fewer \in [Player -> Nat]
  BY DEF RoundState
<1>3. /\ ClaimAdded(round, p, claim) =
            [round EXCEPT !.special_counts = more, !.transfers = @ \cup claim]
      /\ ClaimRemoved(round, p, claim) =
            [round EXCEPT !.special_counts = fewer, !.transfers = @ \ claim]
  BY DEF ClaimAdded, ClaimRemoved
<1> HIDE DEF more, fewer
<1>4. \A counts \in [Player -> Nat], T \in SUBSET Payments(Player) :
        SameRound([round EXCEPT !.special_counts = counts, !.transfers = T], round)
  BY DEF RoundState, SameRound
<1>5. round.transfers \cup claim \in SUBSET Payments(Player)
      /\ round.transfers \ claim \in SUBSET Payments(Player)
  BY DEF RoundState
<1> QED
  BY <1>1, <1>2, <1>3, <1>4, <1>5

LEMMA SpecialGood ==
    ASSUME NEW r, GoodRoom(r), NEW p \in Player, CanAddSpecial(r, p)
    PROVE  GoodRoom(SpecialHand(r, p))
<1> DEFINE s == SpecialHand(r, p)
           paid == compute_special_transfer(p, OthersAtTable(r, p), r.rules, r.seq + 1)
           x == ClaimAdded(Current(r), p, paid)
<1>1. r.status = "in_progress"
  BY DEF CanAddSpecial, MayPlay
<1>2. paid \in SUBSET Payments(Player)
  BY <1>1, OpenRound, SpecialPayments DEF GoodRoom, IsRoom, OthersAtTable
<1>3. SameTable(s, r)
  BY DEF SpecialHand, SameTable, GoodRoom, IsRoom, Moved
<1>4. s.rounds = [r.rounds EXCEPT ![Last(r)] = x]
  BY <1>1, OpenRound DEF SpecialHand, GoodRoom, IsRoom, Current, Last
<1> HIDE DEF s, paid
<1>5. /\ x \in RoundState /\ x.round_no = Last(r) /\ x.phase = Current(r).phase
      /\ x.winner = Current(r).winner /\ x.cards_submitted = Current(r).cards_submitted
  BY <1>1, <1>2, OpenRound, ClaimTypes DEF SameRound
<1> HIDE DEF x
<1>6. /\ IsRoom(s) /\ Hosted(s) /\ Ordered(s) /\ Staffed(s)
      /\ Last(s) = Last(r) /\ Current(s) = x /\ Members(s) = Members(r)
  BY <1>1, <1>3, <1>4, <1>5, OpenRound, OpenRoundChanged DEF GoodRoom
<1>7. Finishable(s)
  BY <1>5, <1>6 DEF GoodRoom, Finishable, InPhase, AllCountsIn, Submitted
<1> QED
  BY <1>6, <1>7 DEF GoodRoom, s

LEMMA SpecialVoidedGood ==
    ASSUME NEW r, GoodRoom(r), NEW p \in Player, CanVoidSpecial(r, p)
    PROVE  GoodRoom(SpecialHandVoided(r, p))
<1> DEFINE s == SpecialHandVoided(r, p)
           claim == LatestClaim(Current(r), p)
           x == ClaimRemoved(Current(r), p, claim)
<1>1. r.status = "in_progress"
  BY DEF CanVoidSpecial, MayPlay
<1>2. SameTable(s, r)
  BY DEF SpecialHandVoided, SameTable, GoodRoom, IsRoom, Reversed
<1>3. s.rounds = [r.rounds EXCEPT ![Last(r)] = x]
  BY <1>1, OpenRound DEF SpecialHandVoided, GoodRoom, IsRoom, Current, Last
<1>C. claim \in SUBSET Payments(Player)
  BY <1>1, OpenRound DEF LatestClaim, Specials, RoundState
<1> HIDE DEF s, claim
<1>4. /\ x \in RoundState /\ x.round_no = Last(r) /\ x.phase = Current(r).phase
      /\ x.winner = Current(r).winner /\ x.cards_submitted = Current(r).cards_submitted
  BY <1>1, <1>C, OpenRound, ClaimTypes DEF SameRound
<1> HIDE DEF x
<1>5. /\ IsRoom(s) /\ Hosted(s) /\ Ordered(s) /\ Staffed(s)
      /\ Last(s) = Last(r) /\ Current(s) = x /\ Members(s) = Members(r)
  BY <1>1, <1>2, <1>3, <1>4, OpenRound, OpenRoundChanged DEF GoodRoom
<1>6. Finishable(s)
  BY <1>4, <1>5 DEF GoodRoom, Finishable, InPhase, AllCountsIn, Submitted
<1> QED
  BY <1>5, <1>6 DEF GoodRoom, s

(* The special hands a voided round counts. *)
LEMMA CountsKept ==
    ASSUME NEW r, GoodRoom(r), r.status = "in_progress", NEW k \in 1 .. Last(r)
    PROVE  CountsFrom(r, k) \in [Player -> Nat]
<1>1. r.rounds[k] \in RoundState /\ Current(r) \in RoundState
  BY OpenRound DEF Last
<1> QED
  BY <1>1 DEF CountsFrom, RoundState

(* Voiding any round of a running game puts that round back to its start. *)
LEMMA VoidedGood ==
    ASSUME NEW r, GoodRoom(r), r.status = "in_progress", NEW k \in 1 .. Last(r)
    PROVE  /\ GoodRoom(RoundVoided(r, k))
           /\ SameTable(RoundVoided(r, k), r)
           /\ Current(RoundVoided(r, k)).phase = "playing"
<1> DEFINE s == RoundVoided(r, k)
           idx == CHOOSE i \in 1 .. Last(r) : r.rounds[i].round_no = k
           counts == CountsFrom(r, k)
           kept == SpecialsFrom(r, k)
           x == [FreshRound(k) EXCEPT !.special_counts = counts, !.transfers = kept]
<1>1. idx = k
  BY DEF GoodRoom, Ordered
<1>2. SameTable(s, r)
  BY DEF RoundVoided, SameTable, GoodRoom, IsRoom, Reversed
<1>3. s.rounds = Append(SubSeq(r.rounds, 1, k - 1), x)
  BY <1>1 DEF RoundVoided, GoodRoom, IsRoom
<1>4. \A i \in 1 .. Last(r) : r.rounds[i] \in RoundState
  BY OpenRound DEF Last
<1>5. counts \in [Player -> Nat]
  BY CountsKept
<1>6. kept \subseteq Payments(Player)
  BY <1>4, OpenRound DEF SpecialsFrom, Specials, RoundState
<1> HIDE DEF s, idx, counts, kept
<1>7. k \in Nat
  BY OpenRound
<1>8. x \in RoundState /\ x.round_no = k /\ x.phase = "playing" /\ Submitted(x) = {}
  BY <1>5, <1>6, <1>7 DEF FreshRound, RoundState, Phases, Submitted
<1> HIDE DEF x
<1>9. GoodRoom(s) /\ Current(s) = x
  BY <1>2, <1>3, <1>8, RoundsCut
<1> QED
  BY <1>2, <1>8, <1>9 DEF s

LEMMA RoundVoidGood ==
    ASSUME NEW r, GoodRoom(r), NEW p \in Player, CanVoidRound(r, p)
    PROVE  GoodRoom(DoVoidRound(r))
<1>1. r.status = "in_progress" /\ VoidTarget(r) > 0
  BY DEF CanVoidRound, MayPlay
<1>2. VoidTarget(r) \in 1 .. Last(r)
  BY <1>1, OpenRound DEF VoidTarget
<1>3. r.rounds[VoidTarget(r)].round_no = VoidTarget(r)
  BY <1>2 DEF GoodRoom, Ordered
<1> QED
  BY <1>1, <1>2, <1>3, VoidedGood DEF DoVoidRound

LEMMA EndedGood ==
    ASSUME NEW r, IsRoom(r), Ordered(r), Finishable(r), Members(r) \cap r.departed = {},
           r.status = "in_progress", ~InPhase(r, "collecting")
    PROVE  GoodRoom(GameEnded(r))
<1> DEFINE s == GameEnded(r)
<1>1. /\ r.rounds \in Seq(RoundState) /\ Last(r) \in Nat /\ Last(r) > 0
      /\ Current(r).phase = "playing"
  BY DEF IsRoom, Ordered, InPhase, Last
<1>2. /\ DOMAIN s = DOMAIN r
      /\ s.status = "ended" /\ s.seq = r.seq + 1 /\ s.host_id = r.host_id
      /\ s.rules = r.rules /\ s.departed = r.departed
      /\ s.members = r.members /\ s.balances = r.balances
      /\ s.rounds = IF Last(r) > 0 /\ is_empty(Current(r))
                    THEN SubSeq(r.rounds, 1, Last(r) - 1) ELSE r.rounds
  BY DEF GameEnded, IsRoom
<1> HIDE DEF s
<1>3. /\ s.rounds \in Seq(RoundState) /\ Last(s) \in Nat /\ Last(s) \in {Last(r), Last(r) - 1}
      /\ \A i \in 1 .. Last(s) : s.rounds[i] = r.rounds[i]
  <2>1. CASE is_empty(Current(r))
    <3>1. s.rounds = SubSeq(r.rounds, 1, Last(r) - 1) /\ Last(r) - 1 \in 0 .. Len(r.rounds)
      BY <1>1, <1>2, <2>1 DEF Last
    <3>2. /\ s.rounds \in Seq(RoundState) /\ Len(s.rounds) = Last(r) - 1
          /\ \A i \in 1 .. (Last(r) - 1) : s.rounds[i] = r.rounds[i]
      BY <1>1, <3>1, Cut
    <3> QED
      BY <1>1, <3>2 DEF Last
  <2>2. CASE ~is_empty(Current(r))
    BY <1>1, <1>2, <2>2 DEF Last
  <2> QED
    BY <2>1, <2>2
<1>4. IsRoom(s) /\ Members(s) = Members(r)
  BY <1>2, <1>3 DEF IsRoom, Members, Statuses
<1>5. Hosted(s) /\ Staffed(s)
  BY <1>2, <1>4 DEF Hosted, Staffed
<1>6. \A i \in 1 .. Last(s) : /\ s.rounds[i].round_no = i
                              /\ i < Last(s) => s.rounds[i].phase = "resolved"
  BY <1>1, <1>3 DEF Ordered
<1>7. ~InPhase(s, "collecting") /\ (InPhase(s, "playing") => s.rounds = r.rounds)
  <2>1. CASE is_empty(Current(r))
    BY <1>1, <1>2, <1>3, <2>1 DEF InPhase, Current, Ordered, Last
  <2>2. CASE ~is_empty(Current(r))
    BY <1>1, <1>2, <2>2 DEF InPhase, Current, Last
  <2> QED
    BY <2>1, <2>2
<1>8. Ordered(s)
  BY <1>2, <1>6, <1>7 DEF Ordered
<1>9. Finishable(s)
  BY <1>7 DEF Finishable, InPhase, Current, Last
<1> QED
  BY <1>4, <1>5, <1>8, <1>9 DEF GoodRoom, s

(* The counts of a collecting round settle it and open the next one. *)
LEMMA ResolvedGood ==
    ASSUME NEW r, IsRoom(r), Hosted(r), Ordered(r), Staffed(r), r.status = "in_progress",
           InPhase(r, "collecting"), Current(r).winner \in Player
    PROVE  GoodRoom(RoundResolved(r))
<1> DEFINE s == RoundResolved(r)
           counts == CardCounts(Current(r))
           paid == compute_card_transfers(counts, r.rules)
           x == Resolved(Current(r), paid)
           fresh == FreshRound(Last(r) + 1)
<1>1. /\ r.rounds \in Seq(RoundState) /\ Last(r) \in Nat /\ Last(r) > 0
      /\ Current(r) \in RoundState /\ Current(r).round_no = Last(r)
      /\ r.rules \in GameRules
  BY DEF InPhase, IsRoom, Ordered, Current, Last
<1>2. paid \in SUBSET Payments(Player)
  <2>1. DOMAIN counts \subseteq Player
    BY <1>1 DEF CardCounts, Submitted
  <2>2. \A p \in DOMAIN counts : counts[p] \in Int
    <3>1. Current(r).cards_submitted \in [Player -> 1 .. MAX_CARDS \cup {None}]
      BY <1>1 DEF RoundState
    <3>2. \A p \in Submitted(Current(r)) : Current(r).cards_submitted[p] \in Int
      BY <3>1 DEF Submitted
    <3> QED
      BY <3>2 DEF CardCounts
  <2>3. \E p \in DOMAIN counts : counts[p] = 0
    BY DEF CardCounts
  <2> HIDE DEF counts
  <2>4. paid \subseteq Payments(DOMAIN counts)
    BY <1>1, <2>2, <2>3, CardPayments
  <2> QED
    BY <2>1, <2>4 DEF Payments
<1>3. SameTable(s, r)
  BY DEF RoundResolved, SameTable, IsRoom, Moved
<1>4. s.rounds = Append([r.rounds EXCEPT ![Last(r)] = x], fresh)
  BY <1>1 DEF RoundResolved, IsRoom
<1> HIDE DEF s, paid, counts
<1>5. x \in RoundState /\ x.round_no = Last(r) /\ x.phase = "resolved"
  BY <1>1, <1>2 DEF Resolved, RoundState, Phases
<1>6. /\ fresh \in RoundState /\ fresh.round_no = Last(r) + 1
      /\ fresh.phase = "playing" /\ Submitted(fresh) = {}
  BY <1>1, FreshRoundType
<1> HIDE DEF x, fresh
<1>7. /\ s.rounds \in Seq(RoundState) /\ Last(s) = Last(r) + 1 /\ Current(s) = fresh
      /\ s.rounds[Last(r)] = x
      /\ \A i \in 1 .. Last(r) : i < Last(r) => s.rounds[i] = r.rounds[i]
  <2> DEFINE ts == [r.rounds EXCEPT ![Last(r)] = x]
  <2>1. /\ ts \in Seq(RoundState) /\ Len(ts) = Last(r) /\ ts[Last(r)] = x
        /\ \A i \in 1 .. Last(r) : i < Last(r) => ts[i] = r.rounds[i]
    BY <1>1, <1>5, LastReplaced DEF Last
  <2> HIDE DEF ts
  <2>2. /\ Append(ts, fresh) \in Seq(RoundState) /\ Len(Append(ts, fresh)) = Last(r) + 1
        /\ Append(ts, fresh)[Last(r) + 1] = fresh
        /\ \A i \in 1 .. Last(r) : Append(ts, fresh)[i] = ts[i]
    BY <1>1, <1>6, <2>1
  <2>3. s.rounds = Append(ts, fresh)
    BY <1>4 DEF ts
  <2> QED
    BY <1>1, <2>1, <2>2, <2>3 DEF Last, Current
<1>8. IsRoom(s) /\ Hosted(s) /\ Staffed(s)
  BY <1>3, <1>7, TableKept
<1>9. Ordered(s)
  <2>1. \A i \in 1 .. Last(s) : /\ s.rounds[i].round_no = i
                                /\ i < Last(s) => s.rounds[i].phase = "resolved"
    BY <1>1, <1>5, <1>6, <1>7 DEF Ordered, Current
  <2> QED
    BY <1>1, <1>3, <1>6, <1>7, <2>1 DEF SameTable, Ordered, InPhase
<1>10. Finishable(s)
  BY <1>6, <1>7 DEF Finishable, InPhase
<1> QED
  BY <1>8, <1>9, <1>10 DEF GoodRoom, s

(* What a count submitted for one at the table changes. *)
LEMMA CountAdded ==
    ASSUME NEW r, GoodRoom(r), r.status = "in_progress", InPhase(r, "collecting"),
           NEW target \in Members(r), NEW cards \in 1 .. MAX_CARDS
    PROVE  LET s == CardsSubmitted(r, target, cards)
               x == Counted(Current(r), target, cards)
           IN  /\ SameTable(s, r) /\ s.seq = r.seq + 1
               /\ s.rounds = [r.rounds EXCEPT ![Last(r)] = x]
               /\ x \in RoundState /\ x.round_no = Last(r) /\ x.phase = "collecting"
               /\ x.winner = Current(r).winner /\ x.transfers = Current(r).transfers
               /\ Submitted(x) = Submitted(Current(r)) \cup {target}
<1> DEFINE s == CardsSubmitted(r, target, cards)
           x == Counted(Current(r), target, cards)
           counts == [Current(r).cards_submitted EXCEPT ![target] = cards]
<1>1. target \in Player
  BY DEF GoodRoom, IsRoom
<1>2. SameTable(s, r) /\ s.seq = r.seq + 1
  BY DEF CardsSubmitted, SameTable, GoodRoom, IsRoom
<1>3. s.rounds = [r.rounds EXCEPT ![Last(r)] = x]
  BY OpenRound DEF CardsSubmitted, GoodRoom, IsRoom, Current, Last
<1>4. counts \in [Player -> 1 .. MAX_CARDS \cup {None}]
  BY OpenRound DEF RoundState
<1>5. x = [Current(r) EXCEPT !.cards_submitted = counts]
  BY DEF Counted
<1>6. \A p \in Player : counts[p] # None <=> (Current(r).cards_submitted[p] # None \/ p = target)
  BY <1>1, OpenRound, PlayerAssumption DEF RoundState, MAX_CARDS
<1> HIDE DEF s, x, counts
<1>7. /\ x \in RoundState /\ x.round_no = Current(r).round_no /\ x.phase = Current(r).phase
      /\ x.winner = Current(r).winner /\ x.transfers = Current(r).transfers
      /\ x.cards_submitted = counts
  BY <1>4, <1>5, OpenRound DEF RoundState
<1>8. Submitted(x) = Submitted(Current(r)) \cup {target}
  BY <1>1, <1>6, <1>7 DEF Submitted
<1> QED
  BY <1>2, <1>3, <1>7, <1>8, OpenRound DEF InPhase, s, x

LEMMA SubmitGood ==
    ASSUME NEW r, GoodRoom(r), NEW actor \in Player, NEW target \in Player,
           NEW cards \in Int, CanSubmit(r, actor, target, cards)
    PROVE  GoodRoom(DoSubmit(r, target, cards))
<1> DEFINE s == CardsSubmitted(r, target, cards)
           x == Counted(Current(r), target, cards)
<1>1. /\ r.status = "in_progress" /\ InPhase(r, "collecting") /\ target \in Members(r)
      /\ target # Current(r).winner /\ cards \in 1 .. MAX_CARDS
  BY DEF CanSubmit, MayPlay, MAX_CARDS
<1>2. SameTable(s, r) /\ s.rounds = [r.rounds EXCEPT ![Last(r)] = x]
  BY <1>1, CountAdded
<1>3. /\ x \in RoundState /\ x.round_no = Last(r) /\ x.phase = "collecting"
      /\ x.winner = Current(r).winner
      /\ Submitted(x) = Submitted(Current(r)) \cup {target}
  BY <1>1, CountAdded
<1> HIDE DEF s, x
<1>4. /\ IsRoom(s) /\ Hosted(s) /\ Ordered(s) /\ Staffed(s)
      /\ Last(s) = Last(r) /\ Current(s) = x /\ Members(s) = Members(r)
  BY <1>1, <1>2, <1>3, OpenRoundChanged DEF GoodRoom
<1>5. /\ x.winner \in Members(s)
      /\ Submitted(x) \subseteq Members(s) \ {x.winner}
  BY <1>1, <1>3, <1>4 DEF GoodRoom, Finishable
<1>6. CASE AllCountsIn(s)
  <2>1. s.status = "in_progress" /\ InPhase(s, "collecting") /\ Current(s).winner \in Player
    BY <1>1, <1>2, <1>3, <1>4, <1>5 DEF SameTable, InPhase, IsRoom
  <2> QED
    BY <1>4, <1>6, <2>1, ResolvedGood DEF DoSubmit, s
<1>7. CASE ~AllCountsIn(s)
  <2>1. Finishable(s)
    BY <1>3, <1>4, <1>5, <1>7 DEF Finishable, InPhase
  <2> QED
    BY <1>4, <1>7, <2>1 DEF GoodRoom, DoSubmit, s
<1> QED
  BY <1>6, <1>7

(* The heir of a host who steps out stays at the table, and is a guest only *)
(* where nobody else is left.                                               *)
LEMMA Heir ==
    ASSUME NEW members, DOMAIN members # {}, members \in [DOMAIN members -> Nat]
    PROVE  /\ NextHost(members) \in DOMAIN members
           /\ NextHost(members) \in Guest => DOMAIN members \subseteq Guest
<1> DEFINE accounts == DOMAIN members \ Guest
           heirs == IF accounts = {} THEN DOMAIN members ELSE accounts
           seats == {members[p] : p \in heirs}
<1>1. seats # {} /\ seats \in SUBSET Nat
  OBVIOUS
<1>2. PICK m \in seats : \A n \in seats : m <= n
  BY <1>1, LeastNat, Zenon
<1>3. \E p \in heirs : \A q \in heirs : members[p] <= members[q]
  BY <1>2
<1>4. NextHost(members) \in heirs
  BY <1>3 DEF NextHost
<1> QED
  BY <1>4

(* Walking out of a round nobody has won leaves a good room, but for the two *)
(* players a running game needs.                                             *)
LEMMA GoneGood ==
    ASSUME NEW r, GoodRoom(r), r.status = "in_progress", Current(r).phase = "playing",
           NEW p \in Members(r)
    PROVE  LET gone == PlayerSteppedOut(r, p)
           IN  /\ IsRoom(gone) /\ Hosted(gone) /\ Ordered(gone) /\ Finishable(gone)
               /\ ~InPhase(gone, "collecting")
               /\ gone.status = "in_progress" /\ gone.seq = r.seq + 1
               /\ gone.rounds = r.rounds /\ gone.departed = r.departed \cup {p}
               /\ Members(gone) \cap gone.departed = {}
               /\ Cardinality(Members(gone)) = Cardinality(Members(r)) - 1
               /\ Cardinality(Members(r)) \in Nat
<1> DEFINE s == PlayerSteppedOut(r, p)
           staying == Without(r.members, p)
<1>1. /\ DOMAIN s = DOMAIN r
      /\ s.status = r.status /\ s.seq = r.seq + 1 /\ s.rules = r.rules
      /\ s.rounds = r.rounds /\ s.balances = r.balances
      /\ s.departed = r.departed \cup {p} /\ s.members = staying
      /\ s.host_id = IF r.host_id = p /\ DOMAIN staying # {} THEN NextHost(staying)
                     ELSE r.host_id
  BY DEF PlayerSteppedOut, GoodRoom, IsRoom
<1>2. /\ DOMAIN staying = Members(r) \ {p}
      /\ staying \in [DOMAIN staying -> Nat]
      /\ Members(s) = Members(r) \ {p}
  BY <1>1 DEF Without, Members, GoodRoom, IsRoom
<1>3. /\ IsFiniteSet(Members(r)) /\ Cardinality(Members(r)) \in Nat
      /\ Cardinality(Members(r)) >= 2
      /\ Cardinality(Members(s)) = Cardinality(Members(r)) - 1
  <2>1. IsFiniteSet(Members(r)) /\ Cardinality(Members(r)) >= 2
    BY PlayerAssumption, FS_Subset DEF GoodRoom, IsRoom, Staffed
  <2> QED
    BY <1>2, <2>1, FS_RemoveElement, FS_CardinalityType
<1>4. Members(s) # {}
  BY <1>3, FS_EmptySet
<1> HIDE DEF s, staying
<1>5. /\ s.host_id \in Members(s)
      /\ s.host_id \in Guest => Members(s) \subseteq Guest
  <2>1. CASE r.host_id = p
    BY <1>1, <1>2, <1>4, <2>1, Heir
  <2>2. CASE r.host_id # p
    BY <1>1, <1>2, <2>2 DEF GoodRoom, Hosted
  <2> QED
    BY <2>1, <2>2
<1>6. IsRoom(s)
  <2>1. DOMAIN s.balances = Members(s) \cup s.departed
    BY <1>1, <1>2 DEF GoodRoom, IsRoom
  <2>2. Members(s) \subseteq Player /\ s.members \in [Members(s) -> Nat] /\ s.departed \subseteq Player
    BY <1>1, <1>2 DEF GoodRoom, IsRoom, Members
  <2> QED
    BY <1>1, <1>5, <2>1, <2>2 DEF GoodRoom, IsRoom
<1>7. Hosted(s)
  BY <1>1, <1>5 DEF Hosted
<1>8. Members(s) \cap s.departed = {}
  BY <1>1, <1>2 DEF GoodRoom, Staffed
<1>9. Ordered(s) /\ Finishable(s) /\ ~InPhase(s, "collecting")
  <2>1. Last(s) = Last(r) /\ Current(s) = Current(r)
    BY <1>1 DEF Last, Current
  <2> QED
    BY <1>1, <2>1 DEF GoodRoom, Ordered, Finishable, InPhase
<1> QED
  BY <1>1, <1>3, <1>6, <1>7, <1>8, <1>9 DEF s

(* The departure alone, and with the end of the game when one player is left. *)
LEMMA DepartureGood ==
    ASSUME NEW r, GoodRoom(r), r.status = "in_progress", Current(r).phase = "playing",
           NEW p \in Members(r)
    PROVE  LET gone == PlayerSteppedOut(r, p)
           IN  GoodRoom(IF Cardinality(Members(r)) - 1 < 2 THEN GameEnded(gone) ELSE gone)
<1> DEFINE s == PlayerSteppedOut(r, p)
<1>1. /\ IsRoom(s) /\ Hosted(s) /\ Ordered(s) /\ Finishable(s)
      /\ ~InPhase(s, "collecting") /\ s.status = "in_progress"
      /\ Members(s) \cap s.departed = {}
      /\ Cardinality(Members(s)) = Cardinality(Members(r)) - 1
      /\ Cardinality(Members(r)) \in Nat
  BY GoneGood
<1> HIDE DEF s
<1>2. CASE Cardinality(Members(r)) - 1 < 2
  BY <1>1, <1>2, EndedGood DEF s
<1>3. CASE ~(Cardinality(Members(r)) - 1 < 2)
  <2>1. Staffed(s)
    BY <1>1, <1>3 DEF Staffed
  <2> QED
    BY <1>1, <1>3, <2>1 DEF GoodRoom, s
<1> QED
  BY <1>2, <1>3

LEMMA StepOutGood ==
    ASSUME NEW r, GoodRoom(r), NEW p \in Player, CanStepOut(r, p)
    PROVE  GoodRoom(DoStepOut(r, p))
<1> DEFINE opened == IF InPhase(r, "collecting")
                     THEN RoundVoided(r, Current(r).round_no) ELSE r
<1>1. r.status = "in_progress" /\ p \in Members(r)
  BY DEF CanStepOut, MayPlay
<1>2. /\ GoodRoom(opened) /\ opened.status = "in_progress"
      /\ Current(opened).phase = "playing" /\ Members(opened) = Members(r)
  <2>1. CASE InPhase(r, "collecting")
    <3>1. Current(r).round_no \in 1 .. Last(r)
      BY <1>1, OpenRound
    <3> QED
      BY <1>1, <2>1, <3>1, VoidedGood DEF SameTable, Members
  <2>2. CASE ~InPhase(r, "collecting")
    BY <1>1, <2>2, OpenRound DEF InPhase
  <2> QED
    BY <2>1, <2>2
<1> HIDE DEF opened
<1>3. GoodRoom(IF Cardinality(Members(opened)) - 1 < 2
               THEN GameEnded(PlayerSteppedOut(opened, p)) ELSE PlayerSteppedOut(opened, p))
  BY <1>1, <1>2, DepartureGood
<1> QED
  BY <1>2, <1>3 DEF DoStepOut, opened

-----------------------------------------------------------------------------
(* The invariant and what follows from it. *)

LEMMA InitGood == Init => IInv
<1> SUFFICES ASSUME NEW host \in Account, room = NewRoom(host) PROVE GoodRoom(NewRoom(host))
  BY DEF Init, IInv
<1> DEFINE s == NewRoom(host)
<1>1. /\ DOMAIN s = {"status", "seq", "host_id", "members", "rules", "rounds",
                     "balances", "departed"}
      /\ s.status = "lobby" /\ s.seq = 0 /\ s.host_id = host /\ s.rules = None
      /\ s.rounds = << >> /\ s.departed = {}
      /\ s.members = [p \in {host} |-> 0] /\ s.balances = [p \in {host} |-> 0]
  BY DEF NewRoom
<1> HIDE DEF s
<1>2. Members(s) = {host} /\ host \in Player /\ host \notin Guest /\ Last(s) = 0
  BY <1>1 DEF Members, Account, Last
<1>3. IsRoom(s)
  BY <1>1, <1>2 DEF IsRoom, Statuses
<1>4. Hosted(s) /\ Staffed(s) /\ Ordered(s) /\ Finishable(s)
  BY <1>1, <1>2 DEF Hosted, Staffed, Ordered, Finishable, InPhase
<1> QED
  BY <1>3, <1>4 DEF GoodRoom, s

LEMMA LobbyGood == IInv /\ LobbyStep => IInv'
<1> SUFFICES ASSUME GoodRoom(room), LobbyStep PROVE GoodRoom(room')
  BY DEF IInv
<1>1. ASSUME NEW p \in Account, Join(p) PROVE GoodRoom(room')
  BY <1>1, JoinedGood DEF Join, Account
<1>2. ASSUME NEW p \in Player, NEW g \in Guest, AddGuest(p, g) PROVE GoodRoom(room')
  <2>1. g \in Player /\ CanJoin(room, g)
    BY <1>2, PlayerAssumption DEF AddGuest, CanAddGuest, CanJoin
  <2> QED
    BY <1>2, <2>1, JoinedGood DEF AddGuest
<1>3. ASSUME NEW p \in Player, NEW g \in Guest, RemoveGuest(p, g) PROVE GoodRoom(room')
  <2>1. g \in Player /\ room.status = "lobby" /\ g # room.host_id
    BY <1>3, PlayerAssumption DEF RemoveGuest, CanRemoveGuest, GoodRoom, Hosted
  <2> QED
    BY <1>3, <2>1, LeftGood DEF RemoveGuest
<1>4. ASSUME NEW p \in Player, Leave(p) PROVE GoodRoom(room')
  BY <1>4, LeftGood DEF Leave, CanLeave
<1>5. ASSUME NEW p \in Player, Disband(p) PROVE GoodRoom(room')
  BY <1>5, DisbandedGood DEF Disband, CanDisband
<1>6. ASSUME NEW p \in Player, NEW rules \in RuleChoices, Start(p, rules) PROVE GoodRoom(room')
  BY <1>6, StartedGood DEF Start
<1> QED
  BY <1>1, <1>2, <1>3, <1>4, <1>5, <1>6 DEF LobbyStep

LEMMA GameGood == IInv /\ GameStep => IInv'
<1> SUFFICES ASSUME GoodRoom(room), NEW p \in Player,
                    \/ ClaimWin(p) \/ AddSpecial(p) \/ VoidSpecial(p)
                    \/ VoidLastRound(p) \/ StepOut(p) \/ EndGame(p)
                    \/ \E cards \in CardInputs : SubmitCards(p, cards)
                    \/ \E target \in Player, cards \in CardInputs : SubmitFor(p, target, cards)
             PROVE  GoodRoom(room')
  BY DEF IInv, GameStep
<1>1. CASE ClaimWin(p)
  BY <1>1, ClaimedGood DEF ClaimWin
<1>2. CASE AddSpecial(p)
  BY <1>2, SpecialGood DEF AddSpecial
<1>3. CASE VoidSpecial(p)
  BY <1>3, SpecialVoidedGood DEF VoidSpecial
<1>4. CASE VoidLastRound(p)
  BY <1>4, RoundVoidGood DEF VoidLastRound
<1>5. CASE StepOut(p)
  BY <1>5, StepOutGood DEF StepOut
<1>6. CASE EndGame(p)
  BY <1>6, EndedGood DEF EndGame, CanEnd, GoodRoom, Staffed
<1>7. ASSUME NEW cards \in CardInputs, SubmitCards(p, cards) PROVE GoodRoom(room')
  BY <1>7, SubmitGood, InputAssumption DEF SubmitCards
<1>8. ASSUME NEW target \in Player, NEW cards \in CardInputs, SubmitFor(p, target, cards)
      PROVE  GoodRoom(room')
  BY <1>8, SubmitGood, InputAssumption DEF SubmitFor, CanSubmitFor
<1> QED
  BY <1>1, <1>2, <1>3, <1>4, <1>5, <1>6, <1>7, <1>8

(* The conjunction is inductive. *)
THEOREM Inductive == Spec => []IInv
<1>1. IInv /\ [Next]_room => IInv'
  BY LobbyGood, GameGood DEF Next, Command, IInv
<1> QED
  BY InitGood, <1>1, PTL DEF Spec

(* Every room has the fields and types of RoomState, and exactly the members *)
(* and those who stepped out have a balance.                                 *)
THEOREM RoomShape == Spec => []IsRoom(room)
<1>1. IInv => IsRoom(room)
  BY DEF IInv, GoodRoom
<1> QED
  BY Inductive, <1>1, PTL

(* An open room always has a host at the table, who is not a guest as long as *)
(* somebody with an account stays.                                            *)
THEOREM AlwaysHosted == Spec => []HostPresides
<1>1. IInv => HostPresides
  BY DEF IInv, GoodRoom, HostPresides
<1> QED
  BY Inductive, <1>1, PTL

(* Rounds keep their numbers through voids, departures and the end of the game, *)
(* and a finished game has no round still collecting.                           *)
THEOREM AlwaysOrdered == Spec => []RoundsInOrder
<1>1. IInv => RoundsInOrder
  BY DEF IInv, GoodRoom, RoundsInOrder
<1> QED
  BY Inductive, <1>1, PTL

(* A collecting round can always be finished by counts of players at the table. *)
THEOREM AlwaysFinishable == Spec => []CollectingCanFinish
<1>1. IInv => CollectingCanFinish
  BY DEF IInv, GoodRoom, CollectingCanFinish
<1> QED
  BY Inductive, <1>1, PTL

(* A running game keeps two players, and nobody is both at the table and gone. *)
THEOREM AlwaysStaffed == Spec => []TableStaffed
<1>1. IInv => TableStaffed
  BY DEF IInv, GoodRoom, TableStaffed
<1> QED
  BY Inductive, <1>1, PTL

(* Nothing changes in a room that has ended or was disbanded. *)
THEOREM AlwaysFinal == Spec => FinishedIsFinal
<1>1. [Next]_room => [~Finished]_room
  BY DEF Next, Command, LobbyStep, GameStep, Finished, MayPlay,
         Join, CanJoin, AddGuest, CanAddGuest, RemoveGuest, CanRemoveGuest, Leave, CanLeave,
         Disband, CanDisband, Start, CanStart, ClaimWin, CanClaimWin, SubmitCards, SubmitFor,
         CanSubmitFor, CanSubmit, AddSpecial, CanAddSpecial, VoidSpecial, CanVoidSpecial,
         VoidLastRound, CanVoidRound, StepOut, CanStepOut, EndGame, CanEnd
<1> QED
  BY <1>1, PTL DEF Spec, FinishedIsFinal

(* What any command does to the table: nothing, seat one more on the lowest *)
(* free seat, or let one go.                                                 *)
LEMMA TableSteps ==
    ASSUME IInv, Command
    PROVE  \/ room'.members = room.members
           \/ \E p \in Player : room'.members = Without(room.members, p)
           \/ \E p \in Player : room'.members =
                  With(room.members, p, LowestFreeSeat(room.members))
<1>1. DOMAIN room = {"status", "seq", "host_id", "members", "rules", "rounds",
                     "balances", "departed"}
  BY DEF IInv, GoodRoom, IsRoom
<1>2. CASE LobbyStep
  BY <1>1, <1>2, PlayerAssumption
  DEF LobbyStep, Account, Join, AddGuest, RemoveGuest, Leave, Disband, Start,
      PlayerJoined, PlayerLeft, RoomDisbanded, GameStarted
<1>3. CASE GameStep
  <2>1. PICK p \in Player :
            \/ ClaimWin(p) \/ AddSpecial(p) \/ VoidSpecial(p)
            \/ VoidLastRound(p) \/ StepOut(p) \/ EndGame(p)
            \/ \E cards \in CardInputs : SubmitCards(p, cards)
            \/ \E target \in Player, cards \in CardInputs : SubmitFor(p, target, cards)
    BY <1>3 DEF GameStep
  <2>2. CASE ClaimWin(p) \/ AddSpecial(p) \/ VoidSpecial(p) \/ VoidLastRound(p) \/ EndGame(p)
    BY <1>1, <2>2
    DEF ClaimWin, AddSpecial, VoidSpecial, VoidLastRound, EndGame, WinClaimed, SpecialHand,
        SpecialHandVoided, DoVoidRound, RoundVoided, GameEnded
  <2>3. CASE StepOut(p)
    <3> DEFINE opened == IF InPhase(room, "collecting")
                         THEN RoundVoided(room, Current(room).round_no) ELSE room
               gone == PlayerSteppedOut(opened, p)
    <3>1. DOMAIN opened = DOMAIN room /\ opened.members = room.members
      BY <1>1 DEF RoundVoided
    <3>2. DOMAIN gone = DOMAIN room /\ gone.members = Without(room.members, p)
      BY <1>1, <3>1 DEF PlayerSteppedOut
    <3>3. GameEnded(gone).members = gone.members
      BY <1>1, <3>2 DEF GameEnded
    <3> QED
      BY <2>3, <3>2, <3>3 DEF StepOut, DoStepOut
  <2>4. \A target, cards : DoSubmit(room, target, cards).members = room.members
    BY <1>1 DEF DoSubmit, CardsSubmitted, RoundResolved
  <2> QED
    BY <2>1, <2>2, <2>3, <2>4 DEF SubmitCards, SubmitFor
<1> QED
  BY <1>2, <1>3 DEF Command

(* Seats stay distinct however often players come and go before the start. *)
THEOREM SeatsStayDistinct == Spec => []SeatsDistinct
<1>1. Init => SeatsDistinct
  BY DEF Init, NewRoom, SeatsDistinct, Members
<1>2. IInv /\ SeatsDistinct /\ [Next]_room => SeatsDistinct'
  <2> SUFFICES ASSUME IInv, SeatsDistinct, Command PROVE SeatsDistinct'
    BY DEF Next, SeatsDistinct, Members
  <2>1. CASE room'.members = room.members
    BY <2>1 DEF SeatsDistinct, Members
  <2>2. ASSUME NEW p \in Player, room'.members = Without(room.members, p)
        PROVE  SeatsDistinct'
    BY <2>2 DEF SeatsDistinct, Members, Without
  <2>3. ASSUME NEW p \in Player,
               room'.members = With(room.members, p, LowestFreeSeat(room.members))
        PROVE  SeatsDistinct'
    <3>1. \A q \in DOMAIN room.members : room.members[q] # LowestFreeSeat(room.members)
      BY PlayerAssumption, FS_Subset, FreeSeat DEF IInv, GoodRoom, IsRoom, Members
    <3> QED
      BY <2>3, <3>1 DEF SeatsDistinct, Members, With
  <2> QED
    BY <2>1, <2>2, <2>3, TableSteps
<1> QED
  BY Inductive, <1>1, <1>2, PTL DEF Spec

-----------------------------------------------------------------------------
(* What the screen offers. *)

(* The commands of the table, one by one. *)
LEMMA TableTaps ==
    ASSUME NEW r, NEW me, NEW actor, NEW typed, NEW c \in TableCommands(r, me, actor, typed)
    PROVE  /\ AtTable(r, me)
           /\ \/ WinButton(r, me) /\ c = Cmd("claim_win", me, actor, None)
              \/ SpecialButton(r, me) /\ c = Cmd("special_hand", me, actor, None)
              \/ UndoSpecialButton(r, me, actor) /\ c = Cmd("void_special", me, actor, None)
              \/ \E value \in typed : /\ CardForm(r, me) /\ CardsValid(value)
                                      /\ c = Cmd("submit_cards", me, me, value)
              \/ \E g \in guestsOwing(r, me), value \in typed :
                    CardsValid(value) /\ c = Cmd("submit_cards", me, g, value)
              \/ UndoWinButton(r, me) /\ c = Cmd("void_round", me, me, None)
              \/ EndGameButton(r, me) /\ c = Cmd("end_game", me, me, None)
              \/ LeaveGameButton(r, me) /\ c = Cmd("step_out", me, actor, None)
BY DEF TableCommands, Live, GuestCardsRow

(* In the lobby every button's condition is the command's own, but for the name of a
   guest. *)
LEMMA LobbyOffers ==
    ASSUME NEW r, NEW me, NEW c \in LobbyCommands(r, me, FALSE)
    PROVE  Accepts(r, c) \/ (c.name = "add_guest" /\ NameTaken(r, c.actor))
<1>1. CASE JoinButton(r, me, FALSE) /\ c = Cmd("join", me, me, None)
  BY <1>1 DEF Accepts, Cmd, JoinButton, isMember, CanJoin
<1>2. CASE StartButton(r, me) /\ c = Cmd("start", me, me, None)
  BY <1>2 DEF Accepts, Cmd, StartButton, isHost, CanStart
<1>3. CASE CloseRoomButton(r, me) /\ c = Cmd("disband", me, me, None)
  BY <1>3 DEF Accepts, Cmd, CloseRoomButton, isHost, CanDisband
<1>4. CASE LeaveRoomButton(r, me) /\ c = Cmd("leave", me, me, None)
  BY <1>4 DEF Accepts, Cmd, LeaveRoomButton, isMember, isHost, CanLeave
<1>5. ASSUME NEW g \in Guest \ Members(r), AddGuestForm(r, me), Enterable(g),
             c = Cmd("add_guest", me, g, None)
      PROVE  Accepts(r, c) \/ (c.name = "add_guest" /\ NameTaken(r, c.actor))
  BY <1>5 DEF Accepts, Cmd, AddGuestForm, Enterable, isHost, CanAddGuest
<1>6. ASSUME NEW g \in Guest, RemoveButton(r, me, g), c = Cmd("remove_guest", me, g, None)
      PROVE  Accepts(r, c)
  BY <1>6 DEF Accepts, Cmd, RemoveButton, isHost, guests, CanRemoveGuest
<1> QED
  BY <1>1, <1>2, <1>3, <1>4, <1>5, <1>6 DEF LobbyCommands, Live

(* At the table the engine takes what is offered, for the owner of the phone and for a
   guest it is the host's phone of. *)
LEMMA TableOffers ==
    ASSUME NEW r, GoodRoom(r), NEW me, NEW actor,
           actor = me \/ (isHost(r, me) /\ actor \in guests(r)),
           NEW c \in TableCommands(r, me, actor, Typed)
    PROVE  Accepts(r, c) \/ (c.name = "end_game" /\ UndoWinButton(r, me))
<1>1. /\ r.status = "in_progress" /\ me \in Members(r)
      /\ Last(r) \in Nat /\ Last(r) > 0
      /\ Current(r).phase \in {"playing", "collecting"}
  BY TableTaps, OpenRound DEF AtTable, isMember
<1>2. actor \in Members(r) /\ ActsFor(r, me, actor) /\ MayPlay(r, actor) /\ MayPlay(r, me)
  BY <1>1 DEF guests, ActsFor, MayPlay
<1>3. \A value \in Typed : CardsValid(value) => 1 <= value /\ value <= MAX_CARDS
  BY InputAssumption DEF Typed, CardsValid, MAX_CARDS
<1>4. CASE WinButton(r, me) /\ c = Cmd("claim_win", me, actor, None)
  BY <1>2, <1>4 DEF Accepts, Cmd, WinButton, isPlaying, CanClaimWin
<1>5. CASE SpecialButton(r, me) /\ c = Cmd("special_hand", me, actor, None)
  BY <1>2, <1>5 DEF Accepts, Cmd, SpecialButton, isPlaying, CanAddSpecial
<1>6. CASE UndoSpecialButton(r, me, actor) /\ c = Cmd("void_special", me, actor, None)
  BY <1>1, <1>2, <1>6 DEF Accepts, Cmd, UndoSpecialButton, actorSpecials, CanVoidSpecial
<1>7. ASSUME NEW value \in Typed, CardForm(r, me), CardsValid(value),
             c = Cmd("submit_cards", me, me, value)
      PROVE  Accepts(r, c)
  BY <1>1, <1>2, <1>3, <1>7
  DEF Accepts, Cmd, ActsFor, CardForm, isCollecting, iAmWinner, haveSubmitted, CanSubmit
<1>8. ASSUME NEW g \in guestsOwing(r, me), NEW value \in Typed, CardsValid(value),
             c = Cmd("submit_cards", me, g, value)
      PROVE  Accepts(r, c)
  <2>1. /\ InPhase(r, "collecting") /\ isHost(r, me) /\ g \in guests(r)
        /\ g # Current(r).winner /\ g \notin Submitted(Current(r))
    BY <1>8 DEF guestsOwing, isCollecting, haveSubmitted
  <2> QED
    BY <1>1, <1>3, <1>8, <2>1 DEF Accepts, Cmd, ActsFor, guests, MayPlay, CanSubmit
<1>9. CASE UndoWinButton(r, me) /\ c = Cmd("void_round", me, me, None)
  <2>1. InPhase(r, "collecting") /\ me \in {r.host_id, Current(r).winner}
    BY <1>9 DEF UndoWinButton, isCollecting, isHost, iAmWinner
  <2>2. VoidTarget(r) = Last(r)
    BY <2>1 DEF VoidTarget, InPhase
  <2> QED
    BY <1>1, <1>2, <1>9, <2>1, <2>2 DEF Accepts, Cmd, CanVoidRound, Current
<1>10. CASE EndGameButton(r, me) /\ c = Cmd("end_game", me, me, None)
  BY <1>1, <1>10
  DEF Accepts, Cmd, EndGameButton, AtTable, isHost, UndoWinButton, isCollecting, CanEnd
<1>11. CASE LeaveGameButton(r, me) /\ c = Cmd("step_out", me, actor, None)
  BY <1>2, <1>11 DEF Accepts, Cmd, CanStepOut
<1> QED
  BY <1>4, <1>5, <1>6, <1>7, <1>8, <1>9, <1>10, <1>11, TableTaps

(* No phone that shows the room as it is offers a tap the API would refuse, for its owner or
   for the guest picked, a guest's name that is taken and End Game while a round collects
   apart (TaidiRoom.tsx:270). *)
THEOREM NothingOfferedFails == Spec => []OffersAreAccepted
<1>1. ASSUME IInv PROVE OffersAreAccepted
  <2>1. GoodRoom(room)
    BY <1>1 DEF IInv
  <2>2. ASSUME NEW me \in Account, NEW pick \in Guest \cup {None}
        PROVE  LET actor == Actor(room, me, pick)
               IN  actor = me \/ (isHost(room, me) /\ actor \in guests(room))
    BY DEF Actor
  <2> QED
    BY <2>1, <2>2, LobbyOffers, TableOffers DEF OffersAreAccepted
<1> QED
  BY <1>1, Inductive, PTL

-----------------------------------------------------------------------------
(* What the screens of a table offer together. *)

\* Whose phone enters the turns of p: p's own, or for a guest the host's.
PhoneOf(r, p) == IF p \in Guest THEN r.host_id ELSE p

(* Where an account is left at the table, the host is one, and each player has a phone. *)
LEMMA EverybodyHasAPhone ==
    ASSUME NEW r, GoodRoom(r), r.status = "in_progress", Members(r) \ Guest # {},
           NEW p \in Members(r)
    PROVE  /\ r.host_id \in Account /\ AtTable(r, r.host_id)
           /\ PhoneOf(r, p) \in Account \cap {p, r.host_id} /\ AtTable(r, PhoneOf(r, p))
           /\ Actor(r, PhoneOf(r, p), p) = p
<1>1. r.host_id \in Members(r) /\ r.host_id \notin Guest /\ Members(r) \subseteq Player
  BY DEF GoodRoom, IsRoom, Hosted
<1> QED
  BY <1>1 DEF Account, PhoneOf, AtTable, isMember, Actor, isHost, guests

(* While a round collects, a missing count can be entered on the player's own phone, or
   where the player is a guest on the host's, and on no other. *)
LEMMA OnePhoneForCounts ==
    ASSUME GoodRoom(room), room.status = "in_progress", Members(room) \ Guest # {},
           isCollecting(room), NEW p \in pending(room)
    PROVE  PhonesFor("submit_cards", p) = {PhoneOf(room, p)}
<1> DEFINE mine == PhoneOf(room, p)
           sent == Cmd("submit_cards", mine, p, 1)
<1>1. p \in Members(room) /\ ~haveSubmitted(room, p) /\ p # Current(room).winner
  BY DEF pending, haveSubmitted
<1>2. /\ mine \in Account \cap {p, room.host_id} /\ AtTable(room, mine)
      /\ room.host_id \in Account
  BY <1>1, EverybodyHasAPhone
<1>3. CardsValid(1)
  BY PlayerAssumption DEF CardsValid, MAX_CARDS
<1>4. sent \in TableCommands(room, mine, Actor(room, mine, p), {1})
  <2>1. CASE p \notin Guest
    <3>1. mine = p /\ CardForm(room, mine)
      BY <1>1, <1>2, <2>1 DEF PhoneOf, CardForm, iAmWinner
    <3> QED
      BY <1>2, <1>3, <3>1 DEF TableCommands
  <2>2. CASE p \in Guest
    <3>1. p \in guestsOwing(room, mine)
      BY <1>1, <2>2 DEF PhoneOf, guestsOwing, isHost, guests
    <3>2. sent \in GuestCardsRow(mine, p, {1})
      BY <1>3 DEF GuestCardsRow
    <3> QED
      BY <1>2, <3>1, <3>2 DEF TableCommands
  <2> QED
    BY <2>1, <2>2
<1>5. sent.name = "submit_cards" /\ sent.actor = p
  BY DEF Cmd
<1>6. mine \in PhonesFor("submit_cards", p)
  BY <1>2, <1>4, <1>5 DEF PhonesFor
<1>7. ASSUME NEW me \in PhonesFor("submit_cards", p)
      PROVE  me = mine
  <2>1. /\ me \in Account \cap {p, room.host_id}
        /\ \E c \in TableCommands(room, me, Actor(room, me, p), {1}) :
               c.name = "submit_cards" /\ c.actor = p
    BY DEF PhonesFor
  <2>2. PICK c \in TableCommands(room, me, Actor(room, me, p), {1}) :
               c.name = "submit_cards" /\ c.actor = p
    BY <2>1
  <2>3. \/ \E value \in {1} : c = Cmd("submit_cards", me, me, value)
        \/ \E g \in guestsOwing(room, me), value \in {1} : c = Cmd("submit_cards", me, g, value)
    BY <2>2, TableTaps DEF Cmd
  <2>4. p = me \/ p \in guestsOwing(room, me)
    BY <2>2, <2>3 DEF Cmd
  <2> QED
    BY <2>1, <2>4 DEF Account, PhoneOf, guestsOwing, guests, isHost
<1> QED
  BY <1>6, <1>7

(* Each turn the engine waits for can be entered: on exactly one phone where a count is
   missing, and the host can always take back a win that nobody completes. *)
THEOREM NoTurnIsLost == Spec => []EveryTurnCanBeEntered
<1>1. ASSUME IInv, room.status = "in_progress", Members(room) \ Guest # {}
      PROVE  /\ \A p \in Members(room) :
                    /\ PhonesFor("step_out", p) # {}
                    /\ isPlaying(room) => PhonesFor("claim_win", p) # {}
             /\ isCollecting(room) =>
                    /\ \A p \in pending(room) : Cardinality(PhonesFor("submit_cards", p)) = 1
                    /\ room.host_id \in PhonesFor("void_round", room.host_id)
  <2>1. GoodRoom(room)
    BY <1>1 DEF IInv
  <2>2. ASSUME NEW p \in Members(room)
        PROVE  /\ PhonesFor("step_out", p) # {}
               /\ isPlaying(room) => PhonesFor("claim_win", p) # {}
    <3> DEFINE mine == PhoneOf(room, p)
               offered == TableCommands(room, mine, Actor(room, mine, p), {1})
    <3>1. /\ mine \in Account \cap {p, room.host_id} /\ AtTable(room, mine)
          /\ Actor(room, mine, p) = p
      BY <1>1, <2>1, EverybodyHasAPhone
    <3>2. Cmd("step_out", mine, p, None) \in offered
      BY <3>1 DEF TableCommands, LeaveGameButton, Live
    <3>3. isPlaying(room) => Cmd("claim_win", mine, p, None) \in offered
      BY <3>1 DEF TableCommands, WinButton, Live
    <3>4. \A name : Cmd(name, mine, p, None).name = name /\ Cmd(name, mine, p, None).actor = p
      BY DEF Cmd
    <3> HIDE DEF mine, offered
    <3>5. mine \in PhonesFor("step_out", p)
      BY <3>1, <3>2, <3>4 DEF PhonesFor, offered
    <3>6. isPlaying(room) => mine \in PhonesFor("claim_win", p)
      BY <3>1, <3>3, <3>4 DEF PhonesFor, offered
    <3> QED
      BY <3>5, <3>6
  <2>3. ASSUME isCollecting(room), NEW p \in pending(room)
        PROVE  Cardinality(PhonesFor("submit_cards", p)) = 1
    BY <1>1, <2>1, <2>3, OnePhoneForCounts, FS_Singleton
  <2>4. ASSUME isCollecting(room)
        PROVE  room.host_id \in PhonesFor("void_round", room.host_id)
    <3> DEFINE host == room.host_id
               sent == Cmd("void_round", host, host, None)
    <3>1. PICK p \in Members(room) : TRUE
      BY <1>1
    <3>2. host \in Account /\ AtTable(room, host)
      BY <1>1, <2>1, <3>1, EverybodyHasAPhone
    <3>3. sent \in TableCommands(room, host, Actor(room, host, host), {1})
      BY <2>4, <3>2 DEF TableCommands, UndoWinButton, isHost, Live
    <3>4. sent.name = "void_round" /\ sent.actor = host
      BY DEF Cmd
    <3> QED
      BY <3>2, <3>3, <3>4 DEF PhonesFor
  <2> QED
    BY <2>2, <2>3, <2>4
<1>2. IInv => EveryTurnCanBeEntered
  BY <1>1 DEF EveryTurnCanBeEntered
<1> QED
  BY <1>2, Inductive, PTL

-----------------------------------------------------------------------------
(* Who pays whom.  A command may emit up to three events, so what the       *)
(* ledger keeps is stated between any two rooms and composed.               *)

\* The payments of one special hand are those of one claimer in one round, and
\* no claim is numbered ahead of the room: what makes a claim's seq its name.
ClaimsApart(r) ==
    \A i, j \in 1 .. Last(r) : \A t \in Specials(r.rounds[i]), u \in Specials(r.rounds[j]) :
        /\ t.claim_seq <= r.seq
        /\ t.claim_seq = u.claim_seq => i = j /\ t.to_player = u.to_player

AtTheTable(r) == DOMAIN r.balances \ r.departed

\* From room r to room s only players at the table are charged or paid anew, and every
\* special hand is kept.
LedgerStands(r, s) ==
    /\ r.departed \subseteq s.departed
    /\ \A t \in AllPayments(s) :
           t \notin AllPayments(r) => {t.from_player, t.to_player} \subseteq AtTheTable(r)
    /\ AllSpecials(r) \subseteq AllSpecials(s)

LEMMA StandsOn ==
    ASSUME NEW r, NEW s, NEW u, LedgerStands(r, s), LedgerStands(s, u),
           DOMAIN s.balances = DOMAIN r.balances
    PROVE  LedgerStands(r, u)
<1>1. AtTheTable(s) \subseteq AtTheTable(r)
  BY DEF LedgerStands, AtTheTable
<1> QED
  BY <1>1 DEF LedgerStands

\* Every special hand of s is one of r, in its round or, from round k on, in round k.
Gathered(r, s, k) ==
    \A i \in 1 .. Last(s) : \A t \in Specials(s.rounds[i]) :
        \E j \in 1 .. Last(r) : t \in Specials(r.rounds[j]) /\ i = IF j < k THEN j ELSE k

LEMMA GatheredApart ==
    ASSUME NEW r, NEW s, NEW k, ClaimsApart(r), Gathered(r, s, k),
           r.seq \in Nat, s.seq \in Nat, r.seq <= s.seq,
           \A i \in 1 .. Last(r) : r.rounds[i] \in RoundState
    PROVE  ClaimsApart(s)
<1> SUFFICES ASSUME NEW i \in 1 .. Last(s), NEW j \in 1 .. Last(s),
                    NEW t \in Specials(s.rounds[i]), NEW u \in Specials(s.rounds[j])
             PROVE  /\ t.claim_seq <= s.seq
                    /\ t.claim_seq = u.claim_seq => i = j /\ t.to_player = u.to_player
  BY DEF ClaimsApart
<1>1. PICK m \in 1 .. Last(r) : t \in Specials(r.rounds[m]) /\ i = IF m < k THEN m ELSE k
  BY DEF Gathered
<1>2. PICK n \in 1 .. Last(r) : u \in Specials(r.rounds[n]) /\ j = IF n < k THEN n ELSE k
  BY DEF Gathered
<1>3. t.claim_seq \in Nat
  BY <1>1 DEF Specials, RoundState, Payments
<1> QED
  BY <1>1, <1>2, <1>3 DEF ClaimsApart

(* A payment of a room is in one of its rounds, a special one among the specials there. *)
LEMMA InSomeRound ==
    ASSUME NEW r, NEW t
    PROVE  /\ t \in AllPayments(r) <=> \E i \in 1 .. Last(r) : t \in r.rounds[i].transfers
           /\ t \in AllSpecials(r) <=> \E i \in 1 .. Last(r) : t \in Specials(r.rounds[i])
BY DEF AllPayments, AllSpecials, Specials

(* Events that take no payment out of its round and add none for a special hand, *)
(* nor one with somebody not at the table: all but special hands and voids.      *)
LEMMA LedgerGrows ==
    ASSUME NEW r, IsRoom(r), ClaimsApart(r),
           NEW s, s.seq \in Nat, r.seq <= s.seq, r.departed \subseteq s.departed,
           \A i \in 1 .. Last(r) : \A t \in r.rounds[i].transfers :
               i \in 1 .. Last(s) /\ t \in s.rounds[i].transfers,
           \A i \in 1 .. Last(s) : \A t \in s.rounds[i].transfers :
               \/ i \in 1 .. Last(r) /\ t \in r.rounds[i].transfers
               \/ t.kind # "special" /\ {t.from_player, t.to_player} \subseteq AtTheTable(r)
    PROVE  ClaimsApart(s) /\ LedgerStands(r, s)
<1>1. Last(r) \in Nat /\ \A i \in 1 .. Last(r) : r.rounds[i] \in RoundState
  BY DEF IsRoom, Last
<1>2. Gathered(r, s, Last(r))
  BY <1>1 DEF Gathered, Specials
<1>3. ClaimsApart(s)
  BY <1>1, <1>2, GatheredApart DEF IsRoom
<1>4. \A t \in AllPayments(s) :
          t \notin AllPayments(r) => {t.from_player, t.to_player} \subseteq AtTheTable(r)
  BY DEF AllPayments
<1>5. \A t \in AllPayments(r) : t \in AllPayments(s)
  BY DEF AllPayments
<1> QED
  BY <1>3, <1>4, <1>5 DEF LedgerStands, AllSpecials

LEMMA ClaimedStands ==
    ASSUME NEW r, GoodRoom(r), ClaimsApart(r), NEW p \in Player, CanClaimWin(r, p)
    PROVE  ClaimsApart(WinClaimed(r, p)) /\ LedgerStands(r, WinClaimed(r, p))
<1> DEFINE s == WinClaimed(r, p)
           x == [Current(r) EXCEPT !.phase = "collecting", !.winner = p]
<1>1. r.rounds \in Seq(RoundState) /\ Len(r.rounds) > 0 /\ Current(r) \in RoundState
  BY OpenRound DEF CanClaimWin, MayPlay, Last
<1>2. x \in RoundState /\ x.transfers = Current(r).transfers
  BY <1>1 DEF RoundState, Phases
<1>3. /\ s.seq = r.seq + 1 /\ s.departed = r.departed
      /\ s.rounds = [r.rounds EXCEPT ![Len(r.rounds)] = x]
  BY <1>1 DEF WinClaimed, GoodRoom, IsRoom, Current, Last
<1> HIDE DEF s, x
<1>4. /\ Last(s) = Last(r)
      /\ \A i \in 1 .. Last(r) : s.rounds[i].transfers = r.rounds[i].transfers
  BY <1>1, <1>2, <1>3, LastReplaced DEF Last, Current
<1>5. IsRoom(r) /\ s.seq \in Nat /\ r.seq <= s.seq /\ r.departed \subseteq s.departed
  BY <1>3 DEF GoodRoom, IsRoom
<1> QED
  BY <1>4, <1>5, LedgerGrows DEF s

LEMMA CountedStands ==
    ASSUME NEW r, GoodRoom(r), ClaimsApart(r), r.status = "in_progress",
           InPhase(r, "collecting"), NEW p \in Members(r), NEW cards \in 1 .. MAX_CARDS
    PROVE  /\ ClaimsApart(CardsSubmitted(r, p, cards))
           /\ LedgerStands(r, CardsSubmitted(r, p, cards))
<1> DEFINE s == CardsSubmitted(r, p, cards)
           x == Counted(Current(r), p, cards)
<1>1. r.rounds \in Seq(RoundState) /\ Len(r.rounds) > 0
  BY OpenRound DEF Last
<1>2. /\ s.seq = r.seq + 1 /\ s.departed = r.departed
      /\ s.rounds = [r.rounds EXCEPT ![Len(r.rounds)] = x]
      /\ x \in RoundState /\ x.transfers = Current(r).transfers
  BY CountAdded DEF SameTable, Last
<1> HIDE DEF s, x
<1>3. /\ Last(s) = Last(r)
      /\ \A i \in 1 .. Last(r) : s.rounds[i].transfers = r.rounds[i].transfers
  BY <1>1, <1>2, LastReplaced DEF Last, Current
<1>4. IsRoom(r) /\ s.seq \in Nat /\ r.seq <= s.seq /\ r.departed \subseteq s.departed
  BY <1>2 DEF GoodRoom, IsRoom
<1> QED
  BY <1>3, <1>4, LedgerGrows DEF s

LEMMA EndedStands ==
    ASSUME NEW r, IsRoom(r), Ordered(r), ClaimsApart(r), r.status = "in_progress"
    PROVE  ClaimsApart(GameEnded(r)) /\ LedgerStands(r, GameEnded(r))
<1> DEFINE s == GameEnded(r)
<1>1. r.rounds \in Seq(RoundState) /\ Last(r) \in Nat /\ Last(r) > 0
  BY DEF IsRoom, Ordered, InPhase, Last
<1>2. /\ s.seq = r.seq + 1 /\ s.departed = r.departed
      /\ s.rounds = IF is_empty(Current(r))
                    THEN SubSeq(r.rounds, 1, Last(r) - 1) ELSE r.rounds
  BY <1>1 DEF GameEnded, IsRoom
<1> HIDE DEF s
<1>T. s.seq \in Nat /\ r.seq <= s.seq /\ r.departed \subseteq s.departed
  BY <1>2 DEF IsRoom
<1>3. CASE is_empty(Current(r))
  <2>1. Last(s) = Last(r) - 1 /\ \A i \in 1 .. (Last(r) - 1) : s.rounds[i] = r.rounds[i]
    BY <1>1, <1>2, <1>3, Cut, Last(r) - 1 \in 0 .. Len(r.rounds) DEF Last
  <2>2. r.rounds[Last(r)].transfers = {}
    BY <1>3 DEF is_empty, Current
  <2>3. \A i \in 1 .. Last(r) : \A t \in r.rounds[i].transfers :
            i \in 1 .. Last(s) /\ t \in s.rounds[i].transfers
    BY <1>1, <2>1, <2>2
  <2>4. \A i \in 1 .. Last(s) : i \in 1 .. Last(r) /\ s.rounds[i] = r.rounds[i]
    BY <1>1, <2>1
  <2> QED
    BY <1>T, <2>3, <2>4, LedgerGrows DEF s
<1>4. CASE ~is_empty(Current(r))
  <2>1. s.rounds = r.rounds /\ Last(s) = Last(r)
    BY <1>2, <1>4 DEF Last
  <2> QED
    BY <1>T, <2>1, LedgerGrows DEF s
<1> QED
  BY <1>3, <1>4

(* Settling a round charges and pays only players whose counts are in it. *)
LEMMA ResolvedStands ==
    ASSUME NEW r, IsRoom(r), Ordered(r), ClaimsApart(r), r.status = "in_progress",
           InPhase(r, "collecting"),
           Submitted(Current(r)) \cup {Current(r).winner} \subseteq Members(r),
           Members(r) \cap r.departed = {}
    PROVE  ClaimsApart(RoundResolved(r)) /\ LedgerStands(r, RoundResolved(r))
<1> DEFINE s == RoundResolved(r)
           counts == CardCounts(Current(r))
           paid == compute_card_transfers(counts, r.rules)
           x == Resolved(Current(r), paid)
           fresh == FreshRound(Current(r).round_no + 1)
<1>1. /\ r.rounds \in Seq(RoundState) /\ Last(r) \in Nat /\ Last(r) > 0
      /\ Current(r) \in RoundState
      /\ r.rules \in GameRules
  BY DEF InPhase, IsRoom, Ordered, Current, Last
<1>2. \A t \in paid : /\ t.kind # "special" /\ t \in Payments(Player)
                      /\ {t.from_player, t.to_player} \subseteq AtTheTable(r)
  <2>1. DOMAIN counts \subseteq AtTheTable(r) /\ DOMAIN counts \subseteq Player
    BY DEF CardCounts, IsRoom, AtTheTable
  <2>2. \A p \in DOMAIN counts : counts[p] \in Int
    <3>1. Current(r).cards_submitted \in [Player -> 1 .. MAX_CARDS \cup {None}]
      BY <1>1 DEF RoundState
    <3>2. \A p \in Submitted(Current(r)) : Current(r).cards_submitted[p] \in Int
      BY <3>1 DEF Submitted
    <3> QED
      BY <3>2 DEF CardCounts
  <2>3. \E p \in DOMAIN counts : counts[p] = 0
    BY DEF CardCounts
  <2> HIDE DEF counts
  <2>4. \A t \in paid : t \in Payments(DOMAIN counts) /\ t.kind # "special"
    BY <1>1, <2>2, <2>3, CardPayments
  <2> QED
    BY <2>1, <2>4 DEF Payments
<1>3. /\ s.seq = r.seq + 1 /\ s.departed = r.departed
      /\ s.rounds = Append([r.rounds EXCEPT ![Last(r)] = x], fresh)
  BY <1>1 DEF RoundResolved, IsRoom
<1> HIDE DEF s, paid, counts
<1>4. x \in RoundState /\ x.transfers = Current(r).transfers \cup paid
  BY <1>1, <1>2 DEF Resolved, RoundState, Phases
<1>5. fresh \in RoundState /\ fresh.transfers = {}
  <2>1. Current(r).round_no \in Nat
    BY <1>1 DEF RoundState
  <2> QED
    BY <2>1, FreshRoundType DEF FreshRound
<1> HIDE DEF x, fresh
<1>6. /\ Last(s) = Last(r) + 1
      /\ s.rounds[Last(r) + 1] = fresh /\ s.rounds[Last(r)] = x
      /\ \A i \in 1 .. Last(r) : i < Last(r) => s.rounds[i] = r.rounds[i]
  <2> DEFINE ts == [r.rounds EXCEPT ![Last(r)] = x]
  <2>1. /\ ts \in Seq(RoundState) /\ Len(ts) = Last(r) /\ ts[Last(r)] = x
        /\ \A i \in 1 .. Last(r) : i < Last(r) => ts[i] = r.rounds[i]
    BY <1>1, <1>4, LastReplaced DEF Last
  <2>2. s.rounds = Append(ts, fresh)
    BY <1>3
  <2> HIDE DEF ts
  <2>3. /\ Len(Append(ts, fresh)) = Last(r) + 1
        /\ Append(ts, fresh)[Last(r) + 1] = fresh
        /\ \A i \in 1 .. Last(r) : Append(ts, fresh)[i] = ts[i]
    BY <1>1, <1>5, <2>1
  <2> QED
    BY <1>1, <2>1, <2>2, <2>3 DEF Last
<1>7. \A i \in 1 .. Last(r) : \A t \in r.rounds[i].transfers :
          i \in 1 .. Last(s) /\ t \in s.rounds[i].transfers
  BY <1>1, <1>4, <1>6 DEF Current
<1>8. \A i \in 1 .. Last(s) : \A t \in s.rounds[i].transfers :
          \/ i \in 1 .. Last(r) /\ t \in r.rounds[i].transfers
          \/ t \in paid
  BY <1>1, <1>4, <1>5, <1>6 DEF Current
<1>9. s.seq \in Nat /\ r.seq <= s.seq /\ r.departed \subseteq s.departed
  BY <1>3 DEF IsRoom
<1> QED
  BY <1>2, <1>7, <1>8, <1>9, LedgerGrows DEF s
(* A special hand is a new claim, paid by players at the table. *)
LEMMA SpecialStands ==
    ASSUME NEW r, GoodRoom(r), ClaimsApart(r), NEW p \in Player, CanAddSpecial(r, p)
    PROVE  ClaimsApart(SpecialHand(r, p)) /\ LedgerStands(r, SpecialHand(r, p))
<1> DEFINE s == SpecialHand(r, p)
           paid == compute_special_transfer(p, OthersAtTable(r, p), r.rules, r.seq + 1)
           x == ClaimAdded(Current(r), p, paid)
<1>1. /\ r.status = "in_progress" /\ p \in Members(r)
      /\ r.rounds \in Seq(RoundState) /\ Len(r.rounds) > 0 /\ Current(r) \in RoundState
      /\ r.rules \in GameRules /\ r.seq \in Nat
  BY OpenRound DEF CanAddSpecial, MayPlay, Last, GoodRoom, IsRoom
<1>2. \A t \in paid :
          /\ t.kind = "special" /\ t.claim_seq = r.seq + 1 /\ t.to_player = p
          /\ {t.from_player, t.to_player} \subseteq AtTheTable(r)
  BY <1>1 DEF compute_special_transfer, Payment, OthersAtTable, GoodRoom, IsRoom, Staffed,
              AtTheTable
<1>3. /\ s.seq = r.seq + 1 /\ s.departed = r.departed
      /\ s.rounds = [r.rounds EXCEPT ![Len(r.rounds)] = x]
  BY <1>1 DEF SpecialHand, GoodRoom, IsRoom, Current, Last
<1>4. x \in RoundState /\ x.transfers = Current(r).transfers \cup paid
  <2>1. paid \in SUBSET Payments(Player)
    BY <1>1, SpecialPayments DEF GoodRoom, IsRoom, OthersAtTable
  <2> HIDE DEF paid
  <2>2. x \in RoundState
    BY <1>1, <2>1, ClaimTypes DEF SameRound
  <2> QED
    BY <1>1, <2>2 DEF ClaimAdded, RoundState
<1> HIDE DEF s, x, paid
<1>5. /\ Last(s) = Last(r) /\ s.rounds[Last(r)] = x /\ Last(r) \in Nat
      /\ \A i \in 1 .. Last(r) : i < Last(r) => s.rounds[i] = r.rounds[i]
  BY <1>1, <1>3, <1>4, LastReplaced DEF Last
<1>6. \A i \in 1 .. Last(s) : \A t \in s.rounds[i].transfers :
          \/ t \in r.rounds[i].transfers
          \/ i = Last(r) /\ t \in paid
  BY <1>4, <1>5 DEF Current
<1>7. \A i \in 1 .. Last(r) : \A t \in r.rounds[i].transfers : t \in s.rounds[i].transfers
  BY <1>4, <1>5 DEF Current
<1>8. \A i \in 1 .. Last(r) : \A t \in Specials(r.rounds[i]) :
          t.claim_seq \in Nat /\ t.claim_seq < r.seq + 1
  <2>1. \A i \in 1 .. Last(r) : r.rounds[i] \in RoundState
    BY <1>1 DEF Last
  <2>2. \A i \in 1 .. Last(r) : \A t \in Specials(r.rounds[i]) : t.claim_seq \in Nat
    BY <2>1 DEF Specials, RoundState, Payments
  <2>3. \A i \in 1 .. Last(r) : \A t \in Specials(r.rounds[i]) : t.claim_seq <= r.seq
    BY DEF ClaimsApart
  <2> QED
    BY <1>1, <2>2, <2>3
<1>9. ClaimsApart(s)
  <2> SUFFICES ASSUME NEW i \in 1 .. Last(r), NEW j \in 1 .. Last(r),
                      NEW t \in Specials(s.rounds[i]), NEW u \in Specials(s.rounds[j])
               PROVE  /\ t.claim_seq <= s.seq
                      /\ t.claim_seq = u.claim_seq => i = j /\ t.to_player = u.to_player
    BY <1>5 DEF ClaimsApart
  <2>1. t \in Specials(r.rounds[i]) \/ (i = Last(r) /\ t \in paid)
    BY <1>5, <1>6 DEF Specials
  <2>2. u \in Specials(r.rounds[j]) \/ (j = Last(r) /\ u \in paid)
    BY <1>5, <1>6 DEF Specials
  <2>3. CASE t \in Specials(r.rounds[i]) /\ u \in Specials(r.rounds[j])
    BY <1>1, <1>3, <1>8, <2>3 DEF ClaimsApart
  <2>4. CASE (i = Last(r) /\ t \in paid) /\ (j = Last(r) /\ u \in paid)
    BY <1>1, <1>2, <1>3, <2>4
  <2>5. CASE t \in Specials(r.rounds[i]) /\ u \in paid
    BY <1>1, <1>2, <1>3, <1>8, <2>5
  <2>6. CASE t \in paid /\ u \in Specials(r.rounds[j])
    BY <1>1, <1>2, <1>3, <1>8, <2>6
  <2> QED
    BY <2>1, <2>2, <2>3, <2>4, <2>5, <2>6
<1>10. LedgerStands(r, s)
  <2>1. \A t \in AllPayments(s) :
            t \notin AllPayments(r) => {t.from_player, t.to_player} \subseteq AtTheTable(r)
    BY <1>2, <1>5, <1>6 DEF AllPayments
  <2>2. \A t \in AllPayments(r) : t \in AllPayments(s)
    BY <1>5, <1>7 DEF AllPayments
  <2> QED
    BY <1>3, <2>1, <2>2 DEF LedgerStands, AllSpecials
<1> QED
  BY <1>9, <1>10 DEF s

(* A voided round keeps its special hands and takes over those of the round after it. *)
LEMMA VoidedStands ==
    ASSUME NEW r, GoodRoom(r), ClaimsApart(r), r.status = "in_progress",
           NEW k \in 1 .. Last(r)
    PROVE  ClaimsApart(RoundVoided(r, k)) /\ LedgerStands(r, RoundVoided(r, k))
<1> DEFINE s == RoundVoided(r, k)
           idx == CHOOSE i \in 1 .. Last(r) : r.rounds[i].round_no = k
           counts == CountsFrom(r, k)
           kept == SpecialsFrom(r, k)
           x == [FreshRound(k) EXCEPT !.special_counts = counts, !.transfers = kept]
<1>1. r.rounds \in Seq(RoundState) /\ Last(r) \in Nat /\ k \in Nat
  BY OpenRound
<1>R. \A i \in 1 .. Last(r) : r.rounds[i] \in RoundState
  BY OpenRound DEF Last
<1>2. idx = k
  BY DEF GoodRoom, Ordered
<1>3. /\ s.seq = r.seq + 1 /\ s.departed = r.departed
      /\ s.rounds = Append(SubSeq(r.rounds, 1, k - 1), x)
  BY <1>2 DEF RoundVoided, GoodRoom, IsRoom
<1>4. counts \in [Player -> Nat]
  BY CountsKept
<1>K. \A t : t \in kept <=> \E j \in k .. Last(r) : t \in Specials(r.rounds[j])
  BY DEF SpecialsFrom
<1>5. kept \subseteq Payments(Player) /\ \A t \in kept : t.kind = "special"
  <2> HIDE DEF kept
  <2>1. \A j \in 1 .. Last(r) : \A t \in Specials(r.rounds[j]) :
            t \in Payments(Player) /\ t.kind = "special"
    BY <1>R DEF Specials, RoundState
  <2>2. k .. Last(r) \subseteq 1 .. Last(r)
    BY <1>1
  <2> QED
    BY <1>K, <2>1, <2>2
<1> HIDE DEF s, idx, counts, kept
<1>6. x \in RoundState /\ x.transfers = kept
  BY <1>1, <1>4, <1>5 DEF FreshRound, RoundState, Phases
<1> HIDE DEF x
<1>7. /\ Last(s) = k /\ s.rounds[k] = x
      /\ \A i \in 1 .. (k - 1) : s.rounds[i] = r.rounds[i]
  BY <1>1, <1>3, <1>6, CutAndContinued, k - 1 \in 0 .. Len(r.rounds) DEF Last
<1>8. \A i \in 1 .. k : \A t \in s.rounds[i].transfers :
          \E j \in 1 .. Last(r) : /\ t \in r.rounds[j].transfers
                                  /\ i = IF j < k THEN j ELSE k
  <2> SUFFICES ASSUME NEW i \in 1 .. k, NEW t \in s.rounds[i].transfers
               PROVE  \E j \in 1 .. Last(r) : /\ t \in r.rounds[j].transfers
                                              /\ i = IF j < k THEN j ELSE k
    OBVIOUS
  <2>1. CASE i < k
    BY <1>1, <1>7, <2>1
  <2>2. CASE i = k
    <3>1. PICK j \in k .. Last(r) : t \in Specials(r.rounds[j])
      BY <1>K, <1>6, <1>7, <2>2
    <3> QED
      BY <1>1, <2>2, <3>1 DEF Specials
  <2> QED
    BY <1>1, <2>1, <2>2
<1>9. ClaimsApart(s)
  <2>1. Gathered(r, s, k)
    BY <1>7, <1>8 DEF Gathered, Specials
  <2> QED
    BY <1>R, <1>3, <2>1, GatheredApart DEF GoodRoom, IsRoom
<1>10. \A t \in AllPayments(s) : t \in AllPayments(r)
  BY <1>7, <1>8 DEF AllPayments
<1>11. \A t \in AllSpecials(r) : t \in AllSpecials(s)
  <2> SUFFICES ASSUME NEW t, NEW j \in 1 .. Last(r), t \in Specials(r.rounds[j])
               PROVE  \E i \in 1 .. Last(s) : t \in Specials(s.rounds[i])
    BY InSomeRound
  <2>1. CASE j < k
    BY <1>1, <1>7, <2>1
  <2>2. CASE ~(j < k)
    <3>1. t \in kept
      BY <1>1, <1>K, <2>2
    <3> QED
      BY <1>1, <1>5, <1>6, <1>7, <3>1 DEF Specials
  <2> QED
    BY <2>1, <2>2
<1> QED
  BY <1>3, <1>9, <1>10, <1>11 DEF LedgerStands, s
LEMMA DepartureStands ==
    ASSUME NEW r, GoodRoom(r), ClaimsApart(r), r.status = "in_progress",
           Current(r).phase = "playing", NEW p \in Members(r)
    PROVE  LET gone == PlayerSteppedOut(r, p)
               s == IF Cardinality(Members(r)) - 1 < 2 THEN GameEnded(gone) ELSE gone
           IN  ClaimsApart(s) /\ LedgerStands(r, s)
<1> DEFINE gone == PlayerSteppedOut(r, p)
<1>1. /\ IsRoom(gone) /\ Ordered(gone) /\ gone.status = "in_progress"
      /\ gone.seq = r.seq + 1 /\ gone.rounds = r.rounds
      /\ gone.departed = r.departed \cup {p}
  BY GoneGood
<1>B. DOMAIN gone.balances = DOMAIN r.balances
  BY DEF PlayerSteppedOut, GoodRoom, IsRoom
<1> HIDE DEF gone
<1>2. Last(gone) = Last(r) /\ IsRoom(r)
  BY <1>1 DEF Last, GoodRoom
<1>3. gone.seq \in Nat /\ r.seq <= gone.seq
  BY <1>1 DEF GoodRoom, IsRoom
<1>4. ClaimsApart(gone) /\ LedgerStands(r, gone)
  BY <1>1, <1>2, <1>3, LedgerGrows
<1>5. ClaimsApart(GameEnded(gone)) /\ LedgerStands(gone, GameEnded(gone))
  BY <1>1, <1>4, EndedStands
<1> QED
  BY <1>B, <1>4, <1>5, StandsOn DEF gone

LEMMA StepOutStands ==
    ASSUME NEW r, GoodRoom(r), ClaimsApart(r), NEW p \in Player, CanStepOut(r, p)
    PROVE  ClaimsApart(DoStepOut(r, p)) /\ LedgerStands(r, DoStepOut(r, p))
<1> DEFINE opened == IF InPhase(r, "collecting")
                     THEN RoundVoided(r, Current(r).round_no) ELSE r
<1>1. r.status = "in_progress" /\ p \in Members(r)
  BY DEF CanStepOut, MayPlay
<1>2. /\ GoodRoom(opened) /\ opened.status = "in_progress"
      /\ Current(opened).phase = "playing" /\ Members(opened) = Members(r)
      /\ ClaimsApart(opened) /\ LedgerStands(r, opened)
      /\ DOMAIN opened.balances = DOMAIN r.balances
  <2>1. CASE InPhase(r, "collecting")
    <3>1. Current(r).round_no \in 1 .. Last(r)
      BY <1>1, OpenRound
    <3> QED
      BY <1>1, <2>1, <3>1, VoidedGood, VoidedStands DEF SameTable, Members
  <2>2. CASE ~InPhase(r, "collecting")
    BY <1>1, <2>2, OpenRound DEF InPhase, LedgerStands
  <2> QED
    BY <2>1, <2>2
<1> HIDE DEF opened
<1>3. LET s == IF Cardinality(Members(opened)) - 1 < 2
               THEN GameEnded(PlayerSteppedOut(opened, p)) ELSE PlayerSteppedOut(opened, p)
      IN  ClaimsApart(s) /\ LedgerStands(opened, s)
  BY <1>1, <1>2, DepartureStands
<1> QED
  BY <1>2, <1>3, StandsOn DEF DoStepOut, opened

LEMMA SubmitStands ==
    ASSUME NEW r, GoodRoom(r), ClaimsApart(r), NEW actor \in Player, NEW target \in Player,
           NEW cards \in Int, CanSubmit(r, actor, target, cards)
    PROVE  /\ ClaimsApart(DoSubmit(r, target, cards))
           /\ LedgerStands(r, DoSubmit(r, target, cards))
<1> DEFINE s == CardsSubmitted(r, target, cards)
           x == Counted(Current(r), target, cards)
<1>1. /\ r.status = "in_progress" /\ InPhase(r, "collecting") /\ target \in Members(r)
      /\ target # Current(r).winner /\ cards \in 1 .. MAX_CARDS
  BY DEF CanSubmit, MayPlay, MAX_CARDS
<1>2. ClaimsApart(s) /\ LedgerStands(r, s)
  BY <1>1, CountedStands
<1>3. /\ SameTable(s, r) /\ s.rounds = [r.rounds EXCEPT ![Last(r)] = x]
      /\ x \in RoundState /\ x.round_no = Last(r) /\ x.phase = "collecting"
      /\ x.winner = Current(r).winner
      /\ Submitted(x) = Submitted(Current(r)) \cup {target}
  BY <1>1, CountAdded
<1> HIDE DEF s, x
<1>4. /\ IsRoom(s) /\ Ordered(s) /\ Staffed(s)
      /\ Last(s) = Last(r) /\ Current(s) = x /\ Members(s) = Members(r)
  BY <1>1, <1>3, OpenRoundChanged DEF GoodRoom
<1>5. /\ Submitted(Current(s)) \cup {Current(s).winner} \subseteq Members(s)
      /\ Members(s) \cap s.departed = {}
  BY <1>1, <1>3, <1>4 DEF GoodRoom, Finishable, Staffed
<1>6. s.status = "in_progress" /\ InPhase(s, "collecting")
  BY <1>1, <1>3, <1>4 DEF SameTable, InPhase
<1>7. ClaimsApart(RoundResolved(s)) /\ LedgerStands(s, RoundResolved(s))
  BY <1>2, <1>4, <1>5, <1>6, ResolvedStands
<1> QED
  BY <1>2, <1>3, <1>7, StandsOn DEF DoSubmit, s, SameTable
(* An undone special hand takes exactly the payments of one claim out. *)
LEMMA ClaimUndone ==
    ASSUME NEW r, GoodRoom(r), ClaimsApart(r), NEW p \in Player, CanVoidSpecial(r, p)
    PROVE  LET s == SpecialHandVoided(r, p)
               lost == AllSpecials(r) \ AllSpecials(s)
           IN  /\ ClaimsApart(s) /\ s.departed = r.departed
               /\ \A t, u \in AllSpecials(r) :
                      t \in lost /\ u.claim_seq = t.claim_seq => u \in lost
               /\ \A t, u \in lost : t.claim_seq = u.claim_seq
               /\ AllPayments(s) = AllPayments(r) \ lost
<1> DEFINE s == SpecialHandVoided(r, p)
           claim == LatestClaim(Current(r), p)
           x == ClaimRemoved(Current(r), p, claim)
           n == Last(r)
           lost == AllSpecials(r) \ AllSpecials(s)
<1>1. /\ r.status = "in_progress"
      /\ r.rounds \in Seq(RoundState) /\ n \in Nat /\ n > 0 /\ Current(r) \in RoundState
  BY OpenRound DEF CanVoidSpecial, MayPlay
<1>2. \A i \in 1 .. n : r.rounds[i] \in RoundState
  BY <1>1 DEF Last
<1>3. claim \subseteq Specials(r.rounds[n])
  BY DEF LatestClaim, Current
<1>4. \A t, u \in claim : t.claim_seq = u.claim_seq
  <2>1. \A t \in claim : t.claim_seq \in Nat
    BY <1>1, <1>2, <1>3 DEF Specials, RoundState, Payments
  <2>2. \A t, u \in claim : t.claim_seq <= u.claim_seq
    BY DEF LatestClaim
  <2> HIDE DEF claim
  <2> QED
    BY <2>1, <2>2
<1>5. \A t \in claim : \A i \in 1 .. n : \A u \in Specials(r.rounds[i]) :
          u.claim_seq = t.claim_seq => i = n /\ u \in claim
  <2> SUFFICES ASSUME NEW t \in claim, NEW i \in 1 .. n, NEW u \in Specials(r.rounds[i]),
                      u.claim_seq = t.claim_seq
               PROVE  i = n /\ u \in claim
    OBVIOUS
  <2>1. i = n /\ u.to_player = t.to_player
    BY <1>1, <1>3 DEF ClaimsApart
  <2>2. u \in Specials(Current(r)) /\ t.to_player = p
        /\ \A v \in {w \in Specials(Current(r)) : w.to_player = p} : v.claim_seq <= t.claim_seq
    BY <2>1 DEF LatestClaim, Current
  <2> QED
    BY <2>1, <2>2 DEF LatestClaim
<1>6. /\ s.seq = r.seq + 1 /\ s.departed = r.departed
      /\ s.rounds = [r.rounds EXCEPT ![Len(r.rounds)] = x]
  BY <1>1 DEF SpecialHandVoided, GoodRoom, IsRoom, Current, Last
<1>7. x \in RoundState /\ x.transfers = r.rounds[n].transfers \ claim
  <2>1. claim \in SUBSET Payments(Player)
    BY <1>1, <1>2, <1>3 DEF Specials, RoundState
  <2> HIDE DEF claim
  <2>2. x \in RoundState
    BY <1>1, <2>1, ClaimTypes DEF SameRound
  <2> QED
    BY <1>1, <2>2 DEF ClaimRemoved, RoundState, Current
<1> HIDE DEF s, x, claim
<1>8. /\ Last(s) = n /\ s.rounds[n] = x
      /\ \A i \in 1 .. n : i < n => s.rounds[i] = r.rounds[i]
  BY <1>1, <1>6, <1>7, LastReplaced DEF Last
<1>9. \A i \in 1 .. n : \A t \in s.rounds[i].transfers :
          t \in r.rounds[i].transfers /\ t \notin claim
  <2> SUFFICES ASSUME NEW i \in 1 .. n, NEW t \in s.rounds[i].transfers
               PROVE  t \in r.rounds[i].transfers /\ t \notin claim
    OBVIOUS
  <2>1. CASE i = n
    BY <1>7, <1>8, <2>1
  <2>2. CASE i # n
    <3>1. t \in r.rounds[i].transfers
      BY <1>1, <1>8, <2>2
    <3>2. t \in claim => t \in Specials(r.rounds[i])
      BY <1>3, <3>1 DEF Specials
    <3> QED
      BY <1>5, <2>2, <3>1, <3>2
  <2> QED
    BY <2>1, <2>2
<1>10. \A i \in 1 .. n : \A t \in r.rounds[i].transfers :
           t \in s.rounds[i].transfers \/ t \in claim
  BY <1>1, <1>7, <1>8
<1>11. \A t : t \in AllPayments(s) <=> t \in AllPayments(r) /\ t \notin claim
  BY <1>8, <1>9, <1>10, InSomeRound
<1>12. claim \subseteq AllSpecials(r)
  BY <1>1, <1>3, InSomeRound
<1>13. lost = claim
  BY <1>11, <1>12 DEF AllSpecials
<1>14. \A t, u \in AllSpecials(r) : t \in lost /\ u.claim_seq = t.claim_seq => u \in lost
  BY <1>5, <1>13, InSomeRound
<1>15. ClaimsApart(s)
  <2>1. Gathered(r, s, n)
    BY <1>1, <1>8, <1>9 DEF Gathered, Specials
  <2> QED
    BY <1>2, <1>6, <2>1, GatheredApart DEF GoodRoom, IsRoom
<1> QED
  BY <1>4, <1>6, <1>11, <1>13, <1>14, <1>15 DEF s

(* What a step promises: the payments of those who left and the special hands. *)
StepStands(r, s) ==
    \/ LedgerStands(r, s)
    \/ /\ s.departed = r.departed
       /\ LET lost == AllSpecials(r) \ AllSpecials(s)
          IN  /\ \A t, u \in AllSpecials(r) :
                     t \in lost /\ u.claim_seq = t.claim_seq => u \in lost
              /\ \A t, u \in lost : t.claim_seq = u.claim_seq
              /\ AllPayments(s) = AllPayments(r) \ lost

LEMMA LobbyStands ==
    ASSUME IInv, ClaimsApart(room), LobbyStep
    PROVE  ClaimsApart(room') /\ StepStands(room, room')
<1>1. GoodRoom(room) /\ IsRoom(room) /\ GoodRoom(room')
  BY LobbyGood DEF IInv, GoodRoom
<1>2. /\ room.status = "lobby" /\ room.departed = {}
      /\ room'.seq \in Nat /\ room.seq <= room'.seq
  <2>1. room.seq \in Nat /\ room.status = "lobby" /\ room'.seq = room.seq + 1
    BY <1>1
    DEF IsRoom, LobbyStep, Join, AddGuest, RemoveGuest, Leave, Disband, Start,
        CanJoin, CanAddGuest, CanRemoveGuest, CanLeave, CanDisband, CanStart,
        PlayerJoined, PlayerLeft, RoomDisbanded, GameStarted
  <2> QED
    BY <1>1, <2>1 DEF GoodRoom, Staffed
<1>3. /\ Last(room) = 0
      /\ \A i \in 1 .. Last(room') : room'.rounds[i].transfers = {}
  <2>1. room.rounds = << >>
    BY <1>1, <1>2 DEF GoodRoom, Ordered
  <2>2. room'.rounds = << >> \/ room'.rounds = <<FreshRound(1)>>
    BY <1>1, <2>1
    DEF IsRoom, LobbyStep, Join, AddGuest, RemoveGuest, Leave, Disband, Start,
        PlayerJoined, PlayerLeft, RoomDisbanded, GameStarted
  <2> QED
    BY <2>1, <2>2 DEF Last, FreshRound
<1> QED
  BY <1>1, <1>2, <1>3, LedgerGrows DEF StepStands

LEMMA GameStands ==
    ASSUME IInv, ClaimsApart(room), GameStep
    PROVE  ClaimsApart(room') /\ StepStands(room, room')
<1> SUFFICES ASSUME GoodRoom(room), NEW p \in Player,
                    \/ ClaimWin(p) \/ AddSpecial(p) \/ VoidSpecial(p)
                    \/ VoidLastRound(p) \/ StepOut(p) \/ EndGame(p)
                    \/ \E cards \in CardInputs : SubmitCards(p, cards)
                    \/ \E target \in Player, cards \in CardInputs : SubmitFor(p, target, cards)
             PROVE  ClaimsApart(room') /\ StepStands(room, room')
  BY DEF IInv, GameStep
<1>1. CASE ClaimWin(p)
  BY <1>1, ClaimedStands DEF ClaimWin, StepStands
<1>2. CASE AddSpecial(p)
  BY <1>2, SpecialStands DEF AddSpecial, StepStands
<1>3. CASE VoidSpecial(p)
  BY <1>3, ClaimUndone DEF VoidSpecial, StepStands
<1>4. CASE VoidLastRound(p)
  <2>1. room.status = "in_progress" /\ VoidTarget(room) > 0
    BY <1>4 DEF VoidLastRound, CanVoidRound, MayPlay
  <2>2. VoidTarget(room) \in 1 .. Last(room)
    BY <2>1, OpenRound DEF VoidTarget
  <2>3. room.rounds[VoidTarget(room)].round_no = VoidTarget(room)
    BY <2>2 DEF GoodRoom, Ordered
  <2> QED
    BY <1>4, <2>1, <2>2, <2>3, VoidedStands DEF VoidLastRound, DoVoidRound, StepStands
<1>5. CASE StepOut(p)
  BY <1>5, StepOutStands DEF StepOut, StepStands
<1>6. CASE EndGame(p)
  BY <1>6, EndedStands DEF EndGame, CanEnd, GoodRoom, StepStands
<1>7. ASSUME NEW cards \in CardInputs, SubmitCards(p, cards)
      PROVE  ClaimsApart(room') /\ StepStands(room, room')
  BY <1>7, SubmitStands, InputAssumption DEF SubmitCards, StepStands
<1>8. ASSUME NEW target \in Player, NEW cards \in CardInputs, SubmitFor(p, target, cards)
      PROVE  ClaimsApart(room') /\ StepStands(room, room')
  BY <1>8, SubmitStands, InputAssumption DEF SubmitFor, CanSubmitFor, StepStands
<1> QED
  BY <1>1, <1>2, <1>3, <1>4, <1>5, <1>6, <1>7, <1>8

LEMMA CommandKeepsLedger ==
    ASSUME IInv, ClaimsApart(room), Command
    PROVE  /\ \A p \in room.departed : PaymentsOf(room', p) \subseteq PaymentsOf(room, p)
           /\ LET lost == AllSpecials(room) \ AllSpecials(room')
              IN  lost # {} => OneClaimUndone(lost)
<1>1. StepStands(room, room')
  BY LobbyStands, GameStands DEF Command
<1>2. CASE LedgerStands(room, room')
  BY <1>2 DEF LedgerStands, PaymentsOf, AtTheTable
<1>3. CASE ~LedgerStands(room, room')
  BY <1>1, <1>3 DEF StepStands, PaymentsOf, OneClaimUndone
<1> QED
  BY <1>2, <1>3

(* Nobody who stepped out is ever charged or paid anew, and special hands are undone *)
(* one claim at a time and by their undo only.                                       *)
THEOREM LedgerIsKept == Spec => PaymentsStand
<1> DEFINE Claims == ClaimsApart(room)
<1>1. Init => Claims
  BY DEF Init, NewRoom, ClaimsApart, Last
<1>2. IInv /\ Claims /\ [Next]_room => Claims'
  <2> SUFFICES ASSUME IInv, Claims, [Next]_room PROVE Claims'
    OBVIOUS
  <2>1. CASE LobbyStep \/ GameStep
    BY <2>1, LobbyStands, GameStands
  <2>2. CASE room' = room
    BY <2>2
  <2> QED
    BY <2>1, <2>2 DEF Next, Command
<1>3. IInv /\ Claims /\ [Next]_room =>
        [/\ \A p \in room.departed : PaymentsOf(room', p) \subseteq PaymentsOf(room, p)
         /\ LET lost == AllSpecials(room) \ AllSpecials(room')
            IN  lost # {} => OneClaimUndone(lost)]_room
  BY CommandKeepsLedger DEF Next
<1> QED
  BY <1>1, <1>2, <1>3, Inductive, PTL DEF Spec, PaymentsStand

-----------------------------------------------------------------------------
(* The money.  Each balance is what the rounds charged, round by round: an  *)
(* event that moves money writes the same payments down in one round, or    *)
(* takes them out of it.                                                    *)

(* The values a function takes on a finite set. *)
LEMMA ImageFinite ==
    ASSUME NEW S, IsFiniteSet(S), NEW f
    PROVE  IsFiniteSet({f[x] : x \in S})
<1> DEFINE T == {f[x] : x \in S}
           g == [x \in S |-> f[x]]
<1>1. g \in Surjection(S, T)
  BY DEF Surjection
<1> QED
  BY <1>1, FS_Surjection

(* The amounts of two lists of payments that have none in common. *)
LEMMA TotalParts ==
    ASSUME NEW S \in SUBSET Payments(Player), NEW T \in SUBSET Payments(Player),
           IsFiniteSet(S), IsFiniteSet(T), S \cap T = {}
    PROVE  /\ Total(S \cup T) = Total(S) + Total(T)
           /\ Total(S) \in Int /\ Total(T) \in Int
<1> DEFINE amounts(R) == [t \in R |-> t.amount_cents]
           f == amounts(S \cup T)
<1>1. \A t \in S \cup T : t.amount_cents \in Int
  BY DEF Payments
<1>2. \A R : Total(R) = SumFunctionOnSet(amounts(R), R)
  BY DEF Total, SumFunction
<1>3. SumFunctionOnSet(f, S \cup T) = SumFunctionOnSet(f, S) + SumFunctionOnSet(f, T)
  <2>1. \A t \in S \cup T : f[t] \in Int
    BY <1>1
  <2> HIDE DEF f
  <2> QED
    BY <2>1, SumJoined
<1>4. ASSUME NEW R \in SUBSET (S \cup T), IsFiniteSet(R)
      PROVE  SumFunctionOnSet(f, R) = SumFunctionOnSet(amounts(R), R)
             /\ SumFunctionOnSet(f, R) \in Int
  <2> DEFINE e == amounts(R)
  <2>1. \A t \in R : f[t] \in Int /\ f[t] = e[t]
    BY <1>1
  <2> HIDE DEF f, e
  <2>2. SumFunctionOnSet(f, R) = SumFunctionOnSet(e, R) /\ SumFunctionOnSet(f, R) \in Int
    BY <1>4, <2>1, SumOfSame, SumIsInt
  <2> QED
    BY <2>2 DEF e
<1>5. /\ SumFunctionOnSet(f, S) = Total(S) /\ SumFunctionOnSet(f, S) \in Int
      /\ SumFunctionOnSet(f, T) = Total(T) /\ SumFunctionOnSet(f, T) \in Int
  BY <1>2, <1>4
<1>6. SumFunctionOnSet(f, S \cup T) = Total(S \cup T)
  BY <1>2
<1> HIDE DEF f
<1> QED
  BY <1>3, <1>5, <1>6

(* What a player gains and pays by two lists of payments that have none in common. *)
LEMMA NetParts ==
    ASSUME NEW S \in SUBSET Payments(Player), NEW T \in SUBSET Payments(Player),
           IsFiniteSet(S), IsFiniteSet(T), S \cap T = {}, NEW p
    PROVE  /\ Net(S \cup T, p) = Net(S, p) + Net(T, p)
           /\ Net(S, p) \in Int /\ Net(T, p) \in Int
<1> DEFINE to(R) == {t \in R : t.to_player = p}
           from(R) == {t \in R : t.from_player = p}
<1>1. \A R : Net(R, p) = Total(to(R)) - Total(from(R))
  BY DEF Net
<1>2. /\ to(S \cup T) = to(S) \cup to(T) /\ to(S) \cap to(T) = {}
      /\ from(S \cup T) = from(S) \cup from(T) /\ from(S) \cap from(T) = {}
  OBVIOUS
<1>3. /\ to(S) \in SUBSET Payments(Player) /\ to(T) \in SUBSET Payments(Player)
      /\ from(S) \in SUBSET Payments(Player) /\ from(T) \in SUBSET Payments(Player)
  OBVIOUS
<1>4. IsFiniteSet(to(S)) /\ IsFiniteSet(to(T)) /\ IsFiniteSet(from(S)) /\ IsFiniteSet(from(T))
  <2>1. to(S) \subseteq S /\ from(S) \subseteq S /\ to(T) \subseteq T /\ from(T) \subseteq T
    OBVIOUS
  <2> HIDE DEF to, from
  <2> QED
    BY <2>1, FS_Subset
<1> HIDE DEF to, from
<1>5. /\ Total(to(S) \cup to(T)) = Total(to(S)) + Total(to(T))
      /\ Total(to(S)) \in Int /\ Total(to(T)) \in Int
  BY <1>2, <1>3, <1>4, TotalParts
<1>6. /\ Total(from(S) \cup from(T)) = Total(from(S)) + Total(from(T))
      /\ Total(from(S)) \in Int /\ Total(from(T)) \in Int
  BY <1>2, <1>3, <1>4, TotalParts
<1>7. /\ Net(S \cup T, p) = Total(to(S \cup T)) - Total(from(S \cup T))
      /\ Net(S, p) = Total(to(S)) - Total(from(S))
      /\ Net(T, p) = Total(to(T)) - Total(from(T))
  BY <1>1
<1>8. /\ Total(to(S \cup T)) = Total(to(S)) + Total(to(T))
      /\ Total(from(S \cup T)) = Total(from(S)) + Total(from(T))
  BY <1>2, <1>5, <1>6, Zenon
<1> QED
  BY <1>5, <1>6, <1>7, <1>8

(* No payments, no gain. *)
LEMMA NetNone == ASSUME NEW p PROVE Net({}, p) = 0
<1> DEFINE f == [t \in {} |-> t.amount_cents]
<1>1. Total({}) = SumFunctionOnSet(f, {})
  BY DEF Total, SumFunction
<1>2. Total({}) = 0
  BY <1>1, SumOfNone
<1>3. {t \in {} : t.to_player = p} = {} /\ {t \in {} : t.from_player = p} = {}
  OBVIOUS
<1> QED
  BY <1>2, <1>3 DEF Net

(* Payments taken out of a list. *)
LEMMA NetWithout ==
    ASSUME NEW T \in SUBSET Payments(Player), IsFiniteSet(T), NEW C \in SUBSET T, NEW p
    PROVE  /\ Net(T \ C, p) = Net(T, p) - Net(C, p)
           /\ Net(T, p) \in Int /\ Net(C, p) \in Int
<1> DEFINE S == T \ C
<1>1. /\ S \in SUBSET Payments(Player) /\ C \in SUBSET Payments(Player)
      /\ S \cap C = {} /\ S \cup C = T
  OBVIOUS
<1>2. IsFiniteSet(S) /\ IsFiniteSet(C)
  BY FS_Subset
<1> HIDE DEF S
<1>3. Net(T, p) = Net(S, p) + Net(C, p) /\ Net(S, p) \in Int /\ Net(C, p) \in Int
  BY <1>1, <1>2, NetParts
<1> QED
  BY <1>3 DEF S

(* A table settles a round, and pays for a special hand, by finitely many payments. *)
LEMMA CardPaymentsFinite ==
    ASSUME NEW rules, NEW counts, IsFiniteSet(DOMAIN counts)
    PROVE  IsFiniteSet(compute_card_transfers(counts, rules))
<1> DEFINE winner == CHOOSE p \in DOMAIN counts : counts[p] = 0
           losers == DOMAIN counts \ {winner}
           price(payer, cards) ==
               cards * multiplier(rules, counts[payer]) * rules.card_value_cents
           won == [p \in losers |-> Payment(p, winner, price(p, counts[p]), "cards", 0)]
           behind == {d \in losers \X losers : counts[d[1]] > counts[d[2]]}
           owed == [d \in behind |-> Payment(d[1], d[2], price(d[1], counts[d[1]] - counts[d[2]]),
                                             "difference", 0)]
           ante == [p \in losers |->
                       Payment(p, winner, rules.base_cards * rules.card_value_cents, "base", 0)]
           to_winner == {Payment(p, winner, price(p, counts[p]), "cards", 0) : p \in losers}
           differences == {Payment(d[1], d[2], price(d[1], counts[d[1]] - counts[d[2]]),
                                   "difference", 0) : d \in behind}
           base == {Payment(p, winner, rules.base_cards * rules.card_value_cents, "base", 0) :
                       p \in losers}
<1>1. IsFiniteSet(losers) /\ IsFiniteSet(behind)
  <2>1. IsFiniteSet(losers)
    BY FS_Subset
  <2> HIDE DEF losers
  <2>2. IsFiniteSet(losers \X losers)
    BY <2>1, FS_Product
  <2>3. behind \subseteq losers \X losers
    OBVIOUS
  <2> QED
    BY <2>1, <2>2, <2>3, FS_Subset
<1>2. /\ to_winner = {won[p] : p \in losers} /\ base = {ante[p] : p \in losers}
      /\ differences = {owed[d] : d \in behind}
  OBVIOUS
<1> HIDE DEF won, owed, ante, losers, behind
<1> HIDE DEF to_winner, differences, base
<1>3. IsFiniteSet(to_winner) /\ IsFiniteSet(differences) /\ IsFiniteSet(base)
  <2>1. /\ IsFiniteSet({won[p] : p \in losers}) /\ IsFiniteSet({ante[p] : p \in losers})
        /\ IsFiniteSet({owed[d] : d \in behind})
    BY <1>1, ImageFinite
  <2> QED
    BY <1>2, <2>1
<1>4. compute_card_transfers(counts, rules) =
          to_winner \cup (IF rules.difference_payouts THEN differences ELSE {})
                    \cup (IF rules.base_cards > 0 THEN base ELSE {})
  BY DEF compute_card_transfers, behind, losers, to_winner, differences, base
<1>5. /\ IsFiniteSet(IF rules.difference_payouts THEN differences ELSE {})
      /\ IsFiniteSet(IF rules.base_cards > 0 THEN base ELSE {})
  BY <1>3, FS_EmptySet
<1> QED
  BY <1>3, <1>4, <1>5, FS_Union

LEMMA SpecialPaymentsFinite ==
    ASSUME NEW rules, NEW claimer, NEW others, IsFiniteSet(others), NEW seq
    PROVE  IsFiniteSet(compute_special_transfer(claimer, others, rules, seq))
<1> DEFINE f == [p \in others |->
                    Payment(p, claimer, rules.special_hand_cards * rules.card_value_cents,
                            "special", seq)]
<1>1. compute_special_transfer(claimer, others, rules, seq) = {f[p] : p \in others}
  BY DEF compute_special_transfer
<1> HIDE DEF f
<1> QED
  BY <1>1, ImageFinite

\* What the rounds of r charged p in all.
Charged(r, p) == SumFunction([i \in 1 .. Last(r) |-> LogNet(r, i, p)])

\* The balances are what the rounds charged, and a round still open holds special
\* hands only: what lets a void take a round's card payments back at once.
Billed(r) ==
    /\ \A i \in 1 .. Last(r) :
        /\ IsFiniteSet(r.rounds[i].transfers)
        /\ r.rounds[i].phase # "resolved" => r.rounds[i].transfers = Specials(r.rounds[i])
    /\ \A p \in DOMAIN r.balances : r.balances[p] = Charged(r, p)

LEMMA BilledTypes ==
    ASSUME NEW r, r.rounds \in Seq(RoundState), Billed(r)
    PROVE  /\ Last(r) \in Nat
           /\ \A i \in 1 .. Last(r) : /\ r.rounds[i] \in RoundState
                                      /\ r.rounds[i].transfers \in SUBSET Payments(Player)
                                      /\ IsFiniteSet(r.rounds[i].transfers)
                                      /\ \A p : LogNet(r, i, p) \in Int
<1>1. Last(r) \in Nat /\ \A i \in 1 .. Last(r) : r.rounds[i] \in RoundState
  BY DEF Last
<1>2. \A i \in 1 .. Last(r) : r.rounds[i].transfers \in SUBSET Payments(Player)
  BY <1>1 DEF RoundState
<1>3. \A i \in 1 .. Last(r) : IsFiniteSet(r.rounds[i].transfers)
  BY DEF Billed
<1>4. ASSUME NEW i \in 1 .. Last(r), NEW p
      PROVE  LogNet(r, i, p) \in Int
  <2> DEFINE T == r.rounds[i].transfers
  <2>1. T \in SUBSET Payments(Player) /\ IsFiniteSet(T) /\ {} \in SUBSET T
    BY <1>2, <1>3
  <2> HIDE DEF T
  <2>2. Net(T, p) \in Int
    BY <2>1, NetWithout
  <2> QED
    BY <2>2 DEF LogNet, T
<1> QED
  BY <1>1, <1>2, <1>3, <1>4

(* What the rounds charge comes to an integer. *)
LEMMA ChargedIsInt ==
    ASSUME NEW r, Last(r) \in Nat, NEW p, \A i \in 1 .. Last(r) : LogNet(r, i, p) \in Int
    PROVE  Charged(r, p) \in Int
<1> DEFINE f == [i \in 1 .. Last(r) |-> LogNet(r, i, p)]
<1>1. \A i \in 1 .. Last(r) : f[i] \in Int
  OBVIOUS
<1>2. Charged(r, p) = SumFunctionOnSet(f, 1 .. Last(r))
  BY DEF Charged, SumFunction
<1>3. IsFiniteSet(1 .. Last(r))
  <2>1. 1 \in Int /\ Last(r) \in Int
    OBVIOUS
  <2> QED
    BY <2>1, FS_Interval
<1> HIDE DEF f
<1> QED
  BY <1>1, <1>2, <1>3, SumIsInt

LEMMA BalancesAreInts ==
    ASSUME NEW r, r.rounds \in Seq(RoundState), Billed(r)
    PROVE  \A p \in DOMAIN r.balances : r.balances[p] \in Int
<1>1. Last(r) \in Nat /\ \A i \in 1 .. Last(r) : \A p : LogNet(r, i, p) \in Int
  BY BilledTypes
<1> QED
  BY <1>1, ChargedIsInt DEF Billed

\* s is r but for what everyone gains by payments put in round k, or taken out of it;
\* a round opened after it has no payments.
BookedAt(s, r, k, gain) ==
    /\ k \in 1 .. Last(r) /\ DOMAIN s.balances = DOMAIN r.balances
    /\ \A i \in 1 .. Last(r) : i # k => s.rounds[i].transfers = r.rounds[i].transfers
    /\ \A p \in DOMAIN r.balances : /\ gain[p] \in Int
                                   /\ s.balances[p] = r.balances[p] + gain[p]
                                   /\ LogNet(s, k, p) = LogNet(r, k, p) + gain[p]
    /\ \/ Last(s) = Last(r)
       \/ Last(s) = Last(r) + 1 /\ s.rounds[Last(r) + 1].transfers = {}

LEMMA Booked ==
    ASSUME NEW r, r.rounds \in Seq(RoundState), Billed(r), NEW s, NEW k, NEW gain, BookedAt(s, r, k, gain)
    PROVE  \A p \in DOMAIN s.balances : s.balances[p] = Charged(s, p)
<1> SUFFICES ASSUME NEW p \in DOMAIN r.balances PROVE s.balances[p] = Charged(s, p)
  BY DEF BookedAt
<1> DEFINE n == Last(r)
           m == Last(s)
           f == [i \in 1 .. n |-> LogNet(r, i, p)]
           e == [i \in 1 .. m |-> LogNet(s, i, p)]
<1>1. n \in Nat /\ \A i \in 1 .. n : LogNet(r, i, p) \in Int
  BY BilledTypes
<1>2. k \in 1 .. n /\ gain[p] \in Int /\ s.balances[p] = r.balances[p] + gain[p]
  BY DEF BookedAt
<1>3. m = n \/ (m = n + 1 /\ LogNet(s, n + 1, p) = 0)
  BY NetNone DEF BookedAt, LogNet
<1>4. \A i \in 1 .. n : i # k => LogNet(s, i, p) = LogNet(r, i, p)
  BY DEF BookedAt, LogNet
<1>5. LogNet(s, k, p) = LogNet(r, k, p) + gain[p]
  BY DEF BookedAt
<1> HIDE DEF m, n
<1>6. CreditedAt(e, m, f, n, k, gain[p])
  <2>1. \A i \in 1 .. n : f[i] \in Int
    BY <1>1
  <2>2. \A i \in 1 .. n : i \in 1 .. m
    BY <1>1, <1>3
  <2>3. \A i \in 1 .. n : i # k => e[i] = f[i]
    BY <1>4, <2>2
  <2>4. e[k] = f[k] + gain[p]
    BY <1>2, <1>5, <2>2
  <2>5. m = n \/ (m = n + 1 /\ e[n + 1] = 0)
    BY <1>1, <1>3
  <2> HIDE DEF e, f
  <2> QED
    BY <1>1, <1>2, <2>1, <2>3, <2>4, <2>5 DEF CreditedAt
<1>7. Charged(s, p) = SumFunctionOnSet(e, 1 .. m) /\ Charged(r, p) = SumFunctionOnSet(f, 1 .. n)
  BY DEF Charged, SumFunction, m, n
<1>8. r.balances[p] = Charged(r, p)
  BY DEF Billed
<1> HIDE DEF e, f
<1>9. SumFunctionOnSet(e, 1 .. m) = SumFunctionOnSet(f, 1 .. n) + gain[p]
  BY <1>6, SumOfCredited
<1> QED
  BY <1>2, <1>7, <1>8, <1>9

(* Nothing is paid: a win claimed, a count, a departure. *)
LEMMA SameBills ==
    ASSUME NEW r, Billed(r), NEW s, Last(s) = Last(r), s.balances = r.balances,
           \A i \in 1 .. Last(r) :
               /\ s.rounds[i].transfers = r.rounds[i].transfers
               /\ s.rounds[i].phase # "resolved" => r.rounds[i].phase # "resolved"
    PROVE  Billed(s)
<1>1. \A p : [i \in 1 .. Last(s) |-> LogNet(s, i, p)] = [i \in 1 .. Last(r) |-> LogNet(r, i, p)]
  BY DEF LogNet
<1>2. \A p : Charged(s, p) = Charged(r, p)
  BY <1>1 DEF Charged
<1>3. \A p \in DOMAIN s.balances : s.balances[p] = Charged(s, p)
  BY <1>2 DEF Billed
<1>4. \A i \in 1 .. Last(s) :
          /\ IsFiniteSet(s.rounds[i].transfers)
          /\ s.rounds[i].phase # "resolved" => s.rounds[i].transfers = Specials(s.rounds[i])
  BY DEF Billed, Specials
<1> QED
  BY <1>3, <1>4 DEF Billed

(* Payments put in a round, or taken out of it, and credited or given back. *)
LEMMA BilledAgain ==
    ASSUME NEW r, r.rounds \in Seq(RoundState), Billed(r),
           NEW s, NEW k, NEW gain, BookedAt(s, r, k, gain),
           \A i \in 1 .. Last(r) : i # k => s.rounds[i] = r.rounds[i],
           IsFiniteSet(s.rounds[k].transfers),
           s.rounds[k].phase # "resolved" => s.rounds[k].transfers = Specials(s.rounds[k])
    PROVE  Billed(s)
<1>1. \A p \in DOMAIN s.balances : s.balances[p] = Charged(s, p)
  BY Booked
<1>2. ASSUME NEW i \in 1 .. Last(s)
      PROVE  /\ IsFiniteSet(s.rounds[i].transfers)
             /\ s.rounds[i].phase # "resolved" => s.rounds[i].transfers = Specials(s.rounds[i])
  <2>1. CASE i = k
    BY <2>1
  <2>2. CASE i \in 1 .. Last(r) /\ i # k
    BY <2>2 DEF Billed
  <2>3. CASE i \notin 1 .. Last(r)
    <3>1. Last(r) \in Nat
      BY DEF Last
    <3>2. i = Last(r) + 1 /\ s.rounds[i].transfers = {}
      BY <2>3, <3>1 DEF BookedAt
    <3> QED
      BY <3>2, FS_EmptySet DEF Specials
  <2> QED
    BY <2>1, <2>2, <2>3
<1> QED
  BY <1>1, <1>2 DEF Billed

(* The last round dropped, and what it charged given back. *)
LEMMA BilledBefore ==
    ASSUME NEW r, r.rounds \in Seq(RoundState), Billed(r), Last(r) > 0,
           NEW s, s.rounds = SubSeq(r.rounds, 1, Last(r) - 1),
           DOMAIN s.balances = DOMAIN r.balances,
           \A p \in DOMAIN r.balances : s.balances[p] = r.balances[p] - LogNet(r, Last(r), p)
    PROVE  s.rounds \in Seq(RoundState) /\ Billed(s) /\ Last(s) = Last(r) - 1
<1> DEFINE m == Last(r) - 1
<1>1. Last(r) \in Nat /\ Len(r.rounds) = Last(r) /\ m \in 0 .. Len(r.rounds) /\ m \in Nat /\ Last(r) = m + 1
  BY DEF Last
<1>2. /\ s.rounds \in Seq(RoundState) /\ Last(s) = m
      /\ \A i \in 1 .. m : s.rounds[i] = r.rounds[i]
  BY <1>1, Cut DEF Last
<1>3. \A i \in 1 .. m : i \in 1 .. Last(r)
  BY <1>1
<1> HIDE DEF m
<1>4. \A i \in 1 .. Last(s) :
          /\ IsFiniteSet(s.rounds[i].transfers)
          /\ s.rounds[i].phase # "resolved" => s.rounds[i].transfers = Specials(s.rounds[i])
  BY <1>2, <1>3 DEF Billed
<1>5. ASSUME NEW p \in DOMAIN r.balances
      PROVE  s.balances[p] = Charged(s, p)
  <2> DEFINE f == [i \in 1 .. m |-> LogNet(s, i, p)]
             e == [i \in 1 .. m + 1 |-> LogNet(r, i, p)]
  <2>1. \A i \in 1 .. m + 1 : LogNet(r, i, p) \in Int
    BY <1>1, BilledTypes
  <2>2. \A i \in 1 .. m : LogNet(s, i, p) = LogNet(r, i, p)
    BY <1>2 DEF LogNet
  <2>3. /\ \A i \in 1 .. m : f[i] \in Int
        /\ \A i \in 1 .. m : e[i] = f[i]
        /\ e[m + 1] = LogNet(r, Last(r), p) /\ e[m + 1] \in Int
    BY <1>1, <1>3, <2>1, <2>2
  <2>4. Charged(s, p) = SumFunctionOnSet(f, 1 .. m) /\ Charged(r, p) = SumFunctionOnSet(e, 1 .. m + 1)
    BY <1>1, <1>2 DEF Charged, SumFunction
  <2> HIDE DEF f, e
  <2>5. SumFunctionOnSet(e, 1 .. m + 1) = SumFunctionOnSet(f, 1 .. m) + e[m + 1]
    BY <1>1, <2>3, SumOfOneMore
  <2>6. SumFunctionOnSet(f, 1 .. m) \in Int
    <3>1. 1 \in Int /\ m \in Int
      BY <1>1
    <3>2. IsFiniteSet(1 .. m)
      BY <3>1, FS_Interval
    <3> QED
      BY <2>3, <3>2, SumIsInt
  <2>7. r.balances[p] = Charged(r, p) /\ s.balances[p] = r.balances[p] - LogNet(r, Last(r), p)
    BY DEF Billed
  <2> QED
    BY <2>3, <2>4, <2>5, <2>6, <2>7
<1> QED
  BY <1>2, <1>4, <1>5 DEF Billed, m

(* Before the first round nothing is owed. *)
LEMMA NothingBilled ==
    ASSUME NEW s, s.rounds = << >> \/ s.rounds = <<FreshRound(1)>>,
           \A p \in DOMAIN s.balances : s.balances[p] = 0
    PROVE  Billed(s)
<1>1. /\ Last(s) \in Nat
      /\ \A i \in 1 .. Last(s) : s.rounds[i].transfers = {}
  BY DEF Last, FreshRound
<1>2. \A i \in 1 .. Last(s) :
          /\ IsFiniteSet(s.rounds[i].transfers)
          /\ s.rounds[i].phase # "resolved" => s.rounds[i].transfers = Specials(s.rounds[i])
  BY <1>1, FS_EmptySet DEF Specials
<1>3. ASSUME NEW p
      PROVE  Charged(s, p) = 0
  <2> DEFINE f == [i \in 1 .. Last(s) |-> LogNet(s, i, p)]
  <2>1. \A i \in 1 .. Last(s) : f[i] = 0
    BY <1>1, NetNone DEF LogNet
  <2>2. IsFiniteSet(1 .. Last(s))
    <3>1. 1 \in Int /\ Last(s) \in Int
      BY <1>1
    <3> QED
      BY <3>1, FS_Interval
  <2>3. Charged(s, p) = SumFunctionOnSet(f, 1 .. Last(s))
    BY DEF Charged, SumFunction
  <2> HIDE DEF f
  <2> QED
    BY <2>1, <2>2, <2>3, SumOfZeros
<1> QED
  BY <1>2, <1>3 DEF Billed

(* A win claimed, a count handed in: nothing is paid. *)
LEMMA ClaimedBilled ==
    ASSUME NEW r, GoodRoom(r), Billed(r), NEW p \in Player, CanClaimWin(r, p)
    PROVE  Billed(WinClaimed(r, p))
<1> DEFINE s == WinClaimed(r, p)
           x == [Current(r) EXCEPT !.phase = "collecting", !.winner = p]
<1>1. /\ r.rounds \in Seq(RoundState) /\ Len(r.rounds) > 0 /\ Current(r) \in RoundState
      /\ Current(r).phase = "playing"
  BY OpenRound DEF CanClaimWin, MayPlay, Last, InPhase
<1>2. x \in RoundState /\ x.transfers = Current(r).transfers
  BY <1>1 DEF RoundState, Phases
<1>3. s.balances = r.balances /\ s.rounds = [r.rounds EXCEPT ![Len(r.rounds)] = x]
  BY <1>1 DEF WinClaimed, GoodRoom, IsRoom, Current, Last
<1> HIDE DEF s, x
<1>4. /\ Last(s) = Last(r)
      /\ \A i \in 1 .. Last(r) : /\ s.rounds[i].transfers = r.rounds[i].transfers
                                 /\ i < Last(r) => s.rounds[i] = r.rounds[i]
  BY <1>1, <1>2, <1>3, LastReplaced DEF Last, Current
<1>5. \A i \in 1 .. Last(r) : i < Last(r) \/ r.rounds[i].phase # "resolved"
  BY <1>1 DEF Last, Current
<1> QED
  BY <1>3, <1>4, <1>5, SameBills DEF s

LEMMA CountedBilled ==
    ASSUME NEW r, GoodRoom(r), Billed(r), r.status = "in_progress",
           InPhase(r, "collecting"), NEW p \in Members(r), NEW cards \in 1 .. MAX_CARDS
    PROVE  Billed(CardsSubmitted(r, p, cards))
<1> DEFINE s == CardsSubmitted(r, p, cards)
           x == Counted(Current(r), p, cards)
<1>1. r.rounds \in Seq(RoundState) /\ Len(r.rounds) > 0 /\ Current(r).phase = "collecting"
  BY OpenRound DEF Last, InPhase
<1>2. /\ s.balances = r.balances
      /\ s.rounds = [r.rounds EXCEPT ![Len(r.rounds)] = x]
      /\ x \in RoundState /\ x.transfers = Current(r).transfers
  BY CountAdded DEF SameTable, Last, CardsSubmitted, GoodRoom, IsRoom
<1> HIDE DEF s, x
<1>3. /\ Last(s) = Last(r)
      /\ \A i \in 1 .. Last(r) : /\ s.rounds[i].transfers = r.rounds[i].transfers
                                 /\ i < Last(r) => s.rounds[i] = r.rounds[i]
  BY <1>1, <1>2, LastReplaced DEF Last, Current
<1>4. \A i \in 1 .. Last(r) : i < Last(r) \/ r.rounds[i].phase # "resolved"
  BY <1>1 DEF Last, Current
<1>5. /\ Last(s) = Last(r)
      /\ \A i \in 1 .. Last(r) : /\ s.rounds[i].transfers = r.rounds[i].transfers
                                 /\ s.rounds[i].phase # "resolved" => r.rounds[i].phase # "resolved"
  BY <1>3, <1>4
<1>6. s.balances = r.balances
  BY <1>2
<1> QED
  BY <1>5, <1>6, SameBills DEF s

(* An ended game drops its open round only when that charged nothing. *)
LEMMA EndedBilled ==
    ASSUME NEW r, IsRoom(r), Ordered(r), Billed(r), r.status = "in_progress"
    PROVE  Billed(GameEnded(r))
<1> DEFINE s == GameEnded(r)
<1>1. r.rounds \in Seq(RoundState) /\ Last(r) \in Nat /\ Last(r) > 0
  BY DEF IsRoom, Ordered, InPhase, Last
<1>2. /\ s.balances = r.balances
      /\ s.rounds = IF is_empty(Current(r))
                    THEN SubSeq(r.rounds, 1, Last(r) - 1) ELSE r.rounds
  BY <1>1 DEF GameEnded, IsRoom
<1> HIDE DEF s
<1>3. CASE is_empty(Current(r))
  <2>1. \A p : LogNet(r, Last(r), p) = 0
    BY <1>3, NetNone DEF is_empty, Current, LogNet
  <2>2. \A p \in DOMAIN r.balances : r.balances[p] \in Int
    BY <1>1, BalancesAreInts
  <2>3. \A p \in DOMAIN r.balances : s.balances[p] = r.balances[p] - LogNet(r, Last(r), p)
    BY <1>2, <2>1, <2>2
  <2> QED
    BY <1>1, <1>2, <1>3, <2>3, BilledBefore DEF s
<1>4. CASE ~is_empty(Current(r))
  BY <1>2, <1>4, SameBills DEF s, Last
<1> QED
  BY <1>3, <1>4

(* Payments put in the open round, for a special hand or to settle it. *)
LEMMA PaidBilled ==
    ASSUME NEW r, r.rounds \in Seq(RoundState), Billed(r), NEW k, k = Last(r), k > 0,
           NEW paid \in SUBSET Payments(Player), IsFiniteSet(paid),
           paid \cap Current(r).transfers = {},
           NEW s, s.balances = Moved(r.balances, paid),
           s.rounds[k].transfers = Current(r).transfers \cup paid,
           s.rounds[k].phase # "resolved" => s.rounds[k].transfers = Specials(s.rounds[k]),
           \A i \in 1 .. k : i < k => s.rounds[i] = r.rounds[i],
           Last(s) = k \/ (Last(s) = k + 1 /\ s.rounds[k + 1].transfers = {})
    PROVE  Billed(s)
<1> DEFINE gain == [p \in DOMAIN r.balances |-> Net(paid, p)]
           T == Current(r).transfers
<1>1. k \in Nat /\ k \in 1 .. Last(r)
  BY BilledTypes
<1>2. T \in SUBSET Payments(Player) /\ IsFiniteSet(T)
  BY <1>1, BilledTypes DEF Current
<1>3. \A p : /\ Net(T \cup paid, p) = Net(T, p) + Net(paid, p)
             /\ Net(T, p) \in Int /\ Net(paid, p) \in Int
  <2>1. T \cap paid = {}
    OBVIOUS
  <2> QED
    BY <1>2, <2>1, NetParts
<1>4. \A p : LogNet(s, k, p) = Net(T \cup paid, p) /\ LogNet(r, k, p) = Net(T, p)
  BY DEF LogNet, Current
<1>5. /\ DOMAIN s.balances = DOMAIN r.balances
      /\ \A p \in DOMAIN r.balances : s.balances[p] = r.balances[p] + Net(paid, p)
  BY DEF Moved
<1>6. \A i \in 1 .. Last(r) : i # k => s.rounds[i] = r.rounds[i]
  BY <1>1
<1>7. BookedAt(s, r, k, gain)
  <2>1. \A p \in DOMAIN r.balances : /\ gain[p] \in Int
                                     /\ s.balances[p] = r.balances[p] + gain[p]
                                     /\ LogNet(s, k, p) = LogNet(r, k, p) + gain[p]
    BY <1>3, <1>4, <1>5
  <2> HIDE DEF gain, T
  <2> QED
    BY <1>1, <1>5, <1>6, <2>1 DEF BookedAt
<1>8. IsFiniteSet(s.rounds[k].transfers)
  <2>1. s.rounds[k].transfers = T \cup paid
    OBVIOUS
  <2> HIDE DEF T
  <2>2. IsFiniteSet(T \cup paid)
    BY <1>2, FS_Union
  <2> QED
    BY <2>1, <2>2
<1> HIDE DEF gain, T
<1> QED
  BY <1>6, <1>7, <1>8, BilledAgain

(* The payments of the open round are those of its special hands. *)
LEMMA OpenPayments ==
    ASSUME NEW r, GoodRoom(r), Billed(r), r.status = "in_progress"
    PROVE  /\ Current(r).transfers = Specials(Current(r))
           /\ Current(r).transfers \in SUBSET Payments(Player)
           /\ IsFiniteSet(Current(r).transfers)
<1>1. /\ Last(r) \in Nat /\ Last(r) > 0 /\ Current(r) \in RoundState
      /\ Current(r).phase \in {"playing", "collecting"}
  BY OpenRound DEF Last
<1>2. Last(r) \in 1 .. Last(r) /\ Current(r) = r.rounds[Last(r)]
  BY <1>1 DEF Current
<1> QED
  BY <1>1, <1>2 DEF Billed, RoundState

LEMMA SpecialBilled ==
    ASSUME NEW r, GoodRoom(r), ClaimsApart(r), Billed(r), NEW p \in Player, CanAddSpecial(r, p)
    PROVE  Billed(SpecialHand(r, p))
<1> DEFINE s == SpecialHand(r, p)
           paid == compute_special_transfer(p, OthersAtTable(r, p), r.rules, r.seq + 1)
           x == ClaimAdded(Current(r), p, paid)
           k == Last(r)
<1>1. /\ r.status = "in_progress" /\ p \in Members(r)
      /\ r.rounds \in Seq(RoundState) /\ Len(r.rounds) > 0 /\ Current(r) \in RoundState
      /\ r.rules \in GameRules /\ r.seq \in Nat /\ OthersAtTable(r, p) \in SUBSET Player
  BY OpenRound DEF CanAddSpecial, MayPlay, Last, GoodRoom, IsRoom, OthersAtTable
<1>2. \A t \in paid : t.kind = "special" /\ t.claim_seq = r.seq + 1
  BY DEF compute_special_transfer, Payment
<1>3. paid \in SUBSET Payments(Player) /\ IsFiniteSet(paid)
  <2>1. IsFiniteSet(OthersAtTable(r, p))
    BY <1>1, FS_Subset, PlayerAssumption
  <2> QED
    BY <1>1, <2>1, SpecialPayments, SpecialPaymentsFinite
<1>4. /\ s.balances = Moved(r.balances, paid)
      /\ s.rounds = [r.rounds EXCEPT ![Len(r.rounds)] = x]
  BY <1>1 DEF SpecialHand, GoodRoom, IsRoom, Current, Last
<1> HIDE DEF s, paid
<1>5. x \in RoundState /\ x.transfers = Current(r).transfers \cup paid
  <2>1. x \in RoundState
    BY <1>1, <1>3, ClaimTypes DEF SameRound
  <2> QED
    BY <1>1, <2>1 DEF ClaimAdded, RoundState
<1> HIDE DEF x
<1>6. /\ Last(s) = k /\ s.rounds[k] = x /\ k \in Nat /\ k > 0
      /\ \A i \in 1 .. k : i < k => s.rounds[i] = r.rounds[i]
  BY <1>1, <1>4, <1>5, LastReplaced DEF Last
<1>7. Current(r).transfers = Specials(Current(r))
  BY <1>1, OpenPayments
<1>8. paid \cap Current(r).transfers = {}
  <2>1. \A t \in Current(r).transfers : t.claim_seq <= r.seq
    BY <1>6, <1>7 DEF ClaimsApart, Current
  <2> QED
    BY <1>1, <1>2, <2>1
<1>9. x.transfers = Specials(x)
  BY <1>2, <1>5, <1>7 DEF Specials
<1> HIDE DEF k
<1> QED
  BY <1>1, <1>3, <1>4, <1>5, <1>6, <1>8, <1>9, PaidBilled DEF s, k

(* An undone special hand: its payments leave the round and are given back. *)
LEMMA SpecialVoidedBilled ==
    ASSUME NEW r, GoodRoom(r), Billed(r), NEW p \in Player, CanVoidSpecial(r, p)
    PROVE  Billed(SpecialHandVoided(r, p))
<1> DEFINE s == SpecialHandVoided(r, p)
           claim == LatestClaim(Current(r), p)
           x == ClaimRemoved(Current(r), p, claim)
           k == Last(r)
           T == Current(r).transfers
           gain == [q \in DOMAIN r.balances |-> 0 - Net(claim, q)]
<1>1. /\ r.status = "in_progress"
      /\ r.rounds \in Seq(RoundState) /\ k \in Nat /\ k > 0 /\ Current(r) \in RoundState
  BY OpenRound DEF CanVoidSpecial, MayPlay
<1>2. /\ T = Specials(Current(r)) /\ T \in SUBSET Payments(Player) /\ IsFiniteSet(T)
  BY <1>1, OpenPayments
<1>3. claim \in SUBSET T
  BY DEF LatestClaim, Specials
<1>4. s.balances = Reversed(r.balances, claim) /\ s.rounds = [r.rounds EXCEPT ![Len(r.rounds)] = x]
  BY <1>1 DEF SpecialHandVoided, GoodRoom, IsRoom, Current, Last
<1> HIDE DEF s, claim, T
<1>5. x \in RoundState /\ x.transfers = T \ claim
  <2>1. claim \in SUBSET Payments(Player)
    BY <1>2, <1>3
  <2>2. x \in RoundState
    BY <1>1, <2>1, ClaimTypes DEF SameRound
  <2> QED
    BY <1>1, <2>2 DEF ClaimRemoved, RoundState, T
<1> HIDE DEF x
<1>6. /\ Last(s) = k /\ s.rounds[k] = x
      /\ \A i \in 1 .. k : i < k => s.rounds[i] = r.rounds[i]
  BY <1>1, <1>4, <1>5, LastReplaced DEF Last
<1>7. \A q : /\ Net(T \ claim, q) = Net(T, q) - Net(claim, q)
             /\ Net(T, q) \in Int /\ Net(claim, q) \in Int
  BY <1>2, <1>3, NetWithout
<1>8. \A q \in DOMAIN r.balances : r.balances[q] \in Int
  BY <1>1, BalancesAreInts
<1>9. BookedAt(s, r, k, gain)
  <2>1. /\ DOMAIN s.balances = DOMAIN r.balances
        /\ \A q \in DOMAIN r.balances : s.balances[q] = r.balances[q] - Net(claim, q)
    BY <1>4 DEF Reversed
  <2>2. \A q : LogNet(s, k, q) = Net(T \ claim, q) /\ LogNet(r, k, q) = Net(T, q)
    BY <1>5, <1>6 DEF LogNet, Current, T
  <2>3. \A q \in DOMAIN r.balances : /\ gain[q] \in Int
                                     /\ s.balances[q] = r.balances[q] + gain[q]
                                     /\ LogNet(s, k, q) = LogNet(r, k, q) + gain[q]
    <3>1. \A q \in DOMAIN r.balances : gain[q] = 0 - Net(claim, q)
      OBVIOUS
    <3> HIDE DEF gain, k
    <3>2. ASSUME NEW q \in DOMAIN r.balances
          PROVE  /\ gain[q] \in Int
                 /\ s.balances[q] = r.balances[q] + gain[q]
                 /\ LogNet(s, k, q) = LogNet(r, k, q) + gain[q]
      <4>1. /\ gain[q] = 0 - Net(claim, q) /\ r.balances[q] \in Int
            /\ Net(T, q) \in Int /\ Net(claim, q) \in Int
            /\ s.balances[q] = r.balances[q] - Net(claim, q)
        BY <1>7, <1>8, <2>1, <3>1
      <4>2. LogNet(s, k, q) = Net(T, q) - Net(claim, q) /\ LogNet(r, k, q) = Net(T, q)
        BY <1>7, <2>2
      <4> QED
        BY <4>1, <4>2
    <3> QED
      BY <3>2
  <2>4. k \in 1 .. Last(r) /\ Last(s) = Last(r)
    BY <1>1, <1>6
  <2>5. \A i \in 1 .. Last(r) : i # k => s.rounds[i].transfers = r.rounds[i].transfers
    BY <1>1, <1>6
  <2> HIDE DEF gain, k
  <2> QED
    BY <2>1, <2>3, <2>4, <2>5 DEF BookedAt
<1>10. IsFiniteSet(x.transfers) /\ x.transfers = Specials(x)
  BY <1>2, <1>3, <1>5, FS_Subset DEF Specials
<1>11. \A i \in 1 .. Last(r) : i # k => s.rounds[i] = r.rounds[i]
  BY <1>1, <1>6
<1> HIDE DEF k, gain
<1> QED
  BY <1>1, <1>6, <1>9, <1>10, <1>11, BilledAgain DEF s

(* The last count settles the round: its card payments join those of its special hands. *)
LEMMA ResolvedBilled ==
    ASSUME NEW r, IsRoom(r), Ordered(r), Billed(r), r.status = "in_progress",
           InPhase(r, "collecting"),
           Submitted(Current(r)) \cup {Current(r).winner} \subseteq Player
    PROVE  Billed(RoundResolved(r))
<1> DEFINE s == RoundResolved(r)
           counts == CardCounts(Current(r))
           paid == compute_card_transfers(counts, r.rules)
           x == Resolved(Current(r), paid)
           fresh == FreshRound(Current(r).round_no + 1)
           k == Last(r)
<1>1. /\ r.rounds \in Seq(RoundState) /\ k \in Nat /\ k > 0
      /\ Current(r) \in RoundState /\ Current(r).phase = "collecting"
      /\ r.rules \in GameRules
  BY DEF InPhase, IsRoom, Ordered, Current, Last
<1>2. /\ \A t \in paid : t.kind # "special" /\ t \in Payments(Player)
      /\ IsFiniteSet(paid)
  <2>1. DOMAIN counts \subseteq Player
    BY DEF CardCounts
  <2>2. \A p \in DOMAIN counts : counts[p] \in Int
    <3>1. Current(r).cards_submitted \in [Player -> 1 .. MAX_CARDS \cup {None}]
      BY <1>1 DEF RoundState
    <3>2. \A p \in Submitted(Current(r)) : Current(r).cards_submitted[p] \in Int
      BY <3>1 DEF Submitted
    <3> QED
      BY <3>2 DEF CardCounts
  <2>3. \E p \in DOMAIN counts : counts[p] = 0
    BY DEF CardCounts
  <2> HIDE DEF counts
  <2>4. \A t \in paid : t \in Payments(DOMAIN counts) /\ t.kind # "special"
    BY <1>1, <2>2, <2>3, CardPayments
  <2>5. IsFiniteSet(DOMAIN counts)
    BY <2>1, FS_Subset, PlayerAssumption
  <2>6. IsFiniteSet(paid)
    BY <2>5, CardPaymentsFinite
  <2> QED
    BY <2>1, <2>4, <2>6 DEF Payments
<1>3. /\ s.balances = Moved(r.balances, paid)
      /\ s.rounds = Append([r.rounds EXCEPT ![k] = x], fresh)
  BY <1>1 DEF RoundResolved, IsRoom
<1> HIDE DEF s, paid, counts
<1>4. x \in RoundState /\ x.transfers = Current(r).transfers \cup paid /\ x.phase = "resolved"
  BY <1>1, <1>2 DEF Resolved, RoundState, Phases
<1>5. fresh \in RoundState /\ fresh.transfers = {}
  <2>1. Current(r).round_no \in Nat
    BY <1>1 DEF RoundState
  <2> QED
    BY <2>1, FreshRoundType DEF FreshRound
<1> HIDE DEF x, fresh
<1>6. /\ Last(s) = k + 1
      /\ s.rounds[k + 1] = fresh /\ s.rounds[k] = x
      /\ \A i \in 1 .. k : i < k => s.rounds[i] = r.rounds[i]
  <2> DEFINE ts == [r.rounds EXCEPT ![k] = x]
  <2>1. /\ ts \in Seq(RoundState) /\ Len(ts) = k /\ ts[k] = x
        /\ \A i \in 1 .. k : i < k => ts[i] = r.rounds[i]
    BY <1>1, <1>4, LastReplaced DEF Last
  <2>2. s.rounds = Append(ts, fresh)
    BY <1>3
  <2> HIDE DEF ts
  <2>3. /\ Len(Append(ts, fresh)) = k + 1
        /\ Append(ts, fresh)[k + 1] = fresh
        /\ \A i \in 1 .. k : Append(ts, fresh)[i] = ts[i]
    BY <1>1, <1>5, <2>1
  <2> QED
    BY <1>1, <2>1, <2>2, <2>3 DEF Last
<1>7. paid \cap Current(r).transfers = {}
  <2>1. Current(r).transfers = Specials(Current(r))
    BY <1>1 DEF Billed, Current
  <2> QED
    BY <1>2, <2>1 DEF Specials
<1> HIDE DEF k
<1>8. paid \in SUBSET Payments(Player) /\ IsFiniteSet(paid)
  BY <1>2
<1> QED
  BY <1>1, <1>3, <1>4, <1>5, <1>6, <1>7, <1>8, PaidBilled DEF s, k

(* What a void makes of the rounds and the balances. *)
LEMMA VoidedRound ==
    ASSUME NEW r, GoodRoom(r), r.status = "in_progress", NEW k \in 1 .. Last(r)
    PROVE  LET s == RoundVoided(r, k)
               settled == r.rounds[k].transfers \ Specials(r.rounds[k])
           IN  /\ s.balances = Reversed(r.balances, settled)
               /\ Last(s) = k /\ \A i \in 1 .. (k - 1) : s.rounds[i] = r.rounds[i]
               /\ s.rounds[k].transfers = SpecialsFrom(r, k)
               /\ s.rounds[k].transfers = Specials(s.rounds[k])
<1> DEFINE s == RoundVoided(r, k)
           idx == CHOOSE i \in 1 .. Last(r) : r.rounds[i].round_no = k
           counts == CountsFrom(r, k)
           kept == SpecialsFrom(r, k)
           settled == r.rounds[k].transfers \ Specials(r.rounds[k])
           x == [FreshRound(k) EXCEPT !.special_counts = counts, !.transfers = kept]
<1>1. r.rounds \in Seq(RoundState) /\ Last(r) \in Nat /\ k \in Nat
  BY OpenRound
<1>2. idx = k
  BY DEF GoodRoom, Ordered
<1>3. s.balances = Reversed(r.balances, settled) /\ s.rounds = Append(SubSeq(r.rounds, 1, k - 1), x)
  BY <1>2 DEF RoundVoided, GoodRoom, IsRoom
<1>4. counts \in [Player -> Nat]
  BY CountsKept
<1>5. kept \subseteq Payments(Player) /\ \A t \in kept : t.kind = "special"
  <2>1. \A i \in 1 .. Last(r) : r.rounds[i] \in RoundState
    BY <1>1 DEF Last
  <2>2. \A j \in 1 .. Last(r) : \A t \in Specials(r.rounds[j]) :
            t \in Payments(Player) /\ t.kind = "special"
    BY <2>1 DEF Specials, RoundState
  <2>3. k .. Last(r) \subseteq 1 .. Last(r)
    BY <1>1
  <2>4. \A t \in kept : \E j \in k .. Last(r) : t \in Specials(r.rounds[j])
    BY DEF SpecialsFrom
  <2> HIDE DEF kept
  <2> QED
    BY <2>2, <2>3, <2>4
<1> HIDE DEF s, idx, counts, kept
<1>6. x \in RoundState /\ x.transfers = kept
  BY <1>1, <1>4, <1>5 DEF FreshRound, RoundState, Phases
<1> HIDE DEF x
<1>7. /\ Last(s) = k /\ s.rounds[k] = x
      /\ \A i \in 1 .. (k - 1) : s.rounds[i] = r.rounds[i]
  BY <1>1, <1>3, <1>6, CutAndContinued, k - 1 \in 0 .. Len(r.rounds) DEF Last
<1>8. s.rounds[k].transfers = Specials(s.rounds[k])
  BY <1>5, <1>6, <1>7 DEF Specials
<1> QED
  BY <1>3, <1>6, <1>7, <1>8 DEF s, kept

(* The void of the open round: it has no card payments to give back. *)
LEMMA OpenVoidBilled ==
    ASSUME NEW r, GoodRoom(r), Billed(r), r.status = "in_progress"
    PROVE  Billed(RoundVoided(r, Last(r)))
<1> DEFINE k == Last(r)
           s == RoundVoided(r, k)
           T == Current(r).transfers
           gain == [p \in DOMAIN r.balances |-> 0]
<1>1. r.rounds \in Seq(RoundState) /\ k \in Nat /\ k > 0 /\ k \in 1 .. k
  BY OpenRound
<1>2. T = Specials(Current(r)) /\ IsFiniteSet(T) /\ Current(r) = r.rounds[k]
  BY OpenPayments DEF Current
<1>3. SpecialsFrom(r, k) = T
  <2>1. k .. Last(r) = {k}
    BY <1>1
  <2> QED
    BY <1>2, <2>1 DEF SpecialsFrom
<1>4. /\ s.balances = Reversed(r.balances, {})
      /\ Last(s) = k /\ \A i \in 1 .. (k - 1) : s.rounds[i] = r.rounds[i]
      /\ s.rounds[k].transfers = T
      /\ s.rounds[k].transfers = Specials(s.rounds[k])
  <2>1. r.rounds[k].transfers \ Specials(r.rounds[k]) = {}
    BY <1>2
  <2>2. /\ s.balances = Reversed(r.balances, r.rounds[k].transfers \ Specials(r.rounds[k]))
        /\ Last(s) = k /\ \A i \in 1 .. (k - 1) : s.rounds[i] = r.rounds[i]
        /\ s.rounds[k].transfers = SpecialsFrom(r, k)
        /\ s.rounds[k].transfers = Specials(s.rounds[k])
    BY <1>1, VoidedRound
  <2> QED
    BY <1>3, <2>1, <2>2
<1>5. \A i \in 1 .. Last(r) : i # k => s.rounds[i] = r.rounds[i]
  BY <1>1, <1>4
<1>6. \A p \in DOMAIN r.balances : r.balances[p] \in Int
  BY <1>1, BalancesAreInts
<1>7. \A p : LogNet(s, k, p) = LogNet(r, k, p) /\ LogNet(r, k, p) \in Int
  <2>1. \A p : LogNet(r, k, p) \in Int
    BY <1>1, BilledTypes
  <2> QED
    BY <1>2, <1>4, <2>1 DEF LogNet
<1> HIDE DEF s, T
<1>8. /\ DOMAIN s.balances = DOMAIN r.balances
      /\ \A p \in DOMAIN r.balances : s.balances[p] = r.balances[p]
  BY <1>4, <1>6, NetNone DEF Reversed
<1>9. \A p \in DOMAIN r.balances : /\ gain[p] \in Int
                                   /\ s.balances[p] = r.balances[p] + gain[p]
                                   /\ LogNet(s, k, p) = LogNet(r, k, p) + gain[p]
  BY <1>6, <1>7, <1>8
<1> HIDE DEF gain
<1>10. BookedAt(s, r, k, gain)
  BY <1>1, <1>4, <1>5, <1>8, <1>9 DEF BookedAt
<1> QED
  BY <1>1, <1>2, <1>4, <1>5, <1>10, BilledAgain DEF s

(* The void of the round before it: the open round goes, its special hands move to the *)
(* round opened again, and only that round's card payments are given back.             *)
LEMMA LastVoidBilled ==
    ASSUME NEW r, GoodRoom(r), ClaimsApart(r), Billed(r), r.status = "in_progress",
           Last(r) - 1 > 0
    PROVE  Billed(RoundVoided(r, Last(r) - 1))
<1> DEFINE n == Last(r)
           k == n - 1
           s == RoundVoided(r, k)
           T == r.rounds[k].transfers
           A == Specials(r.rounds[k])
           B == Current(r).transfers
           m == [rounds |-> SubSeq(r.rounds, 1, k),
                 balances |-> [p \in DOMAIN r.balances |-> r.balances[p] - LogNet(r, n, p)]]
           gain == [p \in DOMAIN r.balances |-> LogNet(r, n, p) - Net(T \ A, p)]
<1>1. /\ r.rounds \in Seq(RoundState) /\ n \in Nat /\ n > 0
      /\ k \in Nat /\ k \in 1 .. n /\ n = k + 1 /\ n \in 1 .. n
  BY OpenRound
<1>2. /\ B = Specials(Current(r)) /\ B \in SUBSET Payments(Player) /\ IsFiniteSet(B)
      /\ Current(r) = r.rounds[n]
  BY OpenPayments DEF Current
<1>3. T \in SUBSET Payments(Player) /\ IsFiniteSet(T) /\ A \in SUBSET T
  BY <1>1, BilledTypes DEF Specials
<1>4. SpecialsFrom(r, k) = A \cup B
  <2>1. k .. Last(r) = {k, n}
    BY <1>1
  <2> QED
    BY <1>2, <2>1 DEF SpecialsFrom
<1>5. A \cap B = {}
  <2> SUFFICES ASSUME NEW t, t \in Specials(r.rounds[k]), t \in Specials(r.rounds[n])
               PROVE  FALSE
    BY <1>2
  <2> HIDE DEF k, n
  <2>1. k \in 1 .. Last(r) /\ n \in 1 .. Last(r) /\ k # n
    BY <1>1 DEF n
  <2> QED
    BY <2>1 DEF ClaimsApart
<1>6. m.rounds \in Seq(RoundState) /\ Billed(m) /\ Last(m) = k
  <2> DEFINE q == m
  <2>1. /\ q.rounds = SubSeq(r.rounds, 1, Last(r) - 1)
        /\ DOMAIN q.balances = DOMAIN r.balances
        /\ \A p \in DOMAIN r.balances : q.balances[p] = r.balances[p] - LogNet(r, Last(r), p)
    OBVIOUS
  <2> HIDE DEF q
  <2>2. q.rounds \in Seq(RoundState) /\ Billed(q) /\ Last(q) = Last(r) - 1
    BY <1>1, <2>1, BilledBefore
  <2> QED
    BY <2>2 DEF q
<1>7. \A i \in 1 .. k : m.rounds[i] = r.rounds[i]
  BY <1>1, Cut, k \in 0 .. Len(r.rounds) DEF Last
<1>8. /\ s.balances = Reversed(r.balances, T \ A)
      /\ Last(s) = k /\ \A i \in 1 .. (k - 1) : s.rounds[i] = r.rounds[i]
      /\ s.rounds[k].transfers = A \cup B
      /\ s.rounds[k].transfers = Specials(s.rounds[k])
  BY <1>1, <1>4, VoidedRound
<1>9. \A i \in 1 .. Last(m) : i # k => s.rounds[i] = m.rounds[i]
  <2> HIDE DEF m, s, k, n
  <2>1. \A i \in 1 .. k : i # k => i \in 1 .. (k - 1)
    BY <1>1
  <2> QED
    BY <1>6, <1>7, <1>8, <2>1
<1>10. \A p \in DOMAIN r.balances :
           m.balances[p] = r.balances[p] - LogNet(r, n, p) /\ r.balances[p] \in Int
  BY <1>1, BalancesAreInts
<1>11. DOMAIN m.balances = DOMAIN r.balances
  OBVIOUS
<1>12. \A p : /\ LogNet(r, n, p) = Net(B, p) /\ LogNet(m, k, p) = Net(T, p)
              /\ LogNet(s, k, p) = Net(A \cup B, p)
  <2>1. m.rounds[k] = r.rounds[k] /\ s.rounds[k].transfers = A \cup B /\ r.rounds[n].transfers = B
    <3> HIDE DEF m, s, n, k
    <3>1. k \in 1 .. k
      BY <1>1
    <3> QED
      BY <1>2, <1>7, <1>8, <3>1
  <2> HIDE DEF m, s, k, n
  <2> QED
    BY <2>1 DEF LogNet
<1>13. \A p \in DOMAIN r.balances : gain[p] = LogNet(r, n, p) - Net(T \ A, p)
  OBVIOUS
<1> HIDE DEF m, s, gain, T, A, B, k, n
<1>14. ASSUME NEW p
       PROVE  /\ Net(A \cup B, p) = Net(A, p) + Net(B, p)
              /\ Net(T \ A, p) = Net(T, p) - Net(A, p)
              /\ Net(A, p) \in Int /\ Net(B, p) \in Int /\ Net(T, p) \in Int
  <2>1. A \in SUBSET Payments(Player) /\ IsFiniteSet(A)
    BY <1>3, FS_Subset
  <2>2. Net(A \cup B, p) = Net(A, p) + Net(B, p) /\ Net(A, p) \in Int /\ Net(B, p) \in Int
    BY <1>2, <1>5, <2>1, NetParts
  <2>3. Net(T \ A, p) = Net(T, p) - Net(A, p) /\ Net(T, p) \in Int
    BY <1>3, NetWithout
  <2> QED
    BY <2>2, <2>3
<1>15. /\ DOMAIN s.balances = DOMAIN r.balances
       /\ \A p \in DOMAIN r.balances : s.balances[p] = r.balances[p] - Net(T \ A, p)
  BY <1>8 DEF Reversed
<1>16. ASSUME NEW p \in DOMAIN m.balances
       PROVE  /\ gain[p] \in Int
              /\ s.balances[p] = m.balances[p] + gain[p]
              /\ LogNet(s, k, p) = LogNet(m, k, p) + gain[p]
  <2>1. /\ gain[p] = Net(B, p) - (Net(T, p) - Net(A, p))
        /\ m.balances[p] = r.balances[p] - Net(B, p) /\ r.balances[p] \in Int
        /\ s.balances[p] = r.balances[p] - (Net(T, p) - Net(A, p))
    BY <1>10, <1>11, <1>12, <1>13, <1>14, <1>15
  <2>2. LogNet(s, k, p) = Net(A, p) + Net(B, p) /\ LogNet(m, k, p) = Net(T, p)
    BY <1>12, <1>14
  <2>3. Net(A, p) \in Int /\ Net(B, p) \in Int /\ Net(T, p) \in Int
    BY <1>14
  <2> QED
    BY <2>1, <2>2, <2>3
<1>17. BookedAt(s, m, k, gain)
  <2>1. k \in 1 .. Last(m) /\ DOMAIN s.balances = DOMAIN m.balances /\ Last(s) = Last(m)
    BY <1>1, <1>6, <1>8, <1>11, <1>15 DEF n, k
  <2>2. \A i \in 1 .. Last(m) : i # k => s.rounds[i].transfers = m.rounds[i].transfers
    BY <1>9
  <2> QED
    BY <1>16, <2>1, <2>2 DEF BookedAt
<1>18. IsFiniteSet(s.rounds[k].transfers)
  BY <1>2, <1>3, <1>8, FS_Subset, FS_Union
<1>19. Billed(s)
  BY <1>6, <1>8, <1>9, <1>17, <1>18, BilledAgain
<1> QED
  BY <1>19 DEF s, k, n

LEMMA RoundVoidBilled ==
    ASSUME NEW r, GoodRoom(r), ClaimsApart(r), Billed(r), NEW p \in Player, CanVoidRound(r, p)
    PROVE  Billed(DoVoidRound(r))
<1>1. /\ r.status = "in_progress" /\ VoidTarget(r) > 0
      /\ VoidTarget(r) \in {Last(r), Last(r) - 1} /\ VoidTarget(r) \in 1 .. Last(r)
  BY OpenRound DEF CanVoidRound, MayPlay, VoidTarget
<1>2. DoVoidRound(r) = RoundVoided(r, VoidTarget(r))
  BY <1>1 DEF DoVoidRound, GoodRoom, Ordered
<1> QED
  BY <1>1, <1>2, OpenVoidBilled, LastVoidBilled

LEMMA StepOutBilled ==
    ASSUME NEW r, GoodRoom(r), ClaimsApart(r), Billed(r), NEW p \in Player, CanStepOut(r, p)
    PROVE  Billed(DoStepOut(r, p))
<1> DEFINE opened == IF InPhase(r, "collecting")
                     THEN RoundVoided(r, Current(r).round_no) ELSE r
           gone == PlayerSteppedOut(opened, p)
<1>1. r.status = "in_progress" /\ p \in Members(r)
  BY DEF CanStepOut, MayPlay
<1>2. /\ GoodRoom(opened) /\ opened.status = "in_progress" /\ Billed(opened)
      /\ Current(opened).phase = "playing" /\ Members(opened) = Members(r)
  <2>1. CASE InPhase(r, "collecting")
    <3>1. Current(r).round_no = Last(r) /\ Last(r) \in 1 .. Last(r)
      BY <1>1, OpenRound
    <3> QED
      BY <1>1, <2>1, <3>1, VoidedGood, OpenVoidBilled DEF SameTable, Members
  <2>2. CASE ~InPhase(r, "collecting")
    BY <1>1, <2>2, OpenRound DEF InPhase
  <2> QED
    BY <2>1, <2>2
<1>3. /\ IsRoom(gone) /\ Ordered(gone) /\ gone.status = "in_progress"
      /\ gone.rounds = opened.rounds /\ gone.balances = opened.balances
  <2> HIDE DEF opened
  <2>1. /\ IsRoom(gone) /\ Ordered(gone) /\ gone.status = "in_progress"
        /\ gone.rounds = opened.rounds
    BY <1>1, <1>2, GoneGood
  <2>2. gone.balances = opened.balances
    BY <1>2 DEF PlayerSteppedOut, GoodRoom, IsRoom
  <2> HIDE DEF gone
  <2> QED
    BY <2>1, <2>2
<1>4. DoStepOut(r, p) \in {GameEnded(gone), gone}
  BY DEF DoStepOut
<1> HIDE DEF opened, gone
<1>5. Billed(gone)
  BY <1>2, <1>3, SameBills DEF Last
<1> QED
  BY <1>3, <1>4, <1>5, EndedBilled

LEMMA SubmitBilled ==
    ASSUME NEW r, GoodRoom(r), Billed(r), NEW actor \in Player, NEW target \in Player,
           NEW cards \in Int, CanSubmit(r, actor, target, cards)
    PROVE  Billed(DoSubmit(r, target, cards))
<1> DEFINE s == CardsSubmitted(r, target, cards)
           x == Counted(Current(r), target, cards)
<1>1. /\ r.status = "in_progress" /\ InPhase(r, "collecting") /\ target \in Members(r)
      /\ target # Current(r).winner /\ cards \in 1 .. MAX_CARDS
  BY DEF CanSubmit, MayPlay, MAX_CARDS
<1>2. Billed(s)
  BY <1>1, CountedBilled
<1>3. /\ SameTable(s, r) /\ s.rounds = [r.rounds EXCEPT ![Last(r)] = x]
      /\ x \in RoundState /\ x.round_no = Last(r) /\ x.phase = "collecting"
      /\ x.winner = Current(r).winner
      /\ Submitted(x) = Submitted(Current(r)) \cup {target}
  BY <1>1, CountAdded
<1> HIDE DEF s, x
<1>4. /\ IsRoom(s) /\ Ordered(s) /\ Last(s) = Last(r) /\ Current(s) = x
  BY <1>1, <1>3, OpenRoundChanged DEF GoodRoom
<1>5. Submitted(Current(s)) \cup {Current(s).winner} \subseteq Player
  BY <1>1, <1>3, <1>4 DEF GoodRoom, Finishable, IsRoom, Submitted
<1>6. s.status = "in_progress" /\ InPhase(s, "collecting")
  BY <1>1, <1>3, <1>4 DEF SameTable, InPhase
<1>7. Billed(RoundResolved(s))
  BY <1>2, <1>4, <1>5, <1>6, ResolvedBilled
<1> QED
  BY <1>2, <1>7 DEF DoSubmit, s

(* Before the game everyone's balance is zero: joining, leaving and starting keep it. *)
LEMMA LobbyBilled ==
    ASSUME IInv, Billed(room), LobbyStep
    PROVE  Billed(room')
<1>1. GoodRoom(room) /\ IsRoom(room) /\ room.status = "lobby" /\ room.rounds = << >>
  BY DEF IInv, GoodRoom, Ordered, LobbyStep, Join, AddGuest, RemoveGuest, Leave, Disband, Start,
         CanJoin, CanAddGuest, CanRemoveGuest, CanLeave, CanDisband, CanStart
<1>2. \A p \in DOMAIN room.balances : room.balances[p] = 0
  <2>1. Last(room) = 0
    BY <1>1 DEF Last
  <2>2. ASSUME NEW p
        PROVE  Charged(room, p) = 0
    <3> DEFINE f == [i \in 1 .. 0 |-> LogNet(room, i, p)]
    <3>1. Charged(room, p) = SumFunctionOnSet(f, 1 .. 0) /\ 1 .. 0 = {}
      BY <2>1 DEF Charged, SumFunction
    <3> HIDE DEF f
    <3> QED
      BY <3>1, SumOfNone
  <2> QED
    BY <2>2 DEF Billed
<1>3. room'.rounds = << >> \/ room'.rounds = <<FreshRound(1)>>
  BY <1>1
  DEF IsRoom, LobbyStep, Join, AddGuest, RemoveGuest, Leave, Disband, Start,
      PlayerJoined, PlayerLeft, RoomDisbanded, GameStarted
<1>4. \A p \in DOMAIN room'.balances : room'.balances[p] = 0
  <2>1. \/ room'.balances = room.balances
        \/ \E p : room'.balances = With(room.balances, p, 0)
        \/ \E p : room'.balances = Without(room.balances, p)
    BY <1>1
    DEF IsRoom, LobbyStep, Join, AddGuest, RemoveGuest, Leave, Disband, Start,
        PlayerJoined, PlayerLeft, RoomDisbanded, GameStarted
  <2> QED
    BY <1>2, <2>1 DEF With, Without
<1> QED
  BY <1>3, <1>4, NothingBilled

LEMMA GameBilled ==
    ASSUME IInv, ClaimsApart(room), Billed(room), GameStep
    PROVE  Billed(room')
<1> SUFFICES ASSUME GoodRoom(room), NEW p \in Player,
                    \/ ClaimWin(p) \/ AddSpecial(p) \/ VoidSpecial(p)
                    \/ VoidLastRound(p) \/ StepOut(p) \/ EndGame(p)
                    \/ \E cards \in CardInputs : SubmitCards(p, cards)
                    \/ \E target \in Player, cards \in CardInputs : SubmitFor(p, target, cards)
             PROVE  Billed(room')
  BY DEF IInv, GameStep
<1>1. CASE ClaimWin(p)
  BY <1>1, ClaimedBilled DEF ClaimWin
<1>2. CASE AddSpecial(p)
  BY <1>2, SpecialBilled DEF AddSpecial
<1>3. CASE VoidSpecial(p)
  BY <1>3, SpecialVoidedBilled DEF VoidSpecial
<1>4. CASE VoidLastRound(p)
  BY <1>4, RoundVoidBilled DEF VoidLastRound
<1>5. CASE StepOut(p)
  BY <1>5, StepOutBilled DEF StepOut
<1>6. CASE EndGame(p)
  BY <1>6, EndedBilled DEF EndGame, CanEnd, GoodRoom
<1>7. ASSUME NEW cards \in CardInputs, SubmitCards(p, cards)
      PROVE  Billed(room')
  BY <1>7, SubmitBilled, InputAssumption DEF SubmitCards
<1>8. ASSUME NEW target \in Player, NEW cards \in CardInputs, SubmitFor(p, target, cards)
      PROVE  Billed(room')
  BY <1>8, SubmitBilled, InputAssumption DEF SubmitFor, CanSubmitFor
<1> QED
  BY <1>1, <1>2, <1>3, <1>4, <1>5, <1>6, <1>7, <1>8

(* The balances are the sum of what the rounds charged, at every step of the game. *)
LEMMA MoneyKept == Spec => [](Billed(room) /\ ClaimsApart(room))
<1> DEFINE Money == Billed(room) /\ ClaimsApart(room)
<1>1. Init => Money
  <2> SUFFICES ASSUME NEW host \in Account, room = NewRoom(host) PROVE Money
    BY DEF Init
  <2>1. room.rounds = << >> /\ \A p \in DOMAIN room.balances : room.balances[p] = 0
    BY DEF NewRoom
  <2>2. Billed(room)
    BY <2>1, NothingBilled
  <2>3. ClaimsApart(room)
    BY <2>1 DEF ClaimsApart, Last
  <2> QED
    BY <2>2, <2>3
<1>2. IInv /\ Money /\ [Next]_room => Money'
  <2> SUFFICES ASSUME IInv, Money, [Next]_room PROVE Money'
    OBVIOUS
  <2>1. CASE LobbyStep \/ GameStep
    BY <2>1, LobbyStands, GameStands, LobbyBilled, GameBilled
  <2>2. CASE room' = room
    BY <2>2
  <2> QED
    BY <2>1, <2>2 DEF Next, Command
<1> QED
  BY <1>1, <1>2, Inductive, PTL DEF Spec

(* A round the log leaves out has charged nobody. *)
LEMMA BilledIsLogged == IInv /\ Billed(room) => LogExplainsBalances
<1> SUFFICES ASSUME IInv, Billed(room) PROVE LogExplainsBalances
  OBVIOUS
<1> SUFFICES ASSUME NEW p \in DOMAIN room.balances
             PROVE  room.balances[p] =
                        SumFunction([i \in Played(room) |-> LogNet(room, i, p)])
  BY DEF LogExplainsBalances
<1> DEFINE all == 1 .. Last(room)
           f == [i \in all |-> LogNet(room, i, p)]
           e == [i \in Played(room) |-> LogNet(room, i, p)]
<1>1. room.rounds \in Seq(RoundState)
  BY DEF IInv, GoodRoom, IsRoom
<1>2. Last(room) \in Nat /\ \A i \in 1 .. Last(room) : LogNet(room, i, p) \in Int
  BY <1>1, BilledTypes
<1>3. Played(room) \in SUBSET all
  BY DEF Played
<1>4. \A i \in all \ Played(room) : f[i] = 0
  BY NetNone DEF Played, LogNet
<1>5. /\ \A i \in Played(room) : f[i] \in Int /\ f[i] = e[i]
  BY <1>2, <1>3
<1>6. room.balances[p] = SumFunctionOnSet(f, all)
  BY DEF Billed, Charged, SumFunction
<1>7. SumFunction(e) = SumFunctionOnSet(e, Played(room))
  BY DEF SumFunction
<1>8. IsFiniteSet(all) /\ IsFiniteSet(Played(room))
  <2>1. 1 \in Int /\ Last(room) \in Int
    BY <1>2
  <2>2. IsFiniteSet(all)
    BY <2>1, FS_Interval
  <2> QED
    BY <1>3, <2>2, FS_Subset
<1> HIDE DEF all, f, e
<1>9. SumFunctionOnSet(f, all) = SumFunctionOnSet(f, Played(room))
  BY <1>3, <1>4, <1>5, <1>8, SumOfPart
<1>10. SumFunctionOnSet(f, Played(room)) = SumFunctionOnSet(e, Played(room))
  BY <1>5, <1>8, SumOfSame
<1>11. room.balances[p] = SumFunction(e)
  BY <1>6, <1>7, <1>9, <1>10
<1> QED
  BY <1>11 DEF e

(* The amounts of the rounds the log lists add up to the balance on the screen. *)
THEOREM LogIsExact == Spec => []LogExplainsBalances
BY BilledIsLogged, Inductive, MoneyKept, PTL

\* The balances are a map from players to amounts, whatever the amounts.
AreAmounts(f) == f = [p \in DOMAIN f |-> f[p]]

(* Every event that touches the balances makes a new map of them. *)
LEMMA MovedAmounts ==
    ASSUME NEW f, NEW T
    PROVE  AreAmounts(Moved(f, T)) /\ AreAmounts(Reversed(f, T))
BY DEF AreAmounts, Moved, Reversed

LEMMA SeatedAmounts ==
    ASSUME NEW f, NEW p, NEW v
    PROVE  AreAmounts(With(f, p, v)) /\ AreAmounts(Without(f, p))
BY DEF AreAmounts, With, Without

LEMMA EndedAmounts ==
    ASSUME NEW r, "balances" \in DOMAIN r, AreAmounts(r.balances)
    PROVE  AreAmounts(GameEnded(r).balances)
BY DEF GameEnded

LEMMA StepOutAmounts ==
    ASSUME NEW r, IsRoom(r), AreAmounts(r.balances), NEW p
    PROVE  AreAmounts(DoStepOut(r, p).balances)
<1> DEFINE opened == IF InPhase(r, "collecting")
                     THEN RoundVoided(r, Current(r).round_no) ELSE r
           gone == PlayerSteppedOut(opened, p)
<1>1. "balances" \in DOMAIN opened /\ AreAmounts(opened.balances)
  BY MovedAmounts DEF RoundVoided, IsRoom
<1> HIDE DEF opened
<1>2. "balances" \in DOMAIN gone /\ AreAmounts(gone.balances)
  BY <1>1 DEF PlayerSteppedOut
<1> HIDE DEF gone
<1>3. AreAmounts(GameEnded(gone).balances)
  BY <1>2, EndedAmounts
<1>4. DoStepOut(r, p) \in {GameEnded(gone), gone}
  BY DEF DoStepOut, gone, opened
<1> QED
  BY <1>2, <1>3, <1>4

LEMMA SubmitAmounts ==
    ASSUME NEW r, IsRoom(r), AreAmounts(r.balances), NEW p, NEW cards
    PROVE  AreAmounts(DoSubmit(r, p, cards).balances)
<1> DEFINE s == CardsSubmitted(r, p, cards)
<1>1. "balances" \in DOMAIN s /\ "rounds" \in DOMAIN s /\ AreAmounts(s.balances)
  BY DEF CardsSubmitted, IsRoom
<1>2. AreAmounts(RoundResolved(s).balances)
  <2> HIDE DEF s
  <2> QED
    BY <1>1, MovedAmounts DEF RoundResolved
<1> QED
  BY <1>1, <1>2 DEF DoSubmit

LEMMA StepAmounts ==
    ASSUME IsRoom(room), AreAmounts(room.balances), LobbyStep \/ GameStep
    PROVE  AreAmounts(room'.balances)
<1>1. CASE LobbyStep
  <2>1. \/ room'.balances = room.balances
        \/ \E p : room'.balances = With(room.balances, p, 0)
        \/ \E p : room'.balances = Without(room.balances, p)
    BY <1>1
    DEF IsRoom, LobbyStep, Join, AddGuest, RemoveGuest, Leave, Disband, Start,
        PlayerJoined, PlayerLeft, RoomDisbanded, GameStarted
  <2> QED
    BY <2>1, SeatedAmounts
<1>2. CASE GameStep
  <2> SUFFICES ASSUME NEW p \in Player,
                      \/ ClaimWin(p) \/ AddSpecial(p) \/ VoidSpecial(p)
                      \/ VoidLastRound(p) \/ StepOut(p) \/ EndGame(p)
                      \/ \E cards \in CardInputs : SubmitCards(p, cards)
                      \/ \E target \in Player, cards \in CardInputs : SubmitFor(p, target, cards)
               PROVE  AreAmounts(room'.balances)
    BY <1>2 DEF GameStep
  <2>1. CASE ClaimWin(p)
    BY <2>1 DEF ClaimWin, WinClaimed, IsRoom
  <2>2. CASE AddSpecial(p)
    BY <2>2, MovedAmounts DEF AddSpecial, SpecialHand, IsRoom
  <2>3. CASE VoidSpecial(p)
    BY <2>3, MovedAmounts DEF VoidSpecial, SpecialHandVoided, IsRoom
  <2>4. CASE VoidLastRound(p)
    BY <2>4, MovedAmounts DEF VoidLastRound, DoVoidRound, RoundVoided, IsRoom
  <2>5. CASE StepOut(p)
    BY <2>5, StepOutAmounts DEF StepOut
  <2>6. CASE EndGame(p)
    BY <2>6, EndedAmounts DEF EndGame, IsRoom
  <2>7. CASE \E cards \in CardInputs : SubmitCards(p, cards)
    BY <2>7, SubmitAmounts DEF SubmitCards
  <2>8. CASE \E target \in Player, cards \in CardInputs : SubmitFor(p, target, cards)
    BY <2>8, SubmitAmounts DEF SubmitFor
  <2> QED
    BY <2>1, <2>2, <2>3, <2>4, <2>5, <2>6, <2>7, <2>8
<1> QED
  BY <1>1, <1>2

(* The types of the room, the amounts of money included. *)
THEOREM TypeCorrect == Spec => []TypeOK
<1> DEFINE Amounts == AreAmounts(room.balances)
<1>1. Init => Amounts
  <2> SUFFICES ASSUME NEW host \in Account, room = NewRoom(host) PROVE Amounts
    BY DEF Init
  <2> QED
    BY DEF NewRoom, AreAmounts
<1>2. IInv /\ Amounts /\ [Next]_room => Amounts'
  <2> SUFFICES ASSUME IInv, Amounts, [Next]_room PROVE Amounts'
    OBVIOUS
  <2>1. CASE LobbyStep \/ GameStep
    BY <2>1, StepAmounts DEF IInv, GoodRoom
  <2>2. CASE room' = room
    BY <2>2
  <2> QED
    BY <2>1, <2>2 DEF Next, Command
<1>3. IInv /\ Billed(room) /\ Amounts => TypeOK
  <2> SUFFICES ASSUME IInv, Billed(room), Amounts PROVE TypeOK
    OBVIOUS
  <2>1. IsRoom(room) /\ room.rounds \in Seq(RoundState)
    BY DEF IInv, GoodRoom, IsRoom
  <2>2. \A p \in DOMAIN room.balances : room.balances[p] \in Int
    BY <2>1, BalancesAreInts
  <2>3. room.balances \in [DOMAIN room.balances -> Int]
    BY <2>2 DEF AreAmounts
  <2> QED
    BY <2>1, <2>3 DEF TypeOK
<1> QED
  BY <1>1, <1>2, <1>3, Inductive, MoneyKept, PTL DEF Spec

-----------------------------------------------------------------------------
(* Nothing is lost or made: the balances of everyone who played add up to   *)
(* nothing, because every payment is between two of them.                   *)

LEMMA TotalOfOne == ASSUME NEW t, t.amount_cents \in Int PROVE Total({t}) = t.amount_cents
<1> DEFINE f == [u \in {t} |-> u.amount_cents]
<1>1. Total({t}) = SumFunctionOnSet(f, {t})
  BY DEF Total, SumFunction
<1>2. f[t] = t.amount_cents /\ t \in {t} /\ \A u \in {t} : u = t
  OBVIOUS
<1> HIDE DEF f
<1>3. IsFiniteSet({t})
  BY FS_Singleton
<1>4. SumFunctionOnSet(f, {t}) = f[t]
  BY <1>2, <1>3, SumOfOneTerm
<1> QED
  BY <1>1, <1>2, <1>4

LEMMA TotalOfNone == Total({}) = 0
<1> DEFINE f == [t \in {} |-> t.amount_cents]
<1>1. Total({}) = SumFunctionOnSet(f, {})
  BY DEF Total, SumFunction
<1> QED
  BY <1>1, SumOfNone

(* What one payment brings one player it costs another. *)
LEMMA OnePaymentCancels ==
    ASSUME NEW D, IsFiniteSet(D), NEW t, t.amount_cents \in Int,
           t.from_player \in D, t.to_player \in D
    PROVE  /\ SumFunctionOnSet([p \in D |-> Net({t}, p)], D) = 0
           /\ \A p \in D : Net({t}, p) \in Int
<1> DEFINE a == t.amount_cents
           f == [p \in D |-> IF p = t.to_player THEN a ELSE 0]
           g == [p \in D |-> IF p = t.from_player THEN -a ELSE 0]
           h == [p \in D |-> Net({t}, p)]
<1>1. ASSUME NEW p \in D
      PROVE  f[p] \in Int /\ g[p] \in Int /\ h[p] = f[p] + g[p] /\ h[p] = Net({t}, p)
  <2>1. Total({u \in {t} : u.to_player = p}) = f[p]
    <3>1. CASE t.to_player = p
      <4>1. {u \in {t} : u.to_player = p} = {t}
        BY <3>1
      <4> QED
        BY <3>1, <4>1, TotalOfOne
    <3>2. CASE t.to_player # p
      <4>1. {u \in {t} : u.to_player = p} = {}
        BY <3>2
      <4> QED
        BY <3>2, <4>1, TotalOfNone
    <3> QED
      BY <3>1, <3>2
  <2>2. Total({u \in {t} : u.from_player = p}) = 0 - g[p]
    <3>1. CASE t.from_player = p
      <4>1. {u \in {t} : u.from_player = p} = {t}
        BY <3>1
      <4> QED
        BY <3>1, <4>1, TotalOfOne
    <3>2. CASE t.from_player # p
      <4>1. {u \in {t} : u.from_player = p} = {}
        BY <3>2
      <4> QED
        BY <3>2, <4>1, TotalOfNone
    <3> QED
      BY <3>1, <3>2
  <2>3. f[p] \in Int /\ g[p] \in Int /\ h[p] = Net({t}, p)
    OBVIOUS
  <2> HIDE DEF f, g, h
  <2> QED
    BY <2>1, <2>2, <2>3 DEF Net
<1>2. f[t.to_player] = a /\ \A p \in D : p # t.to_player => f[p] = 0
  OBVIOUS
<1>3. g[t.from_player] = 0 - a /\ \A p \in D : p # t.from_player => g[p] = 0
  OBVIOUS
<1> HIDE DEF f, g, h, a
<1>4. a \in Int
  BY DEF a
<1>5. SumFunctionOnSet(f, D) = a
  BY <1>2, <1>4, SumOfOneTerm
<1>6. SumFunctionOnSet(g, D) = 0 - a
  BY <1>3, <1>4, SumOfOneTerm
<1>7. SumFunctionOnSet(h, D) = SumFunctionOnSet(f, D) + SumFunctionOnSet(g, D)
  BY <1>1, SumOfSums
<1>8. SumFunctionOnSet(h, D) = 0 /\ \A p \in D : Net({t}, p) \in Int
  <2>1. SumFunctionOnSet(h, D) = 0
    BY <1>4, <1>5, <1>6, <1>7
  <2>2. ASSUME NEW p \in D
        PROVE  Net({t}, p) \in Int
    <3>1. f[p] \in Int /\ g[p] \in Int /\ h[p] = f[p] + g[p] /\ h[p] = Net({t}, p)
      BY <1>1
    <3> QED
      BY <3>1
  <2> QED
    BY <2>1, <2>2
<1> QED
  BY <1>8 DEF h

(* So do any payments between the players. *)
LEMMA NetsCancel ==
    ASSUME NEW D, IsFiniteSet(D), NEW T \in SUBSET Payments(Player), IsFiniteSet(T),
           \A t \in T : t.from_player \in D /\ t.to_player \in D
    PROVE  SumFunctionOnSet([p \in D |-> Net(T, p)], D) = 0
<1> DEFINE nets(U) == [p \in D |-> Net(U, p)]
           Good == {U \in SUBSET T : SumFunctionOnSet(nets(U), D) = 0}
<1>1. {} \in Good
  <2> DEFINE f == nets({})
  <2>1. \A p \in D : f[p] = 0
    BY NetNone
  <2> HIDE DEF f
  <2>2. SumFunctionOnSet(f, D) = 0
    BY <2>1, SumOfZeros
  <2> QED
    BY <2>2 DEF f
<1>2. ASSUME NEW U \in SUBSET T, U # {}, \A t \in U : U \ {t} \in Good
      PROVE  U \in Good
  <2>1. PICK t \in U : TRUE
    BY <1>2
  <2> DEFINE rest == U \ {t}
             f == nets(rest)
             g == nets({t})
             h == nets(U)
  <2>2. /\ rest \in SUBSET Payments(Player) /\ {t} \in SUBSET Payments(Player)
        /\ rest \cap {t} = {} /\ rest \cup {t} = U
    BY <2>1
  <2>3. IsFiniteSet(rest) /\ IsFiniteSet({t})
    BY FS_Subset, FS_Singleton
  <2>4. SumFunctionOnSet(f, D) = 0
    BY <1>2, <2>1
  <2>5. /\ t.amount_cents \in Int /\ t.from_player \in D /\ t.to_player \in D
    BY <2>1 DEF Payments
  <2>6. SumFunctionOnSet(g, D) = 0
    BY <2>5, OnePaymentCancels
  <2>7. \A p \in D : f[p] = Net(rest, p) /\ g[p] = Net({t}, p) /\ h[p] = Net(U, p)
    OBVIOUS
  <2> HIDE DEF rest, f, g, h
  <2>8. ASSUME NEW p \in D
        PROVE  f[p] \in Int /\ g[p] \in Int /\ h[p] = f[p] + g[p]
    <3>1. /\ Net(rest \cup {t}, p) = Net(rest, p) + Net({t}, p)
          /\ Net(rest, p) \in Int /\ Net({t}, p) \in Int
      BY <2>2, <2>3, NetParts
    <3> QED
      BY <2>2, <2>7, <3>1
  <2>9. SumFunctionOnSet(h, D) = 0
    <3>1. SumFunctionOnSet(h, D) = SumFunctionOnSet(f, D) + SumFunctionOnSet(g, D)
      BY <2>8, SumOfSums
    <3> QED
      BY <2>4, <2>6, <3>1
  <2> QED
    BY <2>9 DEF h
<1> HIDE DEF Good
<1>3. SUBSET T \subseteq Good
  BY <1>1, <1>2, SubsetInduction
<1>4. T \in Good
  BY <1>3
<1> QED
  BY <1>4 DEF Good

\* Every payment is between two players who have a balance.
AmongPlayers(r) ==
    \A i \in 1 .. Last(r) : \A t \in r.rounds[i].transfers :
        {t.from_player, t.to_player} \subseteq DOMAIN r.balances

(* What the rounds charge cancels round by round. *)
LEMMA BalancesCancel ==
    ASSUME NEW r, IsRoom(r), Billed(r), AmongPlayers(r)
    PROVE  SumFunction(r.balances) = 0
<1> DEFINE D == DOMAIN r.balances
           n == Last(r)
           log(p) == [i \in 1 .. n |-> LogNet(r, i, p)]
           sums(I) == [p \in D |-> SumFunctionOnSet(log(p), I)]
           Good == {I \in SUBSET (1 .. n) : SumFunctionOnSet(sums(I), D) = 0}
<1>1. IsFiniteSet(D)
  BY FS_Subset, PlayerAssumption DEF IsRoom
<1>2. /\ n \in Nat
      /\ \A i \in 1 .. n : /\ r.rounds[i].transfers \in SUBSET Payments(Player)
                           /\ IsFiniteSet(r.rounds[i].transfers)
                           /\ \A p : LogNet(r, i, p) \in Int
  BY BilledTypes DEF IsRoom
<1>3. IsFiniteSet(1 .. n)
  <2>1. 1 \in Int /\ n \in Int
    BY <1>2
  <2> HIDE DEF n
  <2> QED
    BY <2>1, FS_Interval
<1>4. {} \in Good
  <2> DEFINE f == sums({})
  <2>1. \A p \in D : f[p] = 0
    BY SumOfNone
  <2> HIDE DEF f, D
  <2>2. SumFunctionOnSet(f, D) = 0
    BY <1>1, <2>1, SumOfZeros
  <2> QED
    BY <2>2 DEF f
<1>5. ASSUME NEW I \in SUBSET (1 .. n), I # {}, \A i \in I : I \ {i} \in Good
      PROVE  I \in Good
  <2>1. PICK i \in I : TRUE
    BY <1>5
  <2> DEFINE f == sums(I \ {i})
             g == [p \in D |-> Net(r.rounds[i].transfers, p)]
             h == sums(I)
  <2>2. SumFunctionOnSet(f, D) = 0
    BY <1>5, <2>1
  <2>3. SumFunctionOnSet(g, D) = 0
    <3>1. /\ r.rounds[i].transfers \in SUBSET Payments(Player)
          /\ IsFiniteSet(r.rounds[i].transfers)
          /\ \A t \in r.rounds[i].transfers : t.from_player \in D /\ t.to_player \in D
      BY <1>2, <2>1 DEF AmongPlayers
    <3> HIDE DEF D
    <3> QED
      BY <1>1, <3>1, NetsCancel
  <2>4. ASSUME NEW p \in D
        PROVE  f[p] \in Int /\ g[p] \in Int /\ h[p] = f[p] + g[p]
    <3> DEFINE e == log(p)
    <3>1. \A j \in I : e[j] \in Int
      BY <1>2
    <3>2. e[i] = Net(r.rounds[i].transfers, p)
      BY <2>1 DEF LogNet
    <3>3. f[p] = SumFunctionOnSet(e, I \ {i}) /\ g[p] = e[i] /\ h[p] = SumFunctionOnSet(e, I)
      BY <3>2
    <3>4. IsFiniteSet(I)
      BY <1>3, FS_Subset
    <3>5. e[i] \in Int
      BY <2>1, <3>1
    <3> HIDE DEF e, f, g, h
    <3>6. /\ SumFunctionOnSet(e, I) = e[i] + SumFunctionOnSet(e, I \ {i})
          /\ SumFunctionOnSet(e, I \ {i}) \in Int
      BY <2>1, <3>1, <3>4, SumTakenOut
    <3> QED
      BY <3>3, <3>5, <3>6
  <2> HIDE DEF f, g, h, D
  <2>5. SumFunctionOnSet(h, D) = SumFunctionOnSet(f, D) + SumFunctionOnSet(g, D)
    BY <1>1, <2>4, SumOfSums
  <2>6. SumFunctionOnSet(h, D) = 0
    BY <2>2, <2>3, <2>5
  <2> QED
    BY <2>6 DEF h
<1> HIDE DEF Good
<1>6. SUBSET (1 .. n) \subseteq Good
  <2> DEFINE S == 1 .. n
  <2>1. \A I \in SUBSET S : I # {} /\ (\A i \in I : I \ {i} \in Good) => I \in Good
    BY <1>5
  <2>2. IsFiniteSet(S)
    BY <1>3
  <2> HIDE DEF S
  <2>3. SUBSET S \subseteq Good
    BY <1>4, <2>1, <2>2, SubsetInduction
  <2> QED
    BY <2>3 DEF S
<1>7. SumFunctionOnSet(sums(1 .. n), D) = 0
  <2>1. 1 .. n \in Good
    BY <1>6
  <2> QED
    BY <2>1 DEF Good
<1>8. \A p \in D : r.balances[p] = sums(1 .. n)[p] /\ r.balances[p] \in Int
  BY BalancesAreInts DEF Billed, Charged, SumFunction, IsRoom
<1>9. SumFunctionOnSet(r.balances, D) = SumFunctionOnSet(sums(1 .. n), D)
  <2> DEFINE b == r.balances
             f == sums(1 .. n)
  <2>1. \A p \in D : b[p] \in Int /\ b[p] = f[p]
    BY <1>8
  <2> HIDE DEF b, f, D
  <2>2. SumFunctionOnSet(b, D) = SumFunctionOnSet(f, D)
    BY <1>1, <2>1, SumOfSame
  <2> QED
    BY <2>2 DEF b, f
<1> QED
  BY <1>7, <1>9 DEF SumFunction

(* Playing does not change who has a balance: joining and leaving are over. *)
LEMMA SamePlayers ==
    ASSUME IInv, GameStep
    PROVE  DOMAIN room'.balances = DOMAIN room.balances
<1> SUFFICES ASSUME IsRoom(room), NEW p \in Player,
                    \/ ClaimWin(p) \/ AddSpecial(p) \/ VoidSpecial(p)
                    \/ VoidLastRound(p) \/ StepOut(p) \/ EndGame(p)
                    \/ \E cards \in CardInputs : SubmitCards(p, cards)
                    \/ \E target \in Player, cards \in CardInputs : SubmitFor(p, target, cards)
             PROVE  DOMAIN room'.balances = DOMAIN room.balances
  BY DEF IInv, GoodRoom, GameStep
<1>1. CASE ClaimWin(p)
  BY <1>1 DEF ClaimWin, WinClaimed, IsRoom
<1>2. CASE AddSpecial(p)
  BY <1>2 DEF AddSpecial, SpecialHand, IsRoom, Moved
<1>3. CASE VoidSpecial(p)
  BY <1>3 DEF VoidSpecial, SpecialHandVoided, IsRoom, Reversed
<1>4. CASE VoidLastRound(p)
  BY <1>4 DEF VoidLastRound, DoVoidRound, RoundVoided, IsRoom, Reversed
<1>5. CASE StepOut(p)
  <2> DEFINE opened == IF InPhase(room, "collecting")
                       THEN RoundVoided(room, Current(room).round_no) ELSE room
             gone == PlayerSteppedOut(opened, p)
  <2>1. "balances" \in DOMAIN opened /\ DOMAIN opened.balances = DOMAIN room.balances
    BY DEF RoundVoided, IsRoom, Reversed
  <2> HIDE DEF opened
  <2>2. "balances" \in DOMAIN gone /\ gone.balances = opened.balances
    BY <2>1 DEF PlayerSteppedOut
  <2>3. room' \in {GameEnded(gone), gone}
    BY <1>5 DEF StepOut, DoStepOut, opened
  <2> HIDE DEF gone
  <2>4. GameEnded(gone).balances = gone.balances
    BY <2>2 DEF GameEnded
  <2> QED
    BY <2>1, <2>2, <2>3, <2>4
<1>6. CASE EndGame(p)
  BY <1>6 DEF EndGame, GameEnded, IsRoom
<1>7. ASSUME NEW target, NEW cards, room' = DoSubmit(room, target, cards)
      PROVE  DOMAIN room'.balances = DOMAIN room.balances
  <2> DEFINE s == CardsSubmitted(room, target, cards)
  <2>1. "balances" \in DOMAIN s /\ "rounds" \in DOMAIN s /\ s.balances = room.balances
    BY DEF CardsSubmitted, IsRoom
  <2>2. room' \in {s, RoundResolved(s)}
    BY <1>7 DEF DoSubmit
  <2> HIDE DEF s
  <2>3. DOMAIN RoundResolved(s).balances = DOMAIN s.balances
    BY <2>1 DEF RoundResolved, Moved
  <2> QED
    BY <2>1, <2>2, <2>3
<1> QED
  BY <1>1, <1>2, <1>3, <1>4, <1>5, <1>6, <1>7 DEF SubmitCards, SubmitFor

(* Only players at the table are charged or paid, so every payment stays among players. *)
LEMMA StaysAmong ==
    ASSUME IInv, ClaimsApart(room), AmongPlayers(room), Command
    PROVE  AmongPlayers(room')
<1>1. CASE LobbyStep
  <2>1. room.rounds = << >> /\ IsRoom(room)
    BY <1>1 DEF IInv, GoodRoom, Ordered, LobbyStep, Join, AddGuest, RemoveGuest, Leave, Disband,
                Start, CanJoin, CanAddGuest, CanRemoveGuest, CanLeave, CanDisband, CanStart
  <2>2. room'.rounds = << >> \/ room'.rounds = <<FreshRound(1)>>
    BY <1>1, <2>1
    DEF IsRoom, LobbyStep, Join, AddGuest, RemoveGuest, Leave, Disband, Start,
        PlayerJoined, PlayerLeft, RoomDisbanded, GameStarted
  <2> QED
    BY <2>2 DEF AmongPlayers, Last, FreshRound
<1>2. CASE GameStep
  <2>1. DOMAIN room'.balances = DOMAIN room.balances
    BY <1>2, SamePlayers
  <2>2. StepStands(room, room')
    BY <1>2, GameStands
  <2>3. \A t \in AllPayments(room) : {t.from_player, t.to_player} \subseteq DOMAIN room.balances
    BY DEF AmongPlayers, AllPayments
  <2>4. \A t \in AllPayments(room') :
            t \in AllPayments(room) \/ {t.from_player, t.to_player} \subseteq AtTheTable(room)
    BY <2>2 DEF StepStands, LedgerStands
  <2>5. \A t \in AllPayments(room') :
            {t.from_player, t.to_player} \subseteq DOMAIN room'.balances
    BY <2>1, <2>3, <2>4 DEF AtTheTable
  <2> QED
    BY <2>5, InSomeRound DEF AmongPlayers
<1> QED
  BY <1>1, <1>2 DEF Command

(* The balances of everyone who played add up to nothing, those who stepped out included: *)
(* what a settlement may rely on.                                                         *)
THEOREM NothingLostOrMade == Spec => [](SumFunction(room.balances) = 0)
<1> DEFINE Among == AmongPlayers(room)
<1>1. Init => Among
  BY DEF Init, NewRoom, AmongPlayers, Last
<1>2. IInv /\ ClaimsApart(room) /\ Among /\ [Next]_room => Among'
  <2> SUFFICES ASSUME IInv, ClaimsApart(room), Among, [Next]_room PROVE Among'
    OBVIOUS
  <2>1. CASE Command
    BY <2>1, StaysAmong
  <2>2. CASE room' = room
    BY <2>2
  <2> QED
    BY <2>1, <2>2 DEF Next
<1>3. IInv /\ Billed(room) /\ Among => SumFunction(room.balances) = 0
  BY BalancesCancel DEF IInv, GoodRoom
<1> QED
  BY <1>1, <1>2, <1>3, Inductive, MoneyKept, PTL DEF Spec

-----------------------------------------------------------------------------
(* Many requests at once.  However many of them race on a room, whatever is *)
(* lost or retried, the stored events are a run of the room machine, so     *)
(* that what is proved of the machine above holds of the room on the        *)
(* server, and commands, conflicts and screens behave as Dispatch states.   *)
(*                                                                          *)
(* The argument: a snapshot with the seq of the room is the room, because   *)
(* every command makes the seq grow; so a commit, which needs equal seqs,   *)
(* applies its command to the room itself.                                  *)

\* A state that was the room before r, or is r.
Known(s, r) == s.seq \in Nat /\ Past(s, r)

\* A command whose arguments come from the input sets.
IsCommand(c) ==
    /\ c.user \in Account /\ c.for \in Player
    /\ c.op = "start" => c.rules \in RuleChoices
    /\ c.op \in {"cards", "submit_for"} => c.cards \in CardInputs
    /\ c.op = "submit_for" => c.target \in Player
    /\ c.op \in {"add_guest", "remove_guest"} => c.target \in Guest

\* A request knows what it was aimed at and, later, a state at least as new; one
\* that is on its second attempt or later lost a race to a newer room.
Sound(q, r) ==
    /\ DOMAIN q = {"cmd", "seen", "retry", "stage", "attempt", "snap", "outcome"}
    /\ IsCommand(q.cmd)
    /\ Known(q.seen, q.snap) /\ Known(q.snap, r)
    /\ q.attempt \in Nat
    /\ q.stage \in {"arrived", "loaded"} => q.outcome = "none"
    /\ q.stage = "arrived" /\ q.attempt > 0 => q.seen.seq < r.seq
    /\ q.outcome = "conflict" => q.seen.seq < q.snap.seq

ScreensKnown ==
    /\ shown \in [Account -> {shown[u] : u \in Account}]
    /\ polled \in [Account -> {polled[u] : u \in Account}]
    /\ \A u \in Account :
        /\ Known(shown[u], room)
        /\ polled[u] # None => Known(polled[u], room)

RequestsSound ==
    /\ reqs \in Seq({reqs[i] : i \in DOMAIN reqs})
    /\ \A i \in 1 .. Len(reqs) : Sound(reqs[i], room)
    /\ \A u \in Account : waiting[u] \in 0 .. Len(reqs)

DInv == GoodRoom(room) /\ ScreensKnown /\ RequestsSound

-----------------------------------------------------------------------------
(* Every command produces events: the seq grows.                           *)

(* Voiding a round, leaving the table and ending the game each take a seq. *)
LEMMA DepartureSeq ==
    ASSUME NEW r, GoodRoom(r), NEW p
    PROVE  DoStepOut(r, p).seq \in Nat /\ DoStepOut(r, p).seq > r.seq
<1> DEFINE opened == IF InPhase(r, "collecting")
                     THEN RoundVoided(r, Current(r).round_no) ELSE r
           gone == PlayerSteppedOut(opened, p)
<1>1. r.seq \in Nat /\ DOMAIN r = {"status", "seq", "host_id", "members", "rules", "rounds",
                                   "balances", "departed"}
  BY DEF GoodRoom, IsRoom
<1>2. DOMAIN opened = DOMAIN r /\ opened.seq \in Nat /\ opened.seq >= r.seq
  BY <1>1 DEF RoundVoided
<1>3. DOMAIN gone = DOMAIN r /\ gone.seq = opened.seq + 1
  <2> HIDE DEF opened
  <2> QED
    BY <1>1, <1>2 DEF PlayerSteppedOut
<1>4. GameEnded(gone).seq = gone.seq + 1
  <2> HIDE DEF gone
  <2> QED
    BY <1>1, <1>3 DEF GameEnded
<1>5. DoStepOut(r, p) \in {gone, GameEnded(gone)}
  BY DEF DoStepOut
<1> HIDE DEF opened, gone
<1> QED
  BY <1>1, <1>2, <1>3, <1>4, <1>5

(* A count takes a seq, and the settlement of the round another. *)
LEMMA SubmitSeq ==
    ASSUME NEW r, GoodRoom(r), NEW target, NEW cards
    PROVE  DoSubmit(r, target, cards).seq \in Nat /\ DoSubmit(r, target, cards).seq > r.seq
<1> DEFINE s == CardsSubmitted(r, target, cards)
<1>1. r.seq \in Nat /\ DOMAIN r = {"status", "seq", "host_id", "members", "rules", "rounds",
                                   "balances", "departed"}
  BY DEF GoodRoom, IsRoom
<1>2. DOMAIN s = DOMAIN r /\ s.seq = r.seq + 1
  BY <1>1 DEF CardsSubmitted
<1>3. RoundResolved(s).seq = s.seq + 1
  <2> HIDE DEF s
  <2> QED
    BY <1>1, <1>2 DEF RoundResolved
<1>4. DoSubmit(r, target, cards) \in {s, RoundResolved(s)}
  BY DEF DoSubmit
<1> HIDE DEF s
<1> QED
  BY <1>1, <1>2, <1>3, <1>4

(* No command leaves the seq where it was. *)
LEMMA CommandSeq ==
    ASSUME GoodRoom(room), Command
    PROVE  room'.seq \in Nat /\ room'.seq > room.seq
<1>1. /\ room.seq \in Nat
      /\ DOMAIN room = {"status", "seq", "host_id", "members", "rules", "rounds",
                        "balances", "departed"}
  BY DEF GoodRoom, IsRoom
<1>2. CASE LobbyStep
  <2>1. \A p, rules : /\ PlayerJoined(room, p).seq = room.seq + 1
                     /\ PlayerLeft(room, p).seq = room.seq + 1
                     /\ RoomDisbanded(room).seq = room.seq + 1
                     /\ GameStarted(room, rules).seq = room.seq + 1
    BY <1>1 DEF PlayerJoined, PlayerLeft, RoomDisbanded, GameStarted
  <2>2. room'.seq = room.seq + 1
    BY <1>2, <2>1 DEF LobbyStep, Join, AddGuest, RemoveGuest, Leave, Disband, Start
  <2> QED
    BY <1>1, <2>2
<1>3. CASE GameStep
  <2>1. PICK p \in Player :
            \/ ClaimWin(p) \/ AddSpecial(p) \/ VoidSpecial(p)
            \/ VoidLastRound(p) \/ StepOut(p) \/ EndGame(p)
            \/ \E cards \in CardInputs : SubmitCards(p, cards)
            \/ \E target \in Player, cards \in CardInputs : SubmitFor(p, target, cards)
    BY <1>3 DEF GameStep
  <2>2. CASE ClaimWin(p) \/ AddSpecial(p) \/ VoidSpecial(p) \/ VoidLastRound(p) \/ EndGame(p)
    <3>1. /\ WinClaimed(room, p).seq = room.seq + 1
          /\ SpecialHand(room, p).seq = room.seq + 1
          /\ SpecialHandVoided(room, p).seq = room.seq + 1
      BY <1>1 DEF WinClaimed, SpecialHand, SpecialHandVoided
    <3>2. DoVoidRound(room).seq = room.seq + 1 /\ GameEnded(room).seq = room.seq + 1
      BY <1>1 DEF DoVoidRound, RoundVoided, GameEnded
    <3>3. room'.seq = room.seq + 1
      BY <2>2, <3>1, <3>2 DEF ClaimWin, AddSpecial, VoidSpecial, VoidLastRound, EndGame
    <3> QED
      BY <1>1, <3>3
  <2>3. CASE StepOut(p)
    BY <2>3, DepartureSeq DEF StepOut
  <2> QED
    BY <2>1, <2>2, <2>3, SubmitSeq DEF SubmitCards, SubmitFor
<1> QED
  BY <1>2, <1>3 DEF Command

-----------------------------------------------------------------------------
(* Commands as they are sent are commands of the machine.                  *)

(* What a phone can send has its arguments in the input sets. *)
LEMMA SentIsCommand ==
    ASSUME NEW u \in Account, NEW c \in Commands(u)
    PROVE  IsCommand(c)
  BY PlayerAssumption DEF Commands, IsCommand, Account, ProxyOps

(* A command the check lets through, applied to the room, is a step of it. *)
LEMMA AllowedIsCommand ==
    ASSUME NEW c, IsCommand(c), Allowed(room, c), room' = Result(room, c)
    PROVE  Command
<1> USE DEF IsCommand
<1>1. c.user \in Player
  BY DEF Account
<1>2. CASE c.op = "join" /\ CanJoin(room, c.user)
  BY <1>2 DEF Result, Join, LobbyStep, Command
<1>3. CASE c.op = "leave" /\ CanLeave(room, c.user)
  BY <1>1, <1>3 DEF Result, Leave, LobbyStep, Command
<1>4. CASE c.op = "disband" /\ CanDisband(room, c.user)
  BY <1>1, <1>4 DEF Result, Disband, LobbyStep, Command
<1>5. CASE c.op = "start" /\ CanStart(room, c.user)
  BY <1>1, <1>5 DEF Result, Start, LobbyStep, Command
<1>6. CASE c.op = "add_guest" /\ CanAddGuest(room, c.user, c.target)
  BY <1>1, <1>6 DEF Result, AddGuest, LobbyStep, Command
<1>7. CASE c.op = "remove_guest" /\ CanRemoveGuest(room, c.user, c.target)
  BY <1>1, <1>7 DEF Result, RemoveGuest, LobbyStep, Command
<1>8. CASE c.op = "win" /\ CanClaimWin(room, c.for)
  BY <1>8 DEF Result, ClaimWin, GameStep, Command
<1>9. CASE c.op = "cards" /\ CanSubmit(room, c.for, c.for, c.cards)
  BY <1>9 DEF Result, SubmitCards, GameStep, Command
<1>10. CASE c.op = "submit_for" /\ CanSubmitFor(room, c.user, c.target, c.cards)
  BY <1>1, <1>10 DEF Result, SubmitFor, GameStep, Command
<1>11. CASE c.op = "special" /\ CanAddSpecial(room, c.for)
  BY <1>11 DEF Result, AddSpecial, GameStep, Command
<1>12. CASE c.op = "void_special" /\ CanVoidSpecial(room, c.for)
  BY <1>12 DEF Result, VoidSpecial, GameStep, Command
<1>13. CASE c.op = "void" /\ CanVoidRound(room, c.for)
  BY <1>13 DEF Result, VoidLastRound, GameStep, Command
<1>14. CASE c.op = "step_out" /\ CanStepOut(room, c.for)
  BY <1>14 DEF Result, StepOut, GameStep, Command
<1>15. CASE c.op = "end" /\ CanEnd(room, c.user)
  BY <1>1, <1>15 DEF Result, EndGame, GameStep, Command
<1> QED
  BY <1>2, <1>3, <1>4, <1>5, <1>6, <1>7, <1>8, <1>9, <1>10, <1>11, <1>12, <1>13, <1>14, <1>15
  DEF Allowed

-----------------------------------------------------------------------------
(* Known states stay known, and requests stay sound, as the room goes on.  *)

Later(r, s) == s = r \/ (s.seq \in Nat /\ s.seq > r.seq)

(* A state of the past stays one. *)
LEMMA KnownLater ==
    ASSUME NEW s, NEW r, NEW t, r.seq \in Nat, Known(s, r), Later(r, t)
    PROVE  Known(s, t)
  BY DEF Known, Past, Later

(* The same for a request nobody touches. *)
LEMMA SoundLater ==
    ASSUME NEW q, NEW r, NEW t, r.seq \in Nat, Sound(q, r), Later(r, t)
    PROVE  Sound(q, t)
<1>1. Known(q.snap, t)
  BY KnownLater DEF Sound
<1> QED
  BY <1>1 DEF Sound, Later, Known, Past

(* Screens nobody touches. *)
LEMMA ScreensLater ==
    ASSUME GoodRoom(room), ScreensKnown, Later(room, room'), UNCHANGED <<shown, polled>>
    PROVE  ScreensKnown'
<1>1. room.seq \in Nat
  BY DEF GoodRoom, IsRoom
<1> QED
  BY <1>1, KnownLater DEF ScreensKnown

(* Every sequence is one of its own elements. *)
LEMMA OwnElements ==
    ASSUME NEW S, NEW s \in Seq(S)
    PROVE  s \in Seq({s[j] : j \in DOMAIN s})
<1> DEFINE R == {s[j] : j \in DOMAIN s}
<1>1. Len(s) \in Nat /\ s \in [1 .. Len(s) -> S]
  BY LenProperties
<1>2. s \in [1 .. Len(s) -> R]
  BY <1>1
<1> HIDE DEF R
<1> QED
  BY <1>1, <1>2, SeqDef

(* One request rewritten. *)
LEMMA OneRewritten ==
    ASSUME GoodRoom(room), RequestsSound, Later(room, room'),
           NEW i \in 1 .. Len(reqs), NEW q, Sound(q, room'),
           reqs' = [reqs EXCEPT ![i] = q],
           \A u \in Account : waiting'[u] \in 0 .. Len(reqs)
    PROVE  RequestsSound'
<1>1. room.seq \in Nat
  BY DEF GoodRoom, IsRoom
<1>2. DOMAIN reqs = 1 .. Len(reqs) /\ Len(reqs) \in Nat
  BY DEF RequestsSound
<1>3. reqs' \in Seq({reqs'[j] : j \in DOMAIN reqs'}) /\ Len(reqs') = Len(reqs)
  <2> DEFINE S == {reqs[j] : j \in DOMAIN reqs} \cup {q}
  <2>1. reqs \in Seq(S) /\ q \in S
    BY SeqMonotonic DEF RequestsSound
  <2> HIDE DEF S
  <2>2. reqs' \in Seq(S) /\ Len(reqs') = Len(reqs)
    BY <2>1, ExceptSeq
  <2>3. \A s : s \in Seq(S) => s \in Seq({s[j] : j \in DOMAIN s})
    BY OwnElements
  <2> QED
    BY <2>2, <2>3, Zenon
<1>4. ASSUME NEW j \in 1 .. Len(reqs) PROVE Sound(reqs'[j], room')
  <2>1. CASE j = i
    BY <1>2, <2>1
  <2>2. CASE j # i
    BY <1>1, <1>2, <2>2, SoundLater DEF RequestsSound
  <2> QED
    BY <2>1, <2>2
<1> QED
  BY <1>3, <1>4 DEF RequestsSound

(* A state is known when it is the room itself. *)
LEMMA KnownNow ==
    ASSUME NEW r, GoodRoom(r)
    PROVE  Known(r, r)
  BY DEF Known, Past, GoodRoom, IsRoom

-----------------------------------------------------------------------------
(* The server's steps.                                                     *)

LEMMA LoadSafe ==
    ASSUME DInv, NEW i \in 1 .. Len(reqs), Load(i)
    PROVE  DInv'
<1> DEFINE q == [reqs[i] EXCEPT !.stage = "loaded", !.snap = room, !.attempt = @ + 1]
<1>1. /\ reqs[i].stage = "arrived" /\ reqs' = [reqs EXCEPT ![i] = q]
      /\ UNCHANGED <<room, shown, polled, waiting>>
  BY DEF Load
<1>2. Sound(reqs[i], room) /\ GoodRoom(room)
  BY DEF DInv, RequestsSound
<1>3. /\ DOMAIN q = DOMAIN reqs[i] /\ q.cmd = reqs[i].cmd /\ q.seen = reqs[i].seen
      /\ q.attempt = reqs[i].attempt + 1 /\ q.snap = room
      /\ q.stage = "loaded" /\ q.outcome = reqs[i].outcome
  BY <1>2 DEF Sound
<1>4. Known(q.seen, room) /\ Known(room, room)
  BY <1>2, <1>3, KnownNow DEF Sound, Known, Past
<1> HIDE DEF q
<1>5. Sound(q, room')
  BY <1>1, <1>2, <1>3, <1>4 DEF Sound
<1>6. RequestsSound'
  BY <1>1, <1>5, OneRewritten DEF DInv, RequestsSound, Later
<1> QED
  BY <1>1, <1>6, ScreensLater DEF DInv, Later

(* A conflict is noticed only against a newer state than the one aimed at. *)
LEMMA ConflictIsNews ==
    ASSUME NEW q, NEW r, Sound(q, r), SeqConflict(q.snap, q)
    PROVE  q.seen.seq < q.snap.seq
<1>1. q.seen # q.snap
  BY DEF SeqConflict
<1> QED
  BY <1>1 DEF Sound, Known, Past

LEMMA RefuseSafe ==
    ASSUME DInv, NEW i \in 1 .. Len(reqs), Refuse(i)
    PROVE  DInv'
<1> DEFINE v == Verdict(reqs[i].snap, reqs[i])
           q == [reqs[i] EXCEPT !.stage = "done", !.outcome = v, !.snap = reqs[i].snap]
<1>1. reqs' = [reqs EXCEPT ![i] = q] /\ UNCHANGED <<room, shown, polled, waiting>>
  BY DEF Refuse, Finish
<1>2. Sound(reqs[i], room) /\ GoodRoom(room)
  BY DEF DInv, RequestsSound
<1>3. /\ DOMAIN q = DOMAIN reqs[i] /\ q.cmd = reqs[i].cmd /\ q.seen = reqs[i].seen
      /\ q.attempt = reqs[i].attempt /\ q.snap = reqs[i].snap
      /\ q.stage = "done" /\ q.outcome = v
  BY <1>2 DEF Sound
<1>4. v = "conflict" => SeqConflict(reqs[i].snap, reqs[i])
  BY DEF Verdict
<1> HIDE DEF q, v
<1>5. Sound(q, room')
  BY <1>1, <1>2, <1>3, <1>4, ConflictIsNews DEF Sound
<1>6. RequestsSound'
  BY <1>1, <1>5, OneRewritten DEF DInv, RequestsSound, Later
<1> QED
  BY <1>1, <1>6, ScreensLater DEF DInv, Later

(* A commit applies one command to the room itself. *)
LEMMA CommitIsCommand ==
    ASSUME DInv, NEW i \in 1 .. Len(reqs), Commit(i)
    PROVE  /\ reqs[i].snap = room /\ Verdict(room, reqs[i]) = "ok"
           /\ Command /\ GoodRoom(room') /\ Later(room, room')
<1>1. Sound(reqs[i], room) /\ GoodRoom(room)
  BY DEF DInv, RequestsSound
<1>2. reqs[i].snap = room
  BY <1>1 DEF Commit, SeqFree, Sound, Known, Past
<1>3. Verdict(room, reqs[i]) = "ok" /\ room' = Result(room, reqs[i].cmd)
  BY <1>2 DEF Commit, Ready
<1>4. Allowed(room, reqs[i].cmd) /\ IsCommand(reqs[i].cmd)
  BY <1>1, <1>3 DEF Verdict, Sound
<1>5. Command
  BY <1>3, <1>4, AllowedIsCommand
<1>6. GoodRoom(room')
  BY <1>1, <1>5, LobbyGood, GameGood DEF Command, IInv
<1> QED
  BY <1>1, <1>2, <1>3, <1>5, <1>6, CommandSeq DEF Later

LEMMA CommitSafe ==
    ASSUME DInv, NEW i \in 1 .. Len(reqs), Commit(i)
    PROVE  DInv'
<1> DEFINE q == [reqs[i] EXCEPT !.stage = "done", !.outcome = "ok", !.snap = room']
<1>1. reqs' = [reqs EXCEPT ![i] = q] /\ UNCHANGED <<shown, polled, waiting>>
  BY DEF Commit, Finish
<1>2. Sound(reqs[i], room) /\ GoodRoom(room)
  BY DEF DInv, RequestsSound
<1>3. /\ DOMAIN q = DOMAIN reqs[i] /\ q.cmd = reqs[i].cmd /\ q.seen = reqs[i].seen
      /\ q.attempt = reqs[i].attempt /\ q.snap = room'
      /\ q.stage = "done" /\ q.outcome = "ok"
  BY <1>2 DEF Sound
<1>4. reqs[i].snap = room /\ GoodRoom(room') /\ Later(room, room')
  BY CommitIsCommand
<1>5. Known(q.seen, room') /\ Known(room', room')
  BY <1>2, <1>3, <1>4, KnownNow, KnownLater DEF Sound, GoodRoom, IsRoom
<1> HIDE DEF q
<1>6. Sound(q, room')
  BY <1>2, <1>3, <1>4, <1>5 DEF Sound
<1>7. RequestsSound'
  BY <1>1, <1>4, <1>6, OneRewritten DEF DInv, RequestsSound
<1> QED
  BY <1>1, <1>4, <1>7, ScreensLater DEF DInv

LEMMA CollideSafe ==
    ASSUME DInv, NEW i \in 1 .. Len(reqs), Collide(i)
    PROVE  DInv'
<1> DEFINE q == [reqs[i] EXCEPT !.stage = "arrived"]
<1>1. /\ reqs' = [reqs EXCEPT ![i] = q] /\ UNCHANGED <<room, shown, polled, waiting>>
      /\ reqs[i].snap.seq # room.seq /\ reqs[i].stage = "loaded"
  BY DEF Collide, SeqFree, Ready
<1>2. Sound(reqs[i], room) /\ GoodRoom(room)
  BY DEF DInv, RequestsSound
<1>3. /\ DOMAIN q = DOMAIN reqs[i] /\ q.cmd = reqs[i].cmd /\ q.seen = reqs[i].seen
      /\ q.attempt = reqs[i].attempt /\ q.snap = reqs[i].snap
      /\ q.stage = "arrived" /\ q.outcome = "none"
  BY <1>1, <1>2 DEF Sound
<1>4. q.seen.seq < room.seq
  BY <1>1, <1>2, <1>3 DEF Sound, Known, Past, GoodRoom, IsRoom
<1> HIDE DEF q
<1>5. Sound(q, room')
  BY <1>1, <1>2, <1>3, <1>4 DEF Sound
<1>6. RequestsSound'
  BY <1>1, <1>5, OneRewritten DEF DInv, RequestsSound, Later
<1> QED
  BY <1>1, <1>6, ScreensLater DEF DInv, Later

LEMMA GiveUpSafe ==
    ASSUME DInv, NEW i \in 1 .. Len(reqs), GiveUp(i)
    PROVE  DInv'
<1> DEFINE q == [reqs[i] EXCEPT !.stage = "done", !.outcome = "conflict", !.snap = room]
<1>1. /\ reqs' = [reqs EXCEPT ![i] = q] /\ UNCHANGED <<room, shown, polled, waiting>>
      /\ reqs[i].stage = "arrived" /\ reqs[i].attempt = DISPATCH_ATTEMPTS
  BY DEF GiveUp, Finish
<1>2. Sound(reqs[i], room) /\ GoodRoom(room)
  BY DEF DInv, RequestsSound
<1>3. /\ DOMAIN q = DOMAIN reqs[i] /\ q.cmd = reqs[i].cmd /\ q.seen = reqs[i].seen
      /\ q.attempt = reqs[i].attempt /\ q.snap = room
      /\ q.stage = "done" /\ q.outcome = "conflict"
  BY <1>2 DEF Sound
<1>4. q.seen.seq < room.seq
  BY <1>1, <1>2, <1>3, DispatchAssumption DEF Sound
<1>5. Known(q.seen, room) /\ Known(room, room)
  BY <1>2, <1>3, KnownNow DEF Sound, Known, Past
<1> HIDE DEF q
<1>6. Sound(q, room')
  BY <1>1, <1>2, <1>3, <1>4, <1>5 DEF Sound
<1>7. RequestsSound'
  BY <1>1, <1>6, OneRewritten DEF DInv, RequestsSound, Later
<1> QED
  BY <1>1, <1>7, ScreensLater DEF DInv, Later

-----------------------------------------------------------------------------
(* The phones' steps.                                                      *)

(* One phone's screen and poll rewritten. *)
LEMMA OneScreen ==
    ASSUME ScreensKnown, UNCHANGED room, NEW u \in Account, NEW s, NEW t,
           Known(s, room), t # None => Known(t, room),
           shown' = [shown EXCEPT ![u] = s], polled' = [polled EXCEPT ![u] = t]
    PROVE  ScreensKnown'
<1>1. /\ DOMAIN shown' = Account /\ DOMAIN polled' = Account
      /\ shown' = [v \in Account |-> shown'[v]] /\ polled' = [v \in Account |-> polled'[v]]
  BY DEF ScreensKnown
<1>2. ASSUME NEW v \in Account
      PROVE  Known(shown'[v], room) /\ (polled'[v] # None => Known(polled'[v], room))
  BY DEF ScreensKnown
<1> QED
  BY <1>1, <1>2 DEF ScreensKnown

(* A new or retried request starts out sound. *)
LEMMA RequestSound ==
    ASSUME NEW c, IsCommand(c), NEW seen, NEW r, Known(seen, r), NEW retry
    PROVE  Sound(Request(c, seen, retry), r)
<1>1. Known(seen, seen)
  BY DEF Known, Past
<1> QED
  BY <1>1 DEF Sound, Request

LEMMA TapSafe ==
    ASSUME DInv, NEW u \in Account, NEW c \in Commands(u), Tap(u, c)
    PROVE  DInv'
<1> DEFINE q == Request(c, shown[u], FALSE)
<1>1. /\ reqs' = Append(reqs, q) /\ waiting' = [waiting EXCEPT ![u] = Len(reqs) + 1]
      /\ UNCHANGED <<room, shown, polled>>
  BY DEF Tap
<1>2. Sound(q, room)
  BY SentIsCommand, RequestSound DEF DInv, ScreensKnown
<1> HIDE DEF q
<1>3. /\ reqs' \in Seq({reqs'[j] : j \in DOMAIN reqs'}) /\ Len(reqs') = Len(reqs) + 1
      /\ reqs'[Len(reqs) + 1] = q /\ \A j \in 1 .. Len(reqs) : reqs'[j] = reqs[j]
  <2> DEFINE S == {reqs[j] : j \in DOMAIN reqs} \cup {q}
  <2>1. reqs \in Seq(S) /\ q \in S
    BY SeqMonotonic DEF DInv, RequestsSound
  <2> HIDE DEF S
  <2>2. /\ reqs' \in Seq(S) /\ Len(reqs') = Len(reqs) + 1
        /\ reqs'[Len(reqs) + 1] = q /\ \A j \in 1 .. Len(reqs) : reqs'[j] = reqs[j]
    BY <1>1, <2>1, AppendProperties
  <2>3. \A s : s \in Seq(S) => s \in Seq({s[j] : j \in DOMAIN s})
    BY OwnElements
  <2>4. reqs' \in Seq({reqs'[j] : j \in DOMAIN reqs'})
    BY <2>2, <2>3, Zenon
  <2> QED
    BY <2>2, <2>4
<1>4. Len(reqs) \in Nat
  BY DEF DInv, RequestsSound
<1>5. ASSUME NEW j \in 1 .. Len(reqs') PROVE Sound(reqs'[j], room)
  <2>1. j \in 1 .. Len(reqs) \/ j = Len(reqs) + 1
    BY <1>3, <1>4
  <2>2. \A k \in 1 .. Len(reqs) : Sound(reqs[k], room)
    BY DEF DInv, RequestsSound
  <2> QED
    BY <1>2, <1>3, <2>1, <2>2
<1>6. \A v \in Account : waiting'[v] \in 0 .. Len(reqs')
  BY <1>1, <1>3, <1>4 DEF DInv, RequestsSound
<1>7. RequestsSound'
  BY <1>1, <1>3, <1>5, <1>6 DEF RequestsSound
<1> QED
  BY <1>1, <1>7, ScreensLater DEF DInv, Later

LEMMA DeliverSafe ==
    ASSUME DInv, NEW u \in Account, Deliver(u)
    PROVE  DInv'
<1> DEFINE i == waiting[u]
           q == reqs[i]
<1>1. i \in 1 .. Len(reqs) /\ UNCHANGED room /\ Len(reqs) \in Nat
  BY DEF Deliver, DInv, RequestsSound
<1>2. Sound(q, room) /\ GoodRoom(room)
  BY <1>1 DEF DInv, RequestsSound
<1>3. ScreensKnown'
  <2>1. CASE q.outcome = "refused"
    BY <1>1, <2>1, ScreensLater DEF Deliver, DInv, Later
  <2>2. CASE q.outcome # "refused"
    <3>1. /\ shown' = [shown EXCEPT ![u] = Painted(shown[u], q.snap)]
          /\ polled' = [polled EXCEPT ![u] = None]
      BY <2>2 DEF Deliver
    <3>2. Known(Painted(shown[u], q.snap), room)
      BY <1>2 DEF Painted, Sound, DInv, ScreensKnown
    <3> QED
      BY <1>1, <3>1, <3>2, OneScreen DEF DInv
  <2> QED
    BY <2>1, <2>2
<1>4. RequestsSound'
  <2>1. CASE WillRetry(q)
    <3>1. reqs' = [reqs EXCEPT ![i] = Request(q.cmd, q.snap, TRUE)] /\ UNCHANGED waiting
      BY <2>1 DEF Deliver
    <3>2. Sound(Request(q.cmd, q.snap, TRUE), room)
      BY <1>2, RequestSound DEF Sound
    <3>3. \A v \in Account : waiting'[v] \in 0 .. Len(reqs)
      BY <3>1 DEF DInv, RequestsSound
    <3> HIDE DEF i, q
    <3> QED
      BY <1>1, <3>1, <3>2, <3>3, OneRewritten DEF DInv, Later
  <2>2. CASE ~WillRetry(q)
    <3>1. UNCHANGED reqs /\ waiting' = [waiting EXCEPT ![u] = 0]
      BY <2>2 DEF Deliver
    <3> QED
      BY <1>1, <3>1 DEF DInv, RequestsSound
  <2> QED
    BY <2>1, <2>2
<1> QED
  BY <1>1, <1>2, <1>3, <1>4 DEF DInv

LEMMA TimeoutSafe ==
    ASSUME DInv, NEW u \in Account, Timeout(u)
    PROVE  DInv'
<1> DEFINE i == waiting[u]
           q == [reqs[i] EXCEPT !.stage = "lost"]
<1>1. /\ i \in 1 .. Len(reqs) /\ UNCHANGED <<room, shown, polled>> /\ Len(reqs) \in Nat
      /\ waiting' = [waiting EXCEPT ![u] = 0]
  BY DEF Timeout, DInv, RequestsSound
<1>2. \A v \in Account : waiting'[v] \in 0 .. Len(reqs)
  BY <1>1 DEF DInv, RequestsSound
<1>3. Sound(reqs[i], room) /\ GoodRoom(room)
  BY <1>1 DEF DInv, RequestsSound
<1>4. RequestsSound'
  <2>1. CASE UNCHANGED reqs
    BY <1>1, <1>2, <2>1 DEF DInv, RequestsSound
  <2>2. CASE reqs' = [reqs EXCEPT ![i] = q]
    <3>1. Sound(q, room)
      <4>1. /\ DOMAIN q = DOMAIN reqs[i] /\ q.cmd = reqs[i].cmd /\ q.seen = reqs[i].seen
            /\ q.attempt = reqs[i].attempt /\ q.snap = reqs[i].snap
            /\ q.stage = "lost" /\ q.outcome = reqs[i].outcome
        BY <1>3 DEF Sound
      <4> HIDE DEF q
      <4> QED
        BY <1>3, <4>1 DEF Sound
    <3> HIDE DEF i, q
    <3> QED
      BY <1>1, <1>2, <2>2, <3>1, OneRewritten DEF DInv, Later
  <2> QED
    BY <2>1, <2>2 DEF Timeout
<1> QED
  BY <1>1, <1>3, <1>4, ScreensLater DEF DInv, Later

LEMMA PollSafe ==
    ASSUME DInv, NEW u \in Account, Poll(u) \/ PollArrives(u)
    PROVE  DInv'
<1>1. UNCHANGED <<room, waiting, reqs>>
  BY DEF Poll, PollArrives
<1>2. CASE Poll(u)
  <2>1. polled' = [polled EXCEPT ![u] = room] /\ shown' = [shown EXCEPT ![u] = shown[u]]
    BY <1>2 DEF Poll, DInv, ScreensKnown
  <2>2. Known(room, room) /\ Known(shown[u], room)
    BY KnownNow DEF DInv, ScreensKnown
  <2>3. ScreensKnown'
    BY <1>1, <2>1, <2>2, OneScreen DEF DInv
  <2> QED
    BY <1>1, <2>3 DEF DInv, RequestsSound
<1>3. CASE PollArrives(u)
  <2>1. /\ polled[u] # None /\ polled' = [polled EXCEPT ![u] = None]
        /\ shown' = [shown EXCEPT ![u] = Painted(shown[u], polled[u])]
    BY <1>3 DEF PollArrives
  <2>2. Known(Painted(shown[u], polled[u]), room)
    BY <2>1 DEF Painted, DInv, ScreensKnown
  <2>3. ScreensKnown'
    BY <1>1, <2>1, <2>2, OneScreen DEF DInv
  <2> QED
    BY <1>1, <2>3 DEF DInv, RequestsSound
<1> QED
  BY <1>2, <1>3

-----------------------------------------------------------------------------
(* What the requests, the room and the screens are promised.                *)

LEMMA DInit == DispatchInit => DInv
<1> SUFFICES ASSUME DispatchInit PROVE DInv
  OBVIOUS
<1>1. GoodRoom(room) /\ Known(room, room)
  BY DispatchAssumption, KnownNow DEF DispatchInit
<1>2. ScreensKnown
  BY <1>1 DEF DispatchInit, ScreensKnown
<1>3. RequestsSound
  BY DEF DispatchInit, RequestsSound
<1> QED
  BY <1>1, <1>2, <1>3 DEF DInv

LEMMA DStep == DInv /\ [DispatchNext]_vars => DInv'
<1> SUFFICES ASSUME DInv, [DispatchNext]_vars PROVE DInv'
  OBVIOUS
<1>1. ASSUME NEW i \in 1 .. Len(reqs), ServerStep(i) PROVE DInv'
  BY <1>1, LoadSafe, RefuseSafe, CommitSafe, CollideSafe, GiveUpSafe DEF ServerStep
<1>2. ASSUME NEW u \in Account, PhoneStep(u) PROVE DInv'
  BY <1>2, TapSafe, DeliverSafe, TimeoutSafe, PollSafe DEF PhoneStep
<1>3. CASE UNCHANGED vars
  BY <1>3 DEF vars, DInv, ScreensKnown, RequestsSound
<1> QED
  BY <1>1, <1>2, <1>3 DEF DispatchNext

(* Snapshots, screens and answers are states the room has been in. *)
THEOREM AlwaysKnown == DispatchSpec => []DInv
  BY DInit, DStep, PTL DEF DispatchSpec

(* The stored events are a run of the room machine, whatever the races. *)
THEOREM StoredEventsAreARun == DispatchSpec => CommitsAreCommands
<1>1. DInv /\ [DispatchNext]_vars => [Command]_room
  <2> SUFFICES ASSUME DInv, DispatchNext, room' # room PROVE Command
    BY DEF vars
  <2>1. PICK i \in 1 .. Len(reqs) : Commit(i)
    BY DEF DispatchNext, ServerStep, PhoneStep, Load, Refuse, Collide, GiveUp, Tap, Deliver,
           Timeout, Poll, PollArrives
  <2> QED
    BY <2>1, CommitIsCommand
<1> QED
  BY AlwaysKnown, <1>1, PTL DEF DispatchSpec, CommitsAreCommands

(* What is proved of the room machine holds of the room on the server. *)
THEOREM RoomStaysGood ==
    DispatchSpec => [](HostPresides /\ RoundsInOrder /\ CollectingCanFinish /\ TableStaffed)
<1>1. DInv => HostPresides /\ RoundsInOrder /\ CollectingCanFinish /\ TableStaffed
  BY DEF DInv, GoodRoom, HostPresides, RoundsInOrder, CollectingCanFinish, TableStaffed
<1> QED
  BY AlwaysKnown, <1>1, PTL

(* The money is as safe under races as in one hand: only players at the table are     *)
(* charged, the rounds explain the balances and these add up to nothing, as they do in *)
(* the rooms a behaviour starts from.                                                  *)
THEOREM MoneyIsSafeUnderRaces ==
    ASSUME \A r \in StartRooms : Billed(r) /\ ClaimsApart(r) /\ AmongPlayers(r)
    PROVE  /\ DispatchSpec => [](LogExplainsBalances /\ SumFunction(room.balances) = 0)
           /\ DispatchSpec => PaymentsStand
<1> DEFINE Money == Billed(room) /\ ClaimsApart(room) /\ AmongPlayers(room)
<1>1. DispatchInit => Money
  BY DEF DispatchInit
<1>2. DInv /\ Money /\ [Command]_room => Money'
  <2> SUFFICES ASSUME DInv, Money, [Command]_room PROVE Money'
    OBVIOUS
  <2>1. CASE Command
    BY <2>1, LobbyStands, GameStands, LobbyBilled, GameBilled, StaysAmong DEF DInv, IInv, Command
  <2>2. CASE room' = room
    BY <2>2
  <2> QED
    BY <2>1, <2>2
<1>3. DInv /\ Money => LogExplainsBalances /\ SumFunction(room.balances) = 0
  BY BilledIsLogged, BalancesCancel DEF DInv, IInv, GoodRoom
<1>4. DInv /\ Money /\ [Command]_room =>
        [/\ \A p \in room.departed : PaymentsOf(room', p) \subseteq PaymentsOf(room, p)
         /\ LET lost == AllSpecials(room) \ AllSpecials(room')
            IN  lost # {} => OneClaimUndone(lost)]_room
  BY CommandKeepsLedger DEF DInv, IInv
<1>5. DispatchSpec => []Money /\ [][Command]_room
  BY <1>1, <1>2, AlwaysKnown, StoredEventsAreARun, PTL DEF DispatchSpec, CommitsAreCommands
<1> QED
  BY <1>3, <1>4, <1>5, AlwaysKnown, PTL DEF PaymentsStand

(* A state with the seq of the room is the room, wherever it is held. *)
THEOREM OneStatePerSeq == DispatchSpec => []SameSeqSameState
<1>1. DInv => SameSeqSameState
  BY DEF DInv, ScreensKnown, RequestsSound, Sound, Known, SameSeqSameState
<1> QED
  BY AlwaysKnown, <1>1, PTL

(* A phone that is told of a conflict was behind. *)
THEOREM ConflictsBringNews == DispatchSpec => []ConflictBringsNews
<1>1. DInv => ConflictBringsNews
  BY DEF DInv, RequestsSound, Sound, Known, ConflictBringsNews
<1> QED
  BY AlwaysKnown, <1>1, PTL

(* A step that answers a request with success is its commit. *)
LEMMA OnlyCommitSucceeds ==
    ASSUME DInv, [DispatchNext]_vars, NEW i \in 1 .. MaxRequests, Commits(i)
    PROVE  i \in 1 .. Len(reqs) /\ Commit(i)
<1>1. i \in 1 .. Len(reqs) /\ reqs[i].outcome = "none" /\ reqs'[i].outcome = "ok"
  BY DEF Commits
<1>2. DOMAIN reqs = 1 .. Len(reqs) /\ Len(reqs) \in Nat
  BY DEF DInv, RequestsSound
<1>3. ASSUME NEW j \in 1 .. Len(reqs) PROVE DOMAIN reqs[j] = {"cmd", "seen", "retry", "stage",
                                                "attempt", "snap", "outcome"}
  BY DEF DInv, RequestsSound, Sound
<1>4. ASSUME NEW j \in 1 .. Len(reqs), ServerStep(j) PROVE Commit(i)
  <2>1. j = i
    BY <1>1, <1>2, <1>4 DEF ServerStep, Load, Refuse, Commit, Collide, GiveUp, Finish
  <2>2. ~Load(i) /\ ~Collide(i)
    BY <1>1, <1>2, <1>3 DEF Load, Collide
  <2>3. ~Refuse(i) /\ ~GiveUp(i)
    BY <1>1, <1>2, <1>3 DEF Refuse, GiveUp, Finish
  <2> QED
    BY <1>4, <2>1, <2>2, <2>3 DEF ServerStep
<1>5. ASSUME NEW u \in Account, PhoneStep(u) PROVE FALSE
  <2>1. ASSUME NEW c \in Commands(u), Tap(u, c) PROVE FALSE
    <3>1. reqs'[i] = reqs[i]
      BY <1>1, <1>2, <2>1, AppendProperties DEF Tap, DInv, RequestsSound
    <3> QED
      BY <1>1, <3>1
  <2>2. ~Deliver(u)
    BY <1>1, <1>2 DEF Deliver, Request
  <2>3. ~Timeout(u)
    BY <1>1, <1>2, <1>3 DEF Timeout
  <2>4. ~Poll(u) /\ ~PollArrives(u)
    BY <1>1 DEF Poll, PollArrives
  <2> QED
    BY <1>5, <2>1, <2>2, <2>3, <2>4 DEF PhoneStep
<1>6. ~(UNCHANGED vars)
  BY <1>1 DEF vars
<1> QED
  BY <1>1, <1>4, <1>5, <1>6 DEF DispatchNext

(* A command lands on the round, or the very state, it was aimed at. *)
THEOREM CommandsLandWhereAimed == DispatchSpec => LandsWhereAimed
<1>1. ASSUME DInv, [DispatchNext]_vars, NEW i \in 1 .. MaxRequests, Commits(i)
      PROVE  LET q == reqs[i]
             IN  IF q.cmd.op \in PinnedOps THEN pin(room) = pin(q.seen)
                 ELSE q.cmd.op = "join" \/ room = q.seen
  <2>1. i \in 1 .. Len(reqs) /\ Commit(i)
    BY <1>1, OnlyCommitSucceeds
  <2>2. reqs[i].snap = room /\ Verdict(room, reqs[i]) = "ok"
    BY <1>1, <2>1, CommitIsCommand
  <2>3. ~SeqConflict(room, reqs[i])
    BY <2>2 DEF Verdict
  <2>4. room.seq = reqs[i].seen.seq => room = reqs[i].seen
    BY <1>1, <2>1, <2>2 DEF DInv, RequestsSound, Sound, Known, Past
  <2> QED
    BY <2>3, <2>4 DEF SeqConflict
<1>2. DInv /\ [DispatchNext]_vars =>
        [\A i \in 1 .. MaxRequests : Commits(i) =>
            LET q == reqs[i]
            IN  IF q.cmd.op \in PinnedOps THEN pin(room) = pin(q.seen)
                ELSE q.cmd.op = "join" \/ room = q.seen]_vars
  BY <1>1
<1> QED
  BY AlwaysKnown, <1>2, PTL DEF DispatchSpec, LandsWhereAimed

(* No screen goes back in time. *)
THEOREM ScreensGoForward == DispatchSpec => ShownNeverGoesBack
<1>1. DInv /\ [DispatchNext]_vars => [\A u \in Account : shown'[u].seq >= shown[u].seq]_vars
  <2> SUFFICES ASSUME DInv, DispatchNext, NEW u \in Account
               PROVE  shown'[u].seq >= shown[u].seq
    OBVIOUS
  <2>1. \A v \in Account : shown[v].seq \in Nat
    BY DEF DInv, ScreensKnown, Known
  <2>2. \A v \in Account : polled[v] # None => polled[v].seq \in Nat
    BY DEF DInv, ScreensKnown, Known
  <2>3. \A i \in 1 .. Len(reqs) : reqs[i].snap.seq \in Nat
    BY DEF DInv, RequestsSound, Sound, Known
  <2>4. CASE UNCHANGED shown
    BY <2>1, <2>4
  <2>5. ASSUME NEW v \in Account, NEW s, s.seq \in Nat,
               shown' = [shown EXCEPT ![v] = Painted(shown[v], s)]
        PROVE  shown'[u].seq >= shown[u].seq
    <3>1. DOMAIN shown = Account
      BY DEF DInv, ScreensKnown
    <3>2. Painted(shown[v], s).seq >= shown[v].seq
      BY <2>1, <2>5 DEF Painted
    <3>3. CASE u = v
      BY <2>5, <3>1, <3>2, <3>3
    <3>4. CASE u # v
      BY <2>1, <2>5, <3>1, <3>4
    <3> QED
      BY <3>3, <3>4
  <2>6. ASSUME NEW v \in Account, Deliver(v) PROVE shown'[u].seq >= shown[u].seq
    <3>1. waiting[v] \in 1 .. Len(reqs)
      BY <2>6 DEF Deliver, DInv, RequestsSound
    <3>2. \/ UNCHANGED shown
          \/ shown' = [shown EXCEPT ![v] = Painted(shown[v], reqs[waiting[v]].snap)]
      BY <2>6 DEF Deliver
    <3> QED
      BY <2>3, <2>4, <2>5, <3>1, <3>2
  <2>7. ASSUME NEW v \in Account, PollArrives(v) PROVE shown'[u].seq >= shown[u].seq
    <3>1. /\ polled[v] # None
          /\ shown' = [shown EXCEPT ![v] = Painted(shown[v], polled[v])]
      BY <2>7 DEF PollArrives
    <3> QED
      BY <2>2, <2>5, <3>1
  <2>8. ASSUME NEW i \in 1 .. Len(reqs), ServerStep(i) PROVE UNCHANGED shown
    BY <2>8 DEF ServerStep, Load, Refuse, Commit, Collide, GiveUp
  <2>9. ASSUME NEW v \in Account, NEW c \in Commands(v), Tap(v, c) PROVE UNCHANGED shown
    BY <2>9 DEF Tap
  <2>10. ASSUME NEW v \in Account, Timeout(v) \/ Poll(v) PROVE UNCHANGED shown
    BY <2>10 DEF Timeout, Poll
  <2> QED
    BY <2>4, <2>6, <2>7, <2>8, <2>9, <2>10 DEF DispatchNext, PhoneStep
<1> QED
  BY AlwaysKnown, <1>1, PTL DEF DispatchSpec, ShownNeverGoesBack
-----------------------------------------------------------------------------
(* Requests come to an end.  Every step at a request takes it further, by one  *)
(* of at most four steps per attempt, and whoever waits, waits for a request    *)
(* of his own that is not lost: it is answered, or the server has a step to     *)
(* take at it.                                                                  *)

\* A request in one of its stages, within its attempts.
Staged(q) ==
    /\ q.stage \in Stages /\ q.retry \in BOOLEAN
    /\ q.attempt \in 0 .. DISPATCH_ATTEMPTS
    /\ q.stage = "loaded" => q.attempt > 0

\* How far a request has come.  One that is sent again is further than it was.
Progress(q) ==
    (IF q.retry THEN 2 * DISPATCH_ATTEMPTS + 2 ELSE 0)
    + (IF q.stage = "arrived" THEN 2 * q.attempt
       ELSE IF q.stage = "loaded" THEN 2 * q.attempt - 1
       ELSE 2 * DISPATCH_ATTEMPTS + 1)

Limit == 4 * DISPATCH_ATTEMPTS + 3

\* A phone waits for a request it has sent itself, and never for a lost one.
OwnRequest(u) ==
    waiting[u] # 0 => /\ waiting[u] \in 1 .. Len(reqs)
                      /\ reqs[waiting[u]].cmd.user = u
                      /\ reqs[waiting[u]].stage # "lost"

Underway ==
    /\ waiting \in [Account -> Nat]
    /\ \A i \in 1 .. Len(reqs) : Staged(reqs[i])
    /\ \A u \in Account : OwnRequest(u)

\* The request i goes on to q.
Moves(i, q) ==
    /\ i \in 1 .. Len(reqs) /\ reqs' = [reqs EXCEPT ![i] = q]
    /\ Staged(q) /\ q.cmd = reqs[i].cmd
    /\ Progress(q) > Progress(reqs[i])

LEMMA ProgressIsBounded ==
    ASSUME NEW q, Staged(q)
    PROVE  Progress(q) \in 0 .. Limit
<1>1. DISPATCH_ATTEMPTS \in Nat /\ q.attempt \in Nat /\ q.attempt <= DISPATCH_ATTEMPTS
  BY DispatchAssumption DEF Staged
<1>2. q.stage = "loaded" => q.attempt > 0
  BY DEF Staged
<1>3. q.retry \in BOOLEAN
  BY DEF Staged
<1> QED
  BY <1>1, <1>2, <1>3 DEF Progress, Limit

(* The server moves one request, and loses none. *)
LEMMA ServerMoves ==
    ASSUME DInv, Underway, NEW i \in 1 .. Len(reqs), ServerStep(i)
    PROVE  \E q : Moves(i, q) /\ q.stage # "lost"
<1>1. /\ Sound(reqs[i], room) /\ Staged(reqs[i])
      /\ DISPATCH_ATTEMPTS \in Nat \ {0} /\ reqs[i].attempt \in Nat
  BY DispatchAssumption DEF DInv, RequestsSound, Underway, Staged
<1>2. DOMAIN reqs[i] = {"cmd", "seen", "retry", "stage", "attempt", "snap", "outcome"}
  BY <1>1 DEF Sound
<1>3. ASSUME Load(i) PROVE \E q : Moves(i, q) /\ q.stage # "lost"
  <2> DEFINE q == [reqs[i] EXCEPT !.stage = "loaded", !.snap = room, !.attempt = @ + 1]
  <2>1. /\ reqs' = [reqs EXCEPT ![i] = q] /\ reqs[i].stage = "arrived"
        /\ reqs[i].attempt < DISPATCH_ATTEMPTS
    BY <1>3 DEF Load
  <2>2. /\ q.cmd = reqs[i].cmd /\ q.retry = reqs[i].retry /\ q.stage = "loaded"
        /\ q.attempt = reqs[i].attempt + 1
    BY <1>2
  <2> HIDE DEF q
  <2>3. Staged(q) /\ Progress(q) > Progress(reqs[i])
    BY <1>1, <2>1, <2>2 DEF Staged, Progress, Stages
  <2> QED
    BY <2>1, <2>2, <2>3 DEF Moves
<1>4. ASSUME NEW outcome, NEW answer, Finish(i, outcome, answer),
             reqs[i].stage \in {"arrived", "loaded"}
      PROVE  \E q : Moves(i, q) /\ q.stage # "lost"
  <2> DEFINE q == [reqs[i] EXCEPT !.stage = "done", !.outcome = outcome, !.snap = answer]
  <2>1. reqs' = [reqs EXCEPT ![i] = q]
    BY <1>4 DEF Finish
  <2>2. /\ q.cmd = reqs[i].cmd /\ q.retry = reqs[i].retry /\ q.stage = "done"
        /\ q.attempt = reqs[i].attempt
    BY <1>2
  <2> HIDE DEF q
  <2>3. Staged(q) /\ Progress(q) > Progress(reqs[i])
    BY <1>1, <1>4, <2>2 DEF Staged, Progress, Stages
  <2> QED
    BY <2>1, <2>2, <2>3 DEF Moves
<1>5. ASSUME Collide(i) PROVE \E q : Moves(i, q) /\ q.stage # "lost"
  <2> DEFINE q == [reqs[i] EXCEPT !.stage = "arrived"]
  <2>1. reqs' = [reqs EXCEPT ![i] = q] /\ reqs[i].stage = "loaded"
    BY <1>5 DEF Collide, Ready
  <2>2. /\ q.cmd = reqs[i].cmd /\ q.retry = reqs[i].retry /\ q.stage = "arrived"
        /\ q.attempt = reqs[i].attempt
    BY <1>2
  <2> HIDE DEF q
  <2>3. Staged(q) /\ Progress(q) > Progress(reqs[i])
    BY <1>1, <2>1, <2>2 DEF Staged, Progress, Stages
  <2> QED
    BY <2>1, <2>2, <2>3 DEF Moves
<1> QED
  BY <1>3, <1>4, <1>5 DEF ServerStep, Refuse, Commit, GiveUp, Ready

(* What phones do to requests. *)
LEMMA PhoneMoves ==
    ASSUME DInv, Underway, NEW u \in Account, PhoneStep(u)
    PROVE  \/ UNCHANGED reqs /\ (UNCHANGED waiting \/ waiting' = [waiting EXCEPT ![u] = 0])
           \/ /\ \E q : /\ reqs' = Append(reqs, q) /\ Staged(q)
                        /\ q.cmd.user = u /\ q.stage = "arrived"
              /\ waiting' = [waiting EXCEPT ![u] = Len(reqs) + 1]
           \/ /\ \E q : Moves(waiting[u], q) /\ q.stage # "lost"
              /\ UNCHANGED waiting
           \/ /\ \E q : Moves(waiting[u], q)
              /\ reqs[waiting[u]].cmd.user = u
              /\ waiting' = [waiting EXCEPT ![u] = 0]
<1>0. DISPATCH_ATTEMPTS \in Nat \ {0}
  BY DispatchAssumption
<1>1. CASE \E c \in Commands(u) : Tap(u, c)
  <2>1. PICK c \in Commands(u) : Tap(u, c)
    BY <1>1
  <2> DEFINE q == Request(c, shown[u], FALSE)
  <2>2. reqs' = Append(reqs, q) /\ waiting' = [waiting EXCEPT ![u] = Len(reqs) + 1]
    BY <2>1 DEF Tap
  <2>3. c.user = u
    BY DEF Commands
  <2>4. Staged(q) /\ q.cmd.user = u /\ q.stage = "arrived"
    BY <1>0, <2>3 DEF Request, Staged, Stages
  <2> QED
    BY <2>2, <2>4
<1>2. CASE Deliver(u)
  <2> DEFINE i == waiting[u]
  <2>1. i \in 1 .. Len(reqs) /\ reqs[i].stage = "done"
    BY <1>2 DEF Deliver, DInv, RequestsSound
  <2>2. CASE WillRetry(reqs[i])
    <3> DEFINE q == Request(reqs[i].cmd, reqs[i].snap, TRUE)
    <3>1. reqs' = [reqs EXCEPT ![i] = q] /\ UNCHANGED waiting
      BY <1>2, <2>2 DEF Deliver
    <3>2. /\ q.cmd = reqs[i].cmd /\ q.retry = TRUE /\ q.stage = "arrived" /\ q.attempt = 0
          /\ reqs[i].retry = FALSE
      BY <2>1, <2>2 DEF Request, WillRetry, Underway, Staged
    <3> HIDE DEF q
    <3>3. Staged(q)
      <4>1. q.retry \in BOOLEAN
        BY <3>2, Zenon
      <4>2. q.attempt \in 0 .. DISPATCH_ATTEMPTS
        BY <1>0, <3>2
      <4> QED
        BY <3>2, <4>1, <4>2 DEF Staged, Stages
    <3>4. Progress(q) = 2 * DISPATCH_ATTEMPTS + 2
      BY <1>0, <3>2 DEF Progress
    <3>5. Progress(reqs[i]) = 2 * DISPATCH_ATTEMPTS + 1
      BY <1>0, <2>1, <3>2 DEF Progress
    <3> QED
      <4>1. Progress(q) > Progress(reqs[i])
        BY <1>0, <3>4, <3>5
      <4> HIDE DEF i
      <4>2. Moves(i, q)
        BY <2>1, <3>1, <3>2, <3>3, <4>1 DEF Moves
      <4> QED
        BY <3>1, <3>2, <4>2 DEF i
  <2>3. CASE ~WillRetry(reqs[i])
    BY <1>2, <2>3 DEF Deliver
  <2> QED
    BY <2>2, <2>3
<1>3. CASE Timeout(u)
  <2> DEFINE i == waiting[u]
             q == [reqs[i] EXCEPT !.stage = "lost"]
  <2>1. i \in 1 .. Len(reqs) /\ waiting' = [waiting EXCEPT ![u] = 0]
    BY <1>3 DEF Timeout, DInv, RequestsSound
  <2>2. CASE UNCHANGED reqs
    BY <2>1, <2>2
  <2>3. CASE reqs[i].stage = "arrived" /\ reqs' = [reqs EXCEPT ![i] = q]
    <3>1. /\ DOMAIN reqs[i] = {"cmd", "seen", "retry", "stage", "attempt", "snap", "outcome"}
          /\ Staged(reqs[i]) /\ reqs[i].cmd.user = u
      BY <1>3, <2>1 DEF DInv, RequestsSound, Sound, Underway, OwnRequest, Timeout
    <3>2. /\ q.cmd = reqs[i].cmd /\ q.retry = reqs[i].retry /\ q.stage = "lost"
          /\ q.attempt = reqs[i].attempt
      BY <3>1
    <3> HIDE DEF q
    <3>3. Staged(q) /\ Progress(q) > Progress(reqs[i])
      BY <1>0, <2>3, <3>1, <3>2 DEF Staged, Stages, Progress
    <3> QED
      BY <2>1, <2>3, <3>1, <3>2, <3>3 DEF Moves
  <2> QED
    BY <1>3, <2>2, <2>3 DEF Timeout
<1>4. CASE Poll(u) \/ PollArrives(u)
  BY <1>4 DEF Poll, PollArrives
<1> QED
  BY <1>1, <1>2, <1>3, <1>4 DEF PhoneStep

(* One request moves on: the others stay as they are. *)
LEMMA MovesKeep ==
    ASSUME DInv, Underway, NEW i, NEW q, Moves(i, q)
    PROVE  /\ Len(reqs') = Len(reqs) /\ reqs'[i] = q /\ i \in 1 .. Len(reqs)
           /\ \A j \in 1 .. Len(reqs) : j # i => reqs'[j] = reqs[j]
           /\ \A j \in 1 .. Len(reqs') : Staged(reqs'[j])
<1>1. i \in 1 .. Len(reqs) /\ reqs' = [reqs EXCEPT ![i] = q] /\ Staged(q)
  BY DEF Moves
<1> DEFINE S == {reqs[j] : j \in DOMAIN reqs} \cup {q}
<1>2. reqs \in Seq(S) /\ q \in S
  BY SeqMonotonic DEF DInv, RequestsSound
<1> HIDE DEF S
<1>3. /\ Len(reqs') = Len(reqs) /\ reqs'[i] = q
      /\ \A j \in 1 .. Len(reqs) : j # i => reqs'[j] = reqs[j]
  BY <1>1, <1>2, ExceptSeq
<1> QED
  BY <1>1, <1>3 DEF Underway

LEMMA UnderwayStep ==
    ASSUME DInv, Underway, [DispatchNext]_vars
    PROVE  Underway'
<1>0. /\ Len(reqs) \in Nat /\ waiting \in [Account -> Nat]
      /\ \A u \in Account : waiting[u] \in 0 .. Len(reqs)
  BY DEF DInv, RequestsSound, Underway
<1>1. ASSUME NEW i, NEW q, Moves(i, q), q.stage # "lost", UNCHANGED waiting
      PROVE  Underway'
  <2>1. /\ Len(reqs') = Len(reqs) /\ reqs'[i] = q /\ i \in 1 .. Len(reqs)
        /\ \A j \in 1 .. Len(reqs) : j # i => reqs'[j] = reqs[j]
        /\ \A j \in 1 .. Len(reqs') : Staged(reqs'[j])
    BY <1>1, MovesKeep
  <2>2. q.cmd = reqs[i].cmd
    BY <1>1 DEF Moves
  <2> QED
    BY <1>1, <2>1, <2>2 DEF Underway, OwnRequest
<1>2. ASSUME NEW i \in 1 .. Len(reqs), ServerStep(i) PROVE Underway'
  <2>1. UNCHANGED waiting
    BY <1>2 DEF ServerStep, Load, Refuse, Commit, Collide, GiveUp
  <2> QED
    BY <1>1, <1>2, <2>1, ServerMoves
<1>3. ASSUME NEW u \in Account, PhoneStep(u) PROVE Underway'
  <2>0. waiting' \in [Account -> Nat]
    <3>1. /\ waiting \in [Account -> Nat] /\ 0 \in Nat /\ Len(reqs) + 1 \in Nat
      BY <1>0
    <3>2. \/ UNCHANGED waiting \/ waiting' = [waiting EXCEPT ![u] = 0]
          \/ waiting' = [waiting EXCEPT ![u] = Len(reqs) + 1]
      BY <1>3, PhoneMoves
    <3> QED
      BY <3>1, <3>2
  <2>1. CASE UNCHANGED reqs /\ (UNCHANGED waiting \/ waiting' = [waiting EXCEPT ![u] = 0])
    <3>1. \A v \in Account : waiting'[v] = waiting[v] \/ waiting'[v] = 0
      BY <1>0, <2>1
    <3>2. UNCHANGED reqs
      BY <2>1
    <3> QED
      BY <2>0, <3>1, <3>2 DEF Underway, OwnRequest
  <2>2. CASE /\ \E q : /\ reqs' = Append(reqs, q) /\ Staged(q)
                       /\ q.cmd.user = u /\ q.stage = "arrived"
             /\ waiting' = [waiting EXCEPT ![u] = Len(reqs) + 1]
    <3>1. PICK q : /\ reqs' = Append(reqs, q) /\ Staged(q)
                   /\ q.cmd.user = u /\ q.stage = "arrived"
      BY <2>2
    <3> DEFINE S == {reqs[j] : j \in DOMAIN reqs} \cup {q}
    <3>2. reqs \in Seq(S) /\ q \in S
      BY SeqMonotonic DEF DInv, RequestsSound
    <3> HIDE DEF S
    <3>3. /\ Len(reqs') = Len(reqs) + 1 /\ reqs'[Len(reqs) + 1] = q
          /\ \A j \in 1 .. Len(reqs) : reqs'[j] = reqs[j]
      BY <3>1, <3>2, AppendProperties
    <3>4. ASSUME NEW j \in 1 .. Len(reqs') PROVE Staged(reqs'[j])
      <4>1. j \in 1 .. Len(reqs) \/ j = Len(reqs) + 1
        BY <1>0, <3>3
      <4> QED
        BY <3>1, <3>3, <4>1 DEF Underway
    <3>5. ASSUME NEW v \in Account, waiting'[v] # 0
          PROVE  /\ waiting'[v] \in 1 .. Len(reqs')
                 /\ reqs'[waiting'[v]].cmd.user = v /\ reqs'[waiting'[v]].stage # "lost"
      <4>1. CASE waiting'[v] = Len(reqs) + 1 /\ v = u
        BY <1>0, <3>1, <3>3, <4>1
      <4>2. CASE waiting'[v] = waiting[v]
        <5>1. waiting[v] \in 1 .. Len(reqs)
          BY <1>0, <3>5, <4>2
        <5> QED
          BY <1>0, <3>3, <3>5, <4>2, <5>1 DEF Underway, OwnRequest
      <4> QED
        BY <2>2, <3>5, <4>1, <4>2
    <3> QED
      BY <2>0, <3>4, <3>5 DEF Underway, OwnRequest
  <2>3. CASE /\ \E q : Moves(waiting[u], q) /\ q.stage # "lost"
             /\ UNCHANGED waiting
    BY <1>1, <2>3
  <2>4. CASE /\ \E q : Moves(waiting[u], q)
             /\ reqs[waiting[u]].cmd.user = u
             /\ waiting' = [waiting EXCEPT ![u] = 0]
    <3> DEFINE i == waiting[u]
    <3>1. PICK q : Moves(i, q)
      BY <2>4
    <3>2. /\ Len(reqs') = Len(reqs)
          /\ \A j \in 1 .. Len(reqs) : j # i => reqs'[j] = reqs[j]
          /\ \A j \in 1 .. Len(reqs') : Staged(reqs'[j])
      BY <3>1, MovesKeep
    <3>3. ASSUME NEW v \in Account, waiting'[v] # 0
          PROVE  /\ waiting'[v] \in 1 .. Len(reqs')
                 /\ reqs'[waiting'[v]].cmd.user = v /\ reqs'[waiting'[v]].stage # "lost"
      <4>1. waiting'[v] = waiting[v] /\ v # u
        BY <1>0, <2>4, <3>3
      <4>2. /\ waiting[v] \in 1 .. Len(reqs)
            /\ reqs[waiting[v]].cmd.user = v /\ reqs[waiting[v]].stage # "lost"
        BY <3>3, <4>1 DEF Underway, OwnRequest
      <4>3. waiting[v] # i
        BY <2>4, <4>1, <4>2
      <4> QED
        BY <3>2, <4>1, <4>2, <4>3
    <3> QED
      BY <2>0, <3>2, <3>3 DEF Underway, OwnRequest
  <2> QED
    BY <1>3, <2>1, <2>2, <2>3, <2>4, PhoneMoves
<1>4. CASE UNCHANGED vars
  BY <1>4 DEF vars, Underway, OwnRequest
<1> QED
  BY <1>2, <1>3, <1>4 DEF DispatchNext

LEMMA UnderwayInit == DispatchInit => Underway
<1> SUFFICES ASSUME DispatchInit PROVE Underway
  OBVIOUS
<1>1. reqs = << >> /\ waiting = [u \in Account |-> 0]
  BY DEF DispatchInit
<1>2. 1 .. Len(reqs) = {}
  BY <1>1
<1> QED
  BY <1>1, <1>2 DEF Underway, OwnRequest

(* Every step that changes a request takes it further. *)
LEMMA RequestsMoveOn ==
    ASSUME DInv, Underway, [DispatchNext]_vars,
           NEW i \in 1 .. Len(reqs), reqs'[i] # reqs[i]
    PROVE  Progress(reqs'[i]) > Progress(reqs[i])
<1>1. ASSUME NEW j, NEW q, Moves(j, q) PROVE Progress(reqs'[i]) > Progress(reqs[i])
  <2>1. i = j /\ reqs'[i] = q
    BY <1>1, MovesKeep
  <2> QED
    BY <1>1, <2>1 DEF Moves
<1>2. ASSUME NEW q, reqs' = Append(reqs, q) PROVE FALSE
  <2> DEFINE S == {reqs[j] : j \in DOMAIN reqs} \cup {q}
  <2>1. reqs \in Seq(S) /\ q \in S
    BY SeqMonotonic DEF DInv, RequestsSound
  <2> HIDE DEF S
  <2> QED
    BY <1>2, <2>1, AppendProperties
<1>3. CASE \E j \in 1 .. Len(reqs) : ServerStep(j)
  BY <1>1, <1>3, ServerMoves
<1>4. CASE \E u \in Account : PhoneStep(u)
  BY <1>1, <1>2, <1>4, PhoneMoves
<1>5. CASE UNCHANGED vars
  BY <1>5 DEF vars
<1> QED
  BY <1>3, <1>4, <1>5 DEF DispatchNext

(* What can become of a request is bounded, whatever the rooms and the races    *)
(* (dispatch.py:81-107, useRoom.ts:129-170): each step at it, of the server or   *)
(* of its phone, takes it further, and there are at most Limit of them, so      *)
(* neither the server's attempts nor the phone's second try can go on for ever. *)
THEOREM RequestsEnd ==
    DispatchSpec =>
        /\ [](\A i \in 1 .. Len(reqs) : Progress(reqs[i]) \in 0 .. Limit)
        /\ [][\A i \in 1 .. Len(reqs) :
                 reqs'[i] # reqs[i] => Progress(reqs'[i]) > Progress(reqs[i])]_vars
<1>1. DispatchInit => DInv /\ Underway
  BY DInit, UnderwayInit
<1>2. DInv /\ Underway /\ [DispatchNext]_vars => (DInv /\ Underway)'
  BY DStep, UnderwayStep
<1>3. DInv /\ Underway => \A i \in 1 .. Len(reqs) : Progress(reqs[i]) \in 0 .. Limit
  BY ProgressIsBounded DEF Underway
<1>4. DInv /\ Underway /\ [DispatchNext]_vars =>
        [\A i \in 1 .. Len(reqs) :
            reqs'[i] # reqs[i] => Progress(reqs'[i]) > Progress(reqs[i])]_vars
  BY RequestsMoveOn
<1> QED
  BY <1>1, <1>2, <1>3, <1>4, PTL DEF DispatchSpec

\* The request u waits for is its own and has its next step: about to load, for which
\* it has an attempt left or has just had its last one and is answered with the state,
\* holding a snapshot, or with its answer on the way.
IsServed(u) ==
    /\ waiting[u] \in 1 .. Len(reqs)
    /\ LET q == reqs[waiting[u]]
       IN  /\ q.cmd.user = u
           /\ q.stage \in {"arrived", "loaded", "done"}
           /\ q.attempt \in 0 .. DISPATCH_ATTEMPTS

(* Nobody waits in vain: a phone that waits for an answer waits for a request of *)
(* its own that is not lost (the loop and its last answer, dispatch.py:81-107). *)
THEOREM NobodyWaitsInVain ==
    DispatchSpec => [](\A u \in Account : waiting[u] # 0 => IsServed(u))
<1>1. DispatchInit => DInv /\ Underway
  BY DInit, UnderwayInit
<1>2. DInv /\ Underway /\ [DispatchNext]_vars => (DInv /\ Underway)'
  BY DStep, UnderwayStep
<1>3. DInv /\ Underway => \A u \in Account : waiting[u] # 0 => IsServed(u)
  BY DEF Underway, OwnRequest, Staged, Stages, IsServed
<1> QED
  BY <1>1, <1>2, <1>3, PTL DEF DispatchSpec
=============================================================================
