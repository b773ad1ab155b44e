------------------------- MODULE MahjongRoomProofs -------------------------
(***************************************************************************)
(* What holds of every Mahjong room, for any players, rules and number of  *)
(* hands: its shape, who sits where, the order of its hands, how deal and  *)
(* wind go round, and that the money adds up.                              *)
(*                                                                         *)
(* The parts of the invariant need each other: the money adds up because   *)
(* each seat has one player, and a wind is only continued from its last    *)
(* seat because a decision is pending only there.                          *)
(*                                                                         *)
(* Then the screens, which offer in every such room what the engine takes, *)
(* and a phone that keeps a flow open, a seat picked or a command under    *)
(* way while the table plays on.                                           *)
(***************************************************************************)
EXTENDS MahjongPhone, Sums

-----------------------------------------------------------------------------
(* The seat given out is free. *)

(* A table always has a free seat, and the seat given out is a number nobody has. *)
LEMMA FreeSeat ==
    ASSUME NEW members, IsFiniteSet(DOMAIN members), members \in [DOMAIN members -> Nat]
    PROVE  /\ LowestFreeSeat(members) \in Nat
           /\ LowestFreeSeat(members) <= Cardinality(DOMAIN members)
           /\ \A p \in DOMAIN members : members[p] # LowestFreeSeat(members)
<1> DEFINE n == Cardinality(DOMAIN members)
           taken == {members[p] : p \in DOMAIN members}
           free == (0 .. n) \ taken
<1>1. n \in Nat
  BY FS_CardinalityType
<1>2. IsFiniteSet(taken) /\ Cardinality(taken) <= n
  <2>1. members \in Surjection(DOMAIN members, taken)
    BY DEF Surjection
  <2> QED
    BY <2>1, FS_Surjection
<1>3. free # {}
  <2>1. SUFFICES ASSUME 0 .. n \subseteq taken PROVE FALSE
    OBVIOUS
  <2>2. Cardinality(0 .. n) = n + 1
    <3> HIDE DEF n
    <3>1. 0 \in Int /\ n \in Int /\ ~(0 > n) /\ n - 0 + 1 = n + 1
      BY <1>1
    <3> QED
      BY <3>1, FS_Interval
  <2>3. Cardinality(0 .. n) <= Cardinality(taken)
    BY <1>2, <2>1, FS_Subset
  <2> QED
    BY <1>1, <1>2, <2>2, <2>3, FS_CardinalityType
<1>4. PICK m \in free : \A s \in free : m <= s
  <2>1. free \in SUBSET Nat
    BY <1>1
  <2> QED
    BY <1>3, <2>1, LeastNat, Zenon
<1>5. \A t \in 0 .. (m - 1) : t \in taken
  BY <1>1, <1>4
<1>6. /\ LowestFreeSeat(members) \in 0 .. n
      /\ LowestFreeSeat(members) \notin taken
  BY <1>4, <1>5 DEF LowestFreeSeat
<1> QED
  BY <1>1, <1>6

-----------------------------------------------------------------------------

IInv == GoodRoom(room)

-----------------------------------------------------------------------------
(* Lists of hands. *)

(* The list of hands after a change to the last one. *)
LEMMA LastReplaced ==
    ASSUME NEW hs \in Seq(HandStates), NEW x \in HandStates, Len(hs) > 0
    PROVE  LET ts == [hs EXCEPT ![Len(hs)] = x]
           IN  /\ ts \in Seq(HandStates)
               /\ Len(ts) = Len(hs)
               /\ ts[Len(hs)] = x
               /\ \A i \in 1 .. Len(hs) : i < Len(hs) => ts[i] = hs[i]
OBVIOUS

(* The list of hands with one more. *)
LEMMA OneMore ==
    ASSUME NEW hs \in Seq(HandStates), NEW y \in HandStates
    PROVE  LET ts == Append(hs, y)
           IN  /\ ts \in Seq(HandStates)
               /\ Len(ts) = Len(hs) + 1
               /\ ts[Len(hs) + 1] = y
               /\ \A i \in 1 .. Len(hs) : ts[i] = hs[i]
OBVIOUS

\* The list hs with x as its last hand, and y after it.
Grown(ts, hs, x, y) ==
    /\ ts \in Seq(HandStates)
    /\ Len(ts) = Len(hs) + 1
    /\ ts[Len(hs)] = x /\ ts[Len(hs) + 1] = y
    /\ \A i \in 1 .. Len(hs) : i < Len(hs) => ts[i] = hs[i]

LEMMA ReplacedAndOneMore ==
    ASSUME NEW hs \in Seq(HandStates), NEW x \in HandStates, NEW y \in HandStates, Len(hs) > 0
    PROVE  Grown(Append([hs EXCEPT ![Len(hs)] = x], y), hs, x, y)
<1> DEFINE cs == [hs EXCEPT ![Len(hs)] = x]
<1>1. /\ cs \in Seq(HandStates) /\ Len(cs) = Len(hs) /\ cs[Len(hs)] = x
      /\ \A i \in 1 .. Len(hs) : i < Len(hs) => cs[i] = hs[i]
  BY LastReplaced
<1> HIDE DEF cs
<1>2. /\ Append(cs, y) \in Seq(HandStates)
      /\ Len(Append(cs, y)) = Len(hs) + 1 /\ Append(cs, y)[Len(hs) + 1] = y
      /\ \A i \in 1 .. Len(hs) : Append(cs, y)[i] = cs[i]
  BY <1>1, OneMore
<1>3. Len(hs) \in 1 .. Len(hs)
  OBVIOUS
<1>4. Grown(Append(cs, y), hs, x, y)
  BY <1>1, <1>2, <1>3 DEF Grown
<1> QED
  BY <1>4 DEF cs

(* A hand just opened is open and nobody has won or lost anything in it. *)
LEMMA Opened ==
    ASSUME NEW n \in Nat, NEW wind \in Nat \ {0}, NEW seat \in 0 .. SEAT_COUNT - 1
    PROVE  LET h == HandState(n, wind, seat)
           IN  /\ h \in HandStates
               /\ h.hand_no = n /\ h.wind = wind /\ h.dealer_seat = seat
               /\ h.closed = FALSE
BY DEF HandState, HandStates

-----------------------------------------------------------------------------
(* Seats: four players at four seats are one player at each. *)

(* Distinct seats from 0 to 3 for four players are all the seats. *)
LEMMA SeatsFilled ==
    ASSUME NEW members, IsFiniteSet(DOMAIN members),
           members \in [DOMAIN members -> 0 .. SEAT_COUNT - 1],
           \A p, q \in DOMAIN members : members[p] = members[q] => p = q,
           Cardinality(DOMAIN members) = SEAT_COUNT
    PROVE  AllSeats(members)
<1> DEFINE seats == 0 .. SEAT_COUNT - 1
<1>1. IsFiniteSet(seats) /\ Cardinality(seats) = SEAT_COUNT
  <2>1. /\ 0 \in Int /\ SEAT_COUNT - 1 \in Int
        /\ ~(0 > SEAT_COUNT - 1) /\ SEAT_COUNT - 1 - 0 + 1 = SEAT_COUNT
    BY DEF SEAT_COUNT
  <2> QED
    BY <2>1, FS_Interval
<1>2. members \in Injection(DOMAIN members, seats)
  BY DEF Injection, IsInjective
<1> HIDE DEF seats
<1>3. members \in Surjection(DOMAIN members, seats)
  BY <1>1, <1>2, FS_Injection
<1> QED
  BY <1>3 DEF AllSeats, Surjection, seats

\* The players of a game, seat by seat.
FourSeats(r) ==
    /\ \A seat \in 0 .. 3 : /\ SeatPlayer(r, seat) \in Members(r)
                            /\ r.members[SeatPlayer(r, seat)] = seat
    /\ \A p \in Members(r) : \E seat \in 0 .. 3 : p = SeatPlayer(r, seat)

LEMMA SeatByNumber ==
    ASSUME NEW r, NEW seat, SeatTaken(r, seat)
    PROVE  SeatPlayer(r, seat) \in Members(r) /\ r.members[SeatPlayer(r, seat)] = seat
BY DEF SeatTaken, SeatPlayer

(* At a full table SeatPlayer finds the one player of each seat. *)
LEMMA SeatsOfGame ==
    ASSUME NEW r, IsRoom(r), Seated(r), r.status \in {"in_progress", "ended"}
    PROVE  FourSeats(r)
<1>1. \A seat \in 0 .. 3 : SeatTaken(r, seat)
  BY DEF Seated, AllSeats, SeatTaken, Members, SEAT_COUNT
<1>2. \A seat \in 0 .. 3 : /\ SeatPlayer(r, seat) \in Members(r)
                           /\ r.members[SeatPlayer(r, seat)] = seat
  BY <1>1, SeatByNumber, Zenon
<1>3. ASSUME NEW p \in Members(r)
      PROVE  \E seat \in 0 .. 3 : p = SeatPlayer(r, seat)
  <2>1. r.members[p] \in 0 .. 3
    BY DEF IsRoom, SEAT_COUNT
  <2> QED
    BY <1>2, <2>1 DEF Seated
<1> QED
  BY <1>2, <1>3 DEF FourSeats

-----------------------------------------------------------------------------
(* Payments: what one player gets the others pay. *)

\* Payments between the four players of a game that add up to nothing.
Fair(paid, r) ==
    /\ paid \in [Player -> Int]
    /\ paid[SeatPlayer(r, 0)] + paid[SeatPlayer(r, 1)]
       + paid[SeatPlayer(r, 2)] + paid[SeatPlayer(r, 3)] = 0

(* One player pays another. *)
LEMMA ChargeOne ==
    ASSUME NEW r, FourSeats(r), Members(r) \subseteq Player,
           NEW p \in Members(r), NEW q \in Members(r), p # q, NEW amount \in Int
    PROVE  Fair(Charge({q}, p, amount), r)
<1> DEFINE paid == Charge({q}, p, amount)
           sp(seat) == SeatPlayer(r, seat)
<1>1. Cardinality({q}) = 1
  BY FS_Singleton
<1>2. paid = [x \in Player |-> IF x = q THEN -amount ELSE IF x = p THEN amount ELSE 0]
  BY <1>1 DEF Charge
<1>3. /\ sp(0) \in Player /\ sp(1) \in Player /\ sp(2) \in Player /\ sp(3) \in Player
      /\ sp(0) # sp(1) /\ sp(0) # sp(2) /\ sp(0) # sp(3)
      /\ sp(1) # sp(2) /\ sp(1) # sp(3) /\ sp(2) # sp(3)
  BY DEF FourSeats
<1>4. /\ p \in {sp(0), sp(1), sp(2), sp(3)}
      /\ q \in {sp(0), sp(1), sp(2), sp(3)}
  BY DEF FourSeats
<1> HIDE DEF paid, sp
<1>5. paid \in [Player -> Int]
  BY <1>2
<1>6. paid[sp(0)] + paid[sp(1)] + paid[sp(2)] + paid[sp(3)] = 0
  BY <1>2, <1>3, <1>4
<1> QED
  BY <1>5, <1>6 DEF Fair, paid, sp

(* The three others pay one player. *)
LEMMA ChargeOthers ==
    ASSUME NEW r, FourSeats(r), Members(r) \subseteq Player,
           NEW p \in Members(r), NEW amount \in Int
    PROVE  Fair(Charge(Others(r, p), p, amount), r)
<1> DEFINE paid == Charge(Others(r, p), p, amount)
           sp(seat) == SeatPlayer(r, seat)
<1>1. /\ sp(0) \in Player /\ sp(1) \in Player /\ sp(2) \in Player /\ sp(3) \in Player
      /\ sp(0) # sp(1) /\ sp(0) # sp(2) /\ sp(0) # sp(3)
      /\ sp(1) # sp(2) /\ sp(1) # sp(3) /\ sp(2) # sp(3)
  BY DEF FourSeats
<1>2. Members(r) = {sp(0), sp(1), sp(2), sp(3)}
  BY DEF FourSeats
<1> HIDE DEF sp
<1>3. PICK a, b, c : Others(r, p) = {a, b, c} /\ a # b /\ a # c /\ b # c
  <2>1. CASE p = sp(0)
    <3>1. Others(r, p) = {sp(1), sp(2), sp(3)}
      BY <1>1, <1>2, <2>1 DEF Others
    <3> QED
      BY <1>1, <3>1
  <2>2. CASE p = sp(1)
    <3>1. Others(r, p) = {sp(0), sp(2), sp(3)}
      BY <1>1, <1>2, <2>2 DEF Others
    <3> QED
      BY <1>1, <3>1
  <2>3. CASE p = sp(2)
    <3>1. Others(r, p) = {sp(0), sp(1), sp(3)}
      BY <1>1, <1>2, <2>3 DEF Others
    <3> QED
      BY <1>1, <3>1
  <2>4. CASE p = sp(3)
    <3>1. Others(r, p) = {sp(0), sp(1), sp(2)}
      BY <1>1, <1>2, <2>4 DEF Others
    <3> QED
      BY <1>1, <3>1
  <2> QED
    BY <1>2, <2>1, <2>2, <2>3, <2>4
<1>4. Cardinality(Others(r, p)) = 3
  <2>1. IsFiniteSet({a}) /\ Cardinality({a}) = 1
    BY FS_Singleton
  <2>2. IsFiniteSet({a} \cup {b}) /\ Cardinality({a} \cup {b}) = 2
    BY <1>3, <2>1, FS_AddElement
  <2>3. Cardinality(({a} \cup {b}) \cup {c}) = 3
    BY <1>3, <2>2, FS_AddElement
  <2>4. {a, b, c} = ({a} \cup {b}) \cup {c}
    OBVIOUS
  <2> QED
    BY <1>3, <2>3, <2>4
<1>5. paid = [x \in Player |-> IF x \in Others(r, p) THEN -amount
                               ELSE IF x = p THEN amount * 3 ELSE 0]
  BY <1>4 DEF Charge
<1> HIDE DEF paid
<1>6. paid \in [Player -> Int]
  BY <1>5
<1>7. paid[p] = amount * 3 /\ \A x \in Members(r) : x # p => paid[x] = -amount
  BY <1>5 DEF Others
<1>8. paid[sp(0)] + paid[sp(1)] + paid[sp(2)] + paid[sp(3)] = 0
  BY <1>1, <1>2, <1>7
<1> QED
  BY <1>6, <1>8 DEF Fair, paid, sp

(* The amounts of the rules, with what was asked for put in, are whole numbers. *)
LEMMA Amounts ==
    ASSUME NEW rules \in RuleChoices
    PROVE  /\ rules.cents_per_unit \in Int
           /\ \A an \in BOOLEAN : yao_amount(rules, an) \in Int
           /\ gang_amount_self(rules) \in Int
           /\ gang_amount_other(rules) \in Int
           /\ gang_amount_angang(rules) \in Int
           /\ rules.zimo_bonus_amount \in Int
           /\ klppdd_amount_each(rules) \in Int
           /\ klppdd_amount_single_payer(rules) \in Int
           /\ \A tai \in Int : 1 <= tai /\ tai <= rules.max_tai =>
                /\ hu_amount_direct(rules, tai) \in Int
                /\ hu_amount_zimo_each(rules, tai) \in Int
                /\ hu_amount_bao(rules, tai) \in Int
<1>1. ValidRules(rules)
  BY InputAssumption
<1>2. /\ rules.cents_per_unit \in Int /\ rules.yao_amount \in Int /\ rules.gang_amount \in Int
      /\ rules.zimo_bonus_amount \in Int /\ rules.klppdd_amount \in Int
      /\ rules.max_tai \in Int
  BY <1>1 DEF ValidRules, MAX_TAI
<1>3. /\ \A an \in BOOLEAN : yao_amount(rules, an) \in Int
      /\ gang_amount_self(rules) \in Int /\ gang_amount_other(rules) \in Int
      /\ gang_amount_angang(rules) \in Int
      /\ klppdd_amount_each(rules) \in Int /\ klppdd_amount_single_payer(rules) \in Int
  BY <1>2 DEF yao_amount, gang_amount_self, gang_amount_other, gang_amount_angang,
              klppdd_amount_each, klppdd_amount_single_payer
<1>4. ASSUME NEW tai \in Int, 1 <= tai, tai <= rules.max_tai
      PROVE  /\ hu_amount_direct(rules, tai) \in Int
             /\ hu_amount_zimo_each(rules, tai) \in Int
             /\ hu_amount_bao(rules, tai) \in Int
  <2>1. tai \in DOMAIN rules.tai_table
    BY <1>1, <1>2, <1>4 DEF ValidRules
  <2>2. rules.tai_table[tai].hu \in Int /\ rules.tai_table[tai].zimo \in Int
    BY <1>1, <2>1 DEF ValidRules
  <2> QED
    BY <2>2 DEF hu_amount_direct, hu_amount_zimo_each, hu_amount_bao
<1> QED
  BY <1>2, <1>3, <1>4

(* Every declaration in a game is fair, whoever has to pay for it. *)
LEMMA FairYao ==
    ASSUME NEW r, FourSeats(r), Members(r) \subseteq Player, r.rules \in RuleChoices,
           NEW p \in Members(r), NEW seat, SeatTaken(r, seat), NEW an \in BOOLEAN
    PROVE  Fair(Yao(r, p, seat, an), r)
<1>1. SeatPlayer(r, seat) \in Members(r) /\ yao_amount(r.rules, an) \in Int
  BY SeatByNumber, Amounts
<1>2. CASE SeatPlayer(r, seat) = p
  BY <1>1, <1>2, ChargeOthers DEF Yao
<1>3. CASE SeatPlayer(r, seat) # p
  BY <1>1, <1>3, ChargeOne DEF Yao
<1> QED
  BY <1>2, <1>3

LEMMA FairGang ==
    ASSUME NEW r, FourSeats(r), Members(r) \subseteq Player, r.rules \in RuleChoices,
           NEW p \in Members(r)
    PROVE  /\ Fair(Angang(r, p), r)
           /\ \A seat : SeatTaken(r, seat) => Fair(Gang(r, p, seat), r)
<1>1. /\ gang_amount_self(r.rules) \in Int /\ gang_amount_other(r.rules) \in Int
      /\ gang_amount_angang(r.rules) \in Int
  BY Amounts
<1>2. Fair(Angang(r, p), r)
  BY <1>1, ChargeOthers DEF Angang
<1>3. ASSUME NEW seat, SeatTaken(r, seat)
      PROVE  Fair(Gang(r, p, seat), r)
  <2>1. SeatPlayer(r, seat) \in Members(r)
    BY <1>3, SeatByNumber
  <2>2. CASE SeatPlayer(r, seat) = p
    BY <1>1, <2>2, ChargeOthers DEF Gang
  <2>3. CASE SeatPlayer(r, seat) # p
    BY <1>1, <2>1, <2>3, ChargeOne DEF Gang
  <2> QED
    BY <2>2, <2>3
<1> QED
  BY <1>2, <1>3

LEMMA FairHu ==
    ASSUME NEW r, FourSeats(r), Members(r) \subseteq Player, r.rules \in RuleChoices,
           NEW p \in Members(r), NEW h, h.tai \in Int, CanHu(r, p, h)
    PROVE  Fair(Hu(r, p, h), r)
<1>1. h.tai \in Int /\ 1 <= h.tai /\ h.tai <= r.rules.max_tai
  BY DEF CanHu
<1>2. /\ r.rules.zimo_bonus_amount \in Int
      /\ klppdd_amount_each(r.rules) \in Int /\ klppdd_amount_single_payer(r.rules) \in Int
      /\ hu_amount_direct(r.rules, h.tai) \in Int
      /\ hu_amount_zimo_each(r.rules, h.tai) \in Int
      /\ hu_amount_bao(r.rules, h.tai) \in Int
  BY <1>1, Amounts
<1>3. CASE h.mode = "zimo"
  <2> DEFINE amount == hu_amount_zimo_each(r.rules, h.tai)
                       + (IF h.zimo_bonus THEN r.rules.zimo_bonus_amount ELSE 0)
                       + (IF h.klppdd THEN klppdd_amount_each(r.rules) ELSE 0)
  <2>1. amount \in Int
    BY <1>2
  <2>2. Hu(r, p, h) = Charge(Others(r, p), p, amount)
    BY <1>3 DEF Hu
  <2> HIDE DEF amount
  <2> QED
    BY <2>1, <2>2, ChargeOthers
<1>4. CASE h.mode # "zimo"
  <2> DEFINE amount == (IF h.mode = "direct" THEN hu_amount_direct(r.rules, h.tai)
                        ELSE hu_amount_bao(r.rules, h.tai))
                       + (IF h.klppdd THEN klppdd_amount_single_payer(r.rules) ELSE 0)
  <2>1. amount \in Int
    BY <1>2
  <2>2. Hu(r, p, h) = Charge({SeatPlayer(r, h.target_seat)}, p, amount)
    BY <1>4 DEF Hu
  <2>3. SeatPlayer(r, h.target_seat) \in Members(r) /\ SeatPlayer(r, h.target_seat) # p
    BY <1>4, SeatByNumber DEF CanHu
  <2> HIDE DEF amount
  <2> QED
    BY <2>1, <2>2, <2>3, ChargeOne
<1> QED
  BY <1>3, <1>4

(* Multiplying out four amounts that add up to nothing. *)
LEMMA StillNothing ==
    ASSUME NEW a \in Int, NEW b \in Int, NEW c \in Int, NEW d \in Int, NEW m \in Int,
           a + b + c + d = 0
    PROVE  /\ a * m \in Int /\ b * m \in Int /\ c * m \in Int /\ d * m \in Int
           /\ a * m + b * m + c * m + d * m = 0
<1>1. (a + b + c + d) * m = a * m + b * m + c * m + d * m
  OBVIOUS
<1> QED
  BY <1>1

(* Crediting fair payments keeps the balances balanced, and a hand's account whole. *)
LEMMA FairlyCredited ==
    ASSUME NEW r, IsRoom(r), FourSeats(r), r.rules \in RuleChoices,
           NEW hand \in HandStates, hand = Current(r),
           AtSeat(r, 0) + AtSeat(r, 1) + AtSeat(r, 2) + AtSeat(r, 3) = 0,
           NEW paid, Fair(paid, r)
    PROVE  /\ InHand(r, paid) \in [Player -> Int]
           /\ Credited(r, paid) \in [Members(r) -> Int]
           /\ Credited(r, paid)[SeatPlayer(r, 0)] + Credited(r, paid)[SeatPlayer(r, 1)]
              + Credited(r, paid)[SeatPlayer(r, 2)] + Credited(r, paid)[SeatPlayer(r, 3)] = 0
<1> DEFINE m == r.rules.cents_per_unit
           sp(seat) == SeatPlayer(r, seat)
<1>1. m \in Int
  BY Amounts
<1>2. \A a, b \in Int : a * b \in Int
  OBVIOUS
<1>3. /\ paid \in [Player -> Int] /\ r.balances \in [Members(r) -> Int]
      /\ Members(r) \subseteq Player /\ hand.paid \in [Player -> Int]
  BY DEF Fair, IsRoom, HandStates
<1>4. /\ InHand(r, paid) = [p \in Player |-> hand.paid[p] + paid[p] * m]
      /\ Credited(r, paid) = [p \in Members(r) |-> r.balances[p] + paid[p] * m]
  BY <1>3 DEF InHand, Credited
<1>5. sp(0) \in Members(r) /\ sp(1) \in Members(r) /\ sp(2) \in Members(r) /\ sp(3) \in Members(r)
  BY DEF FourSeats
<1>6. /\ r.balances[sp(0)] + r.balances[sp(1)] + r.balances[sp(2)] + r.balances[sp(3)] = 0
      /\ paid[sp(0)] + paid[sp(1)] + paid[sp(2)] + paid[sp(3)] = 0
  BY DEF AtSeat, Fair
<1> HIDE DEF m, sp
<1>7. InHand(r, paid) \in [Player -> Int] /\ Credited(r, paid) \in [Members(r) -> Int]
  <2>1. \A p \in Player : paid[p] * m \in Int
    BY <1>1, <1>2, <1>3
  <2> QED
    BY <1>3, <1>4, <2>1
<1>8. /\ paid[sp(0)] \in Int /\ paid[sp(1)] \in Int /\ paid[sp(2)] \in Int /\ paid[sp(3)] \in Int
      /\ r.balances[sp(0)] \in Int /\ r.balances[sp(1)] \in Int
      /\ r.balances[sp(2)] \in Int /\ r.balances[sp(3)] \in Int
  BY <1>3, <1>5
<1>9. /\ paid[sp(0)] * m \in Int /\ paid[sp(1)] * m \in Int
      /\ paid[sp(2)] * m \in Int /\ paid[sp(3)] * m \in Int
      /\ paid[sp(0)] * m + paid[sp(1)] * m + paid[sp(2)] * m + paid[sp(3)] * m = 0
  <2> DEFINE a == paid[sp(0)]
             b == paid[sp(1)]
             c == paid[sp(2)]
             d == paid[sp(3)]
  <2>1. a \in Int /\ b \in Int /\ c \in Int /\ d \in Int /\ a + b + c + d = 0
    BY <1>6, <1>8
  <2> HIDE DEF a, b, c, d
  <2>2. /\ a * m \in Int /\ b * m \in Int /\ c * m \in Int /\ d * m \in Int
        /\ a * m + b * m + c * m + d * m = 0
    BY <1>1, <2>1, StillNothing
  <2> QED
    BY <2>2 DEF a, b, c, d
<1>10. \A seat \in {0, 1, 2, 3} :
          Credited(r, paid)[sp(seat)] = r.balances[sp(seat)] + paid[sp(seat)] * m
  BY <1>4, <1>5
<1>11. Credited(r, paid)[sp(0)] + Credited(r, paid)[sp(1)]
       + Credited(r, paid)[sp(2)] + Credited(r, paid)[sp(3)] = 0
  BY <1>6, <1>8, <1>9, <1>10
<1> QED
  BY <1>7, <1>11 DEF sp

-----------------------------------------------------------------------------
(* The lobby. *)

(* In a lobby there are no hands, and so no order of them. *)
LEMMA NoHands ==
    ASSUME NEW r, r.hands = << >>, r.status # "in_progress", r.pending_wind_decision = FALSE
    PROVE  Ordered(r) /\ Dealt(r)
BY DEF Ordered, Dealt, Last

\* s is the lobby r with other members.
SameLobby(s, r) ==
    /\ DOMAIN s = DOMAIN r
    /\ s.status = r.status /\ s.seq = r.seq + 1 /\ s.host_id = r.host_id
    /\ s.rules = r.rules /\ s.hands = r.hands
    /\ s.pending_wind_decision = r.pending_wind_decision

LEMMA JoinedGood ==
    ASSUME NEW r, GoodRoom(r), NEW p \in Player, CanJoin(r, p)
    PROVE  GoodRoom(PlayerJoined(r, p))
<1> DEFINE s == PlayerJoined(r, p)
           seat == LowestFreeSeat(r.members)
<1>1. IsFiniteSet(Members(r)) /\ Cardinality(Members(r)) \in Nat /\ Cardinality(Members(r)) < SEAT_COUNT
  BY PlayerAssumption, FS_Subset, FS_CardinalityType DEF GoodRoom, IsRoom, CanJoin
<1>2. r.members \in [DOMAIN r.members -> 0 .. SEAT_COUNT - 1]
  BY DEF GoodRoom, IsRoom, Members
<1>3. /\ seat \in 0 .. SEAT_COUNT - 1
      /\ \A q \in Members(r) : r.members[q] # seat
  <2>1. r.members \in [DOMAIN r.members -> Nat]
    BY <1>2 DEF SEAT_COUNT
  <2>2. /\ seat \in Nat /\ seat <= Cardinality(Members(r))
        /\ \A q \in Members(r) : r.members[q] # seat
    BY <1>1, <2>1, FreeSeat DEF Members
  <2> QED
    BY <1>1, <2>2 DEF SEAT_COUNT
<1> HIDE DEF seat
<1>4. /\ SameLobby(s, r) /\ s.members = With(r.members, p, seat)
      /\ s.balances = With(r.balances, p, 0)
  BY DEF PlayerJoined, GoodRoom, IsRoom, SameLobby, seat
<1> HIDE DEF s
<1>5. /\ Members(s) = Members(r) \cup {p}
      /\ s.members \in [Members(s) -> 0 .. SEAT_COUNT - 1]
      /\ s.balances \in [Members(s) -> Int]
      /\ \A q \in Members(r) : s.members[q] = r.members[q] /\ s.balances[q] = r.balances[q]
      /\ s.members[p] = seat /\ s.balances[p] = 0
  <2>1. /\ s.members = [q \in Members(r) \cup {p} |-> IF q = p THEN seat ELSE r.members[q]]
        /\ s.balances = [q \in Members(r) \cup {p} |-> IF q = p THEN 0 ELSE r.balances[q]]
        /\ r.balances \in [Members(r) -> Int] /\ p \notin Members(r)
    BY <1>4 DEF With, Members, GoodRoom, IsRoom, CanJoin
  <2>2. Members(s) = Members(r) \cup {p}
    BY <2>1 DEF Members
  <2>3. r.members \in [Members(r) -> 0 .. SEAT_COUNT - 1]
    BY <1>2 DEF Members
  <2> QED
    BY <1>3, <2>1, <2>2, <2>3
<1>6. /\ r.status = "lobby" /\ p \notin Members(r)
      /\ r.hands = << >> /\ r.pending_wind_decision = FALSE
  BY DEF CanJoin, GoodRoom, IsRoom, Ordered
<1>7. IsRoom(s)
  BY <1>4, <1>5 DEF GoodRoom, IsRoom, SameLobby
<1>8. Seated(s)
  BY <1>3, <1>4, <1>5, <1>6 DEF GoodRoom, Seated, SameLobby
<1>9. Ordered(s) /\ Dealt(s)
  BY <1>4, <1>6, NoHands DEF SameLobby
<1>10. Balanced(s)
  BY <1>4, <1>5, <1>6 DEF GoodRoom, Balanced, SameLobby
<1> QED
  BY <1>7, <1>8, <1>9, <1>10 DEF GoodRoom, s

LEMMA LeftGood ==
    ASSUME NEW r, GoodRoom(r), NEW p \in Player, r.status = "lobby", p # r.host_id
    PROVE  GoodRoom(PlayerLeft(r, p))
<1> DEFINE s == PlayerLeft(r, p)
<1>1. /\ SameLobby(s, r) /\ s.members = Without(r.members, p)
      /\ s.balances = Without(r.balances, p)
  BY DEF PlayerLeft, GoodRoom, IsRoom, SameLobby
<1> HIDE DEF s
<1>2. /\ Members(s) = Members(r) \ {p}
      /\ s.members \in [Members(s) -> 0 .. SEAT_COUNT - 1]
      /\ s.balances \in [Members(s) -> Int]
      /\ \A q \in Members(s) : s.members[q] = r.members[q] /\ s.balances[q] = r.balances[q]
  BY <1>1 DEF Without, Members, GoodRoom, IsRoom
<1>3. r.hands = << >> /\ r.pending_wind_decision = FALSE
  BY DEF GoodRoom, IsRoom, Ordered
<1>4. IsRoom(s)
  BY <1>1, <1>2 DEF GoodRoom, IsRoom, SameLobby
<1>5. Seated(s) /\ Balanced(s)
  BY <1>1, <1>2 DEF GoodRoom, Seated, Balanced, SameLobby
<1>6. Ordered(s) /\ Dealt(s)
  BY <1>1, <1>3, NoHands DEF SameLobby
<1> QED
  BY <1>4, <1>5, <1>6 DEF GoodRoom, s

LEMMA DisbandedGood ==
    ASSUME NEW r, GoodRoom(r), r.status = "lobby"
    PROVE  GoodRoom(RoomDisbanded(r))
<1> DEFINE s == RoomDisbanded(r)
<1>1. /\ DOMAIN s = DOMAIN r
      /\ s.status = "disbanded" /\ s.seq = r.seq + 1 /\ s.host_id = r.host_id
      /\ s.members = r.members /\ s.rules = r.rules /\ s.hands = r.hands
      /\ s.balances = r.balances /\ s.pending_wind_decision = r.pending_wind_decision
  BY DEF RoomDisbanded, GoodRoom, IsRoom
<1> HIDE DEF s
<1>2. r.hands = << >> /\ r.pending_wind_decision = FALSE
  BY DEF GoodRoom, IsRoom, Ordered
<1>3. IsRoom(s) /\ Members(s) = Members(r)
  BY <1>1 DEF GoodRoom, IsRoom, Members, Statuses
<1>4. Seated(s) /\ Balanced(s)
  BY <1>1, <1>3 DEF GoodRoom, Seated, Balanced
<1>5. Ordered(s) /\ Dealt(s)
  BY <1>1, <1>2, NoHands
<1> QED
  BY <1>3, <1>4, <1>5 DEF GoodRoom, s

LEMMA ReseatedGood ==
    ASSUME NEW r, GoodRoom(r), NEW host, NEW seat_map, CanAssignSeats(r, host, seat_map)
    PROVE  GoodRoom(SeatsAssigned(r, seat_map))
<1> DEFINE s == SeatsAssigned(r, seat_map)
           merged == Reseated(r.members, seat_map)
<1>1. /\ SameLobby(s, r) /\ s.members = merged /\ s.balances = r.balances
  BY DEF SeatsAssigned, GoodRoom, IsRoom, SameLobby
<1>2. DOMAIN merged = Members(r) /\ AllSeats(merged) /\ merged = [p \in DOMAIN merged |-> merged[p]]
  BY DEF CanAssignSeats, Reseated, Members
<1>3. IsFiniteSet(Members(r)) /\ Cardinality(Members(r)) = SEAT_COUNT
  BY PlayerAssumption, FS_Subset DEF GoodRoom, IsRoom, CanAssignSeats
<1> HIDE DEF s, merged
<1>4. /\ merged \in [Members(r) -> 0 .. SEAT_COUNT - 1]
      /\ \A p, q \in Members(r) : merged[p] = merged[q] => p = q
  <2>1. merged \in Surjection(Members(r), 0 .. SEAT_COUNT - 1)
    BY <1>2 DEF Surjection, AllSeats
  <2>2. Cardinality(0 .. SEAT_COUNT - 1) = SEAT_COUNT
    <3>1. /\ 0 \in Int /\ SEAT_COUNT - 1 \in Int
          /\ ~(0 > SEAT_COUNT - 1) /\ SEAT_COUNT - 1 - 0 + 1 = SEAT_COUNT
      BY DEF SEAT_COUNT
    <3> QED
      BY <3>1, FS_Interval
  <2>3. merged \in Injection(Members(r), 0 .. SEAT_COUNT - 1)
    BY <1>3, <2>1, <2>2, FS_Surjection
  <2> QED
    BY <2>3 DEF Injection, IsInjective
<1>5. Members(s) = Members(r) /\ r.status = "lobby"
  BY <1>1, <1>2 DEF Members, CanAssignSeats
<1>6. r.hands = << >> /\ r.pending_wind_decision = FALSE
  BY <1>5 DEF GoodRoom, IsRoom, Ordered
<1>7. IsRoom(s)
  BY <1>1, <1>4, <1>5 DEF GoodRoom, IsRoom, SameLobby
<1>8. Seated(s) /\ Balanced(s)
  BY <1>1, <1>4, <1>5 DEF GoodRoom, Seated, Balanced, SameLobby
<1>9. Ordered(s) /\ Dealt(s)
  BY <1>1, <1>5, <1>6, NoHands DEF SameLobby
<1> QED
  BY <1>7, <1>8, <1>9 DEF GoodRoom, s

LEMMA StartedGood ==
    ASSUME NEW r, GoodRoom(r), NEW host \in Player, NEW rules \in RuleChoices,
           CanStart(r, host)
    PROVE  GoodRoom(GameStarted(r, rules))
<1> DEFINE s == GameStarted(r, rules)
           h == HandState(1, 1, 0)
<1>1. /\ DOMAIN s = DOMAIN r
      /\ s.status = "in_progress" /\ s.seq = r.seq + 1 /\ s.host_id = r.host_id
      /\ s.members = r.members /\ s.rules = rules /\ s.hands = <<h>>
      /\ s.balances = r.balances /\ s.pending_wind_decision = r.pending_wind_decision
  BY DEF GameStarted, GoodRoom, IsRoom
<1>2. h \in HandStates /\ h.hand_no = 1 /\ h.wind = 1 /\ h.dealer_seat = 0 /\ h.closed = FALSE
  <2>1. 1 \in Nat /\ 1 \in Nat \ {0} /\ 0 \in 0 .. SEAT_COUNT - 1
    BY DEF SEAT_COUNT
  <2> QED
    BY <2>1 DEF HandState, HandStates
<1> HIDE DEF s, h
<1>3. /\ s.hands \in Seq(HandStates) /\ Last(s) = 1 /\ s.hands[1] = h /\ Current(s) = h
      /\ Members(s) = Members(r)
  BY <1>1, <1>2 DEF Last, Current, Members
<1>4. /\ r.status = "lobby" /\ AllSeats(r.members) /\ r.pending_wind_decision = FALSE
      /\ \A p \in Members(r) : r.balances[p] = 0
  BY DEF CanStart, GoodRoom, IsRoom, Ordered, Balanced
<1>5. IsRoom(s)
  BY <1>1, <1>3, <1>4 DEF GoodRoom, IsRoom, Statuses
<1>6. Seated(s)
  BY <1>1, <1>3, <1>4 DEF GoodRoom, Seated
<1>7. Ordered(s)
  BY <1>1, <1>2, <1>3, <1>4 DEF Ordered
<1>8. Dealt(s)
  BY <1>2, <1>3 DEF Dealt, Position, SEAT_COUNT
<1>9. Balanced(s)
  <2>1. \A seat \in 0 .. 3 : SeatPlayer(s, seat) \in Members(s)
    BY <1>1, <1>5, <1>6, SeatsOfGame DEF FourSeats
  <2>2. AtSeat(s, 0) = 0 /\ AtSeat(s, 1) = 0 /\ AtSeat(s, 2) = 0 /\ AtSeat(s, 3) = 0
    BY <1>1, <1>3, <1>4, <2>1 DEF AtSeat
  <2> QED
    BY <1>1, <2>2 DEF Balanced
<1> QED
  BY <1>5, <1>6, <1>7, <1>8, <1>9 DEF GoodRoom, s

-----------------------------------------------------------------------------
(* The game.  A declaration changes the last hand; a win or a no-win hand  *)
(* closes it, and most open the next one.                                  *)

\* Nobody comes, goes or moves, and what one wins the others lose.
SameTable(s, r) ==
    /\ DOMAIN s = DOMAIN r
    /\ s.status \in {"in_progress", "ended"} /\ s.seq \in Nat /\ s.host_id = r.host_id
    /\ s.members = r.members /\ s.rules = r.rules
    /\ s.balances \in [Members(r) -> Int]
    /\ s.balances[SeatPlayer(r, 0)] + s.balances[SeatPlayer(r, 1)]
       + s.balances[SeatPlayer(r, 2)] + s.balances[SeatPlayer(r, 3)] = 0

\* The hands of r that were closed are in s as they were.
ClosedKept(s, r) ==
    /\ Last(s) >= Last(r)
    /\ \A i \in 1 .. Last(r) : r.hands[i].closed => s.hands[i] = r.hands[i]

LEMMA TableKept ==
    ASSUME NEW r, GoodRoom(r), r.status = "in_progress",
           NEW s, SameTable(s, r), s.hands \in Seq(HandStates),
           s.pending_wind_decision \in BOOLEAN
    PROVE  IsRoom(s) /\ Seated(s) /\ Balanced(s)
<1>1. Members(s) = Members(r) /\ \A seat : SeatPlayer(s, seat) = SeatPlayer(r, seat)
  BY DEF SameTable, Members, SeatPlayer
<1>2. IsRoom(s)
  BY <1>1 DEF GoodRoom, IsRoom, SameTable, Statuses
<1>3. Seated(s)
  BY <1>1 DEF GoodRoom, Seated, SameTable
<1>4. Balanced(s)
  BY <1>1 DEF SameTable, Balanced, AtSeat
<1> QED
  BY <1>2, <1>3, <1>4

(* The open hand of a running game, unless the host has to decide. *)
LEMMA LastHand ==
    ASSUME NEW r, GoodRoom(r), r.status = "in_progress"
    PROVE  /\ r.hands \in Seq(HandStates) /\ Last(r) \in Nat /\ Last(r) > 0
           /\ Current(r) \in HandStates /\ Current(r).hand_no = Last(r)
           /\ Current(r).closed = r.pending_wind_decision
           /\ r.rules \in RuleChoices /\ FourSeats(r) /\ Members(r) \subseteq Player
<1>1. r.hands \in Seq(HandStates) /\ Last(r) \in Nat /\ Last(r) > 0
  BY DEF GoodRoom, IsRoom, Ordered, Last
<1>2. Current(r) \in HandStates /\ Current(r).hand_no = Last(r)
  BY <1>1 DEF GoodRoom, Ordered, Current, Last
<1>3. Current(r).closed = r.pending_wind_decision
  BY <1>2 DEF GoodRoom, Ordered, IsRoom, HandStates
<1> QED
  BY <1>1, <1>2, <1>3, SeatsOfGame DEF GoodRoom, IsRoom

(* A change to the open hand that leaves it open. *)
LEMMA OpenHandChanged ==
    ASSUME NEW r, GoodRoom(r), r.status = "in_progress", ~Current(r).closed,
           NEW x \in HandStates, x.hand_no = Last(r), x.wind = Current(r).wind,
           x.dealer_seat = Current(r).dealer_seat, ~x.closed,
           NEW s, SameTable(s, r), s.status = "in_progress",
           s.hands = [r.hands EXCEPT ![Last(r)] = x],
           s.pending_wind_decision = r.pending_wind_decision
    PROVE  GoodRoom(s) /\ ClosedKept(s, r)
<1>1. r.hands \in Seq(HandStates) /\ Last(r) \in Nat /\ Last(r) > 0 /\ r.pending_wind_decision = FALSE
  BY LastHand DEF GoodRoom, IsRoom
<1>2. /\ s.hands \in Seq(HandStates) /\ Last(s) = Last(r) /\ Current(s) = x
      /\ \A i \in 1 .. Last(r) : i < Last(r) => s.hands[i] = r.hands[i]
  BY <1>1, LastReplaced DEF Last, Current
<1>3. Ordered(s)
  <2>1. \A i \in 1 .. Last(s) : /\ s.hands[i].hand_no = i
                                /\ i < Last(s) => s.hands[i].closed
    BY <1>1, <1>2 DEF GoodRoom, Ordered, Current
  <2> QED
    BY <1>1, <1>2, <2>1 DEF Ordered
<1>4. \A i \in 1 .. Last(r) : Position(s.hands[i]) = Position(r.hands[i])
  BY <1>1, <1>2 DEF Position, Current
<1>5. Dealt(s)
  <2>1. ASSUME NEW i \in 1 .. Last(r) - 1
        PROVE  PassesDeal(s.hands[i], s.members) = PassesDeal(r.hands[i], r.members)
    BY <1>1, <1>2 DEF SameTable
  <2> QED
    BY <1>1, <1>2, <1>4, <2>1 DEF GoodRoom, Dealt
<1>6. ClosedKept(s, r)
  BY <1>1, <1>2 DEF ClosedKept, Current
<1> QED
  BY <1>1, <1>2, <1>3, <1>5, <1>6, TableKept DEF GoodRoom

(* The last hand closed by a win that leaves the host to decide. *)
LEMMA WindEnded ==
    ASSUME NEW r, GoodRoom(r), r.status = "in_progress", ~Current(r).closed,
           NEW x \in HandStates, x.hand_no = Last(r), x.wind = Current(r).wind,
           x.dealer_seat = Current(r).dealer_seat, x.closed, x.winner # None, is_final_hand(x),
           NEW s, SameTable(s, r), s.status = "in_progress",
           s.hands = [r.hands EXCEPT ![Last(r)] = x],
           s.pending_wind_decision = TRUE
    PROVE  GoodRoom(s) /\ ClosedKept(s, r)
<1>1. r.hands \in Seq(HandStates) /\ Last(r) \in Nat /\ Last(r) > 0
  BY LastHand
<1>2. /\ s.hands \in Seq(HandStates) /\ Last(s) = Last(r) /\ Current(s) = x
      /\ \A i \in 1 .. Last(r) : i < Last(r) => s.hands[i] = r.hands[i]
  BY <1>1, LastReplaced DEF Last, Current
<1>3. Ordered(s)
  <2>1. \A i \in 1 .. Last(s) : /\ s.hands[i].hand_no = i
                                /\ i < Last(s) => s.hands[i].closed
    BY <1>1, <1>2 DEF GoodRoom, Ordered, Current
  <2> QED
    BY <1>1, <1>2, <2>1 DEF Ordered
<1>4. \A i \in 1 .. Last(r) : Position(s.hands[i]) = Position(r.hands[i])
  BY <1>1, <1>2 DEF Position, Current
<1>5. Dealt(s)
  <2>1. ASSUME NEW i \in 1 .. Last(r) - 1
        PROVE  PassesDeal(s.hands[i], s.members) = PassesDeal(r.hands[i], r.members)
    BY <1>1, <1>2 DEF SameTable
  <2> QED
    BY <1>1, <1>2, <1>4, <2>1 DEF GoodRoom, Dealt
<1>6. ClosedKept(s, r)
  BY <1>1, <1>2 DEF ClosedKept, Current
<1> QED
  BY <1>2, <1>3, <1>5, <1>6, TableKept DEF GoodRoom

(* A new hand after a closed one, dealt as the rule says. *)
LEMMA NextHandOpened ==
    ASSUME NEW r, GoodRoom(r), r.status = "in_progress",
           NEW x \in HandStates, x.hand_no = Last(r), x.wind = Current(r).wind,
           x.dealer_seat = Current(r).dealer_seat, x.closed,
           ~Current(r).closed \/ x = Current(r),
           NEW y \in HandStates, y.hand_no = Last(r) + 1, ~y.closed,
           Position(y) = Position(x) + (IF PassesDeal(x, r.members) THEN 1 ELSE 0),
           NEW s, SameTable(s, r), s.status = "in_progress",
           Grown(s.hands, r.hands, x, y),
           s.pending_wind_decision = FALSE
    PROVE  GoodRoom(s) /\ ClosedKept(s, r)
<1>1. PICK n \in Nat : n = Last(r) /\ n > 0 /\ r.hands \in Seq(HandStates)
  BY LastHand
<1>2. r.hands[n] = Current(r)
  BY <1>1 DEF Current
<1>3. /\ s.hands \in Seq(HandStates) /\ Last(s) = n + 1
      /\ s.hands[n + 1] = y /\ s.hands[n] = x
      /\ \A i \in 1 .. n - 1 : s.hands[i] = r.hands[i]
  <2>1. n = Len(r.hands)
    BY <1>1 DEF Last
  <2> QED
    BY <2>1 DEF Grown, Last
<1>4. Current(s) = y
  BY <1>3 DEF Current
<1>5. Ordered(s)
  <2>1. ASSUME NEW i \in 1 .. n + 1
        PROVE  s.hands[i].hand_no = i /\ (i < n + 1 => s.hands[i].closed)
    <3>1. CASE i \in 1 .. n - 1
      <4>1. i \in 1 .. Last(r) /\ i < Last(r) /\ i < n + 1
        BY <1>1, <3>1
      <4>2. r.hands[i].hand_no = i /\ r.hands[i].closed
        BY <4>1 DEF GoodRoom, Ordered
      <4> QED
        BY <1>3, <3>1, <4>2
    <3>2. CASE i = n \/ i = n + 1
      BY <1>1, <1>3, <3>2
    <3> QED
      BY <3>1, <3>2
  <2>2. ~Current(s).closed /\ Last(s) > 0
    BY <1>3, <1>4
  <2> QED
    BY <1>3, <2>1, <2>2 DEF Ordered
<1>6. ASSUME NEW i \in 1 .. n
      PROVE  Position(s.hands[i]) = Position(r.hands[i])
  <2>1. CASE i = n
    BY <1>2, <1>3, <2>1 DEF Position
  <2>2. CASE i \in 1 .. n - 1
    BY <1>3, <2>2
  <2> QED
    BY <2>1, <2>2
<1>7. ASSUME NEW i \in 1 .. n
      PROVE  Position(s.hands[i + 1]) =
                 Position(s.hands[i]) + (IF PassesDeal(s.hands[i], s.members) THEN 1 ELSE 0)
  <2>1. CASE i = n
    BY <1>3, <2>1 DEF SameTable
  <2>2. CASE i \in 1 .. n - 1
    <3>1. i + 1 \in 1 .. n /\ s.hands[i] = r.hands[i]
      BY <1>3, <2>2
    <3>2. Position(r.hands[i + 1]) =
              Position(r.hands[i]) + (IF PassesDeal(r.hands[i], r.members) THEN 1 ELSE 0)
      BY <1>1, <2>2 DEF GoodRoom, Dealt
    <3>3. Position(s.hands[i + 1]) = Position(r.hands[i + 1])
      BY <1>6, <3>1
    <3> QED
      BY <3>1, <3>2, <3>3 DEF SameTable
  <2> QED
    BY <2>1, <2>2
<1>8. Dealt(s)
  <2>1. Position(r.hands[1]) = SEAT_COUNT
    BY <1>1 DEF GoodRoom, Dealt
  <2>2. Position(s.hands[1]) = SEAT_COUNT
    BY <1>1, <1>6, <2>1
  <2>3. Last(s) - 1 = n
    BY <1>3
  <2> QED
    BY <1>7, <2>2, <2>3 DEF Dealt
<1>9. ClosedKept(s, r)
  <2>1. ASSUME NEW i \in 1 .. n, r.hands[i].closed
        PROVE  s.hands[i] = r.hands[i]
    <3>1. CASE i = n
      BY <1>2, <1>3, <2>1, <3>1
    <3>2. CASE i \in 1 .. n - 1
      BY <1>3, <3>2
    <3> QED
      BY <3>1, <3>2
  <2> QED
    BY <1>1, <1>3, <2>1 DEF ClosedKept
<1> QED
  BY <1>3, <1>5, <1>8, <1>9, TableKept DEF GoodRoom

(* What a declaration credits, by the seats of the room it is made in. *)
LEMMA Winnings ==
    ASSUME NEW r, GoodRoom(r), r.status = "in_progress", NEW paid, Fair(paid, r)
    PROVE  /\ InHand(r, paid) \in [Player -> Int]
           /\ Credited(r, paid) \in [Members(r) -> Int]
           /\ Credited(r, paid)[SeatPlayer(r, 0)] + Credited(r, paid)[SeatPlayer(r, 1)]
              + Credited(r, paid)[SeatPlayer(r, 2)] + Credited(r, paid)[SeatPlayer(r, 3)] = 0
<1>1. /\ Current(r) \in HandStates /\ FourSeats(r) /\ r.rules \in RuleChoices
      /\ AtSeat(r, 0) + AtSeat(r, 1) + AtSeat(r, 2) + AtSeat(r, 3) = 0
  BY LastHand DEF GoodRoom, Balanced
<1>2. IsRoom(r)
  BY DEF GoodRoom
<1> QED
  BY <1>1, <1>2, FairlyCredited

LEMMA YaoGood ==
    ASSUME NEW r, GoodRoom(r), NEW p, MayDeclare(r, p), NEW paid, Fair(paid, r)
    PROVE  GoodRoom(YaoDeclared(r, paid)) /\ ClosedKept(YaoDeclared(r, paid), r)
<1> DEFINE s == YaoDeclared(r, paid)
           x == [Current(r) EXCEPT !.paid = InHand(r, paid)]
<1>1. r.status = "in_progress" /\ ~Current(r).closed
  BY DEF MayDeclare
<1>2. Current(r) \in HandStates /\ Current(r).hand_no = Last(r)
  BY <1>1, LastHand
<1>3. /\ DOMAIN s = DOMAIN r
      /\ s.status = r.status /\ s.seq = r.seq + 1 /\ s.host_id = r.host_id
      /\ s.members = r.members /\ s.rules = r.rules
      /\ s.balances = Credited(r, paid) /\ s.hands = [r.hands EXCEPT ![Last(r)] = x]
      /\ s.pending_wind_decision = r.pending_wind_decision
  BY DEF YaoDeclared, GoodRoom, IsRoom
<1> HIDE DEF s, x
<1>4. SameTable(s, r)
  <2>1. /\ Credited(r, paid) \in [Members(r) -> Int]
        /\ Credited(r, paid)[SeatPlayer(r, 0)] + Credited(r, paid)[SeatPlayer(r, 1)]
           + Credited(r, paid)[SeatPlayer(r, 2)] + Credited(r, paid)[SeatPlayer(r, 3)] = 0
    BY <1>1, Winnings
  <2>2. s.seq \in Nat
    BY <1>3 DEF GoodRoom, IsRoom
  <2> QED
    BY <1>1, <1>3, <2>1, <2>2 DEF SameTable
<1>5. /\ x \in HandStates /\ x.hand_no = Last(r) /\ x.wind = Current(r).wind
      /\ x.dealer_seat = Current(r).dealer_seat /\ ~x.closed
  <2>1. InHand(r, paid) \in [Player -> Int]
    BY <1>1, Winnings
  <2> QED
    BY <1>1, <1>2, <2>1 DEF HandStates, x
<1>6. GoodRoom(s) /\ ClosedKept(s, r)
  BY <1>1, <1>3, <1>4, <1>5, OpenHandChanged
<1> QED
  BY <1>6 DEF s

LEMMA GangGood ==
    ASSUME NEW r, GoodRoom(r), NEW p, MayDeclare(r, p), NEW paid, Fair(paid, r)
    PROVE  GoodRoom(GangDeclared(r, paid)) /\ ClosedKept(GangDeclared(r, paid), r)
<1> DEFINE s == GangDeclared(r, paid)
           x == [Current(r) EXCEPT !.paid = InHand(r, paid), !.had_gang = TRUE]
<1>1. r.status = "in_progress" /\ ~Current(r).closed
  BY DEF MayDeclare
<1>2. Current(r) \in HandStates /\ Current(r).hand_no = Last(r)
  BY <1>1, LastHand
<1>3. /\ DOMAIN s = DOMAIN r
      /\ s.status = r.status /\ s.seq = r.seq + 1 /\ s.host_id = r.host_id
      /\ s.members = r.members /\ s.rules = r.rules
      /\ s.balances = Credited(r, paid) /\ s.hands = [r.hands EXCEPT ![Last(r)] = x]
      /\ s.pending_wind_decision = r.pending_wind_decision
  BY DEF GangDeclared, GoodRoom, IsRoom
<1> HIDE DEF s, x
<1>4. SameTable(s, r)
  <2>1. /\ Credited(r, paid) \in [Members(r) -> Int]
        /\ Credited(r, paid)[SeatPlayer(r, 0)] + Credited(r, paid)[SeatPlayer(r, 1)]
           + Credited(r, paid)[SeatPlayer(r, 2)] + Credited(r, paid)[SeatPlayer(r, 3)] = 0
    BY <1>1, Winnings
  <2>2. s.seq \in Nat
    BY <1>3 DEF GoodRoom, IsRoom
  <2> QED
    BY <1>1, <1>3, <2>1, <2>2 DEF SameTable
<1>5. /\ x \in HandStates /\ x.hand_no = Last(r) /\ x.wind = Current(r).wind
      /\ x.dealer_seat = Current(r).dealer_seat /\ ~x.closed
  <2>1. InHand(r, paid) \in [Player -> Int]
    BY <1>1, Winnings
  <2> QED
    BY <1>1, <1>2, <2>1 DEF HandStates, x
<1>6. GoodRoom(s) /\ ClosedKept(s, r)
  BY <1>1, <1>3, <1>4, <1>5, OpenHandChanged
<1> QED
  BY <1>6 DEF s

(* The next deal is a seat and a wind, one step on if the deal passes. *)
LEMMA NextDealPosition ==
    ASSUME NEW hand \in HandStates, NEW rotate \in BOOLEAN
    PROVE  /\ NextDeal(hand, rotate)[1] \in Nat \ {0}
           /\ NextDeal(hand, rotate)[2] \in 0 .. SEAT_COUNT - 1
           /\ SEAT_COUNT * NextDeal(hand, rotate)[1] + NextDeal(hand, rotate)[2]
              = Position(hand) + (IF rotate /\ ~is_final_hand(hand) THEN 1 ELSE 0)
<1>1. hand.wind \in Nat \ {0} /\ hand.dealer_seat \in 0 .. 3
  BY DEF HandStates, SEAT_COUNT
<1>2. CASE ~rotate \/ is_final_hand(hand)
  BY <1>1, <1>2 DEF NextDeal, Position, SEAT_COUNT
<1>3. CASE rotate /\ ~is_final_hand(hand)
  <2>1. CASE hand.dealer_seat = 3
    <3>1. (hand.dealer_seat + 1) % SEAT_COUNT = 0
      BY <2>1 DEF SEAT_COUNT
    <3> QED
      BY <1>1, <1>3, <2>1, <3>1 DEF NextDeal, Position, SEAT_COUNT
  <2>2. CASE hand.dealer_seat # 3
    <3>1. (hand.dealer_seat + 1) % SEAT_COUNT = hand.dealer_seat + 1
      BY <1>1, <2>2 DEF SEAT_COUNT
    <3> QED
      BY <1>1, <1>3, <2>2, <3>1 DEF NextDeal, Position, SEAT_COUNT
  <2> QED
    BY <2>1, <2>2
<1> QED
  BY <1>2, <1>3

(* Whether a hand is final depends on its wind and dealer only. *)
LEMMA SameDealFinal ==
    ASSUME NEW x, NEW h, x.wind = h.wind, x.dealer_seat = h.dealer_seat
    PROVE  is_final_hand(x) = is_final_hand(h) /\ Position(x) = Position(h)
BY DEF is_final_hand, Position

(* The balances of a running game. *)
LEMMA BalancesOfGame ==
    ASSUME NEW r, GoodRoom(r), r.status = "in_progress"
    PROVE  /\ r.seq + 1 \in Nat
           /\ r.balances \in [Members(r) -> Int]
           /\ r.balances[SeatPlayer(r, 0)] + r.balances[SeatPlayer(r, 1)]
              + r.balances[SeatPlayer(r, 2)] + r.balances[SeatPlayer(r, 3)] = 0
<1>1. r.seq \in Nat /\ r.balances \in [Members(r) -> Int]
  BY DEF GoodRoom, IsRoom
<1>2. AtSeat(r, 0) + AtSeat(r, 1) + AtSeat(r, 2) + AtSeat(r, 3) = 0
  BY DEF GoodRoom, Balanced
<1> QED
  BY <1>1, <1>2 DEF AtSeat

\* The hand as a win or a no-win leaves it.
AsClosed(r, winner, paid) ==
    [Current(r) EXCEPT !.closed = TRUE, !.winner = winner, !.paid = InHand(r, paid)]

LEMMA ClosedHand ==
    ASSUME NEW r, GoodRoom(r), r.status = "in_progress",
           NEW winner \in Player \cup {None}, NEW paid, Fair(paid, r)
    PROVE  /\ AsClosed(r, winner, paid) \in HandStates
           /\ AsClosed(r, winner, paid).hand_no = Last(r)
           /\ AsClosed(r, winner, paid).wind = Current(r).wind
           /\ AsClosed(r, winner, paid).dealer_seat = Current(r).dealer_seat
           /\ AsClosed(r, winner, paid).closed
           /\ AsClosed(r, winner, paid).winner = winner
           /\ AsClosed(r, winner, paid).had_gang = Current(r).had_gang
           /\ HandClosed(r, winner, paid) =
                  [r.hands EXCEPT ![Last(r)] = AsClosed(r, winner, paid)]
<1>1. Current(r) \in HandStates /\ Current(r).hand_no = Last(r)
  BY LastHand
<1>2. InHand(r, paid) \in [Player -> Int]
  BY Winnings
<1> QED
  BY <1>1, <1>2 DEF HandStates, HandClosed, AsClosed

(* The list of hands when the next hand is opened after a closed one. *)
LEMMA OpenedAfter ==
    ASSUME NEW r, GoodRoom(r), r.status = "in_progress",
           NEW x \in HandStates, x.hand_no = Last(r),
           NEW deal, deal[1] \in Nat \ {0}, deal[2] \in 0 .. SEAT_COUNT - 1
    PROVE  LET y == HandState(Last(r) + 1, deal[1], deal[2])
           IN  /\ y \in HandStates /\ y.hand_no = Last(r) + 1 /\ ~y.closed
               /\ Position(y) = SEAT_COUNT * deal[1] + deal[2]
               /\ Grown(OpenNextHand([r.hands EXCEPT ![Last(r)] = x], deal), r.hands, x, y)
<1> DEFINE y == HandState(Last(r) + 1, deal[1], deal[2])
           cs == [r.hands EXCEPT ![Last(r)] = x]
<1>1. r.hands \in Seq(HandStates) /\ Last(r) \in Nat /\ Last(r) > 0
  BY LastHand
<1>2. Last(r) + 1 \in Nat
  BY <1>1
<1>3. /\ y \in HandStates /\ y.hand_no = Last(r) + 1 /\ y.wind = deal[1]
      /\ y.dealer_seat = deal[2] /\ y.closed = FALSE
  BY <1>2 DEF HandState, HandStates
<1>4. Len(cs) = Last(r) /\ cs[Last(r)] = x
  BY <1>1, LastReplaced DEF Last
<1>5. OpenNextHand(cs, deal) = Append(cs, y)
  BY <1>4 DEF OpenNextHand
<1> HIDE DEF y
<1>6. Grown(Append(cs, y), r.hands, x, y)
  BY <1>1, <1>3, ReplacedAndOneMore DEF Last
<1>7. Position(y) = SEAT_COUNT * deal[1] + deal[2]
  BY <1>3 DEF Position
<1> QED
  BY <1>3, <1>5, <1>6, <1>7 DEF y

LEMMA HuGood ==
    ASSUME NEW r, GoodRoom(r), NEW p \in Player, MayDeclare(r, p), NEW paid, Fair(paid, r)
    PROVE  GoodRoom(HuDeclared(r, p, paid)) /\ ClosedKept(HuDeclared(r, p, paid), r)
<1> DEFINE s == HuDeclared(r, p, paid)
           x == AsClosed(r, p, paid)
           rotate == r.members[p] # Current(r).dealer_seat
           deal == NextDeal(Current(r), rotate)
           final == is_final_hand(Current(r))
<1>1. r.status = "in_progress" /\ ~Current(r).closed /\ p # None
  BY PlayerAssumption DEF MayDeclare
<1>2. /\ DOMAIN s = DOMAIN r
      /\ s.status = r.status /\ s.seq = r.seq + 1 /\ s.host_id = r.host_id
      /\ s.members = r.members /\ s.rules = r.rules /\ s.balances = Credited(r, paid)
      /\ s.pending_wind_decision = final
      /\ s.hands = IF final THEN HandClosed(r, p, paid)
                    ELSE OpenNextHand(HandClosed(r, p, paid), deal)
  BY DEF HuDeclared, GoodRoom, IsRoom
<1>3. /\ x \in HandStates /\ x.hand_no = Last(r) /\ x.wind = Current(r).wind
      /\ x.dealer_seat = Current(r).dealer_seat /\ x.closed
      /\ x.winner = p /\ HandClosed(r, p, paid) = [r.hands EXCEPT ![Last(r)] = x]
  BY <1>1, ClosedHand
<1>4. final \in BOOLEAN
  BY DEF is_final_hand
<1>5. Current(r) \in HandStates /\ rotate \in BOOLEAN
  BY <1>1, LastHand
<1> HIDE DEF s, x, rotate, deal, final
<1>6. SameTable(s, r)
  <2>1. /\ Credited(r, paid) \in [Members(r) -> Int]
        /\ Credited(r, paid)[SeatPlayer(r, 0)] + Credited(r, paid)[SeatPlayer(r, 1)]
           + Credited(r, paid)[SeatPlayer(r, 2)] + Credited(r, paid)[SeatPlayer(r, 3)] = 0
    BY <1>1, Winnings
  <2>2. s.seq \in Nat
    BY <1>2 DEF GoodRoom, IsRoom
  <2> QED
    BY <1>1, <1>2, <2>1, <2>2 DEF SameTable
<1>7. is_final_hand(x) = final /\ Position(x) = Position(Current(r))
  BY <1>3, SameDealFinal DEF final
<1>8. CASE final
  <2>1. s.hands = [r.hands EXCEPT ![Last(r)] = x] /\ s.pending_wind_decision = TRUE
    BY <1>2, <1>3, <1>8
  <2> QED
    BY <1>1, <1>2, <1>3, <1>6, <1>7, <1>8, <2>1, WindEnded DEF s
<1>9. CASE ~final
  <2> DEFINE y == HandState(Last(r) + 1, deal[1], deal[2])
  <2>1. /\ deal[1] \in Nat \ {0} /\ deal[2] \in 0 .. SEAT_COUNT - 1
        /\ SEAT_COUNT * deal[1] + deal[2] =
               Position(Current(r)) + (IF rotate /\ ~final THEN 1 ELSE 0)
    BY <1>5, NextDealPosition DEF deal, final
  <2>2. /\ y \in HandStates /\ y.hand_no = Last(r) + 1 /\ ~y.closed
        /\ Position(y) = SEAT_COUNT * deal[1] + deal[2]
        /\ Grown(OpenNextHand([r.hands EXCEPT ![Last(r)] = x], deal), r.hands, x, y)
    BY <1>1, <1>3, <2>1, OpenedAfter
  <2> HIDE DEF y
  <2>3. PassesDeal(x, r.members) <=> rotate
    BY <1>1, <1>3, <1>7, <1>9 DEF PassesDeal, rotate
  <2>4. Position(y) = Position(x) + (IF PassesDeal(x, r.members) THEN 1 ELSE 0)
    BY <1>7, <1>9, <2>1, <2>2, <2>3
  <2>5. Grown(s.hands, r.hands, x, y) /\ s.pending_wind_decision = FALSE
    BY <1>2, <1>3, <1>4, <1>9, <2>2
  <2> QED
    BY <1>1, <1>2, <1>3, <1>6, <2>2, <2>4, <2>5, NextHandOpened DEF s
<1> QED
  BY <1>8, <1>9

(* That nobody pays is fair. *)
LEMMA FairNothing ==
    ASSUME NEW r, FourSeats(r), Members(r) \subseteq Player
    PROVE  Fair([p \in Player |-> 0], r)
BY DEF Fair, FourSeats

LEMMA NoWinGood ==
    ASSUME NEW r, GoodRoom(r), NEW p, MayDeclare(r, p)
    PROVE  GoodRoom(NoWinDeclared(r)) /\ ClosedKept(NoWinDeclared(r), r)
<1> DEFINE s == NoWinDeclared(r)
           nothing == [q \in Player |-> 0]
           x == AsClosed(r, None, nothing)
           rotate == Current(r).had_gang
           deal == NextDeal(Current(r), rotate)
           y == HandState(Last(r) + 1, deal[1], deal[2])
<1>1. r.status = "in_progress" /\ ~Current(r).closed
  BY DEF MayDeclare
<1>2. /\ DOMAIN s = DOMAIN r
      /\ s.status = r.status /\ s.seq = r.seq + 1 /\ s.host_id = r.host_id
      /\ s.members = r.members /\ s.rules = r.rules /\ s.balances = r.balances
      /\ s.pending_wind_decision = FALSE
      /\ s.hands = OpenNextHand(HandClosed(r, None, nothing), deal)
  BY DEF NoWinDeclared, GoodRoom, IsRoom
<1>3. /\ Current(r) \in HandStates /\ rotate \in BOOLEAN
      /\ Fair(nothing, r)
  BY <1>1, LastHand, FairNothing DEF HandStates
<1> HIDE DEF nothing
<1>4. /\ x \in HandStates /\ x.hand_no = Last(r) /\ x.wind = Current(r).wind
      /\ x.dealer_seat = Current(r).dealer_seat /\ x.closed
      /\ x.winner = None /\ x.had_gang = rotate
      /\ HandClosed(r, None, nothing) = [r.hands EXCEPT ![Last(r)] = x]
  BY <1>1, <1>3, ClosedHand
<1> HIDE DEF s, x, rotate, deal
<1>5. SameTable(s, r)
  BY <1>1, <1>2, BalancesOfGame DEF SameTable
<1>6. is_final_hand(x) = is_final_hand(Current(r)) /\ Position(x) = Position(Current(r))
  BY <1>4, SameDealFinal
<1>7. /\ deal[1] \in Nat \ {0} /\ deal[2] \in 0 .. SEAT_COUNT - 1
      /\ SEAT_COUNT * deal[1] + deal[2] =
             Position(Current(r)) + (IF rotate /\ ~is_final_hand(Current(r)) THEN 1 ELSE 0)
  BY <1>3, NextDealPosition DEF deal
<1>8. /\ y \in HandStates /\ y.hand_no = Last(r) + 1 /\ ~y.closed
      /\ Position(y) = SEAT_COUNT * deal[1] + deal[2]
      /\ Grown(OpenNextHand([r.hands EXCEPT ![Last(r)] = x], deal), r.hands, x, y)
  BY <1>1, <1>4, <1>7, OpenedAfter
<1> HIDE DEF y
<1>9. PassesDeal(x, r.members) <=> rotate /\ ~is_final_hand(Current(r))
  BY <1>4, <1>6 DEF PassesDeal
<1>10. Position(y) = Position(x) + (IF PassesDeal(x, r.members) THEN 1 ELSE 0)
  BY <1>6, <1>7, <1>8, <1>9
<1>11. Grown(s.hands, r.hands, x, y)
  BY <1>2, <1>4, <1>8
<1> QED
  BY <1>1, <1>2, <1>4, <1>5, <1>8, <1>10, <1>11, NextHandOpened DEF s

LEMMA ContinuedGood ==
    ASSUME NEW r, GoodRoom(r), NEW p, CanContinueWind(r, p)
    PROVE  GoodRoom(WindContinued(r)) /\ ClosedKept(WindContinued(r), r)
<1> DEFINE s == WindContinued(r)
           x == Current(r)
           y == HandState(x.hand_no + 1, x.wind + 1, 0)
<1>1. r.status = "in_progress" /\ r.pending_wind_decision
  BY DEF CanContinueWind
<1>2. /\ DOMAIN s = DOMAIN r
      /\ s.status = r.status /\ s.seq = r.seq + 1 /\ s.host_id = r.host_id
      /\ s.members = r.members /\ s.rules = r.rules /\ s.balances = r.balances
      /\ s.pending_wind_decision = FALSE
      /\ s.hands = Append(r.hands, y)
  BY DEF WindContinued, GoodRoom, IsRoom, OpenNextHand, Current, Last
<1>3. /\ r.hands \in Seq(HandStates) /\ Last(r) \in Nat /\ Last(r) > 0
      /\ x \in HandStates /\ x.hand_no = Last(r) /\ x.closed
      /\ is_final_hand(x) /\ x.winner # None
  BY <1>1, LastHand DEF GoodRoom, Ordered
<1>4. x.wind \in Nat \ {0} /\ x.dealer_seat = 3 /\ 0 \in 0 .. SEAT_COUNT - 1
  BY <1>3 DEF HandStates, is_final_hand, SEAT_COUNT
<1>5. x.hand_no + 1 \in Nat /\ x.wind + 1 \in Nat \ {0}
  BY <1>3, <1>4
<1> HIDE DEF x
<1>6. /\ y \in HandStates /\ y.hand_no = Last(r) + 1 /\ y.wind = x.wind + 1
      /\ y.dealer_seat = 0 /\ y.closed = FALSE
  BY <1>3, <1>4, <1>5 DEF HandState, HandStates
<1> HIDE DEF s, y
<1>7. SameTable(s, r)
  BY <1>1, <1>2, BalancesOfGame DEF SameTable
<1>8. Position(y) = Position(x) + (IF PassesDeal(x, r.members) THEN 1 ELSE 0)
  BY <1>3, <1>4, <1>6 DEF Position, PassesDeal, SEAT_COUNT
<1>9. Grown(s.hands, r.hands, x, y)
  <2>1. /\ s.hands \in Seq(HandStates) /\ Len(s.hands) = Len(r.hands) + 1
        /\ s.hands[Len(r.hands) + 1] = y
        /\ \A i \in 1 .. Len(r.hands) : s.hands[i] = r.hands[i]
    BY <1>2, <1>3, <1>6, OneMore
  <2>2. r.hands[Len(r.hands)] = x /\ Len(r.hands) \in 1 .. Len(r.hands)
    BY <1>3 DEF x, Current, Last
  <2> QED
    BY <2>1, <2>2 DEF Grown
<1>10. GoodRoom(s) /\ ClosedKept(s, r)
  BY <1>1, <1>2, <1>3, <1>6, <1>7, <1>8, <1>9, NextHandOpened DEF x
<1> QED
  BY <1>10 DEF s

LEMMA EndedGood ==
    ASSUME NEW r, GoodRoom(r), r.status = "in_progress"
    PROVE  GoodRoom(GameEnded(r)) /\ ClosedKept(GameEnded(r), r)
<1> DEFINE s == GameEnded(r)
<1>1. /\ DOMAIN s = DOMAIN r
      /\ s.status = "ended" /\ s.seq = r.seq + 1 /\ s.host_id = r.host_id
      /\ s.members = r.members /\ s.rules = r.rules /\ s.hands = r.hands
      /\ s.balances = r.balances /\ s.pending_wind_decision = FALSE
  BY DEF GameEnded, GoodRoom, IsRoom
<1> HIDE DEF s
<1>2. SameTable(s, r)
  BY <1>1, BalancesOfGame DEF SameTable
<1>3. IsRoom(s) /\ Seated(s) /\ Balanced(s)
  BY <1>1, <1>2, TableKept DEF GoodRoom, IsRoom
<1>4. Ordered(s) /\ Dealt(s)
  BY <1>1 DEF GoodRoom, Ordered, Dealt, Last
<1>5. ClosedKept(s, r)
  BY <1>1, LastHand DEF ClosedKept, Last
<1> QED
  BY <1>3, <1>4, <1>5 DEF GoodRoom, s

-----------------------------------------------------------------------------
(* Every step. *)

LEMMA InitGood == Init => IInv
<1> SUFFICES ASSUME NEW host \in Account, room = NewRoom(host)
             PROVE  GoodRoom(room)
  BY DEF Init, IInv
<1>1. host \in Player
  BY DEF Account
<1>2. /\ DOMAIN room = {"status", "seq", "host_id", "members", "rules", "hands", "balances",
                        "pending_wind_decision"}
      /\ room.status = "lobby" /\ room.seq = 0 /\ room.host_id = host
      /\ room.members = [p \in {host} |-> 0] /\ room.balances = [p \in {host} |-> 0]
      /\ room.hands = << >> /\ room.pending_wind_decision = FALSE
  BY DEF NewRoom
<1>3. Members(room) = {host}
  BY <1>2 DEF Members
<1>4. IsRoom(room)
  <2>1. room.hands \in Seq(HandStates) /\ room.seq \in Nat
    BY <1>2
  <2>2. /\ room.members \in [Members(room) -> 0 .. SEAT_COUNT - 1]
        /\ room.balances \in [Members(room) -> Int]
    BY <1>2, <1>3 DEF SEAT_COUNT
  <2> QED
    BY <1>1, <1>2, <1>3, <2>1, <2>2 DEF IsRoom, Statuses
<1>5. Seated(room) /\ Balanced(room)
  BY <1>2, <1>3 DEF Seated, Balanced
<1>6. Ordered(room) /\ Dealt(room)
  BY <1>2, NoHands
<1> QED
  BY <1>4, <1>5, <1>6 DEF GoodRoom

\* What a step does to a good room.
GoodStep == GoodRoom(room') /\ ClosedKept(room', room)

(* A lobby has no hands to keep. *)
LEMMA NothingToKeep ==
    ASSUME NEW r, GoodRoom(r), r.status = "lobby", NEW s, GoodRoom(s)
    PROVE  ClosedKept(s, r)
<1>1. Last(r) = 0
  BY DEF GoodRoom, Ordered, Last
<1>2. Last(s) \in Nat
  BY DEF GoodRoom, IsRoom, Last
<1> QED
  BY <1>1, <1>2 DEF ClosedKept

LEMMA LobbyStepGood == IInv /\ LobbyStep => GoodStep
<1> SUFFICES ASSUME GoodRoom(room), LobbyStep
             PROVE  GoodStep
  BY DEF IInv
<1>1. ASSUME NEW p \in Account, Join(p)
      PROVE  GoodStep
  BY <1>1, JoinedGood, NothingToKeep DEF Join, GoodStep, Account, CanJoin
<1>2. ASSUME NEW p \in Player, NEW g \in Guest, AddGuest(p, g)
      PROVE  GoodStep
  BY <1>2, PlayerAssumption, JoinedGood, NothingToKeep DEF AddGuest, GoodStep, CanAddGuest, CanJoin
<1>3. ASSUME NEW p \in Player, NEW g \in Guest, RemoveGuest(p, g)
      PROVE  GoodStep
  <2>1. g # room.host_id /\ g \in Player
    BY PlayerAssumption DEF GoodRoom, IsRoom, Account
  <2> QED
    BY <1>3, <2>1, LeftGood, NothingToKeep DEF RemoveGuest, GoodStep, CanRemoveGuest
<1>4. ASSUME NEW p \in Player, Leave(p)
      PROVE  GoodStep
  BY <1>4, LeftGood, NothingToKeep DEF Leave, GoodStep, CanLeave
<1>5. ASSUME NEW p \in Player, Disband(p)
      PROVE  GoodStep
  BY <1>5, DisbandedGood, NothingToKeep DEF Disband, GoodStep, CanDisband
<1>6. ASSUME NEW p \in Player, NEW seat_map \in SeatMaps, AssignSeats(p, seat_map)
      PROVE  GoodStep
  BY <1>6, ReseatedGood, NothingToKeep DEF AssignSeats, GoodStep, CanAssignSeats
<1>7. ASSUME NEW p \in Player, NEW rules \in RuleChoices, Start(p, rules)
      PROVE  GoodStep
  BY <1>7, StartedGood, NothingToKeep DEF Start, GoodStep, CanStart
<1> QED
  BY <1>1, <1>2, <1>3, <1>4, <1>5, <1>6, <1>7 DEF LobbyStep

LEMMA HandStepGood == IInv /\ HandStep => GoodStep
<1> SUFFICES ASSUME GoodRoom(room), NEW p \in Player,
                    \/ \E seat \in SeatInputs, an \in BOOLEAN : DeclareYao(p, seat, an)
                    \/ \E seat \in SeatInputs : DeclareGang(p, seat)
                    \/ DeclareAngang(p)
                    \/ \E h \in HuInputs : DeclareHu(p, h)
                    \/ DeclareNoWin(p) \/ ContinueWind(p) \/ EndGame(p)
             PROVE  GoodStep
  BY DEF IInv, HandStep
<1>1. ASSUME MayDeclare(room, p)
      PROVE  /\ FourSeats(room) /\ Members(room) \subseteq Player
             /\ room.rules \in RuleChoices /\ p \in Members(room)
  BY <1>1, LastHand DEF MayDeclare
<1>2. ASSUME NEW seat \in SeatInputs, NEW an \in BOOLEAN, DeclareYao(p, seat, an)
      PROVE  GoodStep
  <2>1. Fair(Yao(room, p, seat, an), room)
    BY <1>1, <1>2, FairYao DEF DeclareYao
  <2> QED
    BY <1>2, <2>1, YaoGood DEF DeclareYao, GoodStep
<1>3. ASSUME NEW seat \in SeatInputs, DeclareGang(p, seat)
      PROVE  GoodStep
  <2>1. Fair(Gang(room, p, seat), room)
    BY <1>1, <1>3, FairGang DEF DeclareGang
  <2> QED
    BY <1>3, <2>1, GangGood DEF DeclareGang, GoodStep
<1>4. ASSUME DeclareAngang(p)
      PROVE  GoodStep
  <2>1. Fair(Angang(room, p), room)
    BY <1>1, <1>4, FairGang DEF DeclareAngang
  <2> QED
    BY <1>4, <2>1, GangGood DEF DeclareAngang, GoodStep
<1>5. ASSUME NEW h \in HuInputs, DeclareHu(p, h)
      PROVE  GoodStep
  <2>1. MayDeclare(room, p)
    BY <1>5 DEF DeclareHu, CanHu
  <2>2. h.tai \in Int
    BY InputAssumption DEF HuInputs
  <2>3. Fair(Hu(room, p, h), room)
    BY <1>1, <1>5, <2>1, <2>2, FairHu DEF DeclareHu
  <2> QED
    BY <1>5, <2>1, <2>3, HuGood DEF DeclareHu, GoodStep
<1>6. ASSUME DeclareNoWin(p)
      PROVE  GoodStep
  BY <1>6, NoWinGood DEF DeclareNoWin, GoodStep
<1>7. ASSUME ContinueWind(p)
      PROVE  GoodStep
  BY <1>7, ContinuedGood DEF ContinueWind, GoodStep
<1>8. ASSUME EndGame(p)
      PROVE  GoodStep
  BY <1>8, EndedGood DEF EndGame, CanEnd, GoodStep
<1> QED
  BY <1>2, <1>3, <1>4, <1>5, <1>6, <1>7, <1>8

LEMMA StutterGood == IInv /\ UNCHANGED room => GoodStep
<1>1. GoodRoom(room) => ClosedKept(room, room)
  BY DEF GoodRoom, IsRoom, ClosedKept, Last
<1> QED
  BY <1>1 DEF IInv, GoodStep

LEMMA StepGood == IInv /\ [Next]_room => IInv' /\ GoodStep
BY LobbyStepGood, HandStepGood, StutterGood DEF Next, Command, IInv, GoodStep

(* The invariant: shape, seats, order of hands, deal and money together, for *)
(* any players, rules, number of winds and length of game.                   *)
THEOREM Inductive == Spec => []IInv
<1>1. IInv /\ [Next]_room => IInv'
  BY StepGood
<1> QED
  BY InitGood, <1>1, PTL DEF Spec

(* Every room has the fields and types of RoomState, and a running game has *)
(* its host, its rules and a balance for everyone in it.                    *)
THEOREM RoomShape == Spec => []TypeOK
<1>1. IInv => TypeOK
  BY DEF IInv, GoodRoom, TypeOK
<1> QED
  BY Inductive, <1>1, PTL

(* Nobody shares a seat, and a game has a player in each of its four seats, so *)
(* that a declaration against a seat charges the player in it.                 *)
THEOREM OnePlayerPerSeat == Spec => []EverySeatOnePlayer
<1>1. IInv => EverySeatOnePlayer
  BY DEF IInv, GoodRoom, EverySeatOnePlayer
<1> QED
  BY Inductive, <1>1, PTL

(* Four players in a lobby always pass the seat check of start_game. *)
THEOREM FullTablesStart == Spec => []FullTableCanStart
<1>1. IInv => FullTableCanStart
  <2> SUFFICES ASSUME GoodRoom(room), Cardinality(Members(room)) = SEAT_COUNT
               PROVE  AllSeats(room.members)
    BY DEF IInv, FullTableCanStart
  <2>1. IsFiniteSet(Members(room))
    BY PlayerAssumption, FS_Subset DEF GoodRoom, IsRoom
  <2>2. /\ room.members \in [Members(room) -> 0 .. SEAT_COUNT - 1]
        /\ \A p, q \in Members(room) : room.members[p] = room.members[q] => p = q
    BY DEF GoodRoom, IsRoom, Seated
  <2> QED
    BY <2>1, <2>2, SeatsFilled DEF Members
<1> QED
  BY Inductive, <1>1, PTL

(* Hands keep their numbers, and a running game has an open hand or a host to *)
(* decide, whom only a win in the last seat of a last wind asks.              *)
THEOREM AlwaysOrdered == Spec => []HandsInOrder
<1>1. IInv => HandsInOrder
  BY DEF IInv, GoodRoom, HandsInOrder
<1> QED
  BY Inductive, <1>1, PTL

(* Deal and wind go round as the rule says, for any number of winds. *)
THEOREM DealGoesRound == Spec => []DealFollowsTheRule
<1>1. IInv => DealFollowsTheRule
  BY DEF IInv, GoodRoom, DealFollowsTheRule
<1> QED
  BY Inductive, <1>1, PTL

(* The balances of a game add up to nothing, for any rules. *)
THEOREM NothingLostOrMade == Spec => []MoneyConserved
<1>1. IInv => MoneyConserved
  BY DEF IInv, GoodRoom, MoneyConserved
<1> QED
  BY Inductive, <1>1, PTL

(* A closed hand never changes and never goes away. *)
THEOREM HandsAreFinal == Spec => ClosedHandsAreFinal
<1>1. IInv /\ [Next]_room =>
        [/\ Last(room') >= Last(room)
         /\ \A i \in 1 .. Last(room) :
                room.hands[i].closed => room'.hands[i] = room.hands[i]]_room
  BY StepGood DEF GoodStep, ClosedKept
<1> QED
  BY Inductive, <1>1, PTL DEF Spec, ClosedHandsAreFinal
-----------------------------------------------------------------------------
(* The account each hand keeps, and the balances. *)

\* In s, what is gained since r is in the balances and in the last hand of r, and a
\* hand opened after it has nothing in it.
Gained(s, r, n, gain) ==
    /\ n \in Nat \ {0} /\ n = Last(r) /\ gain \in [Members(r) -> Int]
    /\ s.members = r.members
    /\ \A i \in 1 .. n : i # n => s.hands[i].paid = r.hands[i].paid
    /\ \A p \in Members(r) : /\ s.balances[p] = r.balances[p] + gain[p]
                             /\ s.hands[n].paid[p] = r.hands[n].paid[p] + gain[p]
    /\ \/ Last(s) = n
       \/ Last(s) = n + 1 /\ \A p \in Members(r) : s.hands[n + 1].paid[p] = 0

LEMMA AccountsKept ==
    ASSUME NEW r, GoodRoom(r), Accounted(r), NEW s, NEW n, NEW gain, Gained(s, r, n, gain)
    PROVE  Accounted(s)
<1>1. /\ Members(s) = Members(r) /\ Members(r) \subseteq Player
      /\ n \in Nat \ {0} /\ n = Last(r) /\ gain \in [Members(r) -> Int]
  BY DEF Gained, Members, GoodRoom, IsRoom
<1>2. \A i \in 1 .. n : r.hands[i].paid \in [Player -> Int]
  <2>1. r.hands \in Seq(HandStates) /\ n = Len(r.hands)
    BY <1>1 DEF GoodRoom, IsRoom, Last
  <2>2. \A i \in 1 .. n : r.hands[i] \in HandStates
    BY <2>1
  <2>3. \A h \in HandStates : h.paid \in [Player -> Int]
    BY DEF HandStates
  <2> QED
    BY <2>2, <2>3
<1> SUFFICES ASSUME NEW p \in Members(r)
             PROVE  s.balances[p] = SumFunction([i \in 1 .. Last(s) |-> s.hands[i].paid[p]])
  BY <1>1 DEF Accounted
<1> DEFINE f == [i \in 1 .. Last(r) |-> r.hands[i].paid[p]]
           e == [i \in 1 .. Last(s) |-> s.hands[i].paid[p]]
           m == Last(s)
<1>3. m = n \/ (m = n + 1 /\ s.hands[n + 1].paid[p] = 0)
  BY DEF Gained
<1>4. CreditedAt(e, m, f, n, n, gain[p])
  <2>1. n \in Nat /\ n \in 1 .. n /\ gain[p] \in Int
    BY <1>1
  <2>2. \A i \in 1 .. n : f[i] \in Int
    BY <1>1, <1>2
  <2>3. /\ \A i \in 1 .. n : i # n => e[i] = f[i]
        /\ e[n] = f[n] + gain[p]
    BY <1>1, <1>3 DEF Gained
  <2>4. m = n \/ (m = n + 1 /\ e[n + 1] = 0)
    BY <1>1, <1>3
  <2> HIDE DEF e, f, m
  <2> QED
    BY <2>1, <2>2, <2>3, <2>4 DEF CreditedAt
<1>5. SumFunction(e) = SumFunctionOnSet(e, 1 .. m) /\ SumFunction(f) = SumFunctionOnSet(f, 1 .. n)
  BY <1>1 DEF SumFunction
<1>6. r.balances[p] = SumFunction(f)
  BY DEF Accounted
<1>7. s.balances[p] = r.balances[p] + gain[p]
  BY DEF Gained
<1> HIDE DEF e, f, m
<1>8. SumFunctionOnSet(e, 1 .. m) = SumFunctionOnSet(f, 1 .. n) + gain[p]
  BY <1>4, SumOfCredited
<1>9. s.balances[p] = SumFunction(e)
  BY <1>5, <1>6, <1>7, <1>8
<1> QED
  BY <1>9 DEF e

(* A declaration credits to the balances what it writes down in the hand. *)
LEMMA SameGain ==
    ASSUME NEW r, GoodRoom(r), r.status = "in_progress", NEW paid, Fair(paid, r)
    PROVE  \E gain \in [Members(r) -> Int] :
               \A p \in Members(r) :
                   /\ Credited(r, paid)[p] = r.balances[p] + gain[p]
                   /\ InHand(r, paid)[p] = Current(r).paid[p] + gain[p]
<1> DEFINE m == r.rules.cents_per_unit
           gain == [p \in Members(r) |-> paid[p] * m]
<1>1. m \in Int /\ paid \in [Player -> Int] /\ Members(r) \subseteq Player
  BY LastHand, Amounts DEF Fair
<1>2. DOMAIN r.balances = Members(r)
  BY DEF GoodRoom, IsRoom
<1>3. \A a, b \in Int : a * b \in Int
  OBVIOUS
<1>4. gain \in [Members(r) -> Int]
  BY <1>1, <1>3
<1>5. \A p \in Members(r) : /\ Credited(r, paid)[p] = r.balances[p] + gain[p]
                           /\ InHand(r, paid)[p] = Current(r).paid[p] + gain[p]
  BY <1>1, <1>2 DEF Credited, InHand
<1> QED
  BY <1>4, <1>5

(* Before the first hand nothing is owed and nothing written down. *)
LEMMA NothingYet ==
    ASSUME NEW r, r.hands = << >>, \A p \in Members(r) : r.balances[p] = 0
    PROVE  Accounted(r)
<1>1. Last(r) = 0
  BY DEF Last
<1>2. 1 .. Last(r) = {}
  BY <1>1
<1> SUFFICES ASSUME NEW p \in Members(r)
             PROVE  SumFunction([i \in 1 .. Last(r) |-> r.hands[i].paid[p]]) = 0
  BY DEF Accounted
<1> DEFINE e == [i \in 1 .. Last(r) |-> r.hands[i].paid[p]]
<1>3. DOMAIN e = {}
  BY <1>2
<1> HIDE DEF e
<1>4. SumFunction(e) = 0
  BY <1>3, SumOfNone DEF SumFunction
<1> QED
  BY <1>4 DEF e

(* The first hand is opened with nothing in it. *)
LEMMA StartedAccounted ==
    ASSUME NEW r, GoodRoom(r), NEW host \in Player, NEW rules, CanStart(r, host)
    PROVE  Accounted(GameStarted(r, rules))
<1> DEFINE s == GameStarted(r, rules)
<1>1. /\ s.members = r.members /\ s.balances = r.balances /\ s.hands = <<HandState(1, 1, 0)>>
      /\ \A p \in Members(r) : r.balances[p] = 0 /\ p \in Player
  BY DEF GameStarted, GoodRoom, IsRoom, CanStart, Balanced
<1>2. Last(s) = 1 /\ s.hands[1] = HandState(1, 1, 0) /\ Members(s) = Members(r)
  BY <1>1 DEF Last, Members
<1> HIDE DEF s
<1> SUFFICES ASSUME NEW p \in Members(r)
             PROVE  SumFunction([i \in 1 .. Last(s) |-> s.hands[i].paid[p]]) = 0
  BY <1>1, <1>2 DEF Accounted, s
<1> DEFINE e == [i \in 1 .. Last(s) |-> s.hands[i].paid[p]]
<1>3. \A i \in 1 .. Last(s) : e[i] = 0
  BY <1>1, <1>2 DEF HandState
<1>4. DOMAIN e = 1 .. Last(s) /\ IsFiniteSet(1 .. Last(s))
  <2>1. 1 \in Int /\ Last(s) \in Int
    BY <1>2
  <2> QED
    BY <2>1, FS_Interval, Zenon
<1> HIDE DEF e
<1>5. SumFunction(e) = 0
  BY <1>3, <1>4, SumOfZeros DEF SumFunction
<1> QED
  BY <1>5 DEF e

\* s is r after payments are written down as x, the last hand; a hand y opened after
\* it has nothing in it.
WrittenDown(s, r, paid, x, y) ==
    /\ s.members = r.members /\ s.balances = Credited(r, paid)
    /\ x \in HandStates /\ x.paid = InHand(r, paid)
    /\ \A p \in Player : y.paid[p] = 0
    /\ \/ s.hands = [r.hands EXCEPT ![Last(r)] = x]
       \/ Grown(s.hands, r.hands, x, y)

LEMMA WrittenAccounted ==
    ASSUME NEW r, GoodRoom(r), Accounted(r), r.status = "in_progress",
           NEW paid, Fair(paid, r), NEW s, NEW x, NEW y, WrittenDown(s, r, paid, x, y)
    PROVE  Accounted(s)
<1> DEFINE n == Last(r)
<1>1. /\ r.hands \in Seq(HandStates) /\ n \in Nat \ {0} /\ n = Len(r.hands)
      /\ Members(r) \subseteq Player
  BY LastHand DEF Last
<1>2. s.members = r.members /\ s.balances = Credited(r, paid) /\ x.paid = InHand(r, paid)
  BY DEF WrittenDown
<1>3. /\ s.hands[n] = x
      /\ \A i \in 1 .. n : i # n => s.hands[i] = r.hands[i]
      /\ Last(s) = n \/ (Last(s) = n + 1 /\ s.hands[n + 1] = y)
  <2>1. CASE s.hands = [r.hands EXCEPT ![n] = x]
    <3>1. Len(r.hands) > 0 /\ x \in HandStates
      BY <1>1 DEF WrittenDown
    <3>2. /\ Len(s.hands) = Len(r.hands) /\ s.hands[Len(r.hands)] = x
          /\ \A i \in 1 .. Len(r.hands) : i < Len(r.hands) => s.hands[i] = r.hands[i]
      BY <1>1, <2>1, <3>1, LastReplaced
    <3> QED
      BY <1>1, <3>2 DEF Last
  <2>2. CASE Grown(s.hands, r.hands, x, y)
    BY <1>1, <2>2 DEF Grown, Last
  <2> QED
    BY <2>1, <2>2 DEF WrittenDown
<1>4. PICK gain \in [Members(r) -> Int] :
          \A p \in Members(r) : /\ Credited(r, paid)[p] = r.balances[p] + gain[p]
                                /\ InHand(r, paid)[p] = Current(r).paid[p] + gain[p]
  BY SameGain
<1>5. \A p \in Members(r) : /\ s.balances[p] = r.balances[p] + gain[p]
                             /\ s.hands[n].paid[p] = r.hands[n].paid[p] + gain[p]
  BY <1>2, <1>3, <1>4 DEF Current
<1>6. \/ Last(s) = n
      \/ Last(s) = n + 1 /\ \A p \in Members(r) : s.hands[n + 1].paid[p] = 0
  BY <1>1, <1>3 DEF WrittenDown
<1>7. \A i \in 1 .. n : i # n => s.hands[i].paid = r.hands[i].paid
  BY <1>3
<1>8. n \in Nat \ {0} /\ n = Last(r)
  BY <1>1
<1> HIDE DEF n
<1>9. Gained(s, r, n, gain)
  BY <1>2, <1>4, <1>5, <1>6, <1>7, <1>8 DEF Gained
<1> QED
  BY <1>9, AccountsKept

(* The hands of a game that ends, or of which the host calls off the lobby. *)
LEMMA UntouchedAccounted ==
    ASSUME NEW r, Accounted(r), NEW s, s.members = r.members, s.balances = r.balances,
           s.hands = r.hands
    PROVE  Accounted(s)
BY DEF Accounted, Members, Last

LEMMA YaoAccounted ==
    ASSUME NEW r, GoodRoom(r), Accounted(r), NEW p, MayDeclare(r, p), NEW paid, Fair(paid, r)
    PROVE  Accounted(YaoDeclared(r, paid)) /\ Accounted(GangDeclared(r, paid))
<1> DEFINE s == YaoDeclared(r, paid)
           t == GangDeclared(r, paid)
           x == [Current(r) EXCEPT !.paid = InHand(r, paid)]
           z == [Current(r) EXCEPT !.paid = InHand(r, paid), !.had_gang = TRUE]
           y == HandState(1, 1, 0)
<1>1. r.status = "in_progress" /\ Current(r) \in HandStates
  BY LastHand DEF MayDeclare
<1>2. InHand(r, paid) \in [Player -> Int]
  BY <1>1, Winnings
<1>3. x \in HandStates /\ x.paid = InHand(r, paid) /\ z \in HandStates /\ z.paid = InHand(r, paid)
  BY <1>1, <1>2 DEF HandStates
<1>4. \A q \in Player : y.paid[q] = 0
  BY DEF HandState
<1>5. /\ s.members = r.members /\ s.balances = Credited(r, paid)
      /\ s.hands = [r.hands EXCEPT ![Last(r)] = x]
      /\ t.members = r.members /\ t.balances = Credited(r, paid)
      /\ t.hands = [r.hands EXCEPT ![Last(r)] = z]
  BY DEF YaoDeclared, GangDeclared, GoodRoom, IsRoom
<1> HIDE DEF s, t, x, y, z
<1>6. WrittenDown(s, r, paid, x, y) /\ WrittenDown(t, r, paid, z, y)
  BY <1>3, <1>4, <1>5 DEF WrittenDown
<1>7. Accounted(s) /\ Accounted(t)
  BY <1>1, <1>6, WrittenAccounted
<1> QED
  BY <1>7 DEF s, t

LEMMA HuAccounted ==
    ASSUME NEW r, GoodRoom(r), Accounted(r), NEW p \in Player, MayDeclare(r, p),
           NEW paid, Fair(paid, r)
    PROVE  Accounted(HuDeclared(r, p, paid))
<1> DEFINE s == HuDeclared(r, p, paid)
           x == AsClosed(r, p, paid)
           deal == NextDeal(Current(r), r.members[p] # Current(r).dealer_seat)
           y == HandState(Last(r) + 1, deal[1], deal[2])
           final == is_final_hand(Current(r))
<1>1. r.status = "in_progress" /\ Current(r) \in HandStates
  BY LastHand DEF MayDeclare
<1>2. /\ s.members = r.members /\ s.balances = Credited(r, paid)
      /\ s.hands = IF final THEN HandClosed(r, p, paid)
                    ELSE OpenNextHand(HandClosed(r, p, paid), deal)
  BY DEF HuDeclared, GoodRoom, IsRoom
<1>3. /\ x \in HandStates /\ x.hand_no = Last(r)
      /\ HandClosed(r, p, paid) = [r.hands EXCEPT ![Last(r)] = x]
  BY <1>1, ClosedHand
<1>4. x.paid = InHand(r, paid)
  BY <1>1 DEF AsClosed, HandStates
<1>5. \A q \in Player : y.paid[q] = 0
  BY DEF HandState
<1>6. deal[1] \in Nat \ {0} /\ deal[2] \in 0 .. SEAT_COUNT - 1
  BY <1>1, NextDealPosition
<1> HIDE DEF s, x, deal
<1>7. Grown(OpenNextHand([r.hands EXCEPT ![Last(r)] = x], deal), r.hands, x, y)
  BY <1>1, <1>3, <1>6, OpenedAfter
<1> HIDE DEF y, final
<1>8. WrittenDown(s, r, paid, x, y)
  BY <1>2, <1>3, <1>4, <1>5, <1>7 DEF WrittenDown
<1>9. Accounted(s)
  BY <1>1, <1>8, WrittenAccounted
<1> QED
  BY <1>9 DEF s

(* Nothing credited, nothing changed. *)
LEMMA NothingCredited ==
    ASSUME NEW r, GoodRoom(r), r.status = "in_progress"
    PROVE  /\ Credited(r, [p \in Player |-> 0]) = r.balances
           /\ InHand(r, [p \in Player |-> 0]) = Current(r).paid
<1>1. r.rules.cents_per_unit \in Int /\ Current(r) \in HandStates
  BY LastHand, Amounts
<1>2. 0 * r.rules.cents_per_unit = 0
  BY <1>1
<1>3. r.balances \in [Members(r) -> Int] /\ Members(r) \subseteq Player
  BY DEF GoodRoom, IsRoom
<1>4. Current(r).paid \in [Player -> Int]
  BY <1>1 DEF HandStates
<1>5. Credited(r, [p \in Player |-> 0]) = r.balances
  <2> DEFINE zeros == [p \in Player |-> 0]
             c == Credited(r, zeros)
  <2>1. c = [p \in DOMAIN r.balances |-> r.balances[p] + zeros[p] * r.rules.cents_per_unit]
    BY DEF Credited
  <2>2. \A p \in Members(r) : r.balances[p] + zeros[p] * r.rules.cents_per_unit = r.balances[p]
    BY <1>2, <1>3
  <2> QED
    BY <1>3, <2>1, <2>2
<1>6. InHand(r, [p \in Player |-> 0]) = Current(r).paid
  <2> DEFINE zeros == [p \in Player |-> 0]
             old == Current(r).paid
  <2>1. InHand(r, zeros) = [p \in Player |-> old[p] + zeros[p] * r.rules.cents_per_unit]
    BY DEF InHand
  <2>2. \A p \in Player : old[p] + zeros[p] * r.rules.cents_per_unit = old[p]
    BY <1>2, <1>4
  <2>3. old \in [Player -> Int]
    BY <1>4
  <2> HIDE DEF old
  <2>4. InHand(r, zeros) = old
    BY <2>1, <2>2, <2>3
  <2> QED
    BY <2>4 DEF old
<1> QED
  BY <1>5, <1>6

LEMMA NoWinAccounted ==
    ASSUME NEW r, GoodRoom(r), Accounted(r), NEW p, MayDeclare(r, p)
    PROVE  Accounted(NoWinDeclared(r))
<1> DEFINE s == NoWinDeclared(r)
           nothing == [q \in Player |-> 0]
           x == AsClosed(r, None, nothing)
           deal == NextDeal(Current(r), Current(r).had_gang)
           y == HandState(Last(r) + 1, deal[1], deal[2])
<1>1. /\ r.status = "in_progress" /\ Current(r) \in HandStates
      /\ Current(r).had_gang \in BOOLEAN /\ Fair(nothing, r)
  BY LastHand, FairNothing DEF MayDeclare, HandStates
<1>2. /\ s.members = r.members /\ s.balances = r.balances
      /\ s.hands = OpenNextHand(HandClosed(r, None, nothing), deal)
  BY DEF NoWinDeclared, GoodRoom, IsRoom
<1>3. Credited(r, nothing) = r.balances
  BY <1>1, NothingCredited
<1> HIDE DEF nothing
<1>4. /\ x \in HandStates /\ x.hand_no = Last(r)
      /\ HandClosed(r, None, nothing) = [r.hands EXCEPT ![Last(r)] = x]
  BY <1>1, ClosedHand
<1>5. x.paid = InHand(r, nothing)
  BY <1>1 DEF AsClosed, HandStates
<1>6. \A q \in Player : y.paid[q] = 0
  BY DEF HandState
<1>7. deal[1] \in Nat \ {0} /\ deal[2] \in 0 .. SEAT_COUNT - 1
  BY <1>1, NextDealPosition
<1> HIDE DEF s, x, deal
<1>8. Grown(OpenNextHand([r.hands EXCEPT ![Last(r)] = x], deal), r.hands, x, y)
  BY <1>1, <1>4, <1>7, OpenedAfter
<1> HIDE DEF y
<1>9. WrittenDown(s, r, nothing, x, y)
  BY <1>2, <1>3, <1>4, <1>5, <1>6, <1>8 DEF WrittenDown
<1>10. Accounted(s)
  BY <1>1, <1>9, WrittenAccounted
<1> QED
  BY <1>10 DEF s

LEMMA ContinuedAccounted ==
    ASSUME NEW r, GoodRoom(r), Accounted(r), NEW p, CanContinueWind(r, p)
    PROVE  Accounted(WindContinued(r))
<1> DEFINE s == WindContinued(r)
           nothing == [q \in Player |-> 0]
           x == Current(r)
           y == HandState(x.hand_no + 1, x.wind + 1, 0)
<1>1. /\ r.status = "in_progress" /\ x \in HandStates
      /\ r.hands \in Seq(HandStates) /\ Len(r.hands) > 0 /\ x = r.hands[Len(r.hands)]
  BY LastHand DEF CanContinueWind, Last, Current
<1>2. Fair(nothing, r)
  BY <1>1, LastHand, FairNothing
<1>3. /\ s.members = r.members /\ s.balances = r.balances /\ s.hands = Append(r.hands, y)
  BY DEF WindContinued, GoodRoom, IsRoom, OpenNextHand, Current, Last
<1>4. Credited(r, nothing) = r.balances /\ InHand(r, nothing) = x.paid
  BY <1>1, NothingCredited
<1>5. \A q \in Player : y.paid[q] = 0
  BY DEF HandState
<1>6. y \in HandStates
  <2>1. x.hand_no + 1 \in Nat /\ x.wind + 1 \in Nat \ {0} /\ 0 \in 0 .. SEAT_COUNT - 1
    BY <1>1 DEF HandStates, SEAT_COUNT
  <2> HIDE DEF x
  <2> QED
    BY <2>1 DEF HandState, HandStates
<1> HIDE DEF s, x, y, nothing
<1>7. Grown(s.hands, r.hands, x, y)
  <2>1. /\ s.hands \in Seq(HandStates) /\ Len(s.hands) = Len(r.hands) + 1
        /\ s.hands[Len(r.hands) + 1] = y
        /\ \A i \in 1 .. Len(r.hands) : s.hands[i] = r.hands[i]
    BY <1>1, <1>3, <1>6, OneMore
  <2>2. Len(r.hands) \in 1 .. Len(r.hands)
    BY <1>1
  <2> QED
    BY <1>1, <2>1, <2>2 DEF Grown
<1>8. WrittenDown(s, r, nothing, x, y)
  BY <1>1, <1>3, <1>4, <1>5, <1>7 DEF WrittenDown
<1>9. Accounted(s)
  BY <1>1, <1>2, <1>8, WrittenAccounted
<1> QED
  BY <1>9 DEF s

(* A room with no game in it is accounted for, whoever comes and goes. *)
LEMMA LobbyAccounted ==
    ASSUME NEW r, GoodRoom(r), r.status \in {"lobby", "disbanded"}
    PROVE  Accounted(r)
BY NothingYet DEF GoodRoom, Ordered, Balanced

LEMMA StepAccounted == IInv /\ Accounted(room) /\ Command => Accounted(room')
<1> SUFFICES ASSUME GoodRoom(room), Accounted(room), Command PROVE Accounted(room')
  BY DEF IInv
<1>1. CASE LobbyStep
  <2>1. GoodRoom(room')
    BY <1>1, LobbyStepGood DEF IInv, GoodStep
  <2>2. ASSUME NEW p \in Player, NEW rules \in RuleChoices, Start(p, rules)
        PROVE  Accounted(room')
    BY <2>2, StartedAccounted DEF Start
  <2>3. CASE ~ \E p \in Player, rules \in RuleChoices : Start(p, rules)
    <3>1. DOMAIN room = {"status", "seq", "host_id", "members", "rules", "hands", "balances",
                         "pending_wind_decision"}
      BY DEF GoodRoom, IsRoom
    <3>2. room'.status \in {"lobby", "disbanded"}
      <4>1. ASSUME NEW p, CanJoin(room, p), room' = PlayerJoined(room, p)
            PROVE  room'.status = "lobby"
        BY <3>1, <4>1 DEF CanJoin, PlayerJoined
      <4>2. ASSUME NEW p, room.status = "lobby", room' = PlayerLeft(room, p)
            PROVE  room'.status = "lobby"
        BY <3>1, <4>2 DEF PlayerLeft
      <4>3. ASSUME NEW p, Disband(p)
            PROVE  room'.status = "disbanded"
        BY <3>1, <4>3 DEF Disband, RoomDisbanded
      <4>4. ASSUME NEW p, NEW seat_map, AssignSeats(p, seat_map)
            PROVE  room'.status = "lobby"
        BY <3>1, <4>4 DEF AssignSeats, CanAssignSeats, SeatsAssigned
      <4>5. \/ \E p \in Account : Join(p)
            \/ \E p \in Player, g \in Guest : AddGuest(p, g) \/ RemoveGuest(p, g)
            \/ \E p \in Player : Leave(p) \/ Disband(p)
            \/ \E p \in Player, seat_map \in SeatMaps : AssignSeats(p, seat_map)
        BY <1>1, <2>3 DEF LobbyStep
      <4> QED
        BY <4>1, <4>2, <4>3, <4>4, <4>5
           DEF Join, AddGuest, RemoveGuest, Leave, CanAddGuest, CanRemoveGuest, CanLeave
    <3> QED
      BY <2>1, <3>2, LobbyAccounted
  <2> QED
    BY <2>2, <2>3
<1>2. CASE HandStep
  <2>1. PICK p \in Player :
            \/ \E seat \in SeatInputs, an \in BOOLEAN : DeclareYao(p, seat, an)
            \/ \E seat \in SeatInputs : DeclareGang(p, seat)
            \/ DeclareAngang(p)
            \/ \E h \in HuInputs : DeclareHu(p, h)
            \/ DeclareNoWin(p) \/ ContinueWind(p) \/ EndGame(p)
    BY <1>2 DEF HandStep
  <2>2. ASSUME MayDeclare(room, p)
        PROVE  /\ FourSeats(room) /\ Members(room) \subseteq Player
               /\ room.rules \in RuleChoices /\ p \in Members(room)
    BY <2>2, LastHand DEF MayDeclare
  <2>3. ASSUME NEW seat \in SeatInputs, NEW an \in BOOLEAN, DeclareYao(p, seat, an)
        PROVE  Accounted(room')
    <3>1. Fair(Yao(room, p, seat, an), room)
      BY <2>2, <2>3, FairYao DEF DeclareYao
    <3> QED
      BY <2>3, <3>1, YaoAccounted DEF DeclareYao
  <2>4. ASSUME NEW seat \in SeatInputs, DeclareGang(p, seat)
        PROVE  Accounted(room')
    <3>1. Fair(Gang(room, p, seat), room)
      BY <2>2, <2>4, FairGang DEF DeclareGang
    <3> QED
      BY <2>4, <3>1, YaoAccounted DEF DeclareGang
  <2>5. ASSUME DeclareAngang(p)
        PROVE  Accounted(room')
    <3>1. Fair(Angang(room, p), room)
      BY <2>2, <2>5, FairGang DEF DeclareAngang
    <3> QED
      BY <2>5, <3>1, YaoAccounted DEF DeclareAngang
  <2>6. ASSUME NEW h \in HuInputs, DeclareHu(p, h)
        PROVE  Accounted(room')
    <3>1. MayDeclare(room, p) /\ h.tai \in Int
      BY <2>6, InputAssumption DEF DeclareHu, CanHu, HuInputs
    <3>2. Fair(Hu(room, p, h), room)
      BY <2>2, <2>6, <3>1, FairHu DEF DeclareHu
    <3> QED
      BY <2>6, <3>1, <3>2, HuAccounted DEF DeclareHu
  <2>7. ASSUME DeclareNoWin(p)
        PROVE  Accounted(room')
    BY <2>7, NoWinAccounted DEF DeclareNoWin
  <2>8. ASSUME ContinueWind(p)
        PROVE  Accounted(room')
    BY <2>8, ContinuedAccounted DEF ContinueWind
  <2>9. ASSUME EndGame(p)
        PROVE  Accounted(room')
    <3>1. /\ room'.members = room.members /\ room'.balances = room.balances
          /\ room'.hands = room.hands
      BY <2>9 DEF EndGame, GameEnded, GoodRoom, IsRoom
    <3> QED
      BY <3>1, UntouchedAccounted
  <2> QED
    BY <2>1, <2>3, <2>4, <2>5, <2>6, <2>7, <2>8, <2>9
<1> QED
  BY <1>1, <1>2 DEF Command

(* Each balance is the sum of what the hands say the player won or lost in them, *)
(* for any number of hands.                                                      *)
THEOREM LedgerIsExact == Spec => []LedgerMatchesBalances
<1>1. IInv /\ Init => LedgerMatchesBalances
  <2> SUFFICES ASSUME GoodRoom(room), Init PROVE Accounted(room)
    BY DEF IInv, LedgerMatchesBalances
  <2>1. room.status = "lobby"
    BY DEF Init, NewRoom
  <2> QED
    BY <2>1, LobbyAccounted
<1>2. IInv /\ LedgerMatchesBalances /\ [Next]_room => LedgerMatchesBalances'
  BY StepAccounted DEF Next, LedgerMatchesBalances
<1> QED
  BY Inductive, InitGood, <1>1, <1>2, PTL DEF Spec

-----------------------------------------------------------------------------
(* The screen: what a flow can hold after any number of taps. *)

FlowStates ==
    [kind : {"none", "yao", "gang", "hu"}, handNo : Nat,
     step : {"pick", "how", "pick-bao", "tai"}, mode : Modes, seat : {NoSeat} \cup 0 .. 3,
     tai : Nat, zimoBonus : BOOLEAN, klppdd : BOOLEAN]

\* A form that declare_hu and the seat checks accept from the player at mySeat.
FormFits(f, mySeat, maxTai) ==
    /\ f \in FlowStates
    /\ f.tai \in 1 .. maxTai
    /\ f.zimoBonus => f.step = "tai" /\ f.mode = "zimo"
    /\ f.step \in {"how", "tai"} /\ f.mode # "zimo" => f.seat \in 0 .. 3
    /\ f.step = "tai" /\ f.mode # "zimo" => f.seat # mySeat
    /\ f.step # "tai" => f.mode = "direct"
    /\ f.kind = "hu" \/ f.step # "tai"

LEMMA OpenedFits ==
    ASSUME NEW kind \in {"none", "yao", "gang", "hu"}, NEW handNo \in Nat,
           NEW mySeat \in 0 .. 3, NEW maxTai \in Nat \ {0}
    PROVE  FormFits(Flow(kind, handNo), mySeat, maxTai)
BY DEF Flow, FormFits, FlowStates, Modes, NoSeat

(* No tap spoils the form, whatever was tapped before. *)
LEMMA TapFits ==
    ASSUME NEW mySeat \in 0 .. 3, NEW maxTai \in Nat \ {0},
           NEW f, FormFits(f, mySeat, maxTai), NEW g \in Tapped(f, mySeat, maxTai)
    PROVE  FormFits(g, mySeat, maxTai) /\ g.kind = f.kind /\ g.handNo = f.handNo
<1>1. f \in FlowStates /\ f.tai \in 1 .. maxTai
  BY DEF FormFits
<1>2. CASE f.kind = "yao" /\ f.step = "pick"
  <2>1. PICK seat \in PlayerPicker(NoSeat) : g = YaoPicked(f, seat)
    BY <1>2 DEF Tapped
  <2>2. seat \in 0 .. 3
    BY DEF PlayerPicker
  <2>3. /\ g \in FlowStates /\ g.step = "how" /\ g.seat = seat /\ g.kind = f.kind
        /\ g.handNo = f.handNo /\ g.mode = f.mode /\ g.tai = f.tai /\ g.zimoBonus = f.zimoBonus
    BY <1>1, <2>1, <2>2 DEF YaoPicked, FlowStates
  <2> QED
    BY <1>2, <2>2, <2>3 DEF FormFits
<1>3. CASE f.kind = "hu" /\ f.step = "pick"
  <2>1. /\ f.mode = "direct" /\ f.zimoBonus = FALSE
        /\ \/ g = [f EXCEPT !.step = "pick-bao"]
           \/ \E seat \in PlayerPicker(NoSeat) : g = HuPicked(f, mySeat, seat)
    BY <1>1, <1>3 DEF Tapped, FormFits, FlowStates
  <2>2. CASE g = [f EXCEPT !.step = "pick-bao"]
    BY <1>1, <1>3, <2>1, <2>2 DEF FormFits, FlowStates
  <2>3. ASSUME NEW seat \in 0 .. 3, g = HuPicked(f, mySeat, seat)
        PROVE  FormFits(g, mySeat, maxTai) /\ g.kind = f.kind /\ g.handNo = f.handNo
    <3>1. CASE seat = mySeat
      BY <1>1, <1>3, <2>1, <2>3, <3>1 DEF FormFits, FlowStates, HuPicked, Modes
    <3>2. CASE seat # mySeat
      BY <1>1, <1>3, <2>1, <2>3, <3>2 DEF FormFits, FlowStates, HuPicked, Modes
    <3> QED
      BY <3>1, <3>2
  <2> QED
    BY <2>1, <2>2, <2>3 DEF PlayerPicker
<1>4. CASE f.kind = "hu" /\ f.step = "pick-bao"
  <2>1. PICK seat \in PlayerPicker(mySeat) : g = BaoPicked(f, seat)
    BY <1>4 DEF Tapped
  <2>2. seat \in 0 .. 3 /\ seat # mySeat /\ f.zimoBonus = FALSE
    BY <1>1, <1>4 DEF PlayerPicker, FormFits, FlowStates
  <2> QED
    BY <1>1, <1>4, <2>1, <2>2 DEF FormFits, FlowStates, BaoPicked, Modes
<1>5. CASE f.kind = "hu" /\ f.step = "tai"
  <2>1. \/ \E tai \in 1 .. maxTai : g = [f EXCEPT !.tai = tai]
        \/ g = [f EXCEPT !.klppdd = ~@]
        \/ f.mode = "zimo" /\ g = [f EXCEPT !.zimoBonus = ~@]
    <3> DEFINE less == IF f.tai > 1 THEN f.tai - 1 ELSE 1
               more == IF f.tai < maxTai THEN f.tai + 1 ELSE maxTai
    <3>1. less \in 1 .. maxTai /\ more \in 1 .. maxTai
      BY <1>1
    <3>2. \/ g = [f EXCEPT !.tai = less] \/ g = [f EXCEPT !.tai = more]
          \/ g = [f EXCEPT !.klppdd = ~@]
          \/ f.mode = "zimo" /\ g = [f EXCEPT !.zimoBonus = ~@]
      BY <1>5, Zenon DEF Tapped, HuTuned
    <3> QED
      BY <3>1, <3>2, Zenon
  <2>2. ASSUME NEW tai \in 1 .. maxTai, g = [f EXCEPT !.tai = tai]
        PROVE  FormFits(g, mySeat, maxTai) /\ g.kind = f.kind /\ g.handNo = f.handNo
    BY <1>1, <1>5, <2>2 DEF FormFits, FlowStates
  <2>3. CASE g = [f EXCEPT !.klppdd = ~@]
    BY <1>1, <1>5, <2>3 DEF FormFits, FlowStates
  <2>4. CASE f.mode = "zimo" /\ g = [f EXCEPT !.zimoBonus = ~@]
    BY <1>1, <1>5, <2>4 DEF FormFits, FlowStates
  <2> QED
    BY <2>1, <2>2, <2>3, <2>4
<1> QED
  BY <1>2, <1>3, <1>4, <1>5 DEF Tapped

\* g holds the forms that so many taps lead to.
IsTapping(g, most, mySeat, maxTai) ==
    g = [taps \in 0 .. most |->
            IF taps = 0 THEN Opening ELSE OneTapMore(g[taps - 1], mySeat, maxTai)]

LEMMA TappingExists ==
    ASSUME NEW most \in Nat, NEW mySeat, NEW maxTai
    PROVE  \E g : IsTapping(g, most, mySeat, maxTai)
<1> DEFINE T == {n \in Nat : ~ \E g : IsTapping(g, n, mySeat, maxTai)}
<1>1. T = {}
  <2> SUFFICES ASSUME T # {} PROVE FALSE
    OBVIOUS
  <2>1. PICK m \in T : \A n \in T : m <= n
    BY LeastNat, Zenon
  <2>2. m # 0
    <3> DEFINE g == [taps \in 0 .. 0 |-> Opening]
    <3>1. IsTapping(g, 0, mySeat, maxTai)
      BY DEF IsTapping
    <3> QED
      BY <2>1, <3>1
  <2>3. PICK g : IsTapping(g, m - 1, mySeat, maxTai)
    BY <2>1, <2>2
  <2> DEFINE h == [taps \in 0 .. m |->
                      IF taps = m THEN OneTapMore(g[m - 1], mySeat, maxTai) ELSE g[taps]]
  <2>4. m \in Nat \ {0}
    BY <2>1, <2>2
  <2>5. \A taps \in 0 .. m - 1 :
            g[taps] = IF taps = 0 THEN Opening ELSE OneTapMore(g[taps - 1], mySeat, maxTai)
    BY <2>3 DEF IsTapping
  <2>6. \A taps \in 0 .. m :
            h[taps] = IF taps = 0 THEN Opening ELSE OneTapMore(h[taps - 1], mySeat, maxTai)
    BY <2>4, <2>5
  <2>7. IsTapping(h, m, mySeat, maxTai)
    BY <2>6 DEF IsTapping
  <2> QED
    BY <2>1, <2>7
<1> QED
  BY <1>1

LEMMA FormsTapped ==
    ASSUME NEW most \in Nat, NEW mySeat, NEW maxTai
    PROVE  \E g : /\ FormsAfter(most, mySeat, maxTai) = g[most]
                  /\ g[0] = Opening
                  /\ \A n \in 1 .. most : g[n] = OneTapMore(g[n - 1], mySeat, maxTai)
<1> DEFINE g == CHOOSE h : IsTapping(h, most, mySeat, maxTai)
<1>1. IsTapping(g, most, mySeat, maxTai)
  BY TappingExists
<1>2. FormsAfter(most, mySeat, maxTai) = g[most]
  BY Zenon DEF FormsAfter, IsTapping
<1> HIDE DEF g
<1>3. \A n \in 0 .. most :
        g[n] = IF n = 0 THEN Opening ELSE OneTapMore(g[n - 1], mySeat, maxTai)
  BY <1>1 DEF IsTapping
<1> QED
  BY <1>2, <1>3

(* The forms of a seat, with the taps that lead to them. *)
LEMMA FormsByTaps ==
    ASSUME NEW mySeat \in 0 .. 3, NEW rules \in RuleChoices
    PROVE  /\ rules.max_tai \in Nat \ {0}
           /\ \E g : /\ Forms[mySeat][rules.max_tai] = g[rules.max_tai + 2]
                     /\ g[0] = Opening
                     /\ \A n \in 1 .. rules.max_tai + 2 :
                            g[n] = OneTapMore(g[n - 1], mySeat, rules.max_tai)
<1> DEFINE maxTai == rules.max_tai
<1>1. maxTai \in Nat \ {0}
  BY InputAssumption DEF ValidRules, MAX_TAI
<1>2. Forms[mySeat][maxTai] = FormsAfter(maxTai + 2, mySeat, maxTai)
  BY DEF Forms
<1> QED
  BY <1>1, <1>2, FormsTapped

(* All forms on offer fit, whatever was tapped to fill them in. *)
LEMMA FormsFit ==
    ASSUME NEW mySeat \in 0 .. 3, NEW rules \in RuleChoices
    PROVE  \A f \in Forms[mySeat][rules.max_tai] : FormFits(f, mySeat, rules.max_tai)
<1> DEFINE maxTai == rules.max_tai
           Fit(forms) == \A f \in forms : FormFits(f, mySeat, maxTai)
<1>1. PICK g : /\ Forms[mySeat][maxTai] = g[maxTai + 2]
               /\ g[0] = Opening
               /\ \A n \in 1 .. maxTai + 2 : g[n] = OneTapMore(g[n - 1], mySeat, maxTai)
  BY FormsByTaps
<1>2. maxTai \in Nat \ {0}
  BY FormsByTaps
<1> HIDE DEF maxTai
<1>3. Fit(Opening)
  BY <1>2, OpenedFits DEF Opening
<1>4. \A forms : Fit(forms) => Fit(OneTapMore(forms, mySeat, maxTai))
  BY <1>2, TapFits DEF OneTapMore
<1> HIDE DEF Fit
<1> DEFINE T == {n \in 0 .. maxTai + 2 : ~Fit(g[n])}
<1>5. T = {}
  <2> SUFFICES ASSUME T # {} PROVE FALSE
    OBVIOUS
  <2>1. T \in SUBSET Nat
    BY <1>2
  <2>2. PICK m \in T : \A n \in T : m <= n
    BY <2>1, LeastNat, Zenon
  <2>3. m # 0
    BY <1>1, <1>3, <2>2
  <2>4. m \in 1 .. maxTai + 2 /\ m - 1 \in 0 .. maxTai + 2 /\ Fit(g[m - 1])
    BY <1>2, <2>2, <2>3
  <2> QED
    BY <1>1, <1>4, <2>2, <2>4
<1>6. Fit(Forms[mySeat][maxTai])
  BY <1>1, <1>2, <1>5
<1> QED
  BY <1>6 DEF Fit, maxTai

\* A declaration that the seats and the rules of room r allow, hand and player apart.
CommandFits(r, c) ==
    /\ c.name \in {"yao", "gang"} => c.seat \in 0 .. 3
    /\ c.name = "hu" =>
        /\ c.h.tai \in 1 .. r.rules.max_tai
        /\ c.h.zimo_bonus => c.h.mode = "zimo"
        /\ c.h.mode # "zimo" => c.h.target_seat \in (0 .. 3) \ {r.members[c.actor]}

(* What the last tap of a flow sends fits. *)
LEMMA SubmitFits ==
    ASSUME NEW r, NEW me, NEW p, NEW f, FormFits(f, r.members[p], r.rules.max_tai),
           NEW c \in Submits(f, me, p)
    PROVE  CommandFits(r, c) /\ c.name \in FlowCommands /\ c.caller = me /\ c.actor = p
<1>1. CASE f.kind = "yao" /\ f.step = "how"
  <2>1. PICK an \in BOOLEAN : c = [Cmd("yao", me, p) EXCEPT !.seat = f.seat, !.an = an]
    BY <1>1 DEF Submits
  <2>2. f.seat \in 0 .. 3
    BY <1>1 DEF FormFits
  <2> QED
    BY <2>1, <2>2 DEF Cmd, CommandFits, FlowCommands
<1>2. CASE f.kind = "gang"
  <2>1. \/ \E seat \in 0 .. 3 : c = [Cmd("gang", me, p) EXCEPT !.seat = seat]
        \/ c = Cmd("angang", me, p)
    BY <1>2 DEF Submits, PlayerPicker
  <2> QED
    BY <2>1 DEF Cmd, CommandFits, FlowCommands
<1>3. CASE f.kind = "hu" /\ f.step = "tai"
  <2>1. c = [Cmd("hu", me, p) EXCEPT !.h = HuSent(f)]
    BY <1>3 DEF Submits
  <2>2. /\ f.tai \in 1 .. r.rules.max_tai
        /\ f.zimoBonus => f.mode = "zimo"
        /\ f.mode # "zimo" => f.seat \in (0 .. 3) \ {r.members[p]}
    BY <1>3 DEF FormFits
  <2>3. c.name = "hu" /\ c.caller = me /\ c.actor = p /\ c.h = HuSent(f)
    BY <2>1 DEF Cmd
  <2>4. /\ c.h.tai = f.tai /\ c.h.zimo_bonus = f.zimoBonus /\ c.h.mode = f.mode
        /\ c.h.target_seat = f.seat
    BY <2>3 DEF HuSent
  <2> QED
    BY <2>2, <2>3, <2>4 DEF CommandFits, FlowCommands
<1> QED
  BY <1>1, <1>2, <1>3 DEF Submits

(* And what fits is accepted, as long as the hand is open and the phone may act. *)
LEMMA FitsAccepted ==
    ASSUME NEW r, GoodRoom(r), NEW c, c.name \in FlowCommands \cup {"no_win"},
           CommandFits(r, c), MayDeclare(r, c.actor), ActsFor(r, c.caller, c.actor)
    PROVE  Accepts(r, c)
<1>1. r.status = "in_progress" /\ c.actor \in Members(r) /\ FourSeats(r)
  BY LastHand DEF MayDeclare
<1>2. \A seat \in 0 .. 3 : SeatTaken(r, seat)
  BY <1>1 DEF FourSeats, SeatTaken
<1>3. CASE c.name = "hu"
  <2>1. r.rules \in RuleChoices
    BY <1>1, LastHand
  <2>3. ValidRules(r.rules)
    BY <2>1, InputAssumption
  <2>4. c.h.tai \in 1 .. r.rules.max_tai /\ r.rules.max_tai \in Nat
    BY <1>3, <2>3 DEF CommandFits, ValidRules, MAX_TAI
  <2>2. c.h.mode # "zimo" =>
            SeatTaken(r, c.h.target_seat) /\ SeatPlayer(r, c.h.target_seat) # c.actor
    BY <1>1, <1>2, <1>3 DEF CommandFits, FourSeats
  <2> QED
    BY <1>3, <2>4, <2>2 DEF Accepts, CanHu, CommandFits
<1>4. CASE c.name \in {"yao", "gang"}
  BY <1>2, <1>4 DEF Accepts, CommandFits
<1>5. CASE c.name \in {"angang", "no_win"}
  BY <1>5 DEF Accepts
<1> QED
  BY <1>3, <1>4, <1>5 DEF FlowCommands

(* Trading two seats of a full table leaves it full. *)
LEMMA SwapKeepsSeats ==
    ASSUME NEW r, NEW me, NEW p \in Members(r), NEW q \in Members(r), p # q
    PROVE  LET c == SwapSeats(r, me, p, q)
           IN  /\ c.name = "assign_seats" /\ c.caller = me /\ c.actor = me
               /\ DOMAIN c.seat_map = {p, q}
               /\ AllSeats(r.members) => AllSeats(Reseated(r.members, c.seat_map))
<1> DEFINE seat_map == [x \in {p, q} |-> IF x = p THEN r.members[q] ELSE r.members[p]]
           merged == Reseated(r.members, seat_map)
<1>1. DOMAIN seat_map = {p, q} /\ seat_map[p] = r.members[q] /\ seat_map[q] = r.members[p]
  OBVIOUS
<1>2. /\ DOMAIN merged = Members(r)
      /\ merged[p] = r.members[q] /\ merged[q] = r.members[p]
      /\ \A x \in Members(r) \ {p, q} : merged[x] = r.members[x]
  BY <1>1 DEF Reseated, Members
<1> HIDE DEF seat_map, merged
<1>3. {merged[x] : x \in DOMAIN merged} = {r.members[x] : x \in DOMAIN r.members}
  <2>1. \A x \in Members(r) : \E y \in Members(r) : merged[x] = r.members[y]
    BY <1>2
  <2>2. \A y \in Members(r) : \E x \in Members(r) : merged[x] = r.members[y]
    BY <1>2
  <2> QED
    BY <1>2, <2>1, <2>2 DEF Members
<1> QED
  BY <1>1, <1>3 DEF SwapSeats, Cmd, AllSeats, seat_map, merged

(* Four players in good seats sit in all of them. *)
LEMMA FullTableSits ==
    ASSUME NEW r, GoodRoom(r), Cardinality(Members(r)) = SEAT_COUNT
    PROVE  AllSeats(r.members)
<1>1. IsFiniteSet(Members(r))
  BY PlayerAssumption, FS_Subset DEF GoodRoom, IsRoom
<1>2. /\ r.members \in [Members(r) -> 0 .. SEAT_COUNT - 1]
      /\ \A p, q \in Members(r) : r.members[p] = r.members[q] => p = q
  BY DEF GoodRoom, IsRoom, Seated
<1> QED
  BY <1>1, <1>2, SeatsFilled DEF Members

(* Every button of the lobby works, whoever sits where, unless the name typed for a *)
(* guest is taken.                                                                  *)
LEMMA LobbyOffersAccepted ==
    ASSUME NEW r, GoodRoom(r), NEW me \in Account, NEW c \in LobbyCommands(r, me, FALSE)
    PROVE  Accepts(r, c) \/ (c.name = "add_guest" /\ NameTaken(r, c.actor))
<1>1. r.status = "lobby"
  BY DEF LobbyCommands
<1>2. CASE ~isMember(r, me) /\ Cardinality(Members(r)) < 4 /\ c = Cmd("join", me, me)
  BY <1>1, <1>2 DEF isMember, Cmd, Accepts, CanJoin, SEAT_COUNT
<1>3. CASE isHost(r, me) /\ Cardinality(Members(r)) = 4 /\ c = Cmd("start", me, me)
  BY <1>1, <1>3, FullTableSits DEF isHost, Cmd, Accepts, CanStart, SEAT_COUNT
<1>4. CASE isHost(r, me) /\ c = Cmd("disband", me, me)
  BY <1>1, <1>4 DEF isHost, Cmd, Accepts, CanDisband
<1>5. CASE isMember(r, me) /\ ~isHost(r, me) /\ c = Cmd("leave", me, me)
  BY <1>1, <1>5 DEF isMember, isHost, Cmd, Accepts, CanLeave
<1>6. ASSUME NEW g \in guests(r, me), c = Cmd("remove_guest", me, g)
      PROVE  Accepts(r, c)
  BY <1>1, <1>6 DEF guests, isHost, Cmd, Accepts, CanRemoveGuest
<1>7. ASSUME NEW g \in Guest \ Members(r), AddGuestForm(r, me), Enterable(g),
             c = Cmd("add_guest", me, g), ~NameTaken(r, g)
      PROVE  Accepts(r, c)
  BY <1>1, <1>7 DEF AddGuestForm, Enterable, isHost, Cmd, Accepts, CanAddGuest, CanJoin, SEAT_COUNT
<1>8. ASSUME NEW p \in Members(r), NEW q \in Members(r), p # q, canRearrange(r, me),
             c = SwapSeats(r, me, p, q)
      PROVE  Accepts(r, c)
  <2>1. r.host_id = me /\ Cardinality(Members(r)) = SEAT_COUNT
    BY <1>8 DEF canRearrange, isHost, SEAT_COUNT
  <2>2. AllSeats(Reseated(r.members, c.seat_map)) /\ DOMAIN c.seat_map = {p, q}
    BY <1>8, <2>1, FullTableSits, SwapKeepsSeats
  <2>3. c.name = "assign_seats" /\ c.caller = me
    BY <1>8 DEF SwapSeats, Cmd
  <2> QED
    BY <1>1, <2>1, <2>2, <2>3 DEF Accepts, CanAssignSeats
<1>9. c \in Swaps(r, me) =>
        \E p, q \in Members(r) : p # q /\ canRearrange(r, me) /\ c = SwapSeats(r, me, p, q)
  BY DEF Swaps
<1>10. c \in {Cmd("add_guest", me, g) :
                g \in {h \in Guest \ Members(r) : AddGuestForm(r, me) /\ Enterable(h)}}
       => Accepts(r, c) \/ (c.name = "add_guest" /\ NameTaken(r, c.actor))
  BY <1>7 DEF Cmd
<1> QED
  BY <1>1, <1>2, <1>3, <1>4, <1>5, <1>6, <1>8, <1>9, <1>10 DEF LobbyCommands, Live

(* At the table somebody may always declare, for himself or for a guest of his. *)
LEMMA TableOpen ==
    ASSUME NEW r, GoodRoom(r), NEW me, AtTable(r, me), NEW pick
    PROVE  /\ MayDeclare(r, Actor(r, me, pick)) /\ ActsFor(r, me, Actor(r, me, pick))
           /\ MayDeclare(r, me)
           /\ r.members[Actor(r, me, pick)] \in 0 .. 3
<1>1. r.status = "in_progress" /\ ~r.pending_wind_decision /\ me \in Members(r)
  BY DEF AtTable, isMember
<1>2. Last(r) > 0 /\ ~Current(r).closed
  BY <1>1, LastHand
<1>3. Actor(r, me, pick) \in Members(r) /\ ActsFor(r, me, Actor(r, me, pick))
  BY <1>1 DEF Actor, guests, ActsFor
<1>4. r.members \in [Members(r) -> 0 .. 3]
  BY DEF GoodRoom, IsRoom, SEAT_COUNT
<1> QED
  BY <1>1, <1>2, <1>3, <1>4 DEF MayDeclare

(* The phones never offer what the API refuses: not in the lobby, but for a guest *)
(* called like somebody who is there, not while the host decides, not at the end  *)
(* of a flow, for any players and any rules.                                      *)
THEOREM NothingOfferedFails == Spec => []OffersAreAccepted
<1>1. GoodRoom(room) => OffersAreAccepted
  <2> SUFFICES ASSUME GoodRoom(room), NEW me \in Account
               PROVE  /\ \A c \in LobbyCommands(room, me, FALSE) :
                            \/ Accepts(room, c)
                            \/ c.name = "add_guest" /\ NameTaken(room, c.actor)
                      /\ \A c \in WindDecisionView(room, me) \cup TableButtons(room, me) :
                            Accepts(room, c)
                      /\ AtTable(room, me) => \A pick \in Guest \cup {None} :
                            \A f \in FormsFor(room, Actor(room, me, pick)) :
                                \A c \in Submits(f, me, Actor(room, me, pick)) : Accepts(room, c)
    BY DEF OffersAreAccepted
  <2>1. ASSUME NEW c \in WindDecisionView(room, me)
        PROVE  Accepts(room, c)
    BY <2>1 DEF WindDecisionView, Deciding, isHost, Cmd, Accepts, CanContinueWind, CanEnd
  <2>2. ASSUME NEW c \in TableButtons(room, me)
        PROVE  Accepts(room, c)
    <3>1. CASE AtTable(room, me) /\ c = Cmd("no_win", me, me)
      <4>1. MayDeclare(room, me)
        BY <3>1, TableOpen
      <4> QED
        BY <3>1, <4>1 DEF Cmd, Accepts, ActsFor
    <3>2. CASE AtTable(room, me) /\ isHost(room, me) /\ c = Cmd("end_game", me, me)
      BY <3>2 DEF AtTable, isHost, Cmd, Accepts, CanEnd
    <3> QED
      BY <2>2, <3>1, <3>2 DEF TableButtons, Live
  <2>3. ASSUME AtTable(room, me), NEW pick, NEW f \in FormsFor(room, Actor(room, me, pick)),
               NEW c \in Submits(f, me, Actor(room, me, pick))
        PROVE  Accepts(room, c)
    <3> DEFINE p == Actor(room, me, pick)
    <3>1. MayDeclare(room, p) /\ ActsFor(room, me, p) /\ room.members[p] \in 0 .. 3
      BY <2>3, TableOpen
    <3>2. room.rules \in RuleChoices
      BY <3>1, LastHand DEF MayDeclare
    <3> HIDE DEF p
    <3>3. FormFits(f, room.members[p], room.rules.max_tai)
      BY <2>3, <3>1, <3>2, FormsFit DEF FormsFor, p
    <3>4. CommandFits(room, c) /\ c.name \in FlowCommands /\ c.caller = me /\ c.actor = p
      BY <2>3, <3>3, SubmitFits DEF p
    <3> QED
      BY <3>1, <3>4, FitsAccepted
  <2> QED
    BY <2>1, <2>2, <2>3, LobbyOffersAccepted
<1> QED
  BY Inductive, <1>1, PTL DEF IInv

(* A form with one tai leads to the same form with any other, one tap a tai. *)
LEMMA TaiRaised ==
    ASSUME NEW maxTai \in Nat \ {0}, NEW mySeat, NEW most \in Nat, NEW n \in Nat, NEW g,
           \A k \in 1 .. most : g[k] = OneTapMore(g[k - 1], mySeat, maxTai),
           NEW f \in g[n], f \in FlowStates, f.kind = "hu", f.step = "tai", f.tai = 1
    PROVE  \A k \in 1 .. maxTai : n + k - 1 <= most => [f EXCEPT !.tai = k] \in g[n + k - 1]
<1> DEFINE T == {k \in 1 .. maxTai :
                    n + k - 1 <= most /\ [f EXCEPT !.tai = k] \notin g[n + k - 1]}
<1>1. T = {}
  <2> SUFFICES ASSUME T # {} PROVE FALSE
    OBVIOUS
  <2>1. T \in SUBSET Nat
    OBVIOUS
  <2>2. PICK m \in T : \A k \in T : m <= k
    BY <2>1, LeastNat, Zenon
  <2>3. m # 1
    <3>1. [f EXCEPT !.tai = 1] = f
      BY DEF FlowStates
    <3> QED
      BY <2>2, <3>1
  <2> DEFINE h == [f EXCEPT !.tai = m - 1]
  <2>4. /\ m - 1 \in 1 .. maxTai /\ n + m - 1 \in 1 .. most
        /\ n + (m - 1) - 1 <= most /\ n + (m - 1) - 1 = (n + m - 1) - 1 /\ ~(m <= m - 1)
    BY <2>2, <2>3
  <2>5. h \in g[(n + m - 1) - 1]
    BY <2>2, <2>4
  <2>6. h.kind = "hu" /\ h.step = "tai" /\ h.tai = m - 1 /\ m - 1 < maxTai
        /\ [h EXCEPT !.tai = h.tai + 1] = [f EXCEPT !.tai = m]
    <3>1. h.kind = "hu" /\ h.step = "tai" /\ h.tai = m - 1
      BY DEF FlowStates
    <3>2. [h EXCEPT !.tai = m] = [f EXCEPT !.tai = m]
      BY DEF FlowStates
    <3>3. h.tai + 1 = m /\ m - 1 < maxTai
      BY <2>2, <2>4, <3>1
    <3> QED
      BY <3>1, <3>2, <3>3
  <2> HIDE DEF h
  <2>7. [h EXCEPT !.tai = IF @ < maxTai THEN @ + 1 ELSE maxTai] = [h EXCEPT !.tai = h.tai + 1]
    BY <2>6
  <2>8. [h EXCEPT !.tai = IF @ < maxTai THEN @ + 1 ELSE maxTai] \in Tapped(h, mySeat, maxTai)
    BY <2>6, Zenon DEF Tapped, HuTuned
  <2>9. [f EXCEPT !.tai = m] \in OneTapMore(g[(n + m - 1) - 1], mySeat, maxTai)
    BY <2>5, <2>6, <2>7, <2>8 DEF OneTapMore
  <2> QED
    BY <2>2, <2>4, <2>9
<1> QED
  BY <1>1

(* What some taps have led to, more taps may leave as it is. *)
LEMMA FormKept ==
    ASSUME NEW most \in Nat, NEW n \in 0 .. most, NEW g, NEW f \in g[n],
           \A k \in 1 .. most : g[k - 1] \subseteq g[k]
    PROVE  f \in g[most]
<1> DEFINE T == {k \in n .. most : f \notin g[k]}
<1>1. T = {}
  <2> SUFFICES ASSUME T # {} PROVE FALSE
    OBVIOUS
  <2>1. T \in SUBSET Nat
    OBVIOUS
  <2>2. PICK m \in T : \A k \in T : m <= k
    BY <2>1, LeastNat, Zenon
  <2>3. m # n
    BY <2>2
  <2>4. m \in 1 .. most /\ m - 1 \in n .. most /\ ~(m <= m - 1)
    BY <2>2, <2>3
  <2>5. f \in g[m - 1]
    BY <2>2, <2>4
  <2> QED
    BY <2>2, <2>4, <2>5
<1> QED
  BY <1>1

(* Three steps to a win at one tai, each of them a tap or none, leave taps enough for *)
(* any tai that the rules allow.                                                      *)
LEMMA AnyTaiInReach ==
    ASSUME NEW mySeat \in 0 .. 3, NEW rules \in RuleChoices, NEW d, NEW e, NEW f,
           d \in Tapped(Flow("hu", 1), mySeat, rules.max_tai),
           e = d \/ e \in Tapped(d, mySeat, rules.max_tai),
           f = e \/ f \in Tapped(e, mySeat, rules.max_tai),
           f \in FlowStates, f.kind = "hu", f.step = "tai", f.tai = 1,
           NEW tai \in 1 .. rules.max_tai
    PROVE  [f EXCEPT !.tai = tai] \in Forms[mySeat][rules.max_tai]
<1> DEFINE maxTai == rules.max_tai
<1>1. PICK g : /\ Forms[mySeat][maxTai] = g[maxTai + 2]
               /\ g[0] = Opening
               /\ \A n \in 1 .. maxTai + 2 : g[n] = OneTapMore(g[n - 1], mySeat, maxTai)
  BY FormsByTaps
<1>2. maxTai \in Nat \ {0} /\ tai \in 1 .. maxTai
  BY FormsByTaps
<1>3. d \in Tapped(Flow("hu", 1), mySeat, maxTai) /\ (e = d \/ e \in Tapped(d, mySeat, maxTai))
      /\ (f = e \/ f \in Tapped(e, mySeat, maxTai))
  OBVIOUS
<1> HIDE DEF maxTai
<1>4. \A n \in 1 .. maxTai + 2 : \A a, b :
        a \in g[n - 1] /\ (b = a \/ b \in Tapped(a, mySeat, maxTai)) => b \in g[n]
  BY <1>1 DEF OneTapMore
<1>5. d \in g[1]
  <2>1. Flow("hu", 1) \in g[1 - 1]
    BY <1>1 DEF Opening
  <2> QED
    BY <1>2, <1>3, <1>4, <2>1
<1>6. e \in g[2]
  BY <1>2, <1>3, <1>4, <1>5
<1>7. f \in g[3]
  BY <1>2, <1>3, <1>4, <1>6
<1> DEFINE most == maxTai + 2
           raised == [f EXCEPT !.tai = tai]
<1>8. most \in Nat /\ 3 + tai - 1 \in 0 .. most /\ 3 + tai - 1 <= most
  BY <1>2
<1>9. \A n \in 1 .. most : g[n] = OneTapMore(g[n - 1], mySeat, maxTai)
  BY <1>1
<1> HIDE DEF most
<1>10. raised \in g[3 + tai - 1]
  <2>1. \A k \in 1 .. maxTai : 3 + k - 1 <= most => [f EXCEPT !.tai = k] \in g[3 + k - 1]
    BY <1>2, <1>7, <1>8, <1>9, TaiRaised
  <2> QED
    BY <1>2, <1>8, <2>1
<1> HIDE DEF raised
<1>11. raised \in g[most]
  <2>1. \A n \in 1 .. most : g[n - 1] \subseteq g[n]
    BY <1>9 DEF OneTapMore
  <2> QED
    BY <1>8, <1>10, <2>1, FormKept
<1> QED
  BY <1>1, <1>11 DEF maxTai, most, raised

(* The pickers and toggles of the win flow lead to every win that declare_hu would *)
(* take, at any tai.                                                               *)
LEMMA EveryWinHasAWay ==
    ASSUME NEW mySeat \in 0 .. 3, NEW rules \in RuleChoices,
           NEW h \in [mode : Modes, target_seat : {NoSeat} \cup 0 .. 3, tai : 1 .. rules.max_tai,
                      zimo_bonus : BOOLEAN, klppdd : BOOLEAN],
           h.zimo_bonus => h.mode = "zimo",
           h.mode = "zimo" => h.target_seat = NoSeat,
           h.mode # "zimo" => h.target_seat \in (0 .. 3) \ {mySeat}
    PROVE  \E f \in Forms[mySeat][rules.max_tai] :
                f.kind = "hu" /\ f.step = "tai" /\ HuSent(f) = h
<1> DEFINE maxTai == rules.max_tai
           start == Flow("hu", 1)
           asked == [start EXCEPT !.step = "pick-bao"]
           \* The toggles, from a form that names the right players.
           Toggled(f) == IF h.klppdd THEN [f EXCEPT !.klppdd = ~@] ELSE f
           Raised(f) == [f EXCEPT !.tai = h.tai]
           Ready(f) == f \in FlowStates /\ f.kind = "hu" /\ f.step = "tai" /\ f.tai = 1
           Sent(f) == f.kind = "hu" /\ f.step = "tai" /\ HuSent(f) = h
<1>1. start \in FlowStates /\ start.kind = "hu" /\ start.step = "pick" /\ start.tai = 1
      /\ start.zimoBonus = FALSE /\ start.klppdd = FALSE
  BY DEF Flow, FlowStates, Modes, NoSeat
<1>2. h.mode \in Modes /\ h.tai \in 1 .. maxTai /\ h.zimo_bonus \in BOOLEAN /\ h.klppdd \in BOOLEAN
      /\ h = [mode |-> h.mode, target_seat |-> h.target_seat, tai |-> h.tai,
              zimo_bonus |-> h.zimo_bonus, klppdd |-> h.klppdd]
  OBVIOUS
<1>3. \A seat \in 0 .. 3 : HuPicked(start, mySeat, seat) \in Tapped(start, mySeat, maxTai)
  BY <1>1 DEF Tapped, PlayerPicker, NoSeat
<1>4. asked \in Tapped(start, mySeat, maxTai)
  BY <1>1 DEF Tapped
<1>5. ASSUME NEW f, f.kind = "hu", f.step = "tai"
      PROVE  /\ [f EXCEPT !.klppdd = ~@] \in Tapped(f, mySeat, maxTai)
             /\ f.mode = "zimo" => [f EXCEPT !.zimoBonus = ~@] \in Tapped(f, mySeat, maxTai)
  BY <1>5, Zenon DEF Tapped, HuTuned
<1>6. CASE h.mode = "direct"
  <2> DEFINE f == HuPicked(start, mySeat, h.target_seat)
  <2>1. /\ f \in FlowStates /\ f.kind = "hu" /\ f.step = "tai" /\ f.mode = "direct" /\ f.tai = 1
        /\ f.seat = h.target_seat /\ f.zimoBonus = FALSE /\ f.klppdd = FALSE
    BY <1>1, <1>6 DEF HuPicked, FlowStates, Modes
  <2>2. f \in Tapped(start, mySeat, maxTai)
    BY <1>3, <1>6
  <2> HIDE DEF f, start, asked
  <2>3. Toggled(f) = f \/ Toggled(f) \in Tapped(f, mySeat, maxTai)
    BY <1>5, <2>1
  <2>4. Ready(Toggled(f)) /\ Sent(Raised(Toggled(f)))
    BY <1>2, <1>6, <2>1 DEF HuSent, FlowStates
  <2>5. Raised(Toggled(f)) \in Forms[mySeat][rules.max_tai]
    BY <1>2, <2>2, <2>3, <2>4, AnyTaiInReach DEF start
  <2> QED
    BY <2>4, <2>5
<1>7. CASE h.mode = "zimo"
  <2> DEFINE f == HuPicked(start, mySeat, mySeat)
             g == IF h.zimo_bonus THEN [f EXCEPT !.zimoBonus = ~@] ELSE f
  <2>1. /\ f \in FlowStates /\ f.kind = "hu" /\ f.step = "tai" /\ f.mode = "zimo" /\ f.tai = 1
        /\ f.seat = NoSeat /\ f.zimoBonus = FALSE /\ f.klppdd = FALSE
    BY <1>1 DEF HuPicked, FlowStates, Modes
  <2>2. f \in Tapped(start, mySeat, maxTai)
    BY <1>3
  <2> HIDE DEF f, start, asked
  <2>3. g = f \/ g \in Tapped(f, mySeat, maxTai)
    BY <1>5, <2>1
  <2>4. /\ g \in FlowStates /\ g.kind = "hu" /\ g.step = "tai" /\ g.mode = "zimo" /\ g.tai = 1
        /\ g.seat = NoSeat /\ g.zimoBonus = h.zimo_bonus /\ g.klppdd = FALSE
    BY <1>2, <2>1 DEF FlowStates
  <2> HIDE DEF g
  <2>5. Toggled(g) = g \/ Toggled(g) \in Tapped(g, mySeat, maxTai)
    BY <1>5, <2>4
  <2>6. Ready(Toggled(g)) /\ Sent(Raised(Toggled(g)))
    BY <1>2, <1>7, <2>4 DEF HuSent, FlowStates
  <2>7. Raised(Toggled(g)) \in Forms[mySeat][rules.max_tai]
    BY <1>2, <2>2, <2>3, <2>5, <2>6, AnyTaiInReach DEF start
  <2> QED
    BY <2>6, <2>7
<1>8. CASE h.mode = "bao"
  <2> DEFINE f == BaoPicked(asked, h.target_seat)
  <2>1. asked \in FlowStates /\ asked.kind = "hu" /\ asked.step = "pick-bao" /\ asked.tai = 1
        /\ asked.zimoBonus = FALSE /\ asked.klppdd = FALSE
    BY <1>1 DEF FlowStates
  <2> HIDE DEF start, asked
  <2>2. /\ f \in FlowStates /\ f.kind = "hu" /\ f.step = "tai" /\ f.mode = "bao" /\ f.tai = 1
        /\ f.seat = h.target_seat /\ f.zimoBonus = FALSE /\ f.klppdd = FALSE
    BY <1>8, <2>1 DEF BaoPicked, FlowStates, Modes
  <2>3. f \in Tapped(asked, mySeat, maxTai)
    BY <1>8, <2>1 DEF Tapped, PlayerPicker
  <2> HIDE DEF f
  <2>4. Toggled(f) = f \/ Toggled(f) \in Tapped(f, mySeat, maxTai)
    BY <1>5, <2>2
  <2>5. Ready(Toggled(f)) /\ Sent(Raised(Toggled(f)))
    BY <1>2, <1>8, <2>2 DEF HuSent, FlowStates
  <2>6. Raised(Toggled(f)) \in Forms[mySeat][rules.max_tai]
    BY <1>2, <1>4, <2>3, <2>4, <2>5, AnyTaiInReach DEF start
  <2> QED
    BY <2>5, <2>6
<1> QED
  BY <1>2, <1>6, <1>7, <1>8 DEF Modes

(* So the flows lead to everything that the API would take from the player at the *)
(* table they are for.                                                            *)
LEMMA EveryDeclarationHasAWay ==
    ASSUME NEW r, GoodRoom(r), r.rules \in RuleChoices, NEW p \in Members(r), NEW me,
           NEW c \in Declarations(me, p, r.rules.max_tai), Accepts(r, c)
    PROVE  c \in Offered(r, me, p)
<1> DEFINE mySeat == r.members[p]
           maxTai == r.rules.max_tai
           start(kind) == Flow(kind, 1)
<1>1. mySeat \in 0 .. 3 /\ r.members \in [Members(r) -> 0 .. 3]
  BY DEF GoodRoom, IsRoom, SEAT_COUNT
<1>2. PICK g : /\ Forms[mySeat][maxTai] = g[maxTai + 2]
               /\ g[0] = Opening
               /\ \A n \in 1 .. maxTai + 2 : g[n] = OneTapMore(g[n - 1], mySeat, maxTai)
  BY <1>1, FormsByTaps
<1>3. maxTai \in Nat \ {0}
  BY <1>1, FormsByTaps
<1>4. \A n \in 0 .. maxTai + 2 : \A f : f \in g[n] => f \in FormsFor(r, p)
  <2> SUFFICES ASSUME NEW n \in 0 .. maxTai + 2, NEW f \in g[n] PROVE f \in FormsFor(r, p)
    OBVIOUS
  <2> DEFINE most == maxTai + 2
  <2>1. most \in Nat /\ n \in 0 .. most
    BY <1>3
  <2>2. \A k \in 1 .. most : g[k - 1] \subseteq g[k]
    BY <1>2 DEF OneTapMore
  <2> HIDE DEF maxTai, mySeat, most
  <2>3. f \in g[most]
    BY <2>1, <2>2, FormKept
  <2> QED
    BY <1>2, <2>3 DEF FormsFor, maxTai, mySeat, most
<1>5. ASSUME NEW f \in FormsFor(r, p), c \in Submits(f, me, p)
      PROVE  c \in Offered(r, me, p)
  BY <1>5 DEF Offered
<1>6. ASSUME NEW seat \in 0 .. 3, NEW an \in BOOLEAN,
             c = [Cmd("yao", me, p) EXCEPT !.seat = seat, !.an = an]
      PROVE  c \in Offered(r, me, p)
  <2> DEFINE f == YaoPicked(start("yao"), seat)
  <2>1. start("yao") \in g[0]
    BY <1>2 DEF Opening
  <2>2. f.kind = "yao" /\ f.step = "how" /\ f.seat = seat
    BY DEF YaoPicked, Flow
  <2>3. f \in Tapped(start("yao"), mySeat, maxTai)
    BY DEF Tapped, Flow, PlayerPicker, NoSeat
  <2> HIDE DEF f, start, maxTai
  <2>4. f \in g[1]
    <3>1. 1 \in 1 .. maxTai + 2 /\ 1 - 1 = 0
      BY <1>3
    <3>2. g[1] = OneTapMore(g[0], mySeat, maxTai)
      BY <1>2, <3>1
    <3> QED
      BY <2>1, <2>3, <3>2 DEF OneTapMore
  <2>5. f \in FormsFor(r, p)
    BY <1>3, <1>4, <2>4
  <2>6. c \in Submits(f, me, p)
    BY <1>6, <2>2 DEF Submits
  <2> QED
    BY <1>5, <2>5, <2>6
<1>7. ASSUME \/ \E seat \in 0 .. 3 : c = [Cmd("gang", me, p) EXCEPT !.seat = seat]
             \/ c = Cmd("angang", me, p)
      PROVE  c \in Offered(r, me, p)
  <2>1. start("gang") \in FormsFor(r, p)
    <3>1. start("gang") \in g[0]
      BY <1>2 DEF Opening
    <3> QED
      BY <1>3, <1>4, <3>1
  <2>2. c \in Submits(start("gang"), me, p)
    BY <1>7 DEF Submits, Flow, PlayerPicker, NoSeat
  <2> QED
    BY <1>5, <2>1, <2>2
<1>8. ASSUME NEW h \in Wins(maxTai), c = [Cmd("hu", me, p) EXCEPT !.h = h]
      PROVE  c \in Offered(r, me, p)
  <2>1. /\ h \in [mode : Modes, target_seat : NoSeat .. 3, tai : 1 .. maxTai,
                  zimo_bonus : BOOLEAN, klppdd : BOOLEAN]
        /\ h.mode = "zimo" => h.target_seat = NoSeat
    BY <1>8 DEF Wins
  <2>2. CanHu(r, p, h)
    <3>1. c.name = "hu" /\ c.actor = p /\ c.h = h
      BY <1>8 DEF Cmd
    <3> QED
      BY <3>1 DEF Accepts
  <2>3. h.mode # "zimo" => h.target_seat \in (0 .. 3) \ {mySeat}
    <3> SUFFICES ASSUME h.mode # "zimo"
                 PROVE  h.target_seat \in (0 .. 3) \ {mySeat}
      OBVIOUS
    <3>1. SeatTaken(r, h.target_seat) /\ SeatPlayer(r, h.target_seat) # p
      BY <2>2 DEF CanHu
    <3>2. /\ SeatPlayer(r, h.target_seat) \in Members(r)
          /\ r.members[SeatPlayer(r, h.target_seat)] = h.target_seat
      BY <3>1, SeatByNumber
    <3>3. h.target_seat \in 0 .. 3
      BY <1>1, <3>2
    <3>4. h.target_seat # mySeat
      BY <3>1, <3>2 DEF GoodRoom, Seated
    <3> QED
      BY <3>3, <3>4
  <2>4. h.zimo_bonus => h.mode = "zimo"
    BY <2>2 DEF CanHu
  <2>5. h \in [mode : Modes, target_seat : {NoSeat} \cup 0 .. 3, tai : 1 .. maxTai,
               zimo_bonus : BOOLEAN, klppdd : BOOLEAN]
    <3>1. NoSeat .. 3 = {NoSeat} \cup 0 .. 3
      BY DEF NoSeat
    <3> QED
      BY <2>1, <3>1
  <2>6. PICK f \in Forms[mySeat][maxTai] : f.kind = "hu" /\ f.step = "tai" /\ HuSent(f) = h
    BY <1>1, <2>1, <2>3, <2>4, <2>5, EveryWinHasAWay
  <2>7. f \in FormsFor(r, p)
    BY DEF FormsFor
  <2>8. c \in Submits(f, me, p)
    BY <1>8, <2>6 DEF Submits
  <2> QED
    BY <1>5, <2>7, <2>8
<1> HIDE DEF maxTai
<1> DEFINE yaos == {[Cmd("yao", me, p) EXCEPT !.seat = t[1], !.an = t[2]] :
                       t \in (0 .. 3) \X BOOLEAN}
           gangs == {[Cmd("gang", me, p) EXCEPT !.seat = seat] : seat \in 0 .. 3}
           wins == {[Cmd("hu", me, p) EXCEPT !.h = h] : h \in Wins(maxTai)}
<1>9. c \in yaos \/ c \in gangs \/ c = Cmd("angang", me, p) \/ c \in wins
  <2> HIDE DEF yaos, gangs, wins
  <2>1. Declarations(me, p, maxTai) = yaos \cup gangs \cup {Cmd("angang", me, p)} \cup wins
    BY Zenon DEF Declarations, yaos, gangs, wins
  <2> QED
    BY <2>1 DEF maxTai
<1> HIDE DEF yaos, gangs, wins
<1>10. CASE c \in yaos
  <2>1. PICK t \in (0 .. 3) \X BOOLEAN : c = [Cmd("yao", me, p) EXCEPT !.seat = t[1], !.an = t[2]]
    BY <1>10, Zenon DEF yaos
  <2> QED
    BY <1>6, <2>1
<1>11. CASE c \in gangs
  <2>1. \E seat \in 0 .. 3 : c = [Cmd("gang", me, p) EXCEPT !.seat = seat]
    BY <1>11, Zenon DEF gangs
  <2> QED
    BY <1>7, <2>1
<1>12. CASE c \in wins
  <2>1. \E h \in Wins(maxTai) : c = [Cmd("hu", me, p) EXCEPT !.h = h]
    BY <1>12, Zenon DEF wins
  <2> QED
    BY <1>8, <2>1
<1> QED
  BY <1>7, <1>9, <1>10, <1>11, <1>12

(* And everybody who may declare, whatever he declares and at any tai, has a phone *)
(* with a way to it, a hand that nobody won included; the host's offers both       *)
(* answers about the wind.  For any table and any rules.                           *)
THEOREM NoTurnIsLost == Spec => []EveryTurnCanBeEntered
<1>1. GoodRoom(room) => EveryTurnCanBeEntered
  <2> SUFFICES ASSUME GoodRoom(room), room.status = "in_progress"
               PROVE  EveryTurnCanBeEntered
    BY DEF EveryTurnCanBeEntered
  <2>1. /\ room.host_id \in Account /\ room.host_id \in Members(room) /\ Members(room) \subseteq Player
        /\ room.rules \in RuleChoices
        /\ room.members \in [Members(room) -> 0 .. 3]
    BY DEF GoodRoom, IsRoom, SEAT_COUNT
  <2>2. ASSUME room.pending_wind_decision
        PROVE  Cardinality(WindDecisionView(room, room.host_id)) = 2
    <3> DEFINE go == Cmd("continue_wind", room.host_id, room.host_id)
               stop == Cmd("end_game", room.host_id, room.host_id)
    <3>1. WindDecisionView(room, room.host_id) = {go, stop}
      BY <2>2 DEF WindDecisionView, Deciding, isHost
    <3>2. go # stop
      <4>1. go.name = "continue_wind" /\ stop.name = "end_game"
        BY DEF Cmd
      <4> QED
        BY <4>1
    <3> HIDE DEF go, stop
    <3>3. IsFiniteSet({go}) /\ Cardinality({go}) = 1
      BY FS_Singleton
    <3>4. Cardinality({go} \cup {stop}) = 2
      BY <3>2, <3>3, FS_AddElement
    <3>5. {go} \cup {stop} = {go, stop}
      OBVIOUS
    <3> QED
      BY <3>1, <3>4, <3>5
  <2>3. ASSUME ~room.pending_wind_decision, NEW p \in Members(room)
        PROVE  \E me \in Account, pick \in {p, None} :
                    AtTable(room, me) /\ Actor(room, me, pick) = p
    <3>1. CASE p \in Guest
      <4>1. p \in guests(room, room.host_id)
        BY <3>1 DEF guests, isHost
      <4> QED
        BY <2>1, <2>3, <4>1 DEF AtTable, isMember, Actor
    <3>2. CASE p \notin Guest
      <4>1. p \in Account /\ Actor(room, p, None) = p
        BY <2>1, <3>2, PlayerAssumption DEF Account, Actor, guests
      <4> QED
        BY <2>3, <4>1 DEF AtTable, isMember
    <3> QED
      BY <3>1, <3>2
  <2>4. ASSUME NEW p \in Members(room), NEW me,
               NEW c \in Declarations(me, p, room.rules.max_tai), Accepts(room, c)
        PROVE  c \in Offered(room, me, p)
    BY <2>1, <2>4, EveryDeclarationHasAWay
  <2>5. ASSUME ~room.pending_wind_decision, NEW me \in Members(room) \ Guest
        PROVE  \E c \in TableButtons(room, me) : c.name = "no_win"
    <3>1. Cmd("no_win", me, me) \in TableButtons(room, me)
      BY <2>5 DEF TableButtons, Live, AtTable, isMember
    <3> QED
      BY <3>1 DEF Cmd
  <2>6. ASSUME ~room.pending_wind_decision, NEW p \in Members(room)
        PROVE  \E me \in Account, pick \in {p, None} :
                /\ AtTable(room, me) /\ Actor(room, me, pick) = p
                /\ LET offered == Offered(room, me, p)
                   IN  \A c \in Declarations(me, p, room.rules.max_tai) :
                        Accepts(room, c) => c \in offered
    BY <2>3, <2>4, <2>6
  <2> QED
    BY <2>2, <2>5, <2>6 DEF EveryTurnCanBeEntered
<1> QED
  BY Inductive, <1>1, PTL DEF IInv
-----------------------------------------------------------------------------
(* The phone: what it keeps between two renders is true of the room, or was. *)

Playing == {"in_progress", "ended"}

\* The table that a game is played at stays as it is.
SameGame(r, s) ==
    r.status \in Playing =>
        /\ s.status \in Playing /\ s.members = r.members
        /\ s.host_id = r.host_id /\ s.rules = r.rules

\* A command as some button of the phone makes it.
WellSent(c) ==
    /\ c.caller = Me
    /\ c.name \in {"join", "start", "leave", "add_guest", "remove_guest", "assign_seats",
                   "continue_wind", "end_game", "no_win"} \cup FlowCommands
    /\ c.name \notin FlowCommands \cup {"add_guest", "remove_guest"} => c.actor = Me
    /\ c.name = "add_guest" => c.actor \in Guest
    /\ c.name = "hu" => c.h.tai \in Nat
    /\ c.name = "yao" => c.an \in BOOLEAN
    /\ c.name = "assign_seats" => \E p, q \in Player : p # q /\ DOMAIN c.seat_map = {p, q}

\* A declaration that room r, if it is still on that hand, takes.
Playable(c, r) ==
    /\ r.status \in Playing
    /\ c.actor \in Members(r) /\ ActsFor(r, Me, c.actor)
    /\ CommandFits(r, c)

\* What the screen remembers fits the room it shows.
UiFits(u, r) ==
    /\ DOMAIN u = {"picked", "opened", "pick", "asking"}
    /\ u.opened.kind # "none" =>
        /\ FlowShown(r, u)
        /\ FormFits(u.opened, r.members[Actor(r, Me, u.pick)], r.rules.max_tai)
    /\ u.asking => AtTable(r, Me)

\* The command under way fits the room, however far that has come since.
FlightFits(fl, r) ==
    fl # NoCommand =>
        /\ DOMAIN fl = {"cmd", "pin", "seq", "attempt"}
        /\ WellSent(fl.cmd)
        /\ fl.cmd.name \in FlowCommands \cup {"no_win"} => fl.pin # 0 /\ Playable(fl.cmd, r)

PhoneInv ==
    /\ GoodRoom(room) /\ GoodRoom(seen) /\ SameGame(seen, room)
    /\ UiFits(ui, seen)
    /\ FlightFits(flight, room)

(* Declarations leave the table alone. *)
LEMMA DeclaredSameGame ==
    ASSUME NEW r, GoodRoom(r), NEW p, NEW paid
    PROVE  /\ SameGame(r, YaoDeclared(r, paid)) /\ SameGame(r, GangDeclared(r, paid))
           /\ SameGame(r, HuDeclared(r, p, paid)) /\ SameGame(r, NoWinDeclared(r))
           /\ SameGame(r, WindContinued(r)) /\ SameGame(r, GameEnded(r))
<1>1. DOMAIN r = {"status", "seq", "host_id", "members", "rules", "hands", "balances",
                  "pending_wind_decision"}
  BY DEF GoodRoom, IsRoom
<1>2. SameGame(r, YaoDeclared(r, paid)) /\ SameGame(r, GangDeclared(r, paid))
  BY <1>1 DEF SameGame, Playing, YaoDeclared, GangDeclared
<1>3. SameGame(r, HuDeclared(r, p, paid)) /\ SameGame(r, NoWinDeclared(r))
  BY <1>1 DEF SameGame, Playing, HuDeclared, NoWinDeclared
<1>4. SameGame(r, WindContinued(r)) /\ SameGame(r, GameEnded(r))
  BY <1>1 DEF SameGame, Playing, WindContinued, GameEnded
<1> QED
  BY <1>2, <1>3, <1>4

\* What a step does to a good room, the table included.
GoodChange(s, r) == GoodRoom(s) /\ SameGame(r, s) /\ ClosedKept(s, r)

(* A lobby has no game to keep. *)
LEMMA LobbyChange ==
    ASSUME NEW r, GoodRoom(r), r.status = "lobby", NEW s, GoodRoom(s)
    PROVE  GoodChange(s, r)
BY NothingToKeep DEF GoodChange, SameGame, Playing

(* Whatever the phone has sent, a room that accepts it stays a good room. *)
LEMMA EffectGood ==
    ASSUME NEW r, GoodRoom(r), NEW c, WellSent(c), Accepts(r, c)
    PROVE  GoodChange(Effect(r, c), r)
<1>1. Me \in Player /\ c.caller = Me /\ Guest \subseteq Player
  BY MeAssumption, PlayerAssumption DEF Account, WellSent
<1>2. CASE c.name = "join"
  <2>1. CanJoin(r, Me) /\ c.actor = Me /\ Effect(r, c) = PlayerJoined(r, Me)
    BY <1>2 DEF Accepts, WellSent, FlowCommands, Effect
  <2> QED
    BY <1>1, <2>1, JoinedGood, LobbyChange DEF CanJoin
<1>3. CASE c.name = "add_guest"
  <2>1. CanJoin(r, c.actor) /\ c.actor \in Player /\ Effect(r, c) = PlayerJoined(r, c.actor)
    BY <1>1, <1>3 DEF Accepts, CanAddGuest, WellSent, Effect
  <2> QED
    BY <2>1, JoinedGood, LobbyChange DEF CanJoin
<1>4. CASE c.name = "leave"
  <2>1. CanLeave(r, Me) /\ c.actor = Me /\ Effect(r, c) = PlayerLeft(r, Me)
    BY <1>1, <1>4 DEF Accepts, WellSent, FlowCommands, Effect
  <2> QED
    BY <1>1, <2>1, LeftGood, LobbyChange DEF CanLeave
<1>5. CASE c.name = "remove_guest"
  <2>1. CanRemoveGuest(r, Me, c.actor) /\ Effect(r, c) = PlayerLeft(r, c.actor)
    BY <1>1, <1>5 DEF Accepts, Effect
  <2>2. c.actor \in Player /\ c.actor # r.host_id /\ r.status = "lobby"
    BY <1>1, <2>1 DEF CanRemoveGuest, GoodRoom, IsRoom, Account
  <2> QED
    BY <2>1, <2>2, LeftGood, LobbyChange
<1>6. CASE c.name = "start"
  <2> DEFINE rules == CHOOSE x \in RuleChoices : TRUE
  <2>1. rules \in RuleChoices
    BY RulesAssumption
  <2>2. CanStart(r, Me) /\ Effect(r, c) = GameStarted(r, rules)
    BY <1>1, <1>6 DEF Accepts, Effect
  <2> HIDE DEF rules
  <2> QED
    BY <1>1, <2>1, <2>2, StartedGood, LobbyChange DEF CanStart
<1>7. CASE c.name = "assign_seats"
  <2>1. CanAssignSeats(r, Me, c.seat_map) /\ Effect(r, c) = SeatsAssigned(r, c.seat_map)
    BY <1>1, <1>7 DEF Accepts, Effect
  <2> QED
    BY <2>1, ReseatedGood, LobbyChange DEF CanAssignSeats
<1>8. CASE c.name = "continue_wind"
  <2>1. CanContinueWind(r, Me) /\ Effect(r, c) = WindContinued(r)
    BY <1>1, <1>8 DEF Accepts, Effect
  <2> QED
    BY <2>1, ContinuedGood, DeclaredSameGame DEF GoodChange
<1>9. CASE c.name = "end_game"
  <2>1. CanEnd(r, Me) /\ Effect(r, c) = GameEnded(r)
    BY <1>1, <1>9 DEF Accepts, Effect
  <2> QED
    BY <2>1, EndedGood, DeclaredSameGame DEF GoodChange, CanEnd
<1>10. ASSUME MayDeclare(r, c.actor)
       PROVE  /\ FourSeats(r) /\ Members(r) \subseteq Player
              /\ r.rules \in RuleChoices /\ c.actor \in Members(r)
  BY <1>10, LastHand DEF MayDeclare
<1>11. CASE c.name = "no_win"
  <2>1. MayDeclare(r, c.actor) /\ Effect(r, c) = NoWinDeclared(r)
    BY <1>11 DEF Accepts, Effect
  <2> QED
    BY <2>1, NoWinGood, DeclaredSameGame DEF GoodChange
<1>12. CASE c.name = "yao"
  <2>1. /\ MayDeclare(r, c.actor) /\ SeatTaken(r, c.seat) /\ c.an \in BOOLEAN
        /\ Effect(r, c) = YaoDeclared(r, Yao(r, c.actor, c.seat, c.an))
    BY <1>12 DEF Accepts, Effect, WellSent
  <2>2. Fair(Yao(r, c.actor, c.seat, c.an), r)
    BY <1>10, <2>1, FairYao
  <2> QED
    BY <2>1, <2>2, YaoGood, DeclaredSameGame DEF GoodChange
<1>13. CASE c.name = "gang"
  <2>1. /\ MayDeclare(r, c.actor) /\ SeatTaken(r, c.seat)
        /\ Effect(r, c) = GangDeclared(r, Gang(r, c.actor, c.seat))
    BY <1>13 DEF Accepts, Effect
  <2>2. Fair(Gang(r, c.actor, c.seat), r)
    BY <1>10, <2>1, FairGang
  <2> QED
    BY <2>1, <2>2, GangGood, DeclaredSameGame DEF GoodChange
<1>14. CASE c.name = "angang"
  <2>1. MayDeclare(r, c.actor) /\ Effect(r, c) = GangDeclared(r, Angang(r, c.actor))
    BY <1>14 DEF Accepts, Effect
  <2>2. Fair(Angang(r, c.actor), r)
    BY <1>10, <2>1, FairGang
  <2> QED
    BY <2>1, <2>2, GangGood, DeclaredSameGame DEF GoodChange
<1>15. CASE c.name = "hu"
  <2>1. /\ CanHu(r, c.actor, c.h) /\ c.h.tai \in Int
        /\ Effect(r, c) = HuDeclared(r, c.actor, Hu(r, c.actor, c.h))
    BY <1>15 DEF Accepts, Effect, WellSent
  <2>2. MayDeclare(r, c.actor)
    BY <2>1 DEF CanHu
  <2>3. Fair(Hu(r, c.actor, c.h), r) /\ c.actor \in Player
    BY <1>10, <2>1, <2>2, FairHu
  <2> QED
    BY <2>1, <2>2, <2>3, HuGood, DeclaredSameGame DEF GoodChange
<1> QED
  BY <1>2, <1>3, <1>4, <1>5, <1>6, <1>7, <1>8, <1>9, <1>11, <1>12, <1>13, <1>14, <1>15
  DEF WellSent, FlowCommands

(* And so does what everybody else does meanwhile. *)
LEMMA OthersGood ==
    ASSUME GoodRoom(room), OtherStep
    PROVE  GoodChange(room', room)
<1>1. PICK p \in Account : \/ Join(p) \/ Leave(p)
                          \/ DeclareHu(p, SelfDrawn) \/ DeclareNoWin(p) \/ DeclareAngang(p)
  BY DEF OtherStep
<1>2. p \in Player
  BY DEF Account
<1>3. CASE Join(p)
  BY <1>2, <1>3, JoinedGood, LobbyChange DEF Join, CanJoin
<1>4. CASE Leave(p)
  BY <1>2, <1>4, LeftGood, LobbyChange DEF Leave, CanLeave
<1>5. ASSUME MayDeclare(room, p)
      PROVE  /\ FourSeats(room) /\ Members(room) \subseteq Player
             /\ room.rules \in RuleChoices /\ p \in Members(room)
  BY <1>5, LastHand DEF MayDeclare
<1>6. CASE DeclareHu(p, SelfDrawn)
  <2>1. MayDeclare(room, p) /\ CanHu(room, p, SelfDrawn)
    BY <1>6 DEF DeclareHu, CanHu
  <2>2. SelfDrawn.tai \in Int
    BY DEF SelfDrawn, NoHu
  <2>3. Fair(Hu(room, p, SelfDrawn), room)
    BY <1>5, <2>1, <2>2, FairHu
  <2> QED
    BY <1>2, <1>6, <2>1, <2>3, HuGood, DeclaredSameGame DEF DeclareHu, GoodChange
<1>7. CASE DeclareNoWin(p)
  BY <1>7, NoWinGood, DeclaredSameGame DEF DeclareNoWin, GoodChange
<1>8. CASE DeclareAngang(p)
  <2>1. Fair(Angang(room, p), room)
    BY <1>5, <1>8, FairGang DEF DeclareAngang
  <2> QED
    BY <1>8, <2>1, GangGood, DeclaredSameGame DEF DeclareAngang, GoodChange
<1> QED
  BY <1>1, <1>3, <1>4, <1>6, <1>7, <1>8

LEMMA SameGameTransitive ==
    ASSUME NEW q, NEW r, NEW s, SameGame(q, r), SameGame(r, s)
    PROVE  SameGame(q, s)
BY DEF SameGame

(* At the table a phone acts for the same player as long as the table stays. *)
LEMMA SameActor ==
    ASSUME NEW r, NEW s, r.members = s.members, r.host_id = s.host_id, NEW pick
    PROVE  Actor(r, Me, pick) = Actor(s, Me, pick)
BY DEF Actor, guests, isHost, Members

(* Showing another state of the room closes what no longer belongs to it. *)
LEMMA RedrawnFits ==
    ASSUME NEW r, NEW s, SameGame(r, s), NEW u, UiFits(u, r)
    PROVE  UiFits(Redrawn(u, s), s)
<1> DEFINE v == Redrawn(u, s)
<1>1. /\ DOMAIN v = {"picked", "opened", "pick", "asking"}
      /\ v.opened = IF FlowShown(s, u) THEN u.opened ELSE NoFlow
      /\ v.pick = IF s.status = "in_progress" THEN u.pick ELSE None
      /\ v.asking => AtTable(s, Me)
  BY DEF Redrawn
<1>2. NoFlow.kind = "none"
  BY DEF NoFlow, Flow
<1> HIDE DEF v
<1>3. ASSUME v.opened.kind # "none"
      PROVE  /\ FlowShown(s, v)
             /\ FormFits(v.opened, s.members[Actor(s, Me, v.pick)], s.rules.max_tai)
  <2>1. FlowShown(s, u) /\ v.opened = u.opened /\ u.opened.kind # "none"
    BY <1>1, <1>2, <1>3
  <2>2. s.status = "in_progress" /\ v.pick = u.pick
    BY <1>1, <2>1 DEF FlowShown, AtTable
  <2>3. /\ FlowShown(r, u)
        /\ FormFits(u.opened, r.members[Actor(r, Me, u.pick)], r.rules.max_tai)
    BY <2>1 DEF UiFits
  <2>4. r.members = s.members /\ r.host_id = s.host_id /\ r.rules = s.rules
    BY <2>3 DEF FlowShown, AtTable, SameGame, Playing
  <2>5. Actor(r, Me, u.pick) = Actor(s, Me, u.pick)
    BY <2>4, SameActor
  <2> QED
    BY <2>1, <2>2, <2>3, <2>4, <2>5 DEF FlowShown
<1> QED
  BY <1>1, <1>3 DEF UiFits, v

LEMMA FinishedFits ==
    ASSUME NEW r, NEW u, NEW c, UiFits(u, r)
    PROVE  UiFits(Finished(u, c), r)
<1>1. NoFlow.kind = "none"
  BY DEF NoFlow, Flow
<1> QED
  BY <1>1 DEF Finished, UiFits

(* What is under way stays playable while the others go on. *)
LEMMA FlightKept ==
    ASSUME NEW fl, NEW r, NEW s, SameGame(r, s), FlightFits(fl, r)
    PROVE  FlightFits(fl, s)
<1>1. ASSUME Playable(fl.cmd, r)
      PROVE  Playable(fl.cmd, s)
  BY <1>1 DEF Playable, SameGame, Members, ActsFor, guests, isHost, CommandFits
<1> QED
  BY <1>1 DEF FlightFits

(* What a button sends fits when its declaration, if it is one, can be played. *)
LEMMA SentFits ==
    ASSUME NEW c, NEW pin, Run(c, pin), WellSent(c), NEW r,
           c.name \in FlowCommands \cup {"no_win"} => pin # 0 /\ Playable(c, r)
    PROVE  FlightFits(flight', r)
<1>1. /\ DOMAIN flight' = {"cmd", "pin", "seq", "attempt"}
      /\ flight'.cmd = c /\ flight'.pin = pin
  BY DEF Run
<1> QED
  BY <1>1 DEF FlightFits

(* A flow on the screen belongs to a hand of the game that is played. *)
LEMMA ShownAtTable ==
    ASSUME GoodRoom(seen), AtTable(seen, Me), SameGame(seen, room)
    PROVE  /\ lastHandNo(seen) # 0 /\ Current(seen).hand_no = lastHandNo(seen)
           /\ Current(seen).hand_no \in Nat \ {0}
           /\ room.status \in Playing /\ room.members = seen.members
           /\ room.rules = seen.rules /\ room.host_id = seen.host_id
           /\ Me \in Members(seen)
           /\ seen.rules.max_tai \in Nat \ {0}
           /\ \A pick : /\ Actor(seen, Me, pick) \in Members(seen)
                         /\ ActsFor(seen, Me, Actor(seen, Me, pick))
                         /\ seen.members[Actor(seen, Me, pick)] \in 0 .. 3
<1>1. seen.status = "in_progress" /\ Me \in Members(seen)
  BY DEF AtTable, isMember
<1>2. Last(seen) \in Nat /\ Last(seen) > 0 /\ Current(seen).hand_no = Last(seen)
      /\ seen.rules \in RuleChoices
  BY <1>1, LastHand
<1>3. ValidRules(seen.rules)
  BY <1>2, InputAssumption
<1>4. seen.rules.max_tai \in Nat \ {0}
  BY <1>3 DEF ValidRules, MAX_TAI
<1>5. /\ room.status \in Playing /\ room.members = seen.members
      /\ room.rules = seen.rules /\ room.host_id = seen.host_id
  BY <1>1 DEF SameGame, Playing
<1>6. \A pick : /\ Actor(seen, Me, pick) \in Members(seen)
                /\ ActsFor(seen, Me, Actor(seen, Me, pick))
                /\ seen.members[Actor(seen, Me, pick)] \in 0 .. 3
  BY TableOpen DEF MayDeclare
<1> QED
  BY <1>1, <1>2, <1>4, <1>5, <1>6 DEF lastHandNo

(* Taps keep the invariant. *)
LEMMA TapKeeps ==
    ASSUME PhoneInv, PhoneStep
    PROVE  /\ GoodRoom(seen') /\ SameGame(seen', room) /\ UNCHANGED room
           /\ UiFits(ui', seen') /\ FlightFits(flight', room)
<1> USE DEF PhoneInv
<1>1. ASSUME NEW p \in Player, PickSeat(p)
      PROVE  UiFits(ui', seen) /\ UNCHANGED <<room, seen, flight>>
  BY <1>1 DEF PickSeat, UiFits, FlowShown
<1>2. ASSUME NEW p \in Player, TapSwap(p)
      PROVE  /\ UiFits(ui', seen) /\ UNCHANGED <<room, seen>>
             /\ FlightFits(flight', room)
  <2> DEFINE c == SwapSeats(seen, Me, ui.picked, p)
  <2>1. UiFits(ui', seen) /\ UNCHANGED <<room, seen>> /\ Run(c, 0)
    BY <1>2 DEF TapSwap, UiFits, FlowShown
  <2>2. ui.picked \in Player /\ ui.picked # p
    BY <1>2 DEF TapSwap, GoodRoom, IsRoom
  <2>3. c.name = "assign_seats" /\ c.caller = Me /\ c.actor = Me /\ DOMAIN c.seat_map = {ui.picked, p}
    BY DEF SwapSeats, Cmd
  <2> HIDE DEF c
  <2>4. WellSent(c) /\ c.name \notin FlowCommands \cup {"no_win"}
    BY <2>2, <2>3 DEF WellSent, FlowCommands
  <2> QED
    BY <2>1, <2>4, SentFits
<1>3. ASSUME NEW p \in Player, PickActor(p)
      PROVE  UiFits(ui', seen) /\ UNCHANGED <<room, seen, flight>>
  BY <1>3 DEF PickActor, AtButtons, UiFits, FlowShown
<1>4. ASSUME NEW c \in LobbyCommands(seen, Me, FALSE), TapLobby(c)
      PROVE  UNCHANGED <<room, seen, ui>> /\ FlightFits(flight', room)
  <2>1. Run(c, 0) /\ c.name \notin {"assign_seats", "disband"} /\ UNCHANGED <<room, seen, ui>>
    BY <1>4 DEF TapLobby
  <2>2. \/ \E n \in {"join", "start", "disband", "leave"} : c = Cmd(n, Me, Me)
        \/ \E g : c = Cmd("remove_guest", Me, g)
        \/ \E g \in Guest : c = Cmd("add_guest", Me, g)
        \/ c \in Swaps(seen, Me)
    BY <1>4 DEF LobbyCommands, Live
  <2>3. c \notin Swaps(seen, Me)
    BY <2>1 DEF Swaps, SwapSeats, Cmd
  <2>4. WellSent(c) /\ c.name \notin FlowCommands \cup {"no_win"}
    <3>1. \A n, x : Cmd(n, Me, x).name = n /\ Cmd(n, Me, x).caller = Me /\ Cmd(n, Me, x).actor = x
      BY DEF Cmd
    <3> QED
      BY <2>1, <2>2, <2>3, <3>1 DEF WellSent, FlowCommands
  <2> QED
    BY <2>1, <2>4, SentFits
<1>5. ASSUME NEW c \in WindDecisionView(seen, Me), TapWind(c)
      PROVE  UNCHANGED <<room, seen, ui>> /\ FlightFits(flight', room)
  <2>1. \E pin : Run(c, pin)
    BY <1>5 DEF TapWind
  <2>2. c.name \in {"continue_wind", "end_game"} /\ c.caller = Me /\ c.actor = Me
    BY <1>5 DEF WindDecisionView, Cmd
  <2>3. WellSent(c) /\ c.name \notin FlowCommands \cup {"no_win"}
    BY <2>2 DEF WellSent, FlowCommands
  <2> QED
    BY <1>5, <2>1, <2>3, SentFits DEF TapWind
<1>6. ASSUME NEW kind \in {"yao", "gang", "hu"}, openFlow(kind)
      PROVE  UiFits(ui', seen) /\ UNCHANGED <<room, seen, flight>>
  <2> DEFINE f == Flow(kind, Current(seen).hand_no)
  <2>1. AtTable(seen, Me)
    BY <1>6 DEF openFlow, AtButtons
  <2>2. FormFits(f, seen.members[Actor(seen, Me, ui.pick)], seen.rules.max_tai)
    BY <2>1, ShownAtTable, OpenedFits
  <2>3. f.kind # "none" /\ f.handNo = Current(seen).hand_no
    BY DEF Flow
  <2>4. /\ DOMAIN ui' = {"picked", "opened", "pick", "asking"} /\ ui'.opened = f
        /\ ui'.pick = ui.pick /\ ui'.asking = FALSE /\ UNCHANGED <<room, seen, flight>>
    BY <1>6 DEF openFlow, UiFits
  <2> HIDE DEF f
  <2> QED
    BY <2>1, <2>2, <2>3, <2>4 DEF UiFits, FlowShown
<1>7. ASSUME NEW f, TapFlow(f)
      PROVE  UiFits(ui', seen) /\ UNCHANGED <<room, seen, flight>>
  <2> DEFINE mySeat == seen.members[Actor(seen, Me, ui.pick)]
             maxTai == seen.rules.max_tai
  <2>1. /\ FlowShown(seen, ui) /\ f \in Tapped(ui.opened, mySeat, maxTai)
        /\ ui' = [ui EXCEPT !.opened = f] /\ UNCHANGED <<room, seen, flight>>
    BY <1>7 DEF TapFlow, actor
  <2>2. mySeat \in 0 .. 3 /\ maxTai \in Nat \ {0}
    BY <2>1, ShownAtTable DEF FlowShown
  <2>3. FormFits(ui.opened, mySeat, maxTai)
    BY <2>1 DEF UiFits, FlowShown
  <2>4. FormFits(f, mySeat, maxTai) /\ f.kind = ui.opened.kind /\ f.handNo = ui.opened.handNo
    <3> HIDE DEF mySeat, maxTai
    <3> QED
      BY <2>1, <2>2, <2>3, TapFits
  <2>5. /\ DOMAIN ui' = {"picked", "opened", "pick", "asking"} /\ ui'.opened = f
        /\ ui'.pick = ui.pick /\ ui'.asking = ui.asking
    BY <2>1 DEF UiFits
  <2> QED
    BY <2>1, <2>4, <2>5 DEF UiFits, FlowShown
<1>8. ASSUME NEW c \in Submits(ui.opened, Me, actor), SubmitFlow(c)
      PROVE  UNCHANGED <<room, seen, ui>> /\ FlightFits(flight', room)
  <2> DEFINE p == Actor(seen, Me, ui.pick)
  <2>1. FlowShown(seen, ui) /\ Run(c, ui.opened.handNo) /\ UNCHANGED <<room, seen, ui>>
    BY <1>8 DEF SubmitFlow
  <2>2. /\ p \in Members(seen) /\ ActsFor(seen, Me, p) /\ ui.opened.handNo # 0
        /\ room.status \in Playing /\ room.members = seen.members
        /\ room.rules = seen.rules /\ room.host_id = seen.host_id
    BY <2>1, ShownAtTable DEF FlowShown
  <2>3. FormFits(ui.opened, seen.members[p], seen.rules.max_tai)
    BY <2>1 DEF UiFits, FlowShown
  <2>4. c \in Submits(ui.opened, Me, p)
    BY DEF actor
  <2> HIDE DEF p
  <2>5. CommandFits(seen, c) /\ c.name \in FlowCommands /\ c.caller = Me /\ c.actor = p
    <3> DEFINE flow == ui.opened
    <3>1. FormFits(flow, seen.members[p], seen.rules.max_tai) /\ c \in Submits(flow, Me, p)
      BY <2>3, <2>4
    <3> HIDE DEF flow, PhoneInv
    <3> QED
      BY <3>1, SubmitFits
  <2>6. Playable(c, room)
    BY <2>2, <2>5 DEF Playable, Members, ActsFor, guests, isHost, CommandFits
  <2>7. (c.name = "hu" => c.h.tai \in Nat) /\ (c.name = "yao" => c.an \in BOOLEAN)
    <3>1. c.name = "hu" => c.h.tai \in Nat
      <4>1. seen.rules.max_tai \in Nat
        BY <2>1, ShownAtTable DEF FlowShown
      <4> QED
        BY <2>5, <4>1 DEF CommandFits
    <3>2. c.name = "yao" => c.an \in BOOLEAN
      <4>1. CASE ui.opened.kind = "yao" /\ ui.opened.step = "how"
        <5>1. PICK an \in BOOLEAN : c = [Cmd("yao", Me, p) EXCEPT !.seat = ui.opened.seat, !.an = an]
          BY <2>4, <4>1 DEF Submits
        <5> QED
          BY <5>1 DEF Cmd
      <4>2. CASE ui.opened.kind = "gang"
        <5>1. \/ \E seat : c = [Cmd("gang", Me, p) EXCEPT !.seat = seat]
              \/ c = Cmd("angang", Me, p)
          BY <2>4, <4>2 DEF Submits
        <5> QED
          BY <5>1 DEF Cmd
      <4>3. CASE ui.opened.kind = "hu" /\ ui.opened.step = "tai"
        <5>1. c = [Cmd("hu", Me, p) EXCEPT !.h = HuSent(ui.opened)]
          BY <2>4, <4>3 DEF Submits
        <5> QED
          BY <5>1 DEF Cmd
      <4> QED
        BY <2>4, <4>1, <4>2, <4>3 DEF Submits
    <3> QED
      BY <3>1, <3>2
  <2>8. WellSent(c)
    BY <2>5, <2>7 DEF WellSent, FlowCommands
  <2> QED
    BY <2>1, <2>2, <2>6, <2>8, SentFits
<1>9. ASSUME CancelFlow
      PROVE  UiFits(ui', seen) /\ UNCHANGED <<room, seen, flight>>
  <2>1. NoFlow.kind = "none"
    BY DEF NoFlow, Flow
  <2> QED
    BY <1>9, <2>1 DEF CancelFlow, UiFits
<1>10. ASSUME AskNoWin
       PROVE  UiFits(ui', seen) /\ UNCHANGED <<room, seen, flight>>
  BY <1>10 DEF AskNoWin, AtButtons, UiFits, FlowShown
<1>11. ASSUME CancelNoWin
       PROVE  UiFits(ui', seen) /\ UNCHANGED <<room, seen, flight>>
  BY <1>11 DEF CancelNoWin, UiFits, FlowShown
<1>12. ASSUME ConfirmNoWin
       PROVE  /\ UiFits(ui', seen) /\ UNCHANGED <<room, seen>>
              /\ FlightFits(flight', room)
  <2> DEFINE c == Cmd("no_win", Me, Me)
  <2>1. Run(c, lastHandNo(seen)) /\ UNCHANGED <<room, seen>> /\ UiFits(ui', seen)
    BY <1>12 DEF ConfirmNoWin, UiFits, FlowShown
  <2>2. AtTable(seen, Me)
    BY <1>12 DEF ConfirmNoWin, UiFits
  <2>3. /\ lastHandNo(seen) # 0 /\ Me \in Members(room) /\ room.status \in Playing
    BY <2>2, ShownAtTable DEF Members
  <2>4. c.name = "no_win" /\ c.caller = Me /\ c.actor = Me
    BY DEF Cmd
  <2> HIDE DEF c
  <2>5. WellSent(c) /\ Playable(c, room)
    BY <2>3, <2>4 DEF WellSent, FlowCommands, Playable, ActsFor, CommandFits
  <2> QED
    BY <2>1, <2>3, <2>5, SentFits
<1>13. ASSUME TapEnd
       PROVE  UNCHANGED <<room, seen, ui>> /\ FlightFits(flight', room)
  <2> DEFINE c == Cmd("end_game", Me, Me)
  <2>1. Run(c, 0) /\ UNCHANGED <<room, seen, ui>>
    BY <1>13 DEF TapEnd
  <2>2. c.name = "end_game" /\ c.caller = Me /\ c.actor = Me
    BY DEF Cmd
  <2> HIDE DEF c
  <2>3. WellSent(c) /\ c.name \notin FlowCommands \cup {"no_win"}
    BY <2>2 DEF WellSent, FlowCommands
  <2> QED
    BY <2>1, <2>3, SentFits
<1>14. ASSUME Poll
       PROVE  /\ UiFits(ui', seen') /\ seen' = room /\ UNCHANGED <<room, flight>>
  BY <1>14, RedrawnFits DEF Poll, Show
<1>15. SameGame(room, room)
  BY DEF SameGame
<1> QED
  BY <1>1, <1>2, <1>3, <1>4, <1>5, <1>6, <1>7, <1>8, <1>9, <1>10, <1>11, <1>12, <1>13, <1>14, <1>15
  DEF PhoneStep, TapStep

(* So does a command that arrives, whatever becomes of it. *)
LEMMA LandKeeps ==
    ASSUME PhoneInv, Land
    PROVE  PhoneInv' /\ ClosedKept(room', room)
<1>1. /\ GoodRoom(room) /\ GoodRoom(seen) /\ SameGame(seen, room)
      /\ UiFits(ui, seen) /\ FlightFits(flight, room)
  BY DEF PhoneInv
<1>2. WellSent(flight.cmd) /\ DOMAIN flight = {"cmd", "pin", "seq", "attempt"}
  BY <1>1 DEF Land, Busy, FlightFits
<1>3. ClosedKept(room, room) /\ SameGame(room, room)
  BY <1>1 DEF GoodRoom, IsRoom, ClosedKept, Last, SameGame
<1>4. CASE /\ Accepts(room, flight.cmd) /\ room' = Effect(room, flight.cmd)
           /\ Show(room', Finished(ui, flight.cmd)) /\ flight' = NoCommand
  <2>1. GoodRoom(room') /\ SameGame(room, room') /\ ClosedKept(room', room)
    BY <1>1, <1>2, <1>4, EffectGood DEF GoodChange
  <2>2. seen' = room' /\ ui' = Redrawn(Finished(ui, flight.cmd), room')
    BY <1>4 DEF Show
  <2>3. SameGame(seen, room')
    BY <1>1, <2>1, SameGameTransitive
  <2>4. UiFits(ui', room')
    <3>1. UiFits(Finished(ui, flight.cmd), seen)
      BY <1>1, FinishedFits
    <3> QED
      BY <2>2, <2>3, <3>1, RedrawnFits
  <2>5. FlightFits(flight', room')
    BY <1>4 DEF FlightFits
  <2> QED
    BY <2>1, <2>2, <2>4, <2>5 DEF PhoneInv, SameGame
<1>5. CASE flight' = NoCommand /\ UNCHANGED <<room, seen, ui>>
  <2>1. FlightFits(flight', room')
    BY <1>5 DEF FlightFits
  <2> QED
    BY <1>1, <1>3, <1>5, <2>1 DEF PhoneInv
<1>6. CASE /\ Show(room, ui) /\ UNCHANGED room
           /\ \/ flight' = [flight EXCEPT !.seq = room.seq, !.attempt = 1]
              \/ flight' = NoCommand
  <2>1. UiFits(ui', room) /\ seen' = room
    BY <1>1, <1>6, RedrawnFits DEF Show
  <2>2. FlightFits(flight', room)
    <3>1. CASE flight' = NoCommand
      BY <3>1 DEF FlightFits
    <3>2. CASE flight' = [flight EXCEPT !.seq = room.seq, !.attempt = 1]
      <4>1. /\ flight'.cmd = flight.cmd /\ flight'.pin = flight.pin
            /\ DOMAIN flight' = DOMAIN flight
        BY <1>2, <3>2
      <4>2. flight # NoCommand
        BY DEF Land, Busy
      <4> QED
        BY <1>1, <4>1, <4>2 DEF FlightFits
    <3> QED
      BY <1>6, <3>1, <3>2
  <2> QED
    BY <1>1, <1>3, <1>6, <2>1, <2>2 DEF PhoneInv
<1> QED
  BY <1>4, <1>5, <1>6 DEF Land

LEMMA PhoneStepKeeps == PhoneInv /\ [NextStep]_vars => PhoneInv' /\ ClosedKept(room', room)
<1> SUFFICES ASSUME PhoneInv, [NextStep]_vars
             PROVE  PhoneInv' /\ ClosedKept(room', room)
  OBVIOUS
<1>1. /\ GoodRoom(room) /\ GoodRoom(seen) /\ SameGame(seen, room)
      /\ UiFits(ui, seen) /\ FlightFits(flight, room)
  BY DEF PhoneInv
<1>2. ClosedKept(room, room)
  BY <1>1 DEF GoodRoom, IsRoom, ClosedKept, Last
<1>3. CASE PhoneStep
  <2>1. /\ GoodRoom(seen') /\ SameGame(seen', room) /\ UNCHANGED room
        /\ UiFits(ui', seen') /\ FlightFits(flight', room)
    BY <1>3, TapKeeps
  <2> QED
    BY <1>1, <1>2, <2>1 DEF PhoneInv
<1>4. CASE OtherStep
  <2>1. GoodRoom(room') /\ SameGame(room, room') /\ ClosedKept(room', room)
    BY <1>1, <1>4, OthersGood DEF GoodChange
  <2>2. UNCHANGED <<seen, ui, flight>>
    BY <1>4 DEF OtherStep
  <2>3. SameGame(seen, room') /\ FlightFits(flight, room')
    BY <1>1, <2>1, SameGameTransitive, FlightKept
  <2> QED
    BY <1>1, <2>1, <2>2, <2>3 DEF PhoneInv
<1>5. CASE UNCHANGED vars
  BY <1>1, <1>2, <1>5 DEF PhoneInv, vars
<1> QED
  BY <1>3, <1>4, <1>5, LandKeeps DEF NextStep

(* What the phone keeps fits the room it shows, and what it has sent fits the *)
(* room as it has become: for any table, any rules and any number of hands.   *)
THEOREM PhoneFits == PhoneSpec => []PhoneInv
<1>1. ASSUME NEW r, GoodRoom(r), PhoneInit(r)
      PROVE  PhoneInv
  <2>1. room = r /\ seen = r /\ ui = Blank /\ flight = NoCommand
    BY <1>1 DEF PhoneInit
  <2>2. Blank.opened.kind = "none"
    BY DEF Blank, NoFlow, Flow
  <2>3. UiFits(Blank, r)
    BY <2>2 DEF UiFits, Blank
  <2>4. FlightFits(NoCommand, r) /\ SameGame(r, r)
    BY DEF FlightFits, SameGame
  <2> QED
    BY <1>1, <2>1, <2>3, <2>4 DEF PhoneInv
<1>2. PhoneInv /\ [NextStep]_vars => PhoneInv'
  BY PhoneStepKeeps
<1>3. (\E r : GoodRoom(r) /\ PhoneInit(r)) => PhoneInv
  BY <1>1
<1> QED
  BY <1>2, <1>3, PTL DEF PhoneSpec

(* A declaration that finds its hand open is carried out, whatever way through *)
(* the flow it was made on and whoever else has moved since.                   *)
THEOREM RefusedOnlyForNews == PhoneSpec => []OnlyNewsRefuses
<1>1. PhoneInv => OnlyNewsRefuses
  <2> SUFFICES ASSUME PhoneInv, flight.cmd.name \in FlowCommands \cup {"no_win"},
                      room.status = "in_progress", ~Current(room).closed
               PROVE  Accepts(room, flight.cmd)
    BY DEF OnlyNewsRefuses
  <2>1. flight # NoCommand
    BY DEF NoCommand, Cmd, FlowCommands
  <2>2. Playable(flight.cmd, room) /\ WellSent(flight.cmd) /\ GoodRoom(room)
    BY <2>1 DEF PhoneInv, FlightFits
  <2>3. MayDeclare(room, flight.cmd.actor)
    BY <2>2, LastHand DEF MayDeclare, Playable
  <2>4. ActsFor(room, flight.cmd.caller, flight.cmd.actor) /\ CommandFits(room, flight.cmd)
    BY <2>2 DEF Playable, WellSent
  <2> QED
    BY <2>2, <2>3, <2>4, FitsAccepted
<1> QED
  BY PhoneFits, <1>1, PTL

\* A flow that is open belongs to the hand and the player it was opened for.
Aimed(u, r, target) ==
    u.opened.kind # "none" => target.hand = u.opened.handNo /\ target.who = Actor(r, Me, u.pick)

\* And so does its declaration while it is under way.
SentWhereAimed(fl, target) ==
    fl # NoCommand /\ fl.cmd.name \in FlowCommands =>
        fl.pin = target.hand /\ fl.cmd.actor = target.who

AimInv == Aimed(ui, seen, aim) /\ SentWhereAimed(flight, aim)

(* Another state of the room shows the flow for the same player, or not at all. *)
LEMMA RedrawnAimed ==
    ASSUME NEW r, NEW s, SameGame(r, s), NEW u, UiFits(u, r), NEW target, Aimed(u, r, target)
    PROVE  Aimed(Redrawn(u, s), s, target)
<1> DEFINE v == Redrawn(u, s)
<1>1. /\ v.opened = IF FlowShown(s, u) THEN u.opened ELSE NoFlow
      /\ v.pick = IF s.status = "in_progress" THEN u.pick ELSE None
  BY DEF Redrawn
<1>2. NoFlow.kind = "none"
  BY DEF NoFlow, Flow
<1> HIDE DEF v
<1>3. ASSUME v.opened.kind # "none"
      PROVE  target.hand = v.opened.handNo /\ target.who = Actor(s, Me, v.pick)
  <2>1. FlowShown(s, u) /\ v.opened = u.opened /\ u.opened.kind # "none"
    BY <1>1, <1>2, <1>3
  <2>2. v.pick = u.pick
    BY <1>1, <2>1 DEF FlowShown, AtTable
  <2>3. FlowShown(r, u)
    BY <2>1 DEF UiFits
  <2>4. r.members = s.members /\ r.host_id = s.host_id
    BY <2>3 DEF FlowShown, AtTable, SameGame, Playing
  <2>5. Actor(r, Me, u.pick) = Actor(s, Me, u.pick)
    BY <2>4, SameActor
  <2> QED
    BY <2>1, <2>2, <2>5 DEF Aimed
<1> QED
  BY <1>3 DEF Aimed, v

LEMMA TapsAim ==
    ASSUME PhoneInv, AimInv, TapStep, UNCHANGED aim, FlightFits(flight', room)
    PROVE  AimInv'
<1>1. /\ GoodRoom(room) /\ GoodRoom(seen) /\ SameGame(seen, room)
      /\ UiFits(ui, seen) /\ DOMAIN ui = {"picked", "opened", "pick", "asking"}
  BY DEF PhoneInv, UiFits
<1>2. Aimed(ui, seen, aim) /\ SentWhereAimed(flight, aim) /\ aim' = aim
  BY DEF AimInv
<1>3. NoFlow.kind = "none"
  BY DEF NoFlow, Flow
<1>4. ASSUME NEW c, NEW pin, Run(c, pin), pin = 0 \/ c.name \notin FlowCommands
      PROVE  SentWhereAimed(flight', aim)
  <2>1. flight'.cmd = c /\ flight'.pin = pin
    BY <1>4 DEF Run
  <2> QED
    BY <1>4, <2>1 DEF FlightFits, SentWhereAimed
<1>5. ASSUME UNCHANGED <<seen, ui>>
      PROVE  Aimed(ui', seen', aim)
  BY <1>2, <1>5
<1>6. ASSUME UNCHANGED seen, ui'.opened = ui.opened, ui'.pick = ui.pick
      PROVE  Aimed(ui', seen', aim)
  BY <1>2, <1>6 DEF Aimed
<1>7. ASSUME NEW p, PickSeat(p)
      PROVE  AimInv'
  <2>1. UNCHANGED <<seen, flight>> /\ ui'.opened = ui.opened /\ ui'.pick = ui.pick
    BY <1>1, <1>7 DEF PickSeat
  <2> QED
    BY <1>2, <1>6, <2>1 DEF AimInv
<1>8. ASSUME NEW p, TapSwap(p)
      PROVE  AimInv'
  <2>1. UNCHANGED seen /\ ui'.opened = ui.opened /\ ui'.pick = ui.pick
        /\ \E c : Run(c, 0)
    BY <1>1, <1>8 DEF TapSwap
  <2> QED
    BY <1>2, <1>4, <1>6, <2>1 DEF AimInv
<1>9. ASSUME NEW p, PickActor(p)
      PROVE  AimInv'
  <2>1. UNCHANGED <<seen, flight>> /\ ui'.opened = ui.opened /\ ui.opened.kind = "none"
    BY <1>1, <1>9 DEF PickActor, AtButtons, UiFits
  <2> QED
    BY <1>2, <2>1 DEF AimInv, Aimed
<1>10. ASSUME NEW c, TapLobby(c)
       PROVE  AimInv'
  BY <1>2, <1>4, <1>5, <1>10 DEF TapLobby, AimInv
<1>11. ASSUME NEW c, TapWind(c)
       PROVE  AimInv'
  <2>1. /\ UNCHANGED <<seen, ui>>
        /\ Run(c, IF c.name = "continue_wind" THEN lastHandNo(seen) ELSE 0)
    BY <1>11 DEF TapWind
  <2>2. c.name = "continue_wind" => c.name \notin FlowCommands
    BY DEF FlowCommands
  <2>3. SentWhereAimed(flight', aim)
    BY <1>4, <2>1, <2>2
  <2> QED
    BY <1>2, <1>5, <2>1, <2>3 DEF AimInv
<1>12. ASSUME NEW f, f \in Tapped(ui.opened, seen.members[actor], seen.rules.max_tai), TapFlow(f)
       PROVE  AimInv'
  <2>1. /\ FlowShown(seen, ui) /\ ui'.opened = f /\ ui'.pick = ui.pick
        /\ UNCHANGED <<seen, flight>>
    BY <1>1, <1>12 DEF TapFlow
  <2>2. ui.opened.kind # "none" /\ AtTable(seen, Me)
    BY <2>1 DEF FlowShown
  <2>3. /\ seen.members[actor] \in 0 .. 3 /\ seen.rules.max_tai \in Nat \ {0}
        /\ FormFits(ui.opened, seen.members[actor], seen.rules.max_tai)
    BY <1>1, <2>2, ShownAtTable DEF UiFits, actor
  <2>4. f.handNo = ui.opened.handNo
    BY <1>12, <2>3, TapFits
  <2> QED
    BY <1>2, <2>1, <2>2, <2>4 DEF AimInv, Aimed
<1>13. ASSUME NEW c, SubmitFlow(c)
       PROVE  AimInv'
  <2>1. /\ FlowShown(seen, ui) /\ c \in Submits(ui.opened, Me, actor)
        /\ Run(c, ui.opened.handNo) /\ UNCHANGED <<seen, ui>>
    BY <1>13 DEF SubmitFlow
  <2>2. ui.opened.kind # "none"
    BY <2>1 DEF FlowShown
  <2>3. c.actor = actor
    <3> DEFINE p == actor
               f == ui.opened
    <3>1. FormFits(f, seen.members[p], seen.rules.max_tai) /\ c \in Submits(f, Me, p)
      BY <1>1, <2>1, <2>2 DEF UiFits, actor
    <3> HIDE DEF p, f
    <3>2. c.actor = p
      BY <3>1, SubmitFits
    <3> QED
      BY <3>2 DEF p
  <2>4. aim.hand = ui.opened.handNo /\ aim.who = actor
    BY <1>2, <2>2 DEF Aimed, actor
  <2>5. flight'.cmd = c /\ flight'.pin = ui.opened.handNo
    BY <2>1 DEF Run
  <2> QED
    BY <1>2, <1>5, <2>1, <2>3, <2>4, <2>5 DEF AimInv, SentWhereAimed
<1>14. ASSUME CancelFlow
       PROVE  AimInv'
  <2>1. ui'.opened = NoFlow /\ UNCHANGED <<seen, flight>>
    BY <1>1, <1>14 DEF CancelFlow
  <2> QED
    BY <1>2, <1>3, <2>1 DEF AimInv, Aimed
<1>15. ASSUME AskNoWin \/ CancelNoWin
       PROVE  AimInv'
  <2>1. UNCHANGED <<seen, flight>> /\ ui'.opened = ui.opened /\ ui'.pick = ui.pick
    BY <1>1, <1>15 DEF AskNoWin, CancelNoWin
  <2> QED
    BY <1>2, <1>6, <2>1 DEF AimInv
<1>16. ASSUME ConfirmNoWin
       PROVE  AimInv'
  <2>1. UNCHANGED seen /\ ui'.opened = ui.opened /\ ui'.pick = ui.pick
        /\ Run(Cmd("no_win", Me, Me), lastHandNo(seen))
    BY <1>1, <1>16 DEF ConfirmNoWin
  <2>2. Cmd("no_win", Me, Me).name \notin FlowCommands
    BY DEF Cmd, FlowCommands
  <2>3. SentWhereAimed(flight', aim)
    BY <1>4, <2>1, <2>2
  <2> QED
    BY <1>2, <1>6, <2>1, <2>3 DEF AimInv
<1>17. ASSUME TapEnd
       PROVE  AimInv'
  BY <1>2, <1>4, <1>5, <1>17 DEF TapEnd, AimInv
<1>18. ASSUME Poll
       PROVE  AimInv'
  <2>1. seen' = room /\ ui' = Redrawn(ui, room) /\ UNCHANGED flight
    BY <1>18 DEF Poll, Show
  <2>2. Aimed(Redrawn(ui, room), room, aim)
    BY <1>1, <1>2, RedrawnAimed
  <2> QED
    BY <1>2, <2>1, <2>2 DEF AimInv
<1> QED
  BY <1>7, <1>8, <1>9, <1>10, <1>11, <1>12, <1>13, <1>14, <1>15, <1>16, <1>17, <1>18 DEF TapStep

(* Nothing turns an open flow, or its declaration under way, to another hand or *)
(* another player.                                                              *)
LEMMA AimKept == PhoneInv /\ AimInv /\ [NextStep]_vars => AimInv'
<1> SUFFICES ASSUME PhoneInv, AimInv, [NextStep]_vars
             PROVE  AimInv'
  OBVIOUS
<1>1. /\ GoodRoom(room) /\ GoodRoom(seen) /\ SameGame(seen, room)
      /\ UiFits(ui, seen) /\ FlightFits(flight, room)
      /\ DOMAIN ui = {"picked", "opened", "pick", "asking"}
  BY DEF PhoneInv, UiFits
<1>2. Aimed(ui, seen, aim) /\ SentWhereAimed(flight, aim)
  BY DEF AimInv
<1>3. NoFlow.kind = "none" /\ SentWhereAimed(NoCommand, aim)
  BY DEF NoFlow, Flow, SentWhereAimed
<1>4. PhoneInv'
  BY PhoneStepKeeps
<1>5. ASSUME NEW kind, openFlow(kind)
      PROVE  AimInv'
  <2>1. /\ ui'.opened.handNo = Current(seen).hand_no /\ ui'.pick = ui.pick /\ seen' = seen
        /\ aim'.hand = Current(seen).hand_no /\ aim'.who = actor
    BY <1>1, <1>5 DEF openFlow, Flow
  <2>2. flight' = NoCommand
    BY <1>5 DEF openFlow, Busy
  <2> QED
    BY <2>1, <2>2 DEF AimInv, Aimed, SentWhereAimed, actor
<1>6. CASE TapStep /\ UNCHANGED aim
  <2>1. UNCHANGED room
    BY <1>6, TapKeeps DEF PhoneStep
  <2>2. FlightFits(flight', room)
    BY <1>4, <2>1 DEF PhoneInv
  <2> QED
    BY <1>6, <2>2, TapsAim
<1>7. CASE OtherStep /\ UNCHANGED aim
  BY <1>2, <1>7 DEF OtherStep, AimInv
<1>8. CASE Land /\ UNCHANGED aim
  <2>1. CASE /\ Accepts(room, flight.cmd) /\ room' = Effect(room, flight.cmd)
             /\ Show(room', Finished(ui, flight.cmd)) /\ flight' = NoCommand
    <3> DEFINE u == Finished(ui, flight.cmd)
    <3>1. seen' = room' /\ ui' = Redrawn(u, room')
      BY <2>1 DEF Show
    <3>2. SameGame(seen, room')
      <4>1. flight # NoCommand
        BY <1>8 DEF Land, Busy
      <4>2. SameGame(room, room')
        BY <1>1, <2>1, <4>1, EffectGood DEF GoodChange, FlightFits
      <4> QED
        BY <1>1, <4>2, SameGameTransitive
    <3>3. UiFits(u, seen) /\ Aimed(u, seen, aim)
      BY <1>1, <1>2, <1>3, FinishedFits DEF Finished, Aimed
    <3> HIDE DEF u
    <3>4. Aimed(ui', seen', aim)
      BY <3>1, <3>2, <3>3, RedrawnAimed
    <3> QED
      BY <1>3, <1>8, <2>1, <3>4 DEF AimInv
  <2>2. CASE flight' = NoCommand /\ UNCHANGED <<room, seen, ui>>
    BY <1>2, <1>3, <1>8, <2>2 DEF AimInv
  <2>3. CASE /\ Show(room, ui) /\ UNCHANGED room
             /\ \/ flight.pin = 0 /\ flight' = [flight EXCEPT !.seq = room.seq, !.attempt = 1]
                \/ flight' = NoCommand
    <3>1. seen' = room /\ ui' = Redrawn(ui, room)
      BY <2>3 DEF Show
    <3>2. Aimed(ui', seen', aim)
      BY <1>1, <1>2, <3>1, RedrawnAimed
    <3>3. SentWhereAimed(flight', aim)
      <4>1. CASE flight.pin = 0 /\ flight' = [flight EXCEPT !.seq = room.seq, !.attempt = 1]
        <5>1. /\ flight # NoCommand /\ DOMAIN flight = {"cmd", "pin", "seq", "attempt"}
              /\ flight.cmd.name \notin FlowCommands
          BY <1>1, <1>8, <4>1 DEF Land, Busy, FlightFits
        <5>2. flight'.cmd = flight.cmd
          BY <4>1, <5>1
        <5> QED
          BY <5>1, <5>2 DEF SentWhereAimed
      <4> QED
        BY <1>3, <2>3, <4>1
    <3> QED
      BY <1>8, <3>2, <3>3 DEF AimInv
  <2> QED
    BY <1>8, <2>1, <2>2, <2>3 DEF Land
<1>9. CASE UNCHANGED vars
  BY <1>2, <1>9 DEF AimInv, vars
<1> QED
  BY <1>5, <1>6, <1>7, <1>8, <1>9 DEF NextStep, PhoneStep

LEMMA AimHolds == PhoneSpec => []AimInv
<1>1. ASSUME NEW r, PhoneInit(r)
      PROVE  AimInv
  BY <1>1 DEF PhoneInit, AimInv, Aimed, SentWhereAimed, Blank, NoFlow, Flow
<1>2. (\E r : GoodRoom(r) /\ PhoneInit(r)) => AimInv
  BY <1>1
<1>3. PhoneInv /\ AimInv /\ [NextStep]_vars => AimInv'
  BY AimKept
<1> QED
  BY PhoneFits, <1>2, <1>3, PTL DEF PhoneSpec

(* "A HU half-entered for hand 3 must never land on hand 4": a declaration goes to *)
(* the hand its flow was opened for, and is the player's who was picked then, for  *)
(* any number of hands played and of taps made while the flow was open or its      *)
(* declaration under way.                                                          *)
THEOREM HandsAreHit == PhoneSpec => FlowHitsItsHand
<1>1. PhoneInv /\ AimInv /\ [NextStep]_vars =>
        [Land /\ flight.cmd.name \in FlowCommands /\ room' # room =>
            /\ lastHandNo(room) = aim.hand /\ flight.cmd.actor = aim.who
            /\ flight.cmd.name = "hu" =>
                room'.hands[aim.hand].closed /\ room'.hands[aim.hand].winner = aim.who]_vars
  <2> SUFFICES ASSUME PhoneInv, AimInv, Land, flight.cmd.name \in FlowCommands, room' # room
               PROVE  /\ lastHandNo(room) = aim.hand /\ flight.cmd.actor = aim.who
                      /\ flight.cmd.name = "hu" =>
                            /\ room'.hands[aim.hand].closed
                            /\ room'.hands[aim.hand].winner = aim.who
    OBVIOUS
  <2>1. /\ OnTime(room) /\ Accepts(room, flight.cmd) /\ room' = Effect(room, flight.cmd)
        /\ flight # NoCommand
    BY DEF Land, Busy
  <2>2. GoodRoom(room) /\ flight.pin # 0
    BY <2>1 DEF PhoneInv, FlightFits
  <2>3. flight.pin = aim.hand /\ flight.cmd.actor = aim.who
    BY <2>1 DEF AimInv, SentWhereAimed
  <2>4. lastHandNo(room) = aim.hand
    BY <2>1, <2>2, <2>3 DEF OnTime
  <2>5. ASSUME flight.cmd.name = "hu"
        PROVE  /\ room'.hands[Last(room)].closed
               /\ room'.hands[Last(room)].winner = flight.cmd.actor
               /\ lastHandNo(room) = Last(room)
    <3> DEFINE p == flight.cmd.actor
               paid == Hu(room, p, flight.cmd.h)
               x == [Current(room) EXCEPT !.closed = TRUE, !.winner = p, !.paid = InHand(room, paid)]
               closed == HandClosed(room, p, paid)
               deal == NextDeal(Current(room), room.members[p] # Current(room).dealer_seat)
    <3>1. CanHu(room, p, flight.cmd.h) /\ room' = HuDeclared(room, p, paid)
      BY <2>1, <2>5 DEF Accepts, Effect
    <3>2. /\ room.hands \in Seq(HandStates) /\ Last(room) \in Nat /\ Last(room) > 0
          /\ Current(room) \in HandStates /\ Current(room).hand_no = Last(room)
      BY <2>2, <3>1, LastHand DEF CanHu, MayDeclare
    <3>3. x.winner = p /\ x.closed
      BY <3>2 DEF HandStates
    <3>4. closed = [room.hands EXCEPT ![Last(room)] = x]
      BY DEF HandClosed
    <3>5. \/ room'.hands = closed
          \/ room'.hands = OpenNextHand(closed, deal)
      BY <2>2, <3>1 DEF HuDeclared, GoodRoom, IsRoom
    <3> HIDE DEF p, paid, x, deal
    <3>6. Len(closed) = Last(room) /\ closed[Last(room)] = x
      BY <3>2, <3>4 DEF Last
    <3>7. OpenNextHand(closed, deal)[Last(room)] = x
      <4> HIDE DEF closed
      <4>1. \A h : Append(closed, h)[Last(room)] = closed[Last(room)]
        BY <3>2, <3>6
      <4> QED
        BY <3>6, <4>1 DEF OpenNextHand
    <3>8. lastHandNo(room) = Last(room)
      BY <3>2 DEF lastHandNo
    <3> QED
      BY <3>3, <3>5, <3>6, <3>7, <3>8 DEF p
  <2> QED
    BY <2>3, <2>4, <2>5
<1> QED
  BY PhoneFits, AimHolds, <1>1, PTL DEF PhoneSpec, FlowHitsItsHand

\* The seats of everybody but p and q.
Rest(r, p, q) == {r.members[x] : x \in Members(r) \ {p, q}}

(* In a full table the places of two players are all that the rest leaves. *)
LEMMA SeatsLeft ==
    ASSUME NEW r, GoodRoom(r), AllSeats(r.members), NEW p \in Members(r), NEW q \in Members(r)
    PROVE  \A seat : seat \in {r.members[p], r.members[q]}
                     <=> seat \in (0 .. SEAT_COUNT - 1) \ Rest(r, p, q)
<1>1. \A x, y \in Members(r) : r.members[x] = r.members[y] => x = y
  BY DEF GoodRoom, Seated
<1>2. {r.members[x] : x \in Members(r)} = 0 .. SEAT_COUNT - 1
  BY DEF AllSeats, Members
<1> QED
  BY <1>1, <1>2 DEF Rest

LEMMA SeatsTraded ==
    ASSUME NEW r, GoodRoom(r), AllSeats(r.members), NEW s, GoodRoom(s), AllSeats(s.members),
           Members(s) = Members(r), NEW p \in Members(r), NEW q \in Members(r),
           \A x \in Members(r) \ {p, q} : s.members[x] = r.members[x]
    PROVE  {s.members[p], s.members[q]} = {r.members[p], r.members[q]}
<1>1. Rest(s, p, q) = Rest(r, p, q)
  BY DEF Rest
<1>2. p \in Members(s) /\ q \in Members(s)
  OBVIOUS
<1>3. \A seat : seat \in {s.members[p], s.members[q]}
                <=> seat \in (0 .. SEAT_COUNT - 1) \ Rest(s, p, q)
  BY <1>2, SeatsLeft
<1>4. \A seat : seat \in {r.members[p], r.members[q]}
                <=> seat \in (0 .. SEAT_COUNT - 1) \ Rest(r, p, q)
  BY SeatsLeft
<1> QED
  BY <1>1, <1>3, <1>4

(* The two seats tapped are traded and nobody else's, also when the swap is sent *)
(* again after others came or went.                                              *)
THEOREM SwapsTrade == PhoneSpec => SwapsTradeSeats
<1>1. PhoneInv /\ [NextStep]_vars =>
        [Land /\ flight.cmd.name = "assign_seats" /\ room' # room =>
            \E p, q \in Members(room) :
                /\ DOMAIN flight.cmd.seat_map = {p, q}
                /\ \A x \in Members(room) \ {p, q} : room'.members[x] = room.members[x]
                /\ {room'.members[p], room'.members[q]} = {room.members[p], room.members[q]}]_vars
  <2> SUFFICES ASSUME PhoneInv, Land, flight.cmd.name = "assign_seats", room' # room
               PROVE  \E p, q \in Members(room) :
                        /\ DOMAIN flight.cmd.seat_map = {p, q}
                        /\ \A x \in Members(room) \ {p, q} : room'.members[x] = room.members[x]
                        /\ {room'.members[p], room'.members[q]} = {room.members[p], room.members[q]}
    OBVIOUS
  <2>1. /\ Accepts(room, flight.cmd) /\ room' = Effect(room, flight.cmd) /\ flight # NoCommand
    BY DEF Land, Busy
  <2>2. GoodRoom(room) /\ WellSent(flight.cmd)
    BY <2>1 DEF PhoneInv, FlightFits
  <2>3. /\ CanAssignSeats(room, Me, flight.cmd.seat_map)
        /\ room' = SeatsAssigned(room, flight.cmd.seat_map)
    BY <2>1, <2>2 DEF Accepts, Effect, WellSent
  <2>4. PICK p, q \in Player : DOMAIN flight.cmd.seat_map = {p, q}
    BY <2>2 DEF WellSent
  <2>5. p \in Members(room) /\ q \in Members(room)
    BY <2>3, <2>4 DEF CanAssignSeats
  <2>6. GoodRoom(room')
    BY <2>2, <2>3, ReseatedGood
  <2>7. room'.members = Reseated(room.members, flight.cmd.seat_map)
    BY <2>2, <2>3 DEF SeatsAssigned, GoodRoom, IsRoom
  <2>8. /\ Members(room') = Members(room)
        /\ \A x \in Members(room) \ {p, q} : room'.members[x] = room.members[x]
    BY <2>4, <2>7 DEF Reseated, Members
  <2>9. AllSeats(room.members)
    BY <2>2, <2>3, FullTableSits DEF CanAssignSeats
  <2>10. AllSeats(room'.members)
    BY <2>3, <2>7 DEF CanAssignSeats
  <2>11. {room'.members[p], room'.members[q]} = {room.members[p], room.members[q]}
    <3>1. PICK s : s = room'
      OBVIOUS
    <3>2. {s.members[p], s.members[q]} = {room.members[p], room.members[q]}
      BY <2>2, <2>5, <2>6, <2>8, <2>9, <2>10, <3>1, SeatsTraded
    <3> QED
      BY <3>1, <3>2
  <2> QED
    BY <2>4, <2>5, <2>8, <2>11
<1> QED
  BY PhoneFits, <1>1, PTL DEF PhoneSpec, SwapsTradeSeats

(* However the phones are used, the deal goes round as the rule says and closed *)
(* hands stay as they are.                                                      *)
THEOREM PhonesKeepTheGame == PhoneSpec => []DealFollowsTheRule /\ ClosedHandsAreFinal
<1>1. PhoneInv => DealFollowsTheRule
  BY DEF PhoneInv, GoodRoom, DealFollowsTheRule
<1>2. PhoneInv /\ [NextStep]_vars =>
        [/\ Last(room') >= Last(room)
         /\ \A i \in 1 .. Last(room) :
                room.hands[i].closed => room'.hands[i] = room.hands[i]]_room
  BY PhoneStepKeeps DEF ClosedKept
<1> QED
  BY PhoneFits, <1>1, <1>2, PTL DEF PhoneSpec, ClosedHandsAreFinal
=============================================================================
