-------------------------------- MODULE Sums --------------------------------
(***************************************************************************)
(* Sums of integers over finite sets: SumFunctionOnSet of the community    *)
(* modules adds one element to the next in an order of its own; here that  *)
(* the order does not matter, and what follows for sums that grow, shrink  *)
(* and are put together.                                                   *)
(*                                                                         *)
(* The recursive function behind the sum is defined on the subsets of the  *)
(* set.  All that is shown by induction is shown of the least size of a    *)
(* subset for which it fails.                                              *)
(***************************************************************************)
EXTENDS FiniteSetsExt, FiniteSetTheorems, WellFoundedInduction, TLAPS

(* Any non-empty set of naturals has a least element. *)
LEMMA LeastNat ==
    ASSUME NEW S \in SUBSET Nat, S # {}
    PROVE  \E m \in S : \A n \in S : m <= n
<1>1. IsWellFoundedOn(OpToRel(<, Nat), Nat)
  BY NatLessThanWellFounded
<1>2. PICK m \in S : \A n \in S : ~(<<n, m>> \in OpToRel(<, Nat))
  BY <1>1, WFMin, Zenon
<1>3. \A n \in S : ~(n < m)
  BY <1>2 DEF OpToRel
<1> QED
  BY <1>3

Chosen(s) == CHOOSE x \in s : TRUE

\* g gives the sum of f over each subset of S, added up one chosen element at a time.
IsTally(g, f, S) ==
    g = [s \in SUBSET S |-> IF s = {} THEN 0 ELSE f[Chosen(s)] + g[s \ {Chosen(s)}]]

LEMMA SumIsTally ==
    ASSUME NEW f, NEW S, \E g : IsTally(g, f, S)
    PROVE  \E g : IsTally(g, f, S) /\ SumFunctionOnSet(f, S) = g[S]
<1> DEFINE h == CHOOSE g : IsTally(g, f, S)
<1>1. IsTally(h, f, S)
  OBVIOUS
<1>2. SumFunctionOnSet(f, S) = h[S]
  BY Zenon DEF SumFunctionOnSet, FoldFunctionOnSet, MapThenFoldSet, IsTally, Chosen
<1> QED
  BY <1>1, <1>2

-----------------------------------------------------------------------------
(* The sum is well defined. *)

Small(S, n) == {s \in SUBSET S : Cardinality(s) <= n}

Adds(g, f, s) == g[s] = IF s = {} THEN 0 ELSE f[Chosen(s)] + g[s \ {Chosen(s)}]

\* A tally of the subsets of up to n elements.
IsPartial(g, f, S, n) ==
    /\ g \in [Small(S, n) -> Int]
    /\ \A s \in Small(S, n) : Adds(g, f, s)

(* Taking the chosen element away leaves a smaller subset. *)
LEMMA OneLess ==
    ASSUME NEW S, IsFiniteSet(S), NEW s \in SUBSET S, s # {}, NEW x \in s
    PROVE  /\ s \ {x} \in SUBSET S
           /\ Cardinality(s) \in Nat \ {0}
           /\ Cardinality(s \ {x}) = Cardinality(s) - 1
           /\ Cardinality(s \ {x}) \in Nat
<1>1. IsFiniteSet(s) /\ IsFiniteSet(s \ {x})
  BY FS_Subset
<1>2. Cardinality(s \ {x}) = Cardinality(s) - 1
  BY <1>1, FS_RemoveElement
<1>3. Cardinality(s) \in Nat /\ Cardinality(s \ {x}) \in Nat
  BY <1>1, FS_CardinalityType
<1>4. Cardinality(s) # 0
  BY <1>2, <1>3
<1> QED
  BY <1>2, <1>3, <1>4

LEMMA ChosenIsIn == ASSUME NEW s, s # {} PROVE Chosen(s) \in s
BY DEF Chosen

LEMMA FirstPartial ==
    ASSUME NEW S, IsFiniteSet(S), NEW f
    PROVE  \E g : IsPartial(g, f, S, 0)
<1> DEFINE g == [s \in Small(S, 0) |-> 0]
<1>1. \A s \in Small(S, 0) : s = {}
  <2> SUFFICES ASSUME NEW s \in Small(S, 0) PROVE s = {}
    OBVIOUS
  <2>1. IsFiniteSet(s) /\ Cardinality(s) <= 0
    BY FS_Subset DEF Small
  <2> QED
    BY <2>1, FS_CardinalityType, FS_EmptySet
<1>2. IsPartial(g, f, S, 0)
  BY <1>1 DEF IsPartial, Adds
<1> QED
  BY <1>2

LEMMA NextPartial ==
    ASSUME NEW S, IsFiniteSet(S), NEW f, \A x \in S : f[x] \in Int,
           NEW n \in Nat, NEW g, IsPartial(g, f, S, n)
    PROVE  \E h : IsPartial(h, f, S, n + 1)
<1> DEFINE value(s) == IF s = {} THEN 0 ELSE f[Chosen(s)] + g[s \ {Chosen(s)}]
           h == [s \in Small(S, n + 1) |-> value(s)]
<1>1. ASSUME NEW s \in Small(S, n + 1), s # {}
      PROVE  Chosen(s) \in S /\ s \ {Chosen(s)} \in Small(S, n)
  BY <1>1, ChosenIsIn, OneLess DEF Small
<1>2. \A s \in Small(S, n + 1) : value(s) \in Int
  BY <1>1 DEF IsPartial
<1>3. \A s \in Small(S, n) : s \in Small(S, n + 1) /\ h[s] = g[s]
  <2> SUFFICES ASSUME NEW s \in Small(S, n) PROVE s \in Small(S, n + 1) /\ h[s] = g[s]
    OBVIOUS
  <2>1. s \in Small(S, n + 1)
    BY FS_Subset, FS_CardinalityType DEF Small
  <2> QED
    BY <2>1 DEF IsPartial, Adds
<1>4. \A s \in Small(S, n + 1) : Adds(h, f, s)
  BY <1>1, <1>3 DEF Adds
<1>5. IsPartial(h, f, S, n + 1)
  BY <1>2, <1>4 DEF IsPartial
<1> QED
  BY <1>5

(* A finite set has a tally, and what it gives are integers. *)
LEMMA TallyExists ==
    ASSUME NEW S, IsFiniteSet(S), NEW f, \A x \in S : f[x] \in Int
    PROVE  \E g : IsTally(g, f, S)
<1> DEFINE T == {n \in Nat : ~ \E g : IsPartial(g, f, S, n)}
<1>1. T = {}
  <2> SUFFICES ASSUME T # {} PROVE FALSE
    OBVIOUS
  <2>1. PICK m \in T : \A n \in T : m <= n
    BY LeastNat, Zenon
  <2>2. m # 0
    BY <2>1, FirstPartial
  <2>3. PICK g : IsPartial(g, f, S, m - 1)
    BY <2>1, <2>2
  <2> QED
    BY <2>1, <2>2, <2>3, NextPartial
<1>2. Cardinality(S) \in Nat
  BY FS_CardinalityType
<1>3. PICK g : IsPartial(g, f, S, Cardinality(S))
  BY <1>1, <1>2
<1>4. SUBSET S = Small(S, Cardinality(S))
  BY FS_Subset DEF Small
<1> QED
  BY <1>3, <1>4, Zenon DEF IsTally, IsPartial, Adds

-----------------------------------------------------------------------------
(* The order does not matter. *)

(* Induction over the subsets of a finite set: what holds of the empty set, and of *)
(* a set if it holds of the set less any one element, holds of all of them.        *)
LEMMA SubsetInduction ==
    ASSUME NEW S, IsFiniteSet(S), NEW Good, {} \in Good,
           \A s \in SUBSET S : s # {} /\ (\A x \in s : s \ {x} \in Good) => s \in Good
    PROVE  SUBSET S \subseteq Good
<1> DEFINE T == {Cardinality(s) : s \in (SUBSET S) \ Good}
<1> SUFFICES ASSUME (SUBSET S) \ Good # {} PROVE FALSE
  OBVIOUS
<1>1. \A s \in SUBSET S : Cardinality(s) \in Nat
  BY FS_Subset, FS_CardinalityType
<1>2. T \in SUBSET Nat /\ T # {}
  BY <1>1
<1>3. PICK m \in T : \A n \in T : m <= n
  BY <1>2, LeastNat, Zenon
<1>4. PICK s \in (SUBSET S) \ Good : Cardinality(s) = m
  BY <1>3
<1>5. ASSUME NEW x \in s PROVE s \ {x} \in Good
  <2>1. /\ s \ {x} \in SUBSET S
        /\ Cardinality(s) \in Nat \ {0} /\ Cardinality(s \ {x}) = Cardinality(s) - 1
    <3>1. s \in SUBSET S /\ x \in s
      BY <1>4, <1>5
    <3> QED
      BY <3>1, OneLess
  <2>2. ~(m <= Cardinality(s \ {x}))
    BY <1>4, <2>1
  <2>3. Cardinality(s \ {x}) \notin T
    BY <1>3, <2>2, Zenon
  <2> QED
    BY <2>1, <2>3
<1> QED
  BY <1>4, <1>5

LEMMA TallyAdds ==
    ASSUME NEW S, NEW f, NEW g, IsTally(g, f, S)
    PROVE  \A s \in SUBSET S : Adds(g, f, s)
BY DEF IsTally, Adds

LEMMA TallyIsInt ==
    ASSUME NEW S, IsFiniteSet(S), NEW f, \A x \in S : f[x] \in Int,
           NEW g, IsTally(g, f, S)
    PROVE  \A s \in SUBSET S : g[s] \in Int
<1> DEFINE Good == {s \in SUBSET S : g[s] \in Int}
<1>0. \A s \in SUBSET S : Adds(g, f, s)
  BY TallyAdds, Zenon
<1>1. {} \in Good
  <2>1. Adds(g, f, {})
    BY <1>0
  <2> QED
    BY <2>1 DEF Adds
<1>2. ASSUME NEW s \in SUBSET S, s # {}, \A x \in s : s \ {x} \in Good PROVE s \in Good
  <2>1. Chosen(s) \in s
    BY <1>2, ChosenIsIn
  <2>2. Adds(g, f, s)
    BY <1>0
  <2>3. f[Chosen(s)] \in Int /\ g[s \ {Chosen(s)}] \in Int
    BY <1>2, <2>1
  <2> QED
    BY <1>2, <2>2, <2>3 DEF Adds
<1> HIDE DEF Good
<1>3. SUBSET S \subseteq Good
  BY <1>1, <1>2, SubsetInduction
<1> QED
  BY <1>3 DEF Good

LEMMA TallyAnyOrder ==
    ASSUME NEW S, IsFiniteSet(S), NEW f, \A x \in S : f[x] \in Int,
           NEW g, IsTally(g, f, S)
    PROVE  \A s \in SUBSET S : \A x \in s : g[s] = f[x] + g[s \ {x}]
<1> DEFINE Good == {s \in SUBSET S : \A x \in s : g[s] = f[x] + g[s \ {x}]}
<1>0. \A s \in SUBSET S : Adds(g, f, s)
  BY TallyAdds, Zenon
<1>1. {} \in Good
  OBVIOUS
<1>2. ASSUME NEW s \in SUBSET S, s # {}, \A x \in s : s \ {x} \in Good PROVE s \in Good
  <2> SUFFICES ASSUME NEW x \in s, x # Chosen(s) PROVE g[s] = f[x] + g[s \ {x}]
    BY <1>0, <1>2 DEF Adds
  <2> DEFINE c == Chosen(s)
             both == s \ {x, c}
  <2>1. c \in s
    BY <1>2, ChosenIsIn
  <2>2. g[s] = f[c] + g[s \ {c}]
    BY <1>0, <1>2 DEF Adds
  <2>3. (s \ {c}) \ {x} = both /\ (s \ {x}) \ {c} = both
    OBVIOUS
  <2>4. g[s \ {c}] = f[x] + g[both] /\ g[s \ {x}] = f[c] + g[both]
    <3>1. x \in s \ {c} /\ c \in s \ {x}
      BY <2>1
    <3> QED
      BY <1>2, <2>1, <2>3, <3>1
  <2>5. f[c] \in Int /\ f[x] \in Int /\ g[both] \in Int
    BY <2>1, TallyIsInt
  <2> HIDE DEF c, both
  <2> QED
    BY <2>2, <2>4, <2>5
<1> HIDE DEF Good
<1>3. SUBSET S \subseteq Good
  BY <1>1, <1>2, SubsetInduction
<1> QED
  BY <1>3 DEF Good

(* Tallies of two sets agree on what the sets share. *)
LEMMA TalliesAgree ==
    ASSUME NEW S, IsFiniteSet(S), NEW f, NEW g, IsTally(g, f, S),
           NEW R, NEW e, NEW h, IsTally(h, e, R),
           S \subseteq R, \A x \in S : f[x] = e[x]
    PROVE  \A s \in SUBSET S : g[s] = h[s]
<1> DEFINE Good == {s \in SUBSET S : g[s] = h[s]}
<1>0. /\ \A s \in SUBSET S : Adds(g, f, s)
      /\ \A s \in SUBSET R : Adds(h, e, s)
  BY TallyAdds, Zenon
<1>1. {} \in Good
  BY <1>0 DEF Adds
<1>2. ASSUME NEW s \in SUBSET S, s # {}, \A x \in s : s \ {x} \in Good PROVE s \in Good
  <2>1. Chosen(s) \in s
    BY <1>2, ChosenIsIn
  <2>2. Adds(g, f, s) /\ Adds(h, e, s)
    BY <1>0
  <2> QED
    BY <1>2, <2>1, <2>2 DEF Adds
<1> HIDE DEF Good
<1>3. SUBSET S \subseteq Good
  BY <1>1, <1>2, SubsetInduction
<1> QED
  BY <1>3 DEF Good

-----------------------------------------------------------------------------
(* What sums come to. *)

(* Nothing adds up to nothing. *)
LEMMA SumOfNone == ASSUME NEW f PROVE SumFunctionOnSet(f, {}) = 0
<1>1. IsFiniteSet({})
  BY FS_EmptySet
<1>2. PICK g : IsTally(g, f, {}) /\ SumFunctionOnSet(f, {}) = g[{}]
  BY <1>1, TallyExists, SumIsTally
<1>3. Adds(g, f, {})
  BY <1>2, TallyAdds
<1> QED
  BY <1>2, <1>3 DEF Adds

(* Any one element can be taken out of a sum. *)
LEMMA SumTakenOut ==
    ASSUME NEW S, IsFiniteSet(S), NEW f, \A x \in S : f[x] \in Int, NEW x \in S
    PROVE  /\ SumFunctionOnSet(f, S) = f[x] + SumFunctionOnSet(f, S \ {x})
           /\ SumFunctionOnSet(f, S) \in Int
           /\ SumFunctionOnSet(f, S \ {x}) \in Int
<1> DEFINE R == S \ {x}
<1>1. IsFiniteSet(R) /\ \A y \in R : f[y] \in Int
  BY FS_Subset
<1>2. PICK g : IsTally(g, f, S) /\ SumFunctionOnSet(f, S) = g[S]
  BY TallyExists, SumIsTally
<1>3. PICK h : IsTally(h, f, R) /\ SumFunctionOnSet(f, R) = h[R]
  BY <1>1, TallyExists, SumIsTally
<1>4. h[R] = g[R]
  BY <1>1, <1>2, <1>3, TalliesAgree
<1>5. g[S] = f[x] + g[R]
  BY <1>2, TallyAnyOrder
<1>6. g[S] \in Int /\ g[R] \in Int
  BY <1>2, TallyIsInt
<1> QED
  BY <1>2, <1>3, <1>4, <1>5, <1>6

LEMMA SumIsInt ==
    ASSUME NEW S, IsFiniteSet(S), NEW f, \A x \in S : f[x] \in Int
    PROVE  SumFunctionOnSet(f, S) \in Int
<1>1. PICK g : IsTally(g, f, S) /\ SumFunctionOnSet(f, S) = g[S]
  BY TallyExists, SumIsTally
<1> QED
  BY <1>1, TallyIsInt

(* Equal terms, equal sums. *)
LEMMA SumOfSame ==
    ASSUME NEW S, IsFiniteSet(S), NEW f, \A x \in S : f[x] \in Int,
           NEW e, \A x \in S : f[x] = e[x]
    PROVE  SumFunctionOnSet(f, S) = SumFunctionOnSet(e, S)
<1>1. PICK g : IsTally(g, f, S) /\ SumFunctionOnSet(f, S) = g[S]
  BY TallyExists, SumIsTally
<1>2. PICK h : IsTally(h, e, S) /\ SumFunctionOnSet(e, S) = h[S]
  <2>1. \A x \in S : e[x] \in Int
    OBVIOUS
  <2> QED
    BY <2>1, TallyExists, SumIsTally
<1> QED
  BY <1>1, <1>2, TalliesAgree

(* Terms that are all zero. *)
LEMMA SumOfZeros ==
    ASSUME NEW S, IsFiniteSet(S), NEW f, \A x \in S : f[x] = 0
    PROVE  SumFunctionOnSet(f, S) = 0
<1> DEFINE Good == {s \in SUBSET S : SumFunctionOnSet(f, s) = 0}
<1>1. {} \in Good
  BY SumOfNone
<1>2. ASSUME NEW s \in SUBSET S, s # {}, \A x \in s : s \ {x} \in Good PROVE s \in Good
  <2>1. PICK x \in s : TRUE
    BY <1>2
  <2>2. SumFunctionOnSet(f, s) = f[x] + SumFunctionOnSet(f, s \ {x})
    BY SumTakenOut, FS_Subset
  <2> QED
    BY <1>2, <2>1, <2>2
<1> HIDE DEF Good
<1>3. SUBSET S \subseteq Good
  BY <1>1, <1>2, SubsetInduction
<1> QED
  BY <1>3 DEF Good

(* Two sums that share no element are put together. *)
LEMMA SumJoined ==
    ASSUME NEW S, IsFiniteSet(S), NEW T, IsFiniteSet(T), S \cap T = {},
           NEW f, \A x \in S \cup T : f[x] \in Int
    PROVE  SumFunctionOnSet(f, S \cup T) = SumFunctionOnSet(f, S) + SumFunctionOnSet(f, T)
<1> DEFINE sum(s) == SumFunctionOnSet(f, s)
           Good == {t \in SUBSET T : sum(S \cup t) = sum(S) + sum(t)}
<1>1. {} \in Good
  <2>1. S \cup {} = S /\ sum({}) = 0 /\ sum(S) \in Int
    BY SumOfNone, SumIsInt
  <2> HIDE DEF sum
  <2> QED
    BY <2>1
<1>2. ASSUME NEW t \in SUBSET T, t # {}, \A x \in t : t \ {x} \in Good PROVE t \in Good
  <2>1. PICK x \in t : TRUE
    BY <1>2
  <2>2. /\ IsFiniteSet(t) /\ IsFiniteSet(S \cup t)
        /\ \A y \in t : f[y] \in Int
        /\ \A y \in S \cup t : f[y] \in Int
    BY FS_Subset, FS_Union
  <2>3. sum(t) = f[x] + sum(t \ {x}) /\ sum(t \ {x}) \in Int
    BY <2>2, SumTakenOut
  <2>4. sum(S \cup t) = f[x] + sum((S \cup t) \ {x})
    BY <2>2, SumTakenOut
  <2>5. (S \cup t) \ {x} = S \cup (t \ {x})
    OBVIOUS
  <2>6. sum(S \cup (t \ {x})) = sum(S) + sum(t \ {x})
    BY <1>2
  <2>7. sum(S) \in Int /\ f[x] \in Int
    BY SumIsInt
  <2>8. sum(S \cup t) = sum(S) + sum(t)
    <3> DEFINE rest == t \ {x}
    <3>1. sum(S \cup t) = f[x] + sum(S \cup rest)
      BY <2>4, <2>5
    <3>2. /\ sum(t) = f[x] + sum(rest) /\ sum(rest) \in Int
          /\ sum(S \cup rest) = sum(S) + sum(rest)
      BY <2>3, <2>6
    <3> HIDE DEF sum, rest
    <3> QED
      BY <2>7, <3>1, <3>2
  <2> QED
    BY <2>8
<1> HIDE DEF Good
<1>3. SUBSET T \subseteq Good
  BY <1>1, <1>2, SubsetInduction
<1> QED
  BY <1>3 DEF Good

(* What counts for nothing can be left out. *)
LEMMA SumOfPart ==
    ASSUME NEW S, IsFiniteSet(S), NEW R \in SUBSET S,
           NEW f, \A x \in R : f[x] \in Int, \A x \in S \ R : f[x] = 0
    PROVE  SumFunctionOnSet(f, S) = SumFunctionOnSet(f, R)
<1>1. IsFiniteSet(R) /\ IsFiniteSet(S \ R) /\ S = R \cup (S \ R)
  BY FS_Subset
<1>2. \A x \in R \cup (S \ R) : f[x] \in Int
  OBVIOUS
<1>3. SumFunctionOnSet(f, S) = SumFunctionOnSet(f, R) + SumFunctionOnSet(f, S \ R)
  BY <1>1, <1>2, SumJoined
<1>4. SumFunctionOnSet(f, S \ R) = 0 /\ SumFunctionOnSet(f, R) \in Int
  BY <1>1, SumOfZeros, SumIsInt
<1> QED
  BY <1>3, <1>4

(* A list that gets one more entry. *)
LEMMA SumOfOneMore ==
    ASSUME NEW n \in Nat, NEW f, \A i \in 1 .. n : f[i] \in Int,
           NEW e, \A i \in 1 .. n : e[i] = f[i], e[n + 1] \in Int
    PROVE  SumFunctionOnSet(e, 1 .. n + 1) = SumFunctionOnSet(f, 1 .. n) + e[n + 1]
<1>1. IsFiniteSet(1 .. n + 1) /\ IsFiniteSet(1 .. n) /\ (1 .. n + 1) \ {n + 1} = 1 .. n
  <2>1. 1 \in Int /\ n \in Int /\ n + 1 \in Int
    OBVIOUS
  <2>2. (1 .. n + 1) \ {n + 1} = 1 .. n
    OBVIOUS
  <2> QED
    BY <2>1, <2>2, FS_Interval
<1>2. SumFunctionOnSet(e, 1 .. n + 1) = e[n + 1] + SumFunctionOnSet(e, 1 .. n)
  <2>1. \A i \in 1 .. n + 1 : e[i] \in Int
    <3> SUFFICES ASSUME NEW i \in 1 .. n + 1 PROVE e[i] \in Int
      OBVIOUS
    <3>1. CASE i = n + 1
      BY <3>1
    <3>2. CASE i # n + 1
      BY <3>2
    <3> QED
      BY <3>1, <3>2
  <2>2. n + 1 \in 1 .. n + 1
    OBVIOUS
  <2> QED
    BY <1>1, <2>1, <2>2, SumTakenOut
<1>3. SumFunctionOnSet(f, 1 .. n) = SumFunctionOnSet(e, 1 .. n)
  BY <1>1, SumOfSame
<1>4. SumFunctionOnSet(f, 1 .. n) \in Int
  BY <1>1, SumIsInt
<1> QED
  BY <1>2, <1>3, <1>4

\* The list e of length m is the list f of length n with g added to its entry k, and
\* perhaps one more entry, of nothing.
CreditedAt(e, m, f, n, k, g) ==
    /\ n \in Nat /\ k \in 1 .. n /\ g \in Int
    /\ \A i \in 1 .. n : f[i] \in Int
    /\ \A i \in 1 .. n : i # k => e[i] = f[i]
    /\ e[k] = f[k] + g
    /\ m = n \/ (m = n + 1 /\ e[n + 1] = 0)

(* What is added to one entry is added to the sum. *)
LEMMA SumOfCredited ==
    ASSUME NEW e, NEW m, NEW f, NEW n, NEW k, NEW g, CreditedAt(e, m, f, n, k, g)
    PROVE  /\ SumFunctionOnSet(e, 1 .. m) = SumFunctionOnSet(f, 1 .. n) + g
           /\ SumFunctionOnSet(f, 1 .. n) \in Int
<1>1. n \in Nat /\ k \in 1 .. n /\ g \in Int /\ f[k] \in Int /\ e[k] = f[k] + g
  BY DEF CreditedAt
<1>2. IsFiniteSet(1 .. n) /\ IsFiniteSet((1 .. n) \ {k})
  <2>1. 1 \in Int /\ n \in Int
    BY <1>1
  <2> QED
    BY <2>1, FS_Interval, FS_Subset
<1>3. \A i \in 1 .. n : f[i] \in Int /\ e[i] \in Int
  <2> SUFFICES ASSUME NEW i \in 1 .. n PROVE f[i] \in Int /\ e[i] \in Int
    OBVIOUS
  <2>1. CASE i = k
    BY <1>1, <2>1
  <2>2. CASE i # k
    BY <2>2 DEF CreditedAt
  <2> QED
    BY <2>1, <2>2
<1> DEFINE rest == (1 .. n) \ {k}
<1>4. /\ SumFunctionOnSet(f, 1 .. n) = f[k] + SumFunctionOnSet(f, rest)
      /\ SumFunctionOnSet(e, 1 .. n) = e[k] + SumFunctionOnSet(e, rest)
      /\ SumFunctionOnSet(f, 1 .. n) \in Int /\ SumFunctionOnSet(e, 1 .. n) \in Int
      /\ SumFunctionOnSet(f, rest) \in Int
  BY <1>1, <1>2, <1>3, SumTakenOut
<1>5. SumFunctionOnSet(f, rest) = SumFunctionOnSet(e, rest)
  <2>1. \A i \in rest : f[i] \in Int /\ f[i] = e[i]
    BY <1>3 DEF CreditedAt
  <2> QED
    BY <1>2, <2>1, SumOfSame
<1> HIDE DEF rest
<1>6. SumFunctionOnSet(e, 1 .. n) = SumFunctionOnSet(f, 1 .. n) + g
  BY <1>1, <1>4, <1>5
<1>7. SumFunctionOnSet(e, 1 .. m) = SumFunctionOnSet(e, 1 .. n)
  <2>1. CASE m = n
    BY <2>1
  <2>2. CASE m = n + 1 /\ e[n + 1] = 0
    <3>1. SumFunctionOnSet(e, 1 .. n + 1) = SumFunctionOnSet(e, 1 .. n) + e[n + 1]
      <4>1. \A i \in 1 .. n : e[i] \in Int
        BY <1>3
      <4>2. e[n + 1] \in Int
        BY <2>2
      <4> QED
        BY <1>1, <4>1, <4>2, SumOfOneMore
    <3> QED
      BY <1>4, <2>2, <3>1
  <2> QED
    BY <2>1, <2>2 DEF CreditedAt
<1> QED
  BY <1>4, <1>6, <1>7

(* Sums of two terms each. *)
LEMMA SumOfSums ==
    ASSUME NEW S, IsFiniteSet(S), NEW f, NEW g, NEW h,
           \A x \in S : f[x] \in Int /\ g[x] \in Int /\ h[x] = f[x] + g[x]
    PROVE  SumFunctionOnSet(h, S) = SumFunctionOnSet(f, S) + SumFunctionOnSet(g, S)
<1> DEFINE Good == {s \in SUBSET S : SumFunctionOnSet(h, s) = SumFunctionOnSet(f, s)
                                                            + SumFunctionOnSet(g, s)}
<1>1. {} \in Good
  BY SumOfNone
<1>2. ASSUME NEW s \in SUBSET S, s # {}, \A x \in s : s \ {x} \in Good
      PROVE  s \in Good
  <2>1. PICK x \in s : TRUE
    BY <1>2
  <2>2. IsFiniteSet(s) /\ \A y \in s : f[y] \in Int /\ g[y] \in Int /\ h[y] \in Int
    BY FS_Subset
  <2>3. /\ SumFunctionOnSet(f, s) = f[x] + SumFunctionOnSet(f, s \ {x})
        /\ SumFunctionOnSet(g, s) = g[x] + SumFunctionOnSet(g, s \ {x})
        /\ SumFunctionOnSet(h, s) = h[x] + SumFunctionOnSet(h, s \ {x})
        /\ SumFunctionOnSet(f, s \ {x}) \in Int /\ SumFunctionOnSet(g, s \ {x}) \in Int
    BY <2>1, <2>2, SumTakenOut
  <2>4. SumFunctionOnSet(h, s \ {x}) = SumFunctionOnSet(f, s \ {x}) + SumFunctionOnSet(g, s \ {x})
    BY <1>2, <2>1
  <2> QED
    BY <2>1, <2>3, <2>4
<1> HIDE DEF Good
<1>3. SUBSET S \subseteq Good
  BY <1>1, <1>2, SubsetInduction
<1> QED
  BY <1>3 DEF Good

(* A sum with one term that counts. *)
LEMMA SumOfOneTerm ==
    ASSUME NEW S, IsFiniteSet(S), NEW x \in S, NEW f, f[x] \in Int,
           \A y \in S : y # x => f[y] = 0
    PROVE  SumFunctionOnSet(f, S) = f[x]
<1>1. \A y \in S : f[y] \in Int
  OBVIOUS
<1>2. SumFunctionOnSet(f, S) = f[x] + SumFunctionOnSet(f, S \ {x})
  BY <1>1, SumTakenOut
<1>3. SumFunctionOnSet(f, S \ {x}) = 0
  BY SumOfZeros, FS_Subset
<1> QED
  BY <1>2, <1>3

(* Sums of the opposite terms. *)
LEMMA SumOfOpposites ==
    ASSUME NEW S, IsFiniteSet(S), NEW f, NEW g, \A x \in S : f[x] \in Int /\ g[x] = -f[x]
    PROVE  SumFunctionOnSet(g, S) = -SumFunctionOnSet(f, S)
<1> DEFINE zero == [x \in S |-> 0]
<1>1. \A x \in S : f[x] \in Int /\ g[x] \in Int /\ zero[x] = f[x] + g[x]
  OBVIOUS
<1>2. SumFunctionOnSet(zero, S) = SumFunctionOnSet(f, S) + SumFunctionOnSet(g, S)
  BY <1>1, SumOfSums
<1>3. SumFunctionOnSet(zero, S) = 0
  BY SumOfZeros
<1>4. SumFunctionOnSet(f, S) \in Int /\ SumFunctionOnSet(g, S) \in Int
  BY <1>1, SumIsInt
<1> HIDE DEF zero
<1> QED
  BY <1>2, <1>3, <1>4

(* Terms none of which is positive. *)
LEMMA SumOfNoneAbove ==
    ASSUME NEW S, IsFiniteSet(S), NEW f, \A x \in S : f[x] \in Int /\ f[x] <= 0
    PROVE  SumFunctionOnSet(f, S) <= 0
<1> DEFINE Good == {s \in SUBSET S : SumFunctionOnSet(f, s) <= 0}
<1>1. {} \in Good
  BY SumOfNone
<1>2. ASSUME NEW s \in SUBSET S, s # {}, \A x \in s : s \ {x} \in Good PROVE s \in Good
  <2>1. PICK x \in s : TRUE
    BY <1>2
  <2>2. /\ SumFunctionOnSet(f, s) = f[x] + SumFunctionOnSet(f, s \ {x})
        /\ SumFunctionOnSet(f, s \ {x}) \in Int
    BY <2>1, SumTakenOut, FS_Subset
  <2>3. SumFunctionOnSet(f, s \ {x}) <= 0 /\ f[x] \in Int /\ f[x] <= 0
    BY <1>2, <2>1
  <2> QED
    BY <2>2, <2>3
<1> HIDE DEF Good
<1>3. SUBSET S \subseteq Good
  BY <1>1, <1>2, SubsetInduction
<1> QED
  BY <1>3 DEF Good

(* If they come to nothing, every one of them is nothing. *)
LEMMA NoneAboveAllZero ==
    ASSUME NEW S, IsFiniteSet(S), NEW f, \A x \in S : f[x] \in Int /\ f[x] <= 0,
           SumFunctionOnSet(f, S) = 0
    PROVE  \A x \in S : f[x] = 0
<1> SUFFICES ASSUME NEW x \in S PROVE f[x] = 0
  OBVIOUS
<1>1. /\ SumFunctionOnSet(f, S) = f[x] + SumFunctionOnSet(f, S \ {x})
      /\ SumFunctionOnSet(f, S \ {x}) \in Int
  BY SumTakenOut
<1>2. SumFunctionOnSet(f, S \ {x}) <= 0
  <2>1. IsFiniteSet(S \ {x}) /\ \A y \in S \ {x} : f[y] \in Int /\ f[y] <= 0
    BY FS_Subset
  <2> QED
    BY <2>1, SumOfNoneAbove
<1>3. f[x] \in Int /\ f[x] <= 0
  OBVIOUS
<1> QED
  BY <1>1, <1>2, <1>3

LEMMA NoneBelowAllZero ==
    ASSUME NEW S, IsFiniteSet(S), NEW f, \A x \in S : f[x] \in Int /\ f[x] >= 0,
           SumFunctionOnSet(f, S) = 0
    PROVE  \A x \in S : f[x] = 0
<1> DEFINE g == [x \in S |-> -f[x]]
<1>1. \A x \in S : f[x] \in Int /\ g[x] = -f[x] /\ g[x] \in Int /\ g[x] <= 0
  OBVIOUS
<1>2. SumFunctionOnSet(g, S) = 0
  BY <1>1, SumOfOpposites
<1>3. \A x \in S : g[x] = 0
  BY <1>1, <1>2, NoneAboveAllZero
<1> QED
  BY <1>1, <1>3

\* The elements of S fall into the classes Q: k gives the class of each, g the sum of each class.
IsClassed(S, f, Q, k, g) ==
    /\ IsFiniteSet(S) /\ \A x \in S : f[x] \in Int /\ k[x] \in Q
    /\ IsFiniteSet(Q) /\ \A q \in Q : g[q] = SumFunctionOnSet(f, {x \in S : k[x] = q})

(* A sum may be taken class by class. *)
LEMMA SumByClass ==
    ASSUME NEW S, NEW f, NEW Q, NEW k, NEW g, IsClassed(S, f, Q, k, g)
    PROVE  SumFunctionOnSet(f, S) = SumFunctionOnSet(g, Q)
<1> USE DEF IsClassed
<1> DEFINE Of(R) == {x \in S : k[x] \in R}
           Good == {R \in SUBSET Q : SumFunctionOnSet(g, R) = SumFunctionOnSet(f, Of(R))}
<1>0. \A q \in Q : g[q] \in Int
  <2> SUFFICES ASSUME NEW q \in Q PROVE g[q] \in Int
    OBVIOUS
  <2> DEFINE one == {x \in S : k[x] = q}
  <2>1. IsFiniteSet(one) /\ (\A x \in one : f[x] \in Int) /\ g[q] = SumFunctionOnSet(f, one)
    BY FS_Subset
  <2> HIDE DEF one
  <2> QED
    BY <2>1, SumIsInt
<1>1. {} \in Good
  <2>1. Of({}) = {}
    OBVIOUS
  <2> QED
    BY <2>1, SumOfNone
<1>2. ASSUME NEW R \in SUBSET Q, R # {}, \A q \in R : R \ {q} \in Good PROVE R \in Good
  <2>1. PICK q \in R : TRUE
    BY <1>2
  <2>2. SumFunctionOnSet(g, R) = g[q] + SumFunctionOnSet(g, R \ {q})
    <3>1. IsFiniteSet(R) /\ \A c \in R : g[c] \in Int
      BY <1>0, FS_Subset
    <3> QED
      BY <2>1, <3>1, SumTakenOut
  <2> DEFINE one == {x \in S : k[x] = q}
             rest == Of(R \ {q})
  <2>3. Of(R) = one \cup rest /\ one \cap rest = {}
    BY <2>1
  <2>4. SumFunctionOnSet(f, one \cup rest) = SumFunctionOnSet(f, one) + SumFunctionOnSet(f, rest)
    <3>1. IsFiniteSet(one) /\ IsFiniteSet(rest) /\ \A x \in one \cup rest : f[x] \in Int
      BY FS_Subset
    <3> HIDE DEF one, rest
    <3> QED
      BY <2>3, <3>1, SumJoined
  <2>5. SumFunctionOnSet(g, R \ {q}) = SumFunctionOnSet(f, rest)
    BY <1>2, <2>1
  <2>6. g[q] = SumFunctionOnSet(f, one)
    BY <2>1
  <2> QED
    BY <2>2, <2>3, <2>4, <2>5, <2>6
<1> HIDE DEF Good
<1>3. SUBSET Q \subseteq Good
  BY <1>1, <1>2, SubsetInduction
<1>4. SumFunctionOnSet(g, Q) = SumFunctionOnSet(f, Of(Q))
  BY <1>3 DEF Good
<1>5. Of(Q) = S
  OBVIOUS
<1> QED
  BY <1>4, <1>5

\* A table with rows f[i] and columns c[p], where g[p] is what column p comes to.
IsTable(S, P, f, c, g) ==
    /\ IsFiniteSet(S) /\ IsFiniteSet(P)
    /\ \A i \in S, p \in P : f[i][p] \in Int /\ c[p][i] = f[i][p]
    /\ \A p \in P : g[p] = SumFunctionOnSet(c[p], S)

(* If every row adds up to nothing, so do the sums of the columns. *)
LEMMA SumsCancel ==
    ASSUME NEW S, NEW P, NEW f, NEW column, NEW g, IsTable(S, P, f, column, g),
           \A i \in S : SumFunctionOnSet(f[i], P) = 0
    PROVE  SumFunctionOnSet(g, P) = 0
<1> DEFINE upto(s) == [p \in P |-> SumFunctionOnSet(column[p], s)]
           Good == {s \in SUBSET S : SumFunctionOnSet(upto(s), P) = 0}
<1>0. /\ IsFiniteSet(S) /\ IsFiniteSet(P)
      /\ \A i \in S, p \in P : f[i][p] \in Int /\ column[p][i] = f[i][p]
      /\ \A p \in P : g[p] = SumFunctionOnSet(column[p], S)
  BY DEF IsTable
<1>1. {} \in Good
  <2>1. \A p \in P : upto({})[p] = 0
    BY SumOfNone
  <2> HIDE DEF upto
  <2> QED
    BY <1>0, <2>1, SumOfZeros
<1>2. ASSUME NEW s \in SUBSET S, s # {}, \A i \in s : s \ {i} \in Good PROVE s \in Good
  <2>1. PICK i \in s : TRUE
    BY <1>2
  <2>2. \A p \in P : /\ f[i][p] \in Int /\ upto(s \ {i})[p] \in Int
                    /\ upto(s)[p] = f[i][p] + upto(s \ {i})[p]
    <3> SUFFICES ASSUME NEW p \in P
                 PROVE  /\ f[i][p] \in Int
                        /\ SumFunctionOnSet(column[p], s \ {i}) \in Int
                        /\ SumFunctionOnSet(column[p], s)
                           = f[i][p] + SumFunctionOnSet(column[p], s \ {i})
      OBVIOUS
    <3> DEFINE c == column[p]
    <3>1. /\ IsFiniteSet(s) /\ i \in s /\ \A j \in s : c[j] \in Int
          /\ c[i] = f[i][p] /\ f[i][p] \in Int
      BY <1>0, <2>1, FS_Subset
    <3> HIDE DEF c
    <3>2. /\ SumFunctionOnSet(c, s) = c[i] + SumFunctionOnSet(c, s \ {i})
          /\ SumFunctionOnSet(c, s \ {i}) \in Int
      BY <3>1, SumTakenOut
    <3> QED
      BY <3>1, <3>2 DEF c
  <2> DEFINE row == f[i]
             before == upto(s \ {i})
             after == upto(s)
  <2>3. \A p \in P : row[p] \in Int /\ before[p] \in Int /\ after[p] = row[p] + before[p]
    BY <2>2
  <2>4. SumFunctionOnSet(before, P) = 0 /\ SumFunctionOnSet(row, P) = 0
    BY <1>2, <2>1
  <2> HIDE DEF row, before, after
  <2>5. SumFunctionOnSet(after, P) = SumFunctionOnSet(row, P) + SumFunctionOnSet(before, P)
    BY <1>0, <2>3, SumOfSums
  <2> QED
    BY <2>4, <2>5 DEF after
<1> HIDE DEF Good
<1>3. SUBSET S \subseteq Good
  BY <1>0, <1>1, <1>2, SubsetInduction
<1>4. SumFunctionOnSet(upto(S), P) = 0
  BY <1>3 DEF Good
<1>5. \A p \in P : upto(S)[p] = g[p] /\ upto(S)[p] \in Int
  <2> SUFFICES ASSUME NEW p \in P
               PROVE  SumFunctionOnSet(column[p], S) \in Int
    BY <1>0
  <2>1. IsFiniteSet(S) /\ \A i \in S : column[p][i] \in Int
    BY <1>0
  <2> QED
    BY <2>1, SumIsInt
<1> HIDE DEF upto
<1> QED
  BY <1>0, <1>4, <1>5, SumOfSame
=============================================================================
