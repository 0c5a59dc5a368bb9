-------------------------- MODULE OrderBook_proofs --------------------------
(***************************************************************************)
(* For any prices and quantities, the vectors of the order book stay       *)
(* sorted from best to worst without repeating a price, and show exactly   *)
(* what was last quoted.  The argument: each vector operation takes a      *)
(* Ladder to a Ladder and changes the quantity of one price; for std::sort *)
(* this needs that Rank numbers levels of distinct prices 1, 2, ... along  *)
(* Better.                                                                 *)
(***************************************************************************)
EXTENDS OrderBook, TLAPS, FiniteSetTheorems

Distinct(levels) ==
  \A i, j \in DOMAIN levels : i # j => levels[i].price # levels[j].price

Ladder(s, levels) ==
  /\ levels \in Seq(Level)
  /\ \A i, j \in DOMAIN levels : i < j => Better(s, levels[i].price, levels[j].price)

(* Better is a strict total order on prices.                               *)
LEMMA BetterIsOrder ==
  ASSUME NEW s \in Sides
  PROVE  /\ \A p \in Prices : ~Better(s, p, p)
         /\ \A p, r \in Prices : p # r => Better(s, p, r) \/ Better(s, r, p)
         /\ \A p, q, r \in Prices : Better(s, p, q) /\ Better(s, q, r) => Better(s, p, r)
<1>1. \A p \in Prices : p \in Nat
  BY QuotesAssumption
<1> QED
  BY <1>1 DEF Better

LEMMA LevelFields ==
  ASSUME NEW levels \in Seq(Level), NEW i \in DOMAIN levels
  PROVE  /\ levels[i] \in Level /\ i \in 1..Len(levels)
         /\ levels[i].price \in Prices /\ levels[i].quantity \in Quantities
         /\ levels[i] = [price |-> levels[i].price, quantity |-> levels[i].quantity]
<1>1. levels[i] \in Level /\ i \in 1..Len(levels)
  OBVIOUS
<1> QED
  BY <1>1 DEF Level

LEMMA LadderIsDistinct ==
  ASSUME NEW s \in Sides, NEW levels, Ladder(s, levels)
  PROVE  Distinct(levels)
<1>1. levels \in Seq(Level)
  BY DEF Ladder
<1>2. SUFFICES ASSUME NEW i \in DOMAIN levels, NEW j \in DOMAIN levels, i # j
               PROVE  levels[i].price # levels[j].price
  BY DEF Distinct
<1>3. i < j \/ j < i
  BY <1>1, <1>2
<1> QED
  BY <1>1, <1>3, LevelFields, BetterIsOrder DEF Ladder

-----------------------------------------------------------------------------
(* std::sort                                                               *)

Ahead(s, levels, i) ==
  {j \in DOMAIN levels : Better(s, levels[j].price, levels[i].price)}

LEMMA RankGrows ==
  ASSUME NEW s \in Sides, NEW levels \in Seq(Level),
         NEW i \in DOMAIN levels, NEW j \in DOMAIN levels,
         Better(s, levels[i].price, levels[j].price)
  PROVE  Rank(s, levels, i) < Rank(s, levels, j)
<1>1. \A k \in DOMAIN levels : levels[k].price \in Prices
  BY LevelFields
<1>2. /\ Ahead(s, levels, i) \subseteq Ahead(s, levels, j)
      /\ i \in Ahead(s, levels, j) /\ i \notin Ahead(s, levels, i)
  BY <1>1, BetterIsOrder DEF Ahead
<1>3. IsFiniteSet(DOMAIN levels)
  BY FS_Interval
<1>4. IsFiniteSet(Ahead(s, levels, j))
  BY <1>3, FS_Subset DEF Ahead
<1>5. /\ IsFiniteSet(Ahead(s, levels, i))
      /\ Cardinality(Ahead(s, levels, i)) <= Cardinality(Ahead(s, levels, j))
      /\ Cardinality(Ahead(s, levels, i)) # Cardinality(Ahead(s, levels, j))
  BY <1>2, <1>4, FS_Subset
<1>6. Cardinality(Ahead(s, levels, i)) \in Nat /\ Cardinality(Ahead(s, levels, j)) \in Nat
  BY <1>4, <1>5, FS_CardinalityType
<1> QED
  BY <1>5, <1>6 DEF Rank, Ahead

LEMMA RankBounded ==
  ASSUME NEW s \in Sides, NEW levels \in Seq(Level), NEW i \in DOMAIN levels
  PROVE  Rank(s, levels, i) \in 1..Len(levels)
<1>1. Ahead(s, levels, i) \subseteq DOMAIN levels /\ i \notin Ahead(s, levels, i)
  BY LevelFields, BetterIsOrder DEF Ahead
<1>2. IsFiniteSet(DOMAIN levels) /\ Cardinality(DOMAIN levels) = Len(levels)
  BY FS_Interval
<1>3. /\ IsFiniteSet(Ahead(s, levels, i))
      /\ Cardinality(Ahead(s, levels, i)) <= Len(levels)
      /\ Cardinality(Ahead(s, levels, i)) # Len(levels)
  BY <1>1, <1>2, FS_Subset
<1>4. Cardinality(Ahead(s, levels, i)) \in Nat
  BY <1>3, FS_CardinalityType
<1> QED
  BY <1>3, <1>4 DEF Rank, Ahead

(* Levels of distinct prices have distinct ranks, which are all of         *)
(* 1..Len(levels).                                                         *)
LEMMA RankOnto ==
  ASSUME NEW s \in Sides, NEW levels \in Seq(Level), Distinct(levels)
  PROVE  /\ \A i, j \in DOMAIN levels : Rank(s, levels, i) = Rank(s, levels, j) => i = j
         /\ \A n \in 1..Len(levels) : \E i \in DOMAIN levels : Rank(s, levels, i) = n
<1> DEFINE K == DOMAIN levels
           rank == [i \in K |-> Rank(s, levels, i)]
<1>1. rank \in [K -> 1..Len(levels)]
  BY RankBounded
<1>2. ASSUME NEW i \in K, NEW j \in K, i # j
      PROVE  rank[i] # rank[j]
  <2>1. rank[i] \in Int /\ rank[j] \in Int
    BY <1>1
  <2>2. \/ Better(s, levels[i].price, levels[j].price)
        \/ Better(s, levels[j].price, levels[i].price)
    BY <1>2, LevelFields, BetterIsOrder DEF Distinct
  <2>3. rank[i] < rank[j] \/ rank[j] < rank[i]
    BY <2>2, RankGrows
  <2> QED
    BY <2>1, <2>3
<1>3. rank \in Injection(K, 1..Len(levels))
  BY <1>1, <1>2 DEF Injection, IsInjective
<1>4. K = 1..Len(levels) /\ IsFiniteSet(K) /\ Cardinality(K) = Len(levels)
  <2>1. DOMAIN levels = 1..Len(levels) /\ Len(levels) \in Nat
    OBVIOUS
  <2>2. IsFiniteSet(1..Len(levels)) /\ Cardinality(1..Len(levels)) = Len(levels)
    <3> DEFINE m == Len(levels)
    <3>1. m \in Nat
      OBVIOUS
    <3> HIDE DEF m
    <3>2. IsFiniteSet(1..m) /\ Cardinality(1..m) = IF 1 > m THEN 0 ELSE m - 1 + 1
      BY <3>1, FS_Interval
    <3>3. Cardinality(1..m) = m
      BY <3>1, <3>2
    <3> QED
      BY <3>2, <3>3 DEF m
  <2> QED
    BY <2>1, <2>2
<1>5. rank \in Surjection(K, 1..Len(levels))
  <2> HIDE DEF rank, K
  <2> QED BY <1>3, <1>4, FS_Injection
<1> QED
  BY <1>2, <1>5 DEF Surjection

(* std::sort, by the comparison of a side, of levels of distinct prices:   *)
(* a ladder of the same levels.                                            *)
THEOREM SortCorrect ==
  ASSUME NEW s \in Sides, NEW levels \in Seq(Level), Distinct(levels)
  PROVE  /\ Ladder(s, Sort(s, levels))
         /\ Len(Sort(s, levels)) = Len(levels)
         /\ \A n \in DOMAIN Sort(s, levels) :
              \E i \in DOMAIN levels : Sort(s, levels)[n] = levels[i]
         /\ \A i \in DOMAIN levels :
              \E n \in DOMAIN Sort(s, levels) : Sort(s, levels)[n] = levels[i]
<1> DEFINE at(n) == CHOOSE i \in DOMAIN levels : Rank(s, levels, i) = n
           S == Sort(s, levels)
<1>1. DOMAIN levels = 1..Len(levels) /\ Len(levels) \in Nat
  OBVIOUS
<1>2. \A n \in 1..Len(levels) : at(n) \in DOMAIN levels /\ Rank(s, levels, at(n)) = n
  BY RankOnto
<1>3. S = [n \in 1..Len(levels) |-> levels[at(n)]]
  BY <1>1 DEF Sort
<1> HIDE DEF at, S
<1>4. \A n \in 1..Len(levels) : S[n] = levels[at(n)] /\ S[n] \in Level
  BY <1>2, <1>3
<1>5. S \in Seq(Level) /\ Len(S) = Len(levels) /\ DOMAIN S = 1..Len(levels)
  <2>1. S \in [1..Len(levels) -> Level]
    BY <1>3, <1>4
  <2> QED
    BY <1>1, <2>1
<1>6. ASSUME NEW m \in DOMAIN S, NEW n \in DOMAIN S, m < n
      PROVE  Better(s, S[m].price, S[n].price)
  <2>1. at(m) \in DOMAIN levels /\ at(n) \in DOMAIN levels /\ at(m) # at(n)
    BY <1>2, <1>5, <1>6
  <2>2. \/ Better(s, levels[at(m)].price, levels[at(n)].price)
        \/ Better(s, levels[at(n)].price, levels[at(m)].price)
    BY <2>1, LevelFields, BetterIsOrder DEF Distinct
  <2>3. ~Better(s, levels[at(n)].price, levels[at(m)].price)
    <3>1. SUFFICES ASSUME Better(s, levels[at(n)].price, levels[at(m)].price) PROVE FALSE
      OBVIOUS
    <3>2. Rank(s, levels, at(n)) < Rank(s, levels, at(m))
      BY <2>1, <3>1, RankGrows
    <3> QED
      BY <1>2, <1>5, <1>6, <3>2
  <2> QED
    BY <1>4, <1>5, <2>2, <2>3
<1>7. Ladder(s, S)
  BY <1>5, <1>6 DEF Ladder
<1>8. ASSUME NEW i \in DOMAIN levels
      PROVE  \E n \in DOMAIN S : S[n] = levels[i]
  <2>1. Rank(s, levels, i) \in 1..Len(levels)
    BY RankBounded
  <2>2. at(Rank(s, levels, i)) = i
    BY <1>2, <2>1, RankOnto
  <2> QED
    BY <1>4, <1>5, <2>1, <2>2
<1> QED
  BY <1>2, <1>4, <1>5, <1>7, <1>8 DEF S
-----------------------------------------------------------------------------
(* The operations on a ladder                                              *)

(* What a reader of a ladder sees at a price                               *)
LEMMA QuantityFound ==
  ASSUME NEW s \in Sides, NEW levels, Ladder(s, levels), NEW p \in Prices
  PROVE  /\ \A i \in DOMAIN levels :
              levels[i].price = p =>
                /\ FindLevel(levels, p) = i
                /\ QuantityAt(levels, p) = levels[i].quantity
         /\ ~HasLevel(levels, p) => QuantityAt(levels, p) = 0
         /\ HasLevel(levels, p) =>
              FindLevel(levels, p) \in DOMAIN levels
                /\ levels[FindLevel(levels, p)].price = p
<1>1. ~HasLevel(levels, p) => QuantityAt(levels, p) = 0
  BY DEF QuantityAt
<1>2. ASSUME NEW i \in DOMAIN levels, levels[i].price = p
      PROVE  FindLevel(levels, p) = i /\ QuantityAt(levels, p) = levels[i].quantity
  <2>1. \A j \in DOMAIN levels : levels[j].price = p => j = i
    BY <1>2, LadderIsDistinct DEF Distinct
  <2>2. levels[i].price = p /\ \A j \in DOMAIN levels : j < i => levels[j].price # p
    <3>1. \A j \in DOMAIN levels : j \in Nat
      BY DEF Ladder
    <3> QED
      BY <1>2, <2>1, <3>1
  <2>3. FindLevel(levels, p) = i
    BY <2>1, <2>2 DEF FindLevel
  <2> QED
    BY <1>2, <2>3 DEF QuantityAt, HasLevel
<1> QED
  BY <1>1, <1>2 DEF HasLevel

(* Two ladders of one side that hold the same levels at a price show the   *)
(* same quantity there.                                                    *)
LEMMA QuantityKept ==
  ASSUME NEW s \in Sides, NEW old, NEW new, Ladder(s, old), Ladder(s, new),
         NEW p \in Prices,
         \A i \in DOMAIN old : old[i].price = p => \E n \in DOMAIN new : new[n] = old[i],
         \A n \in DOMAIN new : new[n].price = p => \E i \in DOMAIN old : old[i] = new[n]
  PROVE  QuantityAt(new, p) = QuantityAt(old, p)
<1>1. CASE HasLevel(old, p)
  <2>1. PICK i \in DOMAIN old : old[i].price = p
    BY <1>1 DEF HasLevel
  <2>2. PICK n \in DOMAIN new : new[n] = old[i]
    BY <2>1
  <2> QED
    BY <2>1, <2>2, QuantityFound
<1>2. CASE ~HasLevel(old, p)
  <2>1. ~HasLevel(new, p)
    BY <1>2 DEF HasLevel
  <2> QED
    BY <1>2, <2>1, QuantityFound
<1> QED
  BY <1>1, <1>2

(* Erasing the level of a price: nothing is quoted there any more, and the *)
(* other prices keep their quantities.                                     *)
LEMMA WithoutCorrect ==
  ASSUME NEW s \in Sides, NEW levels, Ladder(s, levels), NEW p \in Prices
  PROVE  /\ Ladder(s, Without(levels, p))
         /\ QuantityAt(Without(levels, p), p) = 0
         /\ \A r \in Prices :
              r # p => QuantityAt(Without(levels, p), r) = QuantityAt(levels, r)
<1>1. CASE ~HasLevel(levels, p)
  BY <1>1, QuantityFound DEF Without
<1>2. CASE HasLevel(levels, p)
  <2> DEFINE f == FindLevel(levels, p)
             E == Without(levels, p)
             from(k) == IF k < f THEN k ELSE k + 1
  <2>1. /\ levels \in Seq(Level) /\ Len(levels) \in Nat
        /\ DOMAIN levels = 1..Len(levels)
    BY DEF Ladder
  <2>2. f \in 1..Len(levels) /\ levels[f].price = p
    BY <1>2, <2>1, QuantityFound
  <2>3. E = [k \in 1..(Len(levels) - 1) |-> IF k < f THEN levels[k] ELSE levels[k + 1]]
    BY <1>2 DEF Without, Erase
  <2> HIDE DEF f, E
  <2>4. \A k \in 1..(Len(levels) - 1) :
          from(k) \in 1..Len(levels) /\ from(k) # f /\ E[k] = levels[from(k)]
    BY <2>1, <2>2, <2>3
  <2>5. E \in Seq(Level) /\ DOMAIN E = 1..(Len(levels) - 1)
    <3>1. \A k \in 1..(Len(levels) - 1) : E[k] \in Level
      BY <2>1, <2>4
    <3>2. E \in [1..(Len(levels) - 1) -> Level]
      BY <2>3, <3>1
    <3> QED
      BY <2>1, <2>2, <3>2
  <2>6. Ladder(s, E)
    <3>1. \A m, n \in 1..(Len(levels) - 1) : m < n => from(m) < from(n)
      BY <2>1, <2>2
    <3>2. ASSUME NEW m \in DOMAIN E, NEW n \in DOMAIN E, m < n
          PROVE  Better(s, E[m].price, E[n].price)
      <4>1. /\ from(m) \in 1..Len(levels) /\ E[m] = levels[from(m)]
            /\ from(n) \in 1..Len(levels) /\ E[n] = levels[from(n)]
            /\ from(m) < from(n)
        BY <2>4, <2>5, <3>1, <3>2
      <4> HIDE DEF from
      <4> QED
        BY <2>1, <4>1 DEF Ladder
    <3> QED
      BY <2>5, <3>2 DEF Ladder
  <2>7. ~HasLevel(E, p)
    <3>1. \A i \in DOMAIN levels : i # f => levels[i].price # p
      BY <2>1, <2>2, LadderIsDistinct DEF Distinct
    <3> QED
      BY <2>1, <2>4, <2>5, <3>1 DEF HasLevel
  <2>8. ASSUME NEW r \in Prices, r # p
        PROVE  QuantityAt(E, r) = QuantityAt(levels, r)
    <3>1. \A n \in DOMAIN E : \E i \in DOMAIN levels : levels[i] = E[n]
      BY <2>1, <2>4, <2>5
    <3>2. ASSUME NEW i \in DOMAIN levels, levels[i].price = r
          PROVE  \E n \in DOMAIN E : E[n] = levels[i]
      <4>1. i \in 1..Len(levels) /\ i # f
        BY <2>1, <2>2, <2>8, <3>2
      <4>2. CASE i < f
        <5>1. i \in DOMAIN E /\ E[i] = levels[i]
          BY <2>1, <2>2, <2>3, <2>5, <4>1, <4>2
        <5> QED
          BY <5>1
      <4>3. CASE i > f
        <5>1. i - 1 \in DOMAIN E /\ E[i - 1] = levels[i]
          BY <2>1, <2>2, <2>3, <2>5, <4>1, <4>3
        <5> QED
          BY <5>1
      <4> QED
        BY <2>2, <4>1, <4>2, <4>3
    <3> QED
      BY <2>6, <3>1, <3>2, QuantityKept
  <2> QED
    BY <2>6, <2>7, <2>8, QuantityFound DEF E
<1> QED
  BY <1>1, <1>2

(* Overwriting the level of a price changes the quantity there alone.      *)
LEMMA SetQuantityCorrect ==
  ASSUME NEW s \in Sides, NEW levels, Ladder(s, levels),
         NEW p \in Prices, NEW q \in Quantities, HasLevel(levels, p)
  PROVE  /\ Ladder(s, SetQuantity(levels, p, q))
         /\ QuantityAt(SetQuantity(levels, p, q), p) = q
         /\ \A r \in Prices :
              r # p => QuantityAt(SetQuantity(levels, p, q), r) = QuantityAt(levels, r)
<1> DEFINE f == FindLevel(levels, p)
           E == SetQuantity(levels, p, q)
<1>1. /\ levels \in Seq(Level) /\ Len(levels) \in Nat
      /\ DOMAIN levels = 1..Len(levels)
  BY DEF Ladder
<1>2. f \in 1..Len(levels) /\ levels[f].price = p
  BY <1>1, QuantityFound
<1>3. E = [levels EXCEPT ![f] = [price |-> p, quantity |-> q]]
  BY DEF SetQuantity
<1>4. [price |-> p, quantity |-> q] \in Level
  BY DEF Level
<1> HIDE DEF f, E
<1>5. E \in Seq(Level) /\ DOMAIN E = 1..Len(levels)
  BY <1>1, <1>2, <1>3, <1>4
<1>6. \A n \in 1..Len(levels) :
        E[n].price = levels[n].price /\ (n # f => E[n] = levels[n])
  BY <1>1, <1>2, <1>3
<1>7. Ladder(s, E)
  BY <1>1, <1>5, <1>6 DEF Ladder
<1>8. QuantityAt(E, p) = q
  <2>1. E[f].price = p /\ E[f].quantity = q
    BY <1>1, <1>2, <1>3
  <2> QED
    BY <1>2, <1>5, <1>7, <2>1, QuantityFound
<1>9. ASSUME NEW r \in Prices, r # p
      PROVE  QuantityAt(E, r) = QuantityAt(levels, r)
  <2>1. \A n \in 1..Len(levels) : E[n].price = r \/ levels[n].price = r => E[n] = levels[n]
    BY <1>2, <1>6, <1>9
  <2>2. \A n \in DOMAIN E : E[n].price = r => \E i \in DOMAIN levels : levels[i] = E[n]
    BY <1>1, <1>5, <2>1
  <2>3. \A i \in DOMAIN levels : levels[i].price = r => \E n \in DOMAIN E : E[n] = levels[i]
    BY <1>1, <1>5, <2>1
  <2> QED
    BY <1>7, <2>2, <2>3, QuantityKept
<1> QED
  BY <1>7, <1>8, <1>9 DEF E

(* push_back of a new price and std::sort: the quantity changes there      *)
(* alone.                                                                  *)
LEMMA InsertCorrect ==
  ASSUME NEW s \in Sides, NEW levels, Ladder(s, levels),
         NEW p \in Prices, NEW q \in Quantities, ~HasLevel(levels, p)
  PROVE  /\ Ladder(s, Insert(s, levels, p, q))
         /\ QuantityAt(Insert(s, levels, p, q), p) = q
         /\ \A r \in Prices :
              r # p => QuantityAt(Insert(s, levels, p, q), r) = QuantityAt(levels, r)
<1> DEFINE added == [price |-> p, quantity |-> q]
           A == Append(levels, added)
           E == Insert(s, levels, p, q)
<1>1. /\ levels \in Seq(Level) /\ Len(levels) \in Nat
      /\ DOMAIN levels = 1..Len(levels)
  BY DEF Ladder
<1>2. added \in Level /\ added.price = p /\ added.quantity = q
  BY DEF Level
<1>3. E = Sort(s, A)
  BY DEF Insert
<1> HIDE DEF added, E
<1>4. /\ A \in Seq(Level) /\ DOMAIN A = 1..(Len(levels) + 1)
      /\ A[Len(levels) + 1] = added
      /\ \A n \in 1..Len(levels) : A[n] = levels[n]
  BY <1>1, <1>2
<1> HIDE DEF A
<1>5. Distinct(A)
  <2>1. SUFFICES ASSUME NEW i \in DOMAIN A, NEW j \in DOMAIN A, i < j
                 PROVE  A[i].price # A[j].price
    BY <1>1, <1>4 DEF Distinct
  <2>2. i \in 1..Len(levels) /\ A[i] = levels[i] /\ (j \in 1..Len(levels) \/ j = Len(levels) + 1)
    BY <1>1, <1>4, <2>1
  <2>3. CASE j \in 1..Len(levels)
    BY <1>1, <1>4, <2>1, <2>2, <2>3, LadderIsDistinct DEF Distinct
  <2>4. CASE j = Len(levels) + 1
    BY <1>1, <1>2, <1>4, <2>2, <2>4 DEF HasLevel
  <2> QED
    BY <2>2, <2>3, <2>4
<1>6. /\ Ladder(s, E)
      /\ \A n \in DOMAIN E : \E i \in DOMAIN A : E[n] = A[i]
      /\ \A i \in DOMAIN A : \E n \in DOMAIN E : E[n] = A[i]
  BY <1>3, <1>4, <1>5, SortCorrect
<1>7. QuantityAt(E, p) = q
  <2>1. PICK n \in DOMAIN E : E[n] = added
    BY <1>1, <1>4, <1>6
  <2> QED
    BY <1>2, <1>6, <2>1, QuantityFound
<1>8. ASSUME NEW r \in Prices, r # p
      PROVE  QuantityAt(E, r) = QuantityAt(levels, r)
  <2>1. \A i \in DOMAIN A : A[i].price = r => i \in DOMAIN levels /\ A[i] = levels[i]
    BY <1>1, <1>2, <1>4, <1>8
  <2>2. \A n \in DOMAIN E : E[n].price = r => \E i \in DOMAIN levels : levels[i] = E[n]
    BY <1>6, <2>1
  <2>3. \A i \in DOMAIN levels : levels[i].price = r => \E n \in DOMAIN E : E[n] = levels[i]
    BY <1>1, <1>4, <1>6
  <2> QED
    BY <1>6, <2>2, <2>3, QuantityKept
<1> QED
  BY <1>6, <1>7, <1>8 DEF E

-----------------------------------------------------------------------------
(* The invariant and the refinement                                        *)

LevelsAfter(s, levels, p, q) ==
  IF q = 0 THEN Without(levels, p) ELSE With(s, levels, p, q)

LEMMA UpdateCorrect ==
  ASSUME NEW s \in Sides, NEW levels, Ladder(s, levels),
         NEW p \in Prices, NEW q \in Quantities \cup {0}
  PROVE  /\ Ladder(s, LevelsAfter(s, levels, p, q))
         /\ QuantityAt(LevelsAfter(s, levels, p, q), p) = q
         /\ \A r \in Prices :
              r # p => QuantityAt(LevelsAfter(s, levels, p, q), r) = QuantityAt(levels, r)
<1>1. CASE q = 0
  BY <1>1, WithoutCorrect DEF LevelsAfter
<1>2. CASE q # 0 /\ HasLevel(levels, p)
  BY <1>2, SetQuantityCorrect DEF LevelsAfter, With
<1>3. CASE q # 0 /\ ~HasLevel(levels, p)
  BY <1>3, InsertCorrect DEF LevelsAfter, With
<1> QED
  BY <1>1, <1>2, <1>3

LEMMA EmptyLadder ==
  ASSUME NEW s \in Sides
  PROVE  Ladder(s, <<>>) /\ \A p \in Prices : QuantityAt(<<>>, p) = 0
BY DEF Ladder, QuantityAt, HasLevel

(* Both sides are ladders.                                                 *)
Ladders == BookTypeOK /\ BestFirst

LEMMA LaddersBySide ==
  Ladders <=> book \in [Sides -> Seq(Level)] /\ \A s \in Sides : Ladder(s, book[s])
BY DEF Ladders, BookTypeOK, BestFirst, Ladder

LEMMA LaddersBySideNext ==
  Ladders' <=> book' \in [Sides -> Seq(Level)] /\ \A s \in Sides : Ladder(s, book'[s])
BY DEF Ladders, BookTypeOK, BestFirst, Ladder

(* A step that gives side s the levels of a call that quotes q at p.       *)
LEMMA QuoteStep ==
  ASSUME Ladders, NEW s \in Sides, NEW p \in Prices, NEW q \in Quantities \cup {0},
         book' = [book EXCEPT ![s] = LevelsAfter(s, book[s], p, q)]
  PROVE  Ladders' /\ Promise!Quote(s, p, q)
<1>1. book \in [Sides -> Seq(Level)] /\ \A t \in Sides : Ladder(t, book[t])
  BY LaddersBySide
<1>2. \A t \in Sides : book'[t] = IF t = s THEN LevelsAfter(s, book[s], p, q) ELSE book[t]
  BY <1>1
<1>3. \A t \in Sides : Ladder(t, book'[t])
  BY <1>1, <1>2, UpdateCorrect
<1>4. book' \in [Sides -> Seq(Level)]
  <2>1. book' = [t \in Sides |-> book'[t]]
    BY <1>1
  <2> QED
    BY <1>3, <2>1 DEF Ladder
<1>5. \A t \in Sides, r \in Prices :
        QuantityAt(book'[t], r) = IF t = s /\ r = p THEN q ELSE QuantityAt(book[t], r)
  BY <1>1, <1>2, UpdateCorrect
<1>6. Promise!Quote(s, p, q)
  BY <1>5 DEF Promise!Quote, Promise!Sides, Sides
<1> QED
  BY <1>3, <1>4, <1>6, LaddersBySideNext

LEMMA ClearStep ==
  ASSUME Clear
  PROVE  Ladders' /\ Promise!Clear
<1>1. book' \in [Sides -> Seq(Level)] /\ \A s \in Sides : book'[s] = <<>>
  BY DEF Clear
<1> QED
  BY <1>1, EmptyLadder, LaddersBySideNext DEF Promise!Clear, Promise!Empty, Promise!Sides, Sides

LEMMA LaddersInit ==
  ASSUME BookInit
  PROVE  Ladders /\ Promise!Init
<1>1. book \in [Sides -> Seq(Level)] /\ \A s \in Sides : book[s] = <<>>
  BY DEF BookInit
<1> QED
  BY <1>1, EmptyLadder, LaddersBySide
     DEF Promise!Init, Promise!Empty, Promise!Sides, Sides

LEMMA LaddersNext ==
  ASSUME Ladders, [BookNext]_book
  PROVE  /\ Ladders'
         /\ [Promise!Next]_([s \in Sides |-> [p \in Prices |-> QuantityAt(book[s], p)]])
<1>1. CASE \E s \in Sides, p \in Prices, q \in Quantities \cup {0} : Update(s, p, q)
  <2>1. PICK s \in Sides, p \in Prices, q \in Quantities \cup {0} : Update(s, p, q)
    BY <1>1
  <2>2. book' = [book EXCEPT ![s] = LevelsAfter(s, book[s], p, q)]
    BY <2>1 DEF Update, LevelsAfter
  <2>3. Ladders' /\ Promise!Quote(s, p, q)
    BY <2>2, QuoteStep
  <2> QED
    BY <2>3 DEF Promise!Next, Promise!Sides, Sides
<1>2. CASE \E s \in Sides, p \in Prices : Remove(s, p)
  <2>1. PICK s \in Sides, p \in Prices : Remove(s, p)
    BY <1>2
  <2>2. book' = [book EXCEPT ![s] = LevelsAfter(s, book[s], p, 0)]
    BY <2>1 DEF Remove, LevelsAfter
  <2>3. Ladders' /\ Promise!Quote(s, p, 0)
    BY <2>2, QuoteStep
  <2> QED
    BY <2>3 DEF Promise!Next, Promise!Sides, Sides
<1>3. CASE Clear
  BY <1>3, ClearStep DEF Promise!Next
<1>4. CASE UNCHANGED book
  BY <1>4, LaddersBySide, LaddersBySideNext
<1> QED
  BY <1>1, <1>2, <1>3, <1>4 DEF BookNext

THEOREM BookInvariant == BookSpec => []Ladders
<1>1. BookInit => Ladders
  BY LaddersInit
<1>2. Ladders /\ [BookNext]_book => Ladders'
  BY LaddersNext
<1> QED
  BY <1>1, <1>2, PTL DEF BookSpec

(* bids_ and asks_ hold levels of quotable prices and quantities only:     *)
(* sorting, overwriting and erasing never leave anything else.             *)
THEOREM BookTypeCorrect == BookSpec => []BookTypeOK
<1>1. Ladders => BookTypeOK
  BY DEF Ladders
<1> QED
  BY <1>1, BookInvariant, PTL

(* Whatever sequence of updateBid, updateAsk, removals and clears built    *)
(* it, each side of the book is sorted from its best price and repeats     *)
(* none.                                                                   *)
THEOREM BookSorted == BookSpec => []BestFirst
<1>1. Ladders => BestFirst
  BY DEF Ladders
<1> QED
  BY <1>1, BookInvariant, PTL

(* The sorted vectors implement the abstract book: every call is one of    *)
(* its steps, or none.                                                     *)
THEOREM BookImplementsPriceLevels == BookSpec => QuotesKept
<1>1. BookInit => Promise!Init
  BY LaddersInit
<1>2. Ladders /\ [BookNext]_book
        => [Promise!Next]_([s \in Sides |-> [p \in Prices |-> QuantityAt(book[s], p)]])
  BY LaddersNext
<1> QED
  BY <1>1, <1>2, BookInvariant, PTL DEF BookSpec, QuotesKept, Promise!Spec

(* Each call quotes what it was given where it was told to, and disturbs   *)
(* no other price.                                                         *)
THEOREM CallsQuote == BookSpec => EachCallQuotes
<1> DEFINE Quotes ==
      /\ \A s \in Sides, p \in Prices, q \in Quantities \cup {0} :
           Update(s, p, q) => Promise!Quote(s, p, q)
      /\ \A s \in Sides, p \in Prices : Remove(s, p) => Promise!Quote(s, p, 0)
      /\ Clear => Promise!Clear
<1>1. Ladders => Quotes
  <2>1. ASSUME Ladders, NEW s \in Sides, NEW p \in Prices, NEW q \in Quantities \cup {0},
               Update(s, p, q)
        PROVE  Promise!Quote(s, p, q)
    <3>1. book' = [book EXCEPT ![s] = LevelsAfter(s, book[s], p, q)]
      BY <2>1 DEF Update, LevelsAfter
    <3> QED
      BY <2>1, <3>1, QuoteStep
  <2>2. ASSUME Ladders, NEW s \in Sides, NEW p \in Prices, Remove(s, p)
        PROVE  Promise!Quote(s, p, 0)
    <3>1. book' = [book EXCEPT ![s] = LevelsAfter(s, book[s], p, 0)]
      BY <2>2 DEF Remove, LevelsAfter
    <3> QED
      BY <2>2, <3>1, QuoteStep
  <2>3. Ladders /\ Clear => Promise!Clear
    BY ClearStep
  <2> QED
    BY <2>1, <2>2, <2>3
<1>2. Ladders => [Quotes]_book
  BY <1>1
<1> QED
  BY <1>2, BookInvariant, PTL DEF EachCallQuotes
=============================================================================
