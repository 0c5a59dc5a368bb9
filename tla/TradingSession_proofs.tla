------------------------ MODULE TradingSession_proofs ------------------------
(***************************************************************************)
(* A session of the trading engines keeps its promises for any prices,     *)
(* quantities, capital, sizing and number of orders, while the book moves  *)
(* between its calls.                                                      *)
(*                                                                         *)
(* The argument.  Fractions in lowest terms are the fractions they stand   *)
(* for, so that a purchase leaves cash and cost what they were in sum and  *)
(* a sale adds the profit.  A match fills something, at most what is asked *)
(* for, and costs no more than that at a price no fill exceeds; it takes   *)
(* from the best level on, each exhausted before the next.  Sizing         *)
(* asks for no more than the cash buys.  From these, SessionInv says of    *)
(* each call what is already in the position, what in the portfolio, and   *)
(* that what is left of the order is still held or still affordable.       *)
(***************************************************************************)
EXTENDS TradingSession, OrderBook_proofs, WellFoundedInduction

(* Sets of natural numbers have a least element.                           *)
LEMMA LeastOf ==
  ASSUME NEW T, T \subseteq Nat, T # {}
  PROVE  \E x \in T : \A y \in T : x <= y
<1>1. PICK x \in T : \A y \in T : ~(<<y, x>> \in OpToRel(<, Nat))
  BY NatLessThanWellFounded, WFMin
<1>2. \A y \in T : ~(y < x)
  BY <1>1 DEF OpToRel
<1> QED
  BY <1>2

-----------------------------------------------------------------------------
(* Fractions                                                               *)

(* A factor that is not zero cancels.                                      *)
LEMMA CancelFactor ==
  ASSUME NEW a \in Int, NEW b \in Int, NEW c \in Nat \ {0}, a * c = b * c
  PROVE  a = b
<1>1. CASE a < b
  <2>1. b - a >= 1 /\ b - a \in Int
    BY <1>1
  <2>2. (b - a) * c >= c
    BY <2>1
  <2>3. (b - a) * c = b * c - a * c
    OBVIOUS
  <2> QED
    BY <2>2, <2>3
<1>2. CASE b < a
  <2>1. a - b >= 1 /\ a - b \in Int
    BY <1>2
  <2>2. (a - b) * c >= c
    BY <2>1
  <2>3. (a - b) * c = a * c - b * c
    OBVIOUS
  <2> QED
    BY <2>2, <2>3
<1> QED
  BY <1>1, <1>2

LEMMA Division ==
  ASSUME NEW a \in Int, NEW d \in Nat \ {0}
  PROVE  /\ a \div d \in Int /\ a % d \in 0..(d - 1)
         /\ a = (a \div d) * d + (a % d)
<1>1. a \div d \in Int /\ a % d \in 0..(d - 1)
  OBVIOUS
<1>2. a = (a \div d) * d + (a % d)
  OBVIOUS
<1> QED
  BY <1>1, <1>2

LEMMA Divides ==
  ASSUME NEW a \in Int, NEW d \in Nat \ {0}
  PROVE  a % d = 0 <=> \E k \in Int : a = k * d
<1>1. /\ a \div d \in Int /\ a % d \in 0..(d - 1)
      /\ a = (a \div d) * d + (a % d)
  BY Division
<1>2. ASSUME NEW k \in Int, a = k * d
      PROVE  a % d = 0
  <2> DEFINE r == a % d
             m == a \div d
  <2>1. r \in Int /\ 0 <= r /\ r < d /\ m \in Int /\ a = m * d + r
    BY <1>1
  <2> HIDE DEF r, m
  <2>2. r = (k - m) * d
    <3>1. (k - m) * d = k * d - m * d
      BY <2>1
    <3>2. k * d \in Int /\ m * d \in Int
      BY <2>1
    <3> QED
      BY <1>2, <2>1, <3>1, <3>2
  <2>3. CASE k - m >= 1
    <3>1. (k - m) * d >= d
      BY <2>1, <2>3
    <3> QED
      BY <2>1, <2>2, <3>1
  <2>4. CASE k - m <= -1
    <3>1. (m - k) * d >= d
      BY <2>1, <2>4
    <3>2. (m - k) * d = -((k - m) * d)
      BY <2>1
    <3> QED
      BY <2>1, <2>2, <3>1, <3>2
  <2>5. CASE k - m = 0
    BY <2>1, <2>2, <2>5 DEF r
  <2> QED
    BY <2>1, <2>3, <2>4, <2>5
<1>3. ASSUME a % d = 0
      PROVE  \E k \in Int : a = k * d
  <2> DEFINE k == a \div d
  <2>1. k \in Int /\ a = k * d + 0
    BY <1>1, <1>3
  <2> HIDE DEF k
  <2>2. a = k * d
    BY <2>1
  <2> QED
    BY <2>1, <2>2
<1> QED
  BY <1>2, <1>3

(* n / d = m / e                                                           *)
SameValue(n, d, m, e) == n * e = m * d

(* n / d can be written over the denominator f, with this numerator.       *)
Fits(n, d, f) == (n * f) % d = 0

Numerator(n, d, f) == (n * f) \div d

LEMMA Multiples ==
  ASSUME NEW n \in Int, NEW d \in Nat \ {0}, NEW m \in Int, NEW e \in Nat \ {0},
         SameValue(n, d, m, e), NEW f \in Nat \ {0}, Fits(n, d, f)
  PROVE  Fits(m, e, f) /\ Numerator(m, e, f) = Numerator(n, d, f)
<1> DEFINE k == (n * f) \div d
<1>1. n * f \in Int /\ m * f \in Int
  OBVIOUS
<1>2. k \in Int /\ n * f = k * d
  <2>1. /\ k \in Int /\ n * f = k * d + ((n * f) % d)
    BY <1>1, Division, Zenon
  <2>2. (n * f) % d = 0
    BY DEF Fits
  <2> HIDE DEF k
  <2> QED
    BY <2>1, <2>2
<1> HIDE DEF k
<1>3. (m * f) * d = (k * e) * d
  <2>1. (m * f) * d = (m * d) * f
    OBVIOUS
  <2>2. (m * d) * f = (n * f) * e
    <3>1. m * d = n * e
      BY DEF SameValue
    <3>2. (n * e) * f = (n * f) * e
      OBVIOUS
    <3> QED
      BY <3>1, <3>2
  <2>3. (n * f) * e = (k * e) * d
    BY <1>2
  <2> QED
    BY <2>1, <2>2, <2>3
<1>4. m * f = k * e
  BY <1>1, <1>2, <1>3, CancelFactor
<1>5. (m * f) % e = 0
  BY <1>1, <1>2, <1>4, Divides
<1>6. (m * f) \div e \in Int /\ m * f = ((m * f) \div e) * e
  <2>1. (m * f) \div e \in Int /\ m * f = ((m * f) \div e) * e + ((m * f) % e)
    BY <1>1, Division, Zenon
  <2> DEFINE l == (m * f) \div e
  <2>2. l \in Int /\ m * f = l * e + 0
    BY <1>5, <2>1
  <2> HIDE DEF l
  <2>3. l \in Int /\ m * f = l * e
    BY <2>2
  <2> QED
    BY <2>3 DEF l
<1>7. (m * f) \div e = k
  BY <1>2, <1>4, <1>6, CancelFactor
<1> QED
  BY <1>5, <1>7 DEF k, Fits, Numerator

LEMMA LeastDenominatorIs ==
  ASSUME NEW n \in Int, NEW d \in Nat \ {0}
  PROVE  /\ LeastDenominator(n, d) \in 1..d
         /\ (n * LeastDenominator(n, d)) % d = 0
         /\ \A f \in 1..(LeastDenominator(n, d) - 1) : (n * f) % d # 0
<1> DEFINE T == {e \in 1..d : (n * e) % d = 0}
<1>1. d \in T
  <2>1. n * d \in Int /\ (n * d) % d = 0
    BY Divides
  <2> QED
    BY <2>1
<1>2. PICK e \in T : \A f \in T : e <= f
  <2>1. T \subseteq 1..d /\ 1..d \subseteq Nat
    OBVIOUS
  <2>2. T \subseteq Nat /\ T # {}
    <3> HIDE DEF T
    <3> QED
      BY <1>1, <2>1
  <2> HIDE DEF T
  <2> QED
    BY <2>2, LeastOf
<1>3. e \in 1..d /\ (n * e) % d = 0 /\ \A f \in 1..(e - 1) : (n * f) % d # 0
  <2>1. e \in 1..d /\ (n * e) % d = 0
    BY <1>2
  <2>2. ASSUME NEW f \in 1..(e - 1), (n * f) % d = 0
        PROVE  FALSE
    <3>1. f \in T /\ f < e /\ f \in Nat /\ e \in Nat
      BY <2>1, <2>2
    <3>2. e <= f
      BY <1>2, <3>1
    <3> QED
      BY <3>1, <3>2
  <2> QED
    BY <2>1, <2>2
<1> QED
  BY <1>3 DEF LeastDenominator

Rational == [num : Int, den : Nat \ {0}]

(* A fraction in lowest terms has the value of its numerator over its      *)
(* denominator.                                                            *)
LEMMA FractionIs ==
  ASSUME NEW n \in Int, NEW d \in Nat \ {0}
  PROVE  /\ Fraction(n, d) \in Rational
         /\ Fraction(n, d).num * d = n * Fraction(n, d).den
         /\ n >= 0 => Fraction(n, d).num >= 0
<1> DEFINE e == LeastDenominator(n, d)
<1>1. e \in 1..d /\ (n * e) % d = 0
  BY LeastDenominatorIs
<1> HIDE DEF e
<1>5. e \in Nat \ {0} /\ n * e \in Int
  BY <1>1
<1>2. (n * e) \div d \in Int /\ n * e = ((n * e) \div d) * d
  BY <1>1, <1>5, Division
<1>3. Fraction(n, d) = [num |-> (n * e) \div d, den |-> e]
  BY DEF Fraction, e
<1>4. ASSUME n >= 0, (n * e) \div d < 0
      PROVE  FALSE
  <2> DEFINE k == (n * e) \div d
  <2>1. k \in Int /\ k < 0 /\ n * e = k * d
    BY <1>2, <1>4
  <2> HIDE DEF k
  <2>2. n * e >= 0
    BY <1>5, <1>4
  <2>3. (-k) * d >= d /\ k * d = -((-k) * d)
    BY <2>1
  <2> QED
    BY <2>1, <2>2, <2>3
<1> QED
  BY <1>2, <1>3, <1>4, <1>5 DEF Rational

(* Equal values have one fraction.                                         *)
LEMMA FractionUnique ==
  ASSUME NEW n \in Int, NEW d \in Nat \ {0}, NEW m \in Int, NEW e \in Nat \ {0},
         SameValue(n, d, m, e)
  PROVE  Fraction(n, d) = Fraction(m, e)
<1> DEFINE P == LeastDenominator(n, d)
           Q == LeastDenominator(m, e)
<1>7. /\ P \in 1..d /\ Fits(n, d, P) /\ \A f \in 1..(P - 1) : ~Fits(n, d, f)
  BY LeastDenominatorIs DEF Fits
<1>8. /\ Q \in 1..e /\ Fits(m, e, Q) /\ \A f \in 1..(Q - 1) : ~Fits(m, e, f)
  BY LeastDenominatorIs DEF Fits
<1>2. Fraction(n, d) = [num |-> Numerator(n, d, P), den |-> P]
  BY DEF Fraction, Numerator
<1>3. Fraction(m, e) = [num |-> Numerator(m, e, Q), den |-> Q]
  BY DEF Fraction, Numerator
<1> HIDE DEF P, Q
<1>1. P \in Nat \ {0} /\ Q \in Nat \ {0} /\ SameValue(m, e, n, d)
  BY <1>7, <1>8 DEF SameValue
<1>4. Fits(m, e, P) /\ Numerator(m, e, P) = Numerator(n, d, P)
  BY <1>1, <1>7, Multiples
<1>5. Fits(n, d, Q)
  BY <1>1, <1>8, Multiples
<1>6. P = Q
  <2>1. ~(P < Q)
    BY <1>1, <1>4, <1>8
  <2>2. ~(Q < P)
    BY <1>1, <1>5, <1>7
  <2> QED
    BY <1>1, <2>1, <2>2
<1> QED
  BY <1>2, <1>3, <1>4, <1>6

(* f is n / d.                                                             *)
Denotes(f, n, d) == f \in Rational /\ SameValue(f.num, f.den, n, d)

LEMMA FractionDenotes ==
  ASSUME NEW n \in Int, NEW d \in Nat \ {0}
  PROVE  Denotes(Fraction(n, d), n, d)
BY FractionIs DEF Denotes, SameValue

LEMMA FractionInjective ==
  ASSUME NEW n \in Int, NEW m \in Int, NEW d \in Nat \ {0}, Fraction(n, d) = Fraction(m, d)
  PROVE  n = m
<1> DEFINE e == Fraction(n, d).den
           k == Fraction(n, d).num
<1>1. e \in Nat \ {0} /\ k * d = n * e
  BY FractionIs DEF Rational
<1>2. k * d = m * e
  BY FractionIs
<1> HIDE DEF e, k
<1> QED
  BY <1>1, <1>2, CancelFactor

LEMMA WholeDenotes ==
  ASSUME NEW v \in Int, NEW d \in Nat \ {0}, NEW k \in Int, k = v * d
  PROVE  Denotes(Whole(v), k, d)
BY DEF Denotes, SameValue, Whole, Rational

LEMMA PlusDenotes ==
  ASSUME NEW a, NEW b, NEW n \in Int, NEW m \in Int, NEW d \in Nat \ {0},
         Denotes(a, n, d), Denotes(b, m, d), NEW k \in Int, k = n + m
  PROVE  Plus(a, b) = Fraction(k, d)
<1> DEFINE an == a.num
           ad == a.den
           bn == b.num
           bd == b.den
<1>1. /\ an \in Int /\ ad \in Nat \ {0} /\ an * d = n * ad
      /\ bn \in Int /\ bd \in Nat \ {0} /\ bn * d = m * bd
  BY DEF Denotes, SameValue, Rational
<1>2. Plus(a, b) = Fraction(an * bd + bn * ad, ad * bd)
  BY DEF Plus
<1> HIDE DEF an, ad, bn, bd
<1> DEFINE x == an * bd + bn * ad
           y == ad * bd
<1>3. x \in Int /\ y \in Nat \ {0}
  BY <1>1
<1>4. x * d = k * y
  <2>1. x * d = (an * d) * bd + (bn * d) * ad
    BY <1>1
  <2>2. (an * d) * bd = n * y /\ (bn * d) * ad = m * y
    <3>1. (n * ad) * bd = n * y /\ (m * bd) * ad = m * y
      BY <1>1
    <3> QED
      BY <1>1, <3>1
  <2>3. k * y = n * y + m * y
    BY <1>1
  <2> QED
    BY <2>1, <2>2, <2>3
<1> HIDE DEF x, y
<1>5. SameValue(x, y, k, d)
  BY <1>4 DEF SameValue
<1>6. Fraction(x, y) = Fraction(k, d)
  BY <1>3, <1>5, FractionUnique
<1> QED
  BY <1>2, <1>6 DEF x, y

LEMMA TimesDenotes ==
  ASSUME NEW a, NEW n \in Int, NEW d \in Nat \ {0}, Denotes(a, n, d),
         NEW q \in Int, NEW k \in Int, k = q * n
  PROVE  Times(q, a) = Fraction(k, d)
<1> DEFINE an == a.num
           ad == a.den
           x == q * an
<1>1. an \in Int /\ ad \in Nat \ {0} /\ an * d = n * ad
  BY DEF Denotes, SameValue, Rational
<1>2. Times(q, a) = Fraction(x, ad)
  BY DEF Times
<1> HIDE DEF an, ad
<1>3. x \in Int /\ x * d = k * ad
  <2>1. x * d = q * (an * d) /\ x \in Int
    BY <1>1
  <2>2. q * (n * ad) = k * ad
    BY <1>1
  <2> QED
    BY <1>1, <2>1, <2>2
<1> HIDE DEF x
<1>4. SameValue(x, ad, k, d)
  BY <1>3 DEF SameValue
<1> QED
  BY <1>1, <1>2, <1>3, <1>4, FractionUnique

LEMMA OverDenotes ==
  ASSUME NEW a, NEW n \in Int, NEW d \in Nat \ {0}, Denotes(a, n, d),
         NEW q \in Nat \ {0}, NEW k \in Nat \ {0}, k = d * q
  PROVE  Over(a, q) = Fraction(n, k)
<1> DEFINE an == a.num
           ad == a.den
           y == ad * q
<1>1. an \in Int /\ ad \in Nat \ {0} /\ an * d = n * ad
  BY DEF Denotes, SameValue, Rational
<1>2. Over(a, q) = Fraction(an, y)
  BY DEF Over
<1> HIDE DEF an, ad
<1>3. y \in Nat \ {0} /\ an * k = n * y
  <2>1. an * k = (an * d) * q /\ y \in Nat \ {0}
    BY <1>1
  <2>2. (n * ad) * q = n * y
    BY <1>1
  <2> QED
    BY <1>1, <2>1, <2>2
<1> HIDE DEF y
<1>4. SameValue(an, y, n, k)
  BY <1>3 DEF SameValue
<1> QED
  BY <1>1, <1>2, <1>3, <1>4, FractionUnique

LEMMA MinusDenotes ==
  ASSUME NEW a, NEW b, NEW n \in Int, NEW m \in Int, NEW d \in Nat \ {0},
         Denotes(a, n, d), Denotes(b, m, d), NEW k \in Int, k = n - m
  PROVE  Minus(a, b) = Fraction(k, d)
<1> DEFINE c == [b EXCEPT !.num = -@]
           j == -m
<1>1. b \in Rational /\ b.num * d = m * b.den
  BY DEF Denotes, SameValue
<1>2. c \in Rational /\ c.num = -b.num /\ c.den = b.den
  BY <1>1 DEF Rational
<1>3. Minus(a, b) = Plus(a, c)
  BY DEF Minus
<1> HIDE DEF c
<1>4. c.num * d = j * c.den
  <2>1. b.num \in Int /\ b.den \in Int
    BY <1>1 DEF Rational
  <2>2. (-b.num) * d = -(b.num * d) /\ (-m) * b.den = -(m * b.den)
    BY <2>1
  <2> QED
    BY <1>1, <1>2, <2>2
<1>5. Denotes(c, j, d) /\ j \in Int /\ k = n + j
  BY <1>2, <1>4 DEF Denotes, SameValue
<1> HIDE DEF j
<1> QED
  BY <1>3, <1>5, PlusDenotes

LEMMA RationalDenotes ==
  ASSUME NEW a \in Rational, NEW r \in Nat \ {0}, NEW n \in Int, NEW d \in Nat \ {0},
         n = a.num * r, d = a.den * r
  PROVE  Denotes(a, n, d)
<1> DEFINE an == a.num
           ad == a.den
<1>1. an \in Int /\ ad \in Nat \ {0} /\ n = an * r /\ d = ad * r
  BY DEF Rational
<1> HIDE DEF an, ad
<1>2. an * (ad * r) = (an * r) * ad
  BY <1>1
<1>3. an * d = n * ad
  BY <1>1, <1>2
<1> QED
  BY <1>3 DEF Denotes, SameValue, an, ad

(* PortfolioStateEngine::buy averages the price so that cash and the cost  *)
(* of the holding add up to what they were.                                *)
LEMMA PurchaseConserves ==
  ASSUME NEW average \in Rational, NEW held \in Nat, NEW q \in Nat \ {0},
         NEW value \in Int, NEW cash \in Int, NEW next,
         next = Over(Plus(Times(held, average), Whole(value)), held + q)
  PROVE  /\ next \in Rational
         /\ Plus(Whole(cash - value), Times(held + q, next))
              = Plus(Whole(cash), Times(held, average))
<1> DEFINE n == average.num
           d == average.den
           total == held + q
           cost == held * n
           paid == value * d
           sum == cost + paid
           over == d * total
           scaled == total * sum
           all == cash * d + cost
           rest == (cash - value) * d
           start == cash * d
<1>1. n \in Int /\ d \in Nat \ {0} /\ total \in Nat \ {0}
  BY DEF Rational
<1>2. Denotes(average, n, d)
  BY DEF Denotes, SameValue
<1> HIDE DEF n, d
<1>3. /\ cost \in Int /\ paid \in Int /\ sum \in Int /\ over \in Nat \ {0}
      /\ scaled \in Int /\ rest \in Int /\ start \in Int
  BY <1>1
<1>4. all \in Int /\ all = start + cost /\ all = rest + sum
  <2>1. rest = cash * d - value * d
    BY <1>1
  <2> QED
    BY <1>1, <1>3, <2>1
<1> HIDE DEF all
<1>5. Times(held, average) = Fraction(cost, d) /\ Denotes(Times(held, average), cost, d)
  BY <1>1, <1>2, <1>3, TimesDenotes, FractionDenotes
<1>6. Denotes(Whole(value), paid, d) /\ Denotes(Whole(cash), start, d)
  BY <1>1, <1>3, WholeDenotes
<1>7. Denotes(Whole(cash - value), rest, d)
  <2>1. cash - value \in Int
    OBVIOUS
  <2> QED
    BY <1>1, <1>3, <2>1, WholeDenotes
<1> HIDE DEF cost, paid, rest, start
<1>8. /\ Plus(Times(held, average), Whole(value)) = Fraction(sum, d)
      /\ Denotes(Plus(Times(held, average), Whole(value)), sum, d)
  BY <1>1, <1>3, <1>5, <1>6, PlusDenotes, FractionDenotes
<1> HIDE DEF sum
<1>9. next = Fraction(sum, over) /\ Denotes(next, sum, over)
  BY <1>1, <1>3, <1>8, OverDenotes, FractionDenotes
<1>10. Times(total, next) = Fraction(sum, d) /\ Denotes(Times(total, next), sum, d)
  <2>1. Times(total, next) = Fraction(scaled, over)
    <3>1. total \in Int
      BY <1>1
    <3> HIDE DEF total, over
    <3> QED
      BY <1>3, <1>9, <3>1, TimesDenotes
  <2>2. SameValue(scaled, over, sum, d)
    <3>1. scaled * d = sum * over
      <4> HIDE DEF total
      <4>1. (total * sum) * d = sum * (d * total)
        BY <1>1, <1>3
      <4> QED
        BY <4>1
    <3> QED
      BY <3>1 DEF SameValue
  <2> HIDE DEF scaled, over
  <2> QED
    BY <1>1, <1>3, <2>1, <2>2, FractionUnique, FractionDenotes
<1>11. Plus(Whole(cash - value), Times(total, next)) = Fraction(all, d)
  BY <1>1, <1>3, <1>4, <1>7, <1>10, PlusDenotes
<1>12. Plus(Whole(cash), Times(held, average)) = Fraction(all, d)
  BY <1>1, <1>3, <1>4, <1>5, <1>6, PlusDenotes
<1>13. next \in Rational
  BY <1>9 DEF Denotes
<1> QED
  BY <1>11, <1>12, <1>13

(* PortfolioStateEngine::sell: what cash gains beyond the cost of what was *)
(* sold is the profit it records.                                          *)
LEMMA SaleConserves ==
  ASSUME NEW average \in Rational, NEW realized \in Rational,
         NEW held \in Nat, NEW q \in Nat, q <= held,
         NEW value \in Int, NEW cash \in Int, NEW capital \in Int,
         Plus(Whole(cash), Times(held, average)) = Plus(Whole(capital), realized),
         NEW kept, kept = IF q = held THEN Whole(0) ELSE average,
         NEW gained, gained = Plus(realized, Minus(Whole(value), Times(q, average)))
  PROVE  /\ kept \in Rational /\ gained \in Rational
         /\ Plus(Whole(cash + value), Times(held - q, kept)) = Plus(Whole(capital), gained)
<1> DEFINE d == average.den * realized.den
           x == average.num * realized.den
           y == realized.num * average.den
           v == value * d
           c == cash * d
           k == capital * d
           hx == held * x
           qx == q * x
           rx == (held - q) * x
           cv == (cash + value) * d
<1>1. /\ average.num \in Int /\ average.den \in Nat \ {0}
      /\ realized.num \in Int /\ realized.den \in Nat \ {0}
  BY DEF Rational
<1>2. d \in Nat \ {0} /\ x \in Int /\ y \in Int /\ d = realized.den * average.den
  BY <1>1
<1>3. Denotes(average, x, d)
  BY <1>1, <1>2, RationalDenotes
<1>4. Denotes(realized, y, d)
  BY <1>1, <1>2, RationalDenotes
<1> HIDE DEF d, x, y
<1>5. /\ v \in Int /\ c \in Int /\ k \in Int /\ hx \in Int /\ qx \in Int
      /\ rx \in Int /\ cv \in Int /\ held - q \in Nat /\ cash + value \in Int
  BY <1>2
<1>6. rx = hx - qx /\ cv = c + v
  <2>1. (held - q) * x = held * x - q * x
    BY <1>2
  <2>2. (cash + value) * d = cash * d + value * d
    BY <1>2
  <2> QED
    BY <2>1, <2>2
<1>7. /\ Denotes(Whole(value), v, d) /\ Denotes(Whole(cash), c, d)
      /\ Denotes(Whole(capital), k, d)
  BY <1>2, <1>5, WholeDenotes
<1>8. Denotes(Whole(cash + value), cv, d)
  BY <1>2, <1>5, WholeDenotes
<1>9. Denotes(Times(held, average), hx, d) /\ Denotes(Times(q, average), qx, d)
  BY <1>2, <1>3, <1>5, TimesDenotes, FractionDenotes
<1>10. Denotes(Times(held - q, kept), rx, d) /\ kept \in Rational
  <2>1. CASE q # held
    <3>1. kept = average
      BY <2>1
    <3>2. Times(held - q, average) = Fraction(rx, d)
      BY <1>2, <1>3, <1>5, TimesDenotes
    <3> QED
      BY <1>2, <1>5, <3>1, <3>2, FractionDenotes
  <2>2. CASE q = held
    <3>1. kept = Whole(0) /\ held - q = 0 /\ rx = 0
      BY <1>2, <2>2
    <3>2. Denotes(Whole(0), 0, d)
      BY <1>2, WholeDenotes
    <3>3. Times(0, Whole(0)) = Fraction(0, d)
      BY <1>2, <3>2, TimesDenotes
    <3>4. kept \in Rational
      BY <3>1, <3>2 DEF Denotes
    <3> HIDE DEF rx
    <3> QED
      BY <1>2, <3>1, <3>3, <3>4, FractionDenotes
  <2> QED
    BY <2>1, <2>2
<1> HIDE DEF v, c, k, hx, qx, rx, cv
<1> DEFINE profit == v - qx
           total == y + profit
           before == c + hx
           before2 == k + y
           after == cv + rx
<1>11. /\ profit \in Int /\ total \in Int /\ before \in Int /\ before2 \in Int /\ after \in Int
  BY <1>2, <1>5
<1>12. Plus(Whole(cash), Times(held, average)) = Fraction(before, d)
  BY <1>2, <1>5, <1>7, <1>9, <1>11, PlusDenotes
<1>13. Plus(Whole(capital), realized) = Fraction(before2, d)
  BY <1>2, <1>4, <1>5, <1>7, <1>11, PlusDenotes
<1>14. before = before2
  <2> HIDE DEF before, before2
  <2> QED
    BY <1>2, <1>11, <1>12, <1>13, FractionInjective
<1>15. Denotes(Minus(Whole(value), Times(q, average)), profit, d)
  <2>1. Minus(Whole(value), Times(q, average)) = Fraction(profit, d)
    BY <1>2, <1>5, <1>7, <1>9, <1>11, MinusDenotes
  <2> QED
    BY <1>2, <1>11, <2>1, FractionDenotes
<1>16. gained = Fraction(total, d) /\ Denotes(gained, total, d)
  <2> HIDE DEF profit
  <2>1. gained = Fraction(total, d)
    BY <1>2, <1>4, <1>11, <1>15, PlusDenotes
  <2> QED
    BY <1>2, <1>11, <2>1, FractionDenotes
<1>17. after = k + total
  BY <1>2, <1>5, <1>6, <1>14
<1>18. Plus(Whole(cash + value), Times(held - q, kept)) = Fraction(after, d)
  BY <1>2, <1>5, <1>8, <1>10, <1>11, PlusDenotes
<1>19. Plus(Whole(capital), gained) = Fraction(after, d)
  <2> HIDE DEF total, after
  <2> QED
    BY <1>2, <1>5, <1>7, <1>11, <1>16, <1>17, PlusDenotes
<1>20. gained \in Rational
  BY <1>16 DEF Denotes
<1> QED
  BY <1>10, <1>18, <1>19, <1>20

-----------------------------------------------------------------------------
(* Walking the levels                                                      *)

(* Induction along a list, for a set of its positions.                     *)
LEMMA AlongList ==
  ASSUME NEW N \in Nat, NEW T, 0 \in T,
         \A n \in 1..N : n - 1 \in T => n \in T
  PROVE  \A n \in 0..N : n \in T
<1> DEFINE F == (0..N) \ T
<1>1. SUFFICES ASSUME F # {} PROVE FALSE
  BY DEF F
<1>2. F \subseteq Nat
  OBVIOUS
<1>3. PICK x \in F : \A y \in F : x <= y
  <2> HIDE DEF F
  <2> QED
    BY <1>1, <1>2, LeastOf
<1>4. x \in 1..N
  BY <1>3
<1>5. x - 1 \in T
  <2>1. x - 1 \in 0..N /\ ~(x <= x - 1)
    BY <1>4
  <2> QED
    BY <1>3, <2>1
<1> QED
  BY <1>3, <1>4, <1>5

(* A value for every position, each from the one before.                   *)
Follows(f, base, step, N) ==
  f[0] = base /\ \A n \in 1..N : f[n] = step[n][f[n - 1]]

LEMMA Recursion ==
  ASSUME NEW N \in Nat, NEW S, NEW base \in S, NEW step \in [1..N -> [S -> S]]
  PROVE  \E f \in [0..N -> S] : Follows(f, base, step, N)
<1> DEFINE Good(m) ==
      \E f \in [0..m -> S] : f[0] = base /\ \A n \in 1..m : f[n] = step[n][f[n - 1]]
           T == {m \in 0..N : Good(m)}
<1>1. 0 \in T
  <2> DEFINE g == [n \in 0..0 |-> base]
  <2>1. g \in [0..0 -> S] /\ g[0] = base
    OBVIOUS
  <2>3. \A n \in 1..0 : g[n] = step[n][g[n - 1]]
    OBVIOUS
  <2> HIDE DEF g
  <2>2. Good(0)
    BY <2>1, <2>3
  <2> QED
    BY <2>2
<1>2. ASSUME NEW m \in 1..N, m - 1 \in T
      PROVE  m \in T
  <2>1. PICK f \in [0..(m - 1) -> S] :
          f[0] = base /\ \A n \in 1..(m - 1) : f[n] = step[n][f[n - 1]]
    BY <1>2
  <2> DEFINE g == [n \in 0..m |-> IF n = m THEN step[m][f[m - 1]] ELSE f[n]]
  <2>2. f[m - 1] \in S /\ step[m][f[m - 1]] \in S
    BY <2>1
  <2>3. g \in [0..m -> S]
    BY <2>1, <2>2
  <2>4. g[0] = base
    BY <2>1
  <2>5. ASSUME NEW n \in 1..m
        PROVE  g[n] = step[n][g[n - 1]]
    <3>1. n - 1 \in 0..m /\ n - 1 # m /\ g[n - 1] = f[n - 1]
      OBVIOUS
    <3>2. CASE n = m
      BY <3>1, <3>2
    <3>3. CASE n # m
      BY <2>1, <3>1, <3>3
    <3> QED
      BY <3>2, <3>3
  <2> HIDE DEF g
  <2>6. Good(m)
    BY <2>3, <2>4, <2>5
  <2> QED
    BY <2>6
<1>3. \A n \in 0..N : n \in T
  <2> HIDE DEF T
  <2> QED
    BY <1>1, <1>2, AlongList
<1>4. N \in T
  <2> HIDE DEF T
  <2> QED
    BY <1>3
<1> QED
  BY <1>4 DEF Follows

LEMMA LesserOfTwo ==
  ASSUME NEW a \in Int, NEW b \in Int
  PROVE  Min({a, b}) = IF a <= b THEN a ELSE b
<1>1. \A x, y \in {a, b} : (\A z \in {a, b} : x <= z) /\ (\A z \in {a, b} : y <= z) => x = y
  OBVIOUS
<1>2. \E x \in {a, b} : \A z \in {a, b} : x <= z
  OBVIOUS
<1>3. Min({a, b}) \in {a, b} /\ \A z \in {a, b} : Min({a, b}) <= z
  BY <1>2 DEF Min
<1> QED
  BY <1>3

(* What is left is taken from each level as far as it reaches.             *)
LEMMA RemainingIs ==
  ASSUME NEW levels \in Seq(Level), NEW q \in Nat, NEW left, left = Remaining(levels, q)
  PROVE  /\ left \in [0..Len(levels) -> 0..q] /\ left[0] = q
         /\ \A n \in 1..Len(levels) :
              /\ left[n] <= left[n - 1]
              /\ left[n - 1] > 0 => left[n] < left[n - 1]
              /\ left[n] = IF left[n - 1] <= levels[n].quantity THEN 0
                           ELSE left[n - 1] - levels[n].quantity
<1> DEFINE N == Len(levels)
           Reduced(x, n) == x - Min({x, levels[n].quantity})
           Walk(f) == f = [n \in 0..N |-> IF n = 0 THEN q ELSE Reduced(f[n - 1], n)]
<1>1. N \in Nat /\ \A n \in 1..N : levels[n].quantity \in Nat \ {0}
  <2>1. Len(levels) \in Nat /\ \A n \in 1..Len(levels) : levels[n] \in Level
    OBVIOUS
  <2> QED
    BY <2>1, QuotesAssumption DEF Level
<1>2. ASSUME NEW x \in 0..q, NEW n \in 1..N
      PROVE  /\ Reduced(x, n) \in 0..q /\ Reduced(x, n) <= x /\ (x > 0 => Reduced(x, n) < x)
             /\ Reduced(x, n) = IF x <= levels[n].quantity THEN 0 ELSE x - levels[n].quantity
  <2>1. levels[n].quantity \in Nat \ {0} /\ x \in Int
    BY <1>1
  <2>2. Min({x, levels[n].quantity}) = IF x <= levels[n].quantity THEN x ELSE levels[n].quantity
    BY <2>1, LesserOfTwo
  <2> QED
    BY <2>1, <2>2
<1>3. \E f : Walk(f)
  <2> DEFINE step == [n \in 1..N |-> [x \in 0..q |-> Reduced(x, n)]]
  <2> DEFINE S == 0..q
  <2>1. step \in [1..N -> [S -> S]] /\ q \in S
    BY <1>2
  <2>2. PICK f \in [0..N -> S] : Follows(f, q, step, N)
    <3>1. N \in Nat
      BY <1>1
    <3> HIDE DEF step, N, S
    <3> QED
      BY <2>1, <3>1, Recursion
  <2>3. ASSUME NEW n \in 0..N
        PROVE  f[n] = IF n = 0 THEN q ELSE Reduced(f[n - 1], n)
    <3>1. CASE n = 0
      BY <2>2, <3>1 DEF Follows
    <3>2. CASE n # 0
      <4>1. n \in 1..N /\ n - 1 \in 0..N /\ f[n - 1] \in 0..q
        <5>1. n \in 1..N /\ n - 1 \in 0..N
          BY <1>1, <3>2
        <5> QED
          BY <2>2, <5>1
      <4>2. step[n][f[n - 1]] = Reduced(f[n - 1], n)
        BY <4>1
      <4> QED
        BY <2>2, <3>2, <4>1, <4>2 DEF Follows
    <3> QED
      BY <3>1, <3>2
  <2> HIDE DEF Reduced
  <2>4. Walk(f)
    BY <2>2, <2>3
  <2> QED
    BY <2>4
<1>4. Walk(left)
  <2>1. left = CHOOSE f : Walk(f)
    BY DEF Remaining
  <2> HIDE DEF Walk
  <2> QED
    BY <1>3, <2>1
<1> HIDE DEF Reduced
<1>5. left[0] = q /\ \A n \in 1..N : left[n] = Reduced(left[n - 1], n)
  BY <1>1, <1>4
<1> DEFINE T == {n \in 0..N : left[n] \in 0..q}
<1>6. \A n \in 0..N : n \in T
  <2>1. 0 \in T
    BY <1>1, <1>5
  <2>2. ASSUME NEW n \in 1..N, n - 1 \in T
        PROVE  n \in T
    BY <1>2, <1>5, <2>2
  <2> HIDE DEF T, N
  <2> QED
    BY <1>1, <2>1, <2>2, AlongList
<1>7. left \in [0..N -> 0..q]
  <2>1. \A n \in 0..N : left[n] \in 0..q
    BY <1>6
  <2>2. left = [n \in 0..N |-> left[n]]
    BY <1>4
  <2> QED
    BY <2>1, <2>2
<1>8. ASSUME NEW n \in 1..N
      PROVE  /\ left[n] <= left[n - 1] /\ (left[n - 1] > 0 => left[n] < left[n - 1])
             /\ left[n] = IF left[n - 1] <= levels[n].quantity THEN 0
                          ELSE left[n - 1] - levels[n].quantity
  <2>1. left[n - 1] \in 0..q /\ left[n] = Reduced(left[n - 1], n)
    BY <1>1, <1>5, <1>7
  <2> QED
    BY <1>2, <2>1
<1> QED
  BY <1>5, <1>7, <1>8

(* weightedPrice grows by the price of what each level fills.              *)
CostsAlong(weighted, left, levels) ==
  /\ weighted[0] = 0
  /\ \A n \in 1..Len(levels) :
       weighted[n] = weighted[n - 1] + levels[n].price * (left[n - 1] - left[n])

LEMMA WeightedPriceIs ==
  ASSUME NEW levels \in Seq(Level), NEW q \in Nat, NEW left, left = Remaining(levels, q),
         NEW weighted, weighted = WeightedPrice(levels, q)
  PROVE  weighted \in [0..Len(levels) -> Nat] /\ CostsAlong(weighted, left, levels)
<1> DEFINE N == Len(levels)
           Cost(n) == levels[n].price * (left[n - 1] - left[n])
           Walk(f) == f = [n \in 0..N |-> IF n = 0 THEN 0 ELSE f[n - 1] + Cost(n)]
<1>1. N \in Nat
  OBVIOUS
<1>2. \A n \in 1..N : Cost(n) \in Nat
  <2>1. ASSUME NEW n \in 1..N
        PROVE  Cost(n) \in Nat
    <3>1. levels[n] \in Level
      OBVIOUS
    <3>2. levels[n].price \in Nat
      BY <3>1, QuotesAssumption DEF Level
    <3>3. left[n] \in Nat /\ left[n - 1] \in Nat /\ left[n] <= left[n - 1]
      <4>1. /\ left \in [0..Len(levels) -> 0..q]
            /\ \A k \in 1..Len(levels) : left[k] <= left[k - 1]
        BY RemainingIs
      <4>2. n \in 0..N /\ n - 1 \in 0..N
        BY <1>1
      <4> QED
        BY <4>1, <4>2
    <3>4. left[n - 1] - left[n] \in Nat
      BY <3>3
    <3> QED
      BY <3>2, <3>4
  <2> QED
    BY <2>1
<1>3. \E f : Walk(f)
  <2> HIDE DEF Cost
  <2> DEFINE step == [n \in 1..N |-> [x \in Nat |-> x + Cost(n)]]
  <2>1. step \in [1..N -> [Nat -> Nat]] /\ 0 \in Nat
    BY <1>2
  <2>2. PICK f \in [0..N -> Nat] : Follows(f, 0, step, N)
    <3> HIDE DEF step, N
    <3> QED
      BY <1>1, <2>1, Recursion
  <2>3. ASSUME NEW n \in 0..N
        PROVE  f[n] = IF n = 0 THEN 0 ELSE f[n - 1] + Cost(n)
    <3>1. CASE n = 0
      BY <2>2, <3>1 DEF Follows
    <3>2. CASE n # 0
      <4>1. n \in 1..N /\ n - 1 \in 0..N
        BY <1>1, <3>2
      <4>2. f[n - 1] \in Nat
        BY <2>2, <4>1
      <4>3. step[n][f[n - 1]] = f[n - 1] + Cost(n)
        BY <4>1, <4>2
      <4> QED
        BY <2>2, <3>2, <4>1, <4>3 DEF Follows
    <3> QED
      BY <3>1, <3>2
  <2>4. Walk(f)
    BY <2>2, <2>3
  <2> QED
    BY <2>4
<1>4. Walk(weighted)
  <2>1. weighted = CHOOSE f : Walk(f)
    BY DEF WeightedPrice
  <2> HIDE DEF Walk
  <2> QED
    BY <1>3, <2>1
<1>5. weighted[0] = 0 /\ \A n \in 1..N : weighted[n] = weighted[n - 1] + Cost(n)
  <2> HIDE DEF Cost
  <2> QED
    BY <1>1, <1>4
<1> DEFINE T == {n \in 0..N : weighted[n] \in Nat}
<1>6. \A n \in 0..N : n \in T
  <2>1. 0 \in T
    BY <1>1, <1>5
  <2>2. ASSUME NEW n \in 1..N, n - 1 \in T
        PROVE  n \in T
    <3> HIDE DEF Cost
    <3> QED
      BY <1>2, <1>5, <2>2
  <2> HIDE DEF T, N
  <2> QED
    BY <1>1, <2>1, <2>2, AlongList
<1>7. weighted \in [0..N -> Nat]
  <2>1. \A n \in 0..N : weighted[n] \in Nat
    BY <1>6
  <2>2. weighted = [n \in 0..N |-> weighted[n]]
    <3> HIDE DEF Cost
    <3> QED
      BY <1>4
  <2> QED
    BY <2>1, <2>2
<1> QED
  BY <1>5, <1>7 DEF CostsAlong

(* An order matched against a side that holds something is filled in part  *)
(* at least, and never beyond its size; it costs no more than its size at  *)
(* a price that no fill exceeds.                                           *)
LEMMA MatchIs ==
  ASSUME BookTypeOK, NEW side \in {"buy", "sell"}, NEW q \in Nat \ {0},
         book[OtherSide(side)] # <<>>, NEW match, match = Match(side, q)
  PROVE  /\ match.filled \in 1..q /\ match.value \in Nat
         /\ \A price \in Nat :
              (\A n \in DOMAIN match.fills : match.fills[n].price <= price)
                => match.value <= price * match.filled
<1> DEFINE levels == book[OtherSide(side)]
           N == Len(levels)
           left == Remaining(levels, q)
           weighted == WeightedPrice(levels, q)
<1>1. levels \in Seq(Level) /\ levels # <<>>
  BY DEF BookTypeOK, OtherSide, Sides
<1>2. match = [filled |-> q - left[N], remaining |-> left[N],
               fills |-> Fills(levels, q), value |-> weighted[N]]
  BY DEF Match
<1>3. DOMAIN Fills(levels, q) = {k \in DOMAIN levels : left[k] < left[k - 1]}
      /\ \A k \in DOMAIN Fills(levels, q) : Fills(levels, q)[k].price = levels[k].price
  BY DEF Fills
<1> HIDE DEF levels
<1>4. N \in Nat /\ N >= 1 /\ DOMAIN levels = 1..N /\ \A n \in 1..N : levels[n] \in Level
  BY <1>1
<1>5. /\ left \in [0..N -> 0..q] /\ left[0] = q
      /\ \A n \in 1..N : left[n] <= left[n - 1] /\ (left[n - 1] > 0 => left[n] < left[n - 1])
  BY <1>1, RemainingIs
<1>6. /\ weighted \in [0..N -> Nat] /\ weighted[0] = 0
      /\ \A n \in 1..N : weighted[n] = weighted[n - 1] + levels[n].price * (left[n - 1] - left[n])
  BY <1>1, WeightedPriceIs DEF CostsAlong
<1> HIDE DEF left, weighted, N
<1>7. q - left[N] \in 1..q
  <2> DEFINE T == {n \in 0..N : n = 0 \/ left[n] < q}
  <2>1. 0 \in T
    BY <1>4
  <2>2. ASSUME NEW n \in 1..N, n - 1 \in T
        PROVE  n \in T
    <3>1. n \in 0..N /\ n - 1 \in 0..N /\ (n - 1 = 0 \/ left[n - 1] < q)
      BY <1>4, <2>2
    <3>2. left[n] \in 0..q /\ left[n - 1] \in 0..q /\ left[n] <= left[n - 1]
      BY <1>5, <3>1
    <3>3. CASE n - 1 = 0
      BY <1>5, <3>1, <3>2, <3>3
    <3>4. CASE left[n - 1] < q
      BY <3>1, <3>2, <3>4
    <3> QED
      BY <3>1, <3>3, <3>4
  <2>3. \A n \in 0..N : n \in T
    <3> HIDE DEF T
    <3> QED
      BY <1>4, <2>1, <2>2, AlongList
  <2>4. left[N] < q /\ left[N] \in 0..q
    BY <1>4, <1>5, <2>3
  <2> QED
    BY <2>4
<1>8. ASSUME NEW price \in Nat,
             \A n \in DOMAIN Fills(levels, q) : Fills(levels, q)[n].price <= price
      PROVE  weighted[N] <= price * (q - left[N])
  <2> DEFINE T == {n \in 0..N : weighted[n] <= price * (q - left[n])}
  <2>1. 0 \in T
    <3>1. price * (q - left[0]) = 0
      BY <1>5
    <3> QED
      BY <1>4, <1>6, <3>1
  <2>2. ASSUME NEW n \in 1..N, n - 1 \in T
        PROVE  n \in T
    <3> DEFINE x == left[n - 1]
               y == left[n]
               p == levels[n].price
               u == weighted[n - 1]
    <3>1. n \in 0..N /\ n - 1 \in 0..N /\ u <= price * (q - x)
      BY <1>4, <2>2
    <3>2. x \in 0..q /\ y \in 0..q /\ y <= x /\ u \in Nat
      BY <1>5, <1>6, <3>1
    <3>3. weighted[n] = u + p * (x - y)
      BY <1>6
    <3>4. p \in Nat
      BY <1>4, QuotesAssumption DEF Level
    <3>5. y < x => p <= price
      BY <1>3, <1>4, <1>8
    <3> HIDE DEF x, y, p, u
    <3>6. p * (x - y) <= price * (x - y)
      <4>1. CASE x = y
        <5>1. p * 0 = 0 /\ price * 0 = 0 /\ x - y = 0
          BY <3>2, <3>4, <4>1
        <5> QED
          BY <5>1
      <4>2. CASE y < x
        <5>1. x - y \in Nat /\ price - p \in Nat
          BY <3>2, <3>4, <3>5, <4>2
        <5>2. (price - p) * (x - y) >= 0
          BY <5>1
        <5>3. (price - p) * (x - y) = price * (x - y) - p * (x - y)
          BY <3>2, <3>4
        <5> QED
          BY <3>2, <3>4, <5>2, <5>3
      <4> QED
        BY <3>2, <4>1, <4>2
    <3>7. price * (q - y) = price * (q - x) + price * (x - y)
      BY <3>2
    <3>8. weighted[n] <= price * (q - y)
      BY <3>1, <3>2, <3>3, <3>4, <3>6, <3>7
    <3> QED
      BY <3>1, <3>8 DEF y
  <2>3. \A n \in 0..N : n \in T
    <3> HIDE DEF T
    <3> QED
      BY <1>4, <2>1, <2>2, AlongList
  <2> QED
    BY <1>4, <2>3
<1>9. weighted[N] \in Nat
  BY <1>4, <1>6
<1> QED
  BY <1>2, <1>7, <1>8, <1>9

-----------------------------------------------------------------------------
(* Sums over a finite set                                                  *)

(* Induction over the subsets of a finite set, for a set of them.          *)
LEMMA OverSubsets ==
  ASSUME NEW S, IsFiniteSet(S), NEW T, {} \in T,
         \A s \in SUBSET S : s # {} /\ (\A x \in s : s \ {x} \in T) => s \in T
  PROVE  \A s \in SUBSET S : s \in T
<1> DEFINE F == {s \in SUBSET S : s \notin T}
           Sizes == {Cardinality(s) : s \in F}
<1>1. SUFFICES ASSUME F # {} PROVE FALSE
  BY DEF F
<1>2. \A s \in SUBSET S : IsFiniteSet(s) /\ Cardinality(s) \in Nat
  BY FS_Subset, FS_CardinalityType
<1>3. Sizes \subseteq Nat /\ Sizes # {}
  BY <1>1, <1>2
<1>4. PICK m \in Sizes : \A k \in Sizes : m <= k
  <2> HIDE DEF Sizes
  <2> QED
    BY <1>3, LeastOf
<1>5. PICK s \in F : m = Cardinality(s)
  BY <1>4
<1>6. s \in SUBSET S /\ s \notin T /\ s # {}
  BY <1>5
<1>7. ASSUME NEW x \in s
      PROVE  s \ {x} \in T
  <2>1. s \ {x} \in SUBSET S /\ Cardinality(s \ {x}) = Cardinality(s) - 1
    BY <1>2, <1>6, <1>7, FS_RemoveElement
  <2>2. s \ {x} \notin F
    <3> SUFFICES ASSUME s \ {x} \in F PROVE FALSE
      OBVIOUS
    <3>1. m <= Cardinality(s \ {x})
      BY <1>4
    <3> QED
      BY <1>2, <1>5, <1>6, <2>1, <3>1
  <2> QED
    BY <2>1, <2>2
<1> QED
  BY <1>6, <1>7

Some(s) == CHOOSE x \in s : TRUE

(* g sums f over each subset of its domain, from an element of it on.      *)
Sums(g, f, S) ==
  /\ IsFiniteSet(S) /\ f \in [S -> Int] /\ g \in [SUBSET S -> Int]
  /\ g[{}] = 0
  /\ \A s \in SUBSET S : s # {} => g[s] = f[Some(s)] + g[s \ {Some(s)}]

(* Some picks an element.                                                  *)
LEMMA SomeIn == ASSUME NEW s, s # {} PROVE Some(s) \in s
BY DEF Some

(* There is such a g, built over the subsets of growing size.              *)
LEMMA SumExists ==
  ASSUME NEW S, IsFiniteSet(S), NEW f \in [S -> Int]
  PROVE  \E g : Sums(g, f, S)
<1> DEFINE N == Cardinality(S)
           Small(n) == {s \in SUBSET S : Cardinality(s) <= n}
           Good(n) == \E g \in [Small(n) -> Int] :
                        /\ g[{}] = 0
                        /\ \A s \in Small(n) : s # {} => g[s] = f[Some(s)] + g[s \ {Some(s)}]
           T == {n \in 0..N : Good(n)}
<1>1. N \in Nat /\ \A s \in SUBSET S : Cardinality(s) \in 0..N /\ IsFiniteSet(s)
  BY FS_Subset, FS_CardinalityType
<1>2. \A s \in SUBSET S : s # {} =>
        /\ Some(s) \in s /\ s \ {Some(s)} \in SUBSET S
        /\ Cardinality(s \ {Some(s)}) = Cardinality(s) - 1
        /\ f[Some(s)] \in Int
  BY <1>1, SomeIn, FS_RemoveElement
<1>3. {} \in SUBSET S /\ Cardinality({}) = 0 /\ \A s \in SUBSET S : s # {} => Cardinality(s) > 0
  BY <1>1, FS_EmptySet
<1>4. 0 \in T
  <2> DEFINE g == [s \in Small(0) |-> 0]
  <2>1. \A s \in Small(0) : s = {}
    BY <1>1, <1>3
  <2>2. {} \in Small(0)
    BY <1>3
  <2>3. g \in [Small(0) -> Int] /\ g[{}] = 0
    BY <2>2
  <2> HIDE DEF g, Small
  <2>4. Good(0)
    BY <2>1, <2>3
  <2> QED
    BY <1>1, <2>4
<1>5. ASSUME NEW n \in 1..N, n - 1 \in T
      PROVE  n \in T
  <2>1. PICK g \in [Small(n - 1) -> Int] :
          /\ g[{}] = 0
          /\ \A s \in Small(n - 1) : s # {} => g[s] = f[Some(s)] + g[s \ {Some(s)}]
    BY <1>5
  <2> DEFINE h == [s \in Small(n) |-> IF s = {} THEN 0 ELSE f[Some(s)] + g[s \ {Some(s)}]]
  <2>2. \A s \in Small(n) : s # {} => s \ {Some(s)} \in Small(n - 1) /\ s \ {Some(s)} \in Small(n)
    BY <1>1, <1>2
  <2>3. {} \in Small(n - 1) /\ {} \in Small(n) /\ Small(n) \subseteq SUBSET S
    BY <1>1, <1>3
  <2>4. \A s \in Small(n) : s \in Small(n - 1) => h[s] = g[s]
    <3> HIDE DEF Small
    <3> QED
      BY <2>1, <2>3
  <2>5. h \in [Small(n) -> Int]
    <3> HIDE DEF Small
    <3> QED
      BY <1>2, <2>1, <2>2, <2>3
  <2>6. h[{}] = 0 /\ \A s \in Small(n) : s # {} => h[s] = f[Some(s)] + h[s \ {Some(s)}]
    <3> HIDE DEF Small
    <3>1. \A s \in Small(n) : s # {} => h[s \ {Some(s)}] = g[s \ {Some(s)}]
      <4> HIDE DEF h
      <4> QED
        BY <2>2, <2>4
    <3> QED
      BY <2>3, <3>1
  <2> HIDE DEF h, Small
  <2>7. Good(n)
    BY <2>5, <2>6
  <2> QED
    BY <2>7
<1>6. Good(N)
  <2>1. \A n \in 0..N : n \in T
    <3> HIDE DEF T, N
    <3> QED
      BY <1>1, <1>4, <1>5, AlongList
  <2> QED
    BY <1>1, <2>1
<1>7. Small(N) = SUBSET S
  BY <1>1
<1> HIDE DEF Small, N
<1> QED
  BY <1>6, <1>7 DEF Sums

(* What SumFunction computes.                                              *)
LEMMA SumIs ==
  ASSUME NEW S, IsFiniteSet(S), NEW f \in [S -> Int]
  PROVE  \E g : Sums(g, f, S) /\ SumFunction(f) = g[S]
<1> DEFINE Walk(g) == g = [s \in SUBSET S |-> IF s = {} THEN 0 ELSE f[Some(s)] + g[s \ {Some(s)}]]
<1>1. PICK g : Sums(g, f, S)
  BY SumExists
<1>2. Walk(g)
  BY <1>1 DEF Sums
<1>3. \A h : Walk(h) => h = g
  <2> SUFFICES ASSUME NEW h, Walk(h) PROVE h = g
    OBVIOUS
  <2>1. h = [s \in SUBSET S |-> h[s]]
    OBVIOUS
  <2>2. h[{}] = 0 /\ \A s \in SUBSET S : s # {} => h[s] = f[Some(s)] + h[s \ {Some(s)}]
    OBVIOUS
  <2> DEFINE T == {s \in SUBSET S : h[s] = g[s]}
  <2>3. {} \in T
    BY <1>1, <2>2 DEF Sums
  <2>4. ASSUME NEW s \in SUBSET S, s # {}, \A x \in s : s \ {x} \in T
        PROVE  s \in T
    <3>1. s \ {Some(s)} \in T
      BY <2>4, SomeIn
    <3> QED
      BY <1>1, <2>2, <2>4, <3>1 DEF Sums
  <2>5. \A s \in SUBSET S : s \in T
    <3> HIDE DEF T
    <3> QED
      BY <2>3, <2>4, OverSubsets
  <2> QED
    BY <1>1, <2>1, <2>5 DEF Sums
<1>4. SumFunction(f) = (CHOOSE h : Walk(h))[S]
  BY DEF SumFunction, SumFunctionOnSet, FoldFunctionOnSet, MapThenFoldSet, Some
<1>5. SumFunction(f) = g[S]
  <2> HIDE DEF Walk
  <2> QED
    BY <1>2, <1>3, <1>4
<1> QED
  BY <1>1, <1>5

SplitsAt(g, f, s, x) == g[s] = f[x] + g[s \ {x}]

(* Any element may be summed first.                                        *)
LEMMA SumSplits ==
  ASSUME NEW S, NEW f, NEW g, Sums(g, f, S), NEW r \in SUBSET S, NEW z \in r
  PROVE  SplitsAt(g, f, r, z)
<1>3. IsFiniteSet(S) /\ f \in [S -> Int] /\ g \in [SUBSET S -> Int]
  BY DEF Sums
<1> DEFINE T == {s \in SUBSET S : \A x \in s : g[s] = f[x] + g[s \ {x}]}
<1>1. {} \in T
  OBVIOUS
<1>2. ASSUME NEW s \in SUBSET S, s # {}, \A x \in s : s \ {x} \in T
      PROVE  s \in T
  <2> SUFFICES ASSUME NEW x \in s PROVE g[s] = f[x] + g[s \ {x}]
    OBVIOUS
  <2> DEFINE y == Some(s)
  <2>1. y \in s
    BY <1>2, SomeIn
  <2>2. g[s] = f[y] + g[s \ {y}]
    BY <1>2 DEF Sums
  <2> HIDE DEF y
  <2>3. CASE x = y
    BY <2>2, <2>3
  <2>4. CASE x # y
    <3> DEFINE u == (s \ {y}) \ {x}
    <3>1. u = (s \ {x}) \ {y} /\ x \in s \ {y} /\ y \in s \ {x} /\ u \in SUBSET S
      BY <2>1, <2>4
    <3>2. g[s \ {y}] = f[x] + g[u]
      BY <1>2, <2>1, <3>1
    <3>3. g[s \ {x}] = f[y] + g[u]
      BY <1>2, <2>1, <3>1
    <3>4. f[x] \in Int /\ f[y] \in Int /\ g[u] \in Int
      BY <1>3, <2>1, <3>1
    <3> QED
      BY <2>2, <3>2, <3>3, <3>4
  <2> QED
    BY <2>3, <2>4
<1> QED
  <2>1. \A s \in SUBSET S : s \in T
    <3> HIDE DEF T
    <3> QED
      BY <1>1, <1>2, <1>3, OverSubsets
  <2> QED
    BY <2>1 DEF SplitsAt

(* What is zero does not count.                                            *)
LEMMA SumSkips ==
  ASSUME NEW S, NEW f, NEW g, Sums(g, f, S),
         NEW t \in SUBSET S, \A x \in S \ t : f[x] = 0
  PROVE  g[S] = g[t]
<1>3. IsFiniteSet(S) /\ f \in [S -> Int] /\ g \in [SUBSET S -> Int]
  BY DEF Sums
<1> DEFINE T == {s \in SUBSET S : t \subseteq s => g[s] = g[t]}
<1>1. {} \in T
  OBVIOUS
<1>2. ASSUME NEW s \in SUBSET S, s # {}, \A x \in s : s \ {x} \in T
      PROVE  s \in T
  <2> SUFFICES ASSUME t \subseteq s, s # t PROVE g[s] = g[t]
    OBVIOUS
  <2>1. PICK x \in s : x \notin t
    OBVIOUS
  <2>2. g[s] = f[x] + g[s \ {x}]
    BY SumSplits DEF SplitsAt
  <2>3. f[x] = 0 /\ g[s \ {x}] = g[t] /\ g[t] \in Int
    BY <1>2, <1>3, <2>1
  <2> QED
    BY <2>2, <2>3
<1>4. S \in T
  <2>1. \A s \in SUBSET S : s \in T
    <3> HIDE DEF T
    <3> QED
      BY <1>1, <1>2, <1>3, OverSubsets
  <2> QED
    BY <2>1
<1> QED
  BY <1>4

TotalsAlong(c, f, e, N) == c[0] = 0 /\ \A n \in 1..N : c[n] = c[n - 1] + f[e[n]]

(* f is zero but at e[1], ..., e[N].                                       *)
ListsSupport(e, N, f, S) ==
  /\ e \in [1..N -> S]
  /\ \A i, j \in 1..N : e[i] = e[j] => i = j
  /\ \A x \in S : (\A n \in 1..N : x # e[n]) => f[x] = 0

(* A sum is where a running total along the places that count ends.        *)
LEMMA SumAlong ==
  ASSUME NEW S, IsFiniteSet(S), NEW f \in [S -> Int],
         NEW N \in Nat, NEW e, ListsSupport(e, N, f, S), NEW c, TotalsAlong(c, f, e, N)
  PROVE  SumFunction(f) = c[N]
<1>10. /\ e \in [1..N -> S]
       /\ \A i, j \in 1..N : e[i] = e[j] => i = j
       /\ \A x \in S : (\A n \in 1..N : x # e[n]) => f[x] = 0
  BY DEF ListsSupport
<1>1. PICK g : Sums(g, f, S) /\ SumFunction(f) = g[S]
  BY SumIs
<1>7. \A t \in SUBSET S : (\A x \in S \ t : f[x] = 0) => g[S] = g[t]
  BY <1>1, SumSkips
<1>8. g \in [SUBSET S -> Int]
  BY <1>1 DEF Sums
<1>9. ASSUME NEW r \in SUBSET S, NEW z \in r
      PROVE  g[r] = f[z] + g[r \ {z}]
  <2>1. SplitsAt(g, f, r, z)
    BY <1>1, SumSplits
  <2> QED
    BY <2>1 DEF SplitsAt
<1> DEFINE Upto(n) == {e[i] : i \in 1..n}
           T == {n \in 0..N : g[Upto(n)] = c[n]}
<1>2. 0 \in T
  <2>1. Upto(0) = {}
    OBVIOUS
  <2>2. g[Upto(0)] = c[0]
    BY <1>1, <2>1 DEF Sums, TotalsAlong
  <2> HIDE DEF Upto
  <2> QED
    BY <2>2
<1>3. ASSUME NEW n \in 1..N, n - 1 \in T
      PROVE  n \in T
  <2>1. Upto(n) \in SUBSET S /\ e[n] \in Upto(n)
    BY <1>10
  <2>2. Upto(n) \ {e[n]} = Upto(n - 1)
    <3>1. ASSUME NEW x \in Upto(n) \ {e[n]} PROVE x \in Upto(n - 1)
      <4>1. PICK i \in 1..n : x = e[i]
        BY <3>1
      <4>2. i # n
        BY <3>1, <4>1
      <4>3. i \in 1..(n - 1)
        BY <4>2
      <4> QED
        BY <4>1, <4>3
    <3>2. ASSUME NEW x \in Upto(n - 1) PROVE x \in Upto(n) \ {e[n]}
      <4>1. PICK i \in 1..(n - 1) : x = e[i]
        BY <3>2
      <4>2. i \in 1..n /\ i \in 1..N /\ i # n
        BY <4>1
      <4>3. e[i] # e[n]
        BY <1>10, <4>2
      <4> QED
        BY <4>1, <4>2, <4>3
    <3> HIDE DEF Upto
    <3> QED
      BY <3>1, <3>2
  <2> HIDE DEF Upto
  <2>3. g[Upto(n)] = f[e[n]] + g[Upto(n - 1)]
    <3>1. g[Upto(n)] = f[e[n]] + g[Upto(n) \ {e[n]}]
      BY <1>9, <2>1
    <3> QED
      BY <2>2, <3>1
  <2>4. f[e[n]] \in Int /\ g[Upto(n - 1)] \in Int /\ g[Upto(n - 1)] = c[n - 1]
    <3>1. Upto(n - 1) \in SUBSET S
      BY <2>1, <2>2
    <3> QED
      BY <1>3, <1>8, <1>10, <3>1
  <2>5. c[n] = c[n - 1] + f[e[n]]
    BY DEF TotalsAlong
  <2> QED
    BY <2>3, <2>4, <2>5
<1>4. g[Upto(N)] = c[N]
  <2>1. \A n \in 0..N : n \in T
    <3> HIDE DEF T
    <3> QED
      BY <1>2, <1>3, AlongList
  <2> HIDE DEF Upto
  <2> QED
    BY <2>1
<1>5. g[S] = g[Upto(N)]
  <2>1. Upto(N) \in SUBSET S
    BY <1>10
  <2>2. \A x \in S \ Upto(N) : f[x] = 0
    BY <1>10
  <2> HIDE DEF Upto
  <2> DEFINE t == Upto(N)
  <2>3. t \in SUBSET S /\ \A x \in S \ t : f[x] = 0
    BY <2>1, <2>2
  <2> HIDE DEF t
  <2>4. g[S] = g[t]
    BY <1>7, <2>3
  <2> QED
    BY <2>4 DEF t
<1> QED
  BY <1>1, <1>4, <1>5

(* The sum over no argument ...                                            *)
LEMMA SumNone ==
  ASSUME NEW f \in [{} -> Int]
  PROVE  SumFunction(f) = 0
<1>1. IsFiniteSet({})
  BY FS_EmptySet
<1>2. PICK g : Sums(g, f, {}) /\ SumFunction(f) = g[{}]
  BY <1>1, SumIs
<1> QED
  BY <1>2 DEF Sums

(* ... and over one.                                                       *)
LEMMA SumOne ==
  ASSUME NEW x, NEW f \in [{x} -> Int]
  PROVE  SumFunction(f) = f[x]
<1>1. IsFiniteSet({x})
  BY FS_Singleton
<1>2. PICK g : Sums(g, f, {x}) /\ SumFunction(f) = g[{x}]
  BY <1>1, SumIs
<1>3. SplitsAt(g, f, {x}, x)
  BY <1>2, SumSplits
<1>4. {x} \ {x} = {} /\ g[{}] = 0 /\ f[x] \in Int
  BY <1>2 DEF Sums
<1> QED
  BY <1>2, <1>3, <1>4 DEF SplitsAt

-----------------------------------------------------------------------------
(* Best execution                                                          *)

(* A function that is zero at the prices a ladder does not quote sums, over *)
(* all prices, to where its running total along the levels ends.           *)
LEMMA SumOverLevels ==
  ASSUME IsFiniteSet(Prices), NEW s \in Sides, NEW levels, Ladder(s, levels),
         NEW f \in [Prices -> Int], \A p \in Prices : ~HasLevel(levels, p) => f[p] = 0,
         NEW c, c[0] = 0,
         \A n \in 1..Len(levels) : c[n] = c[n - 1] + f[levels[n].price]
  PROVE  SumFunction(f) = c[Len(levels)]
<1> DEFINE N == Len(levels)
           e == [n \in 1..N |-> levels[n].price]
<1>1. levels \in Seq(Level) /\ N \in Nat /\ DOMAIN levels = 1..N
  BY DEF Ladder
<1>2. e \in [1..N -> Prices]
  BY <1>1, LevelFields
<1>3. \A i, j \in 1..N : e[i] = e[j] => i = j
  <2>1. Distinct(levels)
    BY LadderIsDistinct
  <2> QED
    BY <1>1, <2>1 DEF Distinct
<1>4. \A p \in Prices : (\A n \in 1..N : p # e[n]) => f[p] = 0
  BY <1>1 DEF HasLevel
<1>5. TotalsAlong(c, f, e, N)
  BY DEF TotalsAlong
<1>7. ListsSupport(e, N, f, Prices)
  BY <1>2, <1>3, <1>4 DEF ListsSupport
<1> HIDE DEF e, N
<1>6. SumFunction(f) = c[N]
  BY <1>1, <1>7, <1>5, SumAlong
<1> QED
  BY <1>6 DEF N

(* Along the walk, a level gives no more than it holds, and all of it      *)
(* before the next gives anything.                                         *)
LEMMA WalkExhausts ==
  ASSUME NEW levels \in Seq(Level), NEW q \in Nat, NEW left, left = Remaining(levels, q)
  PROVE  /\ \A n \in 1..Len(levels) : left[n - 1] - left[n] \in 0..levels[n].quantity
         /\ \A m, n \in 1..Len(levels) :
              m < n /\ left[n] < left[n - 1] => left[m - 1] - left[m] = levels[m].quantity
<1> DEFINE N == Len(levels)
<1>1. N \in Nat /\ \A n \in 1..N : levels[n].quantity \in Nat \ {0} /\ n \in 0..N /\ n - 1 \in 0..N
  <2>1. N \in Nat /\ DOMAIN levels = 1..N
    OBVIOUS
  <2>2. \A n \in 1..N : levels[n].quantity \in Quantities
    BY <2>1, LevelFields
  <2> HIDE DEF N
  <2>3. \A n \in 1..N : n \in 0..N /\ n - 1 \in 0..N
    BY <2>1
  <2> QED
    BY <2>1, <2>2, <2>3, QuotesAssumption
<1>2. /\ left \in [0..N -> 0..q] /\ left[0] = q
      /\ \A n \in 1..N : /\ left[n] <= left[n - 1]
                         /\ left[n - 1] > 0 => left[n] < left[n - 1]
                         /\ left[n] = IF left[n - 1] <= levels[n].quantity THEN 0
                                      ELSE left[n - 1] - levels[n].quantity
  BY RemainingIs
<1> HIDE DEF N
<1>3. \A n \in 0..N : left[n] \in Nat
  BY <1>2
<1>4. \A n \in 1..N : left[n - 1] - left[n] \in 0..levels[n].quantity
  <2> SUFFICES ASSUME NEW n \in 1..N PROVE left[n - 1] - left[n] \in 0..levels[n].quantity
    OBVIOUS
  <2>1. left[n] \in Nat /\ left[n - 1] \in Nat /\ levels[n].quantity \in Nat
    BY <1>1, <1>3
  <2>2. left[n] = IF left[n - 1] <= levels[n].quantity THEN 0
                  ELSE left[n - 1] - levels[n].quantity
    BY <1>2
  <2> QED
    BY <2>1, <2>2
<1> DEFINE T == {n \in 0..N : \A m \in 0..N : m <= n => left[n] <= left[m]}
<1>5. \A n \in 0..N : n \in T
  <2>1. 0 \in T
    BY <1>1, <1>3
  <2>2. ASSUME NEW n \in 1..N, n - 1 \in T
        PROVE  n \in T
    <3>1. n \in 0..N /\ n - 1 \in 0..N /\ left[n] \in Nat /\ left[n - 1] \in Nat
      BY <1>1, <1>3
    <3>2. left[n] <= left[n - 1]
      BY <1>2
    <3>3. ASSUME NEW m \in 0..N, m <= n
          PROVE  left[n] <= left[m]
      <4>1. CASE m = n
        BY <3>1, <4>1
      <4>2. CASE m # n
        <5>1. m <= n - 1 /\ left[m] \in Nat
          BY <1>3, <3>1, <3>3, <4>2
        <5>2. left[n - 1] <= left[m]
          BY <2>2, <5>1
        <5> QED
          BY <3>1, <3>2, <5>1, <5>2
      <4> QED
        BY <4>1, <4>2
    <3> QED
      BY <3>1, <3>3
  <2> HIDE DEF T
  <2> QED
    BY <1>1, <2>1, <2>2, AlongList
<1>6. ASSUME NEW m \in 1..N, NEW n \in 1..N, m < n, left[n] < left[n - 1]
      PROVE  left[m - 1] - left[m] = levels[m].quantity
  <2>1. n \in 0..N /\ n - 1 \in 0..N /\ m \in 0..N /\ m - 1 \in 0..N /\ m <= n - 1
    BY <1>1, <1>6
  <2>2. left[n - 1] <= left[m]
    BY <1>5, <2>1
  <2>3. left[m] > 0
    BY <1>3, <1>6, <2>1, <2>2
  <2>4. levels[m].quantity \in Nat /\ left[m - 1] \in Nat /\ left[m] \in Nat
    BY <1>1, <1>3, <2>1
  <2>5. left[m] = IF left[m - 1] <= levels[m].quantity THEN 0
                  ELSE left[m - 1] - levels[m].quantity
    BY <1>2
  <2> QED
    BY <2>3, <2>4, <2>5
<1> QED
  BY <1>4, <1>6 DEF N

(* What an order takes at a price is what the level of that price gives.   *)
LEMMA TakenIs ==
  ASSUME NEW s \in Sides, NEW levels, Ladder(s, levels), NEW q \in Nat,
         NEW left, left = Remaining(levels, q), NEW p \in Prices
  PROVE  /\ \A n \in DOMAIN levels :
              levels[n].price = p => Taken(Fills(levels, q), p) = left[n - 1] - left[n]
         /\ ~HasLevel(levels, p) => Taken(Fills(levels, q), p) = 0
<1> DEFINE fills == Fills(levels, q)
           atPrice == {n \in DOMAIN fills : fills[n].price = p}
           f == [n \in atPrice |-> fills[n].quantity]
<1>1. levels \in Seq(Level) /\ DOMAIN levels = 1..Len(levels)
  BY DEF Ladder
<1>2. /\ DOMAIN fills = {k \in DOMAIN levels : left[k] < left[k - 1]}
      /\ \A k \in DOMAIN fills : /\ fills[k].price = levels[k].price
                                 /\ fills[k].quantity = left[k - 1] - left[k]
  BY DEF Fills
<1>3. \A n \in DOMAIN levels : left[n - 1] - left[n] \in Nat
  <2> SUFFICES ASSUME NEW n \in DOMAIN levels PROVE left[n - 1] - left[n] \in Nat
    OBVIOUS
  <2>1. left[n - 1] - left[n] \in 0..levels[n].quantity
    BY <1>1, WalkExhausts
  <2> QED
    BY <2>1
<1>4. Taken(fills, p) = SumFunction(f)
  BY DEF Taken
<1> HIDE DEF fills
<1>5. \A k \in atPrice : k \in DOMAIN levels /\ levels[k].price = p
                         /\ fills[k].quantity = left[k - 1] - left[k]
  BY <1>2
<1>6. ASSUME atPrice = {}
      PROVE  Taken(fills, p) = 0
  <2>1. f \in [{} -> Int]
    BY <1>6
  <2> HIDE DEF f
  <2> QED
    BY <1>4, <2>1, SumNone
<1>7. ASSUME NEW n \in DOMAIN levels, levels[n].price = p
      PROVE  Taken(fills, p) = left[n - 1] - left[n]
  <2>1. \A k \in atPrice : k = n
    BY <1>5, <1>7, LadderIsDistinct DEF Distinct
  <2>2. CASE n \in DOMAIN fills
    <3>1. atPrice = {n} /\ fills[n].quantity = left[n - 1] - left[n]
      BY <1>2, <1>7, <2>1, <2>2
    <3>2. f \in [{n} -> Int] /\ f[n] = left[n - 1] - left[n]
      BY <1>3, <3>1
    <3> HIDE DEF f
    <3> QED
      BY <1>4, <3>2, SumOne
  <2>3. CASE n \notin DOMAIN fills
    <3>1. atPrice = {}
      BY <2>1, <2>3
    <3>2. Taken(fills, p) = 0
      BY <1>6, <3>1
    <3>3. ~(left[n] < left[n - 1]) /\ left[n - 1] - left[n] \in Nat
      BY <1>2, <1>3, <1>7, <2>3
    <3>4. left[n] \in Nat /\ left[n - 1] \in Nat
      <4>1. left \in [0..Len(levels) -> 0..q]
        BY <1>1, RemainingIs
      <4>2. n \in 0..Len(levels) /\ n - 1 \in 0..Len(levels)
        BY <1>1
      <4> QED
        BY <4>1, <4>2
    <3> QED
      BY <3>2, <3>3, <3>4
  <2> QED
    BY <2>2, <2>3
<1>8. ASSUME ~HasLevel(levels, p)
      PROVE  Taken(fills, p) = 0
  <2>1. atPrice = {}
    BY <1>5, <1>8 DEF HasLevel
  <2> QED
    BY <1>6, <2>1
<1> QED
  BY <1>7, <1>8 DEF fills

(* What the first levels hold in all.                                      *)
DepthsAlong(c, levels) ==
  c[0] = 0 /\ \A n \in 1..Len(levels) : c[n] = c[n - 1] + levels[n].quantity

(* What of an order of q a side that holds d leaves.                       *)
Beyond(q, d) == IF q <= d THEN 0 ELSE q - d

(* What is left is the order less all that the levels hold.                *)
LEMMA LeftOfDepth ==
  ASSUME NEW levels \in Seq(Level), NEW q \in Nat, NEW left, left = Remaining(levels, q)
  PROVE  \E c \in [0..Len(levels) -> Nat] :
           DepthsAlong(c, levels) /\ left[Len(levels)] = Beyond(q, c[Len(levels)])
<1> DEFINE N == Len(levels)
           step == [n \in 1..N |-> [x \in Nat |-> x + levels[n].quantity]]
<1>1. N \in Nat /\ \A n \in 1..N : levels[n].quantity \in Nat
  <2>1. N \in Nat /\ DOMAIN levels = 1..N
    OBVIOUS
  <2>2. \A n \in 1..N : levels[n].quantity \in Quantities
    BY <2>1, LevelFields
  <2> QED
    BY <2>1, <2>2, QuotesAssumption
<1>2. step \in [1..N -> [Nat -> Nat]]
  BY <1>1
<1>3. PICK c \in [0..N -> Nat] : Follows(c, 0, step, N)
  <2>1. 0 \in Nat
    OBVIOUS
  <2> HIDE DEF step, N
  <2> QED
    BY <1>1, <1>2, <2>1, Recursion
<1>4. /\ left \in [0..N -> 0..q] /\ left[0] = q
      /\ \A n \in 1..N : left[n] = IF left[n - 1] <= levels[n].quantity THEN 0
                                   ELSE left[n - 1] - levels[n].quantity
  BY RemainingIs
<1>5. c[0] = 0
  BY <1>3 DEF Follows
<1>6. ASSUME NEW n \in 1..N
      PROVE  /\ c[n - 1] \in Nat /\ n \in 0..N /\ n - 1 \in 0..N
             /\ c[n] = c[n - 1] + levels[n].quantity
  <2>1. n \in 0..N /\ n - 1 \in 0..N
    BY <1>1
  <2>2. c[n - 1] \in Nat
    BY <1>3, <2>1
  <2>3. c[n] = step[n][c[n - 1]]
    BY <1>3 DEF Follows
  <2>4. step[n][c[n - 1]] = c[n - 1] + levels[n].quantity
    BY <2>2
  <2> QED
    BY <2>1, <2>2, <2>3, <2>4
<1> HIDE DEF N, step
<1> DEFINE T == {n \in 0..N : left[n] = IF q <= c[n] THEN 0 ELSE q - c[n]}
<1>7. 0 \in T
  BY <1>1, <1>4, <1>5
<1>8. ASSUME NEW n \in 1..N, n - 1 \in T
      PROVE  n \in T
  <2>1. left[n - 1] = IF q <= c[n - 1] THEN 0 ELSE q - c[n - 1]
    BY <1>8
  <2>2. left[n] = IF left[n - 1] <= levels[n].quantity THEN 0
                  ELSE left[n - 1] - levels[n].quantity
    BY <1>4
  <2>3. levels[n].quantity \in Nat
    BY <1>1
  <2>4. left[n] = IF q <= c[n] THEN 0 ELSE q - c[n]
    BY <1>6, <2>1, <2>2, <2>3
  <2> QED
    BY <1>6, <2>4
<1>9. N \in T
  <2>1. \A n \in 0..N : n \in T
    <3> HIDE DEF T
    <3> QED
      BY <1>1, <1>7, <1>8, AlongList
  <2> HIDE DEF T
  <2> QED
    BY <1>1, <2>1
<1> QED
  BY <1>5, <1>6, <1>9 DEF N, DepthsAlong, Beyond

(* On a ladder the walk from the first level is best execution.            *)
LEMMA ExecutesBest ==
  ASSUME Ladders, IsFiniteSet(Prices)
  PROVE  BestExecution
<1> SUFFICES ASSUME NEW side \in {"buy", "sell"}, NEW q \in 1..(Depth(OtherSide(side)) + 1)
    PROVE  LET s == OtherSide(side)
               quoted(p) == QuantityAt(book[s], p)
               match == Match(side, q)
               taken(p) == Taken(match.fills, p)
           IN  /\ match.filled = Min({q, Depth(s)})
               /\ match.filled + match.remaining = q
               /\ SumFunction([p \in Prices |-> taken(p)]) = match.filled
               /\ SumFunction([p \in Prices |-> p * taken(p)]) = match.value
               /\ \A p \in Prices :
                    /\ taken(p) <= quoted(p)
                    /\ \A r \in Prices : Better(s, p, r) /\ taken(r) > 0 => taken(p) = quoted(p)
  BY DEF BestExecution
<1> DEFINE s == OtherSide(side)
           levels == book[s]
           N == Len(levels)
           left == Remaining(levels, q)
           weighted == WeightedPrice(levels, q)
           taken(p) == Taken(Fills(levels, q), p)
           quoted(p) == QuantityAt(levels, p)
<1>1. s \in Sides /\ Ladder(s, levels)
  <2>1. s \in Sides
    BY DEF OtherSide, Sides
  <2> HIDE DEF s
  <2> QED
    BY <2>1, LaddersBySide
<1>2. q \in Nat
  OBVIOUS
<1>3. /\ Match(side, q).filled = q - left[N] /\ Match(side, q).remaining = left[N]
      /\ Match(side, q).fills = Fills(levels, q) /\ Match(side, q).value = weighted[N]
  BY DEF Match
<1>4. Depth(s) = SumFunction([p \in Prices |-> quoted(p)])
  BY DEF Depth
<1> HIDE DEF s, levels
<1>5. levels \in Seq(Level) /\ N \in Nat /\ DOMAIN levels = 1..N
  BY <1>1 DEF Ladder
<1>6. /\ left \in [0..N -> 0..q] /\ left[0] = q
      /\ \A n \in 1..N : left[n] <= left[n - 1]
  BY <1>2, <1>5, RemainingIs
<1>20. \E c \in [0..N -> Nat] :
          DepthsAlong(c, levels) /\ left[N] = Beyond(q, c[N])
  BY <1>2, <1>5, LeftOfDepth
<1>21. CostsAlong(weighted, left, levels)
  BY <1>2, <1>5, WeightedPriceIs
<1>7. /\ \A n \in 1..N : left[n - 1] - left[n] \in 0..levels[n].quantity
      /\ \A m, n \in 1..N :
           m < n /\ left[n] < left[n - 1] => left[m - 1] - left[m] = levels[m].quantity
  BY <1>2, <1>5, WalkExhausts
<1>8. \A n \in 1..N : /\ levels[n].price \in Prices /\ levels[n].price \in Nat
                      /\ levels[n].quantity \in Nat
                      /\ n \in 0..N /\ n - 1 \in 0..N
                      /\ left[n] \in Nat /\ left[n - 1] \in Nat
  <2> SUFFICES ASSUME NEW n \in 1..N
      PROVE  /\ levels[n].price \in Prices /\ levels[n].price \in Nat
             /\ levels[n].quantity \in Nat
             /\ n \in 0..N /\ n - 1 \in 0..N
             /\ left[n] \in Nat /\ left[n - 1] \in Nat
    OBVIOUS
  <2>1. levels[n].price \in Prices /\ levels[n].quantity \in Quantities
    BY <1>5, LevelFields
  <2> HIDE DEF N, left
  <2>2. n \in 0..N /\ n - 1 \in 0..N
    BY <1>5
  <2>3. left[n] \in 0..q /\ left[n - 1] \in 0..q
    BY <1>6, <2>2
  <2>4. left[n] \in Nat /\ left[n - 1] \in Nat
    BY <1>2, <2>3
  <2>5. levels[n].price \in Nat /\ levels[n].quantity \in Nat
    BY <2>1, QuotesAssumption
  <2> QED
    BY <2>1, <2>2, <2>4, <2>5
<1> HIDE DEF left, weighted
<1>9. \A n \in 1..N : /\ taken(levels[n].price) = left[n - 1] - left[n]
                      /\ quoted(levels[n].price) = levels[n].quantity
  BY <1>1, <1>2, <1>5, <1>8, TakenIs, QuantityFound DEF left
<1>10. \A p \in Prices : ~HasLevel(levels, p) => taken(p) = 0 /\ quoted(p) = 0
  BY <1>1, <1>2, TakenIs, QuantityFound
<1>11. \A p \in Prices : HasLevel(levels, p) => \E n \in 1..N : levels[n].price = p
  BY <1>5 DEF HasLevel
<1> HIDE DEF taken, quoted, N
<1>12. \A p \in Prices : taken(p) \in Int /\ quoted(p) \in Int /\ p * taken(p) \in Int
  <2>1. ASSUME NEW p \in Prices
        PROVE  taken(p) \in Int /\ quoted(p) \in Int
    <3>1. CASE HasLevel(levels, p)
      <4>1. PICK n \in 1..N : levels[n].price = p
        BY <1>11, <3>1
      <4>2. taken(p) = left[n - 1] - left[n] /\ quoted(p) = levels[n].quantity
        BY <1>9, <4>1
      <4>3. left[n] \in Nat /\ left[n - 1] \in Nat /\ levels[n].quantity \in Nat
        BY <1>8
      <4> QED
        BY <4>2, <4>3
    <3>2. CASE ~HasLevel(levels, p)
      BY <1>10, <3>2
    <3> QED
      BY <3>1, <3>2
  <2> QED
    BY <2>1, QuotesAssumption
<1>13. Match(side, q).filled = Min({q, Depth(s)})
  <2> DEFINE f == [p \in Prices |-> quoted(p)]
  <2>1. PICK c \in [0..N -> Nat] :
          /\ c[0] = 0
          /\ \A n \in 1..N : c[n] = c[n - 1] + levels[n].quantity
          /\ left[N] = IF q <= c[N] THEN 0 ELSE q - c[N]
    BY <1>20 DEF DepthsAlong, Beyond, N
  <2>2. /\ f \in [Prices -> Int] /\ \A p \in Prices : ~HasLevel(levels, p) => f[p] = 0
        /\ \A n \in 1..N : c[n] = c[n - 1] + f[levels[n].price]
    BY <1>8, <1>9, <1>10, <1>12, <2>1
  <2> HIDE DEF f
  <2>3. SumFunction(f) = c[N]
    BY <1>1, <2>1, <2>2, SumOverLevels DEF N
  <2>4. c[N] \in Int
    BY <1>5, <2>1
  <2>5. Min({q, c[N]}) = IF q <= c[N] THEN q ELSE c[N]
    BY <1>2, <2>4, LesserOfTwo
  <2>6. q - left[N] = IF q <= c[N] THEN q ELSE c[N]
    BY <1>2, <2>1, <2>4
  <2>7. Depth(s) = c[N]
    BY <1>4, <2>3 DEF f
  <2> QED
    BY <1>3, <2>5, <2>6, <2>7
<1>14. Match(side, q).filled + Match(side, q).remaining = q
  BY <1>2, <1>3, <1>5, <1>6
<1>15. SumFunction([p \in Prices |-> taken(p)]) = Match(side, q).filled
  <2> DEFINE f == [p \in Prices |-> taken(p)]
             c == [n \in 0..N |-> q - left[n]]
  <2>1. f \in [Prices -> Int] /\ \A p \in Prices : ~HasLevel(levels, p) => f[p] = 0
    BY <1>10, <1>12
  <2>2. c[0] = 0
    BY <1>2, <1>5, <1>6
  <2>3. \A n \in 1..N : c[n] = c[n - 1] + f[levels[n].price]
    BY <1>2, <1>8, <1>9
  <2>4. c[N] = q - left[N]
    BY <1>5
  <2> HIDE DEF f, c
  <2>5. SumFunction(f) = c[N]
    BY <1>1, <2>1, <2>2, <2>3, SumOverLevels DEF N
  <2> QED
    BY <1>3, <2>4, <2>5 DEF f
<1>16. SumFunction([p \in Prices |-> p * taken(p)]) = Match(side, q).value
  <2> DEFINE f == [p \in Prices |-> p * taken(p)]
  <2>1. f \in [Prices -> Int] /\ \A p \in Prices : ~HasLevel(levels, p) => f[p] = 0
    <3>1. f \in [Prices -> Int]
      BY <1>12
    <3>2. ASSUME NEW p \in Prices, ~HasLevel(levels, p)
          PROVE  f[p] = 0
      <4>1. taken(p) = 0 /\ p \in Nat
        BY <1>10, <3>2, QuotesAssumption
      <4>2. p * 0 = 0
        BY <4>1
      <4> QED
        BY <4>1, <4>2
    <3> QED
      BY <3>1, <3>2
  <2>2. \A n \in 1..N : f[levels[n].price] = levels[n].price * (left[n - 1] - left[n])
    BY <1>8, <1>9
  <2>3. weighted[0] = 0
        /\ \A n \in 1..N :
             weighted[n] = weighted[n - 1] + levels[n].price * (left[n - 1] - left[n])
    BY <1>21 DEF CostsAlong, N
  <2> HIDE DEF f
  <2>4. \A n \in 1..N : weighted[n] = weighted[n - 1] + f[levels[n].price]
    <3> SUFFICES ASSUME NEW n \in 1..N
                 PROVE  weighted[n] = weighted[n - 1] + f[levels[n].price]
      OBVIOUS
    <3>1. weighted[n] = weighted[n - 1] + levels[n].price * (left[n - 1] - left[n])
      BY <2>3
    <3>2. f[levels[n].price] = levels[n].price * (left[n - 1] - left[n])
      BY <2>2
    <3> QED
      BY <3>1, <3>2, Zenon
  <2>5. SumFunction(f) = weighted[N]
    BY <1>1, <2>1, <2>3, <2>4, SumOverLevels DEF N
  <2> QED
    BY <1>3, <2>5 DEF f
<1>17. ASSUME NEW p \in Prices
       PROVE  taken(p) <= quoted(p)
  <2>1. CASE HasLevel(levels, p)
    <3>1. PICK n \in 1..N : levels[n].price = p
      BY <1>11, <2>1
    <3>2. taken(p) = left[n - 1] - left[n] /\ quoted(p) = levels[n].quantity
      BY <1>9, <3>1
    <3>3. left[n - 1] - left[n] \in 0..levels[n].quantity /\ levels[n].quantity \in Nat
      BY <1>7, <1>8
    <3> QED
      BY <3>2, <3>3
  <2>2. CASE ~HasLevel(levels, p)
    BY <1>10, <2>2
  <2> QED
    BY <2>1, <2>2
<1>18. ASSUME NEW p \in Prices, NEW r \in Prices, Better(s, p, r), taken(r) > 0
       PROVE  taken(p) = quoted(p)
  <2>1. HasLevel(levels, r)
    BY <1>10, <1>18
  <2>2. PICK n \in 1..N : levels[n].price = r
    BY <1>11, <2>1
  <2>3. left[n] < left[n - 1]
    BY <1>8, <1>9, <1>18, <2>2
  <2>4. CASE HasLevel(levels, p)
    <3>1. PICK m \in 1..N : levels[m].price = p
      BY <1>11, <2>4
    <3>2. m < n
      <4>1. ~Better(s, r, p) /\ p # r
        BY <1>1, <1>18, BetterIsOrder
      <4>2. m \in Int /\ n \in Int /\ m # n
        BY <1>5, <2>2, <3>1, <4>1
      <4>3. n < m => Better(s, r, p)
        BY <1>1, <1>5, <2>2, <3>1 DEF Ladder
      <4> QED
        BY <4>1, <4>2, <4>3
    <3>3. left[m - 1] - left[m] = levels[m].quantity
      BY <1>7, <2>3, <3>2
    <3> QED
      BY <1>9, <3>1, <3>3
  <2>5. CASE ~HasLevel(levels, p)
    BY <1>10, <2>5
  <2> QED
    BY <2>4, <2>5
<1> QED
  BY <1>3, <1>13, <1>14, <1>15, <1>16, <1>17, <1>18 DEF taken, quoted, levels, s

(* Whatever updates built the book, an order is filled as far as its other *)
(* side can fill it, at no price beyond what is quoted there, and at a     *)
(* price only when every better one is exhausted; its fills add up to      *)
(* filledQuantity and their cost to averageFillPrice times it.             *)
THEOREM MatchesBestFirst ==
  ASSUME IsFiniteSet(Prices)
  PROVE  BookSpec => []BestExecution
<1>1. Ladders => BestExecution
  BY ExecutesBest
<1> QED
  BY <1>1, BookInvariant, PTL

-----------------------------------------------------------------------------
(* Sizing                                                                  *)

LEMMA CancelFactorLeq ==
  ASSUME NEW a \in Int, NEW b \in Int, NEW c \in Nat \ {0}, a * c <= b * c
  PROVE  a <= b
<1>1. SUFFICES ASSUME b < a PROVE FALSE
  OBVIOUS
<1>2. a - b >= 1 /\ a - b \in Int
  BY <1>1
<1>3. (a - b) * c >= c
  BY <1>2
<1>4. (a - b) * c = a * c - b * c
  OBVIOUS
<1> QED
  BY <1>3, <1>4

(* No more than a fraction of the cash: the value is at most the cash.     *)
LEMMA CapIs ==
  ASSUME NEW cash \in Nat, NEW percent \in 0..100, NEW cap, cap = Fraction(cash * percent, 100)
  PROVE  /\ cap \in Rational /\ cap.num >= 0 /\ cap.num <= cash * cap.den
<1> DEFINE n == cash * percent
           c == cap.num
           d == cap.den
<1>1. n \in Nat /\ n <= cash * 100
  <2>1. cash * percent \in Nat /\ cash * (100 - percent) >= 0
    OBVIOUS
  <2>2. cash * (100 - percent) = cash * 100 - cash * percent
    OBVIOUS
  <2> QED
    BY <2>1, <2>2
<1>2. cap = Fraction(n, 100)
  OBVIOUS
<1> HIDE DEF n
<1>3. cap \in Rational /\ c * 100 = n * d /\ c >= 0
  BY <1>1, <1>2, FractionIs
<1>4. c \in Int /\ d \in Nat \ {0}
  BY <1>3 DEF Rational
<1>5. c * 100 <= (cash * d) * 100
  <2> HIDE DEF c, d
  <2>1. (cash * 100 - n) * d >= 0
    <3>1. cash * 100 - n \in Nat
      BY <1>1
    <3> QED
      BY <1>4, <3>1
  <2>2. (cash * 100 - n) * d = (cash * d) * 100 - n * d
    BY <1>1, <1>4
  <2>3. n * d \in Int /\ (cash * d) * 100 \in Int
    BY <1>1, <1>4
  <2> QED
    BY <1>3, <2>1, <2>2, <2>3
<1>6. c <= cash * d
  <2>1. cash * d \in Int
    BY <1>4
  <2> HIDE DEF c, d
  <2> QED
    BY <1>4, <1>5, <2>1, CancelFactorLeq
<1> QED
  BY <1>3, <1>6

LEMMA UncappedIs ==
  ASSUME portfolio.cash \in Nat, NEW method \in Methods,
         NEW entry \in Prices, NEW stop \in Prices, ~SizingThrows(method, entry, stop)
  PROVE  UncappedValue(method, entry, stop) \in Rational
         /\ UncappedValue(method, entry, stop).num >= 0
<1>1. entry \in Nat /\ stop \in Nat /\ method \in {"fixedFraction", "riskBased"}
      /\ Allocation \in Nat /\ RiskFraction \in Nat
  BY QuotesAssumption, SessionAssumption
<1>2. CASE method = "fixedFraction"
  <2>1. portfolio.cash * Allocation \in Nat
    BY <1>1
  <2>2. UncappedValue(method, entry, stop) = Fraction(portfolio.cash * Allocation, 100)
    BY <1>2 DEF UncappedValue
  <2> DEFINE n == portfolio.cash * Allocation
  <2> HIDE DEF n
  <2> QED
    BY <2>1, <2>2, FractionIs DEF n
<1>3. CASE method = "riskBased"
  <2> DEFINE n == portfolio.cash * RiskFraction * entry
             d == 100 * Magnitude(entry - stop)
  <2>1. n \in Nat
    <3>1. portfolio.cash * RiskFraction \in Nat
      BY <1>1
    <3> QED
      BY <1>1, <3>1
  <2>2. d \in Nat \ {0}
    BY <1>1, <1>3 DEF SizingThrows, Magnitude
  <2>3. UncappedValue(method, entry, stop) = Fraction(n, d)
    BY <1>3 DEF UncappedValue
  <2> HIDE DEF n, d
  <2> QED
    BY <2>1, <2>2, <2>3, FractionIs
<1> QED
  BY <1>1, <1>2, <1>3

(* An entry is affordable at its own price.                                *)
LEMMA EntryIsAffordable ==
  ASSUME portfolio.cash \in Nat, NEW method \in Methods,
         NEW entry \in Prices, NEW stop \in Prices, ~SizingThrows(method, entry, stop),
         NEW multiplier \in Multipliers,
         NEW value, value = PositionValue(method, entry, stop),
         NEW q, q = (value.num * multiplier) \div (value.den * entry * 100)
  PROVE  q \in Nat /\ entry * q <= portfolio.cash
<1> DEFINE cash == portfolio.cash
           uncapped == UncappedValue(method, entry, stop)
           cap == Fraction(cash * MaxAllocation, 100)
<1>1. cap \in Rational /\ cap.num >= 0 /\ cap.num <= cash * cap.den
  BY CapIs, SessionAssumption
<1>2. uncapped \in Rational /\ uncapped.num >= 0
  BY UncappedIs
<1>3. value = IF AtMost(uncapped, cap) THEN uncapped ELSE cap
  BY DEF PositionValue
<1> HIDE DEF uncapped, cap
<1> DEFINE n == value.num
           d == value.den
<1>4. n \in Nat /\ d \in Nat \ {0} /\ n <= cash * d
  <2>1. CASE value = cap
    BY <1>1, <2>1 DEF Rational
  <2>2. CASE value = uncapped /\ AtMost(uncapped, cap)
    <3> DEFINE un == uncapped.num
               ud == uncapped.den
               cn == cap.num
               cd == cap.den
    <3>1. /\ un \in Nat /\ ud \in Nat \ {0} /\ cn \in Nat /\ cd \in Nat \ {0}
          /\ cash \in Nat /\ cn <= cash * cd /\ un * cd <= cn * ud
      BY <1>1, <1>2, <2>2 DEF Rational, AtMost
    <3> HIDE DEF un, ud, cn, cd, cash
    <3>2. un * cd <= (cash * ud) * cd
      <4>1. (cash * cd - cn) * ud >= 0
        <5>1. cash * cd - cn \in Nat
          BY <3>1
        <5> QED
          BY <3>1, <5>1
      <4>2. (cash * cd - cn) * ud = (cash * ud) * cd - cn * ud
        BY <3>1
      <4>3. cn * ud \in Int /\ (cash * ud) * cd \in Int /\ un * cd \in Int
        BY <3>1
      <4> QED
        BY <3>1, <4>1, <4>2, <4>3
    <3>3. un <= cash * ud
      <4>1. cash * ud \in Int
        BY <3>1
      <4> QED
        BY <3>1, <3>2, <4>1, CancelFactorLeq
    <3> QED
      BY <2>2, <3>1, <3>3 DEF un, ud
  <2> QED
    BY <1>3, <2>1, <2>2
<1>5. entry \in Nat \ {0} /\ multiplier \in 0..100 /\ cash \in Nat
  BY QuotesAssumption, SessionAssumption
<1>6. q = (n * multiplier) \div (d * entry * 100)
  OBVIOUS
<1> HIDE DEF n, d, cash
<1> DEFINE scaled == n * multiplier
           unit == d * entry * 100
<1>7. scaled \in Nat /\ scaled <= n * 100
  <2>1. n * multiplier \in Nat /\ n * (100 - multiplier) >= 0
    BY <1>4, <1>5
  <2>2. n * (100 - multiplier) = n * 100 - n * multiplier
    BY <1>4, <1>5
  <2> QED
    BY <1>4, <2>1, <2>2
<1>8. unit \in Nat \ {0}
  <2>1. d * entry \in Nat \ {0}
    BY <1>4, <1>5
  <2> QED
    BY <2>1
<1>9. q = scaled \div unit
  BY <1>6
<1> HIDE DEF scaled, unit
<1>10. q \in Nat /\ q * unit <= scaled
  <2>1. q \in Int /\ (scaled % unit) \in 0..(unit - 1) /\ scaled = q * unit + (scaled % unit)
    <3>1. scaled \in Int
      BY <1>7
    <3>2. /\ scaled \div unit \in Int /\ (scaled % unit) \in 0..(unit - 1)
          /\ scaled = (scaled \div unit) * unit + (scaled % unit)
      BY <1>8, <3>1, Division, Zenon
    <3> QED
      BY <1>9, <3>2
  <2>2. q * unit <= scaled
    BY <1>7, <1>8, <2>1
  <2>3. CASE q <= -1
    <3>1. (-q) * unit >= unit /\ q * unit = -((-q) * unit)
      BY <1>8, <2>1, <2>3
    <3> QED
      BY <1>7, <1>8, <2>1, <3>1
  <2> QED
    BY <2>1, <2>2, <2>3
<1>11. (entry * q) * d <= n
  <2>1. q * unit = ((entry * q) * d) * 100
    BY <1>4, <1>5, <1>10 DEF unit
  <2>2. (entry * q) * d \in Int
    BY <1>4, <1>5, <1>10
  <2>3. ((entry * q) * d) * 100 <= n * 100
    BY <1>4, <1>7, <1>8, <1>10, <2>1, <2>2
  <2> QED
    BY <1>4, <2>2, <2>3
<1>12. entry * q \in Int /\ (entry * q) * d \in Int /\ cash * d \in Int
  BY <1>4, <1>5, <1>10
<1>13. (entry * q) * d <= cash * d
  BY <1>4, <1>11, <1>12
<1>14. entry * q <= cash
  BY <1>4, <1>5, <1>12, <1>13, CancelFactorLeq
<1> QED
  BY <1>10, <1>14 DEF cash

-----------------------------------------------------------------------------
(* The inductive invariant                                                 *)

During == {"created", "submitted", "accepted", "matched", "filled", "positioned"}

OrderRecord ==
  {o \in [id : Nat, side : {"buy", "sell"}, quantity : Nat \ {0}, filled : Nat,
          price : Prices, status : Active \cup {"rejected", "filled", "cancelled"}] :
     o.filled <= o.quantity}

RecordsInv ==
  /\ stage \in During \cup {"watching", "threw"}
  /\ stage \in During => order \in OrderRecord
  /\ order # NoOrder => order \in OrderRecord
  /\ allowed \in BOOLEAN /\ slipped \in BOOLEAN
  /\ position \in [quantity : Nat, average : Rational, realized : Rational]
  /\ portfolio \in [cash : Nat, quantity : Nat, average : Rational, realized : Rational]
  /\ orders \in 0..MaxOrders /\ bought \in Nat /\ sold \in Nat

(* The status of an order at each call.                                    *)
LifeInv ==
  /\ stage \in {"created", "submitted"} => order.status = stage /\ order.filled = 0
  /\ stage \in {"accepted", "matched"} =>
       order.status \in {"accepted", "partiallyFilled"} /\ order.filled < order.quantity
  /\ stage \in {"filled", "positioned"} =>
       order.status = IF order.filled = order.quantity THEN "filled" ELSE "partiallyFilled"

(* What a match reports.                                                   *)
ReportInv ==
  stage \in {"matched", "filled", "positioned"} =>
    /\ report.filled \in Nat \ {0} /\ report.value \in Nat
    /\ stage = "matched" => report.filled <= Unfilled(order)
    /\ order.side = "buy" /\ ~slipped => report.value <= order.price * report.filled

(* What of the order is not in the position yet.                           *)
ToHold == IF stage = "filled" THEN Unfilled(order) + report.filled ELSE Unfilled(order)

(* What of the order is not in the portfolio yet.                          *)
ToPay ==
  IF stage \in {"filled", "positioned"} THEN Unfilled(order) + report.filled
  ELSE Unfilled(order)

(* The position is what was bought less what was sold, but for the fill    *)
(* being booked; an order to sell is for all of it.                        *)
HoldingInv ==
  /\ stage # "filled" => position.quantity = bought - sold
  /\ stage = "filled" /\ order.side = "buy" =>
       position.quantity = bought - sold - report.filled
  /\ stage = "filled" /\ order.side = "sell" =>
       position.quantity = bought - sold + report.filled
  /\ stage \in During /\ order.side = "sell" => position.quantity = ToHold

(* The cash covers what is left of a purchase at the price of the order.   *)
CashInv ==
  stage \in During /\ order.side = "buy" /\ ~slipped =>
    order.price * ToPay <= portfolio.cash

(* The portfolio when it has booked the report that the position holds.    *)
Booked ==
  IF order.side = "buy" THEN PortfolioBuy(portfolio, report.filled, report.value)
  ELSE PortfolioSell(portfolio, report.filled, report.value)

Agree(account) ==
  /\ position.quantity = account.quantity
  /\ position.average = account.average
  /\ position.realized = account.realized

AgreeInv ==
  /\ stage # "positioned" /\ thrown # "cash" => Agree(portfolio)
  /\ stage = "positioned" => Agree(Booked)

ThrownInv ==
  /\ OnlyExpectedExceptions /\ ShortOfCashOnlyBySlippage /\ ApartByTheRefusedFill
  /\ stage = "threw" <=> thrown # "none"

SessionInv ==
  /\ RecordsInv /\ LifeInv /\ ReportInv /\ HoldingInv /\ CashInv /\ AgreeInv /\ ThrownInv
  /\ MoneyConserved

IInv == Ladders /\ SessionInv

USE DEF During

LEMMA OrderFields ==
  ASSUME NEW o \in OrderRecord
  PROVE  /\ o \in [id : Nat, side : {"buy", "sell"}, quantity : Nat \ {0}, filled : Nat,
                   price : Prices, status : Active \cup {"rejected", "filled", "cancelled"}]
         /\ o.side \in {"buy", "sell"} /\ o.quantity \in Nat \ {0} /\ o.filled \in Nat
         /\ o.filled <= o.quantity /\ o.price \in Nat
         /\ Unfilled(o) \in Nat /\ Unfilled(o) = o.quantity - o.filled
<1>1. /\ o \in [id : Nat, side : {"buy", "sell"}, quantity : Nat \ {0}, filled : Nat,
                price : Prices, status : Active \cup {"rejected", "filled", "cancelled"}]
      /\ o.filled <= o.quantity
  BY DEF OrderRecord
<1>2. /\ o.side \in {"buy", "sell"} /\ o.quantity \in Nat \ {0} /\ o.filled \in Nat
      /\ o.price \in Prices
  BY <1>1
<1>3. o.price \in Nat
  BY <1>2, QuotesAssumption
<1> QED
  BY <1>1, <1>2, <1>3 DEF Unfilled

LEMMA SessionStart ==
  ASSUME Init
  PROVE  SessionInv
<1>1. /\ stage = "watching" /\ order = NoOrder /\ allowed = FALSE /\ report = NoReport
      /\ position = Flat /\ portfolio = Initialize(Capital) /\ thrown = "none"
      /\ orders = 0 /\ bought = 0 /\ sold = 0 /\ slipped = FALSE
  BY DEF Init
<1>2. Capital \in Nat /\ MaxOrders \in Nat
  BY SessionAssumption
<1>3. Whole(0) \in Rational
  BY DEF Whole, Rational
<1>4. /\ position = [quantity |-> 0, average |-> Whole(0), realized |-> Whole(0)]
      /\ portfolio = [cash |-> Capital, quantity |-> 0, average |-> Whole(0),
                      realized |-> Whole(0)]
  BY <1>1 DEF Flat, Initialize
<1>5. RecordsInv
  <2>1. /\ position \in [quantity : Nat, average : Rational, realized : Rational]
        /\ portfolio \in [cash : Nat, quantity : Nat, average : Rational, realized : Rational]
    BY <1>2, <1>3, <1>4
  <2>2. orders \in 0..MaxOrders /\ bought \in Nat /\ sold \in Nat
    BY <1>1, <1>2
  <2> QED
    BY <1>1, <2>1, <2>2 DEF RecordsInv
<1>6. LifeInv /\ ReportInv /\ CashInv
  BY <1>1 DEF LifeInv, ReportInv, CashInv
<1>7. HoldingInv /\ AgreeInv
  BY <1>1, <1>4 DEF HoldingInv, AgreeInv, Agree
<1>8. ThrownInv
  BY <1>1 DEF ThrownInv, OnlyExpectedExceptions, ShortOfCashOnlyBySlippage,
      ApartByTheRefusedFill
<1>9. MoneyConserved
  <2>1. Times(0, Whole(0)) = Whole(0)
    <3>1. Denotes(Whole(0), 0, 1)
      BY WholeDenotes
    <3>2. Times(0, Whole(0)) = Fraction(0, 1)
      BY <3>1, TimesDenotes
    <3>3. Fraction(0, 1) = Whole(0)
      <4>1. LeastDenominator(0, 1) = 1
        BY LeastDenominatorIs
      <4>2. (0 * 1) \div 1 = 0
        OBVIOUS
      <4> QED
        BY <4>1, <4>2 DEF Fraction, Whole
    <3> QED
      BY <3>2, <3>3
  <2> QED
    BY <1>4, <2>1 DEF MoneyConserved
<1> QED
  BY <1>5, <1>6, <1>7, <1>8, <1>9 DEF SessionInv

(* Market data leaves the session alone.                                   *)
LEMMA MarketKeepsInv ==
  ASSUME SessionInv, UNCHANGED session
  PROVE  SessionInv'
BY DEF SessionInv, RecordsInv, LifeInv, ReportInv, HoldingInv, CashInv, AgreeInv, ThrownInv,
       OnlyExpectedExceptions, ShortOfCashOnlyBySlippage, ApartByTheRefusedFill,
       ApartByOneFill, MoneyConserved,
       ToHold, ToPay, Booked, Agree, session, accounts, history

(* An exception is one of those expected.                                  *)
LEMMA ThrowKeepsInv ==
  ASSUME SessionInv, NEW what, Throw(what),
         \/ stage = "watching" /\ what \in {"sizing", "orderQuantity"}
         \/ stage = "accepted" /\ what = "emptySide"
         \/ stage = "positioned" /\ what = "cash" /\ slipped /\ ApartByOneFill
  PROVE  SessionInv'
<1>1. /\ thrown' = what /\ stage' = "threw" /\ order' = order /\ allowed' = allowed
      /\ report' = report /\ position' = position /\ portfolio' = portfolio
      /\ orders' = orders /\ bought' = bought /\ sold' = sold /\ slipped' = slipped
  BY DEF Throw, accounts, history
<1>2. /\ RecordsInv /\ LifeInv /\ HoldingInv /\ AgreeInv /\ ThrownInv /\ MoneyConserved
  BY DEF SessionInv
<1>3. RecordsInv'
  BY <1>1, <1>2 DEF RecordsInv
<1>4. LifeInv' /\ ReportInv' /\ CashInv'
  BY <1>1, <1>2 DEF LifeInv, ReportInv, CashInv
<1>5. HoldingInv'
  BY <1>1, <1>2 DEF HoldingInv
<1>6. AgreeInv'
  BY <1>1, <1>2 DEF AgreeInv, Agree, ThrownInv
<1>7. ThrownInv'
  <2>1. what = "cash" => ApartByOneFill'
    BY <1>1 DEF ApartByOneFill
  <2> QED
    BY <1>1, <2>1
       DEF ThrownInv, OnlyExpectedExceptions, ShortOfCashOnlyBySlippage, ApartByTheRefusedFill
<1>8. MoneyConserved'
  BY <1>1, <1>2 DEF MoneyConserved
<1> QED
  BY <1>3, <1>4, <1>5, <1>6, <1>7, <1>8 DEF SessionInv

-----------------------------------------------------------------------------
(* The calls                                                               *)

LEMMA DecideKeepsInv ==
  ASSUME SessionInv, NEW signal \in {"aboveEntry", "between", "belowExit"},
         NEW method \in Methods, NEW entry \in Prices, NEW stop \in Prices,
         NEW multiplier \in Multipliers, NEW drawdown \in BOOLEAN, NEW loss \in BOOLEAN,
         Decide(signal, method, entry, stop, multiplier, drawdown, loss)
  PROVE  SessionInv'
<1> DEFINE action == Action(signal)
           value == PositionValue(method, entry, stop)
           side == IF action = "enterLong" THEN "buy" ELSE "sell"
           q == OrderQuantity(action, value, entry, multiplier)
<1>1. stage = "watching" /\ orders < MaxOrders /\ action # "hold"
  BY DEF Decide
<1>2. CASE SizingThrows(method, entry, stop)
  <2>1. Throw("sizing")
    BY <1>2 DEF Decide
  <2> QED
    BY <1>1, <2>1, ThrowKeepsInv
<1>3. CASE ~SizingThrows(method, entry, stop) /\ q = 0
  <2>1. Throw("orderQuantity")
    BY <1>3 DEF Decide, CreateOrder
  <2> QED
    BY <1>1, <2>1, ThrowKeepsInv
<1>4. CASE ~SizingThrows(method, entry, stop) /\ q # 0
  <2>1. /\ order' = Create(orders, side, q, entry) /\ stage' = "created"
        /\ orders' = orders + 1 /\ slipped' = FALSE /\ report' = report
        /\ position' = position /\ portfolio' = portfolio /\ thrown' = thrown
        /\ bought' = bought /\ sold' = sold
    BY <1>4 DEF Decide, CreateOrder, accounts
  <2>2. allowed' = RiskAllows(value, drawdown, loss)
    BY <1>4, <2>1 DEF Decide
  <2>3. /\ RecordsInv /\ HoldingInv /\ AgreeInv /\ ThrownInv /\ MoneyConserved
    BY DEF SessionInv
  <2>4. /\ position.quantity \in Nat /\ portfolio.cash \in Nat /\ orders \in Nat
        /\ entry \in Nat /\ MaxOrders \in Nat
    BY <2>3, QuotesAssumption, SessionAssumption DEF RecordsInv
  <2>5. \/ action = "enterLong" /\ side = "buy"
        \/ action = "exitLong" /\ side = "sell" /\ q = position.quantity
    BY <1>1 DEF Action, OrderQuantity
  <2>6. q \in Nat \ {0} /\ (side = "buy" => entry * q <= portfolio.cash)
    <3>1. CASE action = "enterLong"
      <4>1. q = (value.num * multiplier) \div (value.den * entry * 100)
        BY <3>1 DEF OrderQuantity
      <4> HIDE DEF q, value
      <4>2. q \in Nat /\ entry * q <= portfolio.cash
        <5> USE DEF value
        <5> QED
          BY <1>4, <2>4, <4>1, EntryIsAffordable
      <4> QED
        BY <1>4, <4>2
    <3>2. CASE action # "enterLong"
      BY <1>4, <2>4, <2>5, <3>2
    <3> QED
      BY <3>1, <3>2
  <2>7. allowed' \in BOOLEAN
    BY <2>2 DEF RiskAllows
  <2> HIDE DEF q, value, side, action
  <2>8. /\ order' \in OrderRecord /\ order'.side = side /\ order'.quantity = q
        /\ order'.filled = 0 /\ order'.price = entry /\ order'.status = "created"
        /\ Unfilled(order') = q
    <3> DEFINE new == Create(orders, side, q, entry)
    <3>1. new = [id |-> orders, side |-> side, quantity |-> q, filled |-> 0,
                 price |-> entry, status |-> "created"]
      BY DEF Create
    <3>2. side \in {"buy", "sell"} /\ "created" \in Active
      BY <2>5 DEF Active
    <3> HIDE DEF new
    <3>3. new \in OrderRecord
      BY <2>4, <2>6, <3>1, <3>2 DEF OrderRecord
    <3>4. /\ new.side = side /\ new.quantity = q /\ new.filled = 0 /\ new.price = entry
          /\ new.status = "created"
      BY <3>1
    <3>6. order' = new
      BY <2>1 DEF new
    <3>7. /\ order'.side = side /\ order'.quantity = q /\ order'.filled = 0
          /\ order'.price = entry /\ order'.status = "created"
      BY <3>4, <3>6
    <3>9. order' \in OrderRecord
      BY <3>3, <3>6
    <3>8. Unfilled(order') = q
      BY <2>6, <3>7 DEF Unfilled
    <3> QED
      BY <3>7, <3>8, <3>9
  <2>9. RecordsInv'
    <3>1. orders' \in 0..MaxOrders
      <4>1. orders \in 0..MaxOrders
        BY <2>3 DEF RecordsInv
      <4> QED
        BY <1>1, <2>1, <2>4, <4>1
    <3>2. slipped' \in BOOLEAN
      BY <2>1
    <3>3. bought' \in Nat /\ sold' \in Nat
      BY <2>1, <2>3 DEF RecordsInv
    <3>4. /\ position' \in [quantity : Nat, average : Rational, realized : Rational]
          /\ portfolio' \in [cash : Nat, quantity : Nat, average : Rational, realized : Rational]
      BY <2>1, <2>3 DEF RecordsInv
    <3>5. order' \in OrderRecord /\ stage' = "created"
      BY <2>1, <2>8
    <3> QED
      BY <2>7, <3>1, <3>2, <3>3, <3>4, <3>5 DEF RecordsInv
  <2>10. LifeInv' /\ ReportInv'
    BY <2>1, <2>8 DEF LifeInv, ReportInv
  <2>11. HoldingInv'
    <3>1. ToHold' = q
      BY <2>1, <2>8 DEF ToHold, Unfilled
    <3> QED
      BY <1>1, <2>1, <2>3, <2>5, <2>8, <3>1 DEF HoldingInv
  <2>12. CashInv'
    <3>1. ToPay' = q
      BY <2>1, <2>8 DEF ToPay, Unfilled
    <3> QED
      BY <2>1, <2>6, <2>8, <3>1 DEF CashInv
  <2>13. AgreeInv' /\ MoneyConserved'
    BY <1>1, <2>1, <2>3 DEF AgreeInv, Agree, MoneyConserved
  <2>14. ThrownInv'
    BY <1>1, <2>1, <2>3 DEF ThrownInv, OnlyExpectedExceptions, ShortOfCashOnlyBySlippage,
      ApartByTheRefusedFill
  <2> QED
    BY <2>9, <2>10, <2>11, <2>12, <2>13, <2>14 DEF SessionInv
<1> QED
  BY <1>2, <1>3, <1>4

(* A change of the order's status alone.                                   *)
LEMMA ReturnKeepsInv ==
  ASSUME SessionInv, NEW status \in Active \cup {"rejected", "filled", "cancelled"},
         NEW next, stage \in {"created", "submitted", "accepted"},
         Return([order EXCEPT !.status = status], next),
         \/ next = "watching"
         \/ stage = "created" /\ next = "submitted" /\ status = "submitted"
         \/ stage = "submitted" /\ next = "accepted" /\ status = "accepted"
  PROVE  SessionInv'
<1>1. /\ order' = [order EXCEPT !.status = status] /\ stage' = next
      /\ allowed' = allowed /\ report' = report /\ position' = position
      /\ portfolio' = portfolio /\ thrown' = thrown /\ orders' = orders
      /\ bought' = bought /\ sold' = sold /\ slipped' = slipped
  BY DEF Return, accounts, history
<1>2. /\ RecordsInv /\ LifeInv /\ HoldingInv /\ CashInv /\ AgreeInv /\ ThrownInv
      /\ MoneyConserved
  BY DEF SessionInv
<1>3. order \in OrderRecord
  BY <1>2 DEF RecordsInv
<1>4. /\ order' \in OrderRecord /\ order'.status = status /\ order'.filled = order.filled
      /\ order'.side = order.side /\ order'.price = order.price
      /\ order'.quantity = order.quantity
  BY <1>1, <1>3 DEF OrderRecord
<1>5. Unfilled(order') = Unfilled(order)
  BY <1>4 DEF Unfilled
<1>6. RecordsInv'
  BY <1>1, <1>2, <1>4 DEF RecordsInv
<1>7. LifeInv'
  <2>1. stage = "submitted" => order.filled = 0 /\ order.quantity > 0
    BY <1>2, <1>3, OrderFields DEF LifeInv
  <2>2. stage = "created" => order.filled = 0
    BY <1>2 DEF LifeInv
  <2> QED
    BY <1>1, <1>4, <2>1, <2>2 DEF LifeInv
<1>8. ReportInv'
  BY <1>1 DEF ReportInv
<1>9. HoldingInv' /\ CashInv'
  <2>1. stage' \in During => ToHold' = ToHold /\ ToPay' = ToPay
    BY <1>1, <1>5 DEF ToHold, ToPay, Unfilled
  <2>2. HoldingInv'
    BY <1>1, <1>2, <1>4, <2>1 DEF HoldingInv
  <2>3. CashInv'
    BY <1>1, <1>2, <1>4, <2>1 DEF CashInv
  <2> QED
    BY <2>2, <2>3
<1>10. AgreeInv' /\ MoneyConserved'
  BY <1>1, <1>2 DEF AgreeInv, Agree, MoneyConserved
<1>11. ThrownInv'
  BY <1>1, <1>2 DEF ThrownInv, OnlyExpectedExceptions, ShortOfCashOnlyBySlippage,
      ApartByTheRefusedFill
<1> QED
  BY <1>6, <1>7, <1>8, <1>9, <1>10, <1>11 DEF SessionInv

(* A match fills some of what the order lacks, at a cost that its price    *)
(* bounds unless a fill was above it.                                      *)
LEMMA TakingKeepsInv ==
  ASSUME SessionInv, BookTypeOK, MatchOrder, book[OtherSide(order.side)] # <<>>
  PROVE  SessionInv'
<1> DEFINE q == Unfilled(order)
           match == Match(order.side, q)
           above == \E n \in DOMAIN match.fills : match.fills[n].price > order.price
<1>1. /\ stage = "accepted" /\ book[OtherSide(order.side)] # <<>> /\ report' = match
      /\ slipped' = (slipped \/ above)
      /\ stage' = "matched" /\ order' = order /\ allowed' = allowed /\ position' = position
      /\ portfolio' = portfolio /\ thrown' = thrown /\ orders' = orders
      /\ bought' = bought /\ sold' = sold
  BY DEF MatchOrder, accounts
<1>2. /\ RecordsInv /\ LifeInv /\ HoldingInv /\ CashInv /\ AgreeInv /\ ThrownInv
      /\ MoneyConserved
  BY DEF SessionInv
<1>3. order \in OrderRecord /\ order.side \in {"buy", "sell"} /\ order.price \in Nat
      /\ q \in Nat \ {0}
  BY <1>1, <1>2, OrderFields DEF RecordsInv, LifeInv
<1>4. /\ match.filled \in 1..q /\ match.value \in Nat
      /\ \A price \in Nat :
           (\A n \in DOMAIN match.fills : match.fills[n].price <= price)
             => match.value <= price * match.filled
  BY <1>1, <1>3, MatchIs
<1>5. ~above => match.value <= order.price * match.filled
  <2>1. ASSUME ~above, NEW n \in DOMAIN match.fills
        PROVE  match.fills[n].price <= order.price
    <3>1. match.fills[n].price \in Nat
      <4>1. book[OtherSide(order.side)] \in Seq(Level)
        BY <1>3 DEF BookTypeOK, OtherSide, Sides
      <4>2. /\ n \in DOMAIN book[OtherSide(order.side)]
            /\ match.fills[n].price = book[OtherSide(order.side)][n].price
        BY DEF Match, Fills
      <4> QED
        BY <4>1, <4>2, LevelFields, QuotesAssumption
    <3> QED
      BY <1>3, <2>1, <3>1
  <2> QED
    BY <1>3, <1>4, <2>1
<1>6. slipped' \in BOOLEAN /\ (~slipped' => ~slipped /\ ~above)
  BY <1>1, <1>2 DEF RecordsInv
<1> HIDE DEF match, above, q
<1>7. RecordsInv'
  BY <1>1, <1>2, <1>6 DEF RecordsInv
<1>8. LifeInv'
  BY <1>1, <1>2 DEF LifeInv
<1>9. ReportInv'
  <2>1. match.filled \in Nat \ {0} /\ match.filled <= q
    BY <1>3, <1>4
  <2> QED
    BY <1>1, <1>4, <1>5, <1>6, <2>1 DEF ReportInv, q, Unfilled
<1>10. HoldingInv' /\ CashInv'
  <2>1. ToHold' = ToHold /\ ToPay' = ToPay
    BY <1>1 DEF ToHold, ToPay, Unfilled
  <2>2. HoldingInv'
    BY <1>1, <1>2, <2>1 DEF HoldingInv
  <2>3. CashInv'
    BY <1>1, <1>2, <1>6, <2>1 DEF CashInv
  <2> QED
    BY <2>2, <2>3
<1>11. AgreeInv' /\ MoneyConserved'
  BY <1>1, <1>2 DEF AgreeInv, Agree, MoneyConserved
<1>12. ThrownInv'
  BY <1>1, <1>2 DEF ThrownInv, OnlyExpectedExceptions, ShortOfCashOnlyBySlippage,
      ApartByTheRefusedFill
<1> QED
  BY <1>7, <1>8, <1>9, <1>10, <1>11, <1>12 DEF SessionInv

(* On an empty side matching throws.                                       *)
LEMMA MatchKeepsInv ==
  ASSUME SessionInv, BookTypeOK, MatchOrder
  PROVE  SessionInv'
<1>1. CASE book[OtherSide(order.side)] = <<>>
  <2>1. stage = "accepted" /\ Throw("emptySide")
    BY <1>1 DEF MatchOrder
  <2> QED
    BY <2>1, ThrowKeepsInv
<1>2. CASE book[OtherSide(order.side)] # <<>>
  BY <1>2, TakingKeepsInv
<1> QED
  BY <1>1, <1>2

(* The order takes what was matched, which is never more than it lacks.    *)
LEMMA FillKeepsInv ==
  ASSUME SessionInv, FillOrder
  PROVE  SessionInv'
<1> DEFINE q == report.filled
<1>1. stage = "matched"
  BY DEF FillOrder
<1>2. /\ RecordsInv /\ LifeInv /\ ReportInv /\ HoldingInv /\ CashInv /\ AgreeInv
      /\ ThrownInv /\ MoneyConserved
  BY DEF SessionInv
<1>3. /\ order \in OrderRecord
      /\ order.status \in {"accepted", "partiallyFilled"}
      /\ q \in Nat \ {0} /\ q <= Unfilled(order)
  BY <1>1, <1>2 DEF RecordsInv, LifeInv, ReportInv
<1>4. MayFill(order, q)
  BY <1>3 DEF MayFill
<1>5. /\ order' = Fill(order, q) /\ stage' = "filled"
      /\ order.side = "buy" => bought' = bought + q /\ sold' = sold
      /\ order.side # "buy" => sold' = sold + q /\ bought' = bought
      /\ allowed' = allowed /\ report' = report /\ position' = position
      /\ portfolio' = portfolio /\ thrown' = thrown /\ orders' = orders
      /\ slipped' = slipped
  BY <1>1, <1>4 DEF FillOrder, accounts
<1>6. /\ order.side \in {"buy", "sell"} /\ order.quantity \in Nat /\ order.filled \in Nat
      /\ Unfilled(order) = order.quantity - order.filled
  BY <1>3, OrderFields
<1> DEFINE status == IF q = Unfilled(order) THEN "filled" ELSE "partiallyFilled"
           filled == order.filled + q
<1>7. /\ order' \in OrderRecord /\ order'.status = status /\ order'.filled = filled
      /\ order'.side = order.side /\ order'.price = order.price
      /\ order'.quantity = order.quantity /\ Unfilled(order') = order.quantity - filled
  <2>1. order' = [order EXCEPT !.filled = filled, !.status = status]
    BY <1>3, <1>5 DEF Fill, OrderRecord
  <2>2. filled \in Nat /\ filled <= order.quantity
    BY <1>3, <1>6
  <2>3. status \in Active \cup {"rejected", "filled", "cancelled"}
    BY DEF Active
  <2> HIDE DEF status, filled
  <2>4. /\ order' \in OrderRecord /\ order'.status = status /\ order'.filled = filled
        /\ order'.side = order.side /\ order'.price = order.price
        /\ order'.quantity = order.quantity
    BY <1>3, <2>1, <2>2, <2>3 DEF OrderRecord
  <2> QED
    BY <2>4 DEF Unfilled
<1>8. status = IF filled = order.quantity THEN "filled" ELSE "partiallyFilled"
  BY <1>3, <1>6
<1>9. RecordsInv'
  BY <1>2, <1>3, <1>5, <1>6, <1>7 DEF RecordsInv
<1>10. LifeInv'
  BY <1>3, <1>5, <1>7, <1>8 DEF LifeInv
<1>11. ReportInv'
  BY <1>1, <1>2, <1>5, <1>7 DEF ReportInv
<1>12. HoldingInv' /\ CashInv'
  <2>1. /\ ToHold = order.quantity - order.filled /\ ToPay = order.quantity - order.filled
    BY <1>1, <1>6 DEF ToHold, ToPay
  <2>2. ToHold' = (order.quantity - filled) + q /\ ToPay' = (order.quantity - filled) + q
    BY <1>5, <1>7 DEF ToHold, ToPay, Unfilled
  <2>3. ToHold' = ToHold /\ ToPay' = ToPay
    BY <1>3, <1>6, <2>1, <2>2
  <2>4. position.quantity \in Nat /\ bought \in Nat /\ sold \in Nat
    BY <1>2 DEF RecordsInv
  <2>5. HoldingInv'
    BY <1>1, <1>2, <1>3, <1>5, <1>6, <1>7, <2>3, <2>4 DEF HoldingInv
  <2>6. CashInv'
    BY <1>1, <1>2, <1>5, <1>7, <2>3 DEF CashInv
  <2> QED
    BY <2>5, <2>6
<1>13. AgreeInv' /\ MoneyConserved'
  BY <1>1, <1>2, <1>5 DEF AgreeInv, Agree, MoneyConserved
<1>14. ThrownInv'
  BY <1>1, <1>2, <1>5 DEF ThrownInv, OnlyExpectedExceptions, ShortOfCashOnlyBySlippage,
      ApartByTheRefusedFill
<1> QED
  BY <1>9, <1>10, <1>11, <1>12, <1>13, <1>14 DEF SessionInv

(* The position can always sell what the order sold.                       *)
LEMMA BookPositionKeepsInv ==
  ASSUME SessionInv, BookPosition
  PROVE  SessionInv'
<1> DEFINE q == report.filled
           value == report.value
           held == position.quantity
           left == Unfilled(order)
<1>1. stage = "filled"
  BY DEF BookPosition
<1>2. /\ RecordsInv /\ LifeInv /\ ReportInv /\ HoldingInv /\ CashInv /\ AgreeInv
      /\ ThrownInv /\ MoneyConserved
  BY DEF SessionInv
<1>3. order \in OrderRecord /\ q \in Nat \ {0} /\ value \in Nat
      /\ bought \in Nat /\ sold \in Nat
  BY <1>1, <1>2 DEF RecordsInv, ReportInv
<1>4. order.side \in {"buy", "sell"} /\ left \in Nat
  BY <1>3, OrderFields
<1>5. /\ position \in [quantity : Nat, average : Rational, realized : Rational]
      /\ portfolio \in [cash : Nat, quantity : Nat, average : Rational, realized : Rational]
  BY <1>2 DEF RecordsInv
<1>6. /\ held \in Nat /\ position.average \in Rational /\ position.realized \in Rational
      /\ portfolio.cash \in Nat
  BY <1>5
<1>7. /\ portfolio.quantity = held /\ portfolio.average = position.average
      /\ portfolio.realized = position.realized
  BY <1>1, <1>2 DEF AgreeInv, Agree, ThrownInv
<1>8. order.side = "sell" => held = left + q
  BY <1>1, <1>2 DEF HoldingInv, ToHold
<1>9. order.side = "sell" => CanSell(position, q)
  BY <1>3, <1>4, <1>8 DEF CanSell
<1>10. /\ position' = IF order.side = "buy" THEN PositionBuy(position, q, value)
                      ELSE PositionSell(position, q, value)
       /\ stage' = "positioned" /\ order' = order /\ allowed' = allowed /\ report' = report
       /\ portfolio' = portfolio /\ thrown' = thrown /\ orders' = orders
       /\ bought' = bought /\ sold' = sold /\ slipped' = slipped
  BY <1>1, <1>9 DEF BookPosition, history
<1>11. Booked' = Booked
  BY <1>10 DEF Booked
<1> HIDE DEF held, left
<1>12. /\ position' \in [quantity : Nat, average : Rational, realized : Rational]
       /\ position'.quantity = IF order.side = "buy" THEN held + q ELSE held - q
       /\ position'.quantity = Booked.quantity /\ position'.average = Booked.average
       /\ position'.realized = Booked.realized
  <2>1. CASE order.side = "buy"
    <3> DEFINE next == Over(Plus(Times(held, position.average), Whole(value)), held + q)
    <3>1. position' = [position EXCEPT !.quantity = held + q, !.average = next]
      BY <1>5, <1>10, <2>1 DEF PositionBuy, held
    <3>2. next \in Rational
      <4>1. value \in Int /\ portfolio.cash \in Int
        BY <1>3, <1>6
      <4> QED
        BY <1>3, <1>6, <4>1, PurchaseConserves
    <3>3. Booked = [portfolio EXCEPT !.cash = portfolio.cash - value,
                                     !.quantity = held + q, !.average = next]
      BY <1>5, <1>7, <2>1 DEF Booked, PortfolioBuy
    <3> HIDE DEF next
    <3>4. Booked.quantity = held + q /\ Booked.average = next
          /\ Booked.realized = position.realized
      BY <1>5, <1>7, <3>3
    <3>5. /\ position' \in [quantity : Nat, average : Rational, realized : Rational]
          /\ position'.quantity = held + q /\ position'.average = next
          /\ position'.realized = position.realized
      <4>1. held + q \in Nat
        BY <1>3, <1>6
      <4> QED
        BY <1>5, <3>1, <3>2, <4>1
    <3> QED
      BY <2>1, <3>4, <3>5
  <2>2. CASE order.side = "sell"
    <3> DEFINE kept == IF q = held THEN Whole(0) ELSE position.average
               gained == Plus(position.realized,
                              Minus(Whole(value), Times(q, position.average)))
    <3>1. position' = [position EXCEPT !.quantity = held - q, !.realized = gained,
                                       !.average = kept]
      BY <1>5, <1>10, <2>2 DEF PositionSell, held
    <3>2. kept \in Rational /\ gained \in Rational
      <4>1. /\ portfolio.cash \in Int /\ value \in Int /\ Capital \in Int /\ q \in Nat
            /\ q <= held
        BY <1>3, <1>4, <1>6, <1>8, <2>2, SessionAssumption
      <4>2. Plus(Whole(portfolio.cash), Times(held, position.average))
              = Plus(Whole(Capital), position.realized)
        BY <1>2, <1>7 DEF MoneyConserved
      <4> DEFINE average == position.average
                 realized == position.realized
                 cash == portfolio.cash
      <4>3. /\ average \in Rational /\ realized \in Rational /\ cash \in Int /\ held \in Nat
            /\ kept = (IF q = held THEN Whole(0) ELSE average)
            /\ gained = Plus(realized, Minus(Whole(value), Times(q, average)))
            /\ Plus(Whole(cash), Times(held, average)) = Plus(Whole(Capital), realized)
        BY <1>6, <4>1, <4>2
      <4> HIDE DEF kept, gained, average, realized, cash, q, value
      <4>4. /\ kept \in Rational /\ gained \in Rational
            /\ Plus(Whole(cash + value), Times(held - q, kept)) = Plus(Whole(Capital), gained)
        BY <4>1, <4>3, SaleConserves
      <4> QED
        BY <4>4
    <3>3. Booked = [portfolio EXCEPT !.cash = portfolio.cash + value,
                                     !.quantity = held - q, !.average = kept,
                                     !.realized = gained]
      BY <1>5, <1>7, <2>2 DEF Booked, PortfolioSell
    <3> HIDE DEF kept, gained
    <3>4. Booked.quantity = held - q /\ Booked.average = kept /\ Booked.realized = gained
      BY <1>5, <1>7, <3>3
    <3>5. /\ position' \in [quantity : Nat, average : Rational, realized : Rational]
          /\ position'.quantity = held - q /\ position'.average = kept
          /\ position'.realized = gained
      <4>1. held - q \in Nat
        BY <1>3, <1>4, <1>6, <1>8, <2>2
      <4> QED
        BY <1>5, <3>1, <3>2, <4>1
    <3> QED
      BY <2>2, <3>4, <3>5
  <2> QED
    BY <1>4, <2>1, <2>2
<1>13. RecordsInv'
  BY <1>2, <1>3, <1>10, <1>12 DEF RecordsInv
<1>14. LifeInv' /\ ReportInv'
  BY <1>1, <1>2, <1>10 DEF LifeInv, ReportInv
<1>15. HoldingInv'
  <2>1. order.side = "buy" => held = bought - sold - q
    BY <1>1, <1>2 DEF HoldingInv, held
  <2>2. order.side = "sell" => held = bought - sold + q
    BY <1>1, <1>2 DEF HoldingInv, held
  <2>3. position'.quantity = bought - sold
    BY <1>3, <1>4, <1>6, <1>12, <2>1, <2>2
  <2>4. order.side = "sell" => position'.quantity = left
    BY <1>3, <1>4, <1>6, <1>8, <1>12
  <2>5. ToHold' = left
    BY <1>10 DEF ToHold, Unfilled, left
  <2> QED
    BY <1>10, <2>3, <2>4, <2>5 DEF HoldingInv
<1>16. CashInv'
  <2>1. ToPay' = ToPay
    BY <1>1, <1>10 DEF ToPay, Unfilled
  <2> QED
    BY <1>1, <1>2, <1>10, <2>1 DEF CashInv
<1>17. AgreeInv'
  <2>1. Agree(Booked)'
    BY <1>11, <1>12 DEF Agree
  <2> QED
    BY <1>10, <2>1 DEF AgreeInv
<1>18. ThrownInv' /\ MoneyConserved'
  BY <1>1, <1>2, <1>10
     DEF ThrownInv, OnlyExpectedExceptions, ShortOfCashOnlyBySlippage,
         ApartByTheRefusedFill, MoneyConserved
<1> QED
  BY <1>13, <1>14, <1>15, <1>16, <1>17, <1>18 DEF SessionInv

(* The portfolio refuses a purchase beyond the cash alone, and that only   *)
(* when a fill was above the price of the order.                           *)
LEMMA BookPortfolioKeepsInv ==
  ASSUME SessionInv, BookPortfolio
  PROVE  SessionInv'
<1> DEFINE q == report.filled
           value == report.value
           held == portfolio.quantity
           cash == portfolio.cash
           left == Unfilled(order)
           price == order.price
<1>1. stage = "positioned"
  BY DEF BookPortfolio
<1>2. /\ RecordsInv /\ LifeInv /\ ReportInv /\ HoldingInv /\ CashInv /\ AgreeInv
      /\ ThrownInv /\ MoneyConserved
  BY DEF SessionInv
<1>3. order \in OrderRecord /\ q \in Nat \ {0} /\ value \in Nat
      /\ bought \in Nat /\ sold \in Nat
  BY <1>1, <1>2 DEF RecordsInv, ReportInv
<1>4. order.side \in {"buy", "sell"} /\ left \in Nat /\ price \in Nat
  BY <1>3, OrderFields
<1>5. /\ position \in [quantity : Nat, average : Rational, realized : Rational]
      /\ portfolio \in [cash : Nat, quantity : Nat, average : Rational, realized : Rational]
  BY <1>2 DEF RecordsInv
<1>6. /\ held \in Nat /\ cash \in Nat /\ position.quantity \in Nat
      /\ portfolio.average \in Rational /\ portfolio.realized \in Rational
  BY <1>5
<1>7. Agree(Booked)
  BY <1>1, <1>2 DEF AgreeInv
<1>8. order.side = "buy" /\ ~slipped => value + price * left <= cash
  <2>1. ASSUME order.side = "buy", ~slipped
        PROVE  value + price * left <= cash
    <3>1. value <= price * q /\ price * (left + q) <= cash
      BY <1>1, <1>2, <2>1 DEF ReportInv, CashInv, ToPay
    <3> HIDE DEF price, left, q, value, cash
    <3>2. price * (left + q) = price * left + price * q
      BY <1>3, <1>4
    <3>3. price * left \in Int /\ price * q \in Int
      BY <1>3, <1>4
    <3> QED
      BY <1>3, <1>6, <3>1, <3>2, <3>3
  <2> QED
    BY <2>1
<1>9. CASE order.side = "buy" /\ ~CanAfford(portfolio, value)
  <2>1. Throw("cash")
    BY <1>1, <1>9 DEF BookPortfolio
  <2>2. slipped
    <3>1. price * left \in Nat /\ cash \in Nat
      BY <1>4, <1>6
    <3>2. ~(value <= cash)
      BY <1>9 DEF CanAfford
    <3>3. slipped \in BOOLEAN
      BY <1>2 DEF RecordsInv
    <3>4. ASSUME ~slipped PROVE FALSE
      BY <1>3, <1>8, <1>9, <3>1, <3>2, <3>4
    <3> QED
      BY <3>4
  <2>3. ApartByOneFill
    <3> DEFINE average == portfolio.average
               next == Over(Plus(Times(held, average), Whole(value)), held + q)
    <3>1. /\ Booked.quantity = held + q /\ Booked.average = next
          /\ Booked.realized = portfolio.realized
      BY <1>5, <1>9 DEF Booked, PortfolioBuy
    <3>2. /\ position.quantity = held + q /\ position.average = next
          /\ position.realized = portfolio.realized
      BY <1>7, <3>1 DEF Agree
    <3>3. cash < value
      BY <1>3, <1>6, <1>9 DEF CanAfford
    <3>4. Plus(Whole(cash), Times(held, average)) = Plus(Whole(Capital), portfolio.realized)
      BY <1>2 DEF MoneyConserved
    <3>5. Plus(Whole(cash - value), Times(held + q, next))
            = Plus(Whole(cash), Times(held, average))
      <4>1. /\ value \in Int /\ cash \in Int /\ held \in Nat /\ q \in Nat \ {0}
            /\ average \in Rational
        BY <1>3, <1>6
      <4>2. next = Over(Plus(Times(held, average), Whole(value)), held + q)
        OBVIOUS
      <4> HIDE DEF next, average, q, value, held, cash
      <4> QED
        BY <4>1, <4>2, PurchaseConserves
    <3> HIDE DEF next
    <3> QED
      BY <3>2, <3>3, <3>4, <3>5 DEF ApartByOneFill
  <2> QED
    BY <1>1, <2>1, <2>2, <2>3, ThrowKeepsInv
<1>10. CASE ~(order.side = "buy" /\ ~CanAfford(portfolio, value))
  <2>1. order.side = "sell" => /\ Booked.quantity = held - q
                               /\ HasQuantity(portfolio, q)
    <3>1. ASSUME order.side = "sell"
          PROVE  Booked.quantity = held - q
      BY <1>5, <3>1 DEF Booked, PortfolioSell
    <3>2. position.quantity = Booked.quantity
      BY <1>7 DEF Agree
    <3> QED
      BY <1>3, <1>6, <3>1, <3>2 DEF HasQuantity
  <2>2. /\ portfolio' = Booked
        /\ stage' = (IF order.status = "filled" THEN "watching" ELSE "accepted")
        /\ report' = NoReport /\ order' = order /\ allowed' = allowed /\ position' = position
        /\ thrown' = thrown /\ orders' = orders
        /\ bought' = bought /\ sold' = sold /\ slipped' = slipped
    BY <1>1, <1>10, <2>1 DEF BookPortfolio, Booked, history
  <2>3. /\ portfolio' \in [cash : Nat, quantity : Nat, average : Rational, realized : Rational]
        /\ portfolio'.cash = IF order.side = "buy" THEN cash - value ELSE cash + value
        /\ MoneyConserved'
    <3> HIDE DEF held, cash
    <3>1. CASE order.side = "buy"
      <4> DEFINE next == Over(Plus(Times(held, portfolio.average), Whole(value)), held + q)
      <4>1. portfolio' = [portfolio EXCEPT !.cash = cash - value, !.quantity = held + q,
                                           !.average = next]
        BY <1>5, <2>2, <3>1 DEF Booked, PortfolioBuy, held, cash
      <4>2. cash - value \in Nat /\ held + q \in Nat
        <5>1. value <= cash
          BY <1>10, <3>1 DEF CanAfford, cash
        <5> QED
          BY <1>3, <1>6, <5>1
      <4>3. /\ next \in Rational
            /\ Plus(Whole(cash - value), Times(held + q, next))
                 = Plus(Whole(cash), Times(held, portfolio.average))
        <5> DEFINE average == portfolio.average
        <5>1. /\ value \in Int /\ cash \in Int /\ held \in Nat /\ q \in Nat \ {0}
              /\ average \in Rational
          BY <1>3, <1>6
        <5>2. next = Over(Plus(Times(held, average), Whole(value)), held + q)
          OBVIOUS
        <5> HIDE DEF next, average, q, value
        <5>3. /\ next \in Rational
              /\ Plus(Whole(cash - value), Times(held + q, next))
                   = Plus(Whole(cash), Times(held, average))
          BY <5>1, <5>2, PurchaseConserves
        <5> QED
          BY <5>3 DEF average
      <4> HIDE DEF next
      <4>4. /\ portfolio' \in [cash : Nat, quantity : Nat, average : Rational, realized : Rational]
            /\ portfolio'.cash = cash - value /\ portfolio'.quantity = held + q
            /\ portfolio'.average = next /\ portfolio'.realized = portfolio.realized
        BY <1>5, <4>1, <4>2, <4>3
      <4>5. Plus(Whole(cash), Times(held, portfolio.average))
              = Plus(Whole(Capital), portfolio.realized)
        BY <1>2 DEF MoneyConserved, cash, held
      <4>6. MoneyConserved'
        BY <4>3, <4>4, <4>5 DEF MoneyConserved
      <4> QED
        BY <3>1, <4>4, <4>6
    <3>2. CASE order.side = "sell"
      <4> DEFINE kept == IF q = held THEN Whole(0) ELSE portfolio.average
                 gained == Plus(portfolio.realized,
                                Minus(Whole(value), Times(q, portfolio.average)))
      <4>1. portfolio' = [portfolio EXCEPT !.cash = cash + value, !.quantity = held - q,
                                           !.average = kept, !.realized = gained]
        BY <1>5, <2>2, <3>2 DEF Booked, PortfolioSell, held, cash
      <4>2. q <= held /\ held - q \in Nat /\ cash + value \in Nat
        <5>1. q <= held
          BY <2>1, <3>2 DEF HasQuantity, held
        <5> QED
          BY <1>3, <1>6, <5>1
      <4>3. Plus(Whole(cash), Times(held, portfolio.average))
              = Plus(Whole(Capital), portfolio.realized)
        BY <1>2 DEF MoneyConserved, cash, held
      <4>4. /\ kept \in Rational /\ gained \in Rational
            /\ Plus(Whole(cash + value), Times(held - q, kept)) = Plus(Whole(Capital), gained)
        <5> DEFINE average == portfolio.average
                   realized == portfolio.realized
        <5>1. /\ value \in Int /\ cash \in Int /\ Capital \in Int /\ q \in Nat
              /\ held \in Nat /\ average \in Rational /\ realized \in Rational
          BY <1>3, <1>6, SessionAssumption
        <5>2. /\ kept = (IF q = held THEN Whole(0) ELSE average)
              /\ gained = Plus(realized, Minus(Whole(value), Times(q, average)))
              /\ Plus(Whole(cash), Times(held, average)) = Plus(Whole(Capital), realized)
          BY <4>3
        <5> HIDE DEF kept, gained, average, realized, q, value
        <5> QED
          BY <4>2, <5>1, <5>2, SaleConserves
      <4> HIDE DEF kept, gained
      <4>5. /\ portfolio' \in [cash : Nat, quantity : Nat, average : Rational, realized : Rational]
            /\ portfolio'.cash = cash + value /\ portfolio'.quantity = held - q
            /\ portfolio'.average = kept /\ portfolio'.realized = gained
        BY <1>5, <4>1, <4>2, <4>4
      <4>6. MoneyConserved'
        BY <4>4, <4>5 DEF MoneyConserved
      <4> QED
        BY <3>2, <4>5, <4>6
    <3> QED
      BY <1>4, <3>1, <3>2
  <2>4. RecordsInv'
    BY <1>2, <1>3, <2>2, <2>3 DEF RecordsInv
  <2>5. LifeInv' /\ ReportInv'
    <3>1. order.status = IF order.filled = order.quantity THEN "filled" ELSE "partiallyFilled"
      BY <1>1, <1>2 DEF LifeInv
    <3>2. order.filled \in Nat /\ order.quantity \in Nat /\ order.filled <= order.quantity
      BY <1>3, OrderFields
    <3>3. order.status # "filled" => order.filled < order.quantity
      BY <3>1, <3>2
    <3> QED
      BY <2>2, <3>1, <3>3 DEF LifeInv, ReportInv
  <2>6. HoldingInv'
    <3>1. ToHold' = ToHold
      BY <1>1, <2>2 DEF ToHold, Unfilled
    <3> QED
      BY <1>1, <1>2, <2>2, <3>1 DEF HoldingInv
  <2>7. CashInv'
    <3>1. ToPay' = left
      BY <2>2 DEF ToPay, Unfilled
    <3>2. price * left \in Int
      BY <1>4
    <3>3. order.side = "buy" /\ ~slipped => price * left <= portfolio'.cash
      <4> HIDE DEF price, left, cash
      <4> QED
        BY <1>3, <1>6, <1>8, <2>3, <3>2
    <3> QED
      BY <2>2, <3>1, <3>3 DEF CashInv
  <2>8. AgreeInv'
    <3>1. Agree(portfolio)'
      BY <1>7, <2>2 DEF Agree
    <3> QED
      BY <2>2, <3>1 DEF AgreeInv
  <2>9. ThrownInv'
    BY <1>1, <1>2, <2>2 DEF ThrownInv, OnlyExpectedExceptions, ShortOfCashOnlyBySlippage,
      ApartByTheRefusedFill
  <2> QED
    BY <2>3, <2>4, <2>5, <2>6, <2>7, <2>8, <2>9 DEF SessionInv
<1> QED
  BY <1>9, <1>10

LEMMA SessionStepKeepsInv ==
  ASSUME SessionInv, BookTypeOK, SessionNext
  PROVE  SessionInv'
<1>1. CASE \E signal \in {"aboveEntry", "between", "belowExit"}, method \in Methods,
              entry, stop \in Prices, multiplier \in Multipliers, drawdown, loss \in BOOLEAN :
             Decide(signal, method, entry, stop, multiplier, drawdown, loss)
  BY <1>1, DecideKeepsInv
<1>2. CASE SubmitOrder
  <2>1. /\ stage = "created" /\ Return([order EXCEPT !.status = "submitted"], "submitted")
        /\ "submitted" \in Active
    BY <1>2 DEF SubmitOrder, Submit, Active
  <2> QED
    BY <2>1, ReturnKeepsInv
<1>3. CASE RejectOrder
  <2>1. stage = "submitted" /\ Return([order EXCEPT !.status = "rejected"], "watching")
    BY <1>3 DEF RejectOrder, Reject
  <2> QED
    BY <2>1, ReturnKeepsInv
<1>4. CASE AcceptOrder
  <2>1. /\ stage = "submitted" /\ Return([order EXCEPT !.status = "accepted"], "accepted")
        /\ "accepted" \in Active
    BY <1>4 DEF AcceptOrder, Accept, Active
  <2> QED
    BY <2>1, ReturnKeepsInv
<1>5. CASE CancelOrder
  <2>1. /\ stage \in {"created", "submitted", "accepted"}
        /\ Return([order EXCEPT !.status = "cancelled"], "watching")
    BY <1>5 DEF CancelOrder, Cancel
  <2> QED
    BY <2>1, ReturnKeepsInv
<1>6. CASE MatchOrder
  BY <1>6, MatchKeepsInv
<1>7. CASE FillOrder
  BY <1>7, FillKeepsInv
<1>8. CASE BookPosition
  BY <1>8, BookPositionKeepsInv
<1>9. CASE BookPortfolio
  BY <1>9, BookPortfolioKeepsInv
<1> QED
  BY <1>1, <1>2, <1>3, <1>4, <1>5, <1>6, <1>7, <1>8, <1>9 DEF SessionNext

(* No call of the session changes the book.                                *)
LEMMA SessionKeepsBook ==
  ASSUME SessionNext
  PROVE  book' = book
BY DEF SessionNext, Decide, CreateOrder, Throw, SubmitOrder, RejectOrder, AcceptOrder,
       CancelOrder, Return, MatchOrder, FillOrder, BookPosition, BookPortfolio

THEOREM SessionInvariance == Spec => []IInv
<1>1. Init => IInv
  BY LaddersInit, SessionStart DEF Init, IInv
<1>2. IInv /\ [Next]_vars => IInv'
  <2> SUFFICES ASSUME IInv, [Next]_vars
               PROVE  IInv'
    OBVIOUS
  <2>1. Ladders /\ SessionInv /\ BookTypeOK
    BY DEF IInv, Ladders
  <2>2. CASE MarketMoves
    <3>1. BookNext /\ UNCHANGED session
      BY <2>2 DEF MarketMoves
    <3> QED
      BY <2>1, <3>1, LaddersNext, MarketKeepsInv DEF IInv
  <2>3. CASE SessionNext
    <3>1. UNCHANGED book
      BY <2>3, SessionKeepsBook
    <3> QED
      BY <2>1, <2>3, <3>1, LaddersNext, SessionStepKeepsInv DEF IInv
  <2>4. CASE UNCHANGED vars
    <3>1. UNCHANGED book /\ UNCHANGED session
      BY <2>4 DEF vars
    <3> QED
      BY <2>1, <3>1, LaddersNext, MarketKeepsInv DEF IInv
  <2> QED
    BY <2>2, <2>3, <2>4 DEF Next
<1> QED
  BY <1>1, <1>2, PTL DEF Spec

-----------------------------------------------------------------------------
(* The theorems                                                            *)

(* The records of a session are always what the engines can hold.          *)
THEOREM SessionTypes == Spec => []TypeOK
<1>1. IInv => TypeOK
  <2> SUFFICES ASSUME IInv PROVE TypeOK
    OBVIOUS
  <2>1. RecordsInv /\ BookTypeOK
    BY DEF IInv, SessionInv, Ladders
  <2>2. order # NoOrder =>
          /\ order.status \in Active \cup {"rejected", "filled", "cancelled"}
          /\ order.side \in {"buy", "sell"}
          /\ order.quantity \in Nat \ {0} /\ order.filled \in 0..order.quantity
    <3>1. ASSUME order # NoOrder
          PROVE  order \in OrderRecord
      BY <2>1, <3>1 DEF RecordsInv
    <3>2. ASSUME order \in OrderRecord
          PROVE  order.status \in Active \cup {"rejected", "filled", "cancelled"}
      BY <3>2 DEF OrderRecord
    <3>3. ASSUME order \in OrderRecord
          PROVE  /\ order.side \in {"buy", "sell"}
                 /\ order.quantity \in Nat \ {0} /\ order.filled \in 0..order.quantity
      BY <3>3, OrderFields
    <3> QED
      BY <3>1, <3>2, <3>3
  <2> QED
    BY <2>1, <2>2 DEF TypeOK, RecordsInv
<1> QED
  BY <1>1, SessionInvariance, PTL

(* The two records of the holding agree between orders, unless a purchase  *)
(* was beyond the cash: however an order was filled, PositionEngine and    *)
(* PortfolioStateEngine are told the same.                                 *)
THEOREM RecordsAgree == Spec => []AccountsAgree
<1>1. IInv => AccountsAgree
  BY DEF IInv, SessionInv, AgreeInv, Agree, AccountsAgree
<1> QED
  BY <1>1, SessionInvariance, PTL

(* Every fill that OrderManagementEngine records reaches the position      *)
(* once.                                                                   *)
THEOREM EachFillBookedOnce == Spec => []FillsBookedOnce
<1>1. IInv => FillsBookedOnce
  BY DEF IInv, SessionInv, HoldingInv, FillsBookedOnce
<1> QED
  BY <1>1, SessionInvariance, PTL

(* PortfolioStateEngine's cash, its average price and its realized profit  *)
(* always add up to the initial capital.                                   *)
THEOREM MoneyIsConserved == Spec => []MoneyConserved
<1>1. IInv => MoneyConserved
  BY DEF IInv, SessionInv
<1> QED
  BY <1>1, SessionInvariance, PTL

(* A session never makes a call that the order engine, the position or     *)
(* the portfolio refuses, but for a purchase beyond the cash; beside that  *)
(* an entry may fail to be sized, be rounded down to nothing, or find the  *)
(* side of the book it takes from empty.                                   *)
THEOREM CallsAreLegal == Spec => []OnlyExpectedExceptions
<1>1. IInv => OnlyExpectedExceptions
  BY DEF IInv, SessionInv, ThrownInv
<1> QED
  BY <1>1, SessionInvariance, PTL

(* ... which only a fill above the price of the order makes one: sizing    *)
(* never asks for more than the cash buys at that price.                   *)
THEOREM SizedWithinCash == Spec => []ShortOfCashOnlyBySlippage
<1>1. IInv => ShortOfCashOnlyBySlippage
  BY DEF IInv, SessionInv, ThrownInv
<1> QED
  BY <1>1, SessionInvariance, PTL

(* A purchase that the portfolio refuses leaves the two records apart by   *)
(* that fill and nothing else: PositionEngine::buy has booked it without   *)
(* asking for the cash.                                                    *)
THEOREM RefusedPurchaseApart == Spec => []ApartByTheRefusedFill
<1>1. IInv => ApartByTheRefusedFill
  BY DEF IInv, SessionInv, ThrownInv
<1> QED
  BY <1>1, SessionInvariance, PTL
=============================================================================
