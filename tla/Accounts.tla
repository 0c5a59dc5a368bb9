------------------------------ MODULE Accounts ------------------------------
(***************************************************************************)
(* PositionEngine and PortfolioStateEngine: the two records of the same    *)
(* holding, updated by separate calls.  Prices, quantities and cash are    *)
(* integers; average prices and profits are exact fractions, where the     *)
(* code has doubles.                                                       *)
(***************************************************************************)
EXTENDS Integers, FiniteSetsExt

(* Fractions in lowest terms: over the least denominator there is          *)
LeastDenominator(n, d) ==
  CHOOSE e \in 1..d :
    (n * e) % d = 0 /\ \A f \in 1..(e - 1) : (n * f) % d # 0

Fraction(n, d) ==
  LET e == LeastDenominator(n, d) IN [num |-> (n * e) \div d, den |-> e]

Magnitude(n) == IF n < 0 THEN -n ELSE n

Whole(n) == [num |-> n, den |-> 1]

Plus(a, b) == Fraction(a.num * b.den + b.num * a.den, a.den * b.den)
Minus(a, b) == Plus(a, [b EXCEPT !.num = -@])
Times(k, a) == Fraction(k * a.num, a.den)
Over(a, k) == Fraction(a.num, a.den * k)

-----------------------------------------------------------------------------
(* PositionEngine.  value is quantity times execution price.               *)

Flat == [quantity |-> 0, average |-> Whole(0), realized |-> Whole(0)]

PositionReplaced(position, q, value) ==
  [position EXCEPT !.quantity = q, !.average = Over(Whole(value), q)]

PricesAveraged(position, q, value) ==
  [position EXCEPT
     !.quantity = @ + q,
     !.average = IF position.quantity = 0 THEN Over(Whole(value), q)
                 ELSE Over(Plus(@, Over(Whole(value), q)), 2)]

PositionBuy(position, q, value) ==
  [position EXCEPT
     !.quantity = @ + q,
     !.average = Over(Plus(Times(position.quantity, @), Whole(value)),
                      position.quantity + q)]

CanSellPart(position, q) == position.quantity > 0 /\ q < position.quantity

CanSell(position, q) == position.quantity > 0 /\ q <= position.quantity

EntryPriceKept(position, q, value) ==
  [position EXCEPT
     !.quantity = @ - q,
     !.realized = Plus(@, Minus(Whole(value), Times(q, position.average)))]

PositionSell(position, q, value) ==
  [position EXCEPT
     !.quantity = @ - q,
     !.realized = Plus(@, Minus(Whole(value), Times(q, position.average))),
     !.average = IF q = position.quantity THEN Whole(0) ELSE @]

-----------------------------------------------------------------------------
(* PortfolioStateEngine                                                    *)

Initialize(capital) ==
  [cash |-> capital, quantity |-> 0, average |-> Whole(0), realized |-> Whole(0)]

CanAfford(portfolio, value) == value <= portfolio.cash

PortfolioBuy(portfolio, q, value) ==
  [portfolio EXCEPT
     !.cash = @ - value,
     !.quantity = @ + q,
     !.average = Over(Plus(Times(portfolio.quantity, @), Whole(value)),
                      portfolio.quantity + q)]

HasQuantity(portfolio, q) == q <= portfolio.quantity

RealizedAtPrice(portfolio, q, value) ==
  [portfolio EXCEPT
     !.cash = @ + value,
     !.quantity = @ - q,
     !.average = IF q = portfolio.quantity THEN Whole(0) ELSE @,
     !.realized = Plus(@, Whole(value))]

PortfolioSell(portfolio, q, value) ==
  [portfolio EXCEPT
     !.cash = @ + value,
     !.quantity = @ - q,
     !.average = IF q = portfolio.quantity THEN Whole(0) ELSE @,
     !.realized = Plus(@, Minus(Whole(value), Times(q, portfolio.average)))]
=============================================================================
