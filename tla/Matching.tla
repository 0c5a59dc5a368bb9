------------------------------ MODULE Matching ------------------------------
(***************************************************************************)
(* MatchingEngine::match: a market order walks the levels of the other     *)
(* side of the book from the best, taking from each what is there until it *)
(* is complete.  The book is read and never changed.                       *)
(***************************************************************************)
EXTENDS OrderBook, FiniteSetsExt

OtherSide(side) == IF side = "buy" THEN "ask" ELSE "bid"

RemainingFromWorst(levels, q) ==
  LET left[n \in 0..Len(levels)] ==
        IF n = 0 THEN q
        ELSE left[n - 1] - Min({left[n - 1], levels[Len(levels) + 1 - n].quantity})
  IN  left

(* remainingQuantity after the first n levels                              *)
Remaining(levels, q) ==
  LET left[n \in 0..Len(levels)] ==
        IF n = 0 THEN q ELSE left[n - 1] - Min({left[n - 1], levels[n].quantity})
  IN  left

(* weightedPrice after the first n levels                                  *)
WeightedPrice(levels, q) ==
  LET left == Remaining(levels, q)
      weighted[n \in 0..Len(levels)] ==
        IF n = 0 THEN 0 ELSE weighted[n - 1] + levels[n].price * (left[n - 1] - left[n])
  IN  weighted

(* Levels hold something, so that those that are filled are the first few. *)
Fills(levels, q) ==
  LET left == Remaining(levels, q)
  IN  [n \in {k \in DOMAIN levels : left[k] < left[k - 1]} |->
         [price |-> levels[n].price, quantity |-> left[n - 1] - left[n]]]

(* An empty side throws before anything is matched.  averageFillPrice is   *)
(* kept as its product with filledQuantity, value.                         *)
Match(side, q) ==
  LET levels == book[OtherSide(side)]
      left == Remaining(levels, q)[Len(levels)]
  IN  [filled |-> q - left, remaining |-> left,
       fills |-> Fills(levels, q), value |-> WeightedPrice(levels, q)[Len(levels)]]

-----------------------------------------------------------------------------
(* Properties                                                              *)

Depth(s) == SumFunction([p \in Prices |-> QuantityAt(book[s], p)])

Taken(fills, p) ==
  LET atPrice == {n \in DOMAIN fills : fills[n].price = p}
  IN  SumFunction([n \in atPrice |-> fills[n].quantity])

(* Whatever updates built the book, an order of any size, up to more than  *)
(* the side holds, is filled as far as the side can fill it, takes no more *)
(* at a price than is quoted there, and takes from a price only after      *)
(* every better price is exhausted.                                        *)
BestExecution ==
  \A side \in {"buy", "sell"} :
    LET s == OtherSide(side)
        quoted(p) == QuantityAt(book[s], p)
    IN  \A q \in 1..(Depth(s) + 1) :
          LET match == Match(side, q)
              taken(p) == Taken(match.fills, p)
          IN  /\ match.filled = Min({q, Depth(s)})
              /\ match.filled + match.remaining = q
              /\ SumFunction([p \in Prices |-> taken(p)]) = match.filled
              /\ SumFunction([p \in Prices |-> p * taken(p)]) = match.value
              /\ \A p \in Prices :
                   /\ taken(p) <= quoted(p)
                   /\ \A r \in Prices : Better(s, p, r) /\ taken(r) > 0 => taken(p) = quoted(p)
=============================================================================
