------------------------------ MODULE MCQuotes ------------------------------
(***************************************************************************)
(* Instances of QuoteCache: two symbols asked for together or alone, as    *)
(* the stream's ticks and its order book do, and the six symbols of a tick;*)
(* and order books made up around a few prices.                            *)
(***************************************************************************)
EXTENDS QuoteCache, DepthBook, Functions, TLC

TwoLists == {<<"RELIANCE", "TCS">>, <<"TCS">>}

\* Callers are alike.
Anyone == Permutations(Callers)

TickLists == {<<"RELIANCE", "TCS", "INFY", "HDFCBANK", "NIFTY50", "INDIAVIX">>}

-----------------------------------------------------------------------------
(* A book with the least or the most at every level.                       *)

Ladder(best, step, side, Pick(_)) ==
  LET quantity == [i \in 1..Depth |-> Pick(Quantities(side, i))]
  IN [i \in 1..Depth |->
        [price |-> CHOOSE p \in Nearest(10000 * best + (i - 1) * step, 10000) : TRUE,
         quantity |-> quantity[i],
         total |-> FoldFunctionOnSet(+, 0, quantity, 1..i)]]

Book(base, provider, PickBid(_), PickAsk(_)) ==
  LET spread == CHOOSE w \in Nearest(4 * base, 10000) : TRUE
      bid == CHOOSE p \in Nearest(2 * base - spread, 2) : TRUE
      ask == CHOOSE p \in Nearest(2 * base + spread, 2) : TRUE
      bids == Ladder(bid, -3 * base, provider.bids, PickBid)
      asks == Ladder(ask, 3 * base, provider.asks, PickAsk)
      p == bids[1].quantity
      q == asks[1].quantity
  IN [spread |-> spread, bids |-> bids, asks |-> asks,
      midPrice |-> CHOOSE r \in Nearest(bid + ask, 2) : TRUE,
      microprice |-> CHOOSE r \in Nearest(bid * q + ask * p, p + q) : TRUE]

(* Prices from a hundredth up, of INDIAVIX, at the bound and of RELIANCE.  *)
Bases == {1, 800, 1340, 3750, 3751, 124050}

(* The ends of an interval                                                 *)
Least(S) == CHOOSE n \in S : n - 1 \notin S
Most(S) == CHOOSE n \in S : n + 1 \notin S

ASSUME BooksAreInOrder ==
  \A base \in Bases, provider \in {Simulated, External} :
    \A book \in {Book(base, provider, Least, Most), Book(base, provider, Most, Least)} :
      /\ IsBook(book, base, provider)
      /\ BookOrdered(book)
      /\ base > 3750 => BookDistinct(book)
      /\ base < 3000 => ~BookDistinct(book)
=============================================================================
