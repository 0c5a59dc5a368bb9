------------------------------ MODULE OrderBook ------------------------------
(***************************************************************************)
(* OrderBookEngine: two vectors of price levels, kept sorted from best to  *)
(* worst.  The bid and the ask operations are the same code with the       *)
(* comparison reversed, so that each is one action with the side as its    *)
(* parameter.  A call with a price or a quantity out of range throws       *)
(* before it changes anything and is not a step.                           *)
(***************************************************************************)
EXTENDS Integers, Sequences, FiniteSets

CONSTANTS
  Prices,      \* prices that may be quoted
  Quantities   \* quantities of a level

ASSUME QuotesAssumption ==
  /\ Prices \subseteq Nat \ {0}
  /\ Quantities \subseteq Nat \ {0}

Sides == {"bid", "ask"}

Level == [price : Prices, quantity : Quantities]

VARIABLE book   \* bids_ and asks_

-----------------------------------------------------------------------------
(* The vector operations of updateBid and updateAsk                        *)

HasLevel(levels, p) == \E i \in DOMAIN levels : levels[i].price = p

(* std::find_if: the first level of that price                             *)
FindLevel(levels, p) ==
  CHOOSE i \in DOMAIN levels :
    levels[i].price = p /\ \A j \in DOMAIN levels : j < i => levels[j].price # p

EraseOnwards(levels, i) == SubSeq(levels, 1, i - 1)

Erase(levels, i) ==
  [k \in 1..(Len(levels) - 1) |-> IF k < i THEN levels[k] ELSE levels[k + 1]]

(* The order of a side: bids from the highest price, asks from the lowest  *)
Better(s, p, r) == IF s = "bid" THEN p > r ELSE p < r

Rank(s, levels, i) ==
  Cardinality({j \in DOMAIN levels : Better(s, levels[j].price, levels[i].price)}) + 1

Unsorted(s, levels) == levels

(* std::sort, of levels whose prices are distinct                          *)
Sort(s, levels) ==
  [n \in DOMAIN levels |-> levels[CHOOSE i \in DOMAIN levels : Rank(s, levels, i) = n]]

SetQuantity(levels, p, q) ==
  [levels EXCEPT ![FindLevel(levels, p)] = [price |-> p, quantity |-> q]]

Insert(s, levels, p, q) == Sort(s, Append(levels, [price |-> p, quantity |-> q]))

Without(levels, p) ==
  IF HasLevel(levels, p) THEN Erase(levels, FindLevel(levels, p)) ELSE levels

With(s, levels, p, q) ==
  IF HasLevel(levels, p) THEN SetQuantity(levels, p, q) ELSE Insert(s, levels, p, q)

ZeroQuoted(s, p, q) == book' = [book EXCEPT ![s] = With(s, @, p, q)]

BestRemoved(s, p) == book' = [book EXCEPT ![s] = IF @ = <<>> THEN @ ELSE Tail(@)]

QuantityAt(levels, p) ==
  IF HasLevel(levels, p) THEN levels[FindLevel(levels, p)].quantity ELSE 0

-----------------------------------------------------------------------------
BookInit == book = [s \in Sides |-> <<>>]

(* updateBid, updateAsk: quantity 0 removes the level                      *)
Update(s, p, q) ==
  book' = [book EXCEPT ![s] = IF q = 0 THEN Without(@, p) ELSE With(s, @, p, q)]

(* removeBid, removeAsk                                                    *)
Remove(s, p) == book' = [book EXCEPT ![s] = Without(@, p)]

Clear == book' = [s \in Sides |-> <<>>]

BookNext ==
  \/ \E s \in Sides, p \in Prices, q \in Quantities \cup {0} : Update(s, p, q)
  \/ \E s \in Sides, p \in Prices : Remove(s, p)
  \/ Clear

BookSpec == BookInit /\ [][BookNext]_book

-----------------------------------------------------------------------------
(* Properties                                                              *)

(* bids_ and asks_ are vectors of levels of positive quantity.             *)
BookTypeOK == book \in [Sides -> Seq(Level)]

(* After any sequence of updates and removals, each side is sorted from    *)
(* best to worst and quotes no price twice: the first level is the best    *)
(* quote (bestBid, bestAsk), and find_if finds the only one of its price.  *)
BestFirst ==
  \A s \in Sides : \A i, j \in DOMAIN book[s] :
    i < j => Better(s, book[s][i].price, book[s][j].price)

(* The vectors implement PriceLevels: each call changes what a reader of   *)
(* the book sees at one price at most, or empties it.                      *)
Promise ==
  INSTANCE PriceLevels
    WITH depth <- [s \in Sides |-> [p \in Prices |-> QuantityAt(book[s], p)]]

QuotesKept == Promise!Spec

(* ... and the call that was made: updateBid and updateAsk leave the       *)
(* quantity they were given at the price they were given, removeBid and    *)
(* removeAsk nothing at theirs, and every other price keeps its quantity.  *)
EachCallQuotes ==
  [][/\ \A s \in Sides, p \in Prices, q \in Quantities \cup {0} :
          Update(s, p, q) => Promise!Quote(s, p, q)
     /\ \A s \in Sides, p \in Prices : Remove(s, p) => Promise!Quote(s, p, 0)
     /\ Clear => Promise!Clear]_book
=============================================================================
