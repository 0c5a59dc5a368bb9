----------------------------- MODULE PriceLevels -----------------------------
(***************************************************************************)
(* What the order book promises its callers: on each side, the quantity    *)
(* last quoted at each price, and nothing else.  OrderBook implements it   *)
(* with two sorted vectors.                                                *)
(***************************************************************************)
EXTENDS Integers

CONSTANTS
  Prices,      \* prices that may be quoted
  Quantities   \* quantities of a level

Sides == {"bid", "ask"}

VARIABLE depth   \* the quantity at each price of each side, 0 for no level

Empty == [s \in Sides |-> [p \in Prices |-> 0]]

Init == depth = Empty

Quote(s, p, q) == depth' = [depth EXCEPT ![s] = [@ EXCEPT ![p] = q]]

Clear == depth' = Empty

Next ==
  \/ \E s \in Sides, p \in Prices, q \in Quantities \cup {0} : Quote(s, p, q)
  \/ Clear

Spec == Init /\ [][Next]_depth
=============================================================================
