----------------------------- MODULE DepthBook -----------------------------
(***************************************************************************)
(* The quotes, order books and trades the backend makes up around a price  *)
(* (simulated.provider.ts; external.provider.ts for books and trades): the *)
(* figures of the live market page.  Prices are in hundredths, as toFixed  *)
(* leaves them; a random number is a number of thousandths.                *)
(***************************************************************************)
EXTENDS Integers

\* The whole numbers nearest to n/d: two at a tie, which the double that stands
\* for n/d decides.
Nearest(n, d) == {r \in {n \div d, (n \div d) + 1} : 2 * (r * d - n) <= d /\ 2 * (n - r * d) <= d}

Depth == 10

\* How the quantities of a side are drawn: Math.floor of a floor that falls from
\* level to level and of a random part.
Simulated == [bids |-> [least |-> 250, random |-> 800, step |-> 120],
              asks |-> [least |-> 220, random |-> 780, step |-> 110]]
External == [bids |-> [least |-> 200, random |-> 600, step |-> 80],
             asks |-> [least |-> 180, random |-> 580, step |-> 75]]

Quantities(side, i) ==
  LET least == side.least + (Depth + 1 - i) * side.step
  IN least..(least + side.random - 1)

\* The levels of one side, from its best price on.
IsLadder(levels, best, step, side) ==
  \A i \in 1..Depth :
    /\ levels[i].price \in Nearest(10000 * best + (i - 1) * step, 10000)
    /\ levels[i].quantity \in Quantities(side, i)
    /\ levels[i].total = levels[i].quantity + (IF i = 1 THEN 0 ELSE levels[i - 1].total)

\* getOrderBook: a spread of 0.04%, levels 0.03% apart.
IsBook(book, base, provider) ==
  \E bid \in Nearest(2 * base - book.spread, 2), ask \in Nearest(2 * base + book.spread, 2) :
    /\ book.spread \in Nearest(4 * base, 10000)
    /\ IsLadder(book.bids, bid, -3 * base, provider.bids)
    /\ IsLadder(book.asks, ask, 3 * base, provider.asks)
    /\ book.midPrice \in Nearest(bid + ask, 2)
    /\ book.microprice \in
         Nearest(bid * book.asks[1].quantity + ask * book.bids[1].quantity,
                 book.bids[1].quantity + book.asks[1].quantity)

Million == 1000000

\* getQuotes of the simulator: within half a thousandth of its base price.
IsMoved(price, base) ==
  \E random \in 0..999 : price \in Nearest(base * (Million + random - 490), Million)

IsQuote(quote, base) ==
  /\ IsMoved(quote.price, base)
  /\ quote.change = quote.price - base
  /\ quote.high24h \in Nearest(base * 1018, 1000)
  /\ quote.low24h \in Nearest(base * 985, 1000)

-----------------------------------------------------------------------------

\* The prices are in order, from the lowest bid to the highest ask, and the
\* derived prices between the best two.
BookOrdered(book) ==
  /\ book.bids[1].price <= book.asks[1].price
  /\ \A i \in 1..(Depth - 1) : /\ book.bids[i + 1].price <= book.bids[i].price
                               /\ book.asks[i].price <= book.asks[i + 1].price
  /\ book.midPrice \in book.bids[1].price..book.asks[1].price
  /\ book.microprice \in book.bids[1].price..book.asks[1].price

\* ... no price occurs twice, and a spread is left.
BookDistinct(book) ==
  /\ book.bids[1].price < book.asks[1].price
  /\ \A i \in 1..(Depth - 1) : /\ book.bids[i + 1].price < book.bids[i].price
                               /\ book.asks[i].price < book.asks[i + 1].price
=============================================================================
