--------------------------- MODULE TradingSession ---------------------------
(***************************************************************************)
(* The trading engines composed as EndToEndTradingTest.cpp composes them:  *)
(* a decision (TradingEngine), an order and its life cycle                 *)
(* (OrderManagementEngine), matching against the book, and the position    *)
(* and portfolio records, one order at a time, while market data moves the *)
(* book between any two calls.                                             *)
(*                                                                         *)
(* Every engine call is a step.  An exception ends the session: nothing    *)
(* catches it.                                                             *)
(***************************************************************************)
EXTENDS Matching, Orders, Accounts

CONSTANTS
  Capital,         \* initial capital
  Methods,         \* position sizing methods in use
  Allocation,      \* PositionSizingConfig and RiskManagementConfig,
  MaxAllocation,   \*   fractions in percent
  RiskFraction,
  MaxPosition,
  Multipliers,     \* sizing multipliers of RiskIntelligenceEngine, in percent
  NoOrder,
  MaxOrders        \* bound on the orders of a session

ASSUME SessionAssumption ==
  /\ Capital \in Nat \ {0}
  /\ Methods \subseteq {"fixedFraction", "riskBased"}
  /\ Allocation \in 0..MaxAllocation
  /\ MaxAllocation \in 0..100 /\ RiskFraction \in 0..100 /\ MaxPosition \in 0..100
  /\ Multipliers \subseteq 0..100
  /\ MaxOrders \in Nat

VARIABLES
  stage,       \* the call the session makes next
  order,       \* the current order
  allowed,     \* riskDecision.allowed of that order
  report,      \* the execution being booked
  position,    \* PositionEngine::position_
  portfolio,   \* PortfolioState
  thrown,      \* the exception that ended the session
  orders,      \* how many orders were created
  bought,      \* history: quantities OrderManagementEngine::fill recorded
  sold,
  slipped      \* history: a fill of this order was above its price

accounts == <<position, portfolio>>
history == <<bought, sold, slipped>>
session == <<stage, order, allowed, report, accounts, thrown, orders, history>>
vars == <<book, session>>

NoReport == [filled |-> 0, remaining |-> 0, fills |-> <<>>, value |-> 0]

Init ==
  /\ BookInit
  /\ stage = "watching"
  /\ order = NoOrder
  /\ allowed = FALSE
  /\ report = NoReport
  /\ position = Flat
  /\ portfolio = Initialize(Capital)
  /\ thrown = "none"
  /\ orders = 0
  /\ bought = 0 /\ sold = 0
  /\ slipped = FALSE

(* Market data: updates of the book do not disturb the session.            *)
MarketMoves == BookNext /\ UNCHANGED session

Throw(what) ==
  /\ thrown' = what
  /\ stage' = "threw"
  /\ UNCHANGED <<book, order, allowed, report, accounts, orders, history>>

-----------------------------------------------------------------------------
(* TradingEngine::evaluate                                                 *)

(* The signal against the two thresholds; the engine is told the position. *)
Action(signal) ==
  IF position.quantity = 0 /\ signal = "aboveEntry" THEN "enterLong"
  ELSE IF position.quantity > 0 /\ signal = "belowExit" THEN "exitLong"
  ELSE "hold"

AtMost(a, b) == a.num * b.den <= b.num * a.den

(* positionValue, before and after the cap                                 *)
UncappedValue(method, entry, stop) ==
  IF method = "fixedFraction" THEN Fraction(portfolio.cash * Allocation, 100)
  ELSE Fraction(portfolio.cash * RiskFraction * entry, 100 * Magnitude(entry - stop))

PositionValue(method, entry, stop) ==
  LET cap == Fraction(portfolio.cash * MaxAllocation, 100)
      value == UncappedValue(method, entry, stop)
  IN  IF AtMost(value, cap) THEN value ELSE cap

SizingThrows(method, entry, stop) ==
  portfolio.cash = 0 \/ (method = "riskBased" /\ entry = stop)

(* drawdown and loss: drawdownLimitExceeded and riskLimitExceeded, from    *)
(* two numbers of the request                                              *)
RiskAllows(value, drawdown, loss) ==
  /\ AtMost(value, Fraction(portfolio.cash * MaxPosition, 100))
  /\ ~drawdown /\ ~loss

RoundedUp(action, value, entry, multiplier) ==
  IF action = "exitLong" THEN position.quantity
  ELSE ((value.num * multiplier) \div (value.den * entry * 100)) + 1

(* An entry is scaled by the risk multiplier and rounded down; an exit     *)
(* sells the whole position.                                               *)
OrderQuantity(action, value, entry, multiplier) ==
  IF action = "exitLong" THEN position.quantity
  ELSE (value.num * multiplier) \div (value.den * entry * 100)

CreateOrder(side, quantity, price) ==
  IF quantity = 0 THEN Throw("orderQuantity")
  ELSE /\ order' = Create(orders, side, quantity, price)
       /\ stage' = "created"
       /\ orders' = orders + 1
       /\ slipped' = FALSE
       /\ UNCHANGED <<book, report, accounts, thrown, bought, sold>>

(* Hold changes nothing and is not a step.                                 *)
Decide(signal, method, entry, stop, multiplier, drawdown, loss) ==
  LET action == Action(signal)
      value == PositionValue(method, entry, stop)
  IN  /\ stage = "watching" /\ orders < MaxOrders
      /\ action # "hold"
      /\ IF SizingThrows(method, entry, stop) THEN Throw("sizing")
         ELSE /\ CreateOrder(IF action = "enterLong" THEN "buy" ELSE "sell",
                             OrderQuantity(action, value, entry, multiplier), entry)
              /\ allowed' = (IF stage' = "threw" THEN allowed
                             ELSE RiskAllows(value, drawdown, loss))

-----------------------------------------------------------------------------
(* The order's life                                                        *)

Return(updated, next) ==
  /\ order' = updated
  /\ stage' = next
  /\ UNCHANGED <<book, allowed, report, accounts, thrown, orders, history>>

SubmitOrder == stage = "created" /\ MaySubmit(order) /\ Return(Submit(order), "submitted")

(* An order that failed its risk checks is rejected.                       *)
RejectOrder ==
  /\ stage = "submitted" /\ ~allowed /\ MayReject(order)
  /\ Return(Reject(order), "watching")

AcceptOrder ==
  /\ stage = "submitted" /\ allowed /\ MayAccept(order)
  /\ Return(Accept(order), "accepted")

(* A partially filled order may be matched again for what is left.  A side *)
(* with nothing on it is an std::out_of_range.                             *)
MatchOrder ==
  LET match == Match(order.side, Unfilled(order))
  IN  /\ stage = "accepted"
      /\ IF book[OtherSide(order.side)] = <<>> THEN Throw("emptySide")
         ELSE /\ report' = match
              /\ slipped' = (slipped \/ \E n \in DOMAIN match.fills :
                                          match.fills[n].price > order.price)
              /\ stage' = "matched"
              /\ UNCHANGED <<book, order, allowed, accounts, thrown, orders, bought, sold>>

(* ExecutionEngine::process reports what was matched; the order records it *)
(* before the accounts do.                                                 *)
FillOrder ==
  /\ stage = "matched"
  /\ IF ~MayFill(order, report.filled) THEN Throw("fill")
     ELSE /\ order' = Fill(order, report.filled)
          /\ stage' = "filled"
          /\ IF order.side = "buy"
               THEN bought' = bought + report.filled /\ UNCHANGED sold
               ELSE sold' = sold + report.filled /\ UNCHANGED bought
          /\ UNCHANGED <<book, allowed, report, accounts, thrown, orders, slipped>>

BookPosition ==
  /\ stage = "filled"
  /\ IF order.side = "sell" /\ ~CanSell(position, report.filled) THEN Throw("position")
     ELSE /\ position' = IF order.side = "buy"
                           THEN PositionBuy(position, report.filled, report.value)
                           ELSE PositionSell(position, report.filled, report.value)
          /\ stage' = "positioned"
          /\ UNCHANGED <<book, order, allowed, report, portfolio, thrown, orders, history>>

BookPortfolio ==
  /\ stage = "positioned"
  /\ IF order.side = "buy" /\ ~CanAfford(portfolio, report.value) THEN Throw("cash")
     ELSE IF order.side = "sell" /\ ~HasQuantity(portfolio, report.filled)
          THEN Throw("portfolio")
     ELSE /\ portfolio' = IF order.side = "buy"
                            THEN PortfolioBuy(portfolio, report.filled, report.value)
                            ELSE PortfolioSell(portfolio, report.filled, report.value)
          /\ stage' = IF order.status = "filled" THEN "watching" ELSE "accepted"
          /\ report' = NoReport
          /\ UNCHANGED <<book, order, allowed, position, thrown, orders, history>>

CancelOrder ==
  /\ stage \in {"created", "submitted", "accepted"}
  /\ MayCancel(order)
  /\ Return(Cancel(order), "watching")

-----------------------------------------------------------------------------
SessionNext ==
  \/ \E signal \in {"aboveEntry", "between", "belowExit"}, method \in Methods,
        entry, stop \in Prices, multiplier \in Multipliers, drawdown, loss \in BOOLEAN :
       Decide(signal, method, entry, stop, multiplier, drawdown, loss)
  \/ SubmitOrder \/ RejectOrder \/ AcceptOrder \/ CancelOrder
  \/ MatchOrder \/ FillOrder \/ BookPosition \/ BookPortfolio

Next == MarketMoves \/ SessionNext

Spec == Init /\ [][Next]_vars

-----------------------------------------------------------------------------
(* Properties                                                              *)

(* The records of the engines stay within their types and the session at   *)
(* one of the calls of EndToEndTradingTest.                                *)
TypeOK ==
  /\ BookTypeOK
  /\ stage \in {"watching", "created", "submitted", "accepted", "matched", "filled",
                "positioned", "threw"}
  /\ order # NoOrder =>
       /\ order.status \in Active \cup {"rejected", "filled", "cancelled"}
       /\ order.side \in {"buy", "sell"}
       /\ order.quantity \in Nat \ {0} /\ order.filled \in 0..order.quantity
  /\ allowed \in BOOLEAN /\ slipped \in BOOLEAN
  /\ position.quantity \in Nat /\ portfolio.quantity \in Nat /\ portfolio.cash \in Nat
  /\ orders \in 0..MaxOrders /\ bought \in Nat /\ sold \in Nat

(* PositionEngine and PortfolioStateEngine keep the same holding apart:    *)
(* between two orders they agree on its size, its average price and the    *)
(* profit realized, whatever was bought, sold in parts or left unfilled.   *)
(* Only an order that the cash does not cover leaves them apart.           *)
AccountsAgree ==
  stage = "positioned" \/ thrown = "cash" \/
    /\ position.quantity = portfolio.quantity
    /\ position.average = portfolio.average
    /\ position.realized = portfolio.realized

(* No fill is lost or booked twice: the position is what the orders bought *)
(* less what they sold, through partial fills and re-matching.             *)
FillsBookedOnce ==
  stage # "filled" => position.quantity = bought - sold

(* PortfolioStateEngine neither makes nor loses money: cash and the cost   *)
(* of what is held are the initial capital and the profit realized.        *)
MoneyConserved ==
  Plus(Whole(portfolio.cash), Times(portfolio.quantity, portfolio.average))
    = Plus(Whole(Capital), portfolio.realized)

(* The calls of a session are legal one after another: the order engine,   *)
(* the position and the portfolio never refuse a fill.  What may throw is  *)
(* sizing, an order rounded down to nothing, matching when the side to     *)
(* take from has become empty, and a purchase beyond the cash.             *)
OnlyExpectedExceptions ==
  thrown \in {"none", "sizing", "orderQuantity", "emptySide", "cash"}

(* Sizing keeps an order within the cash at its own price: the portfolio   *)
(* refuses only a purchase that was filled above that price.               *)
ShortOfCashOnlyBySlippage == thrown = "cash" => slipped

(* PositionEngine::buy asks for no cash and has booked a purchase when the *)
(* portfolio refuses it.  The session then ends with the two apart by that *)
(* one fill, whatever was bought and sold before it: the position holds    *)
(* what it was told and has realized the same profit, and its cost is the  *)
(* portfolio's capital and profit less a cash balance below zero.          *)
ApartByOneFill ==
  /\ portfolio.cash < report.value
  /\ position.quantity = portfolio.quantity + report.filled
  /\ position.realized = portfolio.realized
  /\ Plus(Whole(portfolio.cash - report.value), Times(position.quantity, position.average))
       = Plus(Whole(Capital), portfolio.realized)

ApartByTheRefusedFill == thrown = "cash" => ApartByOneFill

(* docs/QUANTITATIVE_AND_MATHEMATICAL_MODELS.md, 5.4: matching outputs     *)
(* "updated order book state", where only what was not taken remains in    *)
(* the queue.  (MatchingEngine::match takes the book as const.)            *)
MatchTakesLiquidity ==
  [][stage = "accepted" /\ stage' = "matched" =>
       LET s == OtherSide(order.side)
       IN  \A p \in Prices :
             QuantityAt(book'[s], p) = QuantityAt(book[s], p) - Taken(report'.fills, p)]_vars
=============================================================================
