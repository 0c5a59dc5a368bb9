------------------------------- MODULE Orders -------------------------------
(***************************************************************************)
(* OrderManagementEngine: each operation takes an order and returns the    *)
(* updated one, or throws.  May... is the condition on which it does not   *)
(* throw; quantities and prices are positive from Create on.               *)
(***************************************************************************)
EXTENDS Integers

Create(id, side, quantity, price) ==
  [id |-> id, side |-> side, quantity |-> quantity, filled |-> 0, price |-> price,
   status |-> "created"]

MaySubmit(order) == order.status = "created"
Submit(order) == [order EXCEPT !.status = "submitted"]

MayAccept(order) == order.status = "submitted"
Accept(order) == [order EXCEPT !.status = "accepted"]

MayReject(order) == order.status = "submitted"
Reject(order) == [order EXCEPT !.status = "rejected"]

WholeQuantity(order) == order.quantity

Unfilled(order) == order.quantity - order.filled

MayFill(order, q) ==
  /\ q > 0
  /\ order.status \in {"accepted", "partiallyFilled"}
  /\ q <= Unfilled(order)

Fill(order, q) ==
  [order EXCEPT
     !.filled = @ + q,
     !.status = IF q = Unfilled(order) THEN "filled" ELSE "partiallyFilled"]

Active == {"created", "submitted", "accepted", "partiallyFilled"}

MayCancel(order) == order.status \in Active
Cancel(order) == [order EXCEPT !.status = "cancelled"]
=============================================================================
