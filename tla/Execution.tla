------------------------------ MODULE Execution ------------------------------
(***************************************************************************)
(* What a venue's execution report does to the register: apply_execution   *)
(* (lc/policy.py).  Reports arrive in any order, late, twice, or for an    *)
(* order that was withdrawn meanwhile.  The reports that only HOLD - a     *)
(* foreign lifecycle, a digest that does not match, an OVERFILL, a failed  *)
(* control - leave the register as it was and are no step here.            *)
(***************************************************************************)
EXTENDS MarketAccess

CONSTANTS
  FillQuantities,  \* the quantities a report may carry
  FillPrices,      \* the prices it may carry
  NoCap,           \* terms without an approved notional
  NoExpiry         \* terms whose authority states no expiry

ASSUME FillAssumption ==
  /\ FillQuantities \subseteq Nat \ {0}
  /\ FillPrices \subseteq Nat \ {0}

-----------------------------------------------------------------------------
(* The controls on a fill *)

\* The sealed limit: a buy not above it, a sale not below it.
WithinLimit(terms, price) ==
  terms.limited =>
    /\ terms.side = "BUY" => price <= terms.price
    /\ terms.side = "SELL" => price >= terms.price

\* The approved notional of a notional-denominated order, over all its fills.
WithinCap(order, quantity, price) ==
  order.terms.cap # NoCap =>
    order.consideration + quantity * price <= order.terms.cap

\* Mutant of Accepted: the quantity is compared with the order's, not with
\* what remains of it.
AcceptedAgainstOrderQuantity(o, quantity, price, at) ==
  LET order == orders[o]
  IN  /\ order.state \in Fillable
      /\ order.terms # NoTerms
      /\ order.terms.expires # NoExpiry
      /\ order.terms.session
      /\ at <= order.terms.expires
      /\ WithinLimit(order.terms, price)
      /\ WithinCap(order, quantity, price)
      /\ quantity <= order.quantity

\* The controls of apply_execution, in its order: the gate has passed the
\* order and nothing has closed it, the terms are sealed with an expiry, the
\* session is open, the fill happened before the expiry, the limit and the
\* approved notional hold, and no more than the remainder is reported.
Accepted(o, quantity, price, at) ==
  LET order == orders[o]
  IN  /\ order.state \in Fillable
      /\ order.terms # NoTerms
      /\ order.terms.expires # NoExpiry
      /\ order.terms.session
      /\ at <= order.terms.expires
      /\ WithinLimit(order.terms, price)
      /\ WithinCap(order, quantity, price)
      /\ quantity <= Remaining(order)

-----------------------------------------------------------------------------
(* The reports that change the register *)

\* A report the venue itself calls late asks for an exception, whatever the
\* order's state; the transition table decides whether it is reached.
LateFill(o) ==
  /\ orders[o].state # Unseen
  /\ orders' = Moved(orders, o, "EXCEPTION_OPEN")
  /\ UNCHANGED <<now, halts, gateVars>>

\* A fill for an order that was cancelled or expired opens an exception.
FillAfterClose(o) ==
  /\ orders[o].state \in {"CANCELLED", "EXPIRED"}
  /\ orders' = Moved(orders, o, "EXCEPTION_OPEN")
  /\ UNCHANGED <<now, halts, gateVars>>

\* A fill-or-kill order that is not filled in full is cancelled, unfilled.
KillPartialFill(o, quantity, price, at) ==
  /\ Accepted(o, quantity, price, at)
  /\ orders[o].terms.tif = "FILL_OR_KILL"
  /\ quantity # Remaining(orders[o])
  /\ orders' = Moved(orders, o, "CANCELLED")
  /\ UNCHANGED <<now, halts, gateVars>>

\* A fill of all that remains executes the order.
FillRemainder(o, quantity, price, at) ==
  /\ Accepted(o, quantity, price, at)
  /\ quantity = Remaining(orders[o])
  /\ orders' = Executed(orders, o, "EXECUTED", quantity, quantity * price)
  /\ UNCHANGED <<now, halts, gateVars>>

\* A fill of less leaves an order working that may go on working.
FillPart(o, quantity, price, at) ==
  /\ Accepted(o, quantity, price, at)
  /\ quantity # Remaining(orders[o])
  /\ orders[o].terms.tif \notin {"FILL_OR_KILL", "IMMEDIATE_OR_CANCEL"}
  /\ orders' =
       Executed(orders, o, "PARTIALLY_EXECUTED", quantity, quantity * price)
  /\ UNCHANGED <<now, halts, gateVars>>

\* Mutant of FillPartImmediate: the remainder is left working.
FillPartImmediateOnly(o, quantity, price, at) ==
  /\ Accepted(o, quantity, price, at)
  /\ quantity # Remaining(orders[o])
  /\ orders[o].terms.tif = "IMMEDIATE_OR_CANCEL"
  /\ orders' =
       Executed(orders, o, "PARTIALLY_EXECUTED", quantity, quantity * price)
  /\ UNCHANGED <<now, halts, gateVars>>

\* An immediate-or-cancel order keeps the part and loses the remainder, in
\* one call (without a remainder event the call only HOLDs).
FillPartImmediate(o, quantity, price, at) ==
  /\ Accepted(o, quantity, price, at)
  /\ quantity # Remaining(orders[o])
  /\ orders[o].terms.tif = "IMMEDIATE_OR_CANCEL"
  /\ orders' =
       Moved(Executed(orders, o, "PARTIALLY_EXECUTED", quantity,
                      quantity * price),
             o, "CANCELLED")
  /\ UNCHANGED <<now, halts, gateVars>>

Reported(o, quantity, price, at) ==
  \/ KillPartialFill(o, quantity, price, at)
  \/ FillRemainder(o, quantity, price, at)
  \/ FillPart(o, quantity, price, at)
  \/ FillPartImmediate(o, quantity, price, at)

\* A report tells when the fill happened: now, or earlier if it was delayed.
ExecutionNext ==
  \/ \E o \in OrderIds : LateFill(o) \/ FillAfterClose(o)
  \/ \E o \in OrderIds, quantity \in FillQuantities, price \in FillPrices,
        at \in 0 .. now : Reported(o, quantity, price, at)
=============================================================================
