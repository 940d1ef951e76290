--------------------------- MODULE OrderManagement ---------------------------
(***************************************************************************)
(* Order management over one register (lc/oms.py): orders are sealed into  *)
(* it, gated, filled, cancelled, expired, replaced and halted, in any      *)
(* interleaving of the callers.  Composes the market access gate and the   *)
(* venue's reports with the controls of the firm.                          *)
(***************************************************************************)
EXTENDS Execution

CONSTANTS
  Quantities,      \* the quantities orders are sealed with
  Policy,          \* ExecutionPolicy: expires, quantity, low, high
  MaxTime          \* bound on the clock

ASSUME QuantitiesAssumption == Quantities \subseteq Nat \ {0}
ASSUME MaxTimeAssumption == MaxTime \in Nat

vars == <<orders, now, halts, gateVars>>

-----------------------------------------------------------------------------
(* Orders enter, time passes *)

\* A sealed PARENT_ACTIVE event of a new order is appended to the register.
SealOrder(o, quantity, terms) ==
  /\ orders[o].state = Unseen
  /\ orders' = Recorded(orders, OpeningEvent(o, NoOrder, quantity, terms))
  /\ UNCHANGED <<now, halts, gateVars>>

Tick ==
  /\ now < MaxTime
  /\ now' = now + 1
  /\ UNCHANGED <<orders, halts, gateVars>>

-----------------------------------------------------------------------------
(* Cancellation, expiry, halts *)

\* cancel_order: a transition, with no look at the state before it.
Cancel(o) ==
  /\ orders[o].state # Unseen
  /\ orders' = Moved(orders, o, "CANCELLED")
  /\ UNCHANGED <<now, halts, gateVars>>

\* Mutant of MovedAll: the orders that are not withdrawn are lost.
MovedAllOnly(S, target) == [o \in S |-> Moved(orders, o, target)[o]]

\* One transition per order of S; the orders do not touch each other.
MovedAll(S, target) ==
  [o \in OrderIds |-> IF o \in S THEN Moved(orders, o, target)[o] ELSE orders[o]]

DayOrders ==
  {o \in OrderIds :
     /\ orders[o].state \in Live
     /\ orders[o].terms # NoTerms
     /\ orders[o].terms.tif = "DAY"}

\* expire_day_orders at the end of a business day's session.
ExpireDayOrders ==
  /\ orders' = MovedAll(DayOrders, "EXPIRED")
  /\ UNCHANGED <<now, halts, gateVars>>

\* Mutant of InScope: only orders the gate has passed are withdrawn.
InScopeReleasedOnly(scope) ==
  {o \in OrderIds :
     /\ orders[o].state \in Fillable
     /\ orders[o].terms # NoTerms
     /\ Applies(scope, orders[o].terms)}

InScope(scope) ==
  {o \in OrderIds :
     /\ orders[o].state \in Live
     /\ orders[o].terms # NoTerms
     /\ Applies(scope, orders[o].terms)}

\* engage_halt cancels what is live in its scope and puts the halt in force,
\* in place of whatever the same halt id stood for before.
EngageHalt(h, scope) ==
  /\ orders' = MovedAll(InScope(scope), "CANCELLED")
  /\ halts' = [halts EXCEPT ![h] = scope]
  /\ UNCHANGED <<now, gateVars>>

\* release_halt raises when the halt is not in force.
ReleaseHalt(h) ==
  /\ halts[h] # NoScope
  /\ halts' = [halts EXCEPT ![h] = NoScope]
  /\ UNCHANGED <<orders, now, gateVars>>

-----------------------------------------------------------------------------
(* Cancel/replace *)

\* evaluate_policy on the replacement: the policy is in date, the evidence
\* is fresh, eligible and from an allowed venue, quantity and price are in
\* bounds (replace_order passes no operator decision).
PolicyPasses(quantity, price, sound) ==
  /\ now <= Policy.expires
  /\ sound
  /\ quantity <= Policy.quantity
  /\ Policy.low <= price /\ price <= Policy.high

\* Mutant of ReplaceOrder: the replacement is released on the strategy's
\* decision alone.
ReplaceOrderUngated(o, terms, sound, fresh) ==
  LET replaced == Retermed(orders, o, "REPLACED", terms)
  IN  /\ orders[o].state # Unseen
      /\ GateOn(replaced, o, NoMark, NoLocate, fresh)
      /\ orders' =
           Moved(replaced, o,
             IF PolicyPasses(orders[o].quantity, terms.price, sound)
             THEN "MARKET_ACCESS_PASSED" ELSE "MARKET_ACCESS_REFUSED")
      /\ UNCHANGED <<now, halts>>

\* replace_order seals the new terms, reruns strategy and gate on them and
\* records the outcome.  Both run, and the gate remembers a pass, whatever the
\* other says and even when the order could no longer be replaced.  The order
\* is evaluated at its full quantity and without a sell mark or a locate.
ReplaceOrder(o, terms, sound, fresh) ==
  LET replaced == Retermed(orders, o, "REPLACED", terms)
      quantity == orders[o].quantity
      passed   == /\ PolicyPasses(quantity, terms.price, sound)
                  /\ Controls(replaced, o, terms, quantity, NoMark, NoLocate,
                              fresh)
  IN  /\ orders[o].state # Unseen
      /\ GateOn(replaced, o, NoMark, NoLocate, fresh)
      /\ orders' = Moved(replaced, o, IF passed THEN "MARKET_ACCESS_PASSED"
                                      ELSE "MARKET_ACCESS_REFUSED")
      /\ UNCHANGED <<now, halts>>

-----------------------------------------------------------------------------
Init == MarketInit

Next ==
  \/ \E o \in OrderIds, q \in Quantities, t \in Terms \cup {NoTerms} :
       SealOrder(o, q, t)
  \/ Tick
  \/ MarketNext
  \/ ExecutionNext
  \/ \E o \in OrderIds : Cancel(o)
  \/ ExpireDayOrders
  \/ \E h \in HaltIds, scope \in HaltScopes : EngageHalt(h, scope)
  \/ \E h \in HaltIds : ReleaseHalt(h)
  \/ \E o \in OrderIds, t \in Terms, sound \in BOOLEAN, fresh \in BOOLEAN :
       ReplaceOrder(o, t, sound, fresh)

Spec == Init /\ [][Next]_vars

-----------------------------------------------------------------------------
(* Properties *)

\* Every variable keeps its shape: an id the register does not hold has no
\* quantity and no terms, and what the gate remembers lies in the past.
PassTyped(d) ==
  /\ d.order \in OrderIds
  /\ d.key.quantity \in Nat
  /\ \E t \in Terms : d.key = Key(t, d.key.quantity)
  /\ d.at \in 0 .. now
  /\ d.locate \in Locates \cup {NoLocate}

TypeOK ==
  /\ WellFormed(orders)
  /\ now \in Nat
  /\ halts \in [HaltIds -> HaltScopes \cup {NoScope}]
  /\ \A k \in DOMAIN seen : seen[k] \in 0 .. now
  /\ locateUsed \in [Locates -> Nat]
  /\ \A d \in passes : PassTyped(d)

\* While a halt is in force no order in its scope is released or filling,
\* however late a decision taken before the halt is recorded, and whatever
\* terms a replacement gives an order (engage_halt, evaluate, record_decision,
\* replace_order).
HaltedScopeInert ==
  \A o \in OrderIds :
    orders[o].state \in Fillable /\ orders[o].terms # NoTerms =>
      ~Halted(orders[o].terms)

\* An order that may be filled works under exactly the terms and quantity
\* the gate passed for it: not under terms a replacement changed since, nor
\* on a decision about another order (record_decision, replace_order).
TradesOnGatedTerms ==
  \A o \in OrderIds :
    orders[o].state \in Fillable =>
      /\ orders[o].terms # NoTerms
      /\ \E d \in passes :
           d.order = o /\ d.key = Key(orders[o].terms, orders[o].quantity)

\* A pass that waits to be recorded stays good for as long as its order does
\* not move: it is about the order's present terms and quantity, and no halt
\* engaged meanwhile covers it.  What moves the order - a halt, a cancel, a
\* replacement, an expiry - makes the pass unrecordable, since no replacement
\* leaves its order waiting for a decision (evaluate, record_decision,
\* engage_halt, replace_order).
PassValid(d) ==
  LET order == orders[d.order]
  IN  /\ order.state # Unseen
      /\ order.state = "PARENT_ACTIVE" =>
           /\ order.terms # NoTerms
           /\ ~Halted(order.terms)
           /\ d.key = Key(order.terms, order.quantity)

PendingPassesValid ==
  /\ \A d \in passes : PassValid(d)
  /\ \A o \in OrderIds : orders[o].state # "REPLACED"

\* The exposure the register has released, summed over its orders, stays
\* within each account's credit and buying power and the firm's threshold,
\* although every order was evaluated at a different time, against the
\* exposure of that time, and recorded at another (evaluate, record_decision).
Released == {o \in OrderIds : orders[o].state \in Fillable}

Exposed(account) ==
  NotionalOf(orders, {o \in Released : orders[o].terms.account = account})

Accounts == {t.account : t \in Terms}

ExposureWithinLimits ==
  /\ \A a \in Accounts :
       Exposed(a) > 0 =>
         /\ Exposed(a) <= BuyingPower[a]
         /\ Exposed(a) <= Limits.credit[a]
  /\ NotionalOf(orders, Released) <= Limits.firm

\* Two passes for the same account, issue, side, quantity and price lie
\* further apart than the duplicate window, replacements included (evaluate).
NoDuplicateRelease ==
  \A d, e \in passes :
    d # e /\ d.key = e.key => Distance(d.at, e.at) > Limits.window

\* The short sales passed under a locate do not together exceed it, however
\* many orders, evaluations and expired windows it took (evaluate).
ShortSalesCovered ==
  \A l \in Locates :
    LET covered == {d \in passes : d.locate = l}
    IN  /\ covered # {} =>
             SumFunction([d \in covered |-> d.key.quantity])
               <= LocateTerms[l].quantity
        /\ \A d \in covered :
             d.at <= LocateTerms[l].expires /\ d.key.issue = LocateTerms[l].issue

\* A step that adds to what an order has executed leaves an immediate or
\* fill-or-kill order without a working remainder, does so for a fill-or-kill
\* order only in full, and keeps a notional order within its approved notional
\* (apply_execution).
FillsHonourTerms ==
  [][\A o \in OrderIds :
       LET before == orders[o]
           after  == orders'[o]
       IN  after.executed # before.executed =>
             /\ before.terms.tif = "FILL_OR_KILL" =>
                  after.executed = after.quantity
             /\ before.terms.tif = "IMMEDIATE_OR_CANCEL" =>
                  after.state \notin Live
             /\ before.terms.cap # NoCap =>
                  after.consideration <= before.terms.cap]_vars

\* The lives the register's orders lead (see OrderLife).
PhaseOf(state) ==
  CASE state = Unseen -> "absent"
    [] state \in {"INTENT_ACCEPTED", "STRATEGY_AUTHORIZED", "PARENT_ACTIVE",
                  "REPLACED"} -> "working"
    [] state \in Fillable -> "released"
    [] state \in Filled -> "filled"
    [] state = "HANDED_TO_ATREIDES" -> "settled"
    [] OTHER -> "closed"

LifeOf(book) ==
  [o \in OrderIds |->
     [phase |-> PhaseOf(book[o].state), quantity |-> book[o].quantity,
      filled |-> book[o].executed]]

Promise == INSTANCE OrderLife WITH life <- LifeOf(orders)

\* The composition implements what an order's client is promised: placed once,
\* filled only while released and never beyond its quantity, closed for good,
\* under cancels, halts, expiries, replacements and reports in any order.
KeepsPromise == Promise!Spec

\* A late fill reported for an order at the venue opens an exception, as
\* apply_execution says it did (lc/policy.py).
LateFillOpensException ==
  [][\A o \in OrderIds :
       orders[o].state \in Fillable /\ LateFill(o) =>
         orders'[o].state = "EXCEPTION_OPEN"]_vars

\* Cancelling an order with no unfilled remainder leaves it executed, since
\* cancel_order cancels only the unfilled remainder (lc/oms.py).
CancelKeepsExecution ==
  [][\A o \in OrderIds :
       orders[o].state = "EXECUTED" /\ Cancel(o) =>
         orders'[o].state = "EXECUTED"]_vars
=============================================================================
