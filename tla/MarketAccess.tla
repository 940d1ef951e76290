---------------------------- MODULE MarketAccess ----------------------------
(***************************************************************************)
(* The firm's market access gate (lc/market_access.py): the controls an    *)
(* order must pass before it is released, the memory the gate keeps        *)
(* between evaluations, and the recording of a decision in the register.   *)
(* Evaluating and recording are two calls: between them the order, the     *)
(* other orders, the halts and the clock may all have moved.               *)
(***************************************************************************)
EXTENDS OrderBook, FiniteSets, Functions

CONSTANTS
  Limits,        \* LimitsManifest: credit, firm, collar, quantity, notional,
                 \*   window, blockedIssues, blockedAccounts
  BuyingPower,   \* the attested capacity document: account -> buying power
  Position,      \* the same document: account -> issue -> shares held
  ReferencePrice,\* issue -> the caller's reference price
  Locates,       \* the locates of the attested locate document
  LocateTerms,   \* locate -> [issue, quantity, expires]
  NoLocate,      \* no locate named
  HaltIds,       \* the halts an authority may engage
  HaltScopes,    \* the scopes it may give them: [kind, target]
  NoScope        \* a halt that is not in force

ASSUME NoLocateAssumption == NoLocate \notin Locates
ASSUME NoScopeAssumption == NoScope \notin HaltScopes
ASSUME WindowAssumption == Limits.window \in Nat

\* What the validators let through: control prices and the firm's threshold
\* are positive (OrderTerms, LimitsManifest), the rest are numbers.
ASSUME AmountsAssumption ==
  /\ \A t \in Terms : t.price \in Nat \ {0}
  /\ Limits.firm \in Nat \ {0}
  /\ \A a \in DOMAIN Limits.credit : Limits.credit[a] \in Int
  /\ \A a \in DOMAIN BuyingPower : BuyingPower[a] \in Int
  /\ \A l \in Locates : LocateTerms[l].quantity \in Int

\* A register holds finitely many orders.
ASSUME OrderIdsAssumption == IsFiniteSet(OrderIds)

VARIABLES
  orders,        \* the replayed register: order id -> snapshot
  now,           \* the processing time
  halts,         \* FirmControlJournal.active_halts: halt id -> scope
  seen,          \* MarketAccessGate._seen: order key -> time of the last pass
  locateUsed,    \* MarketAccessGate._locate_used
  passes         \* MarketAccessGate.decisions that passed, with what they used

gateVars == <<seen, locateUsed, passes>>

\* SellMark: "SHORT" stands for SHORT and SHORT_EXEMPT, which no control tells
\* apart.
NoMark == "NONE"
SellMarks == {"LONG", "SHORT", NoMark}

-----------------------------------------------------------------------------
(* Halts *)

\* FirmHalt.applies, for a halt in force.
Applies(scope, terms) ==
  \/ scope.kind = "FIRM"
  \/ scope.kind = "ACCOUNT" /\ scope.target = terms.account
  \/ scope.kind = "STRATEGY" /\ scope.target = terms.strategy

Halted(terms) ==
  \E h \in HaltIds : halts[h] # NoScope /\ Applies(halts[h], terms)

-----------------------------------------------------------------------------
(* Open notional *)

OpenNotional(order) == Remaining(order) * order.terms.price

\* Mutant of OtherLive: orders not yet released are left out of the exposure.
OtherLiveReleasedOnly(book, o) ==
  {x \in OrderIds \ {o} : book[x].state \in Fillable}

\* The other live orders of the register, released or not.
OtherLive(book, o) == {x \in OrderIds \ {o} : book[x].state \in Live}

NotionalOf(book, S) == SumFunction([x \in S |-> OpenNotional(book[x])])

FirmOpen(book, o) ==
  NotionalOf(book, {x \in OtherLive(book, o) : book[x].terms # NoTerms})

AccountOpen(book, o, account) ==
  NotionalOf(book,
    {x \in OtherLive(book, o) :
       book[x].terms # NoTerms /\ book[x].terms.account = account})

-----------------------------------------------------------------------------
(* The controls *)

Distance(a, b) == IF a >= b THEN a - b ELSE b - a

\* The key _seen remembers an order by.
Key(terms, quantity) ==
  [account |-> terms.account, issue |-> terms.issue, side |-> terms.side,
   quantity |-> quantity, price |-> terms.price]

\* Mutant of Duplicate: the window is not checked.
DuplicateNever(key) == FALSE

Duplicate(key) ==
  key \in DOMAIN seen /\ now - seen[key] <= Limits.window

\* ACCOUNT_CREDIT and FIRM_AGGREGATE: the order's notional on top of what is
\* already open, against the attested buying power, the account's credit
\* limit and the firm's threshold.
WithinCredit(book, o, terms, notional) ==
  /\ terms.account \in DOMAIN BuyingPower \cap DOMAIN Limits.credit
  /\ AccountOpen(book, o, terms.account) + notional <= BuyingPower[terms.account]
  /\ AccountOpen(book, o, terms.account) + notional <= Limits.credit[terms.account]
  /\ FirmOpen(book, o) + notional <= Limits.firm

\* PRICE_COLLAR, MAXIMUM_QUANTITY, MAXIMUM_NOTIONAL (the collar in percent).
WithinOrderLimits(terms, quantity, notional) ==
  /\ Distance(terms.price, ReferencePrice[terms.issue]) * 100
       <= Limits.collar * ReferencePrice[terms.issue]
  /\ quantity <= Limits.quantity
  /\ notional <= Limits.notional

\* RESTRICTED_LIST, TRADING_HALT, ACCOUNT_RESTRICTION, FIRM_HALT.
Unrestricted(terms) ==
  /\ terms.issue \notin Limits.blockedIssues
  /\ terms.account \notin Limits.blockedAccounts
  /\ ~Halted(terms)

\* Mutant of LocateAvailable: what earlier passes consumed is forgotten.
LocateAvailableUnconsumed(terms, quantity, locate) ==
  /\ locate \in Locates
  /\ LocateTerms[locate].issue = terms.issue
  /\ now <= LocateTerms[locate].expires
  /\ quantity <= LocateTerms[locate].quantity

LocateAvailable(terms, quantity, locate) ==
  /\ locate \in Locates
  /\ LocateTerms[locate].issue = terms.issue
  /\ now <= LocateTerms[locate].expires
  /\ locateUsed[locate] + quantity <= LocateTerms[locate].quantity

\* SELL_MARKING, LONG_OWNERSHIP, LOCATE: controls on a sale only.
SaleCovered(terms, quantity, mark, locate) ==
  terms.side = "SELL" =>
    /\ mark # NoMark
    /\ mark = "LONG" => Position[terms.account][terms.issue] >= quantity
    /\ mark = "SHORT" => LocateAvailable(terms, quantity, locate)

\* Every check evaluate() makes: live orders without terms, a fresh capacity
\* document, credit, order limits, duplicates, restrictions, sale controls.
Controls(book, o, terms, quantity, mark, locate, fresh) ==
  LET notional == quantity * terms.price
  IN  /\ \A x \in OtherLive(book, o) : book[x].terms # NoTerms
      /\ fresh
      /\ WithinCredit(book, o, terms, notional)
      /\ WithinOrderLimits(terms, quantity, notional)
      /\ ~Duplicate(Key(terms, quantity))
      /\ Unrestricted(terms)
      /\ SaleCovered(terms, quantity, mark, locate)

-----------------------------------------------------------------------------
(* Evaluation *)

\* What the gate keeps of a pass: the order, the key and the time it entered
\* in _seen, and the locate a short sale was covered by.
Pass(o, terms, quantity, mark, locate) ==
  [order  |-> o,
   key    |-> Key(terms, quantity),
   at     |-> now,
   locate |-> IF terms.side = "SELL" /\ mark = "SHORT"
              THEN locate ELSE NoLocate]

Remember(key) ==
  [k \in DOMAIN seen \cup {key} |-> IF k = key THEN now ELSE seen[k]]

\* evaluate() on the terms and quantity of order o as `book` has them.  The
\* locate is charged for a short mark whatever the side.
GateOn(book, o, mark, locate, fresh) ==
  LET terms    == book[o].terms
      quantity == book[o].quantity
  IN  IF Controls(book, o, terms, quantity, mark, locate, fresh)
      THEN /\ seen' = Remember(Key(terms, quantity))
           /\ locateUsed' =
                IF mark = "SHORT" /\ locate # NoLocate
                THEN [locateUsed EXCEPT ![locate] = @ + quantity]
                ELSE locateUsed
           /\ passes' = passes \cup {Pass(o, terms, quantity, mark, locate)}
      ELSE UNCHANGED gateVars

\* MarketAccessGate.evaluate on an order of the register.  It raises when the
\* event carries no terms or the order is unknown; it does not ask what state
\* the order is in.
Evaluate(o, mark, locate, fresh) ==
  /\ orders[o].state # Unseen
  /\ orders[o].terms # NoTerms
  /\ GateOn(orders, o, mark, locate, fresh)
  /\ UNCHANGED <<orders, now, halts>>

\* record_decision, at any later time, and possibly more than once; it raises
\* for an order the register does not hold.
RecordPass(d) ==
  /\ orders[d.order].state # Unseen
  /\ orders' = Moved(orders, d.order, "MARKET_ACCESS_PASSED")
  /\ UNCHANGED <<now, halts, gateVars>>

\* The gate holds any order it is shown a stale capacity document with, so a
\* held decision may be waiting for every order that ever had terms.
RecordHold(o) ==
  /\ orders[o].state # Unseen
  /\ orders[o].terms # NoTerms
  /\ orders' = Moved(orders, o, "MARKET_ACCESS_REFUSED")
  /\ UNCHANGED <<now, halts, gateVars>>

-----------------------------------------------------------------------------
MarketInit ==
  /\ orders = EmptyBook
  /\ now = 0
  /\ halts = [h \in HaltIds |-> NoScope]
  /\ seen = <<>>
  /\ locateUsed = [l \in Locates |-> 0]
  /\ passes = {}

MarketNext ==
  \/ \E o \in OrderIds, mark \in SellMarks, locate \in Locates \cup {NoLocate},
        fresh \in BOOLEAN : Evaluate(o, mark, locate, fresh)
  \/ \E d \in passes : RecordPass(d)
  \/ \E o \in OrderIds : RecordHold(o)
=============================================================================
