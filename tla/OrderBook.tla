------------------------------ MODULE OrderBook ------------------------------
(***************************************************************************)
(* What one event of a lifecycle register does to the order snapshots that *)
(* replay() rebuilds (lc/lifecycle.py).  A book maps every order id to its *)
(* snapshot; an id the register has not seen yet has state Unseen.  The    *)
(* operators act on books as values, so a handler that appends several     *)
(* events composes them.                                                   *)
(***************************************************************************)
EXTENDS Integers, OrderStates

CONSTANTS
  OrderIds,    \* the order identifiers
  Terms,       \* the sealed order terms an event may carry
  NoTerms,     \* an event or a snapshot without terms
  NoOrder      \* no parent order

ASSUME NoTermsAssumption == NoTerms \notin Terms
ASSUME NoOrderAssumption == NoOrder \notin OrderIds

Unseen == "UNSEEN"

\* OrderSnapshot, with Unseen standing for a missing key of the dict.
OrderSnapshot ==
  [state         : LifecycleState \cup {Unseen},
   quantity      : Nat,
   executed      : Nat,
   consideration : Nat,
   parent        : OrderIds \cup {NoOrder},
   terms         : Terms \cup {NoTerms}]

Books == [OrderIds -> OrderSnapshot]

EmptyBook ==
  [o \in OrderIds |->
     [state |-> Unseen, quantity |-> 0, executed |-> 0, consideration |-> 0,
      parent |-> NoOrder, terms |-> NoTerms]]

\* What every register replays to: an id it does not hold has no quantity and
\* no terms, an order it holds has a quantity.
WellFormed(book) ==
  /\ book \in Books
  /\ \A o \in OrderIds :
       IF book[o].state = Unseen THEN book[o] = EmptyBook[o]
       ELSE book[o].quantity > 0

Known(book) == {o \in OrderIds : book[o].state # Unseen}

Remaining(order) == order.quantity - order.executed

-----------------------------------------------------------------------------
\* Mutant of Snapshot: the quantity of the latest event becomes the order's
\* quantity, so a fill shrinks the order it fills.
SnapshotTakingEventQuantity(prior, e) ==
  [state         |-> e.state,
   quantity      |-> e.quantity,
   executed      |-> prior.executed
                       + (IF prior.state # Unseen /\ e.state \in Executions
                          THEN e.quantity ELSE 0),
   consideration |-> prior.consideration + e.consideration,
   parent        |-> e.parent,
   terms         |-> IF e.terms # NoTerms THEN e.terms ELSE prior.terms]

\* Mutant of Snapshot: a replacement changes an order's terms and leaves it
\* released.
SnapshotLeavingReleased(prior, e) ==
  LET known == prior.state # Unseen
      fills == known /\ e.state \in Executions
  IN  [state         |-> IF e.state = "REPLACED" THEN prior.state ELSE e.state,
       quantity      |-> IF known THEN prior.quantity ELSE e.quantity,
       executed      |-> prior.executed + (IF fills THEN e.quantity ELSE 0),
       consideration |-> prior.consideration
                           + (IF fills THEN e.consideration ELSE 0),
       parent        |-> e.parent,
       terms         |-> IF e.terms # NoTerms THEN e.terms ELSE prior.terms]

\* The snapshot replay() builds for the order an event names: the first event
\* fixes the quantity, execution events of a known order add up, terms stay
\* until an event carries new ones.
Snapshot(prior, e) ==
  LET known == prior.state # Unseen
      fills == known /\ e.state \in Executions
  IN  [state         |-> e.state,
       quantity      |-> IF known THEN prior.quantity ELSE e.quantity,
       executed      |-> prior.executed + (IF fills THEN e.quantity ELSE 0),
       consideration |-> prior.consideration
                           + (IF fills THEN e.consideration ELSE 0),
       parent        |-> e.parent,
       terms         |-> IF e.terms # NoTerms THEN e.terms ELSE prior.terms]

\* The book once the register holds event e.
Recorded(book, e) == [book EXCEPT ![e.order] = Snapshot(@, e)]

-----------------------------------------------------------------------------
\* Mutant of TransitionEvent: a move that is no execution states what remains
\* of the order instead of its quantity.
TransitionEventOfRemainder(book, o, target, quantity, terms, consideration) ==
  [order         |-> o,
   parent        |-> book[o].parent,
   state         |-> Reached(book[o].state, target),
   quantity      |-> IF target \in Executions THEN quantity
                     ELSE Remaining(book[o]),
   consideration |-> consideration,
   terms         |-> terms]

\* The payload transition() seals: the target if the order's replayed state
\* allows it, NOT_REACHED otherwise, with the caller's quantity, terms and
\* consideration either way.
TransitionEvent(book, o, target, quantity, terms, consideration) ==
  [order         |-> o,
   parent        |-> book[o].parent,
   state         |-> Reached(book[o].state, target),
   quantity      |-> quantity,
   consideration |-> consideration,
   terms         |-> terms]

\* The event of a transition that states neither quantity, terms nor cash.
MoveEvent(book, o, target) ==
  TransitionEvent(book, o, target, book[o].quantity, book[o].terms, 0)

\* The book after transition(o, target) with defaults, with new terms, and
\* with an execution of `quantity` for `consideration`.
Moved(book, o, target) == Recorded(book, MoveEvent(book, o, target))

Retermed(book, o, target, terms) ==
  Recorded(book, TransitionEvent(book, o, target, book[o].quantity, terms, 0))

Executed(book, o, target, quantity, consideration) ==
  Recorded(book,
    TransitionEvent(book, o, target, quantity, book[o].terms, consideration))

\* The event that opens an order: a sealed PARENT_ACTIVE event.
OpeningEvent(o, parent, quantity, terms) ==
  [order |-> o, parent |-> parent, state |-> "PARENT_ACTIVE",
   quantity |-> quantity, consideration |-> 0, terms |-> terms]
=============================================================================
