------------------------------ MODULE Lifecycle ------------------------------
(***************************************************************************)
(* The lifecycle register (lc/lifecycle.py): an append-only, hash-chained  *)
(* journal of order events, and every operation that appends to it.  The   *)
(* register's only state is the journal; what an order is is replayed from *)
(* it.  A digest stands for the content it was computed from, so an event  *)
(* names its predecessor by that event's id.                               *)
(*                                                                         *)
(* Two callers may seal an event against the same head (seal_order_event); *)
(* `sealed` holds those not yet offered to append, and keeps them, so an   *)
(* event can also be offered twice.                                        *)
(***************************************************************************)
EXTENDS OrderBook, Sequences, SequencesExt

CONSTANTS
  Quantities,     \* the quantities an order may be opened with
  MaxChildren,    \* bound on the children of one split
  MaxEvents,      \* bound on the length of a journal of several orders
  MaxChain,       \* bound on the length of the journal of a single order
  MaxNotReached,  \* bound on the NOT_REACHED events of a journal
  MaxSealed       \* bound on the events sealed outside the register

ASSUME BoundsAssumption ==
  /\ MaxEvents \in Nat
  /\ MaxChain \in Nat /\ MaxChain >= MaxEvents
  /\ MaxNotReached \in Nat
  /\ MaxSealed \in Nat
  /\ MaxChildren \in Nat

ASSUME QuantitiesAssumption == Quantities \subseteq Nat \ {0}

VARIABLES
  journal,        \* LifecycleRegister.events
  parent,         \* IntentOutcome.parent_order_id, NoOrder before an intent
  refused,        \* IntentOutcome.refusal is not None
  sealed          \* events sealed outside the register

vars == <<journal, parent, refused, sealed>>

-----------------------------------------------------------------------------
(* The register *)

\* replay(): the book after each prefix of the events, the empty one included,
\* and the snapshots a whole journal stands for.
ReplayEach(events) ==
  LET after[n \in 0 .. Len(events)] ==
        IF n = 0 THEN EmptyBook ELSE Recorded(after[n - 1], events[n])
  IN  after

Replay(events) == ReplayEach(events)[Len(events)]

Book == Replay(journal)

\* Event ids, minted by the callers: the register's operations take an event's
\* place in the journal, other callers numbers beyond; NoEvent stands for a
\* missing prior digest.
EventIds == 1 .. MaxChain + MaxSealed
NoEvent == 0

HeadId == IF journal = <<>> THEN NoEvent ELSE Last(journal).id

UsedIds == {journal[i].id : i \in DOMAIN journal}

\* Mutant of Extends: an event is accepted whatever head it was sealed against.
ExtendsAnyHead(e) == e.id \notin UsedIds

\* LifecycleRegister.append: the event extends the head it was sealed
\* against and repeats no event id.
Extends(e) == e.prior = HeadId /\ e.id \notin UsedIds

NotReached(e) == e.state = "NOT_REACHED"

\* The bound on a journal: the longer one while it follows a single order.
LengthBound(events) ==
  IF Cardinality({e.order : e \in Range(events)}) > 1 THEN MaxEvents ELSE MaxChain

\* _append, once per payload: each event takes an unused id (append raises on
\* a used one) and is sealed against the event before it.
AppendEach(payloads) ==
  LET place == Len(journal)
      chained ==
        [i \in DOMAIN payloads |->
           [id            |-> place + i,
            prior         |-> IF i = 1 THEN HeadId ELSE place + i - 1,
            order         |-> payloads[i].order,
            parent        |-> payloads[i].parent,
            state         |-> payloads[i].state,
            quantity      |-> payloads[i].quantity,
            consideration |-> payloads[i].consideration,
            terms         |-> payloads[i].terms]]
  IN  /\ Len(journal \o chained) <= LengthBound(journal \o chained)
      /\ payloads[1].state = "NOT_REACHED" =>
           Len(SelectSeq(journal, NotReached)) < MaxNotReached
      /\ journal' = journal \o chained

-----------------------------------------------------------------------------
(* The intent: accepted, authorized, activated, split *)

IntentEvent(o, state, quantity) ==
  [order |-> o, parent |-> NoOrder, state |-> state, quantity |-> quantity,
   consideration |-> 0, terms |-> NoTerms]

\* accept_intent opens a new register with the parent order; any one of the
\* six checks on the envelope and its manifests that fails is a refusal.
AcceptIntent(o, quantity, verified) ==
  /\ journal = <<>>
  /\ AppendEach(<<IntentEvent(o, IF verified THEN "INTENT_ACCEPTED" ELSE "REFUSED",
                           quantity)>>)
  /\ parent' = o
  /\ refused' = ~verified
  /\ UNCHANGED sealed

\* authorize_strategy and activate_parent look at the register's last event,
\* whichever order it belongs to, and record on the parent order.
NextOnParent(required, reached) ==
  /\ parent # NoOrder
  /\ AppendEach(<<IntentEvent(parent,
                           IF Last(journal).state = required
                           THEN reached ELSE "NOT_REACHED",
                           Last(journal).quantity)>>)
  /\ UNCHANGED <<parent, refused, sealed>>

AuthorizeStrategy == NextOnParent("INTENT_ACCEPTED", "STRATEGY_AUTHORIZED")

ActivateParent == NextOnParent("STRATEGY_AUTHORIZED", "PARENT_ACTIVE")

\* The children a split may name.
Child == [order : OrderIds, quantity : Quantities, terms : Terms \cup {NoTerms}]

ChildLists == UNION {[1 .. n -> Child] : n \in 1 .. MaxChildren}

TotalQuantity(children) ==
  FoldLeft(LAMBDA sum, c : sum + c.quantity, 0, children)

\* split_parent: the last event stands for the parent; it must be active and
\* the children must add up to its quantity.
SplitParent(children) ==
  /\ parent # NoOrder
  /\ ~refused
  /\ Last(journal).state = "PARENT_ACTIVE"
  /\ TotalQuantity(children) = Last(journal).quantity
  /\ IsInjective([i \in DOMAIN children |-> children[i].order])
  /\ \A i \in DOMAIN children : children[i].order # parent
  /\ AppendEach([i \in DOMAIN children |->
                OpeningEvent(children[i].order, parent,
                             children[i].quantity, children[i].terms)])
  /\ UNCHANGED <<parent, refused, sealed>>

-----------------------------------------------------------------------------
(* Orders sealed outside the register *)

\* seal_order_event of a new order against the head as it is now, under an
\* id of its own or, by mistake, under the id the head already has.
SealOrder(o, quantity, terms) ==
  /\ Len(journal) < MaxEvents
  /\ Cardinality(sealed) < MaxSealed
  /\ Book[o].state = Unseen
  /\ \E id \in EventIds \cap {MaxChain + 1 + Cardinality(sealed), HeadId} :
       sealed' = sealed \cup
         {[id |-> id, prior |-> HeadId, order |-> o, parent |-> NoOrder,
           state |-> "PARENT_ACTIVE", quantity |-> quantity,
           consideration |-> 0, terms |-> terms]}
  /\ UNCHANGED <<journal, parent, refused>>

\* LifecycleRegister.append of a sealed event; an event that does not extend
\* the register raises and changes nothing.
AppendSealed(e) ==
  /\ Extends(e)
  /\ journal' = Append(journal, e)
  /\ UNCHANGED <<parent, refused, sealed>>

-----------------------------------------------------------------------------
(* Moves *)

\* The states the code requests through transition() without a quantity.
Requested ==
  LifecycleState \ ({"INTENT_ACCEPTED", "REFUSED", "STRATEGY_AUTHORIZED",
                     "PARENT_ACTIVE", "NOT_REACHED"} \cup Executions)

\* transition(): recorded as requested or as NOT_REACHED.  Only replace_order
\* passes terms; every other caller leaves the order's own.
Transition(o) ==
  LET book == Book
  IN  /\ o \in Known(book)
      /\ \E target \in Requested :
           \E terms \in IF target = "REPLACED" THEN Terms ELSE {book[o].terms} :
             AppendEach(<<TransitionEvent(book, o, target, book[o].quantity,
                                          terms, 0)>>)
      /\ UNCHANGED <<parent, refused, sealed>>

\* The quantities a venue may report: whole units up to the largest order.
FillQuantities == 1 .. Max(Quantities)

\* The transition apply_execution asks for once its controls have passed:
\* an order gated and not closed, terms sealed, no more than what remains.
RecordFill(o, quantity) ==
  LET book   == Book
      target == IF quantity = Remaining(book[o]) THEN "EXECUTED"
                ELSE "PARTIALLY_EXECUTED"
  IN  /\ book[o].state \in Fillable
      /\ book[o].terms # NoTerms
      /\ quantity <= Remaining(book[o])
      /\ AppendEach(<<TransitionEvent(book, o, target, quantity,
                                      book[o].terms, quantity)>>)
      /\ UNCHANGED <<parent, refused, sealed>>

\* record_not_reached: a stage that did not happen, written as the state.
RecordNotReached(o) ==
  LET book == Book
  IN  /\ o \in Known(book)
      /\ AppendEach(<<[order |-> o, parent |-> book[o].parent,
                       state |-> "NOT_REACHED", quantity |-> book[o].quantity,
                       consideration |-> 0, terms |-> book[o].terms]>>)
      /\ UNCHANGED <<parent, refused, sealed>>

-----------------------------------------------------------------------------
Init ==
  /\ journal = <<>>
  /\ parent = NoOrder
  /\ refused = FALSE
  /\ sealed = {}

Next ==
  \/ \E o \in OrderIds, q \in Quantities, v \in BOOLEAN : AcceptIntent(o, q, v)
  \/ AuthorizeStrategy
  \/ ActivateParent
  \/ \E children \in ChildLists : SplitParent(children)
  \/ \E o \in OrderIds, q \in Quantities, t \in Terms \cup {NoTerms} :
       SealOrder(o, q, t)
  \/ \E e \in sealed : AppendSealed(e)
  \/ \E o \in OrderIds : Transition(o)
  \/ \E o \in OrderIds, q \in FillQuantities : RecordFill(o, q)
  \/ \E o \in OrderIds : RecordNotReached(o)

Spec == Init /\ [][Next]_vars

-----------------------------------------------------------------------------
(* Properties *)

\* Every variable keeps its shape: the journal is a sequence of sealed events
\* and every event states a quantity.
Event ==
  [id : EventIds, prior : EventIds \cup {NoEvent}, order : OrderIds,
   parent : OrderIds \cup {NoOrder}, state : LifecycleState,
   quantity : Nat \ {0}, consideration : Nat, terms : Terms \cup {NoTerms}]

TypeOK ==
  /\ \A i \in DOMAIN journal : journal[i] \in Event
  /\ Len(journal) <= MaxChain
  /\ parent \in OrderIds \cup {NoOrder}
  /\ refused \in BOOLEAN
  /\ \A e \in sealed : e \in Event

\* The journal is one chain: each event names the event before it, no id
\* occurs twice, and each event records what the register as it stood just
\* before allowed - a move of a known order along the table, or an opening of
\* an order, which a split may name again (append, transition and
\* split_parent; two callers sealing on one head, an event offered twice).
DecidedOnHead(i) ==
  LET e   == journal[i]
      was == ReplayEach(journal)[i - 1][e.order].state
  IN  \/ e.state = "NOT_REACHED" /\ was # Unseen
      \/ <<was, e.state>> \in Allowed
      \/ e.state \in {"INTENT_ACCEPTED", "REFUSED"} /\ was = Unseen
      \/ e.state = "STRATEGY_AUTHORIZED" /\ was = "INTENT_ACCEPTED"
      \/ /\ e.state = "PARENT_ACTIVE"
         /\ was \in {Unseen, "STRATEGY_AUTHORIZED"} \/ e.parent # NoOrder

OneChain ==
  \A i \in DOMAIN journal :
    /\ journal[i].prior = IF i = 1 THEN NoEvent ELSE journal[i - 1].id
    /\ \A j \in 1 .. i - 1 : journal[j].id # journal[i].id
    /\ DecidedOnHead(i)

\* An execution is recorded only after the market access gate passed the
\* order, and after every replacement it passed again: the last of the two
\* events before a fill is the pass (transition, the replacement path).
GatePrecedesFill ==
  \A i \in DOMAIN journal :
    journal[i].state \in Executions =>
      \E j \in 1 .. i - 1 :
        /\ journal[j].order = journal[i].order
        /\ journal[j].state = "MARKET_ACCESS_PASSED"
        /\ \A k \in j .. i - 1 :
             journal[k].order = journal[i].order => journal[k].state # "REPLACED"

\* Where the journal has an order pass checkpoint i.
Checkpoint(o, i) ==
  {j \in DOMAIN journal :
     journal[j].order = o /\ journal[j].state = SettlementPath[i]}

\* An order handed to Atreides, or refused by it, has passed every checkpoint
\* exactly once and in order: executed, captured, allocated, matched,
\* affirmed, transformed, ready, candidate (transition over _ALLOWED).
HandedInOrder ==
  \A o \in OrderIds :
    Book[o].state \in {"HANDED_TO_ATREIDES", "REFUSED_BY_ATREIDES"} =>
      \A i \in DOMAIN SettlementPath :
        \E j \in DOMAIN journal :
          /\ Checkpoint(o, i) = {j}
          /\ i > 1 => \A k \in Checkpoint(o, i - 1) : k < j

\* The life an order has in a book, as its client is promised it.
PhaseOf(state) ==
  CASE state = Unseen -> "absent"
    [] state \in {"INTENT_ACCEPTED", "STRATEGY_AUTHORIZED", "PARENT_ACTIVE",
                  "REPLACED"} -> "working"
    [] state \in Fillable -> "released"
    [] state \in Filled -> "filled"
    [] state = "HANDED_TO_ATREIDES" -> "settled"
    [] OTHER -> "closed"

LifeOf(book) ==
  [o \in OrderIds |->
     LET order == book[o]
     IN  [phase |-> PhaseOf(order.state), quantity |-> order.quantity,
          filled |-> order.executed]]

Promise == INSTANCE OrderLife WITH life <- LifeOf(Book)

\* A step that splits the parent and names an order the register holds.
NamedAgain(o) ==
  /\ Book[o].state # Unseen
  /\ \E i \in Len(journal) + 1 .. Len(journal') :
       /\ journal'[i].order = o
       /\ journal'[i].state = "PARENT_ACTIVE"
       /\ journal'[i].parent # NoOrder

\* Whatever is recorded, and in whatever order, every step takes every order
\* along a life its client is promised; the one exception is a split that
\* names the order again, which may reopen even a closed order (replay over
\* every operation of the register).
KeepsPromise ==
  /\ Promise!Init
  /\ [][LET before == LifeOf(Book)
            after  == LifeOf(Book)'
        IN  /\ after \in [OrderIds -> Promise!Lives]
            /\ \A o \in OrderIds :
                 \/ NamedAgain(o)
                 \/ after[o] = before[o]
                 \/ Promise!Lawful(before[o], after[o])]_vars

\* A parent that was split has children whose quantities add up to its own
\* (split_parent's docstring; tests/test_lifecycle.py asserts it of a split).
Children(book, p) == {o \in OrderIds : book[o].parent = p}

SplitConserves ==
  (parent # NoOrder /\ Children(Book, parent) # {}) =>
    MapThenSumSet(LAMBDA o : Book[o].quantity, Children(Book, parent))
      = Book[parent].quantity
=============================================================================
