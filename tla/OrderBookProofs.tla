--------------------------- MODULE OrderBookProofs ---------------------------
(***************************************************************************)
(* What the operators of OrderBook do to a book: the lemmas the proofs     *)
(* about order management rest on.  Each says which fields of which order  *)
(* an event changes, so that the proofs need not expand replay again.      *)
(***************************************************************************)
EXTENDS OrderBook, TLAPS

\* The states a transition may be asked for without stating an execution.
Moves == LifecycleState \ Executions

\* A transition records the target or NOT_REACHED, both states of the
\* enumeration, and never the state of an order the register does not hold.
LEMMA ReachedTyped ==
  ASSUME NEW state, NEW target \in LifecycleState
  PROVE  /\ Reached(state, target) \in LifecycleState
         /\ Reached(state, target) # Unseen
         /\ target \notin Executions => Reached(state, target) \notin Executions
BY DEF Reached, LifecycleState, Executions, Unseen

\* The checkpoints of a filled order, spelled out.
LEMMA FilledStates ==
  Filled = {"EXECUTED", "TRADE_CAPTURED", "ALLOCATED", "MATCHED", "AFFIRMED",
            "CLEARING_TRANSFORMED", "OBLIGATION_READY",
            "SETTLEMENT_CANDIDATE_READY"}
<1>1. DOMAIN SettlementPath = 1 .. 8
  BY DEF SettlementPath
<1>2. /\ SettlementPath[1] = "EXECUTED" /\ SettlementPath[2] = "TRADE_CAPTURED"
      /\ SettlementPath[3] = "ALLOCATED" /\ SettlementPath[4] = "MATCHED"
      /\ SettlementPath[5] = "AFFIRMED"
      /\ SettlementPath[6] = "CLEARING_TRANSFORMED"
      /\ SettlementPath[7] = "OBLIGATION_READY"
      /\ SettlementPath[8] = "SETTLEMENT_CANDIDATE_READY"
  BY DEF SettlementPath
<1>3. 1 .. 8 = {1, 2, 3, 4, 5, 6, 7, 8}
  OBVIOUS
<1> QED BY <1>1, <1>2, <1>3 DEF Filled

\* A transition without quantity, terms or cash changes the state of its
\* order and nothing else (transition with its defaults, replay).
LEMMA MovedChangesState ==
  ASSUME NEW book \in Books, NEW o \in OrderIds, NEW target \in Moves,
         book[o].state # Unseen
  PROVE  Moved(book, o, target) =
           [book EXCEPT ![o] =
              [@ EXCEPT !.state = Reached(book[o].state, target)]]
<1> DEFINE e == MoveEvent(book, o, target)
           r == Reached(book[o].state, target)
<1>1. book[o] \in OrderSnapshot
  BY DEF Books
<1>2. /\ e.order = o /\ e.parent = book[o].parent /\ e.state = r
      /\ e.quantity = book[o].quantity /\ e.consideration = 0
      /\ e.terms = book[o].terms
  BY DEF MoveEvent, TransitionEvent
<1>3. r \notin Executions
  BY ReachedTyped DEF Moves
<1>4. Snapshot(book[o], e) = [book[o] EXCEPT !.state = r]
  <2>1. Snapshot(book[o], e) =
          [state |-> r, quantity |-> book[o].quantity,
           executed |-> book[o].executed + 0,
           consideration |-> book[o].consideration + 0,
           parent |-> book[o].parent, terms |-> book[o].terms]
    BY <1>2, <1>3 DEF Snapshot
  <2> QED BY <2>1, <1>1 DEF OrderSnapshot
<1> QED BY <1>2, <1>4 DEF Moved, Recorded

\* A transition that seals new terms changes the state and the terms of its
\* order (replace_order's first transition).
LEMMA RetermedChangesTerms ==
  ASSUME NEW book \in Books, NEW o \in OrderIds, NEW target \in Moves,
         NEW terms \in Terms, book[o].state # Unseen
  PROVE  Retermed(book, o, target, terms) =
           [book EXCEPT ![o] =
              [state |-> Reached(book[o].state, target),
               quantity |-> book[o].quantity, executed |-> book[o].executed,
               consideration |-> book[o].consideration,
               parent |-> book[o].parent, terms |-> terms]]
<1> DEFINE e == TransitionEvent(book, o, target, book[o].quantity, terms, 0)
           r == Reached(book[o].state, target)
<1>1. book[o] \in OrderSnapshot
  BY DEF Books
<1>2. /\ e.order = o /\ e.parent = book[o].parent /\ e.state = r
      /\ e.quantity = book[o].quantity /\ e.consideration = 0
      /\ e.terms = terms
  BY DEF TransitionEvent
<1>3. r \notin Executions /\ terms # NoTerms
  BY ReachedTyped, NoTermsAssumption DEF Moves
<1>4. Snapshot(book[o], e) =
        [state |-> r, quantity |-> book[o].quantity,
         executed |-> book[o].executed,
         consideration |-> book[o].consideration,
         parent |-> book[o].parent, terms |-> terms]
  <2>1. Snapshot(book[o], e) =
          [state |-> r, quantity |-> book[o].quantity,
           executed |-> book[o].executed + 0,
           consideration |-> book[o].consideration + 0,
           parent |-> book[o].parent, terms |-> terms]
    BY <1>2, <1>3 DEF Snapshot
  <2> QED BY <2>1, <1>1 DEF OrderSnapshot
<1> QED BY <1>2, <1>4 DEF Retermed, Recorded

\* An execution of a fillable order adds its quantity and its cash and moves
\* the order to the requested state (the transition apply_execution records).
LEMMA ExecutedAddsFill ==
  ASSUME NEW book \in Books, NEW o \in OrderIds, NEW target \in Executions,
         NEW quantity \in Nat, NEW consideration \in Nat,
         book[o].state \in Fillable
  PROVE  Executed(book, o, target, quantity, consideration) =
           [book EXCEPT ![o] =
              [state |-> target, quantity |-> book[o].quantity,
               executed |-> book[o].executed + quantity,
               consideration |-> book[o].consideration + consideration,
               parent |-> book[o].parent, terms |-> book[o].terms]]
<1> DEFINE e == TransitionEvent(book, o, target, quantity, book[o].terms,
                                consideration)
<1>1. book[o] \in OrderSnapshot
  BY DEF Books
<1>2. Reached(book[o].state, target) = target /\ book[o].state # Unseen
  BY DEF Reached, Allowed, WorkingMoves, Fillable, Executions, Unseen
<1>3. /\ e.order = o /\ e.parent = book[o].parent /\ e.state = target
      /\ e.quantity = quantity /\ e.consideration = consideration
      /\ e.terms = book[o].terms
  BY <1>2 DEF TransitionEvent
<1>4. Snapshot(book[o], e) =
        [state |-> target, quantity |-> book[o].quantity,
         executed |-> book[o].executed + quantity,
         consideration |-> book[o].consideration + consideration,
         parent |-> book[o].parent, terms |-> book[o].terms]
  BY <1>2, <1>3 DEF Snapshot
<1> QED BY <1>3, <1>4 DEF Executed, Recorded

\* The sealed event of a new order opens it with its quantity and terms.
LEMMA OpeningOpens ==
  ASSUME NEW book \in Books, NEW o \in OrderIds,
         NEW quantity \in Nat, NEW terms \in Terms \cup {NoTerms},
         book[o] = EmptyBook[o]
  PROVE  Recorded(book, OpeningEvent(o, NoOrder, quantity, terms)) =
           [book EXCEPT ![o] =
              [state |-> "PARENT_ACTIVE", quantity |-> quantity,
               executed |-> 0, consideration |-> 0, parent |-> NoOrder,
               terms |-> terms]]
<1> DEFINE e == OpeningEvent(o, NoOrder, quantity, terms)
<1>1. /\ book[o].state = Unseen /\ book[o].executed = 0
      /\ book[o].consideration = 0 /\ book[o].terms = NoTerms
  BY DEF EmptyBook
<1>2. /\ e.order = o /\ e.parent = NoOrder /\ e.state = "PARENT_ACTIVE"
      /\ e.quantity = quantity /\ e.consideration = 0 /\ e.terms = terms
  BY DEF OpeningEvent
<1>3. Snapshot(book[o], e) =
        [state |-> "PARENT_ACTIVE", quantity |-> quantity, executed |-> 0,
         consideration |-> 0, parent |-> NoOrder, terms |-> terms]
  <2>1. Snapshot(book[o], e) =
          [state |-> "PARENT_ACTIVE", quantity |-> quantity,
           executed |-> 0 + 0, consideration |-> 0 + 0,
           parent |-> NoOrder,
           terms |-> IF terms # NoTerms THEN terms ELSE NoTerms]
    BY <1>1, <1>2 DEF Snapshot
  <2> QED BY <2>1
<1> QED BY <1>2, <1>3 DEF Recorded
-----------------------------------------------------------------------------
(* The same, field by field *)

\* A requested move changes the state of its order and nothing else: not its
\* terms, its quantity or its fills, and no other order.
LEMMA MovedFields ==
  ASSUME NEW book \in Books, NEW o \in OrderIds, NEW target \in Moves,
         book[o].state # Unseen
  PROVE  LET after == Moved(book, o, target) IN
         /\ after[o].state = Reached(book[o].state, target)
         /\ after[o].terms = book[o].terms
         /\ after[o].quantity = book[o].quantity
         /\ after[o].executed = book[o].executed
         /\ after[o].consideration = book[o].consideration
         /\ \A x \in OrderIds \ {o} : after[x] = book[x]
BY MovedChangesState DEF Books, OrderSnapshot

\* A replacement changes the state and the terms of its order, and nothing else.
LEMMA RetermedFields ==
  ASSUME NEW book \in Books, NEW o \in OrderIds, NEW target \in Moves,
         NEW terms \in Terms, book[o].state # Unseen
  PROVE  LET after == Retermed(book, o, target, terms) IN
         /\ after[o].state = Reached(book[o].state, target)
         /\ after[o].terms = terms
         /\ after[o].quantity = book[o].quantity
         /\ after[o].executed = book[o].executed
         /\ \A x \in OrderIds \ {o} : after[x] = book[x]
BY RetermedChangesTerms DEF Books

\* An execution of an order that may be filled adds its quantity and its
\* consideration, and touches no other order.
LEMMA ExecutedFields ==
  ASSUME NEW book \in Books, NEW o \in OrderIds, NEW target \in Executions,
         NEW quantity \in Nat, NEW consideration \in Nat,
         book[o].state \in Fillable
  PROVE  LET after == Executed(book, o, target, quantity, consideration) IN
         /\ after[o].state = target
         /\ after[o].terms = book[o].terms
         /\ after[o].quantity = book[o].quantity
         /\ after[o].executed = book[o].executed + quantity
         /\ after[o].consideration = book[o].consideration + consideration
         /\ \A x \in OrderIds \ {o} : after[x] = book[x]
BY ExecutedAddsFill DEF Books

-----------------------------------------------------------------------------
\* Replacing the snapshot of a known order by one that is known and has a
\* quantity keeps a book well formed.
LEMMA WellFormedStep ==
  ASSUME NEW book, WellFormed(book), NEW o \in OrderIds,
         NEW snapshot \in OrderSnapshot, snapshot.state # Unseen,
         snapshot.quantity > 0
  PROVE  WellFormed([book EXCEPT ![o] = snapshot])
BY DEF WellFormed, Books

\* Transitions keep a book well formed.
LEMMA MovedWellFormed ==
  ASSUME NEW book, WellFormed(book), NEW o \in OrderIds, NEW target \in Moves,
         book[o].state # Unseen
  PROVE  WellFormed(Moved(book, o, target))
<1> DEFINE snapshot ==
             [book[o] EXCEPT !.state = Reached(book[o].state, target)]
<1>1. book \in Books /\ book[o] \in OrderSnapshot /\ book[o].quantity > 0
  BY DEF WellFormed, Books
<1>2. /\ Reached(book[o].state, target) \in LifecycleState
      /\ Reached(book[o].state, target) # Unseen
  BY ReachedTyped DEF Moves
<1>3. /\ snapshot \in OrderSnapshot /\ snapshot.state # Unseen
      /\ snapshot.quantity > 0
  BY <1>1, <1>2 DEF OrderSnapshot
<1>4. WellFormed([book EXCEPT ![o] = snapshot])
  BY <1>3, WellFormedStep
<1> QED BY <1>1, <1>4, MovedChangesState

\* So do replacements of the terms,
LEMMA RetermedWellFormed ==
  ASSUME NEW book, WellFormed(book), NEW o \in OrderIds, NEW target \in Moves,
         NEW terms \in Terms, book[o].state # Unseen
  PROVE  WellFormed(Retermed(book, o, target, terms))
<1> DEFINE snapshot ==
             [state |-> Reached(book[o].state, target),
              quantity |-> book[o].quantity, executed |-> book[o].executed,
              consideration |-> book[o].consideration,
              parent |-> book[o].parent, terms |-> terms]
<1>1. book \in Books /\ book[o] \in OrderSnapshot /\ book[o].quantity > 0
  BY DEF WellFormed, Books
<1>2. /\ Reached(book[o].state, target) \in LifecycleState
      /\ Reached(book[o].state, target) # Unseen
  BY ReachedTyped DEF Moves
<1>3. /\ snapshot \in OrderSnapshot /\ snapshot.state # Unseen
      /\ snapshot.quantity > 0
  BY <1>1, <1>2 DEF OrderSnapshot
<1>4. WellFormed([book EXCEPT ![o] = snapshot])
  BY <1>3, WellFormedStep
<1> QED BY <1>1, <1>4, RetermedChangesTerms

\* and executions of orders that may be filled.
LEMMA ExecutedWellFormed ==
  ASSUME NEW book, WellFormed(book), NEW o \in OrderIds,
         NEW target \in Executions, NEW quantity \in Nat,
         NEW consideration \in Nat, book[o].state \in Fillable
  PROVE  WellFormed(Executed(book, o, target, quantity, consideration))
<1> DEFINE snapshot ==
             [state |-> target, quantity |-> book[o].quantity,
              executed |-> book[o].executed + quantity,
              consideration |-> book[o].consideration + consideration,
              parent |-> book[o].parent, terms |-> book[o].terms]
<1>1. /\ book \in Books /\ book[o] \in OrderSnapshot
      /\ book[o].state # Unseen
  BY DEF WellFormed, Books, Fillable, Unseen
<1>2. book[o].quantity > 0
  BY <1>1 DEF WellFormed
<1>3. target \in LifecycleState /\ target # Unseen
  BY DEF Executions, LifecycleState, Unseen
<1>4. /\ snapshot \in OrderSnapshot /\ snapshot.state # Unseen
      /\ snapshot.quantity > 0
  BY <1>1, <1>2, <1>3 DEF OrderSnapshot
<1>5. WellFormed([book EXCEPT ![o] = snapshot])
  BY <1>4, WellFormedStep
<1> QED BY <1>1, <1>5, ExecutedAddsFill

\* The sealed event of a new order keeps a book well formed.
LEMMA OpeningWellFormed ==
  ASSUME NEW book, WellFormed(book), NEW o \in OrderIds,
         NEW quantity \in Nat \ {0}, NEW terms \in Terms \cup {NoTerms},
         book[o].state = Unseen
  PROVE  WellFormed(Recorded(book, OpeningEvent(o, NoOrder, quantity, terms)))
<1> DEFINE snapshot ==
             [state |-> "PARENT_ACTIVE", quantity |-> quantity, executed |-> 0,
              consideration |-> 0, parent |-> NoOrder, terms |-> terms]
<1>1. book \in Books /\ book[o] = EmptyBook[o]
  BY DEF WellFormed
<1>2. /\ snapshot \in OrderSnapshot /\ snapshot.state # Unseen
      /\ snapshot.quantity > 0
  BY DEF OrderSnapshot, LifecycleState, Unseen
<1>3. WellFormed([book EXCEPT ![o] = snapshot])
  BY <1>2, WellFormedStep
<1> QED BY <1>1, <1>3, OpeningOpens
=============================================================================
