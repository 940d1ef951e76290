------------------------ MODULE OrderManagementProofs ------------------------
(***************************************************************************)
(* Theorems about OrderManagement, for every register, every set of terms, *)
(* every limits manifest and every clock: its variables keep their shape;  *)
(* a halted scope stays inert; an order trades only on terms the gate      *)
(* passed.                                                                 *)
(***************************************************************************)
EXTENDS OrderManagement, OrderBookProofs, Sums

-----------------------------------------------------------------------------
(* Type correctness *)

\* The moves order management asks for state no execution.
LEMMA MovesRequested ==
  /\ {"CANCELLED", "EXPIRED", "EXCEPTION_OPEN", "REPLACED",
      "MARKET_ACCESS_PASSED", "MARKET_ACCESS_REFUSED"} \subseteq Moves
  /\ {"PARTIALLY_EXECUTED", "EXECUTED"} = Executions
BY DEF Moves, LifecycleState, Executions

\* Withdrawing a set of known orders, one transition each, keeps the register
\* well formed (expire_day_orders, engage_halt).
LEMMA MovedAllWellFormed ==
  ASSUME WellFormed(orders), NEW target \in Moves, NEW S \in SUBSET OrderIds,
         \A o \in S : orders[o].state # Unseen
  PROVE  WellFormed(MovedAll(S, target))
<1> DEFINE book == MovedAll(S, target)
<1>1. \A o \in S : /\ WellFormed(Moved(orders, o, target))
                   /\ Moved(orders, o, target)[o].state # Unseen
  <2> SUFFICES ASSUME NEW o \in S
               PROVE  /\ WellFormed(Moved(orders, o, target))
                      /\ Moved(orders, o, target)[o].state # Unseen
    OBVIOUS
  <2>1. WellFormed(Moved(orders, o, target))
    BY MovedWellFormed
  <2>2. Moved(orders, o, target) =
          [orders EXCEPT ![o] =
             [@ EXCEPT !.state = Reached(orders[o].state, target)]]
    BY MovedChangesState DEF WellFormed
  <2>3. Moved(orders, o, target)[o].state = Reached(orders[o].state, target)
    BY <2>2 DEF WellFormed, Books, OrderSnapshot
  <2> QED BY <2>1, <2>3, ReachedTyped DEF Moves
<1>2. book = [o \in OrderIds |-> IF o \in S THEN Moved(orders, o, target)[o]
                                 ELSE orders[o]]
  BY DEF MovedAll
<1>3. book \in Books
  BY <1>1, <1>2 DEF WellFormed, Books
<1>4. ASSUME NEW o \in OrderIds
      PROVE  IF book[o].state = Unseen THEN book[o] = EmptyBook[o]
             ELSE book[o].quantity > 0
  BY <1>1, <1>2 DEF WellFormed
<1> QED BY <1>3, <1>4 DEF WellFormed

\* What the gate remembers keeps its shape whether an evaluation passes or
\* holds, and a pass is only ever added for the order it was asked about.
LEMMA GateTyped ==
  ASSUME TypeOK, NEW book, WellFormed(book), NEW o \in OrderIds,
         book[o].terms \in Terms, book[o].state # Unseen,
         NEW mark, NEW locate \in Locates \cup {NoLocate}, NEW fresh,
         GateOn(book, o, mark, locate, fresh), now' = now
  PROVE  /\ \A k \in DOMAIN seen' : seen'[k] \in 0 .. now
         /\ locateUsed' \in [Locates -> Nat]
         /\ \A d \in passes' : PassTyped(d)
<1> DEFINE terms == book[o].terms
           quantity == book[o].quantity
<1>1. quantity \in Nat
  BY DEF WellFormed, Books, OrderSnapshot
<1>2. CASE Controls(book, o, terms, quantity, mark, locate, fresh)
  <2>1. /\ seen' = Remember(Key(terms, quantity))
        /\ locateUsed' =
             IF mark = "SHORT" /\ locate # NoLocate
             THEN [locateUsed EXCEPT ![locate] = @ + quantity]
             ELSE locateUsed
        /\ passes' = passes \cup {Pass(o, terms, quantity, mark, locate)}
    BY <1>2 DEF GateOn
  <2>2. \A k \in DOMAIN seen' : seen'[k] \in 0 .. now
    BY <2>1 DEF Remember, TypeOK
  <2>3. locateUsed' \in [Locates -> Nat]
    BY <2>1, <1>1 DEF TypeOK
  <2>4. PassTyped(Pass(o, terms, quantity, mark, locate))
    BY <1>1 DEF PassTyped, Pass, Key, TypeOK
  <2> QED BY <2>1, <2>2, <2>3, <2>4 DEF TypeOK
<1>3. CASE ~Controls(book, o, terms, quantity, mark, locate, fresh)
  BY <1>3 DEF GateOn, gateVars, TypeOK
<1> QED BY <1>2, <1>3

\* A step that moves one known order and changes neither the clock, the halts
\* nor the gate keeps every shape.
LEMMA MoveTyped ==
  ASSUME TypeOK, NEW o \in OrderIds, orders[o].state # Unseen,
         NEW target \in Moves, orders' = Moved(orders, o, target),
         UNCHANGED <<now, halts, gateVars>>
  PROVE  TypeOK'
<1>1. WellFormed(orders')
  BY MovedWellFormed DEF TypeOK
<1> QED BY <1>1 DEF TypeOK, gateVars, PassTyped

\* An empty register, a new gate and no halt have the right shape.
LEMMA TypeInit == Init => TypeOK
BY DEF Init, MarketInit, TypeOK, WellFormed, Books, EmptyBook, OrderSnapshot

\* Every step keeps the shape of every variable.
LEMMA TypeNext == TypeOK /\ [Next]_vars => TypeOK'
<1> SUFFICES ASSUME TypeOK, [Next]_vars
             PROVE  TypeOK'
  OBVIOUS
<1> USE MovesRequested
<1>1. ASSUME NEW o \in OrderIds, NEW q \in Quantities,
             NEW t \in Terms \cup {NoTerms}, SealOrder(o, q, t)
      PROVE  TypeOK'
  <2>1. WellFormed(orders')
    BY <1>1, OpeningWellFormed, QuantitiesAssumption DEF SealOrder, TypeOK
  <2> QED BY <1>1, <2>1 DEF SealOrder, TypeOK, gateVars, PassTyped
<1>2. CASE Tick
  BY <1>2 DEF Tick, TypeOK, gateVars, PassTyped
<1>3. ASSUME NEW o \in OrderIds, NEW mark \in SellMarks,
             NEW locate \in Locates \cup {NoLocate}, NEW fresh \in BOOLEAN,
             Evaluate(o, mark, locate, fresh)
      PROVE  TypeOK'
  <2>1. /\ orders[o].state # Unseen /\ orders[o].terms # NoTerms
        /\ GateOn(orders, o, mark, locate, fresh)
        /\ orders' = orders /\ now' = now /\ halts' = halts
    BY <1>3 DEF Evaluate
  <2>2. WellFormed(orders) /\ orders[o].terms \in Terms
    BY <2>1 DEF TypeOK, WellFormed, Books, OrderSnapshot
  <2>3. /\ \A k \in DOMAIN seen' : seen'[k] \in 0 .. now
        /\ locateUsed' \in [Locates -> Nat]
        /\ \A d \in passes' : PassTyped(d)
    BY <2>1, <2>2, GateTyped
  <2> QED BY <2>1, <2>2, <2>3 DEF TypeOK, PassTyped
<1>4. ASSUME NEW d \in passes, RecordPass(d)
      PROVE  TypeOK'
  <2>1. d.order \in OrderIds
    BY DEF TypeOK, PassTyped
  <2> QED BY <1>4, <2>1, MoveTyped DEF RecordPass
<1>5. ASSUME NEW o \in OrderIds, RecordHold(o)
      PROVE  TypeOK'
  BY <1>5, MoveTyped DEF RecordHold
<1>6. ASSUME NEW o \in OrderIds, LateFill(o) \/ FillAfterClose(o) \/ Cancel(o)
      PROVE  TypeOK'
  <2>1. CASE LateFill(o)
    BY <2>1, MoveTyped DEF LateFill
  <2>2. CASE FillAfterClose(o)
    <3>1. orders[o].state # Unseen
      BY <2>2 DEF FillAfterClose, Unseen
    <3> QED BY <2>2, <3>1, MoveTyped DEF FillAfterClose
  <2>3. CASE Cancel(o)
    BY <2>3, MoveTyped DEF Cancel
  <2> QED BY <1>6, <2>1, <2>2, <2>3
<1>7. ASSUME NEW o \in OrderIds, NEW quantity \in FillQuantities,
             NEW price \in FillPrices, NEW at \in 0 .. now,
             Reported(o, quantity, price, at)
      PROVE  TypeOK'
  <2>1. /\ quantity \in Nat /\ price \in Nat /\ quantity * price \in Nat
        /\ orders[o].state \in Fillable /\ orders[o].state # Unseen
    BY <1>7, FillAssumption
       DEF Reported, KillPartialFill, FillRemainder, FillPart,
           FillPartImmediate, Accepted, Fillable, Unseen
  <2>2. WellFormed(orders)
    BY DEF TypeOK
  <2>3. CASE KillPartialFill(o, quantity, price, at)
    BY <2>1, <2>3, MoveTyped DEF KillPartialFill
  <2>4. CASE FillRemainder(o, quantity, price, at)
    <3>1. WellFormed(orders')
      BY <2>1, <2>2, <2>4, ExecutedWellFormed DEF FillRemainder
    <3> QED BY <2>4, <3>1 DEF FillRemainder, TypeOK, gateVars, PassTyped
  <2>5. CASE FillPart(o, quantity, price, at)
    <3>1. WellFormed(orders')
      BY <2>1, <2>2, <2>5, ExecutedWellFormed DEF FillPart
    <3> QED BY <2>5, <3>1 DEF FillPart, TypeOK, gateVars, PassTyped
  <2>6. CASE FillPartImmediate(o, quantity, price, at)
    <3> DEFINE filled == Executed(orders, o, "PARTIALLY_EXECUTED", quantity,
                                  quantity * price)
    <3>1. WellFormed(filled)
      BY <2>1, <2>2, ExecutedWellFormed
    <3>2. filled[o].state = "PARTIALLY_EXECUTED"
      BY <2>1, <2>2, ExecutedFields DEF WellFormed
    <3>3. filled[o].state # Unseen
      BY <3>2 DEF Unseen
    <3>4. WellFormed(Moved(filled, o, "CANCELLED"))
      BY <3>1, <3>3, MovedWellFormed
    <3> QED BY <2>6, <3>4 DEF FillPartImmediate, TypeOK, gateVars, PassTyped
  <2> QED BY <1>7, <2>3, <2>4, <2>5, <2>6 DEF Reported
<1>8. CASE ExpireDayOrders
  <2>1. \A o \in DayOrders : orders[o].state # Unseen
    BY DEF DayOrders, Live, Unseen
  <2>2. WellFormed(orders')
    BY <1>8, <2>1, MovedAllWellFormed DEF ExpireDayOrders, TypeOK, DayOrders
  <2> QED BY <1>8, <2>2 DEF ExpireDayOrders, TypeOK, gateVars, PassTyped
<1>9. ASSUME NEW h \in HaltIds, NEW scope \in HaltScopes, EngageHalt(h, scope)
      PROVE  TypeOK'
  <2>1. \A o \in InScope(scope) : orders[o].state # Unseen
    BY DEF InScope, Live, Unseen
  <2>2. WellFormed(orders')
    BY <1>9, <2>1, MovedAllWellFormed DEF EngageHalt, TypeOK, InScope
  <2> QED BY <1>9, <2>2 DEF EngageHalt, TypeOK, gateVars, PassTyped
<1>10. ASSUME NEW h \in HaltIds, ReleaseHalt(h)
       PROVE  TypeOK'
  BY <1>10 DEF ReleaseHalt, TypeOK, gateVars, PassTyped
<1>11. ASSUME NEW o \in OrderIds, NEW t \in Terms, NEW sound \in BOOLEAN,
              NEW fresh \in BOOLEAN, ReplaceOrder(o, t, sound, fresh)
       PROVE  TypeOK'
  <2> DEFINE replaced == Retermed(orders, o, "REPLACED", t)
  <2>1. /\ orders[o].state # Unseen
        /\ GateOn(replaced, o, NoMark, NoLocate, fresh)
        /\ \/ orders' = Moved(replaced, o, "MARKET_ACCESS_PASSED")
           \/ orders' = Moved(replaced, o, "MARKET_ACCESS_REFUSED")
        /\ now' = now /\ halts' = halts
    BY <1>11 DEF ReplaceOrder
  <2>2. WellFormed(orders) /\ orders \in Books
    BY DEF TypeOK, WellFormed
  <2>3. WellFormed(replaced)
    BY <2>1, <2>2, RetermedWellFormed
  <2>4. replaced[o].state = Reached(orders[o].state, "REPLACED")
        /\ replaced[o].terms = t
    BY <2>1, <2>2, RetermedChangesTerms DEF Books
  <2>5. replaced[o].state # Unseen
    BY <2>4, ReachedTyped DEF Moves
  <2>6. WellFormed(orders')
    BY <2>1, <2>3, <2>5, MovedWellFormed
  <2>7. /\ \A k \in DOMAIN seen' : seen'[k] \in 0 .. now
        /\ locateUsed' \in [Locates -> Nat]
        /\ \A d \in passes' : PassTyped(d)
    BY <2>1, <2>3, <2>4, <2>5, GateTyped
  <2> QED BY <2>1, <2>6, <2>7 DEF TypeOK, PassTyped
<1>12. CASE UNCHANGED vars
  BY <1>12 DEF vars, TypeOK, gateVars, PassTyped
<1> QED
  BY <1>1, <1>2, <1>3, <1>4, <1>5, <1>6, <1>7, <1>8, <1>9, <1>10, <1>11, <1>12
     DEF Next, MarketNext, ExecutionNext

\* The registers, the gate's memory and the halts keep their shape under every
\* interleaving of order management.
THEOREM TypeCorrect == Spec => []TypeOK
BY TypeInit, TypeNext, PTL DEF Spec

-----------------------------------------------------------------------------
(* Halted scopes are inert, and trades are on gated terms *)

\* The inductive invariant.  PendingPassesValid is what makes the other two
\* inductive: a pass may be recorded long after it was given, so what it was
\* given for must still hold of its order whenever recording it would count.
Safe ==
  /\ HaltedScopeInert
  /\ TradesOnGatedTerms
  /\ PendingPassesValid

\* The order is out of the gate's and the venue's reach.
Withdrawn(order) ==
  order.state \notin Fillable \cup {"PARENT_ACTIVE", "REPLACED", Unseen}

\* The order was fillable and is, on the same terms and quantity.
StillFillable(before, after) ==
  /\ before.state \in Fillable /\ after.state \in Fillable
  /\ after.terms = before.terms /\ after.quantity = before.quantity

\* A step under which every order stays, goes on filling on its terms, or is
\* withdrawn, keeps the invariant: neither the halts nor the passes moved.
LEMMA QuietStep ==
  ASSUME TypeOK, Safe, UNCHANGED <<halts, passes>>,
         \A o \in OrderIds :
           \/ orders'[o] = orders[o]
           \/ Withdrawn(orders'[o])
           \/ StillFillable(orders[o], orders'[o])
  PROVE  Safe'
<1>1. \A d \in passes : d.order \in OrderIds
  BY DEF TypeOK, PassTyped
<1>2. HaltedScopeInert'
  BY DEF Safe, HaltedScopeInert, Withdrawn, StillFillable, Halted
<1>3. TradesOnGatedTerms'
  BY DEF Safe, TradesOnGatedTerms, Withdrawn, StillFillable
<1>4. PendingPassesValid'
  <2>0. \A o \in OrderIds : orders'[o].state # "REPLACED"
    BY DEF Safe, PendingPassesValid, Withdrawn, StillFillable, Fillable
  <2> SUFFICES ASSUME NEW d \in passes
               PROVE  PassValid(d)'
    BY <2>0 DEF PendingPassesValid
  <2>1. CASE orders'[d.order] = orders[d.order]
    BY <2>1 DEF Safe, PendingPassesValid, PassValid, Halted
  <2>2. CASE Withdrawn(orders'[d.order])
    BY <2>2 DEF Withdrawn, PassValid
  <2>3. CASE StillFillable(orders[d.order], orders'[d.order])
    BY <2>3 DEF StillFillable, Fillable, Unseen, PassValid
  <2> QED BY <1>1, <2>1, <2>2, <2>3
<1> QED BY <1>2, <1>3, <1>4 DEF Safe

\* The moves that withdraw an order do so whatever its state was.
LEMMA Withdraws ==
  ASSUME NEW state, NEW target \in {"CANCELLED", "EXPIRED", "EXCEPTION_OPEN",
                                   "MARKET_ACCESS_REFUSED"}
  PROVE  Reached(state, target) \notin
           Fillable \cup {"PARENT_ACTIVE", "REPLACED", Unseen}
BY DEF Reached, Fillable, Unseen

\* A step that withdraws one order is quiet.
LEMMA WithdrawalSafe ==
  ASSUME TypeOK, Safe, NEW o \in OrderIds, orders[o].state # Unseen,
         NEW target \in {"CANCELLED", "EXPIRED", "EXCEPTION_OPEN",
                         "MARKET_ACCESS_REFUSED"},
         orders' = Moved(orders, o, target), UNCHANGED <<now, halts, gateVars>>
  PROVE  Safe'
<1>1. orders \in Books /\ target \in Moves
  BY MovesRequested DEF TypeOK, WellFormed
<1>2. /\ orders'[o].state = Reached(orders[o].state, target)
      /\ \A x \in OrderIds \ {o} : orders'[x] = orders[x]
  BY <1>1, MovedFields
<1>3. Withdrawn(orders'[o])
  BY <1>2, Withdraws DEF Withdrawn
<1> QED BY <1>2, <1>3, QuietStep DEF gateVars

\* What moving a set of known orders out of the way leaves of the register.
LEMMA MovedAllFields ==
  ASSUME WellFormed(orders), NEW S \in SUBSET OrderIds,
         \A o \in S : orders[o].state # Unseen,
         NEW target \in {"CANCELLED", "EXPIRED"}
  PROVE  \A o \in OrderIds :
           /\ o \in S => Withdrawn(MovedAll(S, target)[o])
           /\ o \notin S => MovedAll(S, target)[o] = orders[o]
<1>1. target \in Moves /\ orders \in Books
  BY MovesRequested DEF WellFormed
<1>2. ASSUME NEW o \in S
      PROVE  Withdrawn(Moved(orders, o, target)[o])
  BY <1>1, MovedFields, Withdraws DEF Withdrawn
<1> QED BY <1>2 DEF MovedAll

\* A gate that passes an order saw no halt over it, and remembers the pass
\* under the terms and the quantity it saw.
LEMMA GatePasses ==
  ASSUME NEW book, NEW o, NEW mark, NEW locate, NEW fresh,
         GateOn(book, o, mark, locate, fresh)
  PROVE  \/ /\ ~Halted(book[o].terms)
            /\ \E d : /\ passes' = passes \cup {d}
                     /\ d.order = o
                     /\ d.key = Key(book[o].terms, book[o].quantity)
         \/ /\ ~Controls(book, o, book[o].terms, book[o].quantity, mark,
                         locate, fresh)
            /\ passes' = passes
<1> DEFINE terms == book[o].terms
           quantity == book[o].quantity
<1>1. CASE Controls(book, o, terms, quantity, mark, locate, fresh)
  <2>1. ~Halted(terms)
    BY <1>1 DEF Controls, Unrestricted
  <2>2. passes' = passes \cup {Pass(o, terms, quantity, mark, locate)}
    BY <1>1 DEF GateOn
  <2>3. /\ Pass(o, terms, quantity, mark, locate).order = o
        /\ Pass(o, terms, quantity, mark, locate).key = Key(terms, quantity)
    BY DEF Pass
  <2> QED BY <2>1, <2>2, <2>3
<1>2. CASE ~Controls(book, o, terms, quantity, mark, locate, fresh)
  BY <1>2 DEF GateOn, gateVars
<1> QED BY <1>1, <1>2

\* What a replacement leaves of the register: new terms, and a release only
\* when the policy and the gate both passed them.
LEMMA ReplacementFields ==
  ASSUME WellFormed(orders), NEW o \in OrderIds, NEW t \in Terms, NEW sound,
         NEW fresh, ReplaceOrder(o, t, sound, fresh)
  PROVE  LET replaced == Retermed(orders, o, "REPLACED", t) IN
         /\ orders[o].state # Unseen
         /\ GateOn(replaced, o, NoMark, NoLocate, fresh)
         /\ replaced[o].terms = t
         /\ replaced[o].quantity = orders[o].quantity
         /\ orders'[o].terms = t
         /\ orders'[o].quantity = orders[o].quantity
         /\ \A x \in OrderIds \ {o} : orders'[x] = orders[x]
         /\ halts' = halts
         /\ \/ Withdrawn(orders'[o])
            \/ /\ orders'[o].state = "MARKET_ACCESS_PASSED"
               /\ Controls(replaced, o, t, orders[o].quantity, NoMark,
                           NoLocate, fresh)
<1> DEFINE replaced == Retermed(orders, o, "REPLACED", t)
           quantity == orders[o].quantity
           passed == /\ PolicyPasses(quantity, t.price, sound)
                     /\ Controls(replaced, o, t, quantity, NoMark, NoLocate,
                                 fresh)
           outcome == IF passed THEN "MARKET_ACCESS_PASSED"
                      ELSE "MARKET_ACCESS_REFUSED"
<1>1. /\ orders[o].state # Unseen
      /\ GateOn(replaced, o, NoMark, NoLocate, fresh)
      /\ orders' = Moved(replaced, o, outcome)
      /\ halts' = halts
  BY DEF ReplaceOrder
<1>2. orders \in Books /\ outcome \in Moves /\ "REPLACED" \in Moves
  BY MovesRequested DEF WellFormed
<1>3. /\ replaced[o].state = Reached(orders[o].state, "REPLACED")
      /\ replaced[o].terms = t
      /\ replaced[o].quantity = quantity
      /\ \A x \in OrderIds \ {o} : replaced[x] = orders[x]
  BY <1>1, <1>2, RetermedFields
<1>4. replaced \in Books /\ replaced[o].state # Unseen
  BY <1>1, <1>2, <1>3, RetermedWellFormed, ReachedTyped DEF WellFormed, Moves
<1>5. /\ orders'[o].state = Reached(replaced[o].state, outcome)
      /\ orders'[o].terms = t
      /\ orders'[o].quantity = quantity
      /\ \A x \in OrderIds \ {o} : orders'[x] = replaced[x]
  BY <1>1, <1>2, <1>3, <1>4, MovedFields
<1>6. CASE passed
  <2>1. orders'[o].state \in {"MARKET_ACCESS_PASSED", "NOT_REACHED"}
    BY <1>5, <1>6 DEF Reached
  <2>2. "NOT_REACHED" \notin
          Fillable \cup {"PARENT_ACTIVE", "REPLACED", Unseen}
    BY DEF Fillable, Unseen
  <2> QED BY <1>1, <1>3, <1>5, <1>6, <2>1, <2>2 DEF Withdrawn
<1>7. CASE ~passed
  <2>1. Withdrawn(orders'[o])
    BY <1>5, <1>7, Withdraws DEF Withdrawn
  <2> QED BY <1>1, <1>3, <1>5, <2>1
<1> QED BY <1>6, <1>7

\* Nothing is released and nothing passed before the first order.
LEMMA SafeInit == Init => Safe
BY DEF Init, MarketInit, Safe, HaltedScopeInert, TradesOnGatedTerms,
       PendingPassesValid, EmptyBook, Fillable, Unseen

\* Every step keeps the invariant.
LEMMA SafeNext == TypeOK /\ TypeOK' /\ Safe /\ [Next]_vars => Safe'
<1> SUFFICES ASSUME TypeOK, TypeOK', Safe, [Next]_vars
             PROVE  Safe'
  OBVIOUS
<1>0. WellFormed(orders) /\ orders \in Books
  BY DEF TypeOK, WellFormed
<1>1. ASSUME NEW o \in OrderIds, NEW q \in Quantities,
             NEW t \in Terms \cup {NoTerms}, SealOrder(o, q, t)
      PROVE  Safe'
  <2>1. orders[o] = EmptyBook[o] /\ orders[o].state = Unseen /\ q \in Nat
    BY <1>0, <1>1, QuantitiesAssumption DEF SealOrder, WellFormed
  <2>2. orders' = [orders EXCEPT ![o] =
                     [state |-> "PARENT_ACTIVE", quantity |-> q,
                      executed |-> 0, consideration |-> 0,
                      parent |-> NoOrder, terms |-> t]]
    BY <1>0, <1>1, <2>1, OpeningOpens DEF SealOrder
  <2>3. /\ orders'[o].state = "PARENT_ACTIVE"
        /\ \A x \in OrderIds \ {o} : orders'[x] = orders[x]
        /\ halts' = halts /\ passes' = passes
    BY <1>0, <1>1, <2>2 DEF SealOrder, gateVars, Books
  <2>4. \A d \in passes : d.order \in OrderIds \ {o}
    BY <2>1 DEF Safe, PendingPassesValid, PassValid, TypeOK, PassTyped
  <2>5. HaltedScopeInert'
    BY <2>3 DEF Safe, HaltedScopeInert, Halted, Fillable
  <2>6. TradesOnGatedTerms'
    BY <2>3 DEF Safe, TradesOnGatedTerms, Fillable
  <2>7. PendingPassesValid'
    BY <2>3, <2>4 DEF Safe, PendingPassesValid, PassValid, Halted
  <2> QED BY <2>5, <2>6, <2>7 DEF Safe
<1>2. CASE Tick
  BY <1>2, QuietStep DEF Tick, gateVars
<1>3. ASSUME NEW o \in OrderIds, NEW mark \in SellMarks,
             NEW locate \in Locates \cup {NoLocate}, NEW fresh \in BOOLEAN,
             Evaluate(o, mark, locate, fresh)
      PROVE  Safe'
  <2>1. /\ orders[o].state # Unseen /\ orders[o].terms # NoTerms
        /\ GateOn(orders, o, mark, locate, fresh)
        /\ orders' = orders /\ halts' = halts
    BY <1>3 DEF Evaluate
  <2>2. HaltedScopeInert'
    BY <2>1 DEF Safe, HaltedScopeInert, Halted
  <2>3. passes \subseteq passes'
    BY <2>1, GatePasses
  <2>4. TradesOnGatedTerms'
    BY <2>1, <2>3 DEF Safe, TradesOnGatedTerms
  <2>5. \A d \in passes' :
          \/ d \in passes
          \/ /\ d.order = o
             /\ ~Halted(orders[o].terms)
             /\ d.key = Key(orders[o].terms, orders[o].quantity)
    BY <2>1, GatePasses
  <2>6. PendingPassesValid'
    BY <2>1, <2>5 DEF Safe, PendingPassesValid, PassValid, Halted
  <2> QED BY <2>2, <2>4, <2>6 DEF Safe
<1>4. ASSUME NEW d \in passes, RecordPass(d)
      PROVE  Safe'
  <2> DEFINE o == d.order
  <2>1. /\ o \in OrderIds /\ orders[o].state # Unseen
        /\ orders' = Moved(orders, o, "MARKET_ACCESS_PASSED")
        /\ halts' = halts /\ passes' = passes
    BY <1>4 DEF RecordPass, TypeOK, PassTyped, gateVars
  <2>2. /\ orders'[o].state = Reached(orders[o].state, "MARKET_ACCESS_PASSED")
        /\ orders'[o].terms = orders[o].terms
        /\ orders'[o].quantity = orders[o].quantity
        /\ \A x \in OrderIds \ {o} : orders'[x] = orders[x]
    BY <1>0, <2>1, MovedFields, MovesRequested
  <2>3. CASE orders[o].state = "PARENT_ACTIVE"
    <3>1. /\ orders[o].terms # NoTerms
          /\ ~Halted(orders[o].terms)
          /\ d.key = Key(orders[o].terms, orders[o].quantity)
      BY <2>3 DEF Safe, PendingPassesValid, PassValid
    <3>2. orders'[o].state = "MARKET_ACCESS_PASSED"
      BY <2>2, <2>3 DEF Reached, Allowed, WorkingMoves
    <3>3. HaltedScopeInert'
      BY <2>1, <2>2, <3>1 DEF Safe, HaltedScopeInert, Halted
    <3>4. TradesOnGatedTerms'
      BY <2>1, <2>2, <3>1 DEF Safe, TradesOnGatedTerms
    <3>5. PendingPassesValid'
      <4>1. \A x \in OrderIds : orders'[x].state # "REPLACED"
        BY <2>2, <3>2 DEF Safe, PendingPassesValid
      <4>2. ASSUME NEW e \in passes
            PROVE  PassValid(e)'
        <5>1. CASE e.order = o
          BY <3>2, <5>1 DEF PassValid, Unseen
        <5>2. CASE e.order # o
          BY <2>1, <2>2, <5>2
             DEF PassValid, Safe, PendingPassesValid, Halted, TypeOK, PassTyped
        <5> QED BY <5>1, <5>2
      <4> QED BY <2>1, <4>1, <4>2 DEF PendingPassesValid
    <3> QED BY <3>3, <3>4, <3>5 DEF Safe
  <2>4. CASE orders[o].state # "PARENT_ACTIVE"
    <3>1. orders[o].state # "REPLACED"
      BY <2>1 DEF Safe, PendingPassesValid
    <3>2. orders'[o].state = "NOT_REACHED"
      BY <2>2, <2>4, <3>1 DEF Reached, Allowed, WorkingMoves, PostTradeMoves
    <3>3. Withdrawn(orders'[o])
      BY <3>2 DEF Withdrawn, Fillable, Unseen
    <3> QED BY <2>1, <2>2, <3>3, QuietStep
  <2> QED BY <2>3, <2>4
<1>5. ASSUME NEW o \in OrderIds, RecordHold(o)
      PROVE  Safe'
  BY <1>5, WithdrawalSafe DEF RecordHold
<1>6. ASSUME NEW o \in OrderIds, LateFill(o) \/ FillAfterClose(o) \/ Cancel(o)
      PROVE  Safe'
  <2>1. CASE LateFill(o)
    BY <2>1, WithdrawalSafe DEF LateFill
  <2>2. CASE FillAfterClose(o)
    <3>1. orders[o].state # Unseen
      BY <2>2 DEF FillAfterClose, Unseen
    <3> QED BY <2>2, <3>1, WithdrawalSafe DEF FillAfterClose
  <2>3. CASE Cancel(o)
    BY <2>3, WithdrawalSafe DEF Cancel
  <2> QED BY <1>6, <2>1, <2>2, <2>3
<1>7. ASSUME NEW o \in OrderIds, NEW quantity \in FillQuantities,
             NEW price \in FillPrices, NEW at \in 0 .. now,
             Reported(o, quantity, price, at)
      PROVE  Safe'
  <2> DEFINE cash == quantity * price
  <2>1. /\ quantity \in Nat /\ cash \in Nat
        /\ orders[o].state \in Fillable /\ orders[o].state # Unseen
    BY <1>7, FillAssumption
       DEF Reported, KillPartialFill, FillRemainder, FillPart,
           FillPartImmediate, Accepted, Fillable, Unseen
  <2> HIDE DEF cash
  <2>2. CASE KillPartialFill(o, quantity, price, at)
    BY <2>1, <2>2, WithdrawalSafe DEF KillPartialFill
  <2>3. CASE FillRemainder(o, quantity, price, at)
    <3>1. /\ orders' = Executed(orders, o, "EXECUTED", quantity, cash)
          /\ halts' = halts /\ passes' = passes
      BY <2>3 DEF FillRemainder, gateVars, cash
    <3>2. /\ orders'[o].state = "EXECUTED"
          /\ \A x \in OrderIds \ {o} : orders'[x] = orders[x]
      BY <1>0, <2>1, <3>1, ExecutedFields, MovesRequested
    <3>3. Withdrawn(orders'[o])
      BY <3>2 DEF Withdrawn, Fillable, Unseen
    <3> QED BY <3>1, <3>2, <3>3, QuietStep
  <2>4. CASE FillPart(o, quantity, price, at)
    <3>1. /\ orders' = Executed(orders, o, "PARTIALLY_EXECUTED", quantity, cash)
          /\ halts' = halts /\ passes' = passes
      BY <2>4 DEF FillPart, gateVars, cash
    <3>2. /\ orders'[o].state = "PARTIALLY_EXECUTED"
          /\ orders'[o].terms = orders[o].terms
          /\ orders'[o].quantity = orders[o].quantity
          /\ \A x \in OrderIds \ {o} : orders'[x] = orders[x]
      BY <1>0, <2>1, <3>1, ExecutedFields, MovesRequested
    <3>3. StillFillable(orders[o], orders'[o])
      BY <2>1, <3>2 DEF StillFillable, Fillable
    <3> QED BY <3>1, <3>2, <3>3, QuietStep
  <2>5. CASE FillPartImmediate(o, quantity, price, at)
    <3> DEFINE filled == Executed(orders, o, "PARTIALLY_EXECUTED", quantity,
                                  cash)
    <3>1. /\ orders' = Moved(filled, o, "CANCELLED")
          /\ halts' = halts /\ passes' = passes
      BY <2>5 DEF FillPartImmediate, gateVars, cash
    <3>2. WellFormed(filled)
      BY <1>0, <2>1, ExecutedWellFormed, MovesRequested
    <3>3. /\ filled[o].state = "PARTIALLY_EXECUTED"
          /\ \A x \in OrderIds \ {o} : filled[x] = orders[x]
      BY <1>0, <2>1, ExecutedFields, MovesRequested
    <3>4. filled \in Books /\ filled[o].state # Unseen
      BY <3>2, <3>3 DEF WellFormed, Unseen
    <3>5. /\ orders'[o].state = Reached(filled[o].state, "CANCELLED")
          /\ \A x \in OrderIds \ {o} : orders'[x] = filled[x]
      BY <3>1, <3>4, MovedFields, MovesRequested
    <3>6. Withdrawn(orders'[o])
      BY <3>5, Withdraws DEF Withdrawn
    <3> QED BY <3>1, <3>3, <3>5, <3>6, QuietStep
  <2> QED BY <1>7, <2>2, <2>3, <2>4, <2>5 DEF Reported
<1>8. CASE ExpireDayOrders
  <2>1. \A o \in DayOrders : orders[o].state # Unseen
    BY DEF DayOrders, Live, Unseen
  <2>2. /\ orders' = MovedAll(DayOrders, "EXPIRED")
        /\ halts' = halts /\ passes' = passes
    BY <1>8 DEF ExpireDayOrders, gateVars
  <2>3. \A o \in OrderIds : Withdrawn(orders'[o]) \/ orders'[o] = orders[o]
    BY <1>0, <2>1, <2>2, MovedAllFields DEF DayOrders
  <2> QED BY <2>2, <2>3, QuietStep
<1>9. ASSUME NEW h \in HaltIds, NEW scope \in HaltScopes, EngageHalt(h, scope)
      PROVE  Safe'
  <2>1. \A o \in InScope(scope) : orders[o].state # Unseen
    BY DEF InScope, Live, Unseen
  <2>2. /\ orders' = MovedAll(InScope(scope), "CANCELLED")
        /\ halts' = [halts EXCEPT ![h] = scope] /\ passes' = passes
    BY <1>9 DEF EngageHalt, gateVars
  <2>3. \A o \in OrderIds : \/ Withdrawn(orders'[o])
                            \/ o \notin InScope(scope) /\ orders'[o] = orders[o]
    BY <1>0, <2>1, <2>2, MovedAllFields DEF InScope
  <2>4. ASSUME NEW o \in OrderIds, orders[o].state \in Live,
               orders[o].terms # NoTerms, o \notin InScope(scope),
               ~Halted(orders[o].terms)
        PROVE  \A g \in HaltIds :
                 halts'[g] # NoScope => ~Applies(halts'[g], orders[o].terms)
    <3>1. ~Applies(scope, orders[o].terms)
      BY <2>4 DEF InScope
    <3> QED BY <2>2, <2>4, <3>1 DEF Halted, TypeOK
  <2>5. HaltedScopeInert'
    <3> SUFFICES ASSUME NEW o \in OrderIds, orders'[o].state \in Fillable,
                        orders'[o].terms # NoTerms
                 PROVE  \A g \in HaltIds :
                          halts'[g] # NoScope =>
                            ~Applies(halts'[g], orders'[o].terms)
      BY DEF HaltedScopeInert, Halted
    <3>1. o \notin InScope(scope) /\ orders'[o] = orders[o]
      BY <2>3 DEF Withdrawn
    <3>2. orders[o].state \in Live /\ ~Halted(orders[o].terms)
      BY <3>1 DEF Safe, HaltedScopeInert, Live, Fillable
    <3> QED BY <2>4, <3>1, <3>2
  <2>6. TradesOnGatedTerms'
    BY <2>2, <2>3 DEF Safe, TradesOnGatedTerms, Withdrawn
  <2>7. PendingPassesValid'
    <3>1. \A o \in OrderIds : orders'[o].state # "REPLACED"
      BY <2>3 DEF Safe, PendingPassesValid, Withdrawn
    <3>2. ASSUME NEW d \in passes
          PROVE  PassValid(d)'
      <4>1. d.order \in OrderIds /\ PassValid(d)
        BY DEF TypeOK, PassTyped, Safe, PendingPassesValid
      <4>2. CASE Withdrawn(orders'[d.order])
        BY <4>2 DEF Withdrawn, PassValid
      <4>3. CASE /\ d.order \notin InScope(scope)
                 /\ orders'[d.order] = orders[d.order]
        <5>1. CASE orders[d.order].state = "PARENT_ACTIVE"
          <6>1. /\ orders[d.order].terms # NoTerms
                /\ ~Halted(orders[d.order].terms)
                /\ d.key = Key(orders[d.order].terms, orders[d.order].quantity)
                /\ orders[d.order].state \in Live
            BY <4>1, <5>1 DEF PassValid, Live
          <6>2. \A g \in HaltIds :
                  halts'[g] # NoScope =>
                    ~Applies(halts'[g], orders'[d.order].terms)
            BY <2>4, <4>1, <4>3, <6>1
          <6> QED BY <4>1, <4>3, <6>1, <6>2 DEF PassValid, Halted
        <5>2. CASE orders[d.order].state # "PARENT_ACTIVE"
          BY <4>1, <4>3, <5>2 DEF PassValid
        <5> QED BY <5>1, <5>2
      <4> QED BY <2>3, <4>1, <4>2, <4>3
    <3> QED BY <2>2, <3>1, <3>2 DEF PendingPassesValid
  <2> QED BY <2>5, <2>6, <2>7 DEF Safe
<1>10. ASSUME NEW h \in HaltIds, ReleaseHalt(h)
       PROVE  Safe'
  <2>1. /\ orders' = orders /\ passes' = passes
        /\ halts' = [halts EXCEPT ![h] = NoScope]
    BY <1>10 DEF ReleaseHalt, gateVars
  <2>2. \A g \in HaltIds : halts'[g] # NoScope => halts'[g] = halts[g]
    BY <2>1 DEF TypeOK
  <2>3. HaltedScopeInert'
    BY <2>1, <2>2 DEF Safe, HaltedScopeInert, Halted
  <2>4. TradesOnGatedTerms'
    BY <2>1 DEF Safe, TradesOnGatedTerms
  <2>5. PendingPassesValid'
    BY <2>1, <2>2 DEF Safe, PendingPassesValid, PassValid, Halted
  <2> QED BY <2>3, <2>4, <2>5 DEF Safe
<1>11. ASSUME NEW o \in OrderIds, NEW t \in Terms, NEW sound \in BOOLEAN,
              NEW fresh \in BOOLEAN, ReplaceOrder(o, t, sound, fresh)
       PROVE  Safe'
  <2> DEFINE replaced == Retermed(orders, o, "REPLACED", t)
  <2>1. /\ GateOn(replaced, o, NoMark, NoLocate, fresh)
        /\ replaced[o].terms = t
        /\ replaced[o].quantity = orders[o].quantity
        /\ orders'[o].terms = t
        /\ orders'[o].quantity = orders[o].quantity
        /\ \A x \in OrderIds \ {o} : orders'[x] = orders[x]
        /\ halts' = halts
        /\ \/ Withdrawn(orders'[o])
           \/ /\ orders'[o].state = "MARKET_ACCESS_PASSED"
              /\ Controls(replaced, o, t, orders[o].quantity, NoMark,
                          NoLocate, fresh)
    BY <1>0, <1>11, ReplacementFields
  <2>2. /\ orders'[o].state # "PARENT_ACTIVE" /\ orders'[o].state # "REPLACED"
        /\ orders'[o].state # Unseen
    BY <2>1 DEF Withdrawn, Unseen
  <2>3. \A d \in passes' : d \in passes \/ d.order = o
    BY <2>1, GatePasses
  <2>4. passes \subseteq passes'
    BY <2>1, GatePasses
  <2>5. orders'[o].state \in Fillable =>
          /\ ~Halted(t)
          /\ \E d \in passes' : d.order = o /\ d.key = Key(t, orders[o].quantity)
    BY <2>1, GatePasses DEF Withdrawn
  <2>6. t # NoTerms
    BY NoTermsAssumption
  <2>7. HaltedScopeInert'
    BY <2>1, <2>5 DEF Safe, HaltedScopeInert, Halted
  <2>8. TradesOnGatedTerms'
    BY <2>1, <2>4, <2>5, <2>6 DEF Safe, TradesOnGatedTerms
  <2>9. PendingPassesValid'
    <3>1. \A x \in OrderIds : orders'[x].state # "REPLACED"
      BY <2>1, <2>2 DEF Safe, PendingPassesValid
    <3>2. ASSUME NEW d \in passes'
          PROVE  PassValid(d)'
      <4>1. CASE d.order = o
        BY <2>2, <4>1 DEF PassValid
      <4>2. CASE d.order # o
        BY <2>1, <2>3, <4>2
           DEF PassValid, Safe, PendingPassesValid, Halted, TypeOK, PassTyped
      <4> QED BY <4>1, <4>2
    <3> QED BY <3>1, <3>2 DEF PendingPassesValid
  <2> QED BY <2>7, <2>8, <2>9 DEF Safe
<1>12. CASE UNCHANGED vars
  BY <1>12, QuietStep DEF vars, gateVars
<1> QED
  BY <1>1, <1>2, <1>3, <1>4, <1>5, <1>6, <1>7, <1>8, <1>9, <1>10, <1>11, <1>12
     DEF Next, MarketNext, ExecutionNext

\* Halted scopes stay inert, trades stay on gated terms and waiting passes stay
\* valid, in every interleaving of the callers and for every set of orders,
\* terms, halts and limits.
THEOREM AlwaysSafe == Spec => []Safe
BY TypeInit, TypeNext, SafeInit, SafeNext, PTL DEF Spec

\* While a halt is in force no order in its scope can be filled.
THEOREM HaltsHold == Spec => []HaltedScopeInert
<1>1. Safe => HaltedScopeInert
  BY DEF Safe
<1> QED BY <1>1, AlwaysSafe, PTL

\* Every order that can be filled works under terms and a quantity for which
\* the gate gave this order a pass.
THEOREM TradesGated == Spec => []TradesOnGatedTerms
<1>1. Safe => TradesOnGatedTerms
  BY DEF Safe
<1> QED BY <1>1, AlwaysSafe, PTL

\* A pass stays valid until its order moves, however late it is recorded.
THEOREM PassesStayValid == Spec => []PendingPassesValid
<1>1. Safe => PendingPassesValid
  BY DEF Safe
<1> QED BY <1>1, AlwaysSafe, PTL

-----------------------------------------------------------------------------
(* No duplicate release *)

\* The gate remembers, of the passes given under a key, one at least as late as
\* each of them: the inductive invariant of NoDuplicateRelease.
Remembered ==
  \A d \in passes : d.key \in DOMAIN seen /\ d.at <= seen[d.key]

\* A pass is further from every earlier one of its key than the window, because
\* it is further from the latest.
LEMMA GateRemembers ==
  ASSUME TypeOK, Remembered, NoDuplicateRelease,
         NEW book, NEW o, NEW mark, NEW locate, NEW fresh,
         GateOn(book, o, mark, locate, fresh)
  PROVE  Remembered' /\ NoDuplicateRelease'
<1> DEFINE terms == book[o].terms
           key   == Key(terms, book[o].quantity)
           pass  == Pass(o, terms, book[o].quantity, mark, locate)
<1>1. CASE UNCHANGED gateVars
  BY <1>1 DEF gateVars, Remembered, NoDuplicateRelease
<1>2. CASE ~UNCHANGED gateVars
  <2>1. /\ ~Duplicate(key)
        /\ seen' = Remember(key) /\ passes' = passes \cup {pass}
    BY <1>2 DEF GateOn, Controls
  <2>2. pass.key = key /\ pass.at = now
    BY DEF Pass
  <2> HIDE DEF key, pass
  <2>3. /\ DOMAIN seen' = DOMAIN seen \cup {key} /\ seen'[key] = now
        /\ \A k \in DOMAIN seen : k # key => seen'[k] = seen[k]
    BY <2>1 DEF Remember
  <2>4. ASSUME NEW d \in passes PROVE d.at \in Nat /\ now \in Nat /\ d.at <= now
    BY DEF TypeOK, PassTyped
  <2>5. Remembered'
    <3>1. ASSUME NEW d \in passes PROVE d.key \in DOMAIN seen' /\ d.at <= seen'[d.key]
      BY <2>3, <2>4 DEF Remembered
    <3>2. pass.key \in DOMAIN seen' /\ pass.at <= seen'[pass.key]
      BY <2>2, <2>3 DEF TypeOK
    <3> QED
      BY <2>1, <3>1, <3>2 DEF Remembered
  <2>6. ASSUME NEW d \in passes, d.key = key
        PROVE  now - d.at > Limits.window /\ d.at <= now
    <3>1. key \in DOMAIN seen /\ d.at <= seen[key] /\ seen[key] \in 0 .. now
      BY <2>6 DEF Remembered, TypeOK
    <3>2. ~(now - seen[key] <= Limits.window)
      BY <2>1, <3>1 DEF Duplicate
    <3> QED
      BY <2>4, <3>1, <3>2, WindowAssumption
  <2>7. ASSUME NEW d \in passes', NEW e \in passes', d # e, d.key = e.key
        PROVE  Distance(d.at, e.at) > Limits.window
    <3>1. CASE d \in passes /\ e \in passes
      BY <2>7, <3>1 DEF NoDuplicateRelease
    <3>2. CASE d = pass /\ e \in passes
      BY <2>2, <2>4, <2>6, <2>7, <3>2 DEF Distance
    <3>3. CASE d \in passes /\ e = pass
      BY <2>2, <2>4, <2>6, <2>7, <3>3, WindowAssumption DEF Distance
    <3> QED
      BY <2>1, <2>7, <3>1, <3>2, <3>3
  <2> QED
    BY <2>5, <2>7 DEF NoDuplicateRelease
<1> QED
  BY <1>1, <1>2

\* Two passes for the same order lie further apart than the duplicate window,
\* for any orders, terms and window, however callers interleave and replace.
THEOREM NoDuplicates == Spec => []NoDuplicateRelease
<1>1. Init => Remembered /\ NoDuplicateRelease
  BY DEF Init, MarketInit, Remembered, NoDuplicateRelease
<1>2. TypeOK /\ Remembered /\ NoDuplicateRelease /\ [Next]_vars
        => Remembered' /\ NoDuplicateRelease'
  <2> SUFFICES ASSUME TypeOK, Remembered, NoDuplicateRelease, [Next]_vars
               PROVE  Remembered' /\ NoDuplicateRelease'
    OBVIOUS
  <2>1. ASSUME NEW o \in OrderIds, NEW mark, NEW locate, NEW fresh, Evaluate(o, mark, locate, fresh)
        PROVE  Remembered' /\ NoDuplicateRelease'
    BY <2>1, GateRemembers DEF Evaluate
  <2>2. ASSUME NEW o \in OrderIds, NEW t \in Terms, NEW sound, NEW fresh, ReplaceOrder(o, t, sound, fresh)
        PROVE  Remembered' /\ NoDuplicateRelease'
    BY <2>2, GateRemembers DEF ReplaceOrder
  <2>3. CASE UNCHANGED gateVars
    BY <2>3 DEF gateVars, Remembered, NoDuplicateRelease
  <2>4. MarketNext => UNCHANGED gateVars
                      \/ \E o \in OrderIds : \E mark, locate, fresh : Evaluate(o, mark, locate, fresh)
    BY DEF MarketNext, RecordPass, RecordHold
  <2>5. ExecutionNext => UNCHANGED gateVars
    BY DEF ExecutionNext, LateFill, FillAfterClose, KillPartialFill, FillRemainder, FillPart,
           FillPartImmediate, Reported
  <2>6. \/ UNCHANGED gateVars
        \/ MarketNext \/ ExecutionNext
        \/ \E o \in OrderIds, t \in Terms : \E sound, fresh : ReplaceOrder(o, t, sound, fresh)
    BY DEF Next, vars, SealOrder, Tick, Cancel, ExpireDayOrders, EngageHalt, ReleaseHalt
  <2> QED
    BY <2>1, <2>2, <2>3, <2>4, <2>5, <2>6
<1> QED
  BY <1>1, <1>2, TypeInit, TypeNext, PTL DEF Spec

-----------------------------------------------------------------------------
(* Order by order, a step is a lawful step of that order's life or no step  *)
(* of it: the promise of OrderLife, under the refinement mapping LifeOf.    *)

\* The lives a state may stand for.
ClosedStates ==
  {"CANCELLED", "EXPIRED", "EXCEPTION_OPEN", "MARKET_ACCESS_REFUSED",
   "NOT_REACHED"}

\* The phase of every state order management works with.
LEMMA PhasesOfStates ==
  /\ PhaseOf(Unseen) = "absent"
  /\ PhaseOf("PARENT_ACTIVE") = "working"
  /\ PhaseOf("REPLACED") = "working"
  /\ \A s \in Fillable : PhaseOf(s) = "released"
  /\ PhaseOf("EXECUTED") = "filled"
  /\ \A s \in ClosedStates : PhaseOf(s) = "closed"
  /\ \A s \in LifecycleState :
       PhaseOf(s) \in {"working", "released", "filled", "settled", "closed"}
<1> USE FilledStates DEF PhaseOf, Unseen, Fillable, ClosedStates
<1>1. PhaseOf(Unseen) = "absent"
  OBVIOUS
<1>2. PhaseOf("PARENT_ACTIVE") = "working" /\ PhaseOf("REPLACED") = "working"
  OBVIOUS
<1>3. \A s \in Fillable : PhaseOf(s) = "released"
  OBVIOUS
<1>4. PhaseOf("EXECUTED") = "filled"
  OBVIOUS
<1>5. \A s \in ClosedStates : PhaseOf(s) = "closed"
  OBVIOUS
<1>6. ASSUME NEW s \in LifecycleState
      PROVE  PhaseOf(s) \in {"working", "released", "filled", "settled", "closed"}
  <2>1. s # Unseen
    BY DEF LifecycleState
  <2> QED BY <2>1
<1> QED BY <1>1, <1>2, <1>3, <1>4, <1>5, <1>6

-----------------------------------------------------------------------------
\* The life of one snapshot.
Life(order) ==
  [phase |-> PhaseOf(order.state), quantity |-> order.quantity,
   filled |-> order.executed]

\* A step that leaves every order where it was or takes it a lawful way is a
\* step of the promise.
LEMMA LawfulStep ==
  ASSUME TypeOK, TypeOK',
         \A o \in OrderIds :
           \/ orders'[o] = orders[o]
           \/ Promise!Lawful(Life(orders[o]), Life(orders'[o]))
  PROVE  Promise!Next
<1>1. LifeOf(orders)' \in [OrderIds -> Promise!Lives]
  <2> SUFFICES ASSUME NEW o \in OrderIds
               PROVE  Life(orders'[o]) \in Promise!Lives
    BY DEF LifeOf, Life
  <2>1. /\ orders'[o].state \in LifecycleState \cup {Unseen}
        /\ orders'[o].quantity \in Nat /\ orders'[o].executed \in Nat
    BY DEF TypeOK, WellFormed, Books, OrderSnapshot
  <2>2. PhaseOf(orders'[o].state) \in Promise!Phases
    BY <2>1, PhasesOfStates DEF Promise!Phases
  <2> QED BY <2>1, <2>2 DEF Life, Promise!Lives
<1>2. ASSUME NEW o \in OrderIds
      PROVE  \/ LifeOf(orders)'[o] = LifeOf(orders)[o]
             \/ Promise!Lawful(LifeOf(orders)[o], LifeOf(orders)'[o])
  <2>1. /\ LifeOf(orders)[o] = Life(orders[o])
        /\ LifeOf(orders)'[o] = Life(orders'[o])
    BY DEF LifeOf, Life
  <2> QED BY <2>1
<1> QED BY <1>1, <1>2 DEF Promise!Next, Promise!AllLawful

\* Losing the way to the venue closes an order.
LEMMA ClosedLawfully ==
  ASSUME NEW before \in OrderSnapshot, NEW after \in OrderSnapshot,
         before.state # Unseen, after.state \in ClosedStates,
         after.quantity = before.quantity, after.executed = before.executed
  PROVE  Promise!Lawful(Life(before), Life(after))
<1>1. PhaseOf(after.state) = "closed"
  BY PhasesOfStates
<1>2. PhaseOf(before.state) # "absent"
  BY PhasesOfStates DEF OrderSnapshot
<1> QED BY <1>1, <1>2 DEF Life, Promise!Lawful, Promise!Close, Promise!SameSize

\* So does every move that withdraws it.
LEMMA MovedLawfully ==
  ASSUME TypeOK, TypeOK', NEW o \in OrderIds, orders[o].state # Unseen,
         NEW target \in ClosedStates, orders' = Moved(orders, o, target)
  PROVE  Promise!Next
<1>1. orders \in Books /\ orders' \in Books /\ target \in Moves
  BY DEF TypeOK, WellFormed, Moves, ClosedStates, LifecycleState, Executions
<1>2. /\ orders'[o].state = Reached(orders[o].state, target)
      /\ orders'[o].quantity = orders[o].quantity
      /\ orders'[o].executed = orders[o].executed
      /\ \A x \in OrderIds \ {o} : orders'[x] = orders[x]
  BY <1>1, MovedFields
<1>3. orders'[o].state \in ClosedStates
  BY <1>2 DEF Reached, ClosedStates
<1>4. orders[o] \in OrderSnapshot /\ orders'[o] \in OrderSnapshot
  BY <1>1 DEF Books
<1>5. Promise!Lawful(Life(orders[o]), Life(orders'[o]))
  BY <1>2, <1>3, <1>4, ClosedLawfully
<1> QED BY <1>2, <1>5, LawfulStep

\* So does withdrawing several at once.
LEMMA MovedAllLawfully ==
  ASSUME TypeOK, TypeOK', NEW S \in SUBSET OrderIds,
         \A o \in S : orders[o].state # Unseen,
         NEW target \in {"CANCELLED", "EXPIRED"}, orders' = MovedAll(S, target)
  PROVE  Promise!Next
<1>1. orders \in Books /\ orders' \in Books /\ target \in Moves
  BY MovesRequested DEF TypeOK, WellFormed
<1>2. ASSUME NEW o \in S
      PROVE  Promise!Lawful(Life(orders[o]), Life(orders'[o]))
  <2>1. orders'[o] = Moved(orders, o, target)[o]
    BY DEF MovedAll
  <2>2. /\ orders'[o].state = Reached(orders[o].state, target)
        /\ orders'[o].quantity = orders[o].quantity
        /\ orders'[o].executed = orders[o].executed
    BY <1>1, <2>1, MovedFields
  <2>3. orders'[o].state \in ClosedStates
    BY <2>2 DEF Reached, ClosedStates
  <2>4. orders[o] \in OrderSnapshot /\ orders'[o] \in OrderSnapshot
    BY <1>1 DEF Books
  <2> QED BY <2>2, <2>3, <2>4, ClosedLawfully
<1>3. \A o \in OrderIds \ S : orders'[o] = orders[o]
  BY DEF MovedAll
<1> QED BY <1>2, <1>3, LawfulStep

\* A fill of no more than the remainder is a lawful fill.
LEMMA FilledLawfully ==
  ASSUME NEW before \in OrderSnapshot, NEW after \in OrderSnapshot,
         NEW quantity \in Nat \ {0}, before.state \in Fillable,
         quantity <= Remaining(before),
         after.quantity = before.quantity,
         after.executed = before.executed + quantity,
         IF quantity = Remaining(before) THEN after.state = "EXECUTED"
         ELSE after.state \in Fillable \cup ClosedStates
  PROVE  Promise!Lawful(Life(before), Life(after))
<1>1. PhaseOf(before.state) = "released"
  BY PhasesOfStates
<1>2. /\ before.executed \in Nat /\ before.quantity \in Nat
      /\ before.executed < after.executed /\ after.executed <= before.quantity
      /\ after.executed = after.quantity <=> quantity = Remaining(before)
  BY DEF OrderSnapshot, Remaining
<1>3. PhaseOf(after.state) \in IF after.executed = after.quantity THEN {"filled"}
                               ELSE {"released", "closed"}
  BY <1>2, PhasesOfStates
<1> QED BY <1>1, <1>2, <1>3 DEF Life, Promise!Lawful, Promise!Fill

-----------------------------------------------------------------------------
\* The initial register is the initial promise.
LEMMA PromiseInit == Init => Promise!Init
BY PhasesOfStates
   DEF Init, MarketInit, EmptyBook, LifeOf, Promise!Init, Promise!Unborn

\* Every step of order management is a step of the promise or no step of it.
LEMMA PromiseNext ==
  TypeOK /\ TypeOK' /\ Safe /\ [Next]_vars =>
    [Promise!Next]_(LifeOf(orders))
<1> SUFFICES ASSUME TypeOK, TypeOK', Safe, [Next]_vars
             PROVE  Promise!Next \/ LifeOf(orders)' = LifeOf(orders)
  OBVIOUS
<1>0. /\ WellFormed(orders) /\ orders \in Books /\ orders' \in Books
      /\ \A o \in OrderIds : /\ orders[o] \in OrderSnapshot
                            /\ orders'[o] \in OrderSnapshot
  BY DEF TypeOK, WellFormed, Books
<1>1. ASSUME NEW o \in OrderIds, NEW q \in Quantities,
             NEW t \in Terms \cup {NoTerms}, SealOrder(o, q, t)
      PROVE  Promise!Next
  <2>1. orders[o] = EmptyBook[o] /\ q \in Nat /\ q > 0
    BY <1>0, <1>1, QuantitiesAssumption DEF SealOrder, WellFormed
  <2>2. orders' = [orders EXCEPT ![o] =
                     [state |-> "PARENT_ACTIVE", quantity |-> q,
                      executed |-> 0, consideration |-> 0,
                      parent |-> NoOrder, terms |-> t]]
    BY <1>0, <1>1, <2>1, OpeningOpens DEF SealOrder
  <2>3. /\ orders'[o].state = "PARENT_ACTIVE" /\ orders'[o].quantity = q
        /\ orders'[o].executed = 0
        /\ \A x \in OrderIds \ {o} : orders'[x] = orders[x]
    BY <1>0, <2>2 DEF Books
  <2>4. Life(orders[o]).phase = "absent"
    BY <2>1, PhasesOfStates DEF Life, EmptyBook
  <2>5. /\ Life(orders'[o]).phase = "working" /\ Life(orders'[o]).quantity = q
        /\ Life(orders'[o]).filled = 0
    BY <2>3, PhasesOfStates DEF Life
  <2>6. Promise!Lawful(Life(orders[o]), Life(orders'[o]))
    BY <2>1, <2>4, <2>5 DEF Promise!Lawful, Promise!Place
  <2> QED BY <2>3, <2>6, LawfulStep
<1>2. CASE UNCHANGED orders
  BY <1>2 DEF LifeOf
<1>3. ASSUME NEW d \in passes, RecordPass(d)
      PROVE  Promise!Next
  <2> DEFINE o == d.order
  <2>1. /\ o \in OrderIds /\ orders[o].state # Unseen
        /\ orders' = Moved(orders, o, "MARKET_ACCESS_PASSED")
    BY <1>3 DEF RecordPass, TypeOK, PassTyped
  <2>2. /\ orders'[o].state = Reached(orders[o].state, "MARKET_ACCESS_PASSED")
        /\ orders'[o].quantity = orders[o].quantity
        /\ orders'[o].executed = orders[o].executed
        /\ \A x \in OrderIds \ {o} : orders'[x] = orders[x]
    BY <1>0, <2>1, MovedFields, MovesRequested
  <2>3. CASE orders'[o].state = "NOT_REACHED"
    <3>1. Promise!Lawful(Life(orders[o]), Life(orders'[o]))
      BY <1>0, <2>1, <2>2, <2>3, ClosedLawfully DEF ClosedStates
    <3> QED BY <2>2, <3>1, LawfulStep
  <2>4. CASE orders'[o].state # "NOT_REACHED"
    <3>1. /\ orders[o].state \in {"PARENT_ACTIVE", "REPLACED"}
          /\ orders'[o].state = "MARKET_ACCESS_PASSED"
      BY <2>2, <2>4 DEF Reached, Allowed, WorkingMoves, PostTradeMoves
    <3>2. /\ Life(orders[o]).phase = "working"
          /\ Life(orders'[o]).phase = "released"
      BY <3>1, PhasesOfStates DEF Life, Fillable
    <3>3. Promise!Lawful(Life(orders[o]), Life(orders'[o]))
      BY <2>2, <3>2
         DEF Life, Promise!Lawful, Promise!Release, Promise!SameSize
    <3> QED BY <2>2, <3>3, LawfulStep
  <2> QED BY <2>3, <2>4
<1>4. ASSUME NEW o \in OrderIds, RecordHold(o)
      PROVE  Promise!Next
  <2>1. "MARKET_ACCESS_REFUSED" \in ClosedStates
    BY DEF ClosedStates
  <2> QED BY <1>4, <2>1, MovedLawfully DEF RecordHold
<1>5. ASSUME NEW o \in OrderIds, LateFill(o) \/ FillAfterClose(o) \/ Cancel(o)
      PROVE  Promise!Next
  <2>1. {"EXCEPTION_OPEN", "CANCELLED"} \subseteq ClosedStates
    BY DEF ClosedStates
  <2>2. orders[o].state # Unseen
    BY <1>5 DEF LateFill, FillAfterClose, Cancel, Unseen
  <2> QED BY <1>5, <2>1, <2>2, MovedLawfully
          DEF LateFill, FillAfterClose, Cancel
<1>6. ASSUME NEW o \in OrderIds, NEW quantity \in FillQuantities,
             NEW price \in FillPrices, NEW at \in 0 .. now,
             Reported(o, quantity, price, at)
      PROVE  Promise!Next
  <2> DEFINE cash == quantity * price
  <2>1. /\ quantity \in Nat \ {0} /\ cash \in Nat
        /\ orders[o].state \in Fillable /\ orders[o].state # Unseen
        /\ quantity <= Remaining(orders[o])
    BY <1>6, FillAssumption
       DEF Reported, KillPartialFill, FillRemainder, FillPart,
           FillPartImmediate, Accepted, Fillable, Unseen
  <2> HIDE DEF cash
  <2>2. CASE KillPartialFill(o, quantity, price, at)
    <3>1. "CANCELLED" \in ClosedStates
      BY DEF ClosedStates
    <3> QED BY <2>1, <2>2, <3>1, MovedLawfully DEF KillPartialFill
  <2>3. CASE FillRemainder(o, quantity, price, at)
    <3>1. /\ orders' = Executed(orders, o, "EXECUTED", quantity, cash)
          /\ quantity = Remaining(orders[o])
      BY <2>3 DEF FillRemainder, cash
    <3>2. /\ orders'[o].state = "EXECUTED"
          /\ orders'[o].quantity = orders[o].quantity
          /\ orders'[o].executed = orders[o].executed + quantity
          /\ \A x \in OrderIds \ {o} : orders'[x] = orders[x]
      BY <1>0, <2>1, <3>1, ExecutedFields, MovesRequested
    <3>3. Promise!Lawful(Life(orders[o]), Life(orders'[o]))
      BY <1>0, <2>1, <3>1, <3>2, FilledLawfully
    <3> QED BY <3>2, <3>3, LawfulStep
  <2>4. CASE FillPart(o, quantity, price, at)
    <3>1. /\ orders' = Executed(orders, o, "PARTIALLY_EXECUTED", quantity, cash)
          /\ quantity # Remaining(orders[o])
      BY <2>4 DEF FillPart, cash
    <3>2. /\ orders'[o].state = "PARTIALLY_EXECUTED"
          /\ orders'[o].quantity = orders[o].quantity
          /\ orders'[o].executed = orders[o].executed + quantity
          /\ \A x \in OrderIds \ {o} : orders'[x] = orders[x]
      BY <1>0, <2>1, <3>1, ExecutedFields, MovesRequested
    <3>3. orders'[o].state \in Fillable
      BY <3>2 DEF Fillable
    <3>4. Promise!Lawful(Life(orders[o]), Life(orders'[o]))
      BY <1>0, <2>1, <3>1, <3>2, <3>3, FilledLawfully
    <3> QED BY <3>2, <3>4, LawfulStep
  <2>5. CASE FillPartImmediate(o, quantity, price, at)
    <3> DEFINE filled == Executed(orders, o, "PARTIALLY_EXECUTED", quantity,
                                  cash)
    <3>1. /\ orders' = Moved(filled, o, "CANCELLED")
          /\ quantity # Remaining(orders[o])
      BY <2>5 DEF FillPartImmediate, cash
    <3>2. WellFormed(filled)
      BY <1>0, <2>1, ExecutedWellFormed, MovesRequested
    <3>3. /\ filled[o].state = "PARTIALLY_EXECUTED"
          /\ filled[o].quantity = orders[o].quantity
          /\ filled[o].executed = orders[o].executed + quantity
          /\ \A x \in OrderIds \ {o} : filled[x] = orders[x]
      <4>1. "PARTIALLY_EXECUTED" \in Executions
        BY DEF Executions
      <4> QED BY <1>0, <2>1, <4>1, ExecutedFields
    <3>4. filled \in Books /\ filled[o].state # Unseen
      BY <3>2, <3>3 DEF WellFormed, Unseen
    <3>5. /\ orders'[o].state = Reached(filled[o].state, "CANCELLED")
          /\ orders'[o].quantity = filled[o].quantity
          /\ orders'[o].executed = filled[o].executed
          /\ \A x \in OrderIds \ {o} : orders'[x] = filled[x]
      BY <3>1, <3>4, MovedFields, MovesRequested
    <3>6. orders'[o].state \in ClosedStates
      BY <3>5 DEF Reached, ClosedStates
    <3>7. Promise!Lawful(Life(orders[o]), Life(orders'[o]))
      BY <1>0, <2>1, <3>1, <3>3, <3>5, <3>6, FilledLawfully
    <3> QED BY <3>3, <3>5, <3>7, LawfulStep
  <2> QED BY <1>6, <2>2, <2>3, <2>4, <2>5 DEF Reported
<1>7. CASE ExpireDayOrders
  <2>1. \A o \in DayOrders : orders[o].state # Unseen
    BY DEF DayOrders, Live, Unseen
  <2> QED BY <1>7, <2>1, MovedAllLawfully DEF ExpireDayOrders, DayOrders
<1>8. ASSUME NEW h \in HaltIds, NEW scope \in HaltScopes, EngageHalt(h, scope)
      PROVE  Promise!Next
  <2>1. \A o \in InScope(scope) : orders[o].state # Unseen
    BY DEF InScope, Live, Unseen
  <2> QED BY <1>8, <2>1, MovedAllLawfully DEF EngageHalt, InScope
<1>9. ASSUME NEW o \in OrderIds, NEW t \in Terms, NEW sound \in BOOLEAN,
             NEW fresh \in BOOLEAN, ReplaceOrder(o, t, sound, fresh)
      PROVE  Promise!Next
  <2> DEFINE replaced == Retermed(orders, o, "REPLACED", t)
             outcome == IF /\ PolicyPasses(orders[o].quantity, t.price, sound)
                           /\ Controls(replaced, o, t, orders[o].quantity,
                                       NoMark, NoLocate, fresh)
                        THEN "MARKET_ACCESS_PASSED" ELSE "MARKET_ACCESS_REFUSED"
  <2>1. orders[o].state # Unseen /\ orders' = Moved(replaced, o, outcome)
    BY <1>9 DEF ReplaceOrder
  <2>2. outcome \in {"MARKET_ACCESS_PASSED", "MARKET_ACCESS_REFUSED"}
    OBVIOUS
  <2> HIDE DEF outcome
  <2>3. /\ replaced[o].state = Reached(orders[o].state, "REPLACED")
        /\ replaced[o].quantity = orders[o].quantity
        /\ replaced[o].executed = orders[o].executed
        /\ \A x \in OrderIds \ {o} : replaced[x] = orders[x]
    BY <1>0, <2>1, RetermedFields, MovesRequested
  <2>4. replaced \in Books /\ replaced[o].state # Unseen
    BY <1>0, <2>1, <2>3, RetermedWellFormed, ReachedTyped, MovesRequested
       DEF WellFormed, Moves
  <2>5. /\ orders'[o].state = Reached(replaced[o].state, outcome)
        /\ orders'[o].quantity = orders[o].quantity
        /\ orders'[o].executed = orders[o].executed
        /\ \A x \in OrderIds \ {o} : orders'[x] = orders[x]
    BY <2>1, <2>2, <2>3, <2>4, MovedFields, MovesRequested
  <2>6. CASE orders'[o].state \in ClosedStates
    <3>1. Promise!Lawful(Life(orders[o]), Life(orders'[o]))
      BY <1>0, <2>1, <2>5, <2>6, ClosedLawfully
    <3> QED BY <2>5, <3>1, LawfulStep
  <2>7. CASE orders'[o].state \notin ClosedStates
    <3>1. orders'[o].state = "MARKET_ACCESS_PASSED"
      BY <2>2, <2>5, <2>7 DEF Reached, ClosedStates
    <3>2. replaced[o].state = "REPLACED"
      <4>1. replaced[o].state \in {"REPLACED", "NOT_REACHED"}
        BY <2>3 DEF Reached
      <4>2. Reached("NOT_REACHED", outcome) = "NOT_REACHED"
        BY <2>2 DEF Reached, Allowed, WorkingMoves, PostTradeMoves
      <4> QED BY <2>5, <3>1, <4>1, <4>2
    <3>3. orders[o].state \in {"PARENT_ACTIVE"} \cup Fillable
      BY <2>3, <3>2 DEF Reached, Allowed, WorkingMoves, PostTradeMoves, Fillable
    <3>4. /\ Life(orders[o]).phase \in {"working", "released"}
          /\ Life(orders'[o]).phase = "released"
      BY <3>1, <3>3, PhasesOfStates DEF Life, Fillable
    <3>5. Promise!Lawful(Life(orders[o]), Life(orders'[o]))
      BY <2>5, <3>4
         DEF Life, Promise!Lawful, Promise!Release, Promise!SameSize
    <3> QED BY <2>5, <3>5, LawfulStep
  <2> QED BY <2>6, <2>7
<1>10. ASSUME Tick \/ UNCHANGED vars
              \/ (\E h \in HaltIds : ReleaseHalt(h))
              \/ (\E o \in OrderIds, mark \in SellMarks,
                     locate \in Locates \cup {NoLocate}, fresh \in BOOLEAN :
                     Evaluate(o, mark, locate, fresh))
       PROVE  UNCHANGED orders
  BY <1>10 DEF Tick, vars, ReleaseHalt, Evaluate
<1> QED
  BY <1>1, <1>2, <1>3, <1>4, <1>5, <1>6, <1>7, <1>8, <1>9, <1>10
     DEF Next, MarketNext, ExecutionNext

\* Order management, with every interleaving of its callers, gives each order
\* a life as OrderLife promises it: filled only while released, never beyond
\* its quantity, closed for good.
THEOREM PromiseKept == Spec => KeepsPromise
<1>1. Spec => [](TypeOK /\ Safe)
  BY TypeCorrect, AlwaysSafe, PTL
<1>2. Spec => Promise!Init /\ [][Promise!Next]_(LifeOf(orders))
  BY <1>1, PromiseInit, PromiseNext, PTL DEF Spec
<1> QED BY <1>2 DEF KeepsPromise, Promise!Spec

-----------------------------------------------------------------------------
(* Locates                                                                  *)

CoveredBy(l) == {d \in passes : d.locate = l}

Lent(l) == SumFunction([d \in CoveredBy(l) |-> d.key.quantity])

\* What the passes took from a locate never exceeds what the gate charged it
\* with: the inductive invariant of ShortSalesCovered.  The gate may charge more,
\* since it charges a purchase that is marked short.
Charged ==
  /\ IsFiniteSet(passes)
  /\ \A l \in Locates : Lent(l) <= locateUsed[l]

\* What passes lend is a natural number, and one more pass adds its quantity.
LEMMA LentTyped ==
  ASSUME TypeOK, Charged, NEW l
  PROVE  /\ IsFiniteSet(CoveredBy(l)) /\ Lent(l) \in Int
         /\ Lent(l) = SumFunctionOnSet([d \in CoveredBy(l) |-> d.key.quantity],
                                       CoveredBy(l))
<1> DEFINE f == [d \in CoveredBy(l) |-> d.key.quantity]
<1>1. IsFiniteSet(CoveredBy(l))
  BY FS_Subset DEF Charged, CoveredBy
<1>2. \A d \in CoveredBy(l) : f[d] \in Int
  BY DEF CoveredBy, TypeOK, PassTyped
<1>3. Lent(l) = SumFunctionOnSet(f, CoveredBy(l))
  BY DEF Lent, SumFunction
<1> HIDE DEF f
<1>4. Lent(l) \in Int
  BY <1>1, <1>2, <1>3, SumTyped
<1> QED BY <1>1, <1>3, <1>4 DEF f

LEMMA OneMoreLent ==
  ASSUME TypeOK, TypeOK', Charged, NEW l, NEW pass, pass \notin passes,
         pass.locate = l, passes' = passes \cup {pass}
  PROVE  Lent(l)' = pass.key.quantity + Lent(l)
<1> DEFINE f == [d \in CoveredBy(l) |-> d.key.quantity]
           g == [d \in CoveredBy(l)' |-> d.key.quantity]
           S == CoveredBy(l)
<1>1. CoveredBy(l)' = S \cup {pass} /\ pass \notin S
  BY DEF CoveredBy
<1>2. IsFiniteSet(S) /\ Lent(l) = SumFunctionOnSet(f, S)
  BY LentTyped
<1>3. Lent(l)' = SumFunctionOnSet(g, S \cup {pass})
  BY <1>1 DEF Lent, SumFunction
<1>4. /\ \A d \in S \cup {pass} : g[d] \in Int
      /\ \A d \in S : f[d] = g[d]
      /\ g[pass] = pass.key.quantity
  <2>1. \A d \in passes' : d.key.quantity \in Int
    BY DEF TypeOK, PassTyped
  <2>2. S \cup {pass} \subseteq passes'
    BY DEF CoveredBy
  <2> QED BY <1>1, <2>1, <2>2
<1> HIDE DEF f, g, S
<1>5. SumFunctionOnSet(f, S) = SumFunctionOnSet(g, S)
  BY <1>2, <1>4, SumSame
<1>6. SumFunctionOnSet(g, S \cup {pass}) = g[pass] + SumFunctionOnSet(g, S)
  BY <1>1, <1>2, <1>4, SumWith
<1> QED BY <1>2, <1>3, <1>4, <1>5, <1>6

\* The gate lends no more than the locate holds after what it charged already.
LEMMA GateLends ==
  ASSUME TypeOK, TypeOK', Charged, ShortSalesCovered,
         NEW book, WellFormed(book), NEW o \in OrderIds, NEW mark,
         NEW locate \in Locates \cup {NoLocate}, NEW fresh,
         GateOn(book, o, mark, locate, fresh)
  PROVE  Charged' /\ ShortSalesCovered'
<1> DEFINE terms == book[o].terms
           quantity == book[o].quantity
           pass == Pass(o, terms, quantity, mark, locate)
<1>1. CASE UNCHANGED gateVars
  BY <1>1 DEF gateVars, Charged, ShortSalesCovered, Lent, CoveredBy
<1>2. CASE ~UNCHANGED gateVars
  <2>1. /\ SaleCovered(terms, quantity, mark, locate)
        /\ passes' = passes \cup {pass}
        /\ locateUsed' = IF mark = "SHORT" /\ locate # NoLocate
                         THEN [locateUsed EXCEPT ![locate] = @ + quantity]
                         ELSE locateUsed
    BY <1>2 DEF GateOn, Controls
  <2>2. quantity \in Nat
    BY DEF WellFormed, Books, OrderSnapshot
  <2>3. /\ pass.key.quantity = quantity /\ pass.key.issue = terms.issue
        /\ pass.at = now
        /\ pass.locate = IF terms.side = "SELL" /\ mark = "SHORT"
                         THEN locate ELSE NoLocate
    BY DEF Pass, Key
  <2> HIDE DEF pass, quantity, terms
  <2>4. ASSUME NEW l \in Locates
        PROVE  locateUsed[l] \in Nat /\ locateUsed'[l] \in Nat /\ locateUsed'[l] >= locateUsed[l]
    BY <2>1, <2>2 DEF TypeOK
  <2>5. IsFiniteSet(passes')
    BY <2>1, FS_AddElement DEF Charged
  <2>6. ASSUME NEW l \in Locates
        PROVE  /\ Lent(l)' <= locateUsed'[l]
               /\ CoveredBy(l)' # {} => Lent(l)' <= LocateTerms[l].quantity
               /\ \A d \in CoveredBy(l)' :
                    d.at <= LocateTerms[l].expires
                      /\ d.key.issue = LocateTerms[l].issue
    <3>1. /\ Lent(l) \in Int /\ Lent(l) <= locateUsed[l]
          /\ CoveredBy(l) # {} => Lent(l) <= LocateTerms[l].quantity
          /\ \A d \in CoveredBy(l) : d.at <= LocateTerms[l].expires
                                       /\ d.key.issue = LocateTerms[l].issue
      BY LentTyped DEF Charged, ShortSalesCovered, Lent, CoveredBy
    <3>2. CASE pass \in passes \/ pass.locate # l
      <4>1. CoveredBy(l)' = CoveredBy(l)
        BY <2>1, <3>2 DEF CoveredBy
      <4>2. Lent(l)' = Lent(l)
        BY <4>1 DEF Lent
      <4> QED BY <2>4, <3>1, <4>1, <4>2
    <3>3. CASE pass \notin passes /\ pass.locate = l
      <4>1. /\ terms.side = "SELL" /\ mark = "SHORT" /\ locate = l
            /\ locate # NoLocate
        BY <2>3, <3>3, NoLocateAssumption
      <4>2. LocateAvailable(terms, quantity, l)
        BY <2>1, <4>1 DEF SaleCovered
      <4>3. Lent(l)' = quantity + Lent(l)
        BY <2>1, <2>3, <3>3, OneMoreLent
      <4>4. locateUsed'[l] = locateUsed[l] + quantity
        BY <2>1, <4>1 DEF TypeOK
      <4>5. LocateTerms[l].quantity \in Int
        BY AmountsAssumption
      <4>6. Lent(l)' <= locateUsed'[l] /\ Lent(l)' <= LocateTerms[l].quantity
        BY <2>2, <2>4, <3>1, <4>2, <4>3, <4>4, <4>5 DEF LocateAvailable
      <4>7. CoveredBy(l)' = CoveredBy(l) \cup {pass}
        BY <2>1, <3>3 DEF CoveredBy
      <4> QED BY <2>3, <3>1, <4>2, <4>6, <4>7 DEF LocateAvailable
    <3> QED BY <3>2, <3>3
  <2>7. ShortSalesCovered'
    BY <2>6 DEF ShortSalesCovered, Lent, CoveredBy
  <2> QED BY <2>5, <2>6, <2>7 DEF Charged
<1> QED BY <1>1, <1>2

\* Which steps ask the gate.
LEMMA GateIsAsked ==
  ASSUME TypeOK, [Next]_vars
  PROVE  \/ UNCHANGED gateVars
         \/ \E o \in OrderIds, locate \in Locates \cup {NoLocate} :
              \E book, mark, fresh :
                WellFormed(book) /\ GateOn(book, o, mark, locate, fresh)
<1>1. ASSUME NEW o \in OrderIds, NEW t \in Terms, NEW sound, NEW fresh,
             ReplaceOrder(o, t, sound, fresh)
      PROVE  /\ WellFormed(Retermed(orders, o, "REPLACED", t))
             /\ GateOn(Retermed(orders, o, "REPLACED", t), o, NoMark, NoLocate, fresh)
  BY <1>1, RetermedWellFormed, MovesRequested DEF ReplaceOrder, TypeOK
<1>2. MarketNext => \/ UNCHANGED gateVars
                    \/ \E o \in OrderIds, mark \in SellMarks,
                          locate \in Locates \cup {NoLocate}, fresh \in BOOLEAN :
                         GateOn(orders, o, mark, locate, fresh)
  BY DEF MarketNext, RecordPass, RecordHold, Evaluate
<1>3. ExecutionNext => UNCHANGED gateVars
  BY DEF ExecutionNext, LateFill, FillAfterClose, KillPartialFill, FillRemainder,
         FillPart, FillPartImmediate, Reported
<1>4. \/ UNCHANGED gateVars
      \/ MarketNext \/ ExecutionNext
      \/ \E o \in OrderIds, t \in Terms : \E sound, fresh : ReplaceOrder(o, t, sound, fresh)
  BY DEF Next, vars, SealOrder, Tick, Cancel, ExpireDayOrders, EngageHalt, ReleaseHalt
<1> QED BY <1>1, <1>2, <1>3, <1>4 DEF TypeOK

\* The short sales passed under a locate never exceed it, for any orders,
\* locates and marks, however often the gate is asked.
THEOREM LocatesSuffice == Spec => []ShortSalesCovered
<1>1. Init => Charged /\ ShortSalesCovered
  <2> SUFFICES ASSUME Init PROVE Charged /\ ShortSalesCovered
    OBVIOUS
  <2>1. passes = {} /\ IsFiniteSet(passes) /\ \A l \in Locates : locateUsed[l] = 0
    BY FS_EmptySet DEF Init, MarketInit
  <2>2. ASSUME NEW l \in Locates PROVE Lent(l) = 0
    <3> DEFINE f == [d \in CoveredBy(l) |-> d.key.quantity]
    <3>1. CoveredBy(l) = {}
      BY <2>1 DEF CoveredBy
    <3>2. Lent(l) = SumFunctionOnSet(f, {})
      BY <3>1 DEF Lent, SumFunction
    <3> HIDE DEF f
    <3> QED BY <3>2, SumOfNone
  <2> QED BY <2>1, <2>2 DEF Charged, ShortSalesCovered
<1>2. TypeOK /\ TypeOK' /\ Charged /\ ShortSalesCovered /\ [Next]_vars
        => Charged' /\ ShortSalesCovered'
  <2> SUFFICES ASSUME TypeOK, TypeOK', Charged, ShortSalesCovered, [Next]_vars
               PROVE  Charged' /\ ShortSalesCovered'
    OBVIOUS
  <2>1. CASE UNCHANGED gateVars
    BY <2>1 DEF gateVars, Charged, ShortSalesCovered, Lent, CoveredBy
  <2> QED BY <2>1, GateIsAsked, GateLends
<1> QED BY <1>1, <1>2, TypeInit, TypeNext, PTL DEF Spec

-----------------------------------------------------------------------------
(* Exposure                                                                 *)

HasPass(o) == \E d \in passes : d.order = o

\* The live orders the gate gave a pass, recorded or not, count against the
\* limits: what a later recording releases was in the sums already.
Commitments == {o \in OrderIds : orders[o].state \in Live /\ HasPass(o)}

CommitmentsOf(a) == {o \in Commitments : orders[o].terms.account = a}

NotOverfilled == \A o \in OrderIds : orders[o].executed <= orders[o].quantity

AccountCovered(a) ==
  CommitmentsOf(a) # {} =>
    /\ a \in DOMAIN BuyingPower \cap DOMAIN Limits.credit
    /\ NotionalOf(orders, CommitmentsOf(a)) <= BuyingPower[a]
    /\ NotionalOf(orders, CommitmentsOf(a)) <= Limits.credit[a]

\* The inductive invariant of ExposureWithinLimits.
Committed ==
  /\ NotOverfilled
  /\ \A a \in Accounts : AccountCovered(a)
  /\ NotionalOf(orders, Commitments) <= Limits.firm

LEMMA Products ==
  ASSUME NEW m \in Nat, NEW n \in Nat, NEW p \in Nat, m <= n
  PROVE  m * p \in Nat /\ n * p \in Nat /\ m * p <= n * p
OBVIOUS

\* The open notional of an order that is not overfilled is a natural number, at
\* most its quantity at its price.
LEMMA OpenNotionals ==
  ASSUME NEW book, WellFormed(book), NEW o \in OrderIds,
         book[o].executed <= book[o].quantity, book[o].terms \in Terms
  PROVE  /\ OpenNotional(book[o]) \in Nat
         /\ book[o].quantity * book[o].terms.price \in Nat
         /\ OpenNotional(book[o]) <= book[o].quantity * book[o].terms.price
<1> DEFINE p == book[o].terms.price
           m == book[o].quantity - book[o].executed
           n == book[o].quantity
<1>1. p \in Nat /\ m \in Nat /\ n \in Nat /\ m <= n
  BY AmountsAssumption DEF WellFormed, Books, OrderSnapshot
<1>2. OpenNotional(book[o]) = m * p
  BY DEF OpenNotional, Remaining
<1> HIDE DEF m, n, p
<1>3. m * p \in Nat /\ n * p \in Nat /\ m * p <= n * p
  BY <1>1, Products
<1> QED BY <1>2, <1>3 DEF n, p

\* Filling more of an order leaves less of it open.
LEMMA FilledMore ==
  ASSUME NEW book, WellFormed(book), NEW after, WellFormed(after),
         NEW o \in OrderIds, book[o].terms \in Terms,
         after[o].terms = book[o].terms, after[o].quantity = book[o].quantity,
         book[o].executed <= after[o].executed, after[o].executed <= after[o].quantity
  PROVE  OpenNotional(after[o]) <= OpenNotional(book[o])
<1> DEFINE p == book[o].terms.price
           m == after[o].quantity - after[o].executed
           n == book[o].quantity - book[o].executed
<1>1. p \in Nat /\ m \in Nat /\ n \in Nat /\ m <= n
  BY AmountsAssumption DEF WellFormed, Books, OrderSnapshot
<1>2. OpenNotional(after[o]) = m * p /\ OpenNotional(book[o]) = n * p
  BY DEF OpenNotional, Remaining
<1> HIDE DEF m, n, p
<1> QED BY <1>1, <1>2, Products

\* Fewer orders, with less open, have a smaller notional.
LEMMA NotionalNoMore ==
  ASSUME NEW book, NEW after, NEW T, T \subseteq OrderIds, NEW S, S \subseteq T,
         \A x \in T : OpenNotional(book[x]) \in Nat,
         \A x \in S : /\ OpenNotional(after[x]) \in Nat
                      /\ OpenNotional(after[x]) <= OpenNotional(book[x])
  PROVE  /\ NotionalOf(after, S) \in Nat /\ NotionalOf(book, T) \in Nat
         /\ NotionalOf(after, S) <= NotionalOf(book, T)
<1> DEFINE f == [x \in S |-> OpenNotional(after[x])]
           g == [x \in T |-> OpenNotional(book[x])]
<1>1. /\ NotionalOf(after, S) = SumFunctionOnSet(f, S)
      /\ NotionalOf(book, T) = SumFunctionOnSet(g, T)
  BY DEF NotionalOf, SumFunction
<1>2. /\ \A x \in T : g[x] \in Nat
      /\ \A x \in S : f[x] \in Nat /\ f[x] <= g[x]
  OBVIOUS
<1>3. IsFiniteSet(T)
  BY OrderIdsAssumption, FS_Subset
<1> HIDE DEF f, g
<1>4. NoMore(f, S, g, T)
  BY <1>2, <1>3, SumMonotone
<1> QED BY <1>1, <1>4 DEF NoMore

\* One order more adds what is open of it.
LEMMA NotionalWith ==
  ASSUME NEW book, NEW S, S \subseteq OrderIds, NEW o \in OrderIds, o \notin S,
         \A x \in S \cup {o} : OpenNotional(book[x]) \in Nat
  PROVE  NotionalOf(book, S \cup {o}) = OpenNotional(book[o]) + NotionalOf(book, S)
<1> DEFINE f == [x \in S |-> OpenNotional(book[x])]
           g == [x \in S \cup {o} |-> OpenNotional(book[x])]
<1>1. /\ NotionalOf(book, S) = SumFunctionOnSet(f, S)
      /\ NotionalOf(book, S \cup {o}) = SumFunctionOnSet(g, S \cup {o})
  BY DEF NotionalOf, SumFunction
<1>2. /\ \A x \in S \cup {o} : g[x] \in Int
      /\ \A x \in S : f[x] = g[x]
      /\ g[o] = OpenNotional(book[o])
  OBVIOUS
<1>3. IsFiniteSet(S)
  BY OrderIdsAssumption, FS_Subset
<1> HIDE DEF f, g
<1>4. SumFunctionOnSet(g, S \cup {o}) = g[o] + SumFunctionOnSet(g, S)
  BY <1>2, <1>3, SumWith
<1>5. SumFunctionOnSet(f, S) = SumFunctionOnSet(g, S)
  BY <1>2, <1>3, SumSame
<1> QED BY <1>1, <1>2, <1>4, <1>5

\* A committed order has terms, of a known account, and an open notional.
LEMMA CommitmentsTyped ==
  TypeOK /\ Safe /\ NotOverfilled =>
    \A o \in Commitments :
      /\ o \in OrderIds /\ orders[o].terms \in Terms
      /\ orders[o].terms.account \in Accounts
      /\ OpenNotional(orders[o]) \in Nat
<1> SUFFICES ASSUME TypeOK, Safe, NotOverfilled, NEW o \in Commitments
             PROVE  /\ o \in OrderIds /\ orders[o].terms \in Terms
                    /\ orders[o].terms.account \in Accounts
                    /\ OpenNotional(orders[o]) \in Nat
  OBVIOUS
<1>1. o \in OrderIds /\ orders[o].state \in Live /\ HasPass(o)
  BY DEF Commitments
<1>2. orders[o].terms # NoTerms
  <2>1. CASE orders[o].state = "PARENT_ACTIVE"
    BY <1>1, <2>1 DEF HasPass, Safe, PendingPassesValid, PassValid
  <2>2. CASE orders[o].state # "PARENT_ACTIVE"
    BY <1>1, <2>2 DEF Safe, TradesOnGatedTerms, Live, Fillable
  <2> QED BY <2>1, <2>2
<1>3. orders[o].terms \in Terms
  BY <1>1, <1>2 DEF TypeOK, WellFormed, Books, OrderSnapshot
<1> QED BY <1>1, <1>3, OpenNotionals DEF Accounts, NotOverfilled, TypeOK

LEMMA CommitmentsTypedNext ==
  (TypeOK /\ Safe /\ NotOverfilled)' =>
    (\A o \in Commitments :
      /\ o \in OrderIds /\ orders[o].terms \in Terms
      /\ orders[o].terms.account \in Accounts
      /\ OpenNotional(orders[o]) \in Nat)'
BY CommitmentsTyped, PTL

\* The order is no new commitment, and not a bigger one.
NoLarger(o) ==
  /\ o \in Commitments
  /\ orders'[o].terms.account = orders[o].terms.account
  /\ OpenNotional(orders'[o]) <= OpenNotional(orders[o])

\* An account whose commitments only shrink stays covered.
LEMMA AccountEases ==
  ASSUME TypeOK, Safe, TypeOK', Safe', Committed, NotOverfilled',
         NEW a \in Accounts, \A o \in CommitmentsOf(a)' : NoLarger(o)
  PROVE  AccountCovered(a)'
<1>1. CommitmentsOf(a)' \subseteq CommitmentsOf(a)
  BY DEF CommitmentsOf, NoLarger
<1>2. /\ CommitmentsOf(a) \subseteq OrderIds
      /\ \A x \in CommitmentsOf(a) : OpenNotional(orders[x]) \in Nat
  BY CommitmentsTyped DEF CommitmentsOf, Committed
<1>3. \A x \in CommitmentsOf(a)' :
        OpenNotional(orders'[x]) \in Nat
          /\ OpenNotional(orders'[x]) <= OpenNotional(orders[x])
  BY CommitmentsTypedNext DEF CommitmentsOf, NoLarger
<1>4. /\ NotionalOf(orders', CommitmentsOf(a)') \in Nat
      /\ NotionalOf(orders, CommitmentsOf(a)) \in Nat
      /\ NotionalOf(orders', CommitmentsOf(a)')
           <= NotionalOf(orders, CommitmentsOf(a))
  BY <1>1, <1>2, <1>3, NotionalNoMore
<1>5. AccountCovered(a)
  BY DEF Committed
<1>6. a \in DOMAIN BuyingPower \cap DOMAIN Limits.credit
        => BuyingPower[a] \in Int /\ Limits.credit[a] \in Int
  BY AmountsAssumption
<1> QED BY <1>1, <1>4, <1>5, <1>6 DEF AccountCovered

\* A step that makes no commitment larger keeps the limits.
LEMMA CommitmentsEase ==
  ASSUME TypeOK, Safe, TypeOK', Safe', Committed, NotOverfilled',
         \A o \in Commitments' : NoLarger(o)
  PROVE  Committed'
<1>1. ASSUME NEW a \in Accounts PROVE AccountCovered(a)'
  <2>1. \A o \in CommitmentsOf(a)' : NoLarger(o)
    BY DEF CommitmentsOf
  <2> QED BY <2>1, AccountEases
<1>2. Commitments' \subseteq Commitments
  BY DEF NoLarger
<1>3. /\ Commitments \subseteq OrderIds
      /\ \A x \in Commitments : OpenNotional(orders[x]) \in Nat
  BY CommitmentsTyped DEF Committed
<1>4. \A x \in Commitments' :
        OpenNotional(orders'[x]) \in Nat
          /\ OpenNotional(orders'[x]) <= OpenNotional(orders[x])
  BY CommitmentsTypedNext DEF NoLarger
<1>5. /\ NotionalOf(orders', Commitments') \in Nat
      /\ NotionalOf(orders, Commitments) \in Nat
      /\ NotionalOf(orders', Commitments') <= NotionalOf(orders, Commitments)
  BY <1>2, <1>3, <1>4, NotionalNoMore
<1>6. NotionalOf(orders', Commitments') <= Limits.firm
  BY <1>5, AmountsAssumption DEF Committed
<1> QED BY <1>1, <1>6 DEF Committed

\* What the gate adds up, the orders other than o with terms, in an account or in all.
OthersOf(book, o, a) ==
  {x \in OtherLive(book, o) : book[x].terms # NoTerms /\ book[x].terms.account = a}

Others(book, o) == {x \in OtherLive(book, o) : book[x].terms # NoTerms}

\* The gate's sum over other orders and one order more: how much any part of
\* them can be worth.
LEMMA GateAddsUp ==
  ASSUME TypeOK, TypeOK', Safe', NotOverfilled', NEW o \in OrderIds, NEW book,
         \A x \in OrderIds \ {o} : orders'[x] = book[x],
         o \in Commitments',
         NEW S, S \subseteq Others(book, o), NEW T, T \subseteq S \cup {o}
  PROVE  /\ NotionalOf(orders', T) \in Nat
         /\ NotionalOf(book, S) \in Nat
         /\ NotionalOf(orders', T) <= NotionalOf(book, S) + OpenNotional(orders'[o])
         /\ OpenNotional(orders'[o]) \in Nat
<1>1. S \subseteq OrderIds /\ o \notin S
  BY DEF Others, OtherLive
<1>2. \A x \in S : orders'[x] = book[x] /\ orders'[x].terms \in Terms
  <2>1. ASSUME NEW x \in S PROVE orders'[x] = book[x] /\ orders'[x].terms \in Terms
    <3>1. x \in OrderIds \ {o} /\ book[x].terms # NoTerms
      BY DEF Others, OtherLive
    <3>2. orders'[x] \in OrderSnapshot
      BY <3>1 DEF TypeOK, WellFormed, Books
    <3> QED BY <3>1, <3>2 DEF OrderSnapshot
  <2> QED BY <2>1
<1>3. \A x \in S : OpenNotional(orders'[x]) \in Nat
  <2>1. ASSUME NEW x \in S PROVE OpenNotional(orders'[x]) \in Nat
    <3>1. x \in OrderIds /\ orders'[x].executed <= orders'[x].quantity
            /\ WellFormed(orders') /\ orders'[x].terms \in Terms
      BY <1>1, <1>2 DEF NotOverfilled, TypeOK
    <3> QED BY <3>1, OpenNotionals
  <2> QED BY <2>1
<1>4. OpenNotional(orders'[o]) \in Nat
  BY CommitmentsTypedNext
<1>5. NotionalOf(orders', S \cup {o})
        = OpenNotional(orders'[o]) + NotionalOf(orders', S)
  BY <1>1, <1>3, <1>4, NotionalWith
<1>6. /\ NotionalOf(orders', T) \in Nat
      /\ NotionalOf(orders', T) <= NotionalOf(orders', S \cup {o})
      /\ NotionalOf(orders', S \cup {o}) \in Nat
  <2>1. \A x \in S \cup {o} :
          /\ OpenNotional(orders'[x]) \in Nat
          /\ OpenNotional(orders'[x]) <= OpenNotional(orders'[x])
    BY <1>3, <1>4
  <2>2. S \cup {o} \subseteq OrderIds
    BY <1>1
  <2> QED BY <2>1, <2>2, NotionalNoMore
<1>7. NotionalOf(book, S) = NotionalOf(orders', S) /\ NotionalOf(orders', S) \in Nat
  <2>1. [x \in S |-> OpenNotional(book[x])] = [x \in S |-> OpenNotional(orders'[x])]
    BY <1>2
  <2>2. NotionalOf(orders', S) \in Nat
    <3>1. \A x \in S : OpenNotional(orders'[x]) <= OpenNotional(orders'[x])
      BY <1>3
    <3> QED BY <1>1, <1>3, <3>1, NotionalNoMore
  <2> QED BY <2>1, <2>2 DEF NotionalOf
<1> QED BY <1>4, <1>5, <1>6, <1>7

\* An order that is released on the controls' word fits the limits beside every
\* other commitment: they are among the live orders the controls added up.
LEMMA OneCommits ==
  ASSUME TypeOK, Safe, TypeOK', Safe', Committed, NotOverfilled',
         NEW o \in OrderIds, NEW book, NEW mark, NEW locate, NEW fresh,
         \A x \in OrderIds \ {o} : book[x] = orders[x] /\ orders'[x] = orders[x],
         Controls(book, o, book[o].terms, book[o].quantity, mark, locate, fresh),
         orders'[o].terms = book[o].terms, orders'[o].quantity = book[o].quantity,
         \A d \in passes' : d \in passes \/ d.order = o
  PROVE  Committed'
<1> DEFINE acct == book[o].terms.account
           n    == book[o].quantity * book[o].terms.price
<1>1. ASSUME NEW x \in Commitments', x # o
      PROVE  /\ NoLarger(x) /\ x \in Others(book, o)
             /\ book[x].terms.account = orders'[x].terms.account
  <2>1. /\ x \in OrderIds /\ orders'[x] = orders[x] /\ book[x] = orders[x]
        /\ orders'[x].state \in Live /\ \E d \in passes' : d.order = x
    BY <1>1 DEF Commitments, HasPass
  <2>2. x \in Commitments
    BY <1>1, <2>1 DEF Commitments, HasPass
  <2>3. OpenNotional(orders[x]) \in Nat /\ orders[x].terms \in Terms
    BY <2>2, CommitmentsTyped DEF Committed
  <2>4. orders[x].terms # NoTerms
    BY <2>3, NoTermsAssumption
  <2>5. NoLarger(x)
    BY <2>1, <2>2, <2>3 DEF NoLarger
  <2> QED BY <1>1, <2>1, <2>4, <2>5 DEF Others, OtherLive
<1>2. CASE o \notin Commitments'
  BY <1>1, <1>2, CommitmentsEase
<1>3. CASE o \in Commitments'
  <2>1. /\ orders'[o].terms \in Terms /\ acct \in Accounts
        /\ OpenNotional(orders'[o]) \in Nat /\ n \in Nat
        /\ OpenNotional(orders'[o]) <= n
    <3>1. orders'[o].terms \in Terms /\ orders'[o].terms.account \in Accounts
      BY <1>3, CommitmentsTypedNext
    <3>2. WellFormed(orders') /\ orders'[o].executed <= orders'[o].quantity
      BY DEF NotOverfilled, TypeOK
    <3>3. /\ OpenNotional(orders'[o]) \in Nat
          /\ orders'[o].quantity * orders'[o].terms.price \in Nat
          /\ OpenNotional(orders'[o]) <= orders'[o].quantity * orders'[o].terms.price
      BY <3>1, <3>2, OpenNotionals
    <3> QED BY <3>1, <3>3
  <2>2. /\ acct \in DOMAIN BuyingPower \cap DOMAIN Limits.credit
        /\ NotionalOf(book, OthersOf(book, o, acct)) + n <= BuyingPower[acct]
        /\ NotionalOf(book, OthersOf(book, o, acct)) + n <= Limits.credit[acct]
        /\ NotionalOf(book, Others(book, o)) + n <= Limits.firm
    <3>1. WithinCredit(book, o, book[o].terms, n)
      BY DEF Controls
    <3> HIDE DEF n
    <3> QED BY <3>1 DEF WithinCredit, AccountOpen, FirmOpen, OthersOf, Others
  <2>3. /\ BuyingPower[acct] \in Int /\ Limits.credit[acct] \in Int
        /\ Limits.firm \in Int
    BY <2>2, AmountsAssumption
  <2>4. \A x \in OrderIds \ {o} : orders'[x] = book[x]
    OBVIOUS
  <2> HIDE DEF n, acct
  <2>5. ASSUME NEW a \in Accounts
        PROVE  AccountCovered(a)'
    <3>1. CASE a # acct
      <4>1. \A x \in CommitmentsOf(a)' : NoLarger(x)
        BY <1>1, <3>1 DEF CommitmentsOf, acct
      <4> QED BY <4>1, AccountEases
    <3>2. CASE a = acct
      <4> DEFINE S == OthersOf(book, o, acct)
                 T == CommitmentsOf(a)'
      <4>1. T \subseteq S \cup {o}
        BY <1>1, <3>2 DEF CommitmentsOf, OthersOf, Others
      <4>2. S \subseteq Others(book, o)
        BY DEF OthersOf, Others
      <4> HIDE DEF S, T
      <4>3. /\ NotionalOf(orders', T) \in Nat /\ NotionalOf(book, S) \in Nat
            /\ NotionalOf(orders', T) <= NotionalOf(book, S) + OpenNotional(orders'[o])
        BY <1>3, <2>4, <4>1, <4>2, GateAddsUp
      <4>4. /\ NotionalOf(orders', T) <= BuyingPower[acct]
            /\ NotionalOf(orders', T) <= Limits.credit[acct]
        BY <2>1, <2>2, <2>3, <4>3 DEF S
      <4> QED BY <2>2, <3>2, <4>4 DEF AccountCovered, T
    <3> QED BY <3>1, <3>2
  <2>6. NotionalOf(orders', Commitments') <= Limits.firm
    <3> DEFINE S == Others(book, o)
               T == Commitments'
    <3>1. T \subseteq S \cup {o} /\ S \subseteq Others(book, o)
      BY <1>1
    <3> HIDE DEF S, T
    <3>2. /\ NotionalOf(orders', T) \in Nat /\ NotionalOf(book, S) \in Nat
          /\ NotionalOf(orders', T) <= NotionalOf(book, S) + OpenNotional(orders'[o])
      BY <1>3, <2>4, <3>1, GateAddsUp
    <3>3. NotionalOf(orders', T) <= Limits.firm
      BY <2>1, <2>2, <2>3, <3>2 DEF S
    <3> QED BY <3>3 DEF T
  <2> QED BY <2>5, <2>6 DEF Committed
<1> QED BY <1>2, <1>3

-----------------------------------------------------------------------------
(* What every step does to the orders and their commitments                 *)

Calm(order) == order.executed <= order.quantity

\* The order is left alone, is withdrawn, goes on with the same terms filled no
\* less, or is new to the gate.
Eases(o) ==
  /\ Calm(orders'[o])
  /\ \/ orders'[o] = orders[o]
     \/ Withdrawn(orders'[o])
     \/ /\ orders[o].state \in Live
        /\ orders'[o].terms = orders[o].terms
        /\ orders'[o].quantity = orders[o].quantity
        /\ orders[o].executed <= orders'[o].executed
     \/ ~HasPass(o)

\* A step that asks the gate nothing and eases every order keeps the limits.
LEMMA EasingKeeps ==
  ASSUME TypeOK, Safe, TypeOK', Safe', Committed, passes' = passes,
         \A o \in OrderIds : Eases(o)
  PROVE  Committed'
<1>1. NotOverfilled'
  BY DEF Eases, Calm, NotOverfilled
<1>2. ASSUME NEW o \in Commitments' PROVE NoLarger(o)
  <2>1. o \in OrderIds /\ orders'[o].state \in Live /\ HasPass(o)
    BY DEF Commitments, HasPass
  <2>2. ~Withdrawn(orders'[o])
    BY <2>1 DEF Withdrawn, Live, Fillable
  <2>3. CASE orders'[o] = orders[o]
    <3>1. o \in Commitments
      BY <2>1, <2>3 DEF Commitments
    <3>2. OpenNotional(orders[o]) \in Nat
      BY <3>1, CommitmentsTyped DEF Committed
    <3> QED BY <2>3, <3>1, <3>2 DEF NoLarger
  <2>4. CASE /\ orders[o].state \in Live
             /\ orders'[o].terms = orders[o].terms
             /\ orders'[o].quantity = orders[o].quantity
             /\ orders[o].executed <= orders'[o].executed
    <3>1. o \in Commitments
      BY <2>1, <2>4 DEF Commitments
    <3>2. orders[o].terms \in Terms
      BY <3>1, CommitmentsTyped DEF Committed
    <3>3. /\ WellFormed(orders) /\ WellFormed(orders')
          /\ orders'[o].executed <= orders'[o].quantity
      BY <1>1, <2>1 DEF TypeOK, NotOverfilled
    <3>4. OpenNotional(orders'[o]) <= OpenNotional(orders[o])
      BY <2>1, <2>4, <3>2, <3>3, FilledMore
    <3> QED BY <2>4, <3>1, <3>4 DEF NoLarger
  <2> QED BY <2>1, <2>2, <2>3, <2>4 DEF Eases
<1> QED BY <1>1, <1>2, CommitmentsEase

\* Withdrawing an order fills no more of it.
LEMMA WithdrawalCalm ==
  ASSUME orders \in Books, NotOverfilled, NEW o \in OrderIds, orders[o].state # Unseen,
         NEW target \in {"CANCELLED", "EXPIRED", "EXCEPTION_OPEN",
                         "MARKET_ACCESS_REFUSED"}
  PROVE  /\ Calm(Moved(orders, o, target)[o])
         /\ Withdrawn(Moved(orders, o, target)[o])
         /\ \A x \in OrderIds \ {o} : Moved(orders, o, target)[x] = orders[x]
<1>1. target \in Moves
  BY MovesRequested
<1> QED BY <1>1, MovedFields, Withdraws DEF Withdrawn, Calm, NotOverfilled

LEMMA WithdrawalEases ==
  ASSUME orders \in Books, NotOverfilled, NEW o \in OrderIds, orders[o].state # Unseen,
         NEW target \in {"CANCELLED", "EXPIRED", "EXCEPTION_OPEN",
                         "MARKET_ACCESS_REFUSED"},
         orders' = Moved(orders, o, target)
  PROVE  \A x \in OrderIds : Eases(x)
BY WithdrawalCalm DEF Eases, Calm, NotOverfilled

LEMMA MovedAllEases ==
  ASSUME orders \in Books, NotOverfilled, NEW S \in SUBSET OrderIds,
         \A o \in S : orders[o].state # Unseen,
         NEW target \in {"CANCELLED", "EXPIRED"}, orders' = MovedAll(S, target)
  PROVE  \A x \in OrderIds : Eases(x)
<1>1. \A o \in S : /\ Calm(Moved(orders, o, target)[o])
                   /\ Withdrawn(Moved(orders, o, target)[o])
  BY WithdrawalCalm
<1> QED BY <1>1 DEF MovedAll, Eases, Calm, NotOverfilled

\* Every step eases every order, or asks the gate about one order and lets it go
\* on only when the gate's controls pass its terms.
LEMMA CommittedNext ==
  TypeOK /\ TypeOK' /\ Safe /\ Safe' /\ Committed /\ [Next]_vars => Committed'
<1> SUFFICES ASSUME TypeOK, TypeOK', Safe, Safe', Committed, [Next]_vars
             PROVE  Committed'
  OBVIOUS
<1> USE MovesRequested
<1>0. /\ WellFormed(orders) /\ orders \in Books /\ NotOverfilled
      /\ \A o \in OrderIds : Calm(orders[o])
  BY DEF TypeOK, WellFormed, Committed, NotOverfilled, Calm
<1>1. ASSUME NEW o \in OrderIds, NEW q \in Quantities,
             NEW t \in Terms \cup {NoTerms}, SealOrder(o, q, t)
      PROVE  Committed'
  <2>1. orders[o] = EmptyBook[o] /\ orders[o].state = Unseen /\ q \in Nat
    BY <1>0, <1>1, QuantitiesAssumption DEF SealOrder, WellFormed
  <2>2. orders' = [orders EXCEPT ![o] =
                     [state |-> "PARENT_ACTIVE", quantity |-> q,
                      executed |-> 0, consideration |-> 0,
                      parent |-> NoOrder, terms |-> t]]
    BY <1>0, <1>1, <2>1, OpeningOpens DEF SealOrder
  <2>3. /\ Calm(orders'[o]) /\ passes' = passes
        /\ \A x \in OrderIds \ {o} : orders'[x] = orders[x]
    BY <1>0, <1>1, <2>1, <2>2 DEF SealOrder, gateVars, Books, Calm
  <2>4. ~HasPass(o)
    BY <2>1 DEF HasPass, Safe, PendingPassesValid, PassValid
  <2> QED BY <1>0, <2>3, <2>4, EasingKeeps DEF Eases
<1>2. CASE Tick
  BY <1>0, <1>2, EasingKeeps DEF Tick, gateVars, Eases
<1>3. ASSUME NEW o \in OrderIds, NEW mark \in SellMarks,
             NEW locate \in Locates \cup {NoLocate}, NEW fresh \in BOOLEAN,
             Evaluate(o, mark, locate, fresh)
      PROVE  Committed'
  <2>1. GateOn(orders, o, mark, locate, fresh) /\ orders' = orders
    BY <1>3 DEF Evaluate
  <2>2. CASE Controls(orders, o, orders[o].terms, orders[o].quantity, mark,
                      locate, fresh)
    <3>1. \A d \in passes' : d \in passes \/ d.order = o
      BY <2>1, GatePasses
    <3>2. NotOverfilled'
      BY <1>0, <2>1 DEF NotOverfilled
    <3> QED BY <2>1, <2>2, <3>1, <3>2, OneCommits
  <2>3. CASE ~Controls(orders, o, orders[o].terms, orders[o].quantity, mark,
                       locate, fresh)
    BY <1>0, <2>1, <2>3, EasingKeeps DEF GateOn, gateVars, Eases
  <2> QED BY <2>2, <2>3
<1>4. ASSUME NEW d \in passes, RecordPass(d)
      PROVE  Committed'
  <2> DEFINE o == d.order
  <2>1. /\ o \in OrderIds /\ orders[o].state # Unseen /\ passes' = passes
        /\ orders' = Moved(orders, o, "MARKET_ACCESS_PASSED")
    BY <1>4 DEF RecordPass, TypeOK, PassTyped, gateVars
  <2>2. /\ orders'[o].state = Reached(orders[o].state, "MARKET_ACCESS_PASSED")
        /\ orders'[o].terms = orders[o].terms
        /\ orders'[o].quantity = orders[o].quantity
        /\ orders'[o].executed = orders[o].executed
        /\ \A x \in OrderIds \ {o} : orders'[x] = orders[x]
    BY <1>0, <2>1, MovedFields
  <2>3. orders[o].state # "REPLACED"
    BY <2>1 DEF Safe, PendingPassesValid
  <2>4. orders[o].state \in Live \/ Withdrawn(orders'[o])
    <3>1. CASE orders[o].state = "PARENT_ACTIVE"
      BY <3>1 DEF Live
    <3>2. CASE orders[o].state # "PARENT_ACTIVE"
      <4>1. <<orders[o].state, "MARKET_ACCESS_PASSED">> \notin Allowed
        BY <2>3, <3>2 DEF Allowed, WorkingMoves, PostTradeMoves
      <4>2. orders'[o].state = "NOT_REACHED"
        BY <2>2, <4>1 DEF Reached
      <4> QED BY <4>2 DEF Withdrawn, Fillable, Unseen
    <3> QED BY <3>1, <3>2
  <2>5. Eases(o)
    BY <1>0, <2>1, <2>2, <2>4 DEF Eases, Calm, Books, OrderSnapshot
  <2> QED BY <1>0, <2>1, <2>2, <2>5, EasingKeeps DEF Eases
<1>5. ASSUME NEW o \in OrderIds,
             RecordHold(o) \/ LateFill(o) \/ FillAfterClose(o) \/ Cancel(o)
      PROVE  Committed'
  <2>1. /\ orders[o].state # Unseen /\ passes' = passes
        /\ \E target \in {"CANCELLED", "EXCEPTION_OPEN", "MARKET_ACCESS_REFUSED"} :
             orders' = Moved(orders, o, target)
    BY <1>5 DEF RecordHold, LateFill, FillAfterClose, Cancel, gateVars, Unseen
  <2> QED BY <1>0, <2>1, WithdrawalEases, EasingKeeps
<1>7. ASSUME NEW o \in OrderIds, NEW quantity \in FillQuantities,
             NEW price \in FillPrices, NEW at \in 0 .. now,
             Reported(o, quantity, price, at)
      PROVE  Committed'
  <2> DEFINE cash == quantity * price
  <2>1. /\ quantity \in Nat /\ cash \in Nat /\ passes' = passes
        /\ orders[o].state \in Fillable /\ orders[o].state # Unseen
        /\ quantity <= Remaining(orders[o])
    BY <1>7, FillAssumption
       DEF Reported, KillPartialFill, FillRemainder, FillPart,
           FillPartImmediate, Accepted, Fillable, Unseen, gateVars
  <2>2. orders[o] \in OrderSnapshot
    BY <1>0 DEF Books
  <2>3. \/ orders' = Moved(orders, o, "CANCELLED")
        \/ \E target \in Executions :
             orders' = Executed(orders, o, target, quantity, cash)
        \/ orders' = Moved(Executed(orders, o, "PARTIALLY_EXECUTED", quantity, cash),
                           o, "CANCELLED")
    BY <1>7 DEF Reported, KillPartialFill, FillRemainder, FillPart, FillPartImmediate,
                Executions
  <2> HIDE DEF cash
  <2>4. CASE orders' = Moved(orders, o, "CANCELLED")
    BY <1>0, <2>1, <2>4, WithdrawalEases, EasingKeeps
  <2>5. ASSUME NEW target \in Executions
        PROVE  LET after == Executed(orders, o, target, quantity, cash) IN
               /\ after[o].state = target
               /\ after[o].terms = orders[o].terms
               /\ after[o].quantity = orders[o].quantity
               /\ orders[o].executed <= after[o].executed
               /\ Calm(after[o])
               /\ \A x \in OrderIds \ {o} : after[x] = orders[x]
    BY <1>0, <2>1, <2>2, ExecutedFields DEF Calm, Remaining, OrderSnapshot
  <2>6. ASSUME NEW target \in Executions,
               orders' = Executed(orders, o, target, quantity, cash)
        PROVE  Committed'
    <3>1. Eases(o) /\ \A x \in OrderIds \ {o} : Eases(x)
      BY <1>0, <2>1, <2>5, <2>6 DEF Eases, Live, Fillable
    <3> QED BY <2>1, <3>1, EasingKeeps
  <2>7. CASE orders' = Moved(Executed(orders, o, "PARTIALLY_EXECUTED", quantity, cash),
                             o, "CANCELLED")
    <3> DEFINE filled == Executed(orders, o, "PARTIALLY_EXECUTED", quantity, cash)
    <3>1. WellFormed(filled)
      BY <1>0, <2>1, ExecutedWellFormed
    <3>2. /\ filled[o].state = "PARTIALLY_EXECUTED" /\ Calm(filled[o])
          /\ \A x \in OrderIds \ {o} : filled[x] = orders[x]
      BY <2>5
    <3>3. filled \in Books /\ filled[o].state # Unseen
      BY <3>1, <3>2 DEF WellFormed, Unseen
    <3>4. /\ orders'[o].state = Reached(filled[o].state, "CANCELLED")
          /\ orders'[o].quantity = filled[o].quantity
          /\ orders'[o].executed = filled[o].executed
          /\ \A x \in OrderIds \ {o} : orders'[x] = filled[x]
      BY <2>7, <3>3, MovedFields
    <3>5. Withdrawn(orders'[o]) /\ Calm(orders'[o])
      BY <3>2, <3>4, Withdraws DEF Withdrawn, Calm
    <3> QED BY <1>0, <2>1, <3>2, <3>4, <3>5, EasingKeeps DEF Eases
  <2> QED BY <2>3, <2>4, <2>6, <2>7
<1>8. CASE ExpireDayOrders
  <2>1. \A o \in DayOrders : orders[o].state # Unseen
    BY DEF DayOrders, Live, Unseen
  <2>2. /\ orders' = MovedAll(DayOrders, "EXPIRED") /\ passes' = passes
        /\ DayOrders \in SUBSET OrderIds
    BY <1>8 DEF ExpireDayOrders, gateVars, DayOrders
  <2> QED BY <1>0, <2>1, <2>2, MovedAllEases, EasingKeeps
<1>9. ASSUME NEW h \in HaltIds, NEW scope \in HaltScopes, EngageHalt(h, scope)
      PROVE  Committed'
  <2>1. \A o \in InScope(scope) : orders[o].state # Unseen
    BY DEF InScope, Live, Unseen
  <2>2. /\ orders' = MovedAll(InScope(scope), "CANCELLED") /\ passes' = passes
        /\ InScope(scope) \in SUBSET OrderIds
    BY <1>9 DEF EngageHalt, gateVars, InScope
  <2> QED BY <1>0, <2>1, <2>2, MovedAllEases, EasingKeeps
<1>10. ASSUME NEW h \in HaltIds, ReleaseHalt(h)
       PROVE  Committed'
  BY <1>0, <1>10, EasingKeeps DEF ReleaseHalt, gateVars, Eases
<1>11. ASSUME NEW o \in OrderIds, NEW t \in Terms, NEW sound \in BOOLEAN,
              NEW fresh \in BOOLEAN, ReplaceOrder(o, t, sound, fresh)
       PROVE  Committed'
  <2> DEFINE replaced == Retermed(orders, o, "REPLACED", t)
  <2>1. /\ orders[o].state # Unseen
        /\ GateOn(replaced, o, NoMark, NoLocate, fresh)
        /\ replaced[o].terms = t
        /\ replaced[o].quantity = orders[o].quantity
        /\ orders'[o].terms = t
        /\ orders'[o].quantity = orders[o].quantity
        /\ \A x \in OrderIds \ {o} : orders'[x] = orders[x]
        /\ \/ Withdrawn(orders'[o])
           \/ Controls(replaced, o, t, orders[o].quantity, NoMark,
                       NoLocate, fresh)
    BY <1>0, <1>11, ReplacementFields
  <2>2. /\ \A x \in OrderIds \ {o} : replaced[x] = orders[x]
        /\ replaced[o].executed = orders[o].executed
        /\ replaced[o].state # Unseen
        /\ WellFormed(replaced) /\ replaced \in Books
    <3>1. /\ replaced[o].state = Reached(orders[o].state, "REPLACED")
          /\ \A x \in OrderIds \ {o} : replaced[x] = orders[x]
          /\ replaced[o].executed = orders[o].executed
      BY <1>0, <2>1, RetermedFields
    <3>2. WellFormed(replaced)
      BY <1>0, <2>1, RetermedWellFormed
    <3> QED BY <3>1, <3>2, ReachedTyped DEF Moves, WellFormed
  <2>3. orders'[o].executed = orders[o].executed
    <3>1. \/ orders' = Moved(replaced, o, "MARKET_ACCESS_PASSED")
          \/ orders' = Moved(replaced, o, "MARKET_ACCESS_REFUSED")
      BY <1>11 DEF ReplaceOrder
    <3> HIDE DEF replaced
    <3> QED BY <2>2, <3>1, MovedFields
  <2>4. NotOverfilled'
    BY <1>0, <2>1, <2>3 DEF NotOverfilled
  <2>5. \A d \in passes' : d \in passes \/ d.order = o
    BY <2>1, GatePasses
  <2> HIDE DEF replaced
  <2>6. CASE Controls(replaced, o, t, orders[o].quantity, NoMark, NoLocate, fresh)
    BY <2>1, <2>2, <2>4, <2>5, <2>6, OneCommits
  <2>7. CASE Withdrawn(orders'[o])
    <3>1. ASSUME NEW x \in Commitments' PROVE NoLarger(x)
      <4>1. x \in OrderIds /\ x # o /\ \E d \in passes' : d.order = x
        BY <2>7 DEF Commitments, HasPass, Withdrawn, Live, Fillable
      <4>2. orders'[x] = orders[x] /\ x \in Commitments
        BY <2>1, <2>5, <4>1 DEF Commitments, HasPass
      <4>3. OpenNotional(orders[x]) \in Nat
        BY <4>2, CommitmentsTyped DEF Committed
      <4> QED BY <4>2, <4>3 DEF NoLarger
    <3> QED BY <2>4, <3>1, CommitmentsEase
  <2> QED BY <2>1, <2>6, <2>7
<1>12. CASE UNCHANGED vars
  BY <1>0, <1>12, EasingKeeps DEF vars, gateVars, Eases
<1> QED
  BY <1>1, <1>2, <1>3, <1>4, <1>5, <1>7, <1>8, <1>9, <1>10, <1>11, <1>12
     DEF Next, MarketNext, ExecutionNext

LEMMA NotionalOfNone ==
  ASSUME NEW book
  PROVE  NotionalOf(book, {}) = 0
<1> DEFINE f == [x \in {} |-> OpenNotional(book[x])]
<1>1. NotionalOf(book, {}) = SumFunctionOnSet(f, {})
  BY DEF NotionalOf, SumFunction
<1> HIDE DEF f
<1> QED BY <1>1, SumOfNone

LEMMA CommittedInit == Init => Committed
<1> SUFFICES ASSUME Init PROVE Committed
  OBVIOUS
<1>1. Commitments = {} /\ NotOverfilled
  BY DEF Init, MarketInit, EmptyBook, Commitments, HasPass, NotOverfilled
<1>2. \A a \in Accounts : CommitmentsOf(a) = {}
  BY <1>1 DEF CommitmentsOf
<1>3. NotionalOf(orders, Commitments) = 0
  BY <1>1, NotionalOfNone
<1> QED BY <1>1, <1>2, <1>3, AmountsAssumption DEF Committed, AccountCovered

\* What is released is committed, so it is within every limit.
LEMMA CommittedLimitsExposure ==
  ASSUME TypeOK, Safe, Committed
  PROVE  ExposureWithinLimits
<1>1. Released \subseteq Commitments
  BY DEF Released, Commitments, HasPass, Live, Fillable, Safe, TradesOnGatedTerms
<1>2. \A x \in Commitments :
        /\ x \in OrderIds /\ OpenNotional(orders[x]) \in Nat
        /\ OpenNotional(orders[x]) <= OpenNotional(orders[x])
  BY CommitmentsTyped DEF Committed
<1>3. ASSUME NEW S, NEW T, S \subseteq T, T \subseteq Commitments
      PROVE  /\ NotionalOf(orders, S) \in Nat /\ NotionalOf(orders, T) \in Nat
             /\ NotionalOf(orders, S) <= NotionalOf(orders, T)
  BY <1>2, <1>3, NotionalNoMore
<1>4. ASSUME NEW a \in Accounts, Exposed(a) > 0
      PROVE  Exposed(a) <= BuyingPower[a] /\ Exposed(a) <= Limits.credit[a]
  <2> DEFINE S == {o \in Released : orders[o].terms.account = a}
             T == CommitmentsOf(a)
  <2>1. S \subseteq T /\ T \subseteq Commitments /\ Exposed(a) = NotionalOf(orders, S)
    BY <1>1 DEF CommitmentsOf, Exposed
  <2> HIDE DEF S, T
  <2>2. /\ NotionalOf(orders, S) \in Nat /\ NotionalOf(orders, T) \in Nat
        /\ NotionalOf(orders, S) <= NotionalOf(orders, T)
    BY <1>3, <2>1
  <2>3. T # {}
    BY <1>4, <2>1, <2>2, NotionalOfNone
  <2>4. /\ NotionalOf(orders, T) <= BuyingPower[a]
        /\ NotionalOf(orders, T) <= Limits.credit[a]
        /\ BuyingPower[a] \in Int /\ Limits.credit[a] \in Int
    BY <2>3, AmountsAssumption DEF Committed, AccountCovered, T
  <2> QED BY <2>1, <2>2, <2>4
<1>5. NotionalOf(orders, Released) <= Limits.firm
  <2>1. /\ NotionalOf(orders, Released) \in Nat
        /\ NotionalOf(orders, Commitments) \in Nat
        /\ NotionalOf(orders, Released) <= NotionalOf(orders, Commitments)
    BY <1>1, <1>3
  <2> QED BY <2>1, AmountsAssumption DEF Committed
<1> QED BY <1>4, <1>5 DEF ExposureWithinLimits

\* The exposure of released orders stays within every account's credit and
\* buying power and the firm's threshold, for any orders, terms and limits, in
\* every interleaving of evaluations, recordings, fills and replacements.
THEOREM ExposureHolds == Spec => []ExposureWithinLimits
<1>1. TypeOK /\ Safe /\ Committed => ExposureWithinLimits
  BY CommittedLimitsExposure
<1> QED
  BY <1>1, TypeInit, TypeNext, SafeInit, SafeNext, CommittedInit, CommittedNext,
     PTL DEF Spec

-----------------------------------------------------------------------------
(* Fills honour the terms                                                   *)

Honours(o) ==
  LET before == orders[o]
      after  == orders'[o]
  IN  after.executed # before.executed =>
        /\ before.terms.tif = "FILL_OR_KILL" => after.executed = after.quantity
        /\ before.terms.tif = "IMMEDIATE_OR_CANCEL" => after.state \notin Live
        /\ before.terms.cap # NoCap => after.consideration <= before.terms.cap

\* Only a report adds to what is executed, and it honours the terms it adds under.
LEMMA ReportHonours ==
  ASSUME TypeOK, NEW o \in OrderIds, NEW quantity \in FillQuantities,
         NEW price \in FillPrices, NEW at, Reported(o, quantity, price, at)
  PROVE  \A x \in OrderIds : Honours(x)
<1> USE MovesRequested
<1> DEFINE cash == quantity * price
<1>1. /\ quantity \in Nat /\ cash \in Nat
      /\ orders[o].state \in Fillable /\ orders[o].state # Unseen
      /\ WithinCap(orders[o], quantity, price)
  BY FillAssumption DEF Reported, KillPartialFill, FillRemainder, FillPart,
                        FillPartImmediate, Accepted, Fillable, Unseen
<1>2. orders \in Books /\ WellFormed(orders) /\ orders[o] \in OrderSnapshot
  BY DEF TypeOK, WellFormed, Books
<1>3. orders[o].terms.cap # NoCap => orders[o].consideration + cash <= orders[o].terms.cap
  BY <1>1 DEF WithinCap
<1> HIDE DEF cash
<1>4. CASE KillPartialFill(o, quantity, price, at)
  <2>1. orders' = Moved(orders, o, "CANCELLED")
    BY <1>4 DEF KillPartialFill
  <2>2. \A x \in OrderIds : orders'[x].executed = orders[x].executed
    BY <1>1, <1>2, <2>1, MovedFields
  <2> QED BY <2>2 DEF Honours
<1>5. CASE FillRemainder(o, quantity, price, at)
  <2>1. /\ orders' = Executed(orders, o, "EXECUTED", quantity, cash)
        /\ quantity = orders[o].quantity - orders[o].executed
        /\ "EXECUTED" \in Executions
    BY <1>5 DEF FillRemainder, cash, Remaining
  <2>2. /\ orders'[o].state = "EXECUTED"
        /\ orders'[o].quantity = orders[o].quantity
        /\ orders'[o].executed = orders[o].executed + quantity
        /\ orders'[o].consideration = orders[o].consideration + cash
        /\ \A x \in OrderIds \ {o} : orders'[x] = orders[x]
    BY <1>1, <1>2, <2>1, ExecutedFields
  <2>3. orders'[o].executed = orders'[o].quantity
    BY <1>1, <1>2, <2>1, <2>2 DEF OrderSnapshot
  <2>4. Honours(o)
    BY <1>3, <2>2, <2>3 DEF Honours, Live
  <2> QED BY <2>2, <2>4 DEF Honours
<1>6. CASE FillPart(o, quantity, price, at)
  <2>1. /\ orders' = Executed(orders, o, "PARTIALLY_EXECUTED", quantity, cash)
        /\ orders[o].terms.tif \notin {"FILL_OR_KILL", "IMMEDIATE_OR_CANCEL"}
        /\ "PARTIALLY_EXECUTED" \in Executions
    BY <1>6 DEF FillPart, cash
  <2>2. /\ orders'[o].consideration = orders[o].consideration + cash
        /\ \A x \in OrderIds \ {o} : orders'[x] = orders[x]
    BY <1>1, <1>2, <2>1, ExecutedFields
  <2>3. Honours(o)
    BY <1>3, <2>1, <2>2 DEF Honours
  <2> QED BY <2>2, <2>3 DEF Honours
<1>7. CASE FillPartImmediate(o, quantity, price, at)
  <2> DEFINE filled == Executed(orders, o, "PARTIALLY_EXECUTED", quantity, cash)
  <2>1. /\ orders' = Moved(filled, o, "CANCELLED")
        /\ orders[o].terms.tif = "IMMEDIATE_OR_CANCEL"
    BY <1>7 DEF FillPartImmediate, cash
  <2>2. WellFormed(filled)
    BY <1>1, <1>2, ExecutedWellFormed
  <2>3. /\ filled[o].state = "PARTIALLY_EXECUTED"
        /\ filled[o].consideration = orders[o].consideration + cash
        /\ \A x \in OrderIds \ {o} : filled[x] = orders[x]
    BY <1>1, <1>2, ExecutedFields
  <2>4. filled \in Books /\ filled[o].state # Unseen
    BY <2>2, <2>3 DEF WellFormed, Unseen
  <2> HIDE DEF filled
  <2>5. /\ orders'[o].state = Reached(filled[o].state, "CANCELLED")
        /\ orders'[o].consideration = filled[o].consideration
        /\ \A x \in OrderIds \ {o} : orders'[x] = filled[x]
    BY <2>1, <2>4, MovedFields
  <2>6. orders'[o].state \notin Live
    BY <2>5, Withdraws DEF Live, Fillable
  <2>7. Honours(o)
    BY <1>3, <2>1, <2>3, <2>5, <2>6 DEF Honours
  <2> QED BY <2>3, <2>5, <2>7 DEF Honours
<1> QED BY <1>4, <1>5, <1>6, <1>7 DEF Reported

\* A step that moves orders leaves what is executed.
LEMMA MovesExecuteNothing ==
  ASSUME orders \in Books, NEW target \in Moves
  PROVE  /\ \A o \in OrderIds : orders[o].state # Unseen /\ orders' = Moved(orders, o, target)
              => \A x \in OrderIds : orders'[x].executed = orders[x].executed
         /\ \A S \in SUBSET OrderIds :
              (\A o \in S : orders[o].state # Unseen) /\ orders' = MovedAll(S, target)
                => \A x \in OrderIds : orders'[x].executed = orders[x].executed
<1>1. ASSUME NEW o \in OrderIds, orders[o].state # Unseen
      PROVE  \A x \in OrderIds : Moved(orders, o, target)[x].executed = orders[x].executed
  BY <1>1, MovedFields
<1> QED BY <1>1 DEF MovedAll

LEMMA HonoursNext ==
  ASSUME TypeOK, [Next]_vars
  PROVE  \A o \in OrderIds : Honours(o)
<1> USE MovesRequested
<1>0. /\ WellFormed(orders) /\ orders \in Books
      /\ \A o \in OrderIds : orders[o].executed \in Nat
  BY DEF TypeOK, WellFormed, Books, OrderSnapshot
<1> DEFINE Idle == \A o \in OrderIds : orders'[o].executed = orders[o].executed
<1>1. Idle => \A o \in OrderIds : Honours(o)
  BY DEF Honours
<1> HIDE DEF Idle
<1>2. ASSUME NEW o \in OrderIds, NEW q \in Quantities,
             NEW t \in Terms \cup {NoTerms}, SealOrder(o, q, t)
      PROVE  Idle
  <2>1. orders[o] = EmptyBook[o] /\ orders[o].state = Unseen /\ q \in Nat
    BY <1>0, <1>2, QuantitiesAssumption DEF SealOrder, WellFormed
  <2>2. orders' = [orders EXCEPT ![o] =
                     [state |-> "PARENT_ACTIVE", quantity |-> q,
                      executed |-> 0, consideration |-> 0,
                      parent |-> NoOrder, terms |-> t]]
    BY <1>0, <1>2, <2>1, OpeningOpens DEF SealOrder
  <2> QED BY <1>0, <2>1, <2>2 DEF EmptyBook, Books, Idle
<1>3. ASSUME NEW d \in passes, RecordPass(d) PROVE Idle
  <2>1. d.order \in OrderIds
    BY DEF TypeOK, PassTyped
  <2> QED BY <1>0, <1>3, <2>1, MovesExecuteNothing DEF RecordPass, Idle
<1>4. ASSUME NEW o \in OrderIds,
             RecordHold(o) \/ LateFill(o) \/ FillAfterClose(o) \/ Cancel(o)
      PROVE  Idle
  <2>1. /\ orders[o].state # Unseen
        /\ \E target \in Moves : orders' = Moved(orders, o, target)
    BY <1>4 DEF RecordHold, LateFill, FillAfterClose, Cancel, Unseen
  <2>2. PICK target \in Moves : orders' = Moved(orders, o, target)
    BY <2>1
  <2> QED BY <1>0, <2>1, <2>2, MovesExecuteNothing DEF Idle
<1>5. ASSUME ExpireDayOrders PROVE Idle
  <2>1. /\ \A o \in DayOrders : orders[o].state # Unseen
        /\ orders' = MovedAll(DayOrders, "EXPIRED")
        /\ DayOrders \in SUBSET OrderIds /\ "EXPIRED" \in Moves
    BY <1>5 DEF ExpireDayOrders, DayOrders, Live, Unseen
  <2>2. \A o \in OrderIds : orders'[o].executed = orders[o].executed
    BY <1>0, <2>1, MovesExecuteNothing
  <2> QED BY <2>2 DEF Idle
<1>6. ASSUME NEW h \in HaltIds, NEW scope \in HaltScopes, EngageHalt(h, scope)
      PROVE  Idle
  <2>1. /\ \A o \in InScope(scope) : orders[o].state # Unseen
        /\ orders' = MovedAll(InScope(scope), "CANCELLED")
        /\ InScope(scope) \in SUBSET OrderIds
    BY <1>6 DEF EngageHalt, InScope, Live, Unseen
  <2> QED BY <1>0, <2>1, MovesExecuteNothing DEF Idle
<1>7. ASSUME NEW o \in OrderIds, NEW t \in Terms, NEW sound \in BOOLEAN,
             NEW fresh \in BOOLEAN, ReplaceOrder(o, t, sound, fresh)
      PROVE  Idle
  <2> DEFINE replaced == Retermed(orders, o, "REPLACED", t)
  <2>1. /\ orders[o].state # Unseen
        /\ \/ orders' = Moved(replaced, o, "MARKET_ACCESS_PASSED")
           \/ orders' = Moved(replaced, o, "MARKET_ACCESS_REFUSED")
    BY <1>7 DEF ReplaceOrder
  <2>2. /\ \A x \in OrderIds \ {o} : replaced[x] = orders[x]
        /\ replaced[o].executed = orders[o].executed
        /\ replaced[o].state = Reached(orders[o].state, "REPLACED")
    BY <1>0, <2>1, RetermedFields
  <2>3. WellFormed(replaced)
    BY <1>0, <2>1, RetermedWellFormed
  <2>4. replaced \in Books /\ replaced[o].state # Unseen
    BY <2>2, <2>3, ReachedTyped DEF Moves, WellFormed
  <2> HIDE DEF replaced
  <2> QED BY <2>1, <2>2, <2>4, MovedFields DEF Idle
<1>8. orders' = orders => Idle
  BY DEF Idle
<1>9. (Tick \/ UNCHANGED vars \/ (\E h \in HaltIds : ReleaseHalt(h))
        \/ (\E o \in OrderIds, mark \in SellMarks, locate \in Locates \cup {NoLocate},
               fresh \in BOOLEAN : Evaluate(o, mark, locate, fresh)))
      => orders' = orders
  BY DEF Tick, vars, ReleaseHalt, Evaluate
<1> QED
  BY <1>1, <1>2, <1>3, <1>4, <1>5, <1>6, <1>7, <1>8, <1>9, ReportHonours
     DEF Next, MarketNext, ExecutionNext

\* No fill breaks the time in force or the approved notional of the order it
\* fills, for any terms, quantities and prices.
THEOREM TermsHonoured == Spec => FillsHonourTerms
<1>1. TypeOK /\ [Next]_vars => [\A o \in OrderIds : Honours(o)]_vars
  BY HonoursNext
<1>2. Spec => [][\A o \in OrderIds : Honours(o)]_vars
  BY <1>1, TypeInit, TypeNext, PTL DEF Spec
<1> QED BY <1>2 DEF FillsHonourTerms, Honours
=============================================================================
