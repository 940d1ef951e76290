------------------------------ MODULE PostTrade ------------------------------
(***************************************************************************)
(* What happens to an executed order until its trade is affirmed           *)
(* (lc/trade.py): its venue reports are captured, the trade is allocated   *)
(* over the accounts of a plan, and the matching utility's facts are       *)
(* recorded.  Every call takes a register and returns the next one with a  *)
(* record; callers keep the records and use them later, or again.          *)
(***************************************************************************)
EXTENDS OrderBook, Allocation, Sequences

CONSTANTS
  Plans,           \* the allocation plans (AllocationPlan)
  NoPlan,          \* terms sealed without a plan
  Prices,          \* prices a caller may state in the reports it captures
  Facts,           \* [matched, affirmed]: what the utility may say (MatchFact)
  Starts,          \* the orders' terms and fills when they leave the venue
  MaxAllocations,  \* bound on the allocation records made
  MaxCaptures,     \* bound on the captures that one allocation names
  NoCapture, NoOutcome

ASSUME FactsAssumption == Facts \subseteq [matched : BOOLEAN, affirmed : BOOLEAN]
ASSUME MaxAllocationsAssumption == MaxAllocations \in Nat /\ MaxCaptures \in Nat

\* Field(gt=0) of AllocationTarget and ExecutionFill; the average has up to
\* twelve places.
ASSUME PlansAssumption ==
  \A plan \in Plans :
    /\ IsFiniteSet(DOMAIN plan.targets) /\ DOMAIN plan.targets \subseteq Nat
    /\ \A i \in DOMAIN plan.targets : plan.targets[i].quantity \in Nat \ {0}
    /\ plan.quantum \in Nat \ {0}
ASSUME PricesAssumption == Prices \subseteq Nat \ {0}

VARIABLES
  orders,       \* the register the last call returned, replayed
  fills,        \* the fills it holds of each order: [quantity, price, day]
  captures,     \* order -> the CaptureRecord a caller keeps
  allocations,  \* order -> the AllocationRecords whose first capture is its own
  outcomes,     \* order -> the last TradeOutcome: whether it has an exception
  told,         \* order -> what the facts recorded for it said
  holder        \* the record that holds the latest register, if one does

tradeVars == <<captures, allocations, outcomes, told>>

NoHolder == <<"NONE">>
Outcome(o) == <<"OUTCOME", o>>

Quantity(reports) == SumFunction([i \in DOMAIN reports |-> reports[i].quantity])

Money(reports) ==
  SumFunction([i \in DOMAIN reports |-> reports[i].quantity * reports[i].price])

\* The snapshot of an order that the given fills executed in full.
Executing(start) ==
  [state |-> "EXECUTED", quantity |-> Quantity(start.fills),
   executed |-> Quantity(start.fills), consideration |-> Money(start.fills),
   parent |-> NoOrder, terms |-> start.terms]

\* The fills of an order are such that a register can hold what they add up to.
ASSUME StartsAssumption ==
  \A start \in Starts : \A o \in OrderIds :
    /\ start[o].fills \in Seq([quantity : Nat \ {0}, price : Nat \ {0}, day : Nat])
    /\ start[o].fills # <<>> =>
         Executing(start[o]) \in OrderSnapshot /\ Quantity(start[o].fills) > 0

\* Orders that did not fill are not followed here.
TradeInit ==
  /\ \E start \in Starts :
       /\ fills = [o \in OrderIds |-> start[o].fills]
       /\ orders = [o \in OrderIds |-> IF start[o].fills = <<>> THEN EmptyBook[o]
                                       ELSE Executing(start[o])]
  /\ captures = [o \in OrderIds |-> NoCapture]
  /\ allocations = [o \in OrderIds |-> <<>>]
  /\ outcomes = [o \in OrderIds |-> NoOutcome]
  /\ told = [o \in OrderIds |-> {}]
  /\ holder = NoHolder

-----------------------------------------------------------------------------
\* The reports a caller may bring: those the fills were made of, or the same
\* quantities at another price.
Reports(o) ==
  {fills[o]} \cup
  {[i \in DOMAIN fills[o] |-> [fills[o][i] EXCEPT !.price = p]] : p \in Prices}

\* The order is moved, and the record the call returns, if any, holds the
\* register.
MoveTo(o, target, record) ==
  /\ orders' = Moved(orders, o, target)
  /\ holder' = record

\* capture: the quantities must add up to what was executed; the prices are
\* the caller's.
Capture(o) == \E reports \in Reports(o) :
  /\ orders[o].state = "EXECUTED"
  /\ Quantity(reports) = orders[o].executed
  /\ captures' = [captures EXCEPT ![o] = [quantity |-> Quantity(reports),
                                          money |-> Money(reports)]]
  /\ MoveTo(o, "TRADE_CAPTURED", NoHolder)
  /\ UNCHANGED <<fills, allocations, outcomes, told>>

\* The captures an allocation may name: any that a caller keeps, of any orders,
\* and one more than once.
Batches ==
  UNION {[1..n -> {o \in OrderIds : captures[o] # NoCapture}] : n \in 1..MaxCaptures}

\* What they add up to (_captured_consideration, for the money).
BatchQuantity(batch) ==
  SumFunction([i \in DOMAIN batch |-> captures[batch[i]].quantity])

BatchMoney(batch) == SumFunction([i \in DOMAIN batch |-> captures[batch[i]].money])

\* Mutant of Planned: any plan will do.
PlannedFreely(batch, plan) == Divisible(plan, BatchQuantity(batch))

\* The plan the first captured order was sealed with, if it was sealed with one.
Planned(batch, plan) ==
  /\ orders[batch[1]].terms.plan \in {NoPlan, plan}
  /\ Divisible(plan, BatchQuantity(batch))

\* allocate makes its record before it asks for the move of the first captured
\* order, and returns it whatever the register records.  It does not ask
\* whether the captures are distinct or were allocated before, and the other
\* captured orders stay where they are.
Allocate(batch, plan) ==
  LET o          == batch[1]
      allocation == Allocated(batch, plan, BatchQuantity(batch), BatchMoney(batch))
  IN  /\ SumFunction([x \in OrderIds |-> Len(allocations[x])]) < MaxAllocations
      /\ Planned(batch, plan)
      /\ Recordable(allocation)
      /\ allocations' = [allocations EXCEPT ![o] = Append(@, allocation)]
      /\ MoveTo(o, "ALLOCATED", NoHolder)
      /\ UNCHANGED <<fills, captures, outcomes, told>>

-----------------------------------------------------------------------------
\* The TradeOutcome of a fact, and what the fact said; nothing leads on from
\* NOT_REACHED, so what was said of such an order is dropped.
Conclude(o, exception, said) ==
  /\ outcomes' = [outcomes EXCEPT ![o] = exception]
  /\ told' = [told EXCEPT ![o] = IF orders'[o].state = "NOT_REACHED" THEN {}
                                 ELSE @ \cup {said}]
  /\ UNCHANGED <<fills, captures, allocations>>

RecordMatch(o, fact) ==
  /\ orders[o].state # Unseen
  /\ MoveTo(o, IF fact.matched THEN "MATCHED" ELSE "EXCEPTION_OPEN", Outcome(o))
  /\ Conclude(o, ~fact.matched, IF fact.matched THEN "MATCHED" ELSE "UNMATCHED")

\* Mutant of Affirmable: a fact that matches is taken to affirm.
AffirmableOnMatch(exception, fact) == ~exception /\ fact.matched

Affirmable(exception, fact) == ~exception /\ fact.affirmed

\* affirm works on the register of the outcome of some order p, for whichever
\* order its caller names, and the exception of the outcome goes with it.  Its
\* callers use an outcome while its register is the latest one they hold.
Affirm(o, p, fact) ==
  /\ holder = Outcome(p)
  /\ orders[o].state # Unseen
  /\ MoveTo(o, IF Affirmable(outcomes[p], fact) THEN "AFFIRMED" ELSE "NOT_REACHED",
            Outcome(o))
  /\ Conclude(o, outcomes[p], IF fact.affirmed THEN "AFFIRMED" ELSE "UNAFFIRMED")

\* cancel_order of lc/oms.py, which asks for its move of an order in any state.
CancelTrade(o) ==
  /\ orders[o].state # Unseen
  /\ MoveTo(o, "CANCELLED", NoHolder)
  /\ UNCHANGED <<fills, tradeVars>>

TradeStep ==
  \/ \E o \in OrderIds : Capture(o) \/ CancelTrade(o)
  \/ \E batch \in Batches, plan \in Plans : Allocate(batch, plan)
  \/ \E o \in OrderIds, fact \in Facts : RecordMatch(o, fact)
  \/ \E o, p \in OrderIds, fact \in Facts : Affirm(o, p, fact)

-----------------------------------------------------------------------------
(* Properties *)

\* The register and the records kept of it have their shape.
TradeTypeOK ==
  /\ WellFormed(orders)
  /\ \A o \in OrderIds : holder = Outcome(o) => outcomes[o] \in BOOLEAN
  /\ \A o \in OrderIds :
       /\ captures[o] = NoCapture \/ captures[o].quantity \in Nat \ {0}
       /\ outcomes[o] \in BOOLEAN \cup {NoOutcome}
       /\ told[o] \subseteq {"MATCHED", "UNMATCHED", "AFFIRMED", "UNAFFIRMED"}

\* The states an order that came this far may be in, short of giving up.
After(state) ==
  {SettlementPath[i] : i \in {j \in DOMAIN SettlementPath :
     \E k \in DOMAIN SettlementPath : SettlementPath[k] = state /\ j >= k}}
    \cup {"HANDED_TO_ATREIDES", "REFUSED_BY_ATREIDES"}

\* An order that was allocated and is still on its way leads one allocation
\* record, under the plan it was sealed with and of all the fills of the orders
\* it names, however often allocate was called and with whatever captures
\* (allocate returns a record even when the move is refused).  That no other
\* record names the same shares is not so: allocate takes a capture again,
\* beside others or twice over.
LeadsOneAllocation ==
  \A o \in OrderIds :
    orders[o].state \in After("ALLOCATED") =>
      /\ Len(allocations[o]) = 1
      /\ LET a == allocations[o][1]
         IN  /\ a.quantity =
                  SumFunction([i \in DOMAIN a.trades |-> Quantity(fills[a.trades[i]])])
             /\ orders[o].terms.plan \in {NoPlan, a.plan}

\* Every allocation record made.
Allocations == UNION {{allocations[o][i] : i \in DOMAIN allocations[o]} :
                        o \in OrderIds}

\* How much more than its part of the plan target i has of shares, a share being
\* TargetTotal; and how far a division is from the plan, squared.
Gap(plan, total, shares, i) ==
  shares[i] * TargetTotal(plan) - total * plan.targets[i].quantity

Distance(plan, total, shares) ==
  SumFunction([i \in DOMAIN plan.targets |->
    LET d == Gap(plan, total, shares, i) IN d * d])

\* The whole shares each target of an allocation got.
WholeShares(a) ==
  [i \in DOMAIN a.plan.targets |-> IF i \in DOMAIN a.shares
                                   THEN a.shares[i] \div Unit ELSE 0]

FairlyShared(a) ==
  LET all   == TargetTotal(a.plan)
      total == a.quantity \div Unit
      mine  == WholeShares(a)
      gap   == [i \in DOMAIN mine |-> Gap(a.plan, total, mine, i)]
  IN  /\ \A i \in DOMAIN mine : -all < gap[i] /\ gap[i] <= all
      /\ a.plan.rule = "PRO_RATA" =>
           /\ \A i \in DOMAIN mine : gap[i] < all
           /\ \A i, j \in DOMAIN mine :
                mine[i] > 0 /\ i # j =>
                  Distance(a.plan, total, mine) <=
                    Distance(a.plan, total, [mine EXCEPT ![i] = @ - 1, ![j] = @ + 1])

\* Whole shares are divided as nearly as they can be: no account is short of its
\* part by a share, or over it by more than one; in a pro-rata plan none is over
\* it by as much as one, and no share would bring the division nearer to the plan
\* with another account (allocate: floors, largest remainder, ties by place;
\* under ROTATION what is left goes by place, to an exact part as well).
SharesFair ==
  \A a \in Allocations : a.plan.fractional \/ FairlyShared(a)

\* The division keeps enough digits: in a plan for whole shares every target is a
\* multiple of some grain of which Unit are more than all the targets.
DigitsSuffice ==
  \A plan \in Plans :
    plan.fractional \/
      \E grain \in 1 .. TargetTotal(plan) :
        /\ TargetTotal(plan) < grain * Unit
        /\ \A i \in DOMAIN plan.targets : plan.targets[i].quantity % grain = 0

\* The odd cents one account takes are no more than rounding makes: half a step
\* of the average over all shares, half a cent per account and half a cent of
\* the sum (allocate; trade.py:234 sums the fills, not a rounded average).
OddCentsSmall ==
  \A a \in Allocations :
    LET bound == a.quantity * a.plan.quantum
                   + (Cardinality(DOMAIN a.cents) + 1) * Unit * PerCent
    IN  /\ 2 * a.odd * Unit * PerCent <= bound
        /\ -2 * a.odd * Unit * PerCent <= bound

\* From affirmation on, nothing the utility said of the order was bad, and it
\* said both that it matched and that it is affirmed (record_match, affirm).
NeverDoubted ==
  \A o \in OrderIds :
    orders[o].state \in After("AFFIRMED") => told[o] = {"MATCHED", "AFFIRMED"}
=============================================================================
