-------------------------- MODULE SettlementProofs --------------------------
(***************************************************************************)
(* Proofs about Settlement, for any orders, fills, plans, facts, parties   *)
(* and accrual: an order on its way was allocated once, an affirmed one    *)
(* was never doubted, an obligation settles what was filled with the firm  *)
(* on the sealed side, and an answer is recorded for the obligation it     *)
(* answers.  Quantities and money are opaque sums there: what matters is   *)
(* which sum a record was made from.  Then about the arithmetic: the odd   *)
(* cents are few, nothing is lost to the cent and to the share, and whole  *)
(* shares are divided as nearly as they can be.                            *)
(***************************************************************************)
EXTENDS Settlement, OrderBookProofs, Sums

\* What the callers' records are indexed by.
Keyed ==
  /\ DOMAIN fills = OrderIds
  /\ DOMAIN captures = OrderIds
  /\ DOMAIN allocations = OrderIds
  /\ DOMAIN outcomes = OrderIds
  /\ DOMAIN told = OrderIds

\* The register holds of an order what its fills add up to, and nothing of an
\* order without fills.
FillsHeld(o) ==
  /\ fills[o] \in Seq([quantity : Nat \ {0}, price : Nat \ {0}, day : Nat])
  /\ orders[o].state # Unseen =>
       /\ fills[o] # <<>>
       /\ orders[o].quantity = Quantity(fills[o])
       /\ orders[o].executed = Quantity(fills[o])
       /\ orders[o].consideration = Money(fills[o])

\* A capture is of all that was executed, and the order is no longer EXECUTED.
CaptureHeld(o) ==
  captures[o] # NoCapture =>
    /\ orders[o].state \notin {Unseen, "EXECUTED"}
    /\ captures[o].quantity = Quantity(fills[o])

\* No allocation is made before the first that moves the order.
AllocationHeld(o) ==
  /\ orders[o].state \in {"EXECUTED", "TRADE_CAPTURED"} => allocations[o] = <<>>
  /\ orders[o].state \in After("ALLOCATED") =>
       /\ Len(allocations[o]) = 1
       /\ LET a == allocations[o][1]
          IN  /\ a.quantity =
                   SumFunction([i \in DOMAIN a.trades |-> Quantity(fills[a.trades[i]])])
              /\ orders[o].terms.plan \in {NoPlan, a.plan}

\* What was said of an order, at each stage it may have reached.
ToldHeld(o) ==
  /\ outcomes[o] \in BOOLEAN \cup {NoOutcome}
  /\ told[o] \subseteq {"MATCHED", "UNMATCHED", "AFFIRMED", "UNAFFIRMED"}
  /\ orders[o].state \in {"EXECUTED", "TRADE_CAPTURED", "ALLOCATED"} => told[o] = {}
  /\ orders[o].state = "MATCHED" => told[o] = {"MATCHED"}
  /\ orders[o].state \in After("AFFIRMED") => told[o] = {"MATCHED", "AFFIRMED"}

\* What an obligation says of the fills, the parties and the sealed side.
FormedHeld(o) ==
  o \in DOMAIN formed =>
    LET e     == formed[o]
        sells == orders[o].terms.side = "SELL"
    IN  /\ e.obligation \in Obligations
        /\ e.legs \in Legs
        /\ e.quantity = Quantity(fills[o])
        /\ e.cash = Total(Quantity(fills[o]), Money(fills[o]), e.legs.day)
        /\ fills[o] # <<>> /\ e.legs.day = TradeDay(o) + Cycle
        /\ e.legs.deliverer # e.legs.receiver
        /\ e.legs.deliverer = e.legs.payee
        /\ e.legs.receiver = e.legs.payer
        /\ Firm = IF sells THEN e.legs.deliverer ELSE e.legs.receiver

\* The states before an obligation is formed that lead to one, and those an
\* answer leads to.
Early  == {"EXECUTED", "TRADE_CAPTURED", "ALLOCATED", "MATCHED", "AFFIRMED"}
Closed == {"HANDED_TO_ATREIDES", "REFUSED_BY_ATREIDES"}

\* What an answer says of the order it was recorded for.
AnswerFits(o) ==
  /\ answered[o].acceptance.envelope = formed[answered[o].of]
  /\ (answered[o].acceptance.disposition = "PASS") = (orders[o].state = "HANDED_TO_ATREIDES")

\* An obligation is formed once for an order, and answered once, for whichever
\* order: it is not the one whose register is at hand any more.
AnswersHeld ==
  /\ DOMAIN formed \subseteq OrderIds /\ DOMAIN answered \subseteq OrderIds
  /\ \A o \in DOMAIN formed : orders[o].state \notin Early \cup {Unseen}
  /\ \A o \in OrderIds :
       /\ orders[o].state \in Closed \cup {"SETTLEMENT_CANDIDATE_READY"} => o \in DOMAIN formed
       /\ orders[o].state \in Closed => o \in DOMAIN answered /\ AnswerFits(o)
  /\ \A o \in DOMAIN answered :
       answered[o].of \in DOMAIN formed /\ holder # Formed(answered[o].of)
  /\ \A o, p \in DOMAIN answered : o # p => answered[o].of # answered[p].of

\* A record that holds the latest register is one that was made.
HolderHeld ==
  \A o \in OrderIds :
    /\ holder = Outcome(o) => outcomes[o] \in BOOLEAN /\ orders[o].state # Unseen
    /\ holder = Formed(o) => orders[o].state = "SETTLEMENT_CANDIDATE_READY"

Held(o) ==
  FillsHeld(o) /\ CaptureHeld(o) /\ AllocationHeld(o) /\ ToldHeld(o)
    /\ FormedHeld(o)

IInv ==
  /\ WellFormed(orders) /\ Keyed /\ HolderHeld /\ AnswersHeld
  /\ \A o \in OrderIds : Held(o)

-----------------------------------------------------------------------------
(* Facts about states, days and moves *)

\* How far along the path each checkpoint leaves.
LEMMA AfterStates ==
  /\ After("AFFIRMED") =
       {"AFFIRMED", "CLEARING_TRANSFORMED", "OBLIGATION_READY",
        "SETTLEMENT_CANDIDATE_READY", "HANDED_TO_ATREIDES", "REFUSED_BY_ATREIDES"}
  /\ After("ALLOCATED") = {"ALLOCATED", "MATCHED"} \cup After("AFFIRMED")
<1>1. DOMAIN SettlementPath = 1 .. 8
  BY DEF SettlementPath
<1>2. /\ SettlementPath[1] = "EXECUTED" /\ SettlementPath[2] = "TRADE_CAPTURED"
      /\ SettlementPath[3] = "ALLOCATED" /\ SettlementPath[4] = "MATCHED"
      /\ SettlementPath[5] = "AFFIRMED"
      /\ SettlementPath[6] = "CLEARING_TRANSFORMED"
      /\ SettlementPath[7] = "OBLIGATION_READY"
      /\ SettlementPath[8] = "SETTLEMENT_CANDIDATE_READY"
  BY DEF SettlementPath
<1>3. {i \in 1 .. 8 : \E k \in 1 .. 8 : SettlementPath[k] = "AFFIRMED" /\ i >= k} = 5 .. 8
  BY <1>2
<1>4. {i \in 1 .. 8 : \E k \in 1 .. 8 : SettlementPath[k] = "ALLOCATED" /\ i >= k} = 3 .. 8
  BY <1>2
<1>5. {SettlementPath[i] : i \in 5 .. 8} =
        {"AFFIRMED", "CLEARING_TRANSFORMED", "OBLIGATION_READY",
         "SETTLEMENT_CANDIDATE_READY"}
  BY <1>2
<1>6. {SettlementPath[i] : i \in 3 .. 8} =
        {"ALLOCATED", "MATCHED", "AFFIRMED", "CLEARING_TRANSFORMED",
         "OBLIGATION_READY", "SETTLEMENT_CANDIDATE_READY"}
  BY <1>2
<1>7. After("AFFIRMED") = {SettlementPath[i] : i \in 5 .. 8}
                            \cup {"HANDED_TO_ATREIDES", "REFUSED_BY_ATREIDES"}
  BY <1>1, <1>3 DEF After
<1>8. After("ALLOCATED") = {SettlementPath[i] : i \in 3 .. 8}
                             \cup {"HANDED_TO_ATREIDES", "REFUSED_BY_ATREIDES"}
  BY <1>1, <1>4 DEF After
<1> QED BY <1>5, <1>6, <1>7, <1>8

\* The one state each checkpoint is reached from.
LEMMA ReachedFrom ==
  ASSUME NEW state
  PROVE  /\ Reached(state, "TRADE_CAPTURED") \in {"TRADE_CAPTURED", "NOT_REACHED"}
         /\ Reached(state, "ALLOCATED") =
              IF state = "TRADE_CAPTURED" THEN "ALLOCATED" ELSE "NOT_REACHED"
         /\ Reached(state, "MATCHED") =
              IF state = "ALLOCATED" THEN "MATCHED" ELSE "NOT_REACHED"
         /\ Reached(state, "AFFIRMED") =
              IF state = "MATCHED" THEN "AFFIRMED" ELSE "NOT_REACHED"
         /\ Reached(state, "EXCEPTION_OPEN") \in {"EXCEPTION_OPEN", "NOT_REACHED"}
         /\ Reached(state, "CANCELLED") \in {"CANCELLED", "NOT_REACHED"}
         /\ Reached(state, "NOT_REACHED") = "NOT_REACHED"
         /\ Reached(state, "HANDED_TO_ATREIDES") =
              IF state = "SETTLEMENT_CANDIDATE_READY" THEN "HANDED_TO_ATREIDES"
              ELSE "NOT_REACHED"
         /\ Reached(state, "REFUSED_BY_ATREIDES") =
              IF state = "SETTLEMENT_CANDIDATE_READY" THEN "REFUSED_BY_ATREIDES"
              ELSE "NOT_REACHED"
         /\ Reached("AFFIRMED", "CLEARING_TRANSFORMED") = "CLEARING_TRANSFORMED"
         /\ Reached("CLEARING_TRANSFORMED", "OBLIGATION_READY") = "OBLIGATION_READY"
         /\ Reached("OBLIGATION_READY", "SETTLEMENT_CANDIDATE_READY") =
              "SETTLEMENT_CANDIDATE_READY"
BY DEF Reached, Allowed, WorkingMoves, PostTradeMoves

\* The moves the post-trade calls request state no execution.
LEMMA TradeMoves ==
  {"TRADE_CAPTURED", "ALLOCATED", "MATCHED", "AFFIRMED", "EXCEPTION_OPEN",
   "CANCELLED", "NOT_REACHED", "HANDED_TO_ATREIDES", "REFUSED_BY_ATREIDES",
   "CLEARING_TRANSFORMED", "OBLIGATION_READY", "SETTLEMENT_CANDIDATE_READY"}
    \subseteq Moves
BY DEF Moves, LifecycleState, Executions

\* Among numbered days there is a last one: the shortest prefix without one
\* would be one day longer than a prefix with one.
LEMMA LastOf ==
  ASSUME NEW len \in Nat \ {0}, NEW d \in [1 .. len -> Nat]
  PROVE  \E i \in 1 .. len : \A j \in 1 .. len : d[j] <= d[i]
<1> DEFINE Latest(n) == \E i \in 1 .. n : \A j \in 1 .. n : d[j] <= d[i]
           Without == {n \in 1 .. len : ~Latest(n)}
<1>1. SUFFICES ASSUME Without # {} PROVE FALSE
  <2>1. len \in 1 .. len /\ (Latest(len) => \E i \in 1 .. len : \A j \in 1 .. len : d[j] <= d[i])
    OBVIOUS
  <2> QED BY <2>1
<1>2. PICK n \in Without : \A m \in Without : ~(<<m, n>> \in OpToRel(<, Nat))
  <2>1. Without \subseteq Nat
    OBVIOUS
  <2> HIDE DEF Without
  <2> QED BY <2>1, <1>1, NatLessThanWellFounded, WFMin
<1>3. ASSUME NEW m \in Without PROVE ~(m < n)
  <2>1. m \in Nat /\ n \in Nat
    OBVIOUS
  <2> HIDE DEF Without
  <2>2. <<m, n>> \notin {ss \in Nat \X Nat : ss[1] < ss[2]}
    BY <1>2 DEF OpToRel
  <2> QED BY <2>1, <2>2
<1>4. n \in 1 .. len /\ ~Latest(n)
  OBVIOUS
<1>5. n # 1
  BY <1>4
<1>6. n - 1 \in 1 .. len /\ n - 1 < n
  BY <1>4, <1>5
<1>7. Latest(n - 1)
  <2>1. n - 1 \notin Without
    BY <1>3, <1>6
  <2> QED BY <2>1, <1>6
<1>8. PICK i \in 1 .. n - 1 : \A j \in 1 .. n - 1 : d[j] <= d[i]
  BY <1>7
<1>9. CASE d[n] <= d[i]
  <2>1. i \in 1 .. n /\ \A j \in 1 .. n : d[j] <= d[i]
    BY <1>4, <1>8, <1>9
  <2> QED BY <2>1, <1>4
<1>10. CASE ~(d[n] <= d[i])
  <2>1. ASSUME NEW j \in 1 .. n PROVE d[j] <= d[n]
    <3>1. d[j] \in Nat /\ d[n] \in Nat /\ d[i] \in Nat
      BY <1>4, <1>8
    <3>2. j = n \/ d[j] <= d[i]
      BY <1>4, <1>8
    <3> QED BY <3>1, <3>2, <1>10
  <2>2. n \in 1 .. n
    BY <1>4
  <2> QED BY <2>1, <2>2, <1>4
<1> QED BY <1>9, <1>10

\* Among the fills of an order there is a last day (max(fill_times)).
LEMMA LastDay ==
  ASSUME NEW Fill, \A f \in Fill : f.day \in Nat, NEW s \in Seq(Fill), s # <<>>
  PROVE  \E i \in DOMAIN s : \A j \in DOMAIN s : s[j].day <= s[i].day
<1>1. DOMAIN s = 1 .. Len(s) /\ Len(s) \in Nat \ {0}
  OBVIOUS
<1>2. [i \in 1 .. Len(s) |-> s[i].day] \in [1 .. Len(s) -> Nat]
  OBVIOUS
<1> QED BY <1>1, <1>2, LastOf

\* A move of a known order changes its state and nothing else of the register.
LEMMA MoveToMoves ==
  ASSUME WellFormed(orders), NEW o \in OrderIds, NEW target \in Moves,
         NEW record, orders[o].state # Unseen, MoveTo(o, target, record)
  PROVE  /\ WellFormed(orders') /\ holder' = record
         /\ orders'[o].state = Reached(orders[o].state, target)
         /\ orders'[o].state # Unseen
         /\ orders'[o].terms = orders[o].terms
         /\ orders'[o].quantity = orders[o].quantity
         /\ orders'[o].executed = orders[o].executed
         /\ orders'[o].consideration = orders[o].consideration
         /\ \A x \in OrderIds \ {o} : orders'[x] = orders[x]
<1>1. orders' = Moved(orders, o, target) /\ holder' = record
  BY DEF MoveTo
<1>2. orders \in Books /\ target \in LifecycleState
  BY DEF WellFormed, Moves
<1>3. WellFormed(orders')
  BY <1>1, MovedWellFormed
<1> QED BY <1>1, <1>2, <1>3, MovedFields, ReachedTyped

\* Three moves take an affirmed order to its settlement candidate.
LEMMA ReadiedReady ==
  ASSUME WellFormed(orders), NEW o \in OrderIds, orders[o].state = "AFFIRMED",
         orders' = Readied(orders, o)
  PROVE  /\ WellFormed(orders')
         /\ orders'[o].state = "SETTLEMENT_CANDIDATE_READY"
         /\ orders'[o].terms = orders[o].terms
         /\ orders'[o].quantity = orders[o].quantity
         /\ orders'[o].executed = orders[o].executed
         /\ orders'[o].consideration = orders[o].consideration
         /\ \A x \in OrderIds \ {o} : orders'[x] = orders[x]
<1> DEFINE first  == Moved(orders, o, "CLEARING_TRANSFORMED")
           second == Moved(first, o, "OBLIGATION_READY")
           third  == Moved(second, o, "SETTLEMENT_CANDIDATE_READY")
<1>1. /\ WellFormed(first) /\ first[o].state = "CLEARING_TRANSFORMED"
      /\ first[o].terms = orders[o].terms
      /\ first[o].quantity = orders[o].quantity
      /\ first[o].executed = orders[o].executed
      /\ first[o].consideration = orders[o].consideration
      /\ \A x \in OrderIds \ {o} : first[x] = orders[x]
  BY TradeMoves, MovedFields, MovedWellFormed, ReachedFrom DEF WellFormed, Unseen
<1> HIDE DEF first
<1>2. /\ WellFormed(second) /\ second[o].state = "OBLIGATION_READY"
      /\ second[o].terms = first[o].terms
      /\ second[o].quantity = first[o].quantity
      /\ second[o].executed = first[o].executed
      /\ second[o].consideration = first[o].consideration
      /\ \A x \in OrderIds \ {o} : second[x] = first[x]
  BY <1>1, TradeMoves, MovedFields, MovedWellFormed, ReachedFrom
     DEF WellFormed, Unseen
<1> HIDE DEF second
<1>3. /\ WellFormed(third) /\ third[o].state = "SETTLEMENT_CANDIDATE_READY"
      /\ third[o].terms = second[o].terms
      /\ third[o].quantity = second[o].quantity
      /\ third[o].executed = second[o].executed
      /\ third[o].consideration = second[o].consideration
      /\ \A x \in OrderIds \ {o} : third[x] = second[x]
  BY <1>2, TradeMoves, MovedFields, MovedWellFormed, ReachedFrom
     DEF WellFormed, Unseen
<1>4. orders' = third
  BY DEF Readied, first, second
<1> HIDE DEF third
<1> QED BY <1>1, <1>2, <1>3, <1>4

-----------------------------------------------------------------------------
(* The invariant *)

\* An order no call touched is as it was.
LEMMA Untouched ==
  ASSUME NEW x, Held(x), UNCHANGED fills,
         orders'[x] = orders[x], captures'[x] = captures[x],
         allocations'[x] = allocations[x], outcomes'[x] = outcomes[x],
         told'[x] = told[x], x \in DOMAIN formed' <=> x \in DOMAIN formed,
         x \in DOMAIN formed => formed'[x] = formed[x]
  PROVE  Held(x)'
BY DEF Held, FillsHeld, CaptureHeld, AllocationHeld, ToldHeld, FormedHeld, TradeDay

\* What the other orders' records keep when one order is dealt with.
Elsewhere(o) ==
  /\ UNCHANGED fills
  /\ \A x \in OrderIds \ {o} :
       /\ orders'[x] = orders[x] /\ captures'[x] = captures[x]
       /\ allocations'[x] = allocations[x] /\ outcomes'[x] = outcomes[x]
       /\ told'[x] = told[x]
       /\ x \in DOMAIN formed' <=> x \in DOMAIN formed
       /\ x \in DOMAIN formed => formed'[x] = formed[x]

\* It is enough to look at the order a step deals with, and at the holder.
LEMMA OneOrder ==
  ASSUME IInv, NEW o \in OrderIds, Elsewhere(o), WellFormed(orders'), Keyed',
         HolderHeld', AnswersHeld', Held(o)'
  PROVE  IInv'
<1>1. \A x \in OrderIds \ {o} : Held(x)'
  BY Untouched DEF IInv, Elsewhere
<1> QED BY <1>1 DEF IInv

\* No two kinds of record are the same holder.
LEMMA HoldersDiffer ==
  \A x, y : /\ Outcome(x) # NoHolder /\ Formed(x) # NoHolder
            /\ Outcome(x) # Formed(y)
            /\ Outcome(x) = Outcome(y) => x = y
            /\ Formed(x) = Formed(y) => x = y
BY DEF Outcome, Formed, NoHolder

\* The first state: filled orders as the register replays them, no records.
LEMMA InvInit == Init => IInv
<1> SUFFICES ASSUME Init PROVE IInv
  OBVIOUS
<1>1. PICK start \in Starts :
        /\ fills = [o \in OrderIds |-> start[o].fills]
        /\ orders = [o \in OrderIds |-> IF start[o].fills = <<>> THEN EmptyBook[o]
                                        ELSE Executing(start[o])]
  BY DEF Init, TradeInit
<1>2. ASSUME NEW o \in OrderIds
      PROVE  /\ orders[o] \in OrderSnapshot
             /\ orders[o].state \in {Unseen, "EXECUTED"}
             /\ orders[o].state = Unseen => orders[o] = EmptyBook[o]
             /\ orders[o].state # Unseen => /\ orders[o].quantity > 0
                                            /\ orders[o] = Executing(start[o])
                                            /\ fills[o] # <<>>
  <2>1. CASE start[o].fills = <<>>
    BY <1>1, <2>1 DEF EmptyBook, OrderSnapshot, Unseen
  <2>2. CASE start[o].fills # <<>>
    <3>1. orders[o] = Executing(start[o]) /\ fills[o] = start[o].fills
      BY <1>1, <2>2
    <3>2. orders[o] \in OrderSnapshot /\ Quantity(start[o].fills) > 0
      BY <3>1, <2>2, StartsAssumption
    <3>3. orders[o].state = "EXECUTED" /\ orders[o].quantity = Quantity(start[o].fills)
      BY <3>1 DEF Executing
    <3> QED BY <3>1, <3>2, <3>3, <2>2 DEF Unseen
  <2> QED BY <2>1, <2>2
<1>3. WellFormed(orders)
  BY <1>1, <1>2 DEF WellFormed, Books
<1>4. Keyed
  BY <1>1 DEF Init, TradeInit, Keyed
<1>5. HolderHeld
  BY HoldersDiffer DEF Init, TradeInit, HolderHeld
<1>6. ASSUME NEW o \in OrderIds PROVE Held(o)
  <2>1. FillsHeld(o)
    BY <1>1, <1>2, StartsAssumption DEF FillsHeld, Executing
  <2>2. CaptureHeld(o) /\ FormedHeld(o)
    BY DEF Init, TradeInit, CaptureHeld, FormedHeld
  <2>3. AllocationHeld(o) /\ ToldHeld(o)
    BY <1>2, AfterStates
       DEF Init, TradeInit, AllocationHeld, ToldHeld, Unseen
  <2> QED BY <2>1, <2>2, <2>3 DEF Held
<1>7. AnswersHeld
  <2>1. DOMAIN formed = {} /\ DOMAIN answered = {}
    BY DEF Init
  <2> QED BY <1>2, <2>1 DEF AnswersHeld, Closed, Unseen
<1> QED BY <1>3, <1>4, <1>5, <1>6, <1>7 DEF IInv

-----------------------------------------------------------------------------
(* One lemma per call *)

\* What the invariant says of one order, spelled out.
LEMMA HeldOrder ==
  ASSUME IInv, NEW o \in OrderIds
  PROVE  /\ FillsHeld(o) /\ CaptureHeld(o) /\ AllocationHeld(o)
         /\ ToldHeld(o) /\ FormedHeld(o)
         /\ WellFormed(orders) /\ Keyed /\ AnswersHeld
BY DEF IInv, Held

\* What was answered stays so when an order moves to no state an answer leads to
\* or asks for.
LEMMA AnswersStay ==
  ASSUME IInv, NEW o \in OrderIds, UNCHANGED <<formed, answered>>,
         \A x \in OrderIds \ {o} : orders'[x] = orders[x],
         orders'[o].state \notin Closed \cup {"SETTLEMENT_CANDIDATE_READY", Unseen},
         orders'[o].state \in Early => orders[o].state \in Early,
         \A x : holder' # Formed(x)
  PROVE  AnswersHeld'
<1>1. AnswersHeld
  BY DEF IInv
<1>2. \A x \in OrderIds \ {o} : AnswerFits(x) => AnswerFits(x)'
  BY DEF AnswerFits
<1> QED BY <1>1, <1>2 DEF AnswersHeld

\* What an obligation says stays true of an order whose terms and fills stay.
LEMMA FormedStays ==
  ASSUME NEW o, FormedHeld(o), UNCHANGED <<fills, formed>>,
         orders'[o].terms = orders[o].terms
  PROVE  FormedHeld(o)'
BY DEF FormedHeld, TradeDay

\* What an allocation says stays true of an order whose terms stay, when it is
\* not moved on to ALLOCATED.
LEMMA AllocationStays ==
  ASSUME NEW o, AllocationHeld(o), UNCHANGED fills,
         allocations'[o] = allocations[o], orders'[o].terms = orders[o].terms,
         orders'[o].state \notin {"EXECUTED", "TRADE_CAPTURED"},
         orders'[o].state \in After("ALLOCATED") => orders[o].state \in After("ALLOCATED")
  PROVE  AllocationHeld(o)'
BY DEF AllocationHeld

\* The register holds the fills whatever state an order is moved to.
LEMMA FillsStay ==
  ASSUME NEW o, FillsHeld(o), UNCHANGED fills, orders[o].state # Unseen,
         orders'[o].quantity = orders[o].quantity,
         orders'[o].executed = orders[o].executed,
         orders'[o].consideration = orders[o].consideration
  PROVE  FillsHeld(o)'
BY DEF FillsHeld

\* capture leaves a record of all that was executed.
LEMMA InvCapture ==
  ASSUME IInv, NEW o \in OrderIds, Capture(o), UNCHANGED <<formed, answered>>
  PROVE  IInv'
<1>1. /\ orders[o].state = "EXECUTED" /\ orders[o].state # Unseen
      /\ captures'[o].quantity = Quantity(fills[o])
      /\ \A x \in OrderIds \ {o} : captures'[x] = captures[x]
      /\ DOMAIN captures' = OrderIds
      /\ MoveTo(o, "TRADE_CAPTURED", NoHolder)
      /\ UNCHANGED <<fills, allocations, outcomes, told>>
  BY HeldOrder DEF Capture, FillsHeld, Keyed, Unseen
<1>2. /\ WellFormed(orders') /\ holder' = NoHolder
      /\ orders'[o].state \in {"TRADE_CAPTURED", "NOT_REACHED"}
      /\ orders'[o].terms = orders[o].terms
      /\ orders'[o].quantity = orders[o].quantity
      /\ orders'[o].executed = orders[o].executed
      /\ orders'[o].consideration = orders[o].consideration
      /\ \A x \in OrderIds \ {o} : orders'[x] = orders[x]
  BY <1>1, HeldOrder, TradeMoves, MoveToMoves, ReachedFrom
<1>3. Elsewhere(o)
  BY <1>1, <1>2 DEF Elsewhere
<1>4. Keyed' /\ HolderHeld'
  BY <1>1, <1>2, HeldOrder, HoldersDiffer DEF Keyed, HolderHeld
<1>5. FillsHeld(o)' /\ FormedHeld(o)'
  BY <1>1, <1>2, HeldOrder, FillsStay, FormedStays
<1>6. CaptureHeld(o)'
  BY <1>1, <1>2 DEF CaptureHeld, Unseen
<1>7. AllocationHeld(o)' /\ ToldHeld(o)'
  BY <1>1, <1>2, HeldOrder, AfterStates DEF AllocationHeld, ToldHeld
<1>8. AnswersHeld'
  BY <1>1, <1>2, HoldersDiffer, AnswersStay DEF Early, Closed, Unseen
<1> QED BY <1>2, <1>3, <1>4, <1>5, <1>6, <1>7, <1>8, OneOrder DEF Held

\* What the captures an allocation names add up to is what their orders filled.
LEMMA BatchFilled ==
  ASSUME IInv, NEW batch \in Batches
  PROVE  /\ \A i \in DOMAIN batch : /\ batch[i] \in OrderIds
                                   /\ captures[batch[i]] # NoCapture
         /\ 1 \in DOMAIN batch /\ IsFiniteSet(DOMAIN batch)
         /\ BatchQuantity(batch) =
              SumFunction([i \in DOMAIN batch |-> Quantity(fills[batch[i]])])
<1>1. PICK n \in 1 .. MaxCaptures : batch \in [1 .. n -> {o \in OrderIds : captures[o] # NoCapture}]
  BY DEF Batches
<1>2. /\ \A i \in DOMAIN batch : batch[i] \in OrderIds /\ captures[batch[i]] # NoCapture
      /\ 1 \in DOMAIN batch
  BY <1>1, MaxAllocationsAssumption
<1>3. IsFiniteSet(DOMAIN batch)
  BY <1>1, FS_Interval, MaxAllocationsAssumption
<1>4. \A i \in DOMAIN batch : captures[batch[i]].quantity = Quantity(fills[batch[i]])
  BY <1>2, HeldOrder DEF CaptureHeld
<1>5. [i \in DOMAIN batch |-> captures[batch[i]].quantity] =
        [i \in DOMAIN batch |-> Quantity(fills[batch[i]])]
  BY <1>4
<1> QED BY <1>2, <1>3, <1>5 DEF BatchQuantity

\* allocate adds a record whatever the register says; only the first leaves
\* the order on its way.
LEMMA InvAllocate ==
  ASSUME IInv, NEW batch \in Batches, NEW plan \in Plans, Allocate(batch, plan),
         UNCHANGED <<formed, answered>>
  PROVE  IInv'
<1> DEFINE o    == batch[1]
           made == Allocated(batch, plan, BatchQuantity(batch), BatchMoney(batch))
<1>0. /\ o \in OrderIds /\ captures[o] # NoCapture
      /\ BatchQuantity(batch) =
           SumFunction([i \in DOMAIN batch |-> Quantity(fills[batch[i]])])
  BY BatchFilled
<1>1. /\ orders[o].terms.plan \in {NoPlan, plan}
      /\ allocations'[o] = Append(allocations[o], made)
      /\ \A x \in OrderIds \ {o} : allocations'[x] = allocations[x]
      /\ DOMAIN allocations' = OrderIds
      /\ MoveTo(o, "ALLOCATED", NoHolder)
      /\ UNCHANGED <<fills, captures, outcomes, told>>
  BY <1>0, HeldOrder DEF Allocate, Planned, Keyed
<1>2. orders[o].state \notin {Unseen, "EXECUTED"}
  BY <1>0, HeldOrder DEF CaptureHeld
<1>3. /\ made.plan = plan
      /\ made.quantity =
           SumFunction([i \in DOMAIN made.trades |-> Quantity(fills[made.trades[i]])])
  <2>1. made.trades = batch /\ made.plan = plan /\ made.quantity = BatchQuantity(batch)
    BY DEF Allocated
  <2> HIDE DEF made
  <2> QED BY <1>0, <2>1
<1> HIDE DEF made, o
<1>4. /\ WellFormed(orders') /\ holder' = NoHolder
      /\ orders'[o].state = IF orders[o].state = "TRADE_CAPTURED" THEN "ALLOCATED"
                            ELSE "NOT_REACHED"
      /\ orders'[o].terms = orders[o].terms
      /\ orders'[o].quantity = orders[o].quantity
      /\ orders'[o].executed = orders[o].executed
      /\ orders'[o].consideration = orders[o].consideration
      /\ \A x \in OrderIds \ {o} : orders'[x] = orders[x]
  BY <1>0, <1>1, <1>2, HeldOrder, TradeMoves, MoveToMoves, ReachedFrom
<1>5. Elsewhere(o)
  BY <1>1, <1>4 DEF Elsewhere
<1>6. Keyed' /\ HolderHeld'
  BY <1>0, <1>1, <1>4, HeldOrder, HoldersDiffer DEF Keyed, HolderHeld
<1>7. FillsHeld(o)' /\ FormedHeld(o)'
  BY <1>0, <1>1, <1>2, <1>4, HeldOrder, FillsStay, FormedStays
<1>8. CaptureHeld(o)'
  BY <1>0, <1>1, <1>2, <1>4, HeldOrder DEF CaptureHeld, Unseen
<1>9. AllocationHeld(o)'
  <2>1. CASE orders[o].state = "TRADE_CAPTURED"
    <3>1. allocations'[o] = Append(<<>>, made)
      BY <1>0, <1>1, <2>1, HeldOrder DEF AllocationHeld
    <3>2. Len(allocations'[o]) = 1 /\ allocations'[o][1] = made
      BY <3>1
    <3> QED BY <1>1, <1>3, <1>4, <2>1, <3>2 DEF AllocationHeld
  <2>2. CASE orders[o].state # "TRADE_CAPTURED"
    BY <1>4, <2>2, AfterStates DEF AllocationHeld
  <2> QED BY <2>1, <2>2
<1>10. ToldHeld(o)'
  BY <1>0, <1>1, <1>4, HeldOrder, AfterStates DEF ToldHeld
<1>11. AnswersHeld'
  <2>1. orders'[o].state \in Early => orders[o].state \in Early
    BY <1>4 DEF Early
  <2>2. orders'[o].state \notin Closed \cup {"SETTLEMENT_CANDIDATE_READY", Unseen}
    BY <1>4 DEF Closed, Unseen
  <2> QED BY <1>0, <1>4, <2>1, <2>2, HoldersDiffer, AnswersStay
<1> QED BY <1>0, <1>4, <1>5, <1>6, <1>7, <1>8, <1>9, <1>10, <1>11, OneOrder DEF Held

\* cancel_order records a state nothing was promised about.
LEMMA InvCancelTrade ==
  ASSUME IInv, NEW o \in OrderIds, CancelTrade(o), UNCHANGED <<formed, answered>>
  PROVE  IInv'
<1>1. /\ orders[o].state # Unseen /\ MoveTo(o, "CANCELLED", NoHolder)
      /\ UNCHANGED <<fills, captures, allocations, outcomes, told>>
  BY DEF CancelTrade, tradeVars
<1>2. /\ WellFormed(orders') /\ holder' = NoHolder
      /\ orders'[o].state \in {"CANCELLED", "NOT_REACHED"}
      /\ orders'[o].terms = orders[o].terms
      /\ orders'[o].quantity = orders[o].quantity
      /\ orders'[o].executed = orders[o].executed
      /\ orders'[o].consideration = orders[o].consideration
      /\ \A x \in OrderIds \ {o} : orders'[x] = orders[x]
  BY <1>1, HeldOrder, TradeMoves, MoveToMoves, ReachedFrom
<1>3. Elsewhere(o)
  BY <1>1, <1>2 DEF Elsewhere
<1>4. Keyed' /\ HolderHeld'
  BY <1>1, <1>2, HeldOrder, HoldersDiffer DEF Keyed, HolderHeld
<1>5. FillsHeld(o)' /\ FormedHeld(o)'
  BY <1>1, <1>2, HeldOrder, FillsStay, FormedStays
<1>6. CaptureHeld(o)'
  BY <1>1, <1>2, HeldOrder DEF CaptureHeld, Unseen
<1>7. AllocationHeld(o)' /\ ToldHeld(o)'
  BY <1>1, <1>2, HeldOrder, AfterStates DEF AllocationHeld, ToldHeld
<1>8. AnswersHeld'
  BY <1>2, HoldersDiffer, AnswersStay DEF Early, Closed, Unseen
<1> QED BY <1>2, <1>3, <1>4, <1>5, <1>6, <1>7, <1>8, OneOrder DEF Held

\* The fields of a fact.
LEMMA FactFields ==
  ASSUME NEW fact \in Facts
  PROVE  fact.matched \in BOOLEAN /\ fact.affirmed \in BOOLEAN
BY FactsAssumption

\* record_match: only an allocated order of which nothing was said is matched.
LEMMA InvRecordMatch ==
  ASSUME IInv, NEW o \in OrderIds, NEW fact \in Facts, RecordMatch(o, fact),
         UNCHANGED <<formed, answered>>
  PROVE  IInv'
<1> DEFINE target == IF fact.matched THEN "MATCHED" ELSE "EXCEPTION_OPEN"
           said   == IF fact.matched THEN "MATCHED" ELSE "UNMATCHED"
<1>1. /\ orders[o].state # Unseen /\ MoveTo(o, target, Outcome(o))
      /\ outcomes'[o] = ~fact.matched
      /\ told'[o] = IF orders'[o].state = "NOT_REACHED" THEN {}
                    ELSE told[o] \cup {said}
      /\ \A x \in OrderIds \ {o} : outcomes'[x] = outcomes[x] /\ told'[x] = told[x]
      /\ DOMAIN outcomes' = OrderIds /\ DOMAIN told' = OrderIds
      /\ UNCHANGED <<fills, captures, allocations>>
  BY HeldOrder DEF RecordMatch, Conclude, Keyed
<1>2. target \in Moves /\ fact.matched \in BOOLEAN
  BY FactFields, TradeMoves
<1>3. /\ WellFormed(orders') /\ holder' = Outcome(o)
      /\ orders'[o].state = Reached(orders[o].state, target)
      /\ orders'[o].state # Unseen
      /\ orders'[o].terms = orders[o].terms
      /\ orders'[o].quantity = orders[o].quantity
      /\ orders'[o].executed = orders[o].executed
      /\ orders'[o].consideration = orders[o].consideration
      /\ \A x \in OrderIds \ {o} : orders'[x] = orders[x]
  BY <1>1, <1>2, HeldOrder, MoveToMoves
<1>4. \/ orders'[o].state \in {"EXCEPTION_OPEN", "NOT_REACHED"}
      \/ orders[o].state = "ALLOCATED" /\ orders'[o].state = "MATCHED" /\ fact.matched
  BY <1>2, <1>3, ReachedFrom
<1>5. Elsewhere(o)
  BY <1>1, <1>3 DEF Elsewhere
<1>6. Keyed' /\ HolderHeld'
  <2>1. Keyed'
    BY <1>1, HeldOrder DEF Keyed
  <2>2. outcomes'[o] \in BOOLEAN /\ orders'[o].state # Unseen
    BY <1>1, <1>3
  <2>3. ASSUME NEW x \in OrderIds \ {o} PROVE holder' # Outcome(x)
    BY <1>3, HoldersDiffer
  <2>4. \A x \in OrderIds : holder' # Formed(x)
    BY <1>3, HoldersDiffer
  <2>5. HolderHeld'
    BY <2>2, <2>3, <2>4 DEF HolderHeld
  <2> QED BY <2>1, <2>5
<1>7. FillsHeld(o)' /\ FormedHeld(o)'
  BY <1>1, <1>3, HeldOrder, FillsStay, FormedStays
<1>8. CaptureHeld(o)'
  BY <1>1, <1>4, HeldOrder DEF CaptureHeld, Unseen
<1>9. AllocationHeld(o)'
  BY <1>1, <1>3, <1>4, HeldOrder, AfterStates, AllocationStays
<1>10. ToldHeld(o)'
  <2>1. told'[o] \subseteq {"MATCHED", "UNMATCHED", "AFFIRMED", "UNAFFIRMED"}
    BY <1>1, HeldOrder DEF ToldHeld
  <2>2. orders'[o].state = "MATCHED" => told'[o] = {"MATCHED"}
    BY <1>1, <1>4, HeldOrder DEF ToldHeld
  <2> QED BY <1>1, <1>2, <1>4, <2>1, <2>2, AfterStates DEF ToldHeld
<1>11. AnswersHeld'
  <2>1. orders'[o].state \in Early => orders[o].state \in Early
    BY <1>4 DEF Early
  <2>2. orders'[o].state \notin Closed \cup {"SETTLEMENT_CANDIDATE_READY", Unseen}
    BY <1>4 DEF Closed, Unseen
  <2> QED BY <1>3, <2>1, <2>2, HoldersDiffer, AnswersStay
<1> QED BY <1>3, <1>5, <1>6, <1>7, <1>8, <1>9, <1>10, <1>11, OneOrder DEF Held

\* affirm: only a matched order is affirmed, by a fact that affirms it.
LEMMA InvAffirm ==
  ASSUME IInv, NEW o \in OrderIds, NEW p \in OrderIds, NEW fact \in Facts,
         Affirm(o, p, fact),
         UNCHANGED <<formed, answered>>
  PROVE  IInv'
<1> DEFINE good   == Affirmable(outcomes[p], fact)
           target == IF good THEN "AFFIRMED" ELSE "NOT_REACHED"
           said   == IF fact.affirmed THEN "AFFIRMED" ELSE "UNAFFIRMED"
<1>1. /\ holder = Outcome(p) /\ orders[o].state # Unseen
      /\ MoveTo(o, target, Outcome(o))
      /\ outcomes'[o] = outcomes[p]
      /\ told'[o] = IF orders'[o].state = "NOT_REACHED" THEN {}
                    ELSE told[o] \cup {said}
      /\ \A x \in OrderIds \ {o} : outcomes'[x] = outcomes[x] /\ told'[x] = told[x]
      /\ DOMAIN outcomes' = OrderIds /\ DOMAIN told' = OrderIds
      /\ UNCHANGED <<fills, captures, allocations>>
  BY HeldOrder DEF Affirm, Conclude, Keyed
<1>2. orders[o].state # Unseen /\ outcomes'[o] \in BOOLEAN
  BY <1>1 DEF IInv, HolderHeld
<1>3. target \in Moves /\ (good => said = "AFFIRMED")
  BY TradeMoves DEF Affirmable
<1>4. /\ WellFormed(orders') /\ holder' = Outcome(o)
      /\ orders'[o].state = Reached(orders[o].state, target)
      /\ orders'[o].state # Unseen
      /\ orders'[o].terms = orders[o].terms
      /\ orders'[o].quantity = orders[o].quantity
      /\ orders'[o].executed = orders[o].executed
      /\ orders'[o].consideration = orders[o].consideration
      /\ \A x \in OrderIds \ {o} : orders'[x] = orders[x]
  BY <1>1, <1>2, <1>3, HeldOrder, MoveToMoves
<1>5. \/ orders'[o].state = "NOT_REACHED"
      \/ /\ orders[o].state = "MATCHED" /\ orders'[o].state = "AFFIRMED"
         /\ said = "AFFIRMED"
  BY <1>3, <1>4, ReachedFrom
<1>6. Elsewhere(o)
  BY <1>1, <1>4 DEF Elsewhere
<1>7. Keyed' /\ HolderHeld'
  <2>1. Keyed'
    BY <1>1, HeldOrder DEF Keyed
  <2>2. HolderHeld'
    BY <1>1, <1>2, <1>4, HoldersDiffer DEF HolderHeld
  <2> QED BY <2>1, <2>2
<1> HIDE DEF good, target
<1>8. FillsHeld(o)' /\ FormedHeld(o)'
  BY <1>1, <1>2, <1>4, HeldOrder, FillsStay, FormedStays
<1>9. CaptureHeld(o)'
  BY <1>1, <1>5, HeldOrder DEF CaptureHeld, Unseen
<1>10. AllocationHeld(o)'
  BY <1>1, <1>4, <1>5, HeldOrder, AfterStates DEF AllocationHeld
<1>11. ToldHeld(o)'
  <2>1. CASE orders'[o].state = "NOT_REACHED"
    BY <1>1, <1>2, <2>1, AfterStates DEF ToldHeld
  <2>2. CASE orders'[o].state # "NOT_REACHED"
    <3>1. told[o] = {"MATCHED"} /\ orders'[o].state = "AFFIRMED"
      BY <1>5, <2>2, HeldOrder DEF ToldHeld
    <3>2. told'[o] = {"MATCHED", "AFFIRMED"}
      BY <1>1, <1>5, <2>2, <3>1
    <3> QED BY <1>1, <1>2, <3>1, <3>2 DEF ToldHeld
  <2> QED BY <2>1, <2>2
<1>12. AnswersHeld'
  <2>1. orders'[o].state \in Early => orders[o].state \in Early
    BY <1>5 DEF Early
  <2>2. orders'[o].state \notin Closed \cup {"SETTLEMENT_CANDIDATE_READY", Unseen}
    BY <1>5 DEF Closed, Unseen
  <2> QED BY <1>4, <2>1, <2>2, HoldersDiffer, AnswersStay
<1> QED BY <1>4, <1>6, <1>7, <1>8, <1>9, <1>10, <1>11, <1>12, OneOrder DEF Held

\* form_obligation: the envelope is made of what the register holds, and the
\* order was affirmed.
LEMMA InvFormObligation ==
  ASSUME IInv, NEW o \in OrderIds, NEW intent \in Intents, NEW legs \in Legs,
         FormObligation(o, intent, legs)
  PROVE  IInv'
<1>1. PICK clearing \in Clearings : \E gross \in clearing :
        /\ EconomicsHold(o, gross, legs.day)
        /\ formed' = With(formed, o, Envelope(o, gross, intent, legs))
  BY DEF FormObligation
<1>2. PICK gross \in clearing :
        /\ EconomicsHold(o, gross, legs.day)
        /\ formed' = With(formed, o, Envelope(o, gross, intent, legs))
  BY <1>1
<1>3. gross.obligation \in Obligations
  <2>1. PICK S \in SUBSET OrderIds : \E ids \in [S -> Obligations] :
          \E days \in [S -> Days] : clearing = Cleared(S, ids, days)
    BY DEF Clearings
  <2>2. PICK ids \in [S -> Obligations] : \E days \in [S -> Days] :
          clearing = Cleared(S, ids, days)
    BY <2>1
  <2>3. PICK days \in [S -> Days] : clearing = Cleared(S, ids, days)
    BY <2>2
  <2>4. PICK x \in S : gross = GrossTrade(x, ids[x], days[x])
    BY <1>2, <2>3 DEF Cleared
  <2> QED BY <2>2, <2>4 DEF GrossTrade
<1>4. /\ Sealed(o, intent) /\ PartiesMatch(legs) /\ FirmTakesItsSide(intent, legs)
      /\ orders' = Readied(orders, o) /\ holder' = Formed(o)
      /\ UNCHANGED <<fills, captures, allocations, outcomes, told, answered>>
  BY DEF FormObligation, tradeVars
<1>5. /\ orders[o].state = "AFFIRMED" /\ orders[o].state # Unseen
      /\ orders[o].terms.side = intent.side
  BY <1>4 DEF Sealed, Unseen
<1>6. /\ WellFormed(orders')
      /\ orders'[o].state = "SETTLEMENT_CANDIDATE_READY"
      /\ orders'[o].terms = orders[o].terms
      /\ orders'[o].quantity = orders[o].quantity
      /\ orders'[o].executed = orders[o].executed
      /\ orders'[o].consideration = orders[o].consideration
      /\ \A x \in OrderIds \ {o} : orders'[x] = orders[x]
  BY <1>4, <1>5, HeldOrder, ReadiedReady
<1>7. /\ formed'[o] = Envelope(o, gross, intent, legs)
      /\ DOMAIN formed' = DOMAIN formed \cup {o}
      /\ \A x \in DOMAIN formed : x # o => formed'[x] = formed[x]
  BY <1>2 DEF With
<1>8. Elsewhere(o)
  BY <1>4, <1>6, <1>7 DEF Elsewhere
<1>9. FillsHeld(o)'
  BY <1>4, <1>5, <1>6, HeldOrder, FillsStay
<1>10. FormedHeld(o)'
  <2>1. /\ formed'[o].obligation \in Obligations /\ formed'[o].legs = legs
        /\ formed'[o].quantity = gross.quantity /\ formed'[o].cash = gross.cash
    BY <1>3, <1>7 DEF Envelope
  <2>2. /\ gross.quantity = Quantity(fills[o])
        /\ gross.cash = Total(Quantity(fills[o]), Money(fills[o]), legs.day)
        /\ fills[o] # <<>> /\ legs.day = TradeDay(o) + Cycle
    BY <1>2, <1>5, HeldOrder DEF EconomicsHold, FillsHeld
  <2>3. /\ legs.deliverer # legs.receiver /\ legs.deliverer = legs.payee
        /\ legs.receiver = legs.payer
        /\ Firm = IF orders[o].terms.side = "SELL" THEN legs.deliverer
                  ELSE legs.receiver
    BY <1>4, <1>5, IntentsAssumption DEF PartiesMatch, FirmTakesItsSide
  <2>4. TradeDay(o)' = TradeDay(o)
    BY <1>4 DEF TradeDay
  <2> QED BY <1>4, <1>6, <2>1, <2>2, <2>3, <2>4 DEF FormedHeld
<1>11. CaptureHeld(o)'
  BY <1>4, <1>6, HeldOrder DEF CaptureHeld, Unseen
<1>12. AllocationHeld(o)' /\ ToldHeld(o)'
  <2>1. orders'[o].state \in After("AFFIRMED") /\ orders[o].state \in After("AFFIRMED")
    BY <1>5, <1>6, AfterStates
  <2>2. AllocationHeld(o)'
    BY <1>4, <1>6, <2>1, HeldOrder, AfterStates, AllocationStays
  <2>3. ToldHeld(o)'
    BY <1>4, <1>6, <2>1, HeldOrder DEF ToldHeld
  <2> QED BY <2>2, <2>3
<1>13. Keyed'
  BY <1>4, <1>7, HeldOrder DEF Keyed
<1>14. HolderHeld'
  BY <1>4, <1>6, HoldersDiffer DEF HolderHeld
<1>15. AnswersHeld'
  <2>1. AnswersHeld
    BY HeldOrder
  <2>2. o \notin DOMAIN formed
    BY <1>5, <2>1 DEF AnswersHeld, Early
  <2>3. \A x \in DOMAIN formed : formed'[x] = formed[x] /\ x # o
    BY <1>7, <2>2
  <2>4. ASSUME NEW x \in OrderIds, orders'[x].state \in Closed
        PROVE  x \in DOMAIN answered' /\ AnswerFits(x)'
    <3>1. x # o
      BY <1>6, <2>4 DEF Closed
    <3>2. orders'[x] = orders[x]
      BY <1>6, <3>1
    <3>3. x \in DOMAIN answered /\ AnswerFits(x) /\ answered[x].of \in DOMAIN formed
      BY <2>1, <2>4, <3>2 DEF AnswersHeld
    <3>4. formed'[answered[x].of] = formed[answered[x].of] /\ answered' = answered
      BY <1>4, <2>3, <3>3
    <3> QED BY <3>2, <3>3, <3>4 DEF AnswerFits
  <2>5. ASSUME NEW x \in DOMAIN formed' PROVE orders'[x].state \notin Early \cup {Unseen}
    BY <1>6, <1>7, <2>1 DEF AnswersHeld, Early, Unseen
  <2>6. ASSUME NEW x \in OrderIds,
               orders'[x].state \in Closed \cup {"SETTLEMENT_CANDIDATE_READY"}
        PROVE  x \in DOMAIN formed'
    BY <1>6, <1>7, <2>1, <2>6 DEF AnswersHeld
  <2>7. ASSUME NEW x \in DOMAIN answered'
        PROVE  answered'[x].of \in DOMAIN formed' /\ holder' # Formed(answered'[x].of)
    BY <1>4, <1>7, <2>1, <2>3, HoldersDiffer DEF AnswersHeld
  <2>8. /\ DOMAIN formed' \subseteq OrderIds /\ answered' = answered
    BY <1>4, <1>7, <2>1 DEF AnswersHeld
  <2> QED BY <2>1, <2>4, <2>5, <2>6, <2>7, <2>8 DEF AnswersHeld
<1> QED BY <1>6, <1>8, <1>9, <1>10, <1>11, <1>12, <1>13, <1>14, <1>15, OneOrder
        DEF Held

\* record_atreides_handoff: only a settlement candidate is handed over or
\* refused, by an answer no other order was closed with.
LEMMA InvRecordHandoff ==
  ASSUME IInv, NEW o \in OrderIds, NEW p \in OrderIds, NEW acceptance \in Acceptances,
         RecordHandoff(o, p, acceptance)
  PROVE  IInv'
<1> DEFINE target == IF acceptance.disposition = "PASS" THEN "HANDED_TO_ATREIDES"
                     ELSE "REFUSED_BY_ATREIDES"
           record == [acceptance |-> acceptance, of |-> p]
<1>1. /\ holder = Formed(p) /\ acceptance.envelope = formed[p]
      /\ orders[o].state # Unseen /\ MoveTo(o, target, NoHolder)
      /\ answered' = With(answered, o, record)
      /\ UNCHANGED <<fills, captures, allocations, outcomes, told, formed>>
  BY DEF RecordHandoff, Binds, tradeVars
<1>2. p \in DOMAIN formed /\ target \in Moves
  BY <1>1, TradeMoves DEF IInv, HolderHeld, AnswersHeld
<1>3. /\ WellFormed(orders') /\ holder' = NoHolder
      /\ orders'[o].state \in
           IF orders[o].state = "SETTLEMENT_CANDIDATE_READY" THEN {target}
           ELSE {"NOT_REACHED"}
      /\ orders'[o].terms = orders[o].terms
      /\ orders'[o].quantity = orders[o].quantity
      /\ orders'[o].executed = orders[o].executed
      /\ orders'[o].consideration = orders[o].consideration
      /\ \A x \in OrderIds \ {o} : orders'[x] = orders[x]
  BY <1>1, <1>2, HeldOrder, MoveToMoves, ReachedFrom
<1>4. Elsewhere(o)
  BY <1>1, <1>3 DEF Elsewhere
<1>5. Keyed' /\ HolderHeld'
  BY <1>1, <1>3, HeldOrder, HoldersDiffer DEF Keyed, HolderHeld
<1>6. FillsHeld(o)' /\ FormedHeld(o)'
  BY <1>1, <1>3, HeldOrder, FillsStay, FormedStays
<1>7. CaptureHeld(o)'
  BY <1>1, <1>3, HeldOrder DEF CaptureHeld, Unseen
<1>8. AllocationHeld(o)' /\ ToldHeld(o)'
  <2>1. CASE orders[o].state = "SETTLEMENT_CANDIDATE_READY"
    BY <1>1, <1>3, <2>1, HeldOrder, AfterStates DEF AllocationHeld, ToldHeld
  <2>2. CASE orders[o].state # "SETTLEMENT_CANDIDATE_READY"
    BY <1>1, <1>3, <2>2, HeldOrder, AfterStates DEF AllocationHeld, ToldHeld
  <2> QED BY <2>1, <2>2
<1>9. AnswersHeld'
  <2>1. AnswersHeld
    BY HeldOrder
  <2>2. /\ DOMAIN answered' = DOMAIN answered \cup {o} /\ answered'[o] = record
        /\ \A x \in DOMAIN answered : x # o => answered'[x] = answered[x]
    BY <1>1 DEF With
  <2>3. record.of = p /\ record.acceptance = acceptance
    OBVIOUS
  <2> HIDE DEF record
  <2>4. \A x \in DOMAIN answered : answered[x].of # p
    BY <1>1, <2>1 DEF AnswersHeld
  <2>5. ASSUME NEW x \in OrderIds, orders'[x].state \in Closed
        PROVE  x \in DOMAIN answered' /\ AnswerFits(x)'
    <3>1. CASE x = o
      <4>1. orders'[o].state = target
        BY <1>3, <2>5, <3>1 DEF Closed
      <4>2. (acceptance.disposition = "PASS") = (orders'[o].state = "HANDED_TO_ATREIDES")
        BY <4>1
      <4>3. answered'[o].acceptance = acceptance /\ answered'[o].of = p
        BY <2>2, <2>3
      <4> QED BY <1>1, <2>2, <3>1, <4>2, <4>3 DEF AnswerFits
    <3>2. CASE x # o
      <4>1. orders'[x] = orders[x]
        BY <1>3, <3>2
      <4>2. x \in DOMAIN answered /\ AnswerFits(x)
        BY <2>1, <2>5, <4>1 DEF AnswersHeld
      <4>3. answered'[x] = answered[x]
        BY <2>2, <3>2, <4>2
      <4> QED BY <1>1, <2>2, <4>1, <4>2, <4>3 DEF AnswerFits
    <3> QED BY <3>1, <3>2
  <2>6. orders'[o].state \notin Early \cup {Unseen, "SETTLEMENT_CANDIDATE_READY"}
    BY <1>3 DEF Early, Unseen
  <2>7. \A x \in DOMAIN formed : orders'[x].state \notin Early \cup {Unseen}
    BY <1>3, <2>1, <2>6 DEF AnswersHeld
  <2>8. ASSUME NEW x \in OrderIds,
               orders'[x].state \in Closed \cup {"SETTLEMENT_CANDIDATE_READY"}
        PROVE  x \in DOMAIN formed
    <3>1. orders[x].state \in Closed \cup {"SETTLEMENT_CANDIDATE_READY"}
      BY <1>3, <2>8 DEF Closed
    <3> QED BY <2>1, <3>1 DEF AnswersHeld
  <2>9. \A x \in DOMAIN answered' :
          answered'[x].of \in DOMAIN formed /\ holder' # Formed(answered'[x].of)
    BY <1>2, <1>3, <2>1, <2>2, <2>3, HoldersDiffer DEF AnswersHeld
  <2>10. ASSUME NEW x \in DOMAIN answered', NEW y \in DOMAIN answered', x # y
         PROVE  answered'[x].of # answered'[y].of
    BY <2>1, <2>2, <2>3, <2>4, <2>10 DEF AnswersHeld
  <2>11. formed' = formed /\ DOMAIN answered' \subseteq OrderIds
    BY <1>1, <2>1, <2>2 DEF AnswersHeld
  <2> QED BY <2>1, <2>5, <2>7, <2>8, <2>9, <2>10, <2>11 DEF AnswersHeld
<1> QED BY <1>3, <1>4, <1>5, <1>6, <1>7, <1>8, <1>9, OneOrder DEF Held

\* No call changes what the invariant says.
LEMMA InvNext == IInv /\ [Next]_vars => IInv'
<1> SUFFICES ASSUME IInv, [Next]_vars PROVE IInv'
  OBVIOUS
<1>1. CASE TradeStep /\ UNCHANGED <<formed, answered>>
  <2>1. CASE \E o \in OrderIds : Capture(o) \/ CancelTrade(o)
    BY <1>1, <2>1, InvCapture, InvCancelTrade
  <2>2. CASE \E batch \in Batches, plan \in Plans : Allocate(batch, plan)
    BY <1>1, <2>2, InvAllocate
  <2>3. CASE \E o \in OrderIds, fact \in Facts : RecordMatch(o, fact)
    BY <1>1, <2>3, InvRecordMatch
  <2>4. CASE \E o, p \in OrderIds, fact \in Facts : Affirm(o, p, fact)
    BY <1>1, <2>4, InvAffirm
  <2> QED BY <1>1, <2>1, <2>2, <2>3, <2>4 DEF TradeStep
<1>2. CASE \E o \in OrderIds, intent \in Intents, legs \in Legs :
             FormObligation(o, intent, legs)
  BY <1>2, InvFormObligation
<1>3. CASE \E o, p \in OrderIds, acceptance \in Acceptances :
             RecordHandoff(o, p, acceptance)
  BY <1>3, InvRecordHandoff
<1>4. CASE UNCHANGED vars
  <2>1. /\ UNCHANGED <<orders, fills, captures, allocations, outcomes, told,
                       holder, formed, answered>>
    BY <1>4 DEF vars, tradeVars
  <2>2. \A o \in OrderIds : Held(o)'
    BY <2>1, Untouched DEF IInv
  <2> QED BY <2>1, <2>2 DEF IInv, WellFormed, Keyed, HolderHeld, AnswersHeld, AnswerFits
<1> QED BY <1>1, <1>2, <1>3, <1>4 DEF Next

LEMMA Invariant == Spec => []IInv
BY InvInit, InvNext, PTL DEF Spec

-----------------------------------------------------------------------------
(* Theorems *)

\* The register and the records callers keep have their shape, for any orders,
\* fills, plans, facts and parties (TypeOK).
THEOREM SettlementTyped == Spec => []TypeOK
<1>1. IInv => TypeOK
  <2> SUFFICES ASSUME IInv PROVE TypeOK
    OBVIOUS
  <2>1. ASSUME NEW o \in OrderIds
        PROVE  captures[o] = NoCapture \/ captures[o].quantity \in Nat \ {0}
    <3>1. CASE captures[o] = NoCapture
      BY <3>1
    <3>2. CASE captures[o] # NoCapture
      <4>1. orders[o].state # Unseen /\ captures[o].quantity = orders[o].quantity
        BY <3>2, HeldOrder DEF CaptureHeld, FillsHeld
      <4>2. orders[o].quantity \in Nat /\ orders[o].quantity > 0
        BY <4>1, HeldOrder DEF WellFormed, Books, OrderSnapshot
      <4> QED BY <4>1, <4>2
    <3> QED BY <3>1, <3>2
  <2>2. TradeTypeOK
    BY <2>1, HeldOrder DEF TradeTypeOK, ToldHeld, IInv, HolderHeld
  <2>3. ASSUME NEW o \in DOMAIN formed
        PROVE  formed[o].obligation \in Obligations /\ formed[o].legs \in Legs
    <3>1. o \in OrderIds
      BY DEF IInv, AnswersHeld
    <3> QED BY <3>1, HeldOrder DEF FormedHeld
  <2> QED BY <2>2, <2>3 DEF TypeOK, IInv, HolderHeld
<1> QED BY <1>1, Invariant, PTL

\* An order that was allocated and is still on its way leads one allocation,
\* under its sealed plan and of all the fills of the orders it names, for any
\* captures named, distinct or not, and any number of calls (LeadsOneAllocation):
\* allocate makes its record before the register is asked, and what keeps a
\* second record away from an order on its way is that asking again takes the
\* order out of it.
THEOREM LeadersAllocateOnce == Spec => []LeadsOneAllocation
<1>1. IInv => LeadsOneAllocation
  BY HeldOrder DEF AllocationHeld, LeadsOneAllocation
<1> QED BY <1>1, Invariant, PTL

\* From affirmation on, the utility matched and affirmed the order and said
\* nothing else of it, whatever facts are offered in whatever order
\* (NeverDoubted).
THEOREM AffirmedUndoubted == Spec => []NeverDoubted
<1>1. IInv => NeverDoubted
  BY HeldOrder DEF NeverDoubted, ToldHeld
<1> QED BY <1>1, Invariant, PTL

\* An obligation's quantity, cash and value date are those of the order's sealed
\* fills, for any capture and any clearing result (SettlesWhatWasFilled).
THEOREM FillsSettled == Spec => []SettlesWhatWasFilled
<1>1. IInv => SettlesWhatWasFilled
  <2> SUFFICES ASSUME IInv, NEW o \in DOMAIN formed
               PROVE  LET e == formed[o]
                      IN  /\ e.quantity = Quantity(fills[o])
                          /\ e.cash = HalfEven(Money(fills[o]), Unit * PerCent)
                                        + Accrued(Quantity(fills[o]), e.legs.day)
                          /\ \E i \in DOMAIN fills[o] :
                               e.legs.day = fills[o][i].day + Cycle
                          /\ \A i \in DOMAIN fills[o] :
                               e.legs.day >= fills[o][i].day + Cycle
    BY DEF SettlesWhatWasFilled
  <2> DEFINE Fill == [quantity : Nat \ {0}, price : Nat \ {0}, day : Nat]
             days == {fills[o][i].day : i \in DOMAIN fills[o]}
  <2>0. o \in OrderIds
    BY DEF IInv, AnswersHeld
  <2>1. /\ formed[o].quantity = Quantity(fills[o])
        /\ formed[o].cash = HalfEven(Money(fills[o]), Unit * PerCent)
                              + Accrued(Quantity(fills[o]), formed[o].legs.day)
        /\ fills[o] # <<>> /\ formed[o].legs.day = TradeDay(o) + Cycle
    BY <2>0, HeldOrder DEF FormedHeld, Total, Cents
  <2>2. fills[o] \in Seq(Fill)
    BY <2>0, HeldOrder DEF FillsHeld
  <2>3. \A f \in Fill : f.day \in Nat
    OBVIOUS
  <2>4. \E d \in days : \A i \in DOMAIN fills[o] : fills[o][i].day <= d
    <3> HIDE DEF Fill
    <3>1. \E i \in DOMAIN fills[o] : \A j \in DOMAIN fills[o] :
            fills[o][j].day <= fills[o][i].day
      BY <2>1, <2>2, <2>3, LastDay
    <3> QED BY <3>1
  <2>5. TradeDay(o) \in days /\ \A i \in DOMAIN fills[o] : fills[o][i].day <= TradeDay(o)
    BY <2>4 DEF TradeDay
  <2>6. \A i \in DOMAIN fills[o] : fills[o][i].day \in Nat
    <3>1. \A i \in DOMAIN fills[o] : fills[o][i] \in Fill
      <4> HIDE DEF Fill
      <4> QED BY <2>2
    <3> QED BY <3>1, <2>3
  <2>7. TradeDay(o) \in Nat
    BY <2>5, <2>6
  <2>8. \A i \in DOMAIN fills[o] : TradeDay(o) + Cycle >= fills[o][i].day + Cycle
    BY <2>5, <2>6, <2>7, CycleAssumption
  <2> HIDE DEF Fill
  <2> QED BY <2>1, <2>5, <2>8
<1> QED BY <1>1, Invariant, PTL

\* The attested firm has the duties of the sealed side on both legs and faces
\* somebody else, for any intents and parties (FirmOnItsSide).
THEOREM FirmTakesSealedSide == Spec => []FirmOnItsSide
<1>1. IInv => FirmOnItsSide
  <2>1. IInv => DOMAIN formed \subseteq OrderIds
    BY DEF IInv, AnswersHeld
  <2> QED BY <2>1, HeldOrder DEF FirmOnItsSide, FormedHeld
<1> QED BY <1>1, Invariant, PTL

\* An order is handed over or refused only after an obligation was formed for it,
\* by an answer that binds the whole envelope it was recorded on and closes no
\* second order, whichever order its caller names (AnswerBinds): what keeps an
\* obligation from closing two is that its register is no longer the latest.
THEOREM AnswersBound == Spec => []AnswerBinds
<1>1. IInv => AnswerBinds
  BY DEF IInv, AnswerBinds, AnswersHeld, AnswerFits, Closed
<1> QED BY <1>1, Invariant, PTL

-----------------------------------------------------------------------------
(* Who comes first                                                          *)

\* before[x] are the elements of D that come before x in a total order.
TotalOrder(before, D) ==
  /\ \A x \in D : before[x] \subseteq D /\ x \notin before[x]
  /\ \A x \in D : \A y \in before[x] : before[y] \subseteq before[x]
  /\ \A x, y \in D : x # y => x \in before[y] \/ y \in before[x]

FirstFew(before, D, n) == {x \in D : Cardinality(before[x]) < n}

\* An element that comes before another has fewer before it.
LEMMA FewerBefore ==
  ASSUME NEW D, IsFiniteSet(D), NEW before, TotalOrder(before, D), NEW x \in D
  PROVE  /\ IsFiniteSet(before[x]) /\ Cardinality(before[x]) \in Nat
         /\ \A y \in before[x] : /\ Cardinality(before[y]) \in Nat
                                 /\ Cardinality(before[y]) < Cardinality(before[x])
<1>1. \A z \in D : IsFiniteSet(before[z]) /\ Cardinality(before[z]) \in Nat
  BY FS_Subset, FS_CardinalityType DEF TotalOrder
<1>2. ASSUME NEW y \in before[x]
      PROVE  Cardinality(before[y]) < Cardinality(before[x])
  <2> DEFINE rest == before[x] \ {y}
  <2>1. y \in D /\ before[y] \subseteq rest
    BY DEF TotalOrder
  <2>2. /\ IsFiniteSet(rest) /\ Cardinality(rest) \in Nat
        /\ Cardinality(rest) = Cardinality(before[x]) - 1
    BY <1>1, OneLess
  <2> HIDE DEF rest
  <2>3. Cardinality(before[y]) <= Cardinality(rest)
    BY <2>1, <2>2, FS_Subset
  <2> QED BY <1>1, <2>1, <2>2, <2>3
<1>3. \A y \in before[x] : Cardinality(before[y]) \in Nat
  BY <1>1 DEF TotalOrder
<1> QED BY <1>1, <1>2, <1>3

\* Outside of any set but D, something of D has only members of that set before it.
LEMMA NextInOrder ==
  ASSUME NEW D, IsFiniteSet(D), NEW before, TotalOrder(before, D),
         NEW L, L \subseteq D, L # D
  PROVE  \E x \in D \ L : before[x] \subseteq L
<1> DEFINE ranks == {Cardinality(before[x]) : x \in D \ L}
<1>1. ranks \subseteq Nat /\ ranks # {}
  BY FewerBefore
<1>2. PICK n \in ranks : \A m \in ranks : n <= m
  BY <1>1, LeastNat
<1>3. PICK x \in D \ L : n = Cardinality(before[x])
  BY <1>2
<1>4. ASSUME NEW y \in before[x], y \notin L PROVE FALSE
  <2>1. y \in D \ L
    BY <1>3, <1>4 DEF TotalOrder
  <2>2. /\ Cardinality(before[y]) \in Nat /\ Cardinality(before[x]) \in Nat
        /\ Cardinality(before[y]) < Cardinality(before[x])
    BY FewerBefore
  <2>3. n <= Cardinality(before[y])
    BY <1>2, <2>1
  <2> QED BY <1>3, <2>2, <2>3
<1> QED BY <1>3, <1>4

\* As many elements as are asked for come first.
LEMMA FirstFewCounted ==
  ASSUME NEW D, IsFiniteSet(D), NEW before, TotalOrder(before, D),
         NEW n \in Nat, n <= Cardinality(D)
  PROVE  Cardinality(FirstFew(before, D, n)) = n
<1> DEFINE few(k) == FirstFew(before, D, k)
           bad    == {k \in 0 .. n : Cardinality(few(k)) # k}
<1>1. SUFFICES ASSUME bad # {} PROVE FALSE
  OBVIOUS
<1>2. bad \subseteq Nat
  OBVIOUS
<1>3. PICK k \in bad : \A m \in bad : k <= m
  BY <1>1, <1>2, LeastNat
<1>4. k \in Nat /\ k <= n /\ Cardinality(few(k)) # k
  BY <1>3
<1>5. \A x \in D : Cardinality(before[x]) \in Nat
  BY FewerBefore
<1>6. k # 0
  <2>1. few(0) = {}
    BY <1>5 DEF FirstFew
  <2> HIDE DEF few
  <2> QED BY <1>4, <2>1, FS_EmptySet
<1> DEFINE L == few(k - 1)
<1>7. k - 1 \in Nat /\ Cardinality(L) = k - 1
  <2>1. k - 1 \in 0 .. n /\ ~(k <= k - 1)
    BY <1>4, <1>6
  <2>2. k - 1 \notin bad
    <3> HIDE DEF bad
    <3> QED BY <1>3, <2>1
  <2> QED BY <2>1, <2>2
<1>8. L \subseteq D /\ IsFiniteSet(L)
  <2>1. L \subseteq D
    BY DEF FirstFew
  <2> HIDE DEF L
  <2> QED BY <2>1, FS_Subset
<1>9. \A x \in D : x \in L <=> Cardinality(before[x]) < k - 1
  BY DEF FirstFew
<1>10. \A x \in D : x \in few(k) <=> Cardinality(before[x]) < k
  BY DEF FirstFew
<1>11. few(k) \subseteq D
  BY DEF FirstFew
<1> HIDE DEF L, few
<1>12. L # D
  BY <1>4, <1>7
<1>13. PICK x \in D \ L : before[x] \subseteq L
  BY <1>8, <1>12, NextInOrder
<1>14. Cardinality(before[x]) = k - 1
  <2>1. Cardinality(before[x]) <= Cardinality(L)
    BY <1>8, <1>13, FS_Subset
  <2> QED BY <1>5, <1>7, <1>9, <1>13, <2>1
<1>15. ASSUME NEW y \in D, y # x, y \notin L PROVE Cardinality(before[y]) > k - 1
  <2>1. x \in before[y] \/ y \in before[x]
    BY <1>15 DEF TotalOrder
  <2>2. x \in before[y]
    BY <1>13, <1>15, <2>1
  <2> QED BY <1>5, <1>14, <2>2, FewerBefore
<1>16. few(k) = L \cup {x}
  <2>1. ASSUME NEW y \in D PROVE y \in few(k) <=> y \in L \cup {x}
    BY <1>5, <1>7, <1>9, <1>10, <1>14, <1>15
  <2> QED BY <1>8, <1>11, <2>1
<1>17. Cardinality(few(k)) = k
  <2>1. Cardinality(L \cup {x}) = Cardinality(L) + 1
    BY <1>8, <1>13, FS_AddElement
  <2> QED BY <1>4, <1>7, <1>16, <2>1
<1> QED BY <1>4, <1>17

-----------------------------------------------------------------------------
(* The odd cents                                                            *)

\* Twice the divisor times the rounded quotient is half a divisor away from the
\* dividend, at most (ROUND_HALF_EVEN).
LEMMA HalfEvenNear ==
  ASSUME NEW n \in Int, NEW d \in Nat \ {0}
  PROVE  /\ HalfEven(n, d) \in Int
         /\ 2 * d * HalfEven(n, d) - 2 * n <= d
         /\ 2 * n - 2 * d * HalfEven(n, d) <= d
<1> DEFINE q == n \div d
           r == n % d
           m == d * q
<1>1. q \in Int /\ r \in Int /\ m \in Int /\ n = m + r /\ 0 <= r /\ r < d
  OBVIOUS
<1>2. 2 * d * q = 2 * m /\ 2 * d * (q + 1) = 2 * m + 2 * d
  BY <1>1
<1>3. \/ HalfEven(n, d) = q /\ 2 * r <= d
      \/ HalfEven(n, d) = q + 1 /\ 2 * r >= d
  <2>1. HalfEven(n, d) = IF 2 * r > d \/ (2 * r = d /\ q % 2 = 1) THEN q + 1 ELSE q
    BY DEF HalfEven
  <2> HIDE DEF q, r
  <2> QED BY <1>1, <2>1
<1> HIDE DEF q, r, m
<1> QED BY <1>1, <1>2, <1>3

\* The targets of a plan are finitely many, and so is what they add up to.
LEMMA TargetTotalTyped ==
  ASSUME NEW plan \in Plans
  PROVE  TargetTotal(plan) \in Int
<1> DEFINE wanted == [i \in DOMAIN plan.targets |-> plan.targets[i].quantity]
<1>1. \A i \in DOMAIN plan.targets : wanted[i] \in Int
  BY PlansAssumption
<1>2. DOMAIN wanted = DOMAIN plan.targets /\ IsFiniteSet(DOMAIN plan.targets)
  BY PlansAssumption
<1> HIDE DEF wanted
<1>3. SumFunctionOnSet(wanted, DOMAIN wanted) \in Int
  BY <1>1, <1>2, SumTyped
<1> QED BY <1>3 DEF TargetTotal, SumFunction, wanted

\* The shares of every target are a whole number of units.
LEMMA SharesTyped ==
  ASSUME NEW plan \in Plans, NEW total \in Nat \ {0}, Divisible(plan, total)
  PROVE  /\ DOMAIN Shares(plan, total) = DOMAIN plan.targets
         /\ \A i \in DOMAIN plan.targets : Shares(plan, total)[i] \in Int
<1>1. TargetTotal(plan) \in Nat \ {0}
  BY TargetTotalTyped DEF Divisible
<1>2. /\ DOMAIN Exact(plan, total) = DOMAIN plan.targets
      /\ \A i \in DOMAIN plan.targets : Exact(plan, total)[i] \in Int
  <2>1. ASSUME NEW i \in DOMAIN plan.targets
        PROVE  HalfEven(total * plan.targets[i].quantity, TargetTotal(plan)) \in Int
    <3>1. total * plan.targets[i].quantity \in Int
      BY PlansAssumption
    <3> QED BY <1>1, <3>1, HalfEvenNear
  <2> QED BY <2>1 DEF Exact
<1>3. \A i \in DOMAIN plan.targets :
         Floors(plan, total)[i] \in Int /\ Floors(plan, total)[i] + Unit \in Int
  BY <1>2, ScaleAssumption DEF Floors
<1>4. \A i \in DOMAIN plan.targets :
         Shares(plan, total)[i] \in {Exact(plan, total)[i], Floors(plan, total)[i],
                                     Floors(plan, total)[i] + 0,
                                     Floors(plan, total)[i] + Unit}
  BY <1>2 DEF Shares
<1>5. DOMAIN Shares(plan, total) = DOMAIN plan.targets
  BY <1>2 DEF Shares
<1> QED BY <1>2, <1>3, <1>4, <1>5

\* What OddCentsSmall says of one allocation.
OddSmall(a) ==
  LET bound == a.quantity * a.plan.quantum
                 + (Cardinality(DOMAIN a.cents) + 1) * Unit * PerCent
  IN  /\ 2 * a.odd * Unit * PerCent <= bound
      /\ -2 * a.odd * Unit * PerCent <= bound

\* Rounding moves the average by half a step over all shares, each account's
\* money by half a cent and the sum by half a cent; the odd cents are what these
\* leave, whichever account takes them.
LEMMA OddCents ==
  ASSUME NEW trades, NEW plan \in Plans, NEW total \in Nat \ {0}, NEW money \in Int,
         Divisible(plan, total), Recordable(Allocated(trades, plan, total, money))
  PROVE  OddSmall(Allocated(trades, plan, total, money))
<1> DEFINE shares  == Shares(plan, total)
           given   == [i \in Active(shares) |-> shares[i]]
           average == AveragePrice(plan, total, money)
           priced  == Priced(shares, average)
           cent    == Unit * PerCent
           odd     == Cents(money) - SumFunction(priced)
           n       == Cardinality(Active(shares))
<1>1. /\ Active(shares) \subseteq DOMAIN plan.targets
      /\ IsFiniteSet(Active(shares))
      /\ \A i \in Active(shares) : shares[i] \in Int
  BY SharesTyped, PlansAssumption, FS_Subset DEF Active
<1>2. n \in Nat
  BY <1>1, FS_CardinalityType
<1>3. cent \in Nat \ {0} /\ plan.quantum \in Nat \ {0}
  BY ScaleAssumption, PlansAssumption
<1>4. /\ average \in Int
      /\ 2 * total * average - 2 * money <= total * plan.quantum
      /\ 2 * money - 2 * total * average <= total * plan.quantum
  <2> DEFINE rounded == HalfEven(money, total * plan.quantum)
             d == total * plan.quantum
  <2>1. d \in Nat \ {0}
    BY <1>3
  <2>2. /\ rounded \in Int
        /\ 2 * d * rounded - 2 * money <= d /\ 2 * money - 2 * d * rounded <= d
    BY <2>1, HalfEvenNear
  <2>3. average = plan.quantum * rounded
    BY DEF AveragePrice
  <2> HIDE DEF rounded, average
  <2>4. average \in Int /\ 2 * d * rounded = 2 * total * average
    BY <1>3, <2>2, <2>3
  <2> QED BY <2>2, <2>4
<1>5. /\ Cents(money) \in Int
      /\ 2 * cent * Cents(money) - 2 * money <= cent
      /\ 2 * money - 2 * cent * Cents(money) <= cent
  BY <1>3, HalfEvenNear DEF Cents
<1>6. ASSUME NEW i \in Active(shares)
      PROVE  /\ priced[i] \in Int /\ given[i] \in Int
             /\ 2 * cent * priced[i] - 2 * average * given[i] <= cent
             /\ 2 * average * given[i] - 2 * cent * priced[i] <= cent
  <2>1. priced[i] = HalfEven(shares[i] * average, cent) /\ given[i] = shares[i]
    BY DEF Priced, Cents
  <2>2. shares[i] \in Int /\ shares[i] * average \in Int
    BY <1>1, <1>4
  <2> HIDE DEF shares, average, priced, given, cent
  <2>3. /\ priced[i] \in Int
        /\ 2 * cent * priced[i] - 2 * (shares[i] * average) <= cent
        /\ 2 * (shares[i] * average) - 2 * cent * priced[i] <= cent
    BY <1>3, <2>1, <2>2, HalfEvenNear
  <2>4. 2 * average * given[i] = 2 * (shares[i] * average)
    BY <1>4, <2>1, <2>2
  <2> QED BY <2>1, <2>2, <2>3, <2>4
<1>7. /\ DOMAIN priced = Active(shares) /\ DOMAIN given = Active(shares)
      /\ SumFunction(given) = total
  BY DEF Priced, Recordable, Allocated
<1>8. Allocated(trades, plan, total, money).odd = odd
      /\ Allocated(trades, plan, total, money).quantity = total
      /\ Allocated(trades, plan, total, money).plan = plan
      /\ DOMAIN Allocated(trades, plan, total, money).cents = Active(shares)
  BY DEF Allocated
<1> HIDE DEF shares, given, average, priced, cent
<1> DEFINE A == Active(shares)
           a == 2 * cent
           b == 2 * average
<1>9. Within(a, priced, b, given, A, cent)
  <2>1. a \in Int /\ b \in Int /\ cent \in Int
    BY <1>3, <1>4
  <2>2. \A i \in A : /\ priced[i] \in Int /\ given[i] \in Int
                     /\ a * priced[i] - b * given[i] <= cent
                     /\ b * given[i] - a * priced[i] <= cent
    BY <1>6
  <2>3. IsFiniteSet(A)
    BY <1>1
  <2> HIDE DEF A, a, b
  <2> QED BY <2>1, <2>2, <2>3, SumsNear
<1> DEFINE P == SumFunction(priced)
<1>10. /\ P \in Int
       /\ 2 * cent * P - 2 * average * total <= cent * n
       /\ 2 * average * total - 2 * cent * P <= cent * n
  BY <1>7, <1>9 DEF Within, SumFunction
<1> DEFINE C == Cents(money)
<1>11. odd \in Int /\ 2 * cent * odd = 2 * cent * C - 2 * cent * P
  <2> HIDE DEF P, C
  <2> QED BY <1>3, <1>5, <1>10 DEF P, C
<1> DEFINE bound == total * plan.quantum + (n + 1) * cent
<1>12. 2 * cent * odd <= bound /\ -(2 * cent * odd) <= bound
  <2> DEFINE ta == 2 * total * average
             cP == 2 * cent * P
             cC == 2 * cent * C
             cn == cent * n
             tq == total * plan.quantum
  <2>1. ta \in Int /\ cP \in Int /\ cC \in Int /\ cn \in Int /\ tq \in Int
    BY <1>2, <1>3, <1>4, <1>5, <1>10
  <2>2. /\ ta - 2 * money <= tq /\ 2 * money - ta <= tq
        /\ cC - 2 * money <= cent /\ 2 * money - cC <= cent
        /\ cP - ta <= cn /\ ta - cP <= cn
    <3>1. 2 * average * total = 2 * total * average
      BY <1>4
    <3> QED BY <1>4, <1>5, <1>10, <3>1
  <2>3. bound = tq + cn + cent
    BY <1>2, <1>3, <2>1
  <2>4. 2 * cent * odd = cC - cP
    BY <1>11
  <2> HIDE DEF ta, cP, cC, cn, tq, bound
  <2> QED BY <1>3, <2>1, <2>2, <2>3, <2>4
<1>13. /\ 2 * odd * Unit * PerCent = 2 * cent * odd
       /\ -2 * odd * Unit * PerCent = -(2 * cent * odd)
       /\ (n + 1) * Unit * PerCent = (n + 1) * cent
  <2> HIDE DEF odd, n
  <2> QED BY <1>2, <1>11, ScaleAssumption DEF cent
<1> HIDE DEF odd, n, bound
<1>14. /\ 2 * odd * Unit * PerCent <= total * plan.quantum + (n + 1) * Unit * PerCent
       /\ -2 * odd * Unit * PerCent <= total * plan.quantum + (n + 1) * Unit * PerCent
  BY <1>12, <1>13 DEF bound
<1> QED BY <1>8, <1>14 DEF OddSmall, n

\* The order in which left-over shares and odd cents are handed out is total.
LEMMA AheadOrders ==
  ASSUME NEW plan, NEW remainder, DOMAIN remainder \subseteq Nat,
         \A i \in DOMAIN remainder : remainder[i] \in Int
  PROVE  TotalOrder([i \in DOMAIN remainder |-> Ahead(plan, remainder, i)],
                    DOMAIN remainder)
<1> DEFINE D      == DOMAIN remainder
           before == [i \in D |-> Ahead(plan, remainder, i)]
<1>1. CASE plan.rule = "PRO_RATA"
  <2>1. \A i \in D : before[i] = {j \in D : \/ remainder[j] > remainder[i]
                                            \/ remainder[j] = remainder[i] /\ j < i}
    BY <1>1 DEF Ahead
  <2> HIDE DEF before, D
  <2> QED BY <2>1 DEF TotalOrder, D, before
<1>2. CASE plan.rule # "PRO_RATA"
  <2>1. \A i \in D : before[i] = {j \in D : j < i}
    BY <1>2 DEF Ahead
  <2> HIDE DEF before, D
  <2> QED BY <2>1 DEF TotalOrder, D, before
<1> QED BY <1>1, <1>2

\* What the accounts of one allocation pay adds up to the executed money, to the
\* cent.
CentsKept(a) == SumFunction(a.cents) = Cents(a.money)

\* Some target has shares, so the odd cents have a recipient (both are said, and
\* left uncovered by tests, at trade.py:291 and trade.py:320).
LEMMA CentsAddUp ==
  ASSUME NEW trades, NEW plan \in Plans, NEW total \in Nat \ {0}, NEW money \in Int,
         Divisible(plan, total), Recordable(Allocated(trades, plan, total, money))
  PROVE  CentsKept(Allocated(trades, plan, total, money))
<1> DEFINE shares  == Shares(plan, total)
           some    == Active(shares)
           average == AveragePrice(plan, total, money)
           priced  == Priced(shares, average)
           odd     == Cents(money) - SumFunction(priced)
           kept    == [i \in some |-> Exact(plan, total)[i] - shares[i]]
           to      == Recipient(plan, total, shares)
           cents   == [i \in some |-> priced[i] + (IF i = to THEN odd ELSE 0)]
           given   == [i \in some |-> shares[i]]
<1>1. /\ IsFiniteSet(DOMAIN plan.targets) /\ DOMAIN plan.targets \subseteq Nat
      /\ TargetTotal(plan) \in Nat \ {0}
  BY PlansAssumption, TargetTotalTyped DEF Divisible
<1>2. /\ some \subseteq DOMAIN plan.targets /\ IsFiniteSet(some) /\ some \subseteq Nat
      /\ \A i \in some : shares[i] \in Int
  BY <1>1, SharesTyped, FS_Subset DEF Active
<1>3. \A i \in some : Exact(plan, total)[i] \in Int
  <2>1. ASSUME NEW i \in DOMAIN plan.targets
        PROVE  HalfEven(total * plan.targets[i].quantity, TargetTotal(plan)) \in Int
    <3>1. total * plan.targets[i].quantity \in Int
      BY PlansAssumption
    <3> QED BY <1>1, <3>1, HalfEvenNear
  <2> HIDE DEF some
  <2> QED BY <1>2, <2>1 DEF Exact
<1>4. /\ Allocated(trades, plan, total, money).cents = cents
      /\ Allocated(trades, plan, total, money).shares = given
      /\ Allocated(trades, plan, total, money).quantity = total
      /\ Allocated(trades, plan, total, money).money = money
  BY DEF Allocated
<1>5. some # {}
  <2>1. SumFunctionOnSet(given, some) = total
    BY <1>4 DEF Recordable, SumFunction
  <2> HIDE DEF given, some
  <2> QED BY <2>1, SumOfNone
<1>6. to \in some
  <2>1. /\ DOMAIN kept = some
        /\ \A i \in some : kept[i] \in Int
    BY <1>2, <1>3
  <2>2. to = CHOOSE i \in some : Ahead(plan, kept, i) = {}
    BY DEF Recipient
  <2> HIDE DEF kept, some, to
  <2> DEFINE before == [i \in some |-> Ahead(plan, kept, i)]
  <2>3. TotalOrder(before, some)
    BY <1>2, <2>1, AheadOrders
  <2> HIDE DEF before
  <2>4. PICK i \in some : before[i] = {}
    <3> DEFINE none == {}
    <3>1. none \subseteq some /\ none # some /\ IsFiniteSet(some)
      BY <1>2, <1>5
    <3> HIDE DEF none
    <3>2. \E i \in some \ none : before[i] \subseteq none
      BY <2>3, <3>1, NextInOrder
    <3> QED BY <3>2 DEF none
  <2>5. Ahead(plan, kept, i) = {}
    BY <2>4 DEF before
  <2> QED BY <2>2, <2>5
<1>7. average \in Int /\ Unit * PerCent \in Nat \ {0}
  <2>1. Unit \in Nat \ {0} /\ PerCent \in Nat \ {0} /\ plan.quantum \in Nat \ {0}
    BY ScaleAssumption, PlansAssumption
  <2>2. total * plan.quantum \in Nat \ {0} /\ Unit * PerCent \in Nat \ {0}
    BY <2>1
  <2>3. HalfEven(money, total * plan.quantum) \in Int
    BY <2>2, HalfEvenNear
  <2> QED BY <2>1, <2>2, <2>3 DEF AveragePrice
<1>8. Cents(money) \in Int
  BY <1>7, HalfEvenNear DEF Cents
<1>9. /\ DOMAIN priced = some
      /\ \A i \in some : priced[i] \in Int
  <2>1. \A n \in Int : HalfEven(n, Unit * PerCent) \in Int
    BY <1>7, HalfEvenNear
  <2>2. \A i \in some : shares[i] * average \in Int
    <3> HIDE DEF some, shares, average
    <3> QED BY <1>2, <1>7
  <2>3. DOMAIN priced = some /\ \A i \in some : priced[i] = HalfEven(shares[i] * average, Unit * PerCent)
    BY DEF Priced, Cents
  <2> HIDE DEF some, shares, average, priced
  <2> QED BY <2>1, <2>2, <2>3
<1>10. odd = Cents(money) - SumFunctionOnSet(priced, some)
  BY <1>9 DEF SumFunction
<1>11. /\ DOMAIN cents = some /\ cents[to] = priced[to] + odd
       /\ \A i \in some \ {to} : cents[i] = priced[i] + 0
  BY <1>6
<1> HIDE DEF some, priced, cents, odd, to
<1>12. SumFunctionOnSet(priced, some) \in Int
  BY <1>2, <1>9, SumTyped
<1>13. /\ odd \in Int
       /\ \A i \in some : priced[i] \in Int /\ cents[i] \in Int
       /\ \A i \in some \ {to} : priced[i] = cents[i]
  BY <1>6, <1>8, <1>9, <1>10, <1>11, <1>12
<1>14. SumFunctionOnSet(cents, some)
         = SumFunctionOnSet(priced, some) + cents[to] - priced[to]
  BY <1>2, <1>6, <1>13, SumChange
<1>15. SumFunctionOnSet(cents, some) = Cents(money)
  BY <1>6, <1>8, <1>10, <1>11, <1>12, <1>13, <1>14
<1> QED BY <1>4, <1>11, <1>15 DEF CentsKept, SumFunction

\* The money of a capture is a number, whatever prices its reports state, and
\* every allocation made so far has small odd cents and adds up.
Cashed(o) ==
  /\ captures[o] # NoCapture => captures[o].money \in Int
  /\ \A i \in DOMAIN allocations[o] :
       OddSmall(allocations[o][i]) /\ CentsKept(allocations[o][i])

Divided ==
  /\ DOMAIN captures = OrderIds /\ DOMAIN allocations = OrderIds
  /\ \A o \in OrderIds : allocations[o] \in Seq(Range(allocations[o])) /\ Cashed(o)

\* The reports of an order add up to an amount of money.
LEMMA ReportsPriced ==
  ASSUME IInv, NEW o \in OrderIds, NEW reports \in Reports(o)
  PROVE  Money(reports) \in Int
<1> DEFINE Fill == [quantity : Nat \ {0}, price : Nat \ {0}, day : Nat]
<1>1. fills[o] \in Seq(Fill)
  BY HeldOrder DEF FillsHeld
<1>2. /\ DOMAIN reports = 1 .. Len(fills[o])
      /\ \A i \in DOMAIN reports : reports[i].quantity \in Nat /\ reports[i].price \in Nat
  <2>1. DOMAIN fills[o] = 1 .. Len(fills[o]) /\ Len(fills[o]) \in Nat
        /\ \A i \in DOMAIN fills[o] : fills[o][i] \in Fill
    <3> HIDE DEF Fill
    <3> QED BY <1>1
  <2>2. CASE reports = fills[o]
    BY <2>1, <2>2
  <2>3. CASE \E p \in Prices :
               reports = [i \in DOMAIN fills[o] |-> [fills[o][i] EXCEPT !.price = p]]
    <3>1. PICK p \in Prices :
            reports = [i \in DOMAIN fills[o] |-> [fills[o][i] EXCEPT !.price = p]]
      BY <2>3
    <3>2. p \in Nat
      BY PricesAssumption
    <3> QED BY <2>1, <3>1, <3>2
  <2> QED BY <2>2, <2>3 DEF Reports
<1>3. IsFiniteSet(DOMAIN reports)
  <2> HIDE DEF Fill
  <2>1. Len(fills[o]) \in Int /\ 1 \in Int
    BY <1>1
  <2> QED BY <1>2, <2>1, FS_Interval
<1> DEFINE paid == [i \in DOMAIN reports |-> reports[i].quantity * reports[i].price]
<1>4. DOMAIN paid = DOMAIN reports /\ \A i \in DOMAIN paid : paid[i] \in Int
  BY <1>2
<1> HIDE DEF paid
<1>5. SumFunctionOnSet(paid, DOMAIN paid) \in Int
  BY <1>3, <1>4, SumTyped
<1> QED BY <1>5 DEF Money, SumFunction, paid

\* What the captures of an allocation add up to: some shares, and money if the
\* captures' money is a number.
LEMMA BatchTyped ==
  ASSUME TypeOK, NEW batch \in Batches
  PROVE  /\ batch[1] \in OrderIds /\ BatchQuantity(batch) \in Nat \ {0}
         /\ (\A o \in OrderIds : captures[o] # NoCapture => captures[o].money \in Int)
              => BatchMoney(batch) \in Int
<1> DEFINE dom      == DOMAIN batch
           quantity == [i \in dom |-> captures[batch[i]].quantity]
           money    == [i \in dom |-> captures[batch[i]].money]
<1>1. PICK n \in 1 .. MaxCaptures :
        batch \in [1 .. n -> {o \in OrderIds : captures[o] # NoCapture}]
  BY DEF Batches
<1>2. n \in Nat /\ dom = 1 .. n /\ 1 \in dom
  BY <1>1, MaxAllocationsAssumption
<1>3. IsFiniteSet(dom)
  BY <1>2, FS_Interval
<1>4. \A i \in dom : batch[i] \in OrderIds /\ captures[batch[i]] # NoCapture
  BY <1>1
<1>5. \A i \in dom : quantity[i] \in Nat \ {0}
  BY <1>4 DEF TypeOK, TradeTypeOK
<1>6. /\ BatchQuantity(batch) = SumFunctionOnSet(quantity, dom)
      /\ BatchMoney(batch) = SumFunctionOnSet(money, dom)
  BY DEF BatchQuantity, BatchMoney, SumFunction
<1>7. (\A o \in OrderIds : captures[o] # NoCapture => captures[o].money \in Int)
        => \A i \in dom : money[i] \in Int
  BY <1>4
<1> DEFINE rest == dom \ {1}
           none == {}
<1> HIDE DEF dom, quantity, money
<1>8. /\ IsFiniteSet(rest) /\ none \subseteq rest
      /\ \A i \in rest : quantity[i] \in Nat
      /\ \A i \in none : quantity[i] \in Nat /\ quantity[i] <= quantity[i]
  BY <1>2, <1>3, <1>5, FS_RemoveElement
<1>9. \A i \in dom : quantity[i] \in Int
  BY <1>5
<1>10. /\ SumFunctionOnSet(quantity, dom)
             = quantity[1] + SumFunctionOnSet(quantity, rest)
       /\ SumFunctionOnSet(quantity, none) = 0
  BY <1>2, <1>3, <1>9, SumWithout, SumOfNone
<1> HIDE DEF rest, none
<1>11. NoMore(quantity, none, quantity, rest)
  BY <1>8, SumMonotone
<1>12. SumFunctionOnSet(quantity, rest) \in Nat
  BY <1>10, <1>11 DEF NoMore
<1>13. quantity[1] \in Nat \ {0}
  BY <1>2, <1>5
<1>14. BatchQuantity(batch) \in Nat \ {0}
  BY <1>6, <1>10, <1>12, <1>13
<1>15. (\A i \in dom : money[i] \in Int) => BatchMoney(batch) \in Int
  BY <1>3, <1>6, SumTyped
<1> QED BY <1>2, <1>4, <1>7, <1>14, <1>15

\* A sequence that grows by an element holds what it held, and the element.
LEMMA OneMore ==
  ASSUME NEW before, before \in Seq(Range(before)), NEW made
  PROVE  LET after == Append(before, made)
         IN  /\ after \in Seq(Range(after))
             /\ \A i \in DOMAIN after :
                  after[i] = made \/ (i \in DOMAIN before /\ after[i] = before[i])
<1> DEFINE after == Append(before, made)
           kept  == Range(before)
<1>1. before \in Seq(kept)
  OBVIOUS
<1> HIDE DEF kept
<1>2. /\ after \in Seq(kept \cup {made}) /\ DOMAIN after = 1 .. Len(before) + 1
      /\ Len(before) \in Nat /\ DOMAIN before = 1 .. Len(before)
      /\ \A i \in DOMAIN after :
           after[i] = made \/ (i \in DOMAIN before /\ after[i] = before[i])
  BY <1>1
<1>3. \A i \in DOMAIN after : after[i] \in Range(after)
  BY DEF Range
<1> HIDE DEF after
<1>4. after = [i \in DOMAIN after |-> after[i]]
  BY <1>2
<1>5. after \in [1 .. Len(before) + 1 -> Range(after)]
  BY <1>2, <1>3, <1>4
<1>6. after \in Seq(Range(after))
  BY <1>2, <1>5
<1> QED BY <1>2, <1>6 DEF after

LEMMA DividedInit == Init => Divided
<1> SUFFICES ASSUME Init PROVE Divided
  OBVIOUS
<1>1. /\ captures = [o \in OrderIds |-> NoCapture]
      /\ allocations = [o \in OrderIds |-> <<>>]
  BY DEF Init, TradeInit
<1> QED BY <1>1 DEF Divided, Cashed

LEMMA DividedNext == TypeOK /\ IInv /\ Divided /\ [Next]_vars => Divided'
<1> SUFFICES ASSUME TypeOK, IInv, Divided, [Next]_vars PROVE Divided'
  OBVIOUS
<1>1. ASSUME NEW o \in OrderIds, Capture(o) PROVE Divided'
  <2>1. PICK reports \in Reports(o) :
          captures' = [captures EXCEPT ![o] = [quantity |-> Quantity(reports),
                                               money |-> Money(reports)]]
    BY <1>1 DEF Capture
  <2>2. UNCHANGED allocations
    BY <1>1 DEF Capture
  <2>3. Money(reports) \in Int
    BY ReportsPriced
  <2> QED BY <2>1, <2>2, <2>3 DEF Divided, Cashed, OddSmall, CentsKept
<1>2. ASSUME NEW batch \in Batches, NEW plan \in Plans, Allocate(batch, plan)
      PROVE  Divided'
  <2> DEFINE o     == batch[1]
             total == BatchQuantity(batch)
             money == BatchMoney(batch)
             made  == Allocated(batch, plan, total, money)
  <2>1. /\ Divisible(plan, total) /\ Recordable(made)
        /\ allocations' = [allocations EXCEPT ![o] = Append(@, made)]
        /\ UNCHANGED captures
    BY <1>2 DEF Allocate, Planned
  <2>2. o \in OrderIds /\ total \in Nat \ {0} /\ money \in Int
    BY BatchTyped DEF Divided, Cashed
  <2> HIDE DEF total, money, o
  <2>3. OddSmall(made) /\ CentsKept(made)
    BY <2>1, <2>2, OddCents, CentsAddUp
  <2> DEFINE before == allocations[o]
             after  == Append(before, made)
  <2>4. /\ before \in Seq(Range(before))
        /\ \A i \in DOMAIN before : OddSmall(before[i]) /\ CentsKept(before[i])
    BY <2>2 DEF Divided, Cashed
  <2> HIDE DEF made, before
  <2>5. /\ after \in Seq(Range(after))
        /\ \A i \in DOMAIN after :
             after[i] = made \/ (i \in DOMAIN before /\ after[i] = before[i])
    BY <2>4, OneMore
  <2>6. \A i \in DOMAIN after : OddSmall(after[i]) /\ CentsKept(after[i])
    <3> HIDE DEF after
    <3> QED BY <2>3, <2>4, <2>5
  <2>7. after \in Seq(Range(after))
    BY <2>5
  <2>8. /\ allocations'[o] = after
        /\ \A x \in OrderIds \ {o} : allocations'[x] = allocations[x]
        /\ DOMAIN allocations' = OrderIds
    BY <2>1, <2>2 DEF Divided, before
  <2> HIDE DEF after
  <2>9. Cashed(o)' /\ allocations'[o] \in Seq(Range(allocations'[o]))
    BY <2>1, <2>2, <2>6, <2>7, <2>8 DEF Divided, Cashed, OddSmall, CentsKept
  <2>10. ASSUME NEW x \in OrderIds \ {o}
         PROVE  Cashed(x)' /\ allocations'[x] \in Seq(Range(allocations'[x]))
    BY <2>1, <2>8 DEF Cashed, Divided, OddSmall, CentsKept
  <2> QED BY <2>1, <2>8, <2>9, <2>10 DEF Divided
<1>3. UNCHANGED <<captures, allocations>> => Divided'
  BY DEF Divided, Cashed
<1>4. ASSUME NEW o \in OrderIds, NEW p \in OrderIds, NEW fact \in Facts,
             CancelTrade(o) \/ RecordMatch(o, fact) \/ Affirm(o, p, fact)
      PROVE  Divided'
  BY <1>3, <1>4 DEF CancelTrade, RecordMatch, Affirm, Conclude, tradeVars
<1>5. ASSUME NEW o \in OrderIds, NEW p \in OrderIds,
             \/ \E intent \in Intents, legs \in Legs : FormObligation(o, intent, legs)
             \/ \E acceptance \in Acceptances : RecordHandoff(o, p, acceptance)
      PROVE  Divided'
  BY <1>3, <1>5 DEF FormObligation, RecordHandoff, tradeVars
<1>6. CASE TradeStep
  <2>1. CASE \E o \in OrderIds : Capture(o)
    BY <1>1, <2>1
  <2>2. CASE \E batch \in Batches, plan \in Plans : Allocate(batch, plan)
    BY <1>2, <2>2
  <2>3. CASE \E o \in OrderIds : CancelTrade(o)
    BY <1>3, <2>3 DEF CancelTrade, tradeVars
  <2>4. CASE \E o, p \in OrderIds, fact \in Facts :
               RecordMatch(o, fact) \/ Affirm(o, p, fact)
    BY <1>4, <2>4
  <2> QED BY <1>6, <2>1, <2>2, <2>3, <2>4 DEF TradeStep
<1>7. CASE UNCHANGED vars
  BY <1>3, <1>7 DEF vars, tradeVars
<1> QED
  BY <1>5, <1>6, <1>7 DEF Next

\* The odd cents of every allocation stay within what rounding makes, for any
\* plans, fills, stated prices and scale (OddCentsSmall).
THEOREM OddCentsBounded == Spec => []OddCentsSmall
<1>1. Divided => OddCentsSmall
  BY DEF Divided, Cashed, OddCentsSmall, Allocations, OddSmall
<1>2. IInv /\ [Next]_vars => IInv'
  BY InvNext
<1> QED
  BY <1>1, SettlementTyped, Invariant, DividedInit, DividedNext, PTL DEF Spec

\* In every allocation the accounts pay the executed money to the cent, for any
\* plans, fills, stated prices and scale: the last check of allocate, which its
\* tests leave uncovered, never refuses one (trade.py:320).
THEOREM CentsConserved == Spec => [](\A a \in Allocations : CentsKept(a))
<1>1. Divided => \A a \in Allocations : CentsKept(a)
  BY DEF Divided, Cashed, Allocations
<1>2. IInv /\ [Next]_vars => IInv'
  BY InvNext
<1> QED
  BY <1>1, SettlementTyped, Invariant, DividedInit, DividedNext, PTL DEF Spec

-----------------------------------------------------------------------------
(* The division into whole shares                                           *)

\* What the rounding of an exact part keeps, what it leaves over, and what the
\* target is then short of, a share being TargetTotal.
Whole(plan, total, i) == Exact(plan, total)[i] \div Unit
Rest(plan, total, i) == Exact(plan, total)[i] % Unit
Short(plan, total, i) ==
  (total \div Unit) * plan.targets[i].quantity - TargetTotal(plan) * Whole(plan, total, i)

\* The hypotheses of a division: whole shares, no more than the targets hold,
\* and targets that are multiples of the grain.
Grained(plan, total, grain) ==
  /\ total % Unit = 0
  /\ TargetTotal(plan) < grain * Unit
  /\ \A i \in DOMAIN plan.targets : plan.targets[i].quantity % grain = 0

\* A multiple of the grain that a whole grain would take beyond the bound is not
\* positive.
LEMMA GrainLess ==
  ASSUME NEW grain \in Nat \ {0}, NEW unit \in Nat \ {0}, NEW k \in Int, NEW n \in Int,
         n < grain * unit, unit * (grain * k) <= n
  PROVE  grain * k <= 0
<1>1. SUFFICES ASSUME k >= 1 PROVE FALSE
  <2>1. k <= 0 => grain * k <= 0
    OBVIOUS
  <2> QED BY <2>1
<1>2. unit * grain \in Nat /\ unit * grain = grain * unit
  OBVIOUS
<1>3. unit * (grain * k) = (unit * grain) * k
  OBVIOUS
<1>4. (unit * grain) * k >= unit * grain
  <2> DEFINE m == unit * grain
  <2>1. m \in Nat
    BY <1>2
  <2> HIDE DEF m
  <2>2. m * k >= m
    BY <1>1, <2>1
  <2> QED BY <2>2 DEF m
<1> DEFINE m == unit * grain
<1>5. m \in Nat /\ m * k \in Int /\ m * k >= m /\ n < m /\ m * k <= n
  BY <1>2, <1>3, <1>4
<1> HIDE DEF m
<1> QED BY <1>5

\* What every target is short of is a multiple of the grain.
LEMMA ShortGrained ==
  ASSUME NEW plan \in Plans, NEW total \in Int, NEW grain \in Nat \ {0},
         Grained(plan, total, grain), NEW i \in DOMAIN plan.targets,
         Whole(plan, total, i) \in Int
  PROVE  \E k \in Int : Short(plan, total, i) = grain * k
<1> DEFINE dom    == DOMAIN plan.targets
           wanted == [j \in dom |-> plan.targets[j].quantity]
           grains == [j \in dom |-> plan.targets[j].quantity \div grain]
<1>1. /\ IsFiniteSet(dom)
      /\ \A j \in dom : /\ plan.targets[j].quantity \in Int
                        /\ plan.targets[j].quantity % grain = 0
  BY PlansAssumption DEF Grained
<1>2. \A j \in dom : /\ wanted[j] \in Int /\ grains[j] \in Int
                     /\ 1 * wanted[j] - grain * grains[j] <= 0
                     /\ grain * grains[j] - 1 * wanted[j] <= 0
  <2>1. \A q \in Int : q % grain = 0 => q \div grain \in Int /\ q = grain * (q \div grain)
    OBVIOUS
  <2> HIDE DEF dom
  <2>2. ASSUME NEW j \in dom
        PROVE  wanted[j] = grain * grains[j] /\ wanted[j] \in Int /\ grains[j] \in Int
    <3>1. wanted[j] = plan.targets[j].quantity /\ grains[j] = plan.targets[j].quantity \div grain
      OBVIOUS
    <3> QED BY <1>1, <2>1, <3>1
  <2> HIDE DEF wanted, grains
  <2> QED BY <2>2
<1>3. DOMAIN wanted = dom /\ TargetTotal(plan) = SumFunctionOnSet(wanted, dom)
  BY DEF TargetTotal, SumFunction
<1>4. wanted[i] = plan.targets[i].quantity /\ i \in dom
  OBVIOUS
<1> DEFINE Q == SumFunctionOnSet(wanted, dom)
           G == SumFunctionOnSet(grains, dom)
           T == total \div Unit
           w == Whole(plan, total, i)
<1> HIDE DEF wanted, grains, dom
<1>5. /\ Q \in Int /\ G \in Int
      /\ 1 * Q - grain * G <= 0 * Cardinality(dom)
      /\ grain * G - 1 * Q <= 0 * Cardinality(dom)
  BY <1>1, <1>2, SumsNear DEF Within
<1>6. Cardinality(dom) \in Int
  BY <1>1, FS_CardinalityType
<1> HIDE DEF Q, G
<1>7. Q = grain * G
  BY <1>5, <1>6
<1>8. T \in Int /\ w \in Int
  BY ScaleAssumption
<1>9. wanted[i] = grain * grains[i] /\ grains[i] \in Int
  BY <1>2, <1>4
<1>10. Short(plan, total, i) = T * wanted[i] - Q * w
  BY <1>3, <1>4 DEF Short, Q
<1> HIDE DEF T, w
<1> DEFINE p == grains[i]
<1>11. T * (grain * p) = grain * (T * p) /\ (grain * G) * w = grain * (G * w)
       /\ T * p \in Int /\ G * w \in Int
  BY <1>5, <1>8, <1>9
<1>12. grain * (T * p - G * w) = grain * (T * p) - grain * (G * w)
  BY <1>11
<1>13. Short(plan, total, i) = grain * (T * p - G * w) /\ T * p - G * w \in Int
  BY <1>7, <1>9, <1>10, <1>11, <1>12
<1> QED BY <1>13

\* An exact part is whole shares and a rest, and what the target is short of is
\* the rest, to within half a unit of every share.
LEMMA PartNear ==
  ASSUME NEW plan \in Plans, NEW total \in Nat \ {0}, total % Unit = 0,
         TargetTotal(plan) \in Nat \ {0}, NEW i \in DOMAIN plan.targets
  PROVE  LET Q == TargetTotal(plan)
             r == Rest(plan, total, i)
             s == Short(plan, total, i)
         IN  /\ Exact(plan, total)[i] = Unit * Whole(plan, total, i) + r
             /\ Whole(plan, total, i) \in Nat /\ r \in Nat /\ r < Unit /\ s \in Int
             /\ 2 * (Unit * s) - 2 * (Q * r) <= Q
             /\ 2 * (Q * r) - 2 * (Unit * s) <= Q
<1> DEFINE Q == TargetTotal(plan)
           q == plan.targets[i].quantity
           e == HalfEven(total * q, Q)
           w == e \div Unit
           r == e % Unit
           T == total \div Unit
<1>1. q \in Nat \ {0} /\ total * q \in Nat /\ total * q \in Int
  BY PlansAssumption
<1>2. e \in Int /\ 2 * Q * e - 2 * (total * q) <= Q /\ 2 * (total * q) - 2 * Q * e <= Q
  BY <1>1, HalfEvenNear
<1>3. Exact(plan, total)[i] = e
  BY DEF Exact
<1>4. total = Unit * T /\ T \in Int
  BY ScaleAssumption
<1> HIDE DEF e, Q
<1>5. e >= 0
  <2>1. SUFFICES ASSUME e <= -1 PROVE FALSE
    BY <1>2
  <2>2. 2 * Q * e = Q * (2 * e) /\ Q * (2 * e) <= Q * (-2)
    BY <1>2, <2>1 DEF Q
  <2>3. Q \in Nat \ {0} /\ 2 * Q * e \in Int /\ Q * (-2) = -2 * Q
    BY <1>2 DEF Q
  <2> DEFINE a == total * q
             c == 2 * Q * e
  <2>4. a \in Nat /\ c \in Int /\ 2 * a - c <= Q /\ c <= -2 * Q
    BY <1>1, <1>2, <2>2, <2>3
  <2> HIDE DEF a, c
  <2> QED BY <2>3, <2>4
<1>6. e = Unit * w + r /\ w \in Nat /\ r \in Nat /\ r < Unit
  BY <1>2, <1>5, ScaleAssumption
<1>7. Short(plan, total, i) = T * q - Q * w
  BY <1>3 DEF Short, Whole, Q
<1>8. Rest(plan, total, i) = r /\ Whole(plan, total, i) = w
  BY <1>3 DEF Rest, Whole
<1>9. Unit \in Nat /\ Q \in Nat
  BY ScaleAssumption DEF Q
<1> HIDE DEF q, w, r, T
<1>10. /\ T * q \in Int /\ Q * w \in Int /\ Q * r \in Int
       /\ Unit * (T * q - Q * w) = Unit * (T * q) - Unit * (Q * w)
       /\ Unit * (T * q) \in Int /\ Unit * (Q * w) \in Int
  BY <1>1, <1>4, <1>6, <1>9
<1>11. 2 * Q * e = 2 * (Unit * (Q * w)) + 2 * (Q * r)
  BY <1>6, <1>9
<1>12. total * q = Unit * (T * q)
  BY <1>1, <1>4, <1>9
<1> DEFINE A == Unit * (T * q)
           B == Unit * (Q * w)
           C == Q * r
           s == T * q - Q * w
<1>13. /\ A \in Int /\ B \in Int /\ C \in Int /\ s \in Int /\ Unit * s = A - B
       /\ 2 * B + 2 * C - 2 * A <= Q /\ 2 * A - (2 * B + 2 * C) <= Q
  BY <1>2, <1>10, <1>11, <1>12
<1>14. 2 * (Unit * s) - 2 * C <= Q /\ 2 * C - 2 * (Unit * s) <= Q
  <2> HIDE DEF A, B, C, s
  <2> QED BY <1>9, <1>13
<1>15. /\ 2 * (Unit * Short(plan, total, i)) - 2 * (Q * Rest(plan, total, i)) <= Q
       /\ 2 * (Q * Rest(plan, total, i)) - 2 * (Unit * Short(plan, total, i)) <= Q
       /\ Short(plan, total, i) \in Int
  BY <1>7, <1>8, <1>13, <1>14
<1> QED BY <1>3, <1>6, <1>8, <1>15 DEF Q

\* With digits enough, a target whose exact part is whole is short of nothing,
\* one with a rest is short of a part of a share, and of two targets the one with
\* the smaller rest is short of no more.
LEMMA ShortRanked ==
  ASSUME NEW plan \in Plans, NEW total \in Nat \ {0}, NEW grain \in Nat \ {0},
         Grained(plan, total, grain), TargetTotal(plan) \in Nat \ {0}
  PROVE  /\ \A i \in DOMAIN plan.targets :
              /\ Rest(plan, total, i) = 0 => Short(plan, total, i) = 0
              /\ Rest(plan, total, i) > 0 => Short(plan, total, i) > 0
              /\ Short(plan, total, i) < TargetTotal(plan)
         /\ \A i, j \in DOMAIN plan.targets :
              Rest(plan, total, j) <= Rest(plan, total, i) =>
                Short(plan, total, j) <= Short(plan, total, i)
<1> DEFINE Q == TargetTotal(plan)
<1>1. /\ Q \in Nat \ {0} /\ Q < grain * Unit /\ total % Unit = 0 /\ Unit \in Nat \ {0}
  BY ScaleAssumption DEF Grained
<1>2. ASSUME NEW i \in DOMAIN plan.targets
      PROVE  /\ Rest(plan, total, i) = 0 => Short(plan, total, i) = 0
             /\ Rest(plan, total, i) > 0 => Short(plan, total, i) > 0
             /\ Short(plan, total, i) < Q
  <2> DEFINE r == Rest(plan, total, i)
             s == Short(plan, total, i)
  <2>1. /\ Whole(plan, total, i) \in Nat /\ r \in Nat /\ r < Unit /\ s \in Int
        /\ 2 * (Unit * s) - 2 * (Q * r) <= Q
        /\ 2 * (Q * r) - 2 * (Unit * s) <= Q
    BY <1>1, PartNear
  <2>2. PICK k \in Int : s = grain * k
    BY <2>1, ShortGrained
  <2> HIDE DEF r, s, Q
  <2>3. Unit * s \in Int /\ Q * r \in Int
    BY <1>1, <2>1
  <2>4. CASE r = 0
    <3>1. Q * r = 0 /\ Unit * s <= Q /\ -(Unit * s) <= Q
      <4>1. Q * r = 0
        BY <1>1, <2>4
      <4> DEFINE us == Unit * s
      <4>2. us \in Int /\ 2 * us <= Q /\ -2 * us <= Q
        BY <1>1, <2>1, <2>3, <4>1
      <4> HIDE DEF us
      <4>3. us <= Q /\ -us <= Q
        BY <1>1, <4>2
      <4> QED BY <4>1, <4>3 DEF us
    <3>2. s <= 0
      BY <1>1, <2>2, <3>1, GrainLess
    <3>3. grain * (-k) = -s /\ -k \in Int /\ Unit * (-s) = -(Unit * s)
      BY <1>1, <2>1, <2>2
    <3>4. grain * (-k) <= 0
      BY <1>1, <3>1, <3>3, GrainLess
    <3> DEFINE back == grain * (-k)
    <3>5. back = -s /\ back <= 0
      BY <3>3, <3>4
    <3> HIDE DEF back
    <3>6. s = 0
      BY <2>1, <3>2, <3>5
    <3>7. ~(r > 0) /\ s < Q
      BY <1>1, <2>4, <3>6
    <3> QED BY <3>6, <3>7 DEF r, s, Q
  <2>5. CASE r > 0
    <3> DEFINE us == Unit * s
               qr == Q * r
               qu == Q * Unit
    <3>1. Q <= qr /\ qr <= qu - Q
      <4>1. Q * r >= Q * 1
        BY <1>1, <2>1, <2>5
      <4>2. Q * r <= Q * (Unit - 1) /\ Q * (Unit - 1) = Q * Unit - Q
        BY <1>1, <2>1, <2>5
      <4> QED BY <1>1, <4>1, <4>2
    <3>2. us \in Int /\ qr \in Int /\ qu \in Int /\ 2 * us - 2 * qr <= Q /\ 2 * qr - 2 * us <= Q
      BY <1>1, <2>1, <2>3
    <3> HIDE DEF us, qr, qu
    <3>3. us > 0 /\ us < qu
      BY <1>1, <3>1, <3>2
    <3>4. s > 0
      <4>1. s <= 0 => us <= 0
        BY <1>1, <2>1 DEF us
      <4> QED BY <2>1, <3>2, <3>3, <4>1
    <3>5. s < Q
      <4>1. s >= Q => Unit * s >= Unit * Q
        BY <1>1, <2>1
      <4>2. Unit * Q = qu
        BY <1>1 DEF qu
      <4> QED BY <1>1, <2>1, <3>2, <3>3, <4>1, <4>2 DEF us
    <3> QED BY <2>1, <2>5, <3>4, <3>5 DEF r, s, Q
  <2> QED BY <2>1, <2>4, <2>5
<1>2a. ASSUME NEW x \in DOMAIN plan.targets
      PROVE  \E k \in Int : Short(plan, total, x) = grain * k
  <2>1. Whole(plan, total, x) \in Int
    BY <1>1, PartNear
  <2> QED BY <2>1, ShortGrained
<1>3. ASSUME NEW i \in DOMAIN plan.targets, NEW j \in DOMAIN plan.targets,
             Rest(plan, total, j) <= Rest(plan, total, i)
      PROVE  Short(plan, total, j) <= Short(plan, total, i)
  <2> DEFINE r(x) == Rest(plan, total, x)
             s(x) == Short(plan, total, x)
             ri == r(i)
             rj == r(j)
             si == s(i)
             sj == s(j)
  <2>1. /\ Whole(plan, total, i) \in Nat /\ ri \in Nat /\ si \in Int
        /\ 2 * (Q * ri) - 2 * (Unit * si) <= Q
    BY <1>1, PartNear
  <2>2. /\ Whole(plan, total, j) \in Nat /\ rj \in Nat /\ sj \in Int
        /\ 2 * (Unit * sj) - 2 * (Q * rj) <= Q
    BY <1>1, PartNear
  <2>3. PICK k \in Int : si = grain * k
    BY <1>2a
  <2>4. PICK m \in Int : sj = grain * m
    BY <1>2a
  <2>5. rj <= ri
    BY <1>3
  <2>6. si = Short(plan, total, i) /\ sj = Short(plan, total, j)
    OBVIOUS
  <2> HIDE DEF ri, rj, si, sj, Q
  <2>7. Q * rj <= Q * ri /\ Q * rj \in Int /\ Q * ri \in Int /\ Unit * si \in Int /\ Unit * sj \in Int
    BY <1>1, <2>1, <2>2, <2>5
  <2> DEFINE qi == Q * ri
             qj == Q * rj
             ui == Unit * si
             uj == Unit * sj
  <2>8. /\ qi \in Int /\ qj \in Int /\ ui \in Int /\ uj \in Int
        /\ qj <= qi /\ 2 * qi - 2 * ui <= Q /\ 2 * uj - 2 * qj <= Q
    BY <2>1, <2>2, <2>7
  <2>9. Unit * (sj - si) = uj - ui /\ sj - si = grain * (m - k) /\ m - k \in Int
    BY <1>1, <2>1, <2>2, <2>3, <2>4
  <2> HIDE DEF qi, qj, ui, uj
  <2>10. uj - ui <= Q
    BY <1>1, <2>8
  <2>11. Unit * (grain * (m - k)) <= Q
    BY <2>9, <2>10
  <2>12. grain * (m - k) <= 0
    BY <1>1, <2>9, <2>11, GrainLess
  <2>13. sj - si <= 0
    BY <2>9, <2>12
  <2> QED BY <2>1, <2>2, <2>6, <2>13
<1> QED BY <1>2, <1>3

\* The targets with a rest.
Unfinished(plan, total) == {i \in DOMAIN plan.targets : Rest(plan, total, i) > 0}

\* The left-over shares are what the whole ones leave of the total, and no more
\* than the targets with a rest.
LEMMA LeftOver ==
  ASSUME NEW plan \in Plans, NEW total \in Nat \ {0}, NEW grain \in Nat \ {0},
         Grained(plan, total, grain), TargetTotal(plan) \in Nat \ {0}
  PROVE  LET dom   == DOMAIN plan.targets
             whole == [i \in dom |-> Whole(plan, total, i)]
         IN  /\ Residual(plan, total) \in Nat
             /\ Residual(plan, total) <= Cardinality(Unfinished(plan, total))
             /\ SumFunctionOnSet(whole, dom) \in Int
             /\ Residual(plan, total) = (total \div Unit) - SumFunctionOnSet(whole, dom)
<1> DEFINE Q      == TargetTotal(plan)
           T      == total \div Unit
           dom    == DOMAIN plan.targets
           wanted == [i \in dom |-> plan.targets[i].quantity]
           whole  == [i \in dom |-> Whole(plan, total, i)]
           floors == Floors(plan, total)
           few    == Unfinished(plan, total)
<1>1. /\ Q \in Nat \ {0} /\ total % Unit = 0 /\ Unit \in Nat \ {0}
      /\ T \in Int /\ total = Unit * T /\ IsFiniteSet(dom) /\ few \subseteq dom
  BY ScaleAssumption, PlansAssumption DEF Grained, Unfinished
<1>2. ASSUME NEW i \in dom
      PROVE  /\ wanted[i] \in Int /\ whole[i] \in Int /\ floors[i] = Unit * whole[i]
             /\ Short(plan, total, i) = T * wanted[i] - Q * whole[i]
             /\ Short(plan, total, i) \in Int
             /\ Short(plan, total, i) <= (IF i \in few THEN Q ELSE 0)
             /\ 0 <= Short(plan, total, i)
  <2>1. /\ Whole(plan, total, i) \in Nat /\ Rest(plan, total, i) \in Nat
        /\ Short(plan, total, i) \in Int
    BY <1>1, PartNear
  <2>2. wanted[i] \in Int
    BY PlansAssumption
  <2>3. floors[i] = Unit * whole[i]
    BY DEF Floors, Exact, Whole
  <2>4. Short(plan, total, i) = T * wanted[i] - Q * whole[i]
    BY DEF Short
  <2>5. Short(plan, total, i) <= IF i \in few THEN Q ELSE 0
    <3>1. /\ Rest(plan, total, i) = 0 => Short(plan, total, i) = 0
          /\ Short(plan, total, i) < Q
      BY ShortRanked
    <3> HIDE DEF Q
    <3> QED BY <1>1, <2>1, <3>1 DEF Unfinished
  <2>6. 0 <= Short(plan, total, i)
    <3>1. /\ Rest(plan, total, i) = 0 => Short(plan, total, i) = 0
          /\ Rest(plan, total, i) > 0 => Short(plan, total, i) > 0
      BY ShortRanked
    <3> QED BY <2>1, <3>1
  <2> QED BY <2>1, <2>2, <2>3, <2>4, <2>5, <2>6
<1>3. /\ Q = SumFunctionOnSet(wanted, dom)
      /\ SumFunction(floors) = SumFunctionOnSet(floors, dom)
  BY DEF TargetTotal, SumFunction, Floors, Exact
<1>4. few \cap dom = few /\ dom \cap few = few
  BY <1>1
<1>5. Residual(plan, total) = (total - SumFunction(floors)) \div Unit
  BY DEF Residual
<1> HIDE DEF Q, T, dom, wanted, whole, floors, few
<1>6. Leads(T, wanted, Q, whole, dom, Q, few)
  <2>1. \A i \in dom : /\ wanted[i] \in Int /\ whole[i] \in Int
                       /\ T * wanted[i] - Q * whole[i] <= IF i \in few THEN Q ELSE 0
    BY <1>2
  <2> QED BY <1>1, <2>1, SumsLead
<1>6a. Leads(Q, whole, T, wanted, dom, 0, few)
  <2>1. \A i \in dom : /\ wanted[i] \in Int /\ whole[i] \in Int
                       /\ Q * whole[i] - T * wanted[i] <= IF i \in few THEN 0 ELSE 0
    <3>1. ASSUME NEW i \in dom
          PROVE  Q * whole[i] - T * wanted[i] <= 0
      <4> DEFINE a == T * wanted[i]
                 b == Q * whole[i]
      <4>1. a \in Int /\ b \in Int /\ 0 <= a - b
        BY <1>1, <1>2
      <4> HIDE DEF a, b
      <4>2. b - a <= 0
        BY <4>1
      <4> QED BY <4>2 DEF a, b
    <3> QED BY <1>2, <3>1
  <2> QED BY <1>1, <2>1, SumsLead
<1>7. Within(1, floors, Unit, whole, dom, 0)
  <2>1. \A i \in dom : /\ floors[i] \in Int /\ whole[i] \in Int
                       /\ 1 * floors[i] - Unit * whole[i] <= 0
                       /\ Unit * whole[i] - 1 * floors[i] <= 0
    <3>1. ASSUME NEW i \in dom
          PROVE  floors[i] \in Int /\ whole[i] \in Int /\ floors[i] = Unit * whole[i]
      BY <1>1, <1>2
    <3> QED BY <3>1
  <2> QED BY <1>1, <2>1, SumsNear
<1> DEFINE W == SumFunctionOnSet(whole, dom)
           F == SumFunctionOnSet(floors, dom)
           n == Cardinality(few)
<1>8. n \in Nat /\ Cardinality(dom) \in Nat
  BY <1>1, FS_Subset, FS_CardinalityType
<1>9. /\ W \in Int /\ F \in Int
      /\ T * Q - Q * W <= Q * n
      /\ 1 * F - Unit * W <= 0 * Cardinality(dom) /\ Unit * W - 1 * F <= 0 * Cardinality(dom)
  BY <1>3, <1>4, <1>6, <1>7 DEF Leads, Within
<1> HIDE DEF W, F, n
<1>10. F = Unit * W
  BY <1>1, <1>8, <1>9
<1>11. (total - F) \div Unit = T - W
  <2>1. total - F = Unit * (T - W) /\ T - W \in Int
    BY <1>1, <1>9, <1>10
  <2>2. \A m \in Int : (Unit * m) \div Unit = m
    BY <1>1
  <2> QED BY <2>1, <2>2
<1>12. Residual(plan, total) = T - W
  BY <1>3, <1>5, <1>11 DEF F
<1>13. 0 <= T - W
  <2>1. Q * W - T * Q <= 0 * n
    BY <1>3, <1>4, <1>6a DEF Leads, W, n
  <2>2. Q * (W - T) = Q * W - T * Q /\ 0 * n = 0
    BY <1>1, <1>8, <1>9
  <2>3. W - T >= 1 => Q * (W - T) >= Q
    BY <1>1, <1>9
  <2> QED BY <1>1, <1>9, <2>1, <2>2, <2>3
<1>14. T - W <= n
  <2>1. T * Q - Q * W = Q * (T - W)
    BY <1>1, <1>9
  <2>2. T - W >= n + 1 => Q * (T - W) >= Q * (n + 1)
    BY <1>1, <1>8, <1>9
  <2>3. Q * (n + 1) = Q * n + Q /\ Q * n \in Int /\ Q * (T - W) \in Int
    BY <1>1, <1>8, <1>9
  <2> DEFINE qn == Q * n
             qd == Q * (T - W)
  <2>4. qn \in Int /\ qd \in Int /\ qd <= qn /\ (T - W >= n + 1 => qd >= qn + Q)
    BY <1>9, <2>1, <2>2, <2>3
  <2> HIDE DEF qn, qd
  <2> QED BY <1>1, <1>8, <1>9, <2>4
<1>15. Residual(plan, total) \in Nat /\ Residual(plan, total) <= n
  BY <1>1, <1>9, <1>12, <1>13, <1>14
<1> QED BY <1>9, <1>12, <1>15 DEF n, few, W, T, whole, dom

\* The rests, as the order of the left-over shares sees them, and the targets
\* that get one.
Rests(plan, total) == [i \in DOMAIN plan.targets |-> Rest(plan, total, i)]

Lucky(plan, total) ==
  {i \in DOMAIN plan.targets :
     Cardinality(Ahead(plan, Rests(plan, total), i)) < Residual(plan, total)}

\* A target gets its whole shares, and one more when it is lucky.
LEMMA SharesWhole ==
  ASSUME NEW plan \in Plans, NEW total \in Nat \ {0}, total % Unit = 0,
         TargetTotal(plan) \in Nat \ {0}, ~plan.fractional,
         NEW i \in DOMAIN plan.targets
  PROVE  Shares(plan, total)[i] =
           Unit * (Whole(plan, total, i) + (IF i \in Lucky(plan, total) THEN 1 ELSE 0))
<1> DEFINE exact     == Exact(plan, total)
           floors    == Floors(plan, total)
           remainder == [x \in DOMAIN exact |-> exact[x] - floors[x]]
           lucky     == {x \in DOMAIN exact :
                           Cardinality(Ahead(plan, remainder, x)) < Residual(plan, total)}
<1>1. DOMAIN exact = DOMAIN plan.targets
  BY DEF Exact
<1>2. \A x \in DOMAIN plan.targets : floors[x] = Unit * Whole(plan, total, x)
  BY DEF Floors, Whole, Exact
<1>3. remainder = Rests(plan, total)
  <2>1. ASSUME NEW x \in DOMAIN plan.targets
        PROVE  exact[x] - floors[x] = Rest(plan, total, x)
    <3>1. /\ exact[x] = Unit * Whole(plan, total, x) + Rest(plan, total, x)
          /\ Whole(plan, total, x) \in Nat /\ Rest(plan, total, x) \in Nat
      BY PartNear
    <3>2. floors[x] = Unit * Whole(plan, total, x) /\ floors[x] \in Int
      BY <1>2, <3>1, ScaleAssumption
    <3> HIDE DEF exact, floors
    <3> QED BY <3>1, <3>2
  <2> QED BY <1>1, <2>1 DEF Rests
<1>4. lucky = Lucky(plan, total)
  <2> HIDE DEF exact, remainder
  <2> QED BY <1>1, <1>3 DEF Lucky
<1>5. Shares(plan, total)[i] = floors[i] + (IF i \in lucky THEN Unit ELSE 0)
  BY <1>1 DEF Shares
<1> HIDE DEF exact, floors, remainder, lucky
<1>6. floors[i] = Unit * Whole(plan, total, i) /\ Whole(plan, total, i) \in Nat
  BY <1>2, PartNear
<1> DEFINE w == Whole(plan, total, i)
<1>7. w \in Nat /\ Unit \in Nat
  BY <1>6, ScaleAssumption
<1> HIDE DEF w
<1>8. Unit * (w + 1) = Unit * w + Unit /\ Unit * (w + 0) = Unit * w + 0
  BY <1>7
<1> QED BY <1>4, <1>5, <1>6, <1>8 DEF w

\* In a pro-rata plan the lucky ones have a rest, and none smaller than that of
\* a target that is not.
LEMMA LuckRanked ==
  ASSUME NEW plan \in Plans, NEW total \in Nat \ {0}, NEW grain \in Nat \ {0},
         Grained(plan, total, grain), TargetTotal(plan) \in Nat \ {0},
         plan.rule = "PRO_RATA", NEW i \in Lucky(plan, total)
  PROVE  /\ Rest(plan, total, i) > 0
         /\ \A j \in DOMAIN plan.targets :
              j \notin Lucky(plan, total) => Rest(plan, total, j) <= Rest(plan, total, i)
<1> DEFINE dom == DOMAIN plan.targets
           r   == Rests(plan, total)
           A(x) == Ahead(plan, r, x)
           n   == Residual(plan, total)
           few == Unfinished(plan, total)
<1>1. /\ DOMAIN r = dom /\ IsFiniteSet(dom)
      /\ \A x \in dom : r[x] = Rest(plan, total, x) /\ r[x] \in Nat
  <2>1. total % Unit = 0
    BY DEF Grained
  <2>2. \A x \in dom : Rest(plan, total, x) \in Nat
    BY <2>1, PartNear
  <2> QED BY <2>2, PlansAssumption DEF Rests
<1>2. /\ n \in Int /\ n <= Cardinality(few)
      /\ few = {x \in dom : r[x] > 0}
  <2>1. Residual(plan, total) \in Nat
        /\ Residual(plan, total) <= Cardinality(Unfinished(plan, total))
    BY LeftOver
  <2>2. few = {x \in dom : r[x] > 0}
    BY <1>1 DEF Unfinished
  <2> HIDE DEF r, dom
  <2> QED BY <2>1, <2>2
<1>3. i \in dom /\ Cardinality(A(i)) < n
  BY DEF Lucky
<1>4. \A x \in dom : x \notin Lucky(plan, total) => ~(Cardinality(A(x)) < n)
  BY DEF Lucky
<1> HIDE DEF r, n, few, dom
<1>5. \A x : A(x) = {j \in dom : \/ r[j] > r[x]
                                 \/ r[j] = r[x] /\ j < x}
  BY <1>1 DEF Ahead
<1>6. \A x : A(x) \subseteq dom /\ IsFiniteSet(A(x)) /\ Cardinality(A(x)) \in Nat
  <2>1. \A x : A(x) \subseteq dom
    BY <1>5
  <2> HIDE DEF A
  <2> QED BY <1>1, <2>1, FS_Subset, FS_CardinalityType
<1>7. r[i] > 0
  <2>1. SUFFICES ASSUME r[i] = 0 PROVE FALSE
    BY <1>1, <1>3
  <2>2. few \subseteq A(i)
    BY <1>2, <1>5, <2>1
  <2> DEFINE Ai == A(i)
  <2>3. IsFiniteSet(Ai) /\ Cardinality(Ai) \in Nat /\ few \subseteq Ai /\ Cardinality(Ai) < n
    BY <1>3, <1>6, <2>2
  <2> HIDE DEF Ai
  <2>4. Cardinality(few) <= Cardinality(Ai) /\ Cardinality(few) \in Nat
    BY <2>3, FS_Subset, FS_CardinalityType
  <2> QED BY <1>2, <2>3, <2>4
<1>8. ASSUME NEW j \in dom, j \notin Lucky(plan, total) PROVE r[j] <= r[i]
  <2>1. SUFFICES ASSUME r[j] > r[i] PROVE FALSE
    BY <1>1, <1>3
  <2>2. A(j) \subseteq A(i)
    <3>1. ASSUME NEW x \in dom, r[x] > r[j] \/ r[x] = r[j] PROVE r[x] > r[i]
      BY <1>1, <1>3, <1>8, <2>1, <3>1
    <3> QED BY <1>5, <3>1
  <2> DEFINE Ai == A(i)
             Aj == A(j)
  <2>3. /\ IsFiniteSet(Ai) /\ Cardinality(Ai) \in Nat /\ Cardinality(Aj) \in Nat
        /\ Aj \subseteq Ai /\ Cardinality(Ai) < n /\ ~(Cardinality(Aj) < n)
    BY <1>3, <1>4, <1>6, <1>8, <2>2
  <2> HIDE DEF Ai, Aj
  <2>4. Cardinality(Aj) <= Cardinality(Ai)
    BY <2>3, FS_Subset
  <2> QED BY <1>2, <2>3, <2>4
<1> QED BY <1>1, <1>3, <1>7, <1>8 DEF dom

\* A share taken from one target and given to another brings a division no
\* nearer to the plan when the first was not over the second by more than a share.
LEMMA MoveNoNearer ==
  ASSUME NEW plan \in Plans, TargetTotal(plan) \in Nat \ {0}, NEW total \in Int,
         NEW mine \in [DOMAIN plan.targets -> Int],
         NEW i \in DOMAIN plan.targets, NEW j \in DOMAIN plan.targets, i # j,
         Gap(plan, total, mine, i) - Gap(plan, total, mine, j) <= TargetTotal(plan)
  PROVE  Distance(plan, total, mine) <=
           Distance(plan, total, [mine EXCEPT ![i] = @ - 1, ![j] = @ + 1])
<1> DEFINE Q     == TargetTotal(plan)
           dom   == DOMAIN plan.targets
           moved == [mine EXCEPT ![i] = @ - 1, ![j] = @ + 1]
           g     == [x \in dom |-> Gap(plan, total, mine, x)]
           h     == [x \in dom |-> Gap(plan, total, moved, x)]
           f     == [x \in dom |-> g[x] * g[x]]
           e     == [x \in dom |-> h[x] * h[x]]
           m     == [f EXCEPT ![i] = e[i]]
<1>1. /\ IsFiniteSet(dom) /\ Q \in Nat \ {0}
      /\ \A x \in dom : total * plan.targets[x].quantity \in Int
  BY PlansAssumption
<1>2. /\ moved[i] = mine[i] - 1 /\ moved[j] = mine[j] + 1
      /\ \A x \in dom : x # i /\ x # j => moved[x] = mine[x]
      /\ \A x \in dom : mine[x] \in Int
  OBVIOUS
<1>3. ASSUME NEW x \in dom
      PROVE  /\ g[x] \in Int
             /\ h[x] = IF x = i THEN g[x] - Q ELSE IF x = j THEN g[x] + Q ELSE g[x]
  <2> DEFINE part == total * plan.targets[x].quantity
  <2>1. g[x] = mine[x] * Q - part /\ h[x] = moved[x] * Q - part /\ part \in Int
    BY <1>1 DEF Gap
  <2>2. mine[x] \in Int
    BY <1>2
  <2> HIDE DEF part, Q, g, h, moved
  <2>3. /\ mine[x] * Q \in Int /\ (mine[x] - 1) * Q = mine[x] * Q - Q
        /\ (mine[x] + 1) * Q = mine[x] * Q + Q
    BY <1>1, <2>2
  <2> QED BY <1>1, <1>2, <2>1, <2>3
<1>4. /\ Distance(plan, total, mine) = SumFunctionOnSet(f, dom)
      /\ Distance(plan, total, moved) = SumFunctionOnSet(e, dom)
  <2>1. /\ f = [x \in dom |-> LET d == Gap(plan, total, mine, x) IN d * d]
        /\ e = [x \in dom |-> LET d == Gap(plan, total, moved, x) IN d * d]
    OBVIOUS
  <2>2. DOMAIN f = dom /\ DOMAIN e = dom
    OBVIOUS
  <2> HIDE DEF f, e, g, h, moved
  <2> QED BY <2>1, <2>2 DEF Distance, SumFunction
<1>5. \A x \in dom : f[x] = g[x] * g[x] /\ e[x] = h[x] * h[x]
  OBVIOUS
<1>6. g[i] - g[j] <= Q
  OBVIOUS
<1>7. m[i] = e[i] /\ \A x \in dom : x # i => m[x] = f[x]
  OBVIOUS
<1> HIDE DEF Q, g, h, f, e, m, moved
<1>8. \A x \in dom : f[x] \in Int /\ e[x] \in Int /\ m[x] \in Int
  <2>1. \A x \in dom : g[x] \in Int /\ h[x] \in Int
    BY <1>1, <1>3
  <2>2. \A x \in dom : f[x] \in Int /\ e[x] \in Int
    BY <1>5, <2>1
  <2> QED BY <1>7, <2>2
<1>9. \A x \in dom : x # j => m[x] = e[x]
  <2>1. \A x \in dom : x # i /\ x # j => e[x] = f[x]
    BY <1>3, <1>5
  <2> QED BY <1>7, <2>1
<1> DEFINE F == SumFunctionOnSet(f, dom)
           M == SumFunctionOnSet(m, dom)
           E == SumFunctionOnSet(e, dom)
<1>10. M = F + m[i] - f[i]
  BY <1>1, <1>7, <1>8, SumChange
<1>11. E = M + e[j] - m[j]
  BY <1>1, <1>8, <1>9, SumChange
<1>12. F \in Int
  BY <1>1, <1>8, SumTyped
<1> HIDE DEF F, M, E
<1>13. E = F + (e[i] - f[i]) + (e[j] - f[j])
  BY <1>7, <1>8, <1>10, <1>11, <1>12
<1> DEFINE a == g[i]
           b == g[j]
<1>14. /\ a \in Int /\ b \in Int /\ a - b <= Q
       /\ f[i] = a * a /\ e[i] = (a - Q) * (a - Q)
       /\ f[j] = b * b /\ e[j] = (b + Q) * (b + Q)
  BY <1>3, <1>5, <1>6
<1> HIDE DEF a, b
<1>15. /\ (a - Q) * (a - Q) = a * a - 2 * (Q * a) + Q * Q
       /\ (b + Q) * (b + Q) = b * b + 2 * (Q * b) + Q * Q
       /\ a * a \in Int /\ b * b \in Int /\ Q * Q \in Int /\ Q * a \in Int /\ Q * b \in Int
  BY <1>1, <1>14
<1>16. Q * Q + Q * b - Q * a >= 0
  <2>1. Q * Q + Q * b - Q * a = Q * (Q + b - a)
    BY <1>1, <1>14
  <2>2. Q + b - a \in Nat
    BY <1>1, <1>14
  <2> QED BY <1>1, <2>1, <2>2
<1>17. F <= E
  <2> DEFINE aa == a * a
             bb == b * b
             qq == Q * Q
             qa == Q * a
             qb == Q * b
  <2>1. /\ aa \in Int /\ bb \in Int /\ qq \in Int /\ qa \in Int /\ qb \in Int
        /\ f[i] = aa /\ e[i] = aa - 2 * qa + qq /\ f[j] = bb /\ e[j] = bb + 2 * qb + qq
        /\ qq + qb - qa >= 0
    BY <1>14, <1>15, <1>16
  <2> HIDE DEF aa, bb, qq, qa, qb
  <2> QED BY <1>12, <1>13, <2>1
<1> QED BY <1>4, <1>17 DEF F, E, moved

\* What a target of a division into whole shares has more than its part: what it
\* was short of before the left-over shares were handed out, and a share if it
\* was lucky.
GapKnown(plan, total, mine, i) ==
  LET gap == Gap(plan, total \div Unit, mine, i)
  IN  /\ mine[i] \in Int /\ Short(plan, total, i) \in Int /\ gap \in Int
      /\ gap = (IF i \in Lucky(plan, total) THEN TargetTotal(plan) ELSE 0)
                 - Short(plan, total, i)

LEMMA GapsKnown ==
  ASSUME NEW trades, NEW plan \in Plans, NEW total \in Nat \ {0}, NEW money,
         Divisible(plan, total), ~plan.fractional
  PROVE  LET dom  == DOMAIN plan.targets
             made == Allocated(trades, plan, total, money)
             mine == WholeShares(made)
         IN  /\ made.plan = plan /\ made.quantity = total
             /\ DOMAIN mine = dom /\ mine = [i \in dom |-> mine[i]]
             /\ \A i \in dom : GapKnown(plan, total, mine, i)
<1> DEFINE dom    == DOMAIN plan.targets
           Q      == TargetTotal(plan)
           T      == total \div Unit
           made   == Allocated(trades, plan, total, money)
           mine   == WholeShares(made)
           lucky  == Lucky(plan, total)
           s      == [i \in dom |-> Short(plan, total, i)]
           gap(i) == Gap(plan, T, mine, i)
<1>1. /\ Q \in Nat \ {0} /\ total % Unit = 0 /\ Unit \in Nat \ {0}
  BY TargetTotalTyped, ScaleAssumption DEF Divisible
<1>2. /\ made.plan = plan /\ made.quantity = total
      /\ DOMAIN made.shares = Active(Shares(plan, total))
      /\ \A i \in Active(Shares(plan, total)) : made.shares[i] = Shares(plan, total)[i]
  BY DEF Allocated
<1>3. DOMAIN Shares(plan, total) = dom
  BY SharesTyped
<1>4. ASSUME NEW i \in dom
      PROVE  /\ Whole(plan, total, i) \in Nat /\ s[i] \in Int
             /\ mine[i] = Whole(plan, total, i) + (IF i \in lucky THEN 1 ELSE 0)
  <2> DEFINE w == Whole(plan, total, i) + (IF i \in lucky THEN 1 ELSE 0)
  <2>1. Whole(plan, total, i) \in Nat /\ Short(plan, total, i) \in Int
    BY <1>1, PartNear
  <2>2. Shares(plan, total)[i] = Unit * w
    BY <1>1, SharesWhole
  <2>3. w \in Nat
    BY <2>1
  <2>4. mine[i] = IF i \in Active(Shares(plan, total))
                  THEN Shares(plan, total)[i] \div Unit ELSE 0
    BY <1>2 DEF WholeShares
  <2>5. i \in Active(Shares(plan, total)) <=> Shares(plan, total)[i] > 0
    BY <1>3 DEF Active
  <2> HIDE DEF w, mine
  <2>6. (Unit * w) \div Unit = w /\ (Unit * w > 0 <=> w > 0)
    BY <1>1, <2>3
  <2>7. mine[i] = w
    BY <2>2, <2>3, <2>4, <2>5, <2>6
  <2> QED BY <2>1, <2>7 DEF w
<1>5. DOMAIN mine = dom /\ mine = [i \in dom |-> mine[i]]
  BY <1>2 DEF WholeShares
<1>6. ASSUME NEW i \in dom
      PROVE  gap(i) \in Int /\ gap(i) = (IF i \in lucky THEN Q ELSE 0) - s[i]
  <2> DEFINE w == Whole(plan, total, i)
             p == T * plan.targets[i].quantity
  <2>1. gap(i) = mine[i] * Q - p /\ s[i] = p - Q * w
    BY DEF Gap, Short
  <2>2. w \in Nat /\ s[i] \in Int /\ mine[i] = w + (IF i \in lucky THEN 1 ELSE 0)
    BY <1>4
  <2>3. p \in Int
    <3>1. plan.targets[i].quantity \in Int /\ T \in Int
      BY <1>1, PlansAssumption
    <3> HIDE DEF T
    <3> QED BY <3>1
  <2> HIDE DEF w, p, s, mine, Q, gap, lucky
  <2>4. /\ w * Q = Q * w /\ Q * w \in Int
        /\ (w + 1) * Q = Q * w + Q /\ (w + 0) * Q = Q * w
    BY <1>1, <2>2
  <2> QED BY <1>1, <2>1, <2>2, <2>3, <2>4
<1>7. \A i \in dom : mine[i] \in Int /\ s[i] = Short(plan, total, i)
  <2>1. \A i \in dom : s[i] = Short(plan, total, i)
    OBVIOUS
  <2> HIDE DEF mine, dom, s, lucky
  <2> QED BY <1>4, <2>1
<1>8. \A i \in dom : /\ mine[i] \in Int /\ Short(plan, total, i) \in Int
                      /\ gap(i) \in Int
                      /\ gap(i) = (IF i \in lucky THEN Q ELSE 0) - Short(plan, total, i)
  <2> HIDE DEF mine, dom, s, gap, lucky, Q
  <2> QED BY <1>4, <1>6, <1>7
<1>9. \A i \in dom : GapKnown(plan, total, mine, i)
  BY <1>8 DEF GapKnown
<1> QED BY <1>2, <1>5, <1>9

\* An allocation of whole shares is fair: under either rule a target is short of
\* less than a share before the left-over ones are handed out, and in a pro-rata
\* plan they go where most is missing.
LEMMA DivisionFair ==
  ASSUME NEW trades, NEW plan \in Plans, NEW total \in Nat \ {0}, NEW money,
         NEW grain \in Nat \ {0},
         Divisible(plan, total), Grained(plan, total, grain), ~plan.fractional
  PROVE  FairlyShared(Allocated(trades, plan, total, money))
<1> DEFINE dom    == DOMAIN plan.targets
           Q      == TargetTotal(plan)
           T      == total \div Unit
           made   == Allocated(trades, plan, total, money)
           mine   == WholeShares(made)
           lucky  == Lucky(plan, total)
           s      == [i \in dom |-> Short(plan, total, i)]
           gap(i) == Gap(plan, T, mine, i)
<1>1. /\ Q \in Nat \ {0} /\ total % Unit = 0 /\ Unit \in Nat \ {0}
  BY TargetTotalTyped, ScaleAssumption DEF Divisible, Grained
<1>2. made.plan = plan /\ made.quantity = total
  BY GapsKnown
<1>3. \A i \in dom : GapKnown(plan, total, mine, i)
  BY GapsKnown
<1>4. \A i \in dom : mine[i] \in Int /\ s[i] \in Int
  BY <1>3 DEF GapKnown
<1>5. DOMAIN mine = dom /\ mine = [i \in dom |-> mine[i]]
  BY GapsKnown
<1>6. \A i \in dom : gap(i) \in Int /\ gap(i) = (IF i \in lucky THEN Q ELSE 0) - s[i]
  <2>1. ASSUME NEW i \in dom
        PROVE  /\ gap(i) \in Int
               /\ gap(i) = (IF i \in lucky THEN Q ELSE 0) - Short(plan, total, i)
    BY <1>3 DEF GapKnown
  <2> QED BY <2>1
<1>7. \A i \in dom : s[i] >= 0 /\ s[i] < Q
  <2>1. ASSUME NEW i \in dom PROVE s[i] >= 0 /\ s[i] < Q
    <3>1. Rest(plan, total, i) \in Nat /\ Short(plan, total, i) \in Int
      BY <1>1, PartNear
    <3>2. /\ Rest(plan, total, i) = 0 => Short(plan, total, i) = 0
          /\ Rest(plan, total, i) > 0 => Short(plan, total, i) > 0
          /\ Short(plan, total, i) < Q
      BY <1>1, ShortRanked
    <3> HIDE DEF Q
    <3> QED BY <3>1, <3>2
  <2> QED BY <2>1
<1>8. plan.rule = "PRO_RATA" => \A i \in dom : i \in lucky => s[i] > 0
  <2>1. ASSUME plan.rule = "PRO_RATA", NEW i \in dom, i \in lucky PROVE s[i] > 0
    <3>1. Rest(plan, total, i) > 0
      BY <1>1, <2>1, LuckRanked
    <3>2. Rest(plan, total, i) > 0 => Short(plan, total, i) > 0
      BY <1>1, ShortRanked
    <3> QED BY <3>1, <3>2
  <2> QED BY <2>1
<1>9. plan.rule = "PRO_RATA" =>
        \A i, j \in dom : i \in lucky /\ j \notin lucky => s[j] <= s[i]
  <2>1. ASSUME plan.rule = "PRO_RATA", NEW i \in dom, NEW j \in dom,
               i \in lucky, j \notin lucky
        PROVE  s[j] <= s[i]
    <3>1. Rest(plan, total, j) <= Rest(plan, total, i)
      BY <1>1, <2>1, LuckRanked
    <3>2. Short(plan, total, j) <= Short(plan, total, i)
      BY <1>1, <3>1, ShortRanked
    <3> QED BY <3>2
  <2> QED BY <2>1
<1> HIDE DEF lucky, s, Q, gap
<1>10. \A i \in dom : -Q < gap(i) /\ gap(i) <= Q
  BY <1>1, <1>4, <1>6, <1>7
<1>11. plan.rule = "PRO_RATA" => \A i \in dom : gap(i) < Q
  BY <1>1, <1>4, <1>6, <1>7, <1>8
<1>12. ASSUME plan.rule = "PRO_RATA", NEW i \in dom, NEW j \in dom
       PROVE  gap(i) - gap(j) <= Q
  <2>1. s[i] \in Int /\ s[j] \in Int
    BY <1>4
  <2> QED BY <1>1, <1>6, <1>7, <1>9, <1>12, <2>1
<1>13. mine \in [dom -> Int] /\ T \in Int
  <2>1. \A i \in dom : mine[i] \in Int
    <3> HIDE DEF mine, dom
    <3> QED BY <1>4
  <2> HIDE DEF mine, dom
  <2> QED BY <1>1, <1>5, <2>1
<1>14. ASSUME plan.rule = "PRO_RATA", NEW i \in dom, NEW j \in dom, i # j
       PROVE  Distance(plan, T, mine) <=
                Distance(plan, T, [mine EXCEPT ![i] = @ - 1, ![j] = @ + 1])
  <2>1. Gap(plan, T, mine, i) - Gap(plan, T, mine, j) <= TargetTotal(plan)
    BY <1>12, <1>14 DEF gap, Q
  <2>2. TargetTotal(plan) \in Nat \ {0}
    BY <1>1 DEF Q
  <2> HIDE DEF mine, T
  <2> QED BY <1>13, <1>14, <2>1, <2>2, MoveNoNearer
<1> DEFINE fairly == [i \in dom |-> Gap(plan, T, mine, i)]
<1>15. \A i \in dom : fairly[i] = gap(i)
  BY DEF gap
<1>16. /\ \A i \in dom : -Q < fairly[i] /\ fairly[i] <= Q
       /\ plan.rule = "PRO_RATA" => \A i \in dom : fairly[i] < Q
  <2> HIDE DEF fairly
  <2> QED BY <1>10, <1>11, <1>15
<1> DEFINE best ==
             \A i, j \in dom :
               mine[i] > 0 /\ i # j =>
                 Distance(plan, T, mine) <=
                   Distance(plan, T, [mine EXCEPT ![i] = @ - 1, ![j] = @ + 1])
<1>17. plan.rule = "PRO_RATA" => best
  <2> HIDE DEF mine, T, dom
  <2> QED BY <1>14
<1>18. FairlyShared(made) <=>
         /\ \A i \in dom : -Q < fairly[i] /\ fairly[i] <= Q
         /\ plan.rule = "PRO_RATA" =>
              (/\ \A i \in dom : fairly[i] < Q
               /\ best)
  <2> HIDE DEF made, dom
  <2>1. made.plan = plan /\ made.quantity = total /\ DOMAIN WholeShares(made) = dom
    BY <1>2, <1>5
  <2> QED BY <2>1 DEF FairlyShared, Q
<1> HIDE DEF mine, T, made, best, fairly, dom
<1>19. FairlyShared(made)
  BY <1>16, <1>17, <1>18
<1> QED BY <1>19 DEF made

\* Whatever the digits: no target is short of its part by a share, or over it by
\* more than a share and half a unit of every share.
NearlyShared(a) ==
  LET all   == TargetTotal(a.plan)
      total == a.quantity \div Unit
      mine  == WholeShares(a)
  IN  \A i \in DOMAIN mine :
        LET gap == Gap(a.plan, total, mine, i)
        IN  -all < gap /\ 2 * (Unit * gap) <= 2 * (Unit * all) + all

LEMMA DivisionNear ==
  ASSUME NEW trades, NEW plan \in Plans, NEW total \in Nat \ {0}, NEW money,
         Divisible(plan, total), ~plan.fractional
  PROVE  NearlyShared(Allocated(trades, plan, total, money))
<1> DEFINE dom    == DOMAIN plan.targets
           Q      == TargetTotal(plan)
           T      == total \div Unit
           made   == Allocated(trades, plan, total, money)
           mine   == WholeShares(made)
           gap(i) == Gap(plan, T, mine, i)
<1>1. /\ Q \in Nat \ {0} /\ total % Unit = 0 /\ Unit \in Nat \ {0}
  BY TargetTotalTyped, ScaleAssumption DEF Divisible
<1>2. made.plan = plan /\ made.quantity = total /\ DOMAIN mine = dom
  BY GapsKnown
<1>3. ASSUME NEW i \in dom
      PROVE  -Q < gap(i) /\ 2 * (Unit * gap(i)) <= 2 * (Unit * Q) + Q
  <2> DEFINE r == Rest(plan, total, i)
             s == Short(plan, total, i)
             g == gap(i)
  <2>1. /\ r \in Nat /\ r < Unit /\ s \in Int
        /\ 2 * (Unit * s) - 2 * (Q * r) <= Q
        /\ 2 * (Q * r) - 2 * (Unit * s) <= Q
    BY <1>1, PartNear
  <2>2. g = Q - s \/ g = 0 - s
    <3>1. g = (IF i \in Lucky(plan, total) THEN Q ELSE 0) - s
      <4>1. \A j \in dom : GapKnown(plan, total, mine, j)
        BY GapsKnown
      <4> QED BY <4>1 DEF GapKnown
    <3> HIDE DEF g, s, Q
    <3> QED BY <3>1
  <2> HIDE DEF r, s, g, Q, gap
  <2> DEFINE us == Unit * s
             qr == Q * r
             qu == Q * Unit
  <2>3. /\ us \in Int /\ qr \in Nat /\ qu \in Nat /\ qr <= qu - Q /\ qu = Unit * Q
    <3>1. Q * r <= Q * (Unit - 1) /\ Q * (Unit - 1) = Q * Unit - Q
      BY <1>1, <2>1
    <3>2. Q * Unit = Unit * Q /\ Q * Unit \in Nat /\ Q * r \in Nat /\ Unit * s \in Int
      BY <1>1, <2>1
    <3> QED BY <3>1, <3>2
  <2>4. 2 * us - 2 * qr <= Q /\ 2 * qr - 2 * us <= Q
    BY <2>1
  <2>5. /\ s >= Q => us >= qu
        /\ Unit * (Q - s) = qu - us /\ Unit * (0 - s) = -us
    <3>1. s >= Q => Unit * s >= Unit * Q
      BY <1>1, <2>1
    <3>2. Unit * (Q - s) = Unit * Q - Unit * s /\ Unit * (0 - s) = -(Unit * s)
      BY <1>1, <2>1
    <3> QED BY <2>3, <3>1, <3>2
  <2> HIDE DEF us, qr, qu
  <2>6. s < Q /\ -2 * us <= Q
    BY <1>1, <2>1, <2>3, <2>4, <2>5
  <2>7. -Q < g
    BY <1>1, <2>1, <2>2, <2>6
  <2>8. 2 * (Unit * g) <= 2 * qu + Q
    BY <1>1, <2>2, <2>3, <2>5, <2>6
  <2> QED BY <2>3, <2>7, <2>8 DEF g, Q
<1> HIDE DEF mine, T
<1> QED BY <1>2, <1>3 DEF NearlyShared, mine, T

\* An allocation is of a plan for fractions, or of whole shares nearly divided,
\* and fairly so where the digits suffice.
WellShared(a) ==
  a.plan.fractional \/ (NearlyShared(a) /\ (DigitsSuffice => FairlyShared(a)))

\* Every allocation made so far is.
Shared ==
  /\ DOMAIN allocations = OrderIds
  /\ \A o \in OrderIds :
       /\ allocations[o] \in Seq(Range(allocations[o]))
       /\ \A i \in DOMAIN allocations[o] :
            WellShared(allocations[o][i])

\* So is the next one; the digits suffice for some grain.
LEMMA DividedFairly ==
  ASSUME NEW trades, NEW plan \in Plans, NEW total \in Nat \ {0}, NEW money,
         Divisible(plan, total)
  PROVE  WellShared(Allocated(trades, plan, total, money))
<1>1. Allocated(trades, plan, total, money).plan = plan
  BY DEF Allocated
<1>2. ASSUME ~plan.fractional, DigitsSuffice
      PROVE  FairlyShared(Allocated(trades, plan, total, money))
  <2>1. TargetTotal(plan) \in Int
    BY TargetTotalTyped
  <2>2. PICK grain \in 1 .. TargetTotal(plan) :
          /\ TargetTotal(plan) < grain * Unit
          /\ \A i \in DOMAIN plan.targets : plan.targets[i].quantity % grain = 0
    BY <1>2 DEF DigitsSuffice
  <2>3. grain \in Nat \ {0}
    BY <2>1
  <2>4. Grained(plan, total, grain)
    BY <1>2, <2>2 DEF Grained, Divisible
  <2> QED BY <1>2, <2>3, <2>4, DivisionFair
<1>3. ~plan.fractional => NearlyShared(Allocated(trades, plan, total, money))
  BY DivisionNear
<1> QED BY <1>1, <1>2, <1>3 DEF WellShared

LEMMA SharedInit == Init => Shared
<1> SUFFICES ASSUME Init PROVE Shared
  OBVIOUS
<1>1. allocations = [o \in OrderIds |-> <<>>]
  BY DEF Init, TradeInit
<1> QED BY <1>1 DEF Shared

\* Only allocate makes an allocation, of captures it can divide.
LEMMA SharedNext == TypeOK /\ Shared /\ [Next]_vars => Shared'
<1> SUFFICES ASSUME TypeOK, Shared, [Next]_vars PROVE Shared'
  OBVIOUS
<1>1. ASSUME NEW batch \in Batches, NEW plan \in Plans, Allocate(batch, plan)
      PROVE  Shared'
  <2> DEFINE o      == batch[1]
             total  == BatchQuantity(batch)
             made   == Allocated(batch, plan, total, BatchMoney(batch))
             before == allocations[o]
             after  == Append(before, made)
             Fine(a) == WellShared(a)
  <2>1. /\ Divisible(plan, total)
        /\ allocations' = [allocations EXCEPT ![o] = Append(@, made)]
    BY <1>1 DEF Allocate, Planned
  <2>2. o \in OrderIds /\ total \in Nat \ {0}
    BY BatchTyped
  <2> HIDE DEF o, total
  <2>3. Fine(made)
    BY <2>1, <2>2, DividedFairly
  <2>4. before \in Seq(Range(before)) /\ \A i \in DOMAIN before : Fine(before[i])
    BY <2>2 DEF Shared
  <2>5. /\ allocations'[o] = after /\ DOMAIN allocations' = OrderIds
        /\ \A x \in OrderIds \ {o} : allocations'[x] = allocations[x]
    BY <2>1, <2>2 DEF Shared
  <2> HIDE DEF made, before, Fine
  <2>6. /\ after \in Seq(Range(after))
        /\ \A i \in DOMAIN after :
             after[i] = made \/ (i \in DOMAIN before /\ after[i] = before[i])
    BY <2>4, OneMore
  <2> HIDE DEF after
  <2>7. \A i \in DOMAIN after : Fine(after[i])
    BY <2>3, <2>4, <2>6
  <2>8. ASSUME NEW x \in OrderIds
        PROVE  /\ allocations'[x] \in Seq(Range(allocations'[x]))
               /\ \A i \in DOMAIN allocations'[x] : Fine(allocations'[x][i])
    <3>1. CASE x = o
      BY <2>5, <2>6, <2>7, <3>1
    <3>2. CASE x # o
      <4>1. allocations'[x] = allocations[x]
        BY <2>5, <3>2
      <4> QED BY <4>1 DEF Shared, Fine
    <3> QED BY <3>1, <3>2
  <2> QED BY <2>5, <2>8 DEF Shared, Fine
<1>2. UNCHANGED allocations => Shared'
  BY DEF Shared
<1>3. ASSUME NEW o \in OrderIds, NEW p \in OrderIds,
             \/ Capture(o) \/ CancelTrade(o)
             \/ \E fact \in Facts : RecordMatch(o, fact) \/ Affirm(o, p, fact)
             \/ \E intent \in Intents, legs \in Legs : FormObligation(o, intent, legs)
             \/ \E acceptance \in Acceptances : RecordHandoff(o, p, acceptance)
      PROVE  Shared'
  <2>1. UNCHANGED allocations
    BY <1>3 DEF Capture, CancelTrade, RecordMatch, Affirm, Conclude, FormObligation,
                RecordHandoff, tradeVars
  <2> QED BY <1>2, <2>1
<1>4. CASE TradeStep
  BY <1>1, <1>3, <1>4 DEF TradeStep
<1>5. CASE UNCHANGED vars
  BY <1>2, <1>5 DEF vars, tradeVars
<1> QED
  BY <1>3, <1>4, <1>5 DEF Next

\* Whatever the digits of a division, no account of a whole-share allocation is
\* short of its part by a share, or over it by more than a share and what half a
\* unit makes of it (allocate: floors and one share each at most, trade.py:260).
THEOREM SharesWithinOne ==
  Spec => [](\A a \in Allocations : a.plan.fractional \/ NearlyShared(a))
<1>1. Shared => \A a \in Allocations : a.plan.fractional \/ NearlyShared(a)
  BY DEF Shared, WellShared, Allocations
<1> QED
  BY <1>1, SettlementTyped, SharedInit, SharedNext, PTL DEF Spec

\* As long as the division keeps enough digits, every allocation of whole shares
\* is as near to its plan as whole shares can be, for any plans, fills and scale
\* (SharesFair).
THEOREM SharesDividedFairly ==
  ASSUME DigitsSuffice
  PROVE  Spec => []SharesFair
<1>1. Shared => SharesFair
  BY DEF Shared, WellShared, SharesFair, Allocations
<1>2. TypeOK /\ Shared /\ [Next]_vars => Shared'
  BY SharedNext
<1> QED
  BY <1>1, <1>2, SettlementTyped, SharedInit, PTL DEF Spec

\* Where the digits suffice, the whole shares of the targets add up to all that
\* was executed: the check of the sum, left uncovered by tests as one the
\* arithmetic guards, never refuses a division into whole shares (trade.py:280).
THEOREM WholeSharesConserved ==
  ASSUME DigitsSuffice, NEW plan \in Plans, ~plan.fractional,
         NEW total \in Nat \ {0}, Divisible(plan, total), NEW money, NEW trades
  PROVE  SumFunction(Allocated(trades, plan, total, money).shares) = total
<1> DEFINE dom    == DOMAIN plan.targets
           T      == total \div Unit
           shares == Shares(plan, total)
           some   == Active(shares)
           given  == [i \in some |-> shares[i]]
           whole  == [i \in dom |-> Whole(plan, total, i)]
           lucky  == Lucky(plan, total)
           n      == Residual(plan, total)
           before == [i \in dom |-> Ahead(plan, Rests(plan, total), i)]
<1>1. /\ TargetTotal(plan) \in Nat \ {0} /\ total % Unit = 0 /\ Unit \in Nat \ {0}
      /\ T \in Int /\ total = Unit * T /\ IsFiniteSet(dom) /\ dom \subseteq Nat
  BY TargetTotalTyped, ScaleAssumption, PlansAssumption DEF Divisible
<1>2. PICK grain \in Nat \ {0} : Grained(plan, total, grain)
  <2>1. PICK grain \in 1 .. TargetTotal(plan) :
          /\ TargetTotal(plan) < grain * Unit
          /\ \A i \in DOMAIN plan.targets : plan.targets[i].quantity % grain = 0
    BY DEF DigitsSuffice
  <2> QED BY <1>1, <2>1 DEF Grained
<1>3. /\ n \in Nat /\ n <= Cardinality(Unfinished(plan, total))
      /\ SumFunctionOnSet(whole, dom) \in Int
      /\ n = T - SumFunctionOnSet(whole, dom)
  BY <1>1, <1>2, LeftOver
<1>4. n <= Cardinality(dom)
  <2>1. Unfinished(plan, total) \subseteq dom
    BY DEF Unfinished
  <2> HIDE DEF dom
  <2>2. /\ Cardinality(Unfinished(plan, total)) <= Cardinality(dom)
        /\ Cardinality(Unfinished(plan, total)) \in Nat /\ Cardinality(dom) \in Nat
    BY <1>1, <2>1, FS_Subset, FS_CardinalityType
  <2> QED BY <1>3, <2>2
<1>5. Cardinality(lucky) = n
  <2>1. /\ DOMAIN Rests(plan, total) = dom
        /\ \A i \in dom : Rests(plan, total)[i] \in Int
    BY <1>1, PartNear DEF Rests
  <2>2. TotalOrder(before, dom)
    <3> HIDE DEF dom
    <3> QED BY <1>1, <2>1, AheadOrders
  <2>3. lucky = FirstFew(before, dom, n)
    BY DEF Lucky, FirstFew
  <2> HIDE DEF before, dom, lucky, n
  <2> QED BY <1>1, <1>3, <1>4, <2>2, <2>3, FirstFewCounted
<1>6. ASSUME NEW i \in dom
      PROVE  /\ whole[i] \in Int /\ shares[i] \in Nat
             /\ shares[i] = Unit * whole[i] + (IF i \in lucky THEN Unit ELSE 0)
  <2> DEFINE w == Whole(plan, total, i)
  <2>1. w \in Nat
    BY <1>1, PartNear
  <2>2. shares[i] = Unit * (w + (IF i \in lucky THEN 1 ELSE 0))
    BY <1>1, SharesWhole
  <2>3. whole[i] = w
    OBVIOUS
  <2> HIDE DEF w, shares, lucky, whole
  <2>4. /\ Unit * (w + 1) = Unit * w + Unit /\ Unit * (w + 0) = Unit * w + 0
        /\ Unit * w \in Nat
    BY <1>1, <2>1
  <2> QED BY <1>1, <2>1, <2>2, <2>3, <2>4
<1>7. dom \cap lucky = lucky
  BY DEF Lucky
<1>8. DOMAIN shares = dom
  BY SharesTyped
<1>9. /\ some \subseteq dom /\ \A i \in dom \ some : shares[i] = 0
      /\ \A i \in some : given[i] = shares[i]
  <2>1. some \subseteq dom /\ \A i \in dom \ some : ~(shares[i] > 0)
    BY <1>8 DEF Active
  <2>2. \A i \in dom \ some : shares[i] = 0
    <3> HIDE DEF dom, some, shares
    <3> QED BY <1>6, <2>1
  <2> QED BY <2>1, <2>2
<1>10. SumFunction(Allocated(trades, plan, total, money).shares) = SumFunctionOnSet(given, some)
  BY DEF Allocated, SumFunction
<1> HIDE DEF dom, T, shares, some, given, whole, lucky, n
<1>11. SumFunctionOnSet(shares, dom) = SumFunctionOnSet(given, some)
  <2>1. \A i \in dom : shares[i] \in Int
    BY <1>6
  <2>2. SumFunctionOnSet(shares, dom) = SumFunctionOnSet(shares, some)
    BY <1>1, <1>9, <2>1, SumSupport
  <2>3. IsFiniteSet(some) /\ \A i \in some : shares[i] = given[i]
    BY <1>1, <1>9, FS_Subset
  <2>4. SumFunctionOnSet(shares, some) = SumFunctionOnSet(given, some)
    BY <2>3, SumSame
  <2> QED BY <2>2, <2>4
<1>12. Leads(1, shares, Unit, whole, dom, Unit, lucky)
  <2>1. \A i \in dom : /\ shares[i] \in Int /\ whole[i] \in Int
                       /\ 1 * shares[i] - Unit * whole[i] <= IF i \in lucky THEN Unit ELSE 0
    BY <1>1, <1>6
  <2>2. 1 \in Int /\ Unit \in Int
    BY <1>1
  <2> QED BY <1>1, <2>1, <2>2, SumsLead
<1>13. Leads(Unit, whole, 1, shares, dom, -Unit, lucky)
  <2>1. \A i \in dom : /\ shares[i] \in Int /\ whole[i] \in Int
                       /\ Unit * whole[i] - 1 * shares[i] <= IF i \in lucky THEN -Unit ELSE 0
    BY <1>1, <1>6
  <2>2. 1 \in Int /\ Unit \in Int /\ -Unit \in Int
    BY <1>1
  <2> QED BY <1>1, <2>1, <2>2, SumsLead
<1> DEFINE W == SumFunctionOnSet(whole, dom)
           S == SumFunctionOnSet(shares, dom)
<1>14. /\ W \in Int /\ S \in Int /\ n = T - W
       /\ 1 * S - Unit * W <= Unit * n
       /\ Unit * W - 1 * S <= (-Unit) * n
  BY <1>3, <1>5, <1>7, <1>12, <1>13 DEF Leads
<1> HIDE DEF W, S
<1>15. /\ Unit * n = Unit * T - Unit * W /\ (-Unit) * n = Unit * W - Unit * T
       /\ Unit * T \in Int /\ Unit * W \in Int
  BY <1>1, <1>14
<1>16. S = total
  <2> DEFINE uT == Unit * T
             uW == Unit * W
  <2>1. /\ uT \in Int /\ uW \in Int /\ S \in Int /\ total = uT
        /\ S - uW <= uT - uW /\ uW - S <= uW - uT
    BY <1>1, <1>14, <1>15
  <2> HIDE DEF uT, uW
  <2> QED BY <2>1
<1> QED BY <1>10, <1>11, <1>16 DEF S
=============================================================================
