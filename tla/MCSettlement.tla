---------------------------- MODULE MCSettlement ----------------------------
(***************************************************************************)
(* Instances of Settlement for TLC: one order under many plans and fills,  *)
(* and two orders of as much at the same price, which may have gone to     *)
(* opposite sides and settle on different days.                            *)
(***************************************************************************)
EXTENDS Settlement

CONSTANTS o1, o2, noTerms, noOrder, noPlan, noCapture, noOutcome,
          noCapacity, firm, other

MCAccrued(quantity, day) == day

MCFacts == {[matched |-> TRUE, affirmed |-> TRUE],
            [matched |-> TRUE, affirmed |-> FALSE],
            [matched |-> FALSE, affirmed |-> FALSE]}

Target(account, shares) == [account |-> account, quantity |-> Unit * shares]

Plan(rule, fractional, quantum, a, b, c) ==
  [rule |-> rule, fractional |-> fractional, quantum |-> quantum,
   targets |-> <<Target("A", a), Target("B", b), Target("C", c)>>]

\* Parts that leave a share over, ties, exact parts (a rotation gives the first
\* account one share more than its exact part), a fraction of a share.
MCPlans ==
  {Plan("PRO_RATA", FALSE, 1, 1, 2, 3), Plan("PRO_RATA", FALSE, 4, 2, 2, 2),
   Plan("ROTATION", FALSE, 1, 3, 2, 1), Plan("PRO_RATA", TRUE, 1, 1, 2, 3),
   Plan("PRO_RATA", FALSE, 8, 3, 1, 1)}

PlainPlan == Plan("PRO_RATA", FALSE, 1, 1, 2, 3)

Fill(shares, price, day) == [quantity |-> Unit * shares, price |-> price, day |-> day]

Term(side, intent, plan) ==
  [account |-> "A", side |-> side, intent |-> intent, plan |-> plan]

\* The last is sealed for a side its intent does not approve.
MCTerms ==
  {Term("BUY", "I", plan) : plan \in MCPlans \cup {noPlan}}
    \cup {Term("SELL", "J", PlainPlan), Term("BUY", "J", PlainPlan)}

MCIntents ==
  {[id |-> "I", side |-> "BUY", accounts |-> {"A", "B"}],
   [id |-> "J", side |-> "SELL", accounts |-> {"A", "B"}]}

MCCapacity == [a \in {"A", "B"} |-> IF a = "B" THEN "CUSTOMER" ELSE "PROPRIETARY"]

\* A tenth of a share would do: the targets are whole shares, six at most.
ASSUME DigitsAssumption == DigitsSuffice

\* An order of one fill or two, the second on a later day.
Filled1 == {<<Fill(n, p, 1)>> : n \in 1..5, p \in {7, 25}}
Filled2 == {<<Fill(n, 9, 1), Fill(m, 14, d)>> : n \in 1..2, m \in 1..3, d \in {1, 2}}

Start(first, second) == [o \in OrderIds |-> IF o = o1 THEN first ELSE second]
Sealing(terms, filled) == [terms |-> terms, fills |-> filled]

NoFills == Sealing(Term("BUY", "I", noPlan), <<>>)

MCStarts ==
  {Start(Sealing(Term("BUY", "I", plan), f), NoFills) :
     f \in Filled1 \cup Filled2, plan \in MCPlans}
    \cup
  {Start(Sealing(Term("BUY", "I", noPlan), <<Fill(2, 7, 1)>>), NoFills)}
    \cup
  {Start(Sealing(Term("BUY", "I", PlainPlan), <<Fill(2, 8, 1)>>),
         Sealing(Term(side, "J", PlainPlan), <<Fill(1, 8, 1), Fill(1, 8, 2)>>)) :
     side \in {"BUY", "SELL"}}
=============================================================================
