----------------------------- MODULE Allocation -----------------------------
(***************************************************************************)
(* The arithmetic of an allocation (allocate in lc/trade.py): how executed *)
(* shares and their money are divided over the targets of a plan.          *)
(*                                                                         *)
(* A quantity is a number of units, Unit of them to a share, the unit      *)
(* being the last digit a Decimal division keeps.  Prices and averages are *)
(* whole numbers, PerCent of them to a cent; money is units times price.   *)
(***************************************************************************)
EXTENDS Integers, FiniteSetsExt, Functions

CONSTANTS
  Unit,       \* units in a share
  PerCent     \* price steps in a cent

ASSUME ScaleAssumption == Unit \in Nat \ {0} /\ PerCent \in Nat \ {0}

\* ROUND_HALF_EVEN of n / d.
HalfEven(n, d) ==
  LET q == n \div d
      r == n % d
  IN  IF 2 * r > d \/ (2 * r = d /\ q % 2 = 1) THEN q + 1 ELSE q

\* quantize(cent) of a sum of money.
Cents(money) == HalfEven(money, Unit * PerCent)

-----------------------------------------------------------------------------
(* Shares.  A plan is [targets, rule, fractional, quantum]: targets is a *)
(* sequence of [account, quantity], quantum the step of the average price.   *)

TargetTotal(plan) == SumFunction([i \in DOMAIN plan.targets |->
                                    plan.targets[i].quantity])

\* Each target's part of the execution, to the last digit.
Exact(plan, total) ==
  [i \in DOMAIN plan.targets |->
     HalfEven(total * plan.targets[i].quantity, TargetTotal(plan))]

Floors(plan, total) ==
  [i \in DOMAIN plan.targets |-> Unit * (Exact(plan, total)[i] \div Unit)]

Residual(plan, total) == (total - SumFunction(Floors(plan, total))) \div Unit

\* Targets before i in the order that hands out what is left over: largest
\* remainder first, ties by place, or by place alone.
Ahead(plan, remainder, i) ==
  {j \in DOMAIN remainder :
     \/ plan.rule = "PRO_RATA" /\ remainder[j] > remainder[i]
     \/ (plan.rule = "PRO_RATA" => remainder[j] = remainder[i]) /\ j < i}

\* Mutant of Shares: the left-over shares go by place under either rule.
SharesInPlace(plan, total) ==
  IF plan.fractional THEN Exact(plan, total)
  ELSE [i \in DOMAIN plan.targets |->
          Floors(plan, total)[i]
            + (IF i <= Residual(plan, total) THEN Unit ELSE 0)]

Shares(plan, total) ==
  LET exact     == Exact(plan, total)
      floors    == Floors(plan, total)
      remainder == [i \in DOMAIN exact |-> exact[i] - floors[i]]
      lucky     == {i \in DOMAIN exact :
                      Cardinality(Ahead(plan, remainder, i))
                        < Residual(plan, total)}
  IN  IF plan.fractional THEN exact
      ELSE [i \in DOMAIN exact |->
              floors[i] + (IF i \in lucky THEN Unit ELSE 0)]

\* allocate divides this quantity: the targets hold it, and a plan for whole
\* shares is not given fractions of one.
Divisible(plan, total) ==
  /\ total <= TargetTotal(plan)
  /\ plan.fractional \/ total % Unit = 0

-----------------------------------------------------------------------------
(* Money *)

\* Mutant of AveragePrice: the average is cut off, not rounded.
AveragePriceCut(plan, total, money) ==
  plan.quantum * (money \div (total * plan.quantum))

AveragePrice(plan, total, money) ==
  plan.quantum * HalfEven(money, total * plan.quantum)

\* The targets that get shares, and the one that takes the odd cents: among
\* them the first in the order of what rounding kept from them.
Active(shares) == {i \in DOMAIN shares : shares[i] > 0}

Recipient(plan, total, shares) ==
  LET kept == [i \in Active(shares) |-> Exact(plan, total)[i] - shares[i]]
  IN  CHOOSE i \in Active(shares) : Ahead(plan, kept, i) = {}

\* What each account owes at the average price, before the odd cents.
Priced(shares, average) ==
  [i \in Active(shares) |-> Cents(shares[i] * average)]

\* The AllocationRecord: a plan applied to what the named trades add up to.
Allocated(trades, plan, total, money) ==
  LET shares  == Shares(plan, total)
      average == AveragePrice(plan, total, money)
      priced  == Priced(shares, average)
      odd     == Cents(money) - SumFunction(priced)
      to      == Recipient(plan, total, shares)
  IN  [trades   |-> trades,
       plan     |-> plan,
       quantity |-> total,
       money    |-> money,
       shares   |-> [i \in Active(shares) |-> shares[i]],
       cents    |-> [i \in Active(shares) |->
                       priced[i] + (IF i = to THEN odd ELSE 0)],
       odd      |-> odd]

\* The entries' validators and the last check before a record is made.
Recordable(allocation) ==
  /\ SumFunction(allocation.shares) = allocation.quantity
  /\ AveragePrice(allocation.plan, allocation.quantity, allocation.money) > 0
  /\ Cents(allocation.money) > 0
  /\ \A i \in DOMAIN allocation.cents : allocation.cents[i] > 0
=============================================================================
