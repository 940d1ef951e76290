------------------------------ MODULE OrderLife ------------------------------
(***************************************************************************)
(* What a client of L.C. is promised about one order, whatever mixture of  *)
(* registers, gates, halts and venue reports stands behind it: the order   *)
(* is placed once with a quantity that never changes; it fills only while  *)
(* it is released, never beyond that quantity; only a completely filled    *)
(* order goes on to settlement; a closed order stays closed.  One step may *)
(* advance several orders (a split, a halt, an end of session).            *)
(***************************************************************************)
EXTENDS Integers

CONSTANT OrderIds

VARIABLE life     \* [OrderIds -> [phase, quantity, filled]]

Phases == {"absent", "working", "released", "filled", "settled", "closed"}

Lives == [phase : Phases, quantity : Nat, filled : Nat]

Unborn == [phase |-> "absent", quantity |-> 0, filled |-> 0]

Init == life = [o \in OrderIds |-> Unborn]

-----------------------------------------------------------------------------
(* What one order may do in one step, from l to m. *)

SameSize(l, m) == m.quantity = l.quantity /\ m.filled = l.filled

Place(l, m) ==
  /\ l.phase = "absent"
  /\ m.phase \in {"working", "closed"}
  /\ m.quantity > 0
  /\ m.filled = 0

\* The controls pass, or rerun after a change of terms.
Release(l, m) ==
  /\ l.phase \in {"working", "released"}
  /\ m.phase \in {"working", "released"}
  /\ SameSize(l, m)

Fill(l, m) ==
  /\ l.phase = "released"
  /\ m.quantity = l.quantity
  /\ l.filled < m.filled /\ m.filled <= l.quantity
  /\ m.phase \in IF m.filled = l.quantity THEN {"filled"}
                 ELSE {"released", "closed"}

Settle(l, m) == l.phase = "filled" /\ m.phase = "settled" /\ SameSize(l, m)

Close(l, m) == l.phase # "absent" /\ m.phase = "closed" /\ SameSize(l, m)

Lawful(l, m) ==
  Place(l, m) \/ Release(l, m) \/ Fill(l, m) \/ Settle(l, m) \/ Close(l, m)

AllLawful(before, after) ==
  /\ after \in [OrderIds -> Lives]
  /\ \A o \in OrderIds : after[o] = before[o] \/ Lawful(before[o], after[o])

Next == AllLawful(life, life')

Spec == Init /\ [][Next]_life

-----------------------------------------------------------------------------
\* An order never fills beyond its quantity, and one that is filled or
\* settled filled exactly that quantity.
NeverOverfilled ==
  \A o \in OrderIds :
    /\ life[o].filled <= life[o].quantity
    /\ life[o].phase \in {"filled", "settled"} =>
         life[o].filled = life[o].quantity
=============================================================================
