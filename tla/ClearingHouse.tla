---------------------------- MODULE ClearingHouse ----------------------------
(***************************************************************************)
(* What a central counterparty promises its members (emulators/occ.py): a  *)
(* trade is novated at most once, between a buyer and a seller who report  *)
(* it on the same terms, and nobody closes more than the trades novated    *)
(* before have given him.  The only state is what was novated; positions   *)
(* are what that adds up to.                                               *)
(***************************************************************************)
EXTENDS Integers, Functions

CONSTANTS
  Reports,    \* the reports members may send
  Trades,     \* the exchange's trade identifiers
  NoPair      \* a trade that is not novated

VARIABLE cleared   \* trade -> <<buyer's report, seller's report>>

Init == cleared = [t \in Trades |-> NoPair]

-----------------------------------------------------------------------------
Terms(report) == <<report.series, report.contracts, report.price>>

Key(report) == <<report.account, report.series>>

\* The contracts of `reports` in the position `key` that open or close it.
Contracts(reports, key, effect) ==
  SumFunction([r \in {r \in reports : Key(r) = key /\ r.effect = effect} |->
                 r.contracts])

Buyers == {cleared[t][1] : t \in {x \in Trades : cleared[x] # NoPair}}
Sellers == {cleared[t][2] : t \in {x \in Trades : cleared[x] # NoPair}}

\* Buying opens a long position and closes a short one; selling the reverse.
Long(key) == Contracts(Buyers, key, "OPEN") - Contracts(Sellers, key, "CLOSE")
Short(key) == Contracts(Sellers, key, "OPEN") - Contracts(Buyers, key, "CLOSE")

Novate(t, buyer, seller) ==
  /\ cleared[t] = NoPair
  /\ buyer.trade = t /\ seller.trade = t
  /\ buyer.side = "BUY" /\ seller.side = "SELL"
  /\ Terms(buyer) = Terms(seller)
  /\ buyer.effect = "CLOSE" => buyer.contracts <= Short(Key(buyer))
  /\ seller.effect = "CLOSE" => seller.contracts <= Long(Key(seller))
  /\ cleared' = [cleared EXCEPT ![t] = <<buyer, seller>>]

Next == \E t \in Trades, b, s \in Reports : Novate(t, b, s)

Spec == Init /\ [][Next]_cleared
=============================================================================
