------------------------- MODULE MCOrderManagement -------------------------
(* Instances of OrderManagement for TLC.  "Controls" follows two orders of  *)
(* two accounts through the gate, with halts, a firm threshold that one     *)
(* order fits and two do not, and a locate that covers one sale and not     *)
(* two.  "Fills" follows one order under every time in force through the    *)
(* venue's reports.                                                         *)
EXTENDS OrderManagement, TLC

CONSTANTS o1, o2, noTerms, noOrder, locate, noLocate, halt, noScope, noCap, noExpiry

MCSymmetry == Permutations({o1, o2})

Plain ==
  [account |-> "A", strategy |-> "S", issue |-> "X", side |-> "BUY",
   tif |-> "DAY", price |-> 2, limited |-> TRUE, cap |-> noCap,
   expires |-> 1, session |-> TRUE]

-----------------------------------------------------------------------------
\* Controls: a purchase for one account, a sale for the other.  The locate is
\* still there when two like sales are no longer duplicates of each other.
Buy == [Plain EXCEPT !.tif = "GOOD_TILL_CANCELLED"]
Sale == [Buy EXCEPT !.side = "SELL", !.account = "B"]

MCControlTerms == {Buy, Sale}

MCControlLimits ==
  [credit |-> [a \in {"A", "B"} |-> IF a = "A" THEN 6 ELSE 8], firm |-> 7,
   collar |-> 10, quantity |-> 2, notional |-> 4, window |-> 1,
   blockedIssues |-> {}, blockedAccounts |-> {}]

MCBuyingPower == [a \in {"A", "B"} |-> 8]
MCPosition == [a \in {"A", "B"} |-> [i \in {"X"} |-> 2]]
MCReferencePrice == [i \in {"X"} |-> 2]

MCLocateTerms == [l \in {locate} |-> [issue |-> "X", quantity |-> 3, expires |-> 2]]

MCHaltScopes ==
  {[kind |-> "ACCOUNT", target |-> "A"], [kind |-> "FIRM", target |-> "FIRM"]}

MCPolicy == [expires |-> 1, quantity |-> 2, low |-> 2, high |-> 3]

-----------------------------------------------------------------------------
\* Fills: one order that may be of any time in force: a purchase at a limit,
\* one within an approved notional, an all-or-nothing one, a capped sale, and one
\* whose terms let no fill through.  No halts and no locates.
MCFillTerms ==
  {Plain,
   [Plain EXCEPT !.tif = "IMMEDIATE_OR_CANCEL", !.limited = FALSE, !.cap = 7],
   [Plain EXCEPT !.tif = "FILL_OR_KILL", !.price = 3],
   [Plain EXCEPT !.tif = "GOOD_TILL_CANCELLED", !.side = "SELL", !.cap = 5],
   [Plain EXCEPT !.expires = noExpiry, !.session = FALSE]}

MCFillLimits ==
  [credit |-> [a \in {"A"} |-> 9], firm |-> 9, collar |-> 50, quantity |-> 3,
   notional |-> 9, window |-> 1, blockedIssues |-> {}, blockedAccounts |-> {}]

MCFillPower == [a \in {"A"} |-> 9]
MCFillPosition == [a \in {"A"} |-> [i \in {"X"} |-> 3]]

MCFillPolicy == [expires |-> 1, quantity |-> 3, low |-> 2, high |-> 3]
=============================================================================
