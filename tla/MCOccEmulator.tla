---------------------------- MODULE MCOccEmulator ----------------------------
(* An instance of OccEmulator for TLC: two trades, both sides of each, and  *)
(* one more report of the first trade, on terms that may not match.         *)
EXTENDS OccEmulator

CONSTANTS a, b, noReport

Sides == {"BUY", "SELL"}
Effects == {"OPEN", "CLOSE"}

MCReportIds == {<<t, s>> : t \in Trades, s \in Sides} \cup {<<0, "BUY">>}

Report(t, i, side, effect, n, x, account) ==
  [id |-> <<i, side>>, trade |-> t, series |-> x, side |-> side,
   effect |-> effect, contracts |-> n, price |-> 1, account |-> account]

\* Account a buys from b in the first trade; in the second either account is
\* on either side.
MCReports ==
  {Report(1, 1, s, e, n, "X", IF s = "BUY" THEN a ELSE b) :
     s \in Sides, e \in Effects, n \in {1, 2}}
    \cup
  {Report(2, 2, s, e, n, "X", x) :
     s \in Sides, e \in Effects, n \in {1, 2}, x \in Accounts}
    \cup
  {Report(1, 0, "BUY", "OPEN", 1, x, b) : x \in Series}
=============================================================================
