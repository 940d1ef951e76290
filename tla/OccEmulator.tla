----------------------------- MODULE OccEmulator -----------------------------
(***************************************************************************)
(* The emulated central counterparty for listed options                    *)
(* (emulators/occ.py).  Members report their side of a trade, in any       *)
(* order, again and again, under an id used before, or for a trade that is *)
(* already novated.  An answer that is not kept - a resubmission, a reused *)
(* id - changes nothing and is no step.                                    *)
(***************************************************************************)
EXTENDS Integers, FiniteSets, Functions

CONSTANTS
  Reports,      \* the reports members may send (OccTradeReport)
  ReportIds,
  Trades,       \* the exchange's trade identifiers
  Accounts,     \* member, account and account type
  Series,
  Prices,       \* premium, currency and trade date
  NoReport      \* no report

\* OccTradeReport, as its validators let it through.
ASSUME ReportsAssumption ==
  /\ Reports \subseteq
       [id : ReportIds, trade : Trades, series : Series,
        side : {"BUY", "SELL"}, effect : {"OPEN", "CLOSE"},
        contracts : Nat \ {0}, price : Prices, account : Accounts]
  /\ NoReport \notin Reports

\* Accounts and trades are the keys of dictionaries, which hold finitely many.
ASSUME FiniteAssumption == IsFiniteSet(Accounts) /\ IsFiniteSet(Trades)

VARIABLES
  results,      \* _results: report id -> the report and its answer
  pending,      \* _pending: trade -> the report that waits for its counterpart
  novated,      \* _novated
  long,         \* _long: position -> contracts, 0 for a missing key
  short         \* _short

vars == <<results, pending, novated, long, short>>

Positions == Accounts \X Series

\* An OccResult with the report it answers: the parties of a novation, or none.
Result(report, outcome, buyer, seller) ==
  [report |-> report, outcome |-> outcome, buyer |-> buyer, seller |-> seller]

Unanswered == Result(NoReport, "NONE", NoReport, NoReport)

Key(report) == <<report.account, report.series>>

Terms(report) == <<report.series, report.contracts, report.price>>

-----------------------------------------------------------------------------
(* submit *)

\* Mutant of Fresh: only what was novated or rejected counts as processed.
FreshUnlessDecided(r) == results[r.id].outcome \in {"NONE", "UNMATCHED"}

\* The report's id was never answered: submit goes on past the resubmission.
Fresh(r) == results[r.id] = Unanswered

\* The trade has not been novated with other reports.
Novatable(r) == r.trade \notin novated

Keep(r, result) == results' = [results EXCEPT ![r.id] = result]

Reject(r) ==
  /\ Keep(r, Result(r, "REJECTED", NoReport, NoReport))
  /\ UNCHANGED <<pending, novated, long, short>>

RejectLate(r) == Fresh(r) /\ ~Novatable(r) /\ Reject(r)

\* The first side of a trade waits for the other.
AwaitCounterpart(r) ==
  /\ Fresh(r) /\ Novatable(r)
  /\ pending[r.trade] = NoReport
  /\ pending' = [pending EXCEPT ![r.trade] = r]
  /\ Keep(r, Result(r, "UNMATCHED", NoReport, NoReport))
  /\ UNCHANGED <<novated, long, short>>

-----------------------------------------------------------------------------
(* _match *)

\* Mutant of CloseCovered: the seller's long position is not asked for.
CloseCoveredForBuyer(buyer, seller) ==
  buyer.effect = "CLOSE" => short[Key(buyer)] >= buyer.contracts

\* _close_refusal: a buy to close reduces a short, a sell to close a long.
CloseCovered(buyer, seller) ==
  /\ buyer.effect = "CLOSE" => short[Key(buyer)] >= buyer.contracts
  /\ seller.effect = "CLOSE" => long[Key(seller)] >= seller.contracts

\* Mutant of Opposite: two reports of the same side may match.
OppositeInTermsOnly(r, other) == Terms(r) = Terms(other)

Opposite(r, other) == r.side # other.side /\ Terms(r) = Terms(other)

Buyer(r, other) == IF r.side = "BUY" THEN r ELSE other
Seller(r, other) == IF r.side = "BUY" THEN other ELSE r

Matches(r, other) ==
  Opposite(r, other) /\ CloseCovered(Buyer(r, other), Seller(r, other))

\* The waiting report stays; the one that does not match it is rejected.
RejectMismatch(r) ==
  /\ Fresh(r) /\ Novatable(r)
  /\ pending[r.trade] # NoReport
  /\ ~Matches(r, pending[r.trade])
  /\ Reject(r)

-----------------------------------------------------------------------------
(* _novate *)

Add(position, report) == [position EXCEPT ![Key(report)] = @ + report.contracts]
Take(position, report) == [position EXCEPT ![Key(report)] = @ - report.contracts]

LongAfter(buyer, seller) ==
  LET opened == IF buyer.effect = "OPEN" THEN Add(long, buyer) ELSE long
  IN  IF seller.effect = "CLOSE" THEN Take(opened, seller) ELSE opened

\* Mutant of ShortAfter: a buy to close leaves the short position as it is.
ShortAfterOpening(buyer, seller) ==
  IF seller.effect = "OPEN" THEN Add(short, seller) ELSE short

ShortAfter(buyer, seller) ==
  LET closed == IF buyer.effect = "CLOSE" THEN Take(short, buyer) ELSE short
  IN  IF seller.effect = "OPEN" THEN Add(closed, seller) ELSE closed

Novate(r) ==
  LET other  == pending[r.trade]
      buyer  == Buyer(r, other)
      seller == Seller(r, other)
      result == [side \in {"BUY", "SELL"} |->
                   Result(IF side = "BUY" THEN buyer ELSE seller,
                          "NOVATED", buyer, seller)]
  IN  /\ Fresh(r) /\ Novatable(r)
      /\ other # NoReport
      /\ Matches(r, other)
      /\ long' = LongAfter(buyer, seller)
      /\ short' = ShortAfter(buyer, seller)
      /\ pending' = [pending EXCEPT ![r.trade] = NoReport]
      /\ novated' = novated \cup {r.trade}
      /\ results' = [results EXCEPT ![buyer.id] = result["BUY"],
                                    ![seller.id] = result["SELL"]]

-----------------------------------------------------------------------------
Init ==
  /\ results = [i \in ReportIds |-> Unanswered]
  /\ pending = [t \in Trades |-> NoReport]
  /\ novated = {}
  /\ long = [p \in Positions |-> 0]
  /\ short = [p \in Positions |-> 0]

Submit(r) ==
  RejectLate(r) \/ AwaitCounterpart(r) \/ RejectMismatch(r) \/ Novate(r)

Next == \E r \in Reports : Submit(r)

Spec == Init /\ [][Next]_vars

-----------------------------------------------------------------------------
(* Properties *)

Answers ==
  [report  : Reports \cup {NoReport},
   outcome : {"NONE", "UNMATCHED", "REJECTED", "NOVATED"},
   buyer   : Reports \cup {NoReport},
   seller  : Reports \cup {NoReport}]

\* Every variable keeps its shape; in particular no position falls below zero,
\* which positions() could not report.
TypeOK ==
  /\ results \in [ReportIds -> Answers]
  /\ \A i \in ReportIds :
       results[i] # Unanswered =>
         /\ results[i].report \in Reports
         /\ results[i].report.id = i
         /\ results[i].outcome # "NONE"
  /\ pending \in [Trades -> Reports \cup {NoReport}]
  /\ novated \subseteq Trades
  /\ long \in [Positions -> Nat]
  /\ short \in [Positions -> Nat]

\* A report waits exactly as long as its answer says so: it is the one its trade
\* waits with, and no novated trade waits (submit, _novate; a resubmission, a
\* counterpart rejected in between).
WaitingAgrees ==
  /\ \A i \in ReportIds :
       results[i].outcome = "UNMATCHED" =>
         pending[results[i].report.trade] = results[i].report
  /\ \A t \in Trades :
       pending[t] # NoReport =>
         /\ pending[t].trade = t
         /\ t \notin novated
         /\ results[pending[t].id] =
              Result(pending[t], "UNMATCHED", NoReport, NoReport)

\* The two reports are the novation of t, and hold it alone.
NovationOf(t, buyer, seller) ==
  /\ buyer.trade = t /\ seller.trade = t
  /\ buyer.side = "BUY" /\ seller.side = "SELL"
  /\ Terms(buyer) = Terms(seller)
  /\ results[buyer.id] = Result(buyer, "NOVATED", buyer, seller)
  /\ results[seller.id] = Result(seller, "NOVATED", buyer, seller)
  /\ \A i \in ReportIds :
       results[i].outcome = "NOVATED" /\ results[i].report.trade = t =>
         i \in {buyer.id, seller.id}

\* A novated trade has one buyer and one seller, on the same terms, who both
\* hold the same novation; nobody else holds one of that trade, however often
\* and under whatever id its reports come again (submit, _match, _novate).
NovatedOnce ==
  /\ \A t \in novated : \E b, s \in Reports : NovationOf(t, b, s)
  /\ \A i \in ReportIds :
       results[i].outcome = "NOVATED" => results[i].report.trade \in novated

\* Across every series long contracts equal short contracts (_novate).
Balanced ==
  \A x \in Series :
    SumFunction([account \in Accounts |-> long[<<account, x>>]])
      = SumFunction([account \in Accounts |-> short[<<account, x>>]])

\* What the clearing house sees of the emulator: the pair each trade bound.
NoPair == <<>>

Cleared ==
  [t \in Trades |->
     IF t \in novated
     THEN LET i == CHOOSE i \in ReportIds :
                     /\ results[i].outcome = "NOVATED"
                     /\ results[i].report.trade = t
          IN  <<results[i].buyer, results[i].seller>>
     ELSE NoPair]

House == INSTANCE ClearingHouse WITH cleared <- Cleared

\* The emulator implements the clearing house (submit): a trade is cleared at
\* most once, by two reports that agree, and every close was covered by what
\* the trades cleared before add up to.
ActsAsHouse == House!Spec

\* Positions, kept by increments novation by novation (_novate), are what the
\* novated trades add up to.
PositionsAddUp ==
  \A p \in Positions : long[p] = House!Long(p) /\ short[p] = House!Short(p)
=============================================================================
