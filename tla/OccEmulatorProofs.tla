-------------------------- MODULE OccEmulatorProofs --------------------------
(***************************************************************************)
(* Proofs about OccEmulator for any reports, trades, accounts and series:  *)
(* the shape of its state, that a report waits exactly as long as its      *)
(* answer says so, and that a trade is novated at most once.  The last     *)
(* needs the second: that the two reports of a novation were unanswered    *)
(* and waiting is what keeps a third report out of it.  From there: what   *)
(* is long is short, the positions are what the novated trades add up to,  *)
(* and so the emulator implements the clearing house.                      *)
(***************************************************************************)
EXTENDS OccEmulator, Sums

Inv == TypeOK /\ WaitingAgrees /\ NovatedOnce

\* What a report is made of.
LEMMA ReportFields ==
  ASSUME NEW r \in Reports
  PROVE  /\ r.id \in ReportIds
         /\ r.trade \in Trades
         /\ r.side \in {"BUY", "SELL"}
         /\ r.contracts \in Nat \ {0}
         /\ Key(r) \in Positions
BY ReportsAssumption DEF Key, Positions

\* An id without an answer has no outcome.
LEMMA UnansweredHasNone ==
  Unanswered.outcome = "NONE" /\ Unanswered \in Answers
BY DEF Unanswered, Result, Answers

\* The emulator starts with nothing answered, waiting or held.
LEMMA InvInit == Init => Inv
<1> SUFFICES ASSUME Init PROVE Inv
  OBVIOUS
<1>1. Unanswered \in Answers /\ Unanswered.outcome = "NONE"
  BY UnansweredHasNone
<1>2. TypeOK
  BY <1>1 DEF Init, TypeOK
<1>3. WaitingAgrees
  BY <1>1 DEF Init, WaitingAgrees
<1>4. NovatedOnce
  BY <1>1 DEF Init, NovatedOnce
<1> QED BY <1>2, <1>3, <1>4 DEF Inv

\* A rejection is kept under an id that was never answered, which no waiting
\* report and no party of a novation has.
LEMMA RejectKeeps ==
  ASSUME Inv, NEW r \in Reports, Fresh(r), Reject(r)
  PROVE  Inv'
<1> DEFINE answer == Result(r, "REJECTED", NoReport, NoReport)
<1>1. r.id \in ReportIds
  BY ReportFields
<1>2. answer \in Answers /\ answer.report = r /\ answer.outcome = "REJECTED"
  BY DEF Result, Answers
<1>3. Unanswered.outcome = "NONE"
  BY UnansweredHasNone
<1>4. /\ results' = [results EXCEPT ![r.id] = answer]
      /\ pending' = pending /\ novated' = novated
      /\ long' = long /\ short' = short
  BY DEF Reject, Keep
<1>5. /\ results'[r.id] = answer
      /\ \A i \in ReportIds \ {r.id} : results'[i] = results[i]
  BY <1>1, <1>4 DEF Inv, TypeOK
<1> HIDE DEF answer
<1>6. TypeOK'
  BY <1>1, <1>2, <1>4, <1>5 DEF Inv, TypeOK
<1>7. WaitingAgrees'
  <2>1. ASSUME NEW t \in Trades, pending[t] # NoReport
        PROVE  results'[pending[t].id] = results[pending[t].id]
    <3>1. pending[t] \in Reports
      BY <2>1 DEF Inv, TypeOK
    <3>2. results[pending[t].id]
            = Result(pending[t], "UNMATCHED", NoReport, NoReport)
      BY <2>1 DEF Inv, WaitingAgrees
    <3>3. results[pending[t].id].outcome = "UNMATCHED"
      BY <3>2 DEF Result
    <3> QED BY <3>1, <3>3, <1>3, <1>5, ReportFields DEF Fresh
  <2> QED BY <2>1, <1>2, <1>4, <1>5 DEF Inv, WaitingAgrees
<1>8. NovatedOnce'
  <2>1. ASSUME NEW t \in novated
        PROVE  \E b, s \in Reports : NovationOf(t, b, s)'
    <3>1. PICK b \in Reports, s \in Reports : NovationOf(t, b, s)
      BY DEF Inv, NovatedOnce
    <3>2. results[b.id].outcome = "NOVATED" /\ results[s.id].outcome = "NOVATED"
      BY <3>1 DEF NovationOf, Result
    <3>3. b.id # r.id /\ s.id # r.id
      BY <3>2, <1>3 DEF Fresh
    <3>4. NovationOf(t, b, s)'
      BY <3>1, <3>3, <1>2, <1>5, ReportFields DEF NovationOf
    <3> QED BY <3>4
  <2> QED BY <2>1, <1>2, <1>4, <1>5 DEF Inv, NovatedOnce
<1> QED BY <1>6, <1>7, <1>8 DEF Inv

\* A first report waits with its trade.
LEMMA AwaitKeeps ==
  ASSUME Inv, NEW r \in Reports, AwaitCounterpart(r)
  PROVE  Inv'
<1> DEFINE answer == Result(r, "UNMATCHED", NoReport, NoReport)
<1>1. r.id \in ReportIds /\ r.trade \in Trades
  BY ReportFields
<1>2. answer \in Answers /\ answer.report = r /\ answer.outcome = "UNMATCHED"
  BY DEF Result, Answers
<1>3. Unanswered.outcome = "NONE"
  BY UnansweredHasNone
<1>4. /\ results' = [results EXCEPT ![r.id] = answer]
      /\ pending' = [pending EXCEPT ![r.trade] = r]
      /\ novated' = novated /\ long' = long /\ short' = short
      /\ results[r.id] = Unanswered /\ r.trade \notin novated
      /\ pending[r.trade] = NoReport
  BY DEF AwaitCounterpart, Keep, Fresh, Novatable
<1>5. /\ results'[r.id] = answer
      /\ \A i \in ReportIds \ {r.id} : results'[i] = results[i]
      /\ pending'[r.trade] = r
      /\ \A t \in Trades \ {r.trade} : pending'[t] = pending[t]
  BY <1>1, <1>4 DEF Inv, TypeOK
<1>6. TypeOK'
  BY <1>1, <1>2, <1>4, <1>5 DEF Inv, TypeOK
<1>7. WaitingAgrees'
  <2>1. ASSUME NEW i \in ReportIds, results'[i].outcome = "UNMATCHED"
        PROVE  pending'[results'[i].report.trade] = results'[i].report
    <3>1. CASE i = r.id
      BY <3>1, <1>2, <1>5
    <3>2. CASE i # r.id
      <4>1. /\ results'[i] = results[i]
            /\ pending[results[i].report.trade] = results[i].report
        BY <2>1, <3>2, <1>5 DEF Inv, WaitingAgrees
      <4>2. results[i].report \in Reports
        BY <2>1, <4>1, <1>3 DEF Inv, TypeOK
      <4>3. results[i].report.trade # r.trade
        BY <4>1, <4>2, <1>4, ReportsAssumption
      <4> QED BY <4>1, <4>2, <4>3, <1>5, ReportFields
    <3> QED BY <3>1, <3>2
  <2>2. ASSUME NEW t \in Trades, pending'[t] # NoReport
        PROVE  /\ pending'[t].trade = t
               /\ t \notin novated'
               /\ results'[pending'[t].id] =
                    Result(pending'[t], "UNMATCHED", NoReport, NoReport)
    <3>1. CASE t = r.trade
      BY <3>1, <1>4, <1>5
    <3>2. CASE t # r.trade
      <4>1. /\ pending'[t] = pending[t] /\ pending[t] \in Reports
            /\ pending[t].trade = t /\ t \notin novated
            /\ results[pending[t].id] =
                 Result(pending[t], "UNMATCHED", NoReport, NoReport)
        BY <2>2, <3>2, <1>5 DEF Inv, WaitingAgrees, TypeOK
      <4>2. pending[t].id # r.id
        BY <4>1, <1>3, <1>4 DEF Result
      <4> QED BY <4>1, <4>2, <1>4, <1>5, ReportFields
    <3> QED BY <3>1, <3>2
  <2> QED BY <2>1, <2>2 DEF WaitingAgrees
<1> HIDE DEF answer
<1>8. NovatedOnce'
  <2>1. ASSUME NEW t \in novated
        PROVE  \E b, s \in Reports : NovationOf(t, b, s)'
    <3>1. PICK b \in Reports, s \in Reports : NovationOf(t, b, s)
      BY DEF Inv, NovatedOnce
    <3>2. results[b.id].outcome = "NOVATED" /\ results[s.id].outcome = "NOVATED"
      BY <3>1 DEF NovationOf, Result
    <3>3. b.id # r.id /\ s.id # r.id
      BY <3>2, <1>3, <1>4
    <3>4. NovationOf(t, b, s)'
      BY <3>1, <3>3, <1>2, <1>5, ReportFields DEF NovationOf
    <3> QED BY <3>4
  <2> QED BY <2>1, <1>2, <1>4, <1>5 DEF Inv, NovatedOnce
<1> QED BY <1>6, <1>7, <1>8 DEF Inv

\* Adding a report's contracts to a position, or taking no more than it holds,
\* leaves every position a natural number.
LEMMA AddTyped ==
  ASSUME NEW f \in [Positions -> Nat], NEW r \in Reports
  PROVE  /\ Add(f, r) \in [Positions -> Nat]
         /\ \A p \in Positions : Add(f, r)[p] >= f[p]
BY ReportFields DEF Add

LEMMA TakeTyped ==
  ASSUME NEW f \in [Positions -> Nat], NEW r \in Reports,
         r.contracts <= f[Key(r)]
  PROVE  Take(f, r) \in [Positions -> Nat]
BY ReportFields DEF Take

\* A novation keeps every position a natural number: what it closes was held,
\* and what it opens on the same side only adds.
LEMMA PositionsTyped ==
  ASSUME TypeOK, NEW buyer \in Reports, NEW seller \in Reports,
         CloseCovered(buyer, seller)
  PROVE  /\ LongAfter(buyer, seller) \in [Positions -> Nat]
         /\ ShortAfter(buyer, seller) \in [Positions -> Nat]
<1>1. long \in [Positions -> Nat] /\ short \in [Positions -> Nat]
  BY DEF TypeOK
<1>2. LongAfter(buyer, seller) \in [Positions -> Nat]
  <2> DEFINE opened == IF buyer.effect = "OPEN" THEN Add(long, buyer) ELSE long
  <2>1. opened \in [Positions -> Nat] /\ \A p \in Positions : opened[p] >= long[p]
    BY <1>1, AddTyped
  <2>2. seller.effect = "CLOSE" => seller.contracts <= opened[Key(seller)]
    BY <1>1, <2>1, ReportFields DEF CloseCovered
  <2> HIDE DEF opened
  <2>3. (IF seller.effect = "CLOSE" THEN Take(opened, seller) ELSE opened)
          \in [Positions -> Nat]
    BY <2>1, <2>2, TakeTyped
  <2> QED BY <2>3 DEF LongAfter, opened
<1>3. ShortAfter(buyer, seller) \in [Positions -> Nat]
  <2> DEFINE closed == IF buyer.effect = "CLOSE" THEN Take(short, buyer) ELSE short
  <2>1. closed \in [Positions -> Nat]
    BY <1>1, TakeTyped, ReportFields DEF CloseCovered
  <2> HIDE DEF closed
  <2>2. (IF seller.effect = "OPEN" THEN Add(closed, seller) ELSE closed)
          \in [Positions -> Nat]
    BY <2>1, AddTyped
  <2> QED BY <2>2 DEF ShortAfter, closed
<1> QED BY <1>2, <1>3

\* A novation answers its two reports and no other, and frees its trade.
LEMMA NovateKeeps ==
  ASSUME Inv, NEW r \in Reports, Novate(r)
  PROVE  Inv'
<1>0. PICK other \in Reports : other = pending[r.trade]
  BY ReportFields DEF Inv, TypeOK, Novate
<1> DEFINE buyer  == Buyer(r, other)
           seller == Seller(r, other)
           bought == Result(buyer, "NOVATED", buyer, seller)
           sold   == Result(seller, "NOVATED", buyer, seller)
<1>1. /\ results[r.id] = Unanswered /\ r.trade \notin novated
      /\ other # NoReport /\ Matches(r, other)
      /\ long' = LongAfter(buyer, seller) /\ short' = ShortAfter(buyer, seller)
      /\ pending' = [pending EXCEPT ![r.trade] = NoReport]
      /\ novated' = novated \cup {r.trade}
      /\ results' = [results EXCEPT ![buyer.id] = bought, ![seller.id] = sold]
  BY <1>0 DEF Novate, Fresh, Novatable
<1>2. /\ r.id \in ReportIds /\ r.trade \in Trades
      /\ other.id \in ReportIds /\ other.trade = r.trade
      /\ results[other.id] = Result(other, "UNMATCHED", NoReport, NoReport)
  BY <1>0, <1>1, ReportFields DEF Inv, TypeOK, WaitingAgrees
<1>3. results[other.id].outcome = "UNMATCHED" /\ results[r.id].outcome = "NONE"
  BY <1>1, <1>2, UnansweredHasNone DEF Result
<1>4. /\ buyer \in Reports /\ seller \in Reports
      /\ buyer.id \in ReportIds /\ seller.id \in ReportIds
      /\ buyer.trade = r.trade /\ seller.trade = r.trade
      /\ buyer.side = "BUY" /\ seller.side = "SELL"
      /\ Terms(buyer) = Terms(seller)
      /\ {buyer.id, seller.id} = {r.id, other.id}
      /\ buyer.id # seller.id
      /\ CloseCovered(buyer, seller)
  BY <1>1, <1>2, <1>3, ReportFields DEF Buyer, Seller, Matches, Opposite
<1>5. /\ bought \in Answers /\ bought.report = buyer
      /\ bought.outcome = "NOVATED"
      /\ sold \in Answers /\ sold.report = seller /\ sold.outcome = "NOVATED"
  BY <1>4 DEF Result, Answers
<1> HIDE DEF buyer, seller, bought, sold
<1>6. /\ results'[buyer.id] = bought /\ results'[seller.id] = sold
      /\ \A i \in ReportIds \ {buyer.id, seller.id} : results'[i] = results[i]
      /\ results' \in [ReportIds -> Answers]
  BY <1>1, <1>4, <1>5 DEF Inv, TypeOK
<1>7. /\ pending'[r.trade] = NoReport
      /\ \A t \in Trades \ {r.trade} : pending'[t] = pending[t]
      /\ pending' \in [Trades -> Reports \cup {NoReport}]
  BY <1>1, <1>2 DEF Inv, TypeOK
<1>8. TypeOK'
  <2>1. long' \in [Positions -> Nat] /\ short' \in [Positions -> Nat]
    BY <1>1, <1>4, PositionsTyped DEF Inv
  <2>2. ASSUME NEW i \in ReportIds, results'[i] # Unanswered
        PROVE  /\ results'[i].report \in Reports
               /\ results'[i].report.id = i
               /\ results'[i].outcome # "NONE"
    BY <2>2, <1>4, <1>5, <1>6 DEF Inv, TypeOK
  <2> QED BY <2>1, <2>2, <1>1, <1>2, <1>6, <1>7 DEF Inv, TypeOK
<1>9. WaitingAgrees'
  <2>1. ASSUME NEW i \in ReportIds, results'[i].outcome = "UNMATCHED"
        PROVE  pending'[results'[i].report.trade] = results'[i].report
    <3>1. i \notin {buyer.id, seller.id} /\ results'[i] = results[i]
      BY <2>1, <1>5, <1>6
    <3>2. pending[results[i].report.trade] = results[i].report
      BY <2>1, <3>1 DEF Inv, WaitingAgrees
    <3>3. results[i].report \in Reports /\ results[i].report.id = i
      BY <2>1, <3>1, UnansweredHasNone DEF Inv, TypeOK
    <3>4. results[i].report.trade # r.trade
      BY <3>1, <3>2, <3>3, <1>0, <1>4
    <3> QED BY <3>1, <3>2, <3>3, <3>4, <1>7, ReportFields
  <2>2. ASSUME NEW t \in Trades, pending'[t] # NoReport
        PROVE  /\ pending'[t].trade = t
               /\ t \notin novated'
               /\ results'[pending'[t].id] =
                    Result(pending'[t], "UNMATCHED", NoReport, NoReport)
    <3>1. t # r.trade /\ pending'[t] = pending[t] /\ pending[t] \in Reports
      BY <2>2, <1>7 DEF Inv, TypeOK
    <3>2. /\ pending[t].trade = t /\ t \notin novated
          /\ results[pending[t].id] =
               Result(pending[t], "UNMATCHED", NoReport, NoReport)
      BY <2>2, <3>1 DEF Inv, WaitingAgrees
    <3>3. results[pending[t].id].report = pending[t]
      BY <3>2 DEF Result
    <3>4. results[other.id].report = other /\ Unanswered.report = NoReport
      BY <1>2 DEF Result, Unanswered
    <3>5. pending[t].id \notin {r.id, other.id}
      BY <3>1, <3>2, <3>3, <3>4, <1>1, <1>2, ReportsAssumption
    <3> QED BY <3>1, <3>2, <3>5, <1>1, <1>4, <1>6, ReportFields
  <2> QED BY <2>1, <2>2 DEF WaitingAgrees
<1>10. NovatedOnce'
  <2>1. ASSUME NEW i \in ReportIds, results[i].outcome = "NOVATED"
        PROVE  /\ results'[i] = results[i]
               /\ results[i].report.trade # r.trade
    BY <2>1, <1>1, <1>3, <1>4, <1>6 DEF Inv, NovatedOnce
  <2>2. ASSUME NEW t \in novated
        PROVE  \E b, s \in Reports : NovationOf(t, b, s)'
    <3>1. PICK b \in Reports, s \in Reports : NovationOf(t, b, s)
      BY DEF Inv, NovatedOnce
    <3>2. results[b.id].outcome = "NOVATED" /\ results[s.id].outcome = "NOVATED"
      BY <3>1 DEF NovationOf, Result
    <3>3. results'[b.id] = results[b.id] /\ results'[s.id] = results[s.id]
      BY <2>1, <3>2, ReportFields
    <3>4. ASSUME NEW i \in ReportIds, results'[i].outcome = "NOVATED",
                 results'[i].report.trade = t
          PROVE  i \in {b.id, s.id}
      BY <3>1, <3>4, <1>1, <1>4, <1>5, <1>6 DEF NovationOf
    <3>5. NovationOf(t, b, s)'
      BY <3>1, <3>3, <3>4 DEF NovationOf
    <3> QED BY <3>5
  <2>3. NovationOf(r.trade, buyer, seller)'
    <3>1. ASSUME NEW i \in ReportIds, results'[i].outcome = "NOVATED",
                 results'[i].report.trade = r.trade
          PROVE  i \in {buyer.id, seller.id}
      BY <3>1, <2>1, <1>6
    <3>2. /\ results'[buyer.id] = Result(buyer, "NOVATED", buyer, seller)
          /\ results'[seller.id] = Result(seller, "NOVATED", buyer, seller)
      BY <1>6 DEF bought, sold
    <3> QED BY <3>1, <3>2, <1>4 DEF NovationOf
  <2>4. ASSUME NEW i \in ReportIds, results'[i].outcome = "NOVATED"
        PROVE  results'[i].report.trade \in novated'
    BY <2>1, <2>4, <1>1, <1>4, <1>5, <1>6 DEF Inv, NovatedOnce
  <2> QED BY <2>2, <2>3, <2>4, <1>1, <1>4 DEF NovatedOnce
<1> QED BY <1>8, <1>9, <1>10 DEF Inv

\* Every report submitted keeps the invariant.
LEMMA InvNext == Inv /\ [Next]_vars => Inv'
<1> SUFFICES ASSUME Inv, [Next]_vars PROVE Inv'
  OBVIOUS
<1>1. ASSUME NEW r \in Reports, Submit(r) PROVE Inv'
  BY <1>1, RejectKeeps, AwaitKeeps, NovateKeeps
     DEF Submit, RejectLate, RejectMismatch
<1>2. CASE UNCHANGED vars
  BY <1>2 DEF vars, Inv, TypeOK, WaitingAgrees, NovatedOnce, NovationOf
<1> QED BY <1>1, <1>2 DEF Next

\* The emulator's state keeps its shape, and no position falls below zero,
\* whatever reports arrive in whatever order.
THEOREM EmulatorTyped == Spec => []TypeOK
<1>1. Inv => TypeOK
  BY DEF Inv
<1> QED BY <1>1, InvInit, InvNext, PTL DEF Spec

\* A report waits exactly as long as its answer says so.
THEOREM WaitingHolds == Spec => []WaitingAgrees
<1>1. Inv => WaitingAgrees
  BY DEF Inv
<1> QED BY <1>1, InvInit, InvNext, PTL DEF Spec

\* A trade is novated at most once, between one buyer and one seller.
THEOREM NovationsHold == Spec => []NovatedOnce
<1>1. Inv => NovatedOnce
  BY DEF Inv
<1> QED BY <1>1, InvInit, InvNext, PTL DEF Spec
-----------------------------------------------------------------------------
(* What the clearing house sees                                             *)

\* The pair a novated trade is cleared with is the one that holds it.
ClearedAsNovated ==
  \A t \in Trades :
    IF t \in novated
    THEN \E b, s \in Reports : NovationOf(t, b, s) /\ Cleared[t] = <<b, s>>
    ELSE Cleared[t] = NoPair

LEMMA ClearedReads == Inv => ClearedAsNovated
<1> SUFFICES ASSUME Inv, NEW t \in Trades
             PROVE  IF t \in novated
                    THEN \E b, s \in Reports :
                           NovationOf(t, b, s) /\ Cleared[t] = <<b, s>>
                    ELSE Cleared[t] = NoPair
  BY DEF ClearedAsNovated
<1>1. CASE t \notin novated
  BY <1>1 DEF Cleared
<1>2. CASE t \in novated
  <2> DEFINE Holds(i) == results[i].outcome = "NOVATED" /\ results[i].report.trade = t
             chosen == CHOOSE i \in ReportIds : Holds(i)
  <2>1. PICK b \in Reports, s \in Reports : NovationOf(t, b, s)
    BY <1>2 DEF Inv, NovatedOnce
  <2>2. /\ results[b.id].buyer = b /\ results[b.id].seller = s
        /\ results[s.id].buyer = b /\ results[s.id].seller = s
        /\ b.id \in ReportIds /\ Holds(b.id)
    BY <2>1, ReportFields DEF NovationOf, Result
  <2>3. chosen \in ReportIds /\ Holds(chosen)
    BY <2>2
  <2>4. chosen \in {b.id, s.id}
    BY <2>1, <2>3 DEF NovationOf
  <2>5. Cleared[t] = <<results[chosen].buyer, results[chosen].seller>>
    BY <1>2 DEF Cleared
  <2> HIDE DEF chosen
  <2> QED BY <1>2, <2>1, <2>2, <2>4, <2>5
<1> QED BY <1>1, <1>2

LEMMA ClearedReadsNext == Inv' => ClearedAsNovated'
BY ClearedReads, PTL

\* A pair is not the absence of one.
LEMMA PairIsPair ==
  ASSUME NEW b, NEW s
  PROVE  <<b, s>> # NoPair
BY DEF NoPair

\* An answer that says NOVATED is never overwritten: a trade stays cleared with
\* the pair it was cleared with.
LEMMA ClearedKept ==
  ASSUME Inv, Inv', NEW t \in novated, t \in novated',
         \A i \in ReportIds :
           results[i].outcome = "NOVATED" => results'[i] = results[i]
  PROVE  Cleared'[t] = Cleared[t]
<1>0. t \in Trades
  BY DEF Inv, TypeOK
<1>1. PICK b \in Reports, s \in Reports :
        NovationOf(t, b, s) /\ Cleared[t] = <<b, s>>
  BY <1>0, ClearedReads DEF ClearedAsNovated
<1>2. PICK c \in Reports, d \in Reports :
        NovationOf(t, c, d)' /\ Cleared'[t] = <<c, d>>
  BY <1>0, ClearedReadsNext DEF ClearedAsNovated
<1>3. /\ b.id \in ReportIds /\ results[b.id] = Result(b, "NOVATED", b, s)
      /\ b.trade = t
  BY <1>1, ReportFields DEF NovationOf
<1>4. /\ results[b.id].outcome = "NOVATED" /\ results[b.id].report = b
      /\ results[b.id].buyer = b /\ results[b.id].seller = s
  BY <1>3 DEF Result
<1>5. results'[b.id] = results[b.id]
  BY <1>3, <1>4
<1>6. b.id \in {c.id, d.id}
  BY <1>2, <1>3, <1>4, <1>5 DEF NovationOf
<1>7. results'[b.id].buyer = c /\ results'[b.id].seller = d
  BY <1>2, <1>6 DEF NovationOf, Result
<1> QED BY <1>1, <1>2, <1>4, <1>5, <1>7

\* A rejected or waiting report clears nothing.
LEMMA NothingCleared ==
  ASSUME Inv, Inv', NEW r \in Reports, Fresh(r), novated' = novated,
         NEW answer, results' = [results EXCEPT ![r.id] = answer]
  PROVE  Cleared' = Cleared
<1>1. \A i \in ReportIds :
        results[i].outcome = "NOVATED" => results'[i] = results[i]
  BY UnansweredHasNone, ReportFields DEF Fresh, Inv, TypeOK
<1>2. ASSUME NEW t \in Trades PROVE Cleared'[t] = Cleared[t]
  <2>1. CASE t \in novated
    BY <1>1, <2>1, ClearedKept
  <2>2. CASE t \notin novated
    BY <2>2 DEF Cleared
  <2> QED BY <2>1, <2>2
<1>3. Cleared = [t \in Trades |-> Cleared[t]] /\ Cleared' = [t \in Trades |-> Cleared'[t]]
  BY DEF Cleared
<1> QED BY <1>2, <1>3, Zenon

\* What a novation does: two reports that agree, covered by the positions, and
\* one trade more that is cleared, by them.
LEMMA NovateClears ==
  ASSUME Inv, Inv', NEW r \in Reports, Novate(r)
  PROVE  \E b, s \in Reports :
           /\ b.trade = r.trade /\ s.trade = r.trade
           /\ b.side = "BUY" /\ s.side = "SELL"
           /\ Terms(b) = Terms(s)
           /\ CloseCovered(b, s)
           /\ long' = LongAfter(b, s) /\ short' = ShortAfter(b, s)
           /\ Cleared[r.trade] = NoPair
           /\ Cleared' = [Cleared EXCEPT ![r.trade] = <<b, s>>]
<1>0. PICK other \in Reports : other = pending[r.trade]
  BY ReportFields DEF Inv, TypeOK, Novate
<1> DEFINE b == Buyer(r, other)
           s == Seller(r, other)
           bought == Result(b, "NOVATED", b, s)
           sold   == Result(s, "NOVATED", b, s)
<1>1. /\ results[r.id] = Unanswered /\ r.trade \notin novated
      /\ other # NoReport /\ Matches(r, other)
      /\ long' = LongAfter(b, s) /\ short' = ShortAfter(b, s)
      /\ novated' = novated \cup {r.trade}
      /\ results' = [results EXCEPT ![b.id] = bought, ![s.id] = sold]
  BY <1>0 DEF Novate, Fresh, Novatable
<1>2. /\ r.id \in ReportIds /\ r.trade \in Trades
      /\ other.id \in ReportIds /\ other.trade = r.trade
      /\ results[other.id].outcome = "UNMATCHED" /\ results[r.id].outcome = "NONE"
  <2>1. /\ r.id \in ReportIds /\ r.trade \in Trades /\ other.id \in ReportIds
        /\ other.trade = r.trade
        /\ results[other.id] = Result(other, "UNMATCHED", NoReport, NoReport)
    BY <1>0, <1>1, ReportFields DEF Inv, TypeOK, WaitingAgrees
  <2> QED BY <1>1, <2>1, UnansweredHasNone DEF Result
<1>3. /\ b \in Reports /\ s \in Reports
      /\ b.trade = r.trade /\ s.trade = r.trade
      /\ b.side = "BUY" /\ s.side = "SELL"
      /\ Terms(b) = Terms(s)
      /\ {b.id, s.id} = {r.id, other.id} /\ b.id # s.id
      /\ b.id \in ReportIds /\ s.id \in ReportIds
      /\ CloseCovered(b, s)
  BY <1>1, <1>2, ReportFields DEF Buyer, Seller, Matches, Opposite
<1>4. bought.outcome = "NOVATED" /\ bought.buyer = b /\ bought.seller = s
  BY DEF Result
<1> HIDE DEF b, s, bought, sold
<1>5. /\ results'[b.id] = bought
      /\ \A i \in ReportIds \ {b.id, s.id} : results'[i] = results[i]
  BY <1>1, <1>3 DEF Inv, TypeOK
<1>6. \A i \in ReportIds :
        results[i].outcome = "NOVATED" => results'[i] = results[i]
  BY <1>2, <1>3, <1>5
<1>7. Cleared[r.trade] = NoPair
  BY <1>1, <1>2, ClearedReads DEF ClearedAsNovated
<1>8. Cleared'[r.trade] = <<b, s>>
  <2>1. PICK c \in Reports, d \in Reports :
          NovationOf(r.trade, c, d)' /\ Cleared'[r.trade] = <<c, d>>
    BY <1>1, <1>2, ClearedReadsNext DEF ClearedAsNovated
  <2>2. b.id \in {c.id, d.id}
    <3>1. bought.report.trade = r.trade
      BY <1>3 DEF bought, Result
    <3> QED BY <2>1, <3>1, <1>3, <1>4, <1>5 DEF NovationOf
  <2>3. results'[b.id].buyer = c /\ results'[b.id].seller = d
    BY <2>1, <2>2 DEF NovationOf, Result
  <2> QED BY <2>1, <2>3, <1>4, <1>5
<1>9. ASSUME NEW t \in Trades, t # r.trade PROVE Cleared'[t] = Cleared[t]
  <2>1. CASE t \in novated
    BY <1>1, <1>6, <2>1, ClearedKept
  <2>2. CASE t \notin novated
    BY <1>1, <1>9, <2>2 DEF Cleared
  <2> QED BY <2>1, <2>2
<1>10. Cleared' = [Cleared EXCEPT ![r.trade] = <<b, s>>]
  <2>1. /\ Cleared = [t \in Trades |-> Cleared[t]]
        /\ Cleared' = [t \in Trades |-> Cleared'[t]]
    BY DEF Cleared
  <2>2. [Cleared EXCEPT ![r.trade] = <<b, s>>]
          = [t \in Trades |-> IF t = r.trade THEN <<b, s>> ELSE Cleared[t]]
    <3> HIDE DEF Cleared
    <3> QED BY <2>1
  <2> QED BY <2>1, <2>2, <1>8, <1>9, Zenon
<1> QED BY <1>1, <1>3, <1>7, <1>10

-----------------------------------------------------------------------------
(* What the cleared trades add up to                                        *)

Counted(R, key, effect) == {r \in R : House!Key(r) = key /\ r.effect = effect}

Contribution(report, key, effect) ==
  IF Key(report) = key /\ report.effect = effect THEN report.contracts ELSE 0

\* The clearing house sums as this module does.
LEMMA HouseSums ==
  ASSUME NEW f
  PROVE  House!SumFunction(f) = SumFunctionOnSet(f, DOMAIN f)
BY DEF House!SumFunction, House!SumFunctionOnSet, House!FoldFunctionOnSet,
       House!MapThenFoldSet, SumFunctionOnSet, FoldFunctionOnSet, MapThenFoldSet

\* One more report adds its contracts, to the position it is about.
LEMMA OneReportMore ==
  ASSUME NEW R, R \subseteq Reports, IsFiniteSet(R),
         NEW b \in Reports, b \notin R, NEW key, NEW effect
  PROVE  /\ House!Contracts(R, key, effect) \in Int
         /\ House!Contracts(R \cup {b}, key, effect)
              = House!Contracts(R, key, effect) + Contribution(b, key, effect)
<1> DEFINE S == Counted(R, key, effect)
           T == Counted(R \cup {b}, key, effect)
           f == [r \in S |-> r.contracts]
           e == [r \in T |-> r.contracts]
<1>1. /\ House!Contracts(R, key, effect) = SumFunctionOnSet(f, S)
      /\ House!Contracts(R \cup {b}, key, effect) = SumFunctionOnSet(e, T)
  <2>1. DOMAIN f = S /\ DOMAIN e = T
    OBVIOUS
  <2>2. /\ House!Contracts(R, key, effect) = House!SumFunction(f)
        /\ House!Contracts(R \cup {b}, key, effect) = House!SumFunction(e)
    BY DEF House!Contracts, Counted
  <2> HIDE DEF f, e, S, T
  <2> QED BY <2>1, <2>2, HouseSums
<1>2. IsFiniteSet(S) /\ S \subseteq R
  BY FS_Subset DEF Counted
<1>3. /\ \A r \in S : f[r] \in Int /\ f[r] = e[r]
      /\ \A r \in T : e[r] = r.contracts /\ e[r] \in Int
  BY ReportFields DEF Counted
<1>4. Key(b) = House!Key(b)
  BY DEF Key, House!Key
<1>5. SumFunctionOnSet(f, S) \in Int /\ SumFunctionOnSet(f, S) = SumFunctionOnSet(e, S)
  <2> HIDE DEF f, e, S, T
  <2> QED BY <1>2, <1>3, SumTyped, SumSame
<1>6. CASE Key(b) = key /\ b.effect = effect
  <2>1. T = S \cup {b} /\ b \notin S
    BY <1>4, <1>6 DEF Counted
  <2> HIDE DEF S, T, f, e
  <2>2. SumFunctionOnSet(e, T) = e[b] + SumFunctionOnSet(e, S)
    BY <2>1, <1>2, <1>3, SumWith
  <2>3. Contribution(b, key, effect) = b.contracts /\ b.contracts \in Int
    BY <1>6, ReportFields DEF Contribution
  <2> QED BY <1>1, <1>3, <1>5, <2>1, <2>2, <2>3
<1>7. CASE ~(Key(b) = key /\ b.effect = effect)
  <2>1. T = S
    BY <1>4, <1>7 DEF Counted
  <2>2. Contribution(b, key, effect) = 0
    BY <1>7 DEF Contribution
  <2> HIDE DEF S, T, f, e
  <2> QED BY <1>1, <1>5, <2>1, <2>2
<1> QED BY <1>6, <1>7

\* A finite set has a finite image.
LEMMA FiniteImage ==
  ASSUME NEW S, IsFiniteSet(S), NEW f
  PROVE  IsFiniteSet({f[x] : x \in S})
<1> DEFINE T == {f[x] : x \in S}
           g == [x \in S |-> f[x]]
<1>1. g \in Surjection(S, T)
  BY DEF Surjection
<1> QED BY <1>1, FS_Surjection

\* The parties of the cleared trades are finitely many reports, each of the
\* trade that is cleared.
LEMMA PartiesAre ==
  ASSUME Inv
  PROVE  /\ \A t \in Trades :
              Cleared[t] # NoPair =>
                /\ Cleared[t][1] \in Reports /\ Cleared[t][1].trade = t
                /\ Cleared[t][2] \in Reports /\ Cleared[t][2].trade = t
         /\ House!Buyers \subseteq Reports /\ IsFiniteSet(House!Buyers)
         /\ House!Sellers \subseteq Reports /\ IsFiniteSet(House!Sellers)
<1>1. ASSUME NEW t \in Trades, Cleared[t] # NoPair
      PROVE  /\ Cleared[t][1] \in Reports /\ Cleared[t][1].trade = t
             /\ Cleared[t][2] \in Reports /\ Cleared[t][2].trade = t
  <2>1. PICK b \in Reports, s \in Reports :
          NovationOf(t, b, s) /\ Cleared[t] = <<b, s>>
    BY <1>1, ClearedReads DEF ClearedAsNovated
  <2>2. b.trade = t /\ s.trade = t
    BY <2>1 DEF NovationOf
  <2> QED BY <2>1, <2>2
<1> DEFINE U == {x \in Trades : Cleared[x] # NoPair}
           f == [t \in Trades |-> Cleared[t][1]]
           g == [t \in Trades |-> Cleared[t][2]]
<1>2. IsFiniteSet(U)
  BY FiniteAssumption, FS_Subset
<1>3. House!Buyers = {f[t] : t \in U} /\ House!Sellers = {g[t] : t \in U}
  <2>1. \A t \in U : f[t] = Cleared[t][1] /\ g[t] = Cleared[t][2]
    OBVIOUS
  <2>2. /\ House!Buyers = {Cleared[t][1] : t \in U}
        /\ House!Sellers = {Cleared[t][2] : t \in U}
    BY DEF House!Buyers, House!Sellers
  <2> HIDE DEF f, g, U
  <2> QED BY <2>1, <2>2
<1>4. \A t \in U : f[t] \in Reports /\ g[t] \in Reports
  BY <1>1
<1> HIDE DEF f, g, U
<1>5. IsFiniteSet({f[t] : t \in U}) /\ IsFiniteSet({g[t] : t \in U})
  BY <1>2, FiniteImage
<1> QED BY <1>1, <1>3, <1>4, <1>5

\* Clearing a trade adds its two reports to the parties.
LEMMA OneTradeMore ==
  ASSUME Inv, NEW t \in Trades, NEW b \in Reports, NEW s \in Reports,
         b.trade = t, s.trade = t,
         Cleared[t] = NoPair, Cleared' = [Cleared EXCEPT ![t] = <<b, s>>]
  PROVE  /\ b \notin House!Buyers /\ House!Buyers' = House!Buyers \cup {b}
         /\ s \notin House!Sellers /\ House!Sellers' = House!Sellers \cup {s}
<1> DEFINE U == {x \in Trades : Cleared[x] # NoPair}
           V == {x \in Trades : Cleared'[x] # NoPair}
<1>1. /\ Cleared'[t] = <<b, s>>
      /\ \A u \in Trades \ {t} : Cleared'[u] = Cleared[u]
  <2> DEFINE pair(u) ==
               IF u \in novated
               THEN LET i == CHOOSE i \in ReportIds :
                               /\ results[i].outcome = "NOVATED"
                               /\ results[i].report.trade = u
                    IN  <<results[i].buyer, results[i].seller>>
               ELSE NoPair
  <2>0. Cleared = [u \in Trades |-> pair(u)]
    BY Zenon DEF Cleared
  <2> HIDE DEF Cleared, pair
  <2>1. Cleared = [u \in Trades |-> Cleared[u]]
    BY <2>0
  <2> QED BY <2>1
<1>2. V = U \cup {t} /\ t \notin U
  BY <1>1, PairIsPair
<1>3. \A u \in U :
        Cleared'[u] = Cleared[u] /\ Cleared[u][1].trade = u /\ Cleared[u][2].trade = u
  BY <1>1, <1>2, PartiesAre
<1>4. /\ House!Buyers = {Cleared[u][1] : u \in U}
      /\ House!Sellers = {Cleared[u][2] : u \in U}
      /\ House!Buyers' = {Cleared'[u][1] : u \in V}
      /\ House!Sellers' = {Cleared'[u][2] : u \in V}
  BY DEF House!Buyers, House!Sellers
<1>5. <<b, s>>[1] = b /\ <<b, s>>[2] = s
  OBVIOUS
<1> HIDE DEF U, V
<1> QED BY <1>1, <1>2, <1>3, <1>4, <1>5

-----------------------------------------------------------------------------
(* Positions                                                                *)

\* A novation moves a position by what its two reports open and close in it.
LEMMA PositionsMove ==
  ASSUME TypeOK, NEW b \in Reports, NEW s \in Reports, NEW p \in Positions
  PROVE  /\ LongAfter(b, s)[p]
              = long[p] + Contribution(b, p, "OPEN") - Contribution(s, p, "CLOSE")
         /\ ShortAfter(b, s)[p]
              = short[p] + Contribution(s, p, "OPEN") - Contribution(b, p, "CLOSE")
<1>1. ASSUME NEW f \in [Positions -> Int], NEW r \in Reports
      PROVE  /\ Add(f, r) \in [Positions -> Int] /\ Take(f, r) \in [Positions -> Int]
             /\ Add(f, r)[p] = f[p] + (IF Key(r) = p THEN r.contracts ELSE 0)
             /\ Take(f, r)[p] = f[p] - (IF Key(r) = p THEN r.contracts ELSE 0)
  <2>1. r.contracts \in Int /\ Key(r) \in Positions
    BY ReportFields
  <2> QED BY <2>1 DEF Add, Take
<1>2. long \in [Positions -> Int] /\ short \in [Positions -> Int]
  BY DEF TypeOK
<1>3. ASSUME NEW r \in Reports, NEW e
      PROVE  /\ Contribution(r, p, e) \in Int
             /\ Contribution(r, p, e)
                  = IF r.effect = e THEN (IF Key(r) = p THEN r.contracts ELSE 0)
                    ELSE 0
  BY ReportFields DEF Contribution
<1>4. LongAfter(b, s)[p]
        = long[p] + Contribution(b, p, "OPEN") - Contribution(s, p, "CLOSE")
  <2> DEFINE opened == IF b.effect = "OPEN" THEN Add(long, b) ELSE long
  <2>1. /\ opened \in [Positions -> Int]
        /\ opened[p] = long[p] + Contribution(b, p, "OPEN")
    BY <1>1, <1>2, <1>3
  <2> HIDE DEF opened
  <2>2. LongAfter(b, s) = IF s.effect = "CLOSE" THEN Take(opened, s) ELSE opened
    BY DEF LongAfter, opened
  <2>3. LongAfter(b, s)[p] = opened[p] - Contribution(s, p, "CLOSE")
    BY <1>1, <1>3, <2>1, <2>2
  <2>4. long[p] \in Int /\ Contribution(b, p, "OPEN") \in Int
        /\ Contribution(s, p, "CLOSE") \in Int
    BY <1>2, <1>3
  <2> QED BY <2>1, <2>3, <2>4
<1>5. ShortAfter(b, s)[p]
        = short[p] + Contribution(s, p, "OPEN") - Contribution(b, p, "CLOSE")
  <2> DEFINE closed == IF b.effect = "CLOSE" THEN Take(short, b) ELSE short
  <2>1. /\ closed \in [Positions -> Int]
        /\ closed[p] = short[p] - Contribution(b, p, "CLOSE")
    BY <1>1, <1>2, <1>3
  <2> HIDE DEF closed
  <2>2. ShortAfter(b, s) = IF s.effect = "OPEN" THEN Add(closed, s) ELSE closed
    BY DEF ShortAfter, closed
  <2>3. ShortAfter(b, s)[p] = closed[p] + Contribution(s, p, "OPEN")
    BY <1>1, <1>3, <2>1, <2>2
  <2>4. short[p] \in Int /\ Contribution(b, p, "CLOSE") \in Int
        /\ Contribution(s, p, "OPEN") \in Int
    BY <1>2, <1>3
  <2> QED BY <2>1, <2>3, <2>4
<1> QED BY <1>4, <1>5

Total(f, x) == SumFunction([account \in Accounts |-> f[<<account, x>>]])

PartIn(x, report, effect) ==
  IF report.series = x /\ report.effect = effect THEN report.contracts ELSE 0

Adds(f, g, report, effect) ==
  \A p \in Positions : g[p] = f[p] + Contribution(report, p, effect)

\* What one report adds to a position it adds to the total of its series.
LEMMA TotalMoves ==
  ASSUME NEW f \in [Positions -> Int], NEW g \in [Positions -> Int],
         NEW r \in Reports, NEW effect, NEW x \in Series, Adds(f, g, r, effect)
  PROVE  /\ Total(f, x) \in Int
         /\ Total(g, x) = Total(f, x) + PartIn(x, r, effect)
<1> USE DEF PartIn, Adds
<1> DEFINE k == [account \in Accounts |-> f[<<account, x>>]]
           l == [account \in Accounts |-> g[<<account, x>>]]
           a == r.account
<1>1. /\ Total(f, x) = SumFunctionOnSet(k, Accounts)
      /\ Total(g, x) = SumFunctionOnSet(l, Accounts)
  BY DEF Total, SumFunction
<1>2. /\ \A c \in Accounts : k[c] \in Int /\ l[c] \in Int
      /\ \A c \in Accounts :
           l[c] = k[c] + Contribution(r, <<c, x>>, effect)
  BY DEF Positions
<1>3. a \in Accounts /\ r.contracts \in Int
  BY ReportsAssumption
<1>4. ASSUME NEW c \in Accounts
      PROVE  Contribution(r, <<c, x>>, effect)
               = IF c = a /\ r.series = x /\ r.effect = effect
                 THEN r.contracts ELSE 0
  BY DEF Contribution, Key
<1> HIDE DEF k, l, a
<1>5. SumFunctionOnSet(k, Accounts) \in Int
  BY <1>2, FiniteAssumption, SumTyped
<1>6. ASSUME NEW c \in Accounts \ {a} PROVE k[c] = l[c]
  <2>1. Contribution(r, <<c, x>>, effect) = 0
    BY <1>4
  <2>2. k[c] \in Int /\ l[c] = k[c] + 0
    BY <1>2, <2>1
  <2> QED BY <2>2
<1>7. SumFunctionOnSet(l, Accounts) = SumFunctionOnSet(k, Accounts) + l[a] - k[a]
  BY <1>2, <1>3, <1>6, FiniteAssumption, SumChange
<1>8. l[a] = k[a] + (IF r.series = x /\ r.effect = effect THEN r.contracts ELSE 0)
  BY <1>2, <1>3, <1>4
<1>9. k[a] \in Int
  BY <1>2, <1>3
<1> QED BY <1>1, <1>3, <1>5, <1>7, <1>8, <1>9

\* A novation opens and closes as many contracts long as short.
LEMMA NovateBalances ==
  ASSUME TypeOK, Balanced, NEW b \in Reports, NEW s \in Reports,
         Terms(b) = Terms(s), CloseCovered(b, s),
         long' = LongAfter(b, s), short' = ShortAfter(b, s)
  PROVE  Balanced'
<1> SUFFICES ASSUME NEW x \in Series
             PROVE  Total(long', x) = Total(short', x)
  BY DEF Balanced, Total
<1> DEFINE opened == [p \in Positions |-> long[p] + Contribution(b, p, "OPEN")]
           sold   == [p \in Positions |-> short[p] + Contribution(s, p, "OPEN")]
<1>1. /\ long \in [Positions -> Int] /\ short \in [Positions -> Int]
      /\ long' \in [Positions -> Int] /\ short' \in [Positions -> Int]
  BY PositionsTyped DEF TypeOK
<1>2. ASSUME NEW r \in Reports, NEW p, NEW e PROVE Contribution(r, p, e) \in Int
  BY ReportFields DEF Contribution
<1>3. opened \in [Positions -> Int] /\ sold \in [Positions -> Int]
  BY <1>1, <1>2
<1>4. /\ \A p \in Positions : opened[p] = long[p] + Contribution(b, p, "OPEN")
      /\ \A p \in Positions : sold[p] = short[p] + Contribution(s, p, "OPEN")
  OBVIOUS
<1> HIDE DEF opened, sold
<1>5. ASSUME NEW p \in Positions
      PROVE  /\ opened[p] = long'[p] + Contribution(s, p, "CLOSE")
             /\ sold[p] = short'[p] + Contribution(b, p, "CLOSE")
  <2>1. /\ long'[p] = long[p] + Contribution(b, p, "OPEN")
                        - Contribution(s, p, "CLOSE")
        /\ short'[p] = short[p] + Contribution(s, p, "OPEN")
                         - Contribution(b, p, "CLOSE")
    BY PositionsMove
  <2>2. /\ Contribution(b, p, "OPEN") \in Int /\ Contribution(s, p, "CLOSE") \in Int
        /\ Contribution(s, p, "OPEN") \in Int /\ Contribution(b, p, "CLOSE") \in Int
        /\ long[p] \in Int /\ short[p] \in Int
    BY <1>1, <1>2
  <2> QED BY <1>4, <2>1, <2>2
<1>6. /\ Adds(long, opened, b, "OPEN") /\ Adds(long', opened, s, "CLOSE")
       /\ Adds(short, sold, s, "OPEN") /\ Adds(short', sold, b, "CLOSE")
  BY <1>4, <1>5 DEF Adds
<1>7. /\ Total(opened, x) = Total(long, x) + PartIn(x, b, "OPEN")
      /\ Total(opened, x) = Total(long', x) + PartIn(x, s, "CLOSE")
      /\ Total(sold, x) = Total(short, x) + PartIn(x, s, "OPEN")
      /\ Total(sold, x) = Total(short', x) + PartIn(x, b, "CLOSE")
      /\ Total(long, x) \in Int /\ Total(long', x) \in Int
      /\ Total(short, x) \in Int /\ Total(short', x) \in Int
  <2>1. /\ Total(long, x) \in Int
        /\ Total(opened, x) = Total(long, x) + PartIn(x, b, "OPEN")
    BY <1>1, <1>3, <1>6, TotalMoves
  <2>2. /\ Total(long', x) \in Int
        /\ Total(opened, x) = Total(long', x) + PartIn(x, s, "CLOSE")
    BY <1>1, <1>3, <1>6, TotalMoves
  <2>3. /\ Total(short, x) \in Int
        /\ Total(sold, x) = Total(short, x) + PartIn(x, s, "OPEN")
    <3>1. /\ short \in [Positions -> Int] /\ sold \in [Positions -> Int]
          /\ Adds(short, sold, s, "OPEN")
      BY <1>1, <1>3, <1>6
    <3> QED BY <3>1, TotalMoves
  <2>4. /\ Total(short', x) \in Int
        /\ Total(sold, x) = Total(short', x) + PartIn(x, b, "CLOSE")
    BY <1>1, <1>3, <1>6, TotalMoves
  <2> QED BY <2>1, <2>2, <2>3, <2>4
<1>8. Total(long, x) = Total(short, x)
  BY DEF Balanced, Total
<1>9. /\ b.series = s.series /\ b.contracts = s.contracts
      /\ b.contracts \in Int
      /\ b.effect \in {"OPEN", "CLOSE"} /\ s.effect \in {"OPEN", "CLOSE"}
  BY ReportsAssumption DEF Terms
<1> USE DEF PartIn
<1>10. PartIn(x, b, "OPEN") + PartIn(x, b, "CLOSE") = PartIn(x, s, "OPEN") + PartIn(x, s, "CLOSE")
  BY <1>9
<1>11. /\ PartIn(x, b, "OPEN") \in Int /\ PartIn(x, b, "CLOSE") \in Int
       /\ PartIn(x, s, "OPEN") \in Int /\ PartIn(x, s, "CLOSE") \in Int
  BY <1>9
<1> HIDE DEF PartIn
<1> QED BY <1>7, <1>8, <1>10, <1>11

\* A novation moves a position as it moves what the cleared trades add up to.
LEMMA NovateAddsUp ==
  ASSUME Inv, PositionsAddUp, NEW t \in Trades,
         NEW b \in Reports, NEW s \in Reports, b.trade = t, s.trade = t,
         Cleared[t] = NoPair, Cleared' = [Cleared EXCEPT ![t] = <<b, s>>],
         long' = LongAfter(b, s), short' = ShortAfter(b, s)
  PROVE  PositionsAddUp'
<1> SUFFICES ASSUME NEW p \in Positions
             PROVE  /\ long'[p] = House!Contracts(House!Buyers', p, "OPEN")
                                    - House!Contracts(House!Sellers', p, "CLOSE")
                    /\ short'[p] = House!Contracts(House!Sellers', p, "OPEN")
                                     - House!Contracts(House!Buyers', p, "CLOSE")
  BY DEF PositionsAddUp, House!Long, House!Short
<1> DEFINE Of(R, e) == House!Contracts(R, p, e)
<1>1. /\ long[p] = Of(House!Buyers, "OPEN") - Of(House!Sellers, "CLOSE")
      /\ short[p] = Of(House!Sellers, "OPEN") - Of(House!Buyers, "CLOSE")
  BY DEF PositionsAddUp, House!Long, House!Short
<1>2. /\ b \notin House!Buyers /\ House!Buyers' = House!Buyers \cup {b}
      /\ s \notin House!Sellers /\ House!Sellers' = House!Sellers \cup {s}
      /\ House!Buyers \subseteq Reports /\ IsFiniteSet(House!Buyers)
      /\ House!Sellers \subseteq Reports /\ IsFiniteSet(House!Sellers)
  BY OneTradeMore, PartiesAre
<1>3. ASSUME NEW e
      PROVE  /\ Of(House!Buyers, e) \in Int /\ Of(House!Sellers, e) \in Int
             /\ Of(House!Buyers', e) = Of(House!Buyers, e) + Contribution(b, p, e)
             /\ Of(House!Sellers', e) = Of(House!Sellers, e) + Contribution(s, p, e)
             /\ Contribution(b, p, e) \in Int /\ Contribution(s, p, e) \in Int
  <2>1. Contribution(b, p, e) \in Int /\ Contribution(s, p, e) \in Int
    BY ReportFields DEF Contribution
  <2>2. /\ Of(House!Buyers, e) \in Int
        /\ Of(House!Buyers \cup {b}, e) = Of(House!Buyers, e) + Contribution(b, p, e)
    BY <1>2, OneReportMore
  <2>3. /\ Of(House!Sellers, e) \in Int
        /\ Of(House!Sellers \cup {s}, e) = Of(House!Sellers, e) + Contribution(s, p, e)
    BY <1>2, OneReportMore
  <2>4. /\ Of(House!Buyers', e) = Of(House!Buyers \cup {b}, e)
        /\ Of(House!Sellers', e) = Of(House!Sellers \cup {s}, e)
    BY <1>2
  <2> QED BY <2>1, <2>2, <2>3, <2>4
<1>4. /\ long'[p] = long[p] + Contribution(b, p, "OPEN")
                      - Contribution(s, p, "CLOSE")
      /\ short'[p] = short[p] + Contribution(s, p, "OPEN")
                       - Contribution(b, p, "CLOSE")
  BY PositionsMove DEF Inv
<1> HIDE DEF Of
<1>5. /\ long'[p] = Of(House!Buyers', "OPEN") - Of(House!Sellers', "CLOSE")
      /\ short'[p] = Of(House!Sellers', "OPEN") - Of(House!Buyers', "CLOSE")
  BY <1>1, <1>3, <1>4
<1> QED BY <1>5 DEF Of

-----------------------------------------------------------------------------
(* The emulator is a clearing house                                         *)

Books == Inv /\ Balanced /\ PositionsAddUp

\* Nothing is cleared at first, and nothing is held.
LEMMA BooksInit ==
  Init => Books /\ House!Init
<1> SUFFICES ASSUME Init PROVE Books /\ House!Init
  OBVIOUS
<1>1. Inv
  BY InvInit
<1>2. House!Init
  <2>1. \A t \in Trades : t \notin novated
    BY DEF Init
  <2> QED BY <2>1 DEF House!Init, Cleared
<1>3. Balanced
  BY DEF Init, Balanced
<1>4. House!Buyers = {} /\ House!Sellers = {}
  BY <1>2 DEF House!Init, House!Buyers, House!Sellers
<1>5. ASSUME NEW p, NEW e PROVE House!Contracts({}, p, e) = 0
  <2> DEFINE f == [r \in {} |-> r.contracts]
  <2>1. House!Contracts({}, p, e) = House!SumFunction(f)
    <3>1. {r \in {} : House!Key(r) = p /\ r.effect = e} = {}
      OBVIOUS
    <3> QED BY <3>1 DEF House!Contracts
  <2>2. DOMAIN f = {}
    OBVIOUS
  <2> HIDE DEF f
  <2> QED BY <2>1, <2>2, HouseSums, SumOfNone
<1>6. PositionsAddUp
  BY <1>4, <1>5 DEF PositionsAddUp, House!Long, House!Short, Init
<1> QED BY <1>1, <1>2, <1>3, <1>6 DEF Books

\* What leaves the positions and the cleared trades alone keeps the books.
LEMMA BooksUntouched ==
  ASSUME Books, Inv', Cleared' = Cleared, long' = long, short' = short
  PROVE  Books'
<1>1. Balanced'
  BY DEF Books, Balanced
<1>2. House!Buyers' = House!Buyers /\ House!Sellers' = House!Sellers
  BY DEF House!Buyers, House!Sellers
<1>3. PositionsAddUp'
  BY <1>2 DEF Books, PositionsAddUp, House!Long, House!Short
<1> QED BY <1>1, <1>3 DEF Books

\* A novation is one of the clearing house, and keeps the books.
LEMMA NovateKeepsBooks ==
  ASSUME Books, Inv', NEW r \in Reports, Novate(r)
  PROVE  Books' /\ House!Next
<1>1. PICK b \in Reports, s \in Reports :
        /\ b.trade = r.trade /\ s.trade = r.trade
        /\ b.side = "BUY" /\ s.side = "SELL"
        /\ Terms(b) = Terms(s)
        /\ CloseCovered(b, s)
        /\ long' = LongAfter(b, s) /\ short' = ShortAfter(b, s)
        /\ Cleared[r.trade] = NoPair
        /\ Cleared' = [Cleared EXCEPT ![r.trade] = <<b, s>>]
  BY NovateClears DEF Books
<1>2. r.trade \in Trades
  BY ReportFields
<1>3. Balanced' /\ PositionsAddUp'
  BY <1>1, <1>2, NovateBalances, NovateAddsUp DEF Books, Inv
<1>4. House!Novate(r.trade, b, s)
  <2>1. /\ Key(b) \in Positions /\ Key(s) \in Positions
        /\ House!Key(b) = Key(b) /\ House!Key(s) = Key(s)
        /\ House!Terms(b) = Terms(b) /\ House!Terms(s) = Terms(s)
    BY ReportFields DEF Key, House!Key, Terms, House!Terms
  <2>2. /\ short[Key(b)] = House!Short(Key(b))
        /\ long[Key(s)] = House!Long(Key(s))
        /\ short[Key(b)] \in Nat /\ long[Key(s)] \in Nat
    BY <2>1 DEF Books, Inv, TypeOK, PositionsAddUp
  <2>3. b.contracts \in Nat /\ s.contracts \in Nat
    BY ReportFields
  <2>4. /\ b.effect = "CLOSE" => b.contracts <= House!Short(Key(b))
        /\ s.effect = "CLOSE" => s.contracts <= House!Long(Key(s))
    BY <1>1, <2>2, <2>3 DEF CloseCovered
  <2> QED BY <1>1, <2>1, <2>4 DEF House!Novate
<1>5. House!Next
  BY <1>2, <1>4 DEF House!Next
<1> QED BY <1>3, <1>5 DEF Books

LEMMA BooksNext ==
  Books /\ [Next]_vars => Books' /\ [House!Next]_Cleared
<1> SUFFICES ASSUME Books, [Next]_vars
             PROVE  Books' /\ [House!Next]_Cleared
  OBVIOUS
<1>1. Inv'
  BY InvNext DEF Books
<1>2. ASSUME NEW r \in Reports, Fresh(r), Reject(r)
      PROVE  Books' /\ Cleared' = Cleared
  <2>1. Cleared' = Cleared
    BY <1>1, <1>2, NothingCleared DEF Books, Reject, Keep
  <2> QED BY <1>1, <1>2, <2>1, BooksUntouched DEF Reject
<1>3. ASSUME NEW r \in Reports, AwaitCounterpart(r)
      PROVE  Books' /\ Cleared' = Cleared
  <2>1. Cleared' = Cleared
    BY <1>1, <1>3, NothingCleared DEF Books, AwaitCounterpart, Keep
  <2> QED BY <1>1, <1>3, <2>1, BooksUntouched DEF AwaitCounterpart
<1>4. CASE UNCHANGED vars
  <2>1. Cleared' = Cleared
    BY <1>4 DEF vars, Cleared
  <2> QED BY <1>1, <1>4, <2>1, BooksUntouched DEF vars
<1>5. ASSUME NEW r \in Reports, Submit(r)
      PROVE  Books' /\ [House!Next]_Cleared
  BY <1>1, <1>2, <1>3, <1>5, NovateKeepsBooks
     DEF Submit, RejectLate, RejectMismatch
<1> QED BY <1>4, <1>5 DEF Next

\* Across every series long contracts equal short contracts, whatever was
\* novated.
THEOREM LongEqualsShort == Spec => []Balanced
<1>1. Books => Balanced
  BY DEF Books
<1> QED BY <1>1, BooksInit, BooksNext, PTL DEF Spec

\* The positions kept by increments are what the novated trades add up to.
THEOREM IncrementsAddUp == Spec => []PositionsAddUp
<1>1. Books => PositionsAddUp
  BY DEF Books
<1> QED BY <1>1, BooksInit, BooksNext, PTL DEF Spec

\* The emulator implements the clearing house: a trade is cleared at most once,
\* by two reports that agree, and a close only takes what was cleared before.
THEOREM EmulatorClears == Spec => ActsAsHouse
BY BooksInit, BooksNext, PTL DEF Spec, ActsAsHouse, House!Spec
=============================================================================
