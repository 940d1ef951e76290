------------------------------- MODULE CopRules -------------------------------
(***************************************************************************)
(* The rules of the operating picture: what an observation is              *)
(* (cop/observation.py), the values computed from what the sources say     *)
(* (cop/state.py) and the rows of the lifecycle board (cop/lifecycle.py).  *)
(*                                                                         *)
(* A time is kept as an age, counted in ticks: what the rules compare is   *)
(* only ever how long ago something was.                                   *)
(***************************************************************************)
EXTENDS CopReaders, FiniteSetsExt

Dispositions == {"PASS", "HOLD", "INDETERMINATE", "BLOCK"}

Severity == [PASS |-> 0, HOLD |-> 1, INDETERMINATE |-> 2, BLOCK |-> 3]

(* The worst of some dispositions: not knowing is worse than waiting.      *)
Worst(found) ==
    CHOOSE d \in found : \A other \in found : Severity[other] <= Severity[d]

WorstOr(found, none) == IF found = {} THEN none ELSE Worst(found)

-----------------------------------------------------------------------------
(* Observations.  "last" is the last good value of an observation that     *)
(* failed; a good observation has none.                                    *)

Unread(class) == [error |-> class, value |-> None, age |-> None, last |-> None]

Pending       == Unread("NotYetRefreshed")
NotConfigured == Unread("NotConfigured")

IsOk(o) == o.error = None /\ o.age # None

IsCurrent(o, limit) == IsOk(o) /\ (limit = None \/ o.age <= limit)

GoodAge(o) == IF IsOk(o) THEN o.age ELSE IF o.last = None THEN None ELSE o.last.age

-----------------------------------------------------------------------------
(* Workflow runs.  A run that did not finish holds, one that finished      *)
(* without evidence either way stays indeterminate.                        *)

FailingConclusions ==
    {"failure", "timed_out", "cancelled", "action_required", "startup_failure", "stale"}

RunDisposition(run) ==
    IF run.status # "completed" THEN "HOLD"
    ELSE IF run.conclusion = "success" THEN "PASS"
    ELSE IF run.conclusion \in FailingConclusions THEN "BLOCK" ELSE "INDETERMINATE"

LatestPerWorkflow(runs) ==
    {run \in runs : \A other \in runs :
        other.workflow = run.workflow => other.started <= run.started}

(* No run at all is never a pass; a failure outweighs a run that goes on.  *)
CombineCi(runs, sha) ==
    LET latest == LatestPerWorkflow({r \in runs : r.head = sha /\ ~r.scheduled})
        seen   == {RunDisposition(r) : r \in latest}
    IN  IF "BLOCK" \in seen THEN "BLOCK"
        ELSE IF "HOLD" \in seen THEN "HOLD"
        ELSE IF "PASS" \in seen THEN "PASS" ELSE "INDETERMINATE"

ScheduledSummary(runs) ==
    {RunDisposition(r) : r \in LatestPerWorkflow({r \in runs : r.scheduled})}

(* The highest version tag, or the first tag listed when none is a version *)
(* (a tag that is no version is None here).                                *)
LatestTag(tags) ==
    LET versions == {tags[i] : i \in DOMAIN tags} \ {None}
    IN  IF versions = {} THEN None ELSE Max(versions)

(* A pull request without a merge state has an absent field.               *)
MergeResult(r) ==
    IF Transport(r) = None /\ r.flaw = None /\ r.value = None
    THEN Failed("FieldAbsent") ELSE Read(r, Unversioned, {})

-----------------------------------------------------------------------------
(* Aureon: the deploy drift and the AUR-I-17 marker.                       *)

\* Mutant of ComputeDrift: the last good commit of main will do.
ComputeDriftFromLast(snapshot, main) ==
    LET head == IF IsOk(main) THEN main.value
                ELSE IF main.last = None THEN None ELSE main.last.value
    IN  IF ~IsOk(snapshot) \/ head = None THEN Failed("InputUnavailable")
        ELSE Value([deployed |-> snapshot.value.deploy_sha, main |-> head,
                    drift |-> snapshot.value.deploy_sha # head], 0)

(* Both inputs must be good in the same refresh.  A hash that matches only *)
(* in its first characters is the same commit; hashes are compared whole   *)
(* here, as members of a small set.                                        *)
ComputeDrift(snapshot, main) ==
    IF ~IsOk(snapshot) \/ ~IsOk(main) THEN Failed("InputUnavailable")
    ELSE LET deployed == snapshot.value.deploy_sha
         IN  CASE deployed \in {None, "unset"} -> Failed("FieldAbsent")
               [] deployed = "not_a_hash"      -> Failed("MalformedResponse")
               [] OTHER -> Value([deployed |-> deployed, main |-> main.value,
                                  drift |-> deployed # main.value], 0)

Comparable(s) == s.pending # None /\ s.deploy_sha # None

DroppedBetween(before, after) == /\ before.pending > 0 /\ after.pending = 0
                                 /\ before.deploy_sha # after.deploy_sha

\* Mutant of DetectPendingDrop: an event seen before is forgotten.
DetectPendingDropNow(previous, current, prior) ==
    IF ~Comparable(current) THEN Failed("FieldAbsent")
    ELSE IF previous = None THEN Failed("InputUnavailable")
    ELSE Value([detected_now |-> DroppedBetween(previous, current),
                event |-> DroppedBetween(previous, current)], 0)

(* "event" stays set once seen, for the life of the process.               *)
DetectPendingDrop(previous, current, prior) ==
    IF ~Comparable(current) THEN Failed("FieldAbsent")
    ELSE IF previous = None THEN Failed("InputUnavailable")
    ELSE LET now == DroppedBetween(previous, current)
         IN  Value([detected_now |-> now,
                    event |-> now \/ (prior # None /\ prior.event)], 0)

-----------------------------------------------------------------------------
(* The lifecycle board.                                                    *)

Checkpoints == {"APPROVED_INTENT", "EXECUTION", "CLEARING", "SETTLEMENT_OBLIGATION",
                "OBLIGATION_ACCEPTANCE", "SETTLED"}

FiccStages == {"CLEARING_ACCEPTANCE", "NOVATION", "NETTING", "SETTLEMENT_INSTRUCTION",
               "SETTLEMENT_FINALITY"}

(* A row is never greener than its weakest cell, and a row of no cells and *)
(* no facts is one nothing is known about.                                 *)
RowDisposition(row) ==
    IF row.facts # {} THEN Worst(row.facts) ELSE WorstOr(row.cells, "INDETERMINATE")

Row(cells, facts) == [cells |-> cells, facts |-> facts]

(* One stage of a bilateral document: evidence or its absence.             *)
StageCell(evidence) == IF evidence = None THEN "INDETERMINATE" ELSE evidence

ParseDocument(doc) == Row({StageCell(doc.stages[c]) : c \in Checkpoints}, {})

ParseFicc(doc) ==
    Row({}, {IF s \in doc.recorded THEN "PASS" ELSE "INDETERMINATE" : s \in FiccStages})

(* A repo publication has a summary and neither cells nor facts; the       *)
(* equities and order publications state facts that always pass.           *)
ParseRepo     == Row({}, {})
ParseEquities == Row({}, {"PASS"})
ParseOms      == Row({}, {"PASS"})

ParsedRow(doc) == CASE doc.kind = "bilateral" -> ParseDocument(doc)
                    [] doc.kind = "ficc"      -> ParseFicc(doc)
                    [] doc.kind = "repo"      -> ParseRepo
                    [] doc.kind = "equities"  -> ParseEquities
                    [] doc.kind = "oms"       -> ParseOms

(* The board is read whole, and the oldest document dates it.  A leg of a  *)
(* repo document or the time of an order document that cannot be read is   *)
(* met outside the parser's own checks, as an unexpected error.            *)
ReadLifecycles(r) ==
    LET result == Read(r, Versioned \cup {"unordered", "extra_field"},
                       {"bilateral_no_version"})
    IN  IF result.error # None THEN result
        ELSE IF r.flaw \in {"repo_leg", "oms_time"} THEN Failed("UnexpectedError")
        ELSE Value({ParsedRow(doc) : doc \in r.value}, Max({doc.age : doc \in r.value}))

(* Some documents carry an offset and some do not: their times cannot be   *)
(* compared, and the comparison is made after the board has been read.     *)
ClocksMixed(docs) == Cardinality({doc.naive : doc \in docs}) > 1

-----------------------------------------------------------------------------
(* The exception register and the records of governance, risk, compliance. *)

BreakToException(b) ==
    [owner |-> b.owner, disposition |-> "HOLD", written_off |-> b.state = "WRITTEN_OFF"]

PublicationToRegister(result) ==
    IF result.error # None THEN result
    ELSE [result EXCEPT !.value = {BreakToException(b) : b \in result.value}]

(* A missing owner is a block whatever the producer says, and a control    *)
(* without evidence of its test is not known to work.                      *)
ExceptionDisposition(x) == IF x.owner = None THEN "BLOCK" ELSE x.disposition

ControlDisposition(c) ==
    IF c.tested /\ c.evidence THEN c.disposition ELSE "INDETERMINATE"

RiskDisposition(risk) ==
    IF 100 * risk.exposure >= 100 * risk.limit THEN "BLOCK"
    ELSE IF 100 * risk.exposure >= 80 * risk.limit THEN "HOLD" ELSE "PASS"

=============================================================================
