------------------------------ MODULE CopReaders ------------------------------
(***************************************************************************)
(* How the operating picture reads its sources (cop/http.py and the        *)
(* readers of cop/): every fetch ends with a value or with an error class. *)
(*                                                                         *)
(* A response says how the request ended, what the body's first flaw is    *)
(* (None when it has none), what it carries, and how old that was by the   *)
(* source's own clock.  What makes a reader is the set of flaws it refuses *)
(* as malformed, the set it reports as an absent field, and the rules it   *)
(* puts on the contents; any other flaw it does not notice.                *)
(***************************************************************************)
EXTENDS Naturals, FiniteSets, Sequences

CONSTANT None

ErrorClasses ==
    {"Timeout", "ConnectionError", "HttpError", "RateLimited", "MalformedResponse", "FieldAbsent",
     "InputUnavailable", "InvalidProgramFile", "NotYetRefreshed", "UnexpectedError", "NotConfigured"}

Failed(class) == [error |-> class, value |-> None, age |-> None]
Value(v, age) == [error |-> None, value |-> v, age |-> age]

-----------------------------------------------------------------------------
(* The request: a refusal to serve is told from a rate limit.              *)

Throttled(r) == r.status \in {403, 429} /\ (r.limited \/ r.status = 429)

Transport(r) ==
    IF r.sent = "timeout" THEN "Timeout"
    ELSE IF r.sent = "refused" THEN "ConnectionError"
    ELSE IF Throttled(r) THEN "RateLimited"
    ELSE IF r.status # 200 THEN "HttpError" ELSE None

Read(r, malformed, absent) ==
    IF Transport(r) # None THEN Failed(Transport(r))
    ELSE IF r.flaw \in malformed THEN Failed("MalformedResponse")
    ELSE IF r.flaw \in absent THEN Failed("FieldAbsent")
    ELSE Value(r.value, r.age)

(* A reading whose contents must also satisfy a rule of the model.         *)
Ruled(result, rule(_)) ==
    IF result.error = None /\ ~rule(result.value)
    THEN Failed("MalformedResponse") ELSE result

-----------------------------------------------------------------------------
(* GitHub and Aureon: bodies without a version.                            *)

Unversioned == {"not_json", "shape"}

ReadCommit(r)    == Read(r, Unversioned, {})
ReadTags(r)      == Read(r, Unversioned, {})
ReadRuns(r)      == Read(r, Unversioned \cup {"incomplete"}, {})
ReadScheduled(r) == Read(r, Unversioned, {})
ReadPulls(r)     == Read(r, Unversioned \cup {"full_page"}, {})
ReadAureon(r)    == Read(r, Unversioned \cup {"not_object"}, {})

-----------------------------------------------------------------------------
(* The published documents: the version is checked before the shape.       *)

Versioned == {"not_json", "not_object", "other_version", "shape"}

ReadAgents(r) == Read(r, Versioned, {"no_version", "null_version"})

ReadLayerClock(r) ==
    Read(r, Versioned \cup {"naive_time"}, {"no_version", "null_version"})

ReadAdvisories(r) ==
    Read(r, Versioned \cup {"null_version", "extra_field"}, {"no_version"})

(* A covered requirement names its tests, an untested one its reason.      *)
EvidenceOrReason(row) == /\ row.status = "COVERED" => row.tests # {}
                         /\ row.status = "UNTESTED" => row.reason

UniqueIds(rows) ==
    \A a, b \in rows : a.requirement_id = b.requirement_id => a = b

ReadTraceability(r) ==
    Ruled(Read(r, Versioned \cup {"null_version", "extra_field", "naive_time"},
               {"no_version"}),
          LAMBDA rows : /\ rows # {}
                        /\ UniqueIds(rows)
                        /\ \A row \in rows : EvidenceOrReason(row))

(* An escalation packet may not carry a decision: the reader refuses the   *)
(* whole queue for it, and for any other field it does not know.           *)
ReadEscalations(r) ==
    Read(r, Versioned \cup {"decides", "extra_field"}, {"no_version", "null_version"})

-----------------------------------------------------------------------------
(* The break register: each record must be consistent, and its ownership a *)
(* chain that ends in the present owner.                                   *)

OwnershipHolds(b) ==
    LET owners == b.history
        last   == owners[Len(owners)]
    IN  /\ b.owner = None <=> b.absence_reason
        /\ b.owner = None <=> b.state = "INTAKE_UNASSIGNED"
        /\ b.owner # None => owners # <<>> /\ last.assigned = b.owner
        /\ \A i \in DOMAIN owners :
               owners[i].previous = IF i = 1 THEN None ELSE owners[i - 1].assigned

Consistent(b) == /\ OwnershipHolds(b)
                 /\ b.state = "RESOLVED" <=> b.evidence # None
                 /\ b.evidence # None => b.evidence = b.break_id
                 /\ b.sla_target >= b.originating_event

ReadBreaks(r) ==
    Ruled(Read(r, Versioned \cup {"null_version", "extra_field", "naive_time",
                                  "incomplete", "other_digest"}, {"no_version"}),
          LAMBDA records : /\ records # {}
                           /\ \A b \in records : Consistent(b)
                           /\ \A b, c \in records : b.break_id = c.break_id => b = c)

(* The cash-leg demonstration: its status and its two stages are required. *)
ReadCashLeg(r) ==
    Read(r, {"not_json", "not_object", "not_ok", "shape"},
         {"no_stages", "no_funding_stage", "no_detail"})

-----------------------------------------------------------------------------
(* The program file.                                                       *)

LoadProgram(r) ==
    IF r.flaw \in {"unreadable", "not_yaml", "invalid"}
    THEN Failed("InvalidProgramFile") ELSE Value(r.value, 0)

=============================================================================
