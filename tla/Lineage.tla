------------------------------ MODULE Lineage ------------------------------
(* How the harness reads one lifecycle's records (harness_c2/lineage.py)    *)
(* and decides what may be shown to an operator (harness_c2/escalation.py). *)
(* The caller supplies records stage by stage, late, in any order, twice,   *)
(* or of another lifecycle; the assembler never fills a gap.                *)
EXTENDS Naturals, Sequences, FiniteSets, SequencesExt

CONSTANTS Ours,          \* the lifecycle being assembled
          Records,       \* the records that may be supplied, by stage
          NoPacket,      \* nothing escalated yet
          MaxSupplied    \* bound: the records one caller supplies

Stages == {"INTENT", "EXECUTION", "CLEARING", "OBLIGATION", "ACCEPTANCE"}

VARIABLES supplied,      \* the records in hand, by stage
          packet         \* what was escalated of the records in hand

lineageVars == <<supplied, packet>>

\* Two records digest alike exactly when they are the same record.
Digest(record) == record

-----------------------------------------------------------------------------
\* Assembly: the gaps of the records in hand.
Gap(stage, code) == [stage |-> stage, code |-> code]

IsHole(gap) == gap.code # "NOT_REACHED"

\* An acceptance names no lifecycle: its link places it.
Strays(records, stage) ==
  {Gap(stage, "LIFECYCLE_MISMATCH") :
     r \in {x \in ToSet(records) : x.lifecycle_id # Ours}}

\* What is kept of a stage's records, each at its place: the same record
\* supplied twice is there twice.
OfThisLifecycle(records) ==
  Restrict(records, {i \in DOMAIN records : records[i].lifecycle_id = Ours})

ExactlyOne(kept, stage, required) ==
  CASE \E i, j \in DOMAIN kept : i # j -> {Gap(stage, "AMBIGUOUS")}
    [] DOMAIN kept = {} -> {Gap(stage, IF required THEN "MISSING" ELSE "NOT_REACHED")}
    [] OTHER -> {}

\* The record of a stage that has exactly one, as a set; nothing otherwise.
OnlyRecord(kept) == {kept[i] : i \in {j \in DOMAIN kept : DOMAIN kept = {j}}}

ExecutionsAgainstIntent(executions, intent) ==
  {Gap("EXECUTION", "BROKEN_LINK") :
     e \in {x \in executions : \/ x.intent_id # intent.envelope_id
                               \/ x.intent_digest # Digest(intent)}}

\* Mutant of ClearingAgainstExecutions: a fill that cleared into nothing is missed.
ClearingAgainstExecutionsKnown(clearing, executions) ==
  {Gap("CLEARING", "BROKEN_LINK") :
     d \in clearing.input_digests \ {Digest(e) : e \in executions}}

\* What was consumed and what was supplied are one set, both ways.
ClearingAgainstExecutions(clearing, executions) ==
  LET produced   == {Digest(e) : e \in executions}
      unknown    == clearing.input_digests \ produced
      unconsumed == produced \ clearing.input_digests
  IN  {Gap("CLEARING", "BROKEN_LINK") : d \in unknown \cup unconsumed}

ObligationAgainstClearing(obligation, clearing) ==
  {Gap("OBLIGATION", "BROKEN_LINK") :
     d \in {obligation.transformation_digest} \ {Digest(clearing)}}

AcceptanceAgainstObligation(acceptance, obligations) ==
  IF \E o \in obligations : /\ acceptance.obligation_id = o.obligation_id
                            /\ acceptance.obligation_digest = Digest(o)
  THEN {} ELSE {Gap("ACCEPTANCE", "BROKEN_LINK")}

\* Each link is checked against the record it names, if its stage has one.
CheckLinks(kept) ==
  LET executions == Range(kept.EXECUTION)
  IN  UNION
        ({ExecutionsAgainstIntent(executions, i) : i \in OnlyRecord(kept.INTENT)}
         \cup {ClearingAgainstExecutions(c, executions) :
                 c \in {x \in OnlyRecord(kept.CLEARING) : executions # {}}}
         \cup {ObligationAgainstClearing(o, c) :
                 o \in OnlyRecord(kept.OBLIGATION), c \in OnlyRecord(kept.CLEARING)}
         \cup {AcceptanceAgainstObligation(a, OnlyRecord(kept.OBLIGATION)) :
                 a \in OnlyRecord(kept.ACCEPTANCE)})

\* The records kept, by stage: those of this lifecycle, and every acceptance.
Kept(hand) ==
  [s \in Stages |-> IF s = "ACCEPTANCE" THEN hand[s] ELSE OfThisLifecycle(hand[s])]

\* A stage is required once anything downstream of it exists.
HasAcceptance(kept) == DOMAIN kept.ACCEPTANCE # {}
HasObligation(kept) == DOMAIN kept.OBLIGATION # {} \/ HasAcceptance(kept)
HasClearing(kept)   == DOMAIN kept.CLEARING # {} \/ HasObligation(kept)
HasExecution(kept)  == DOMAIN kept.EXECUTION # {} \/ HasClearing(kept)

GapsOf(kept) ==
  ExactlyOne(kept.INTENT, "INTENT", HasExecution(kept))
  \cup ExactlyOne(kept.CLEARING, "CLEARING", HasObligation(kept))
  \cup ExactlyOne(kept.OBLIGATION, "OBLIGATION", HasAcceptance(kept))
  \cup ExactlyOne(kept.ACCEPTANCE, "ACCEPTANCE", FALSE)
  \cup (IF DOMAIN kept.EXECUTION # {} THEN {}
        ELSE {Gap("EXECUTION", IF HasClearing(kept) THEN "MISSING" ELSE "NOT_REACHED")})
  \cup CheckLinks(kept)

AssembleLineage(hand) ==
  (UNION {Strays(hand[s], s) : s \in Stages \ {"ACCEPTANCE"}}) \cup GapsOf(Kept(hand))

Disposition(gaps) ==
  IF \E g \in gaps : IsHole(g) THEN "BLOCK" ELSE IF gaps # {} THEN "INDETERMINATE" ELSE "PASS"

-----------------------------------------------------------------------------
\* Escalation: a picture that is not of one lifecycle is refused, and so is one
\* with nothing wrong in it; both refusals raise and send nothing.
BlockingGaps == {"LIFECYCLE_MISMATCH", "AMBIGUOUS"}

Escalates(gaps) == (\A g \in gaps : g.code \notin BlockingGaps) /\ Disposition(gaps) # "PASS"

PackageEscalation(gaps) ==
  [disposition |-> Disposition(gaps),
   findings    |-> {g \in gaps : IsHole(g)},
   unknowns    |-> {g.stage : g \in {x \in gaps : ~IsHole(x)}}]

-----------------------------------------------------------------------------
LineageInit ==
  /\ supplied = [s \in Stages |-> <<>>]
  /\ packet = NoPacket

InHand == Len(supplied.INTENT) + Len(supplied.EXECUTION) + Len(supplied.CLEARING)
          + Len(supplied.OBLIGATION) + Len(supplied.ACCEPTANCE)

Supply(stage, record) ==
  /\ InHand < MaxSupplied
  /\ supplied' = [supplied EXCEPT ![stage] = Append(@, record)]
  /\ packet' = NoPacket

Escalate ==
  /\ Escalates(AssembleLineage(supplied))
  /\ packet' = PackageEscalation(AssembleLineage(supplied))
  /\ UNCHANGED supplied

LineageNext ==
  \/ \E stage \in Stages : \E record \in Records[stage] : Supply(stage, record)
  \/ Escalate

LineageSpec == LineageInit /\ [][LineageNext]_lineageVars

-----------------------------------------------------------------------------
\* What the records in hand say, read from what each was made from.  They are
\* one lifecycle as far as it has got when everything a record was made from is
\* in hand exactly once and nothing else of an earlier stage is - a clearing is
\* made from some fills - and no record is another lifecycle's.
MadeFromTheHand(hand) ==
  /\ \A e \in ToSet(hand.EXECUTION) :
       hand.INTENT = <<e.intent_digest>> /\ e.intent_digest.envelope_id = e.intent_id
  /\ \A c \in ToSet(hand.CLEARING) :
       hand.EXECUTION # <<>> /\ ToSet(hand.EXECUTION) = c.input_digests
  /\ \A o \in ToSet(hand.OBLIGATION) : hand.CLEARING = <<o.transformation_digest>>
  /\ \A a \in ToSet(hand.ACCEPTANCE) :
       hand.OBLIGATION = <<a.obligation_digest>> /\ a.obligation_digest.obligation_id = a.obligation_id
  /\ \A s \in Stages \ {"EXECUTION"} : Len(hand[s]) <= 1
  /\ \A s \in Stages \ {"ACCEPTANCE"} : \A r \in ToSet(hand[s]) : r.lifecycle_id = Ours

\* The assembler passes exactly the chains that end in an acceptance made from
\* everything in hand, leaves open exactly the beginnings of one, and blocks
\* every other hand (assemble_lineage, disposition: six checks of five stages
\* against "PASS only for a complete, unbroken chain", lineage.py:124).  And what
\* is escalated was never a finished chain, nor shows an operator two
\* lifecycles' records, nor two candidates for one stage, and it calls the
\* picture unfinished only if nothing in it is wrong (package_escalation).
VerdictsFitTheRecords ==
  LET verdict == Disposition(AssembleLineage(supplied))
      whole   == MadeFromTheHand(supplied)
  IN  /\ verdict # "BLOCK" <=> whole
      /\ verdict = "PASS" <=> whole /\ supplied.ACCEPTANCE # <<>>
      /\ packet # NoPacket =>
           /\ \A s \in Stages \ {"ACCEPTANCE"} :
                \A r \in ToSet(supplied[s]) : r.lifecycle_id = Ours
           /\ \A s \in Stages \ {"EXECUTION"} : Len(supplied[s]) <= 1
           /\ packet.findings = {} <=> whole
           /\ whole => supplied.ACCEPTANCE = <<>> /\ packet.unknowns # {}
=============================================================================
