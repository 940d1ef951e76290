----------------------------- MODULE Transcript -----------------------------
(* The evidence of one scenario: its record (harness_c2/scenario.py), the   *)
(* crossings appended to its transcript (transcript.py), the reference-data *)
(* outage applied to it (chaos.py) and the replay that recomputes its gates *)
(* (replay.py).  Between recording and replay the stored transcript may be  *)
(* altered and the scenario may be linked to further identifiers.           *)
EXTENDS Naturals, Sequences

CONSTANTS Lifecycle,    \* the scenario's one lifecycle
          Lifecycles,   \* every lifecycle a crossing may name
          Payloads,     \* bytes: a digest tells any two apart
          Identifiers,  \* domain identifiers that may be linked
          Artifacts,    \* ids of attested artifacts that may cross
          NoArtifact,   \* a kernel envelope carries no artifact id
          Conditions,   \* the plan: a sequence of [id, payload]
          Times,        \* event times
          MaxCrossings, \* bound: crossings recorded
          MaxEdits      \* bound: alterations of the stored transcript

ASSUME TranscriptAssumption ==
  Len(Conditions) \in Nat /\ DOMAIN Conditions = 1..Len(Conditions)

VARIABLES links,        \* the identifiers linked, in order
          transcript,   \* the crossings
          received,     \* history: what each crossing was received as
          edits         \* alterations so far

transcriptVars == <<links, transcript, received, edits>>

\* The scenario's digest covers its links in their order; nothing else changes.
ScenarioDigest == [lifecycle |-> Lifecycle, links |-> links]

DigestBytes(payload) == payload

LcToAtreides == "lc_to_atreides"
Routes == {LcToAtreides, "elsewhere"}

-----------------------------------------------------------------------------
\* record_crossing: the consumer recomputes the digest of what it received.
Crossing(route, lifecycle, artifact, payload, asserted, at) ==
  LET refused == asserted # DigestBytes(payload)
  IN  [route |-> route, lifecycle_id |-> lifecycle, artifact_id |-> artifact,
       scenario_digest |-> ScenarioDigest, payload_bytes |-> payload,
       producer_asserted_digest |-> asserted, event_time |-> at,
       disposition |-> IF refused THEN "BLOCK" ELSE "PASS",
       reason |-> IF refused THEN "MISMATCH_AS_RECEIVED" ELSE "ACCEPTED"]

\* append raises on an artifact seen before and on a time gone backwards.
Appendable(crossings, crossing) ==
  /\ crossing.artifact_id # NoArtifact =>
       \A i \in DOMAIN crossings : crossings[i].artifact_id # crossing.artifact_id
  /\ crossings # <<>> => crossings[Len(crossings)].event_time <= crossing.event_time

AsReceived(crossing) == [payload |-> crossing.payload_bytes, links |-> links]

Cross(route, lifecycle, artifact, payload, asserted, at) ==
  LET crossing == Crossing(route, lifecycle, artifact, payload, asserted, at)
  IN  /\ Len(transcript) < MaxCrossings
      /\ lifecycle = Lifecycle
      /\ Appendable(transcript, crossing)
      /\ transcript' = Append(transcript, crossing)
      /\ received' = Append(received, AsReceived(crossing))
      /\ UNCHANGED <<links, edits>>

\* An identifier is linked once, and never is the lifecycle itself.
Link(identifier) ==
  /\ identifier # Lifecycle
  /\ \A i \in DOMAIN links : links[i] # identifier
  /\ links' = Append(links, identifier)
  /\ UNCHANGED <<transcript, received, edits>>

\* The stored transcript is altered: a payload, or the lifecycle a crossing names.
Edit(i, payload, lifecycle) ==
  /\ edits < MaxEdits
  /\ transcript' = [transcript EXCEPT ![i].payload_bytes = payload, ![i].lifecycle_id = lifecycle]
  /\ edits' = edits + 1
  /\ UNCHANGED <<links, received>>

-----------------------------------------------------------------------------
\* apply_transcript_injections: the first handoff to Atreides becomes
\* indeterminate.  The record is copied without being validated again.
Target == {i \in DOMAIN transcript : transcript[i].route = LcToAtreides}

InjectOutage ==
  /\ transcript # <<>> /\ transcript[1].lifecycle_id = Lifecycle
  /\ \E i \in Target :
       /\ \A j \in Target : i <= j
       /\ transcript' = [transcript EXCEPT ![i].disposition = "INDETERMINATE",
                                           ![i].reason = "CHAOS_OUTAGE"]
  /\ UNCHANGED <<links, received, edits>>

\* record_injection_conditions: every condition, or (one append raises) none.
ConditionCrossings(at) ==
  [c \in DOMAIN Conditions |->
     Crossing("elsewhere", Lifecycle, Conditions[c].id, Conditions[c].payload,
              DigestBytes(Conditions[c].payload), at)]

RecordConditions(at) ==
  LET recorded == ConditionCrossings(at)
  IN  /\ Len(transcript) + Len(Conditions) <= MaxCrossings
      /\ \A c \in DOMAIN recorded : Appendable(transcript, recorded[c])
      /\ transcript' = transcript \o recorded
      /\ received' = received \o [c \in DOMAIN recorded |-> AsReceived(recorded[c])]
      /\ UNCHANGED <<links, edits>>

-----------------------------------------------------------------------------
\* replay_transcript: one gate per crossing.
Blocked(name, reason) == [name |-> name, disposition |-> "BLOCK", reason |-> reason]

Recorded(crossing) ==
  [name |-> "consumer_result", disposition |-> crossing.disposition, reason |-> crossing.reason]

\* Mutant of Gate: the scenario the crossing was recorded under is not compared.
GateOfAnyScenario(crossing) ==
  IF crossing.lifecycle_id # Lifecycle
  THEN Blocked("lifecycle", "FOREIGN_LIFECYCLE_ID")
  ELSE IF DigestBytes(crossing.payload_bytes) # crossing.producer_asserted_digest
  THEN Blocked("payload_digest", "DIGEST_MISMATCH")
  ELSE Recorded(crossing)

Gate(crossing) ==
  IF crossing.scenario_digest # ScenarioDigest
  THEN Blocked("scenario_record", "SCENARIO_RECORD_DIGEST_MISMATCH")
  ELSE IF crossing.lifecycle_id # Lifecycle
  THEN Blocked("lifecycle", "FOREIGN_LIFECYCLE_ID")
  ELSE IF DigestBytes(crossing.payload_bytes) # crossing.producer_asserted_digest
  THEN Blocked("payload_digest", "DIGEST_MISMATCH")
  ELSE Recorded(crossing)

\* A gate changed when it says something other than the consumer recorded.
Changed(crossing) ==
  \/ Gate(crossing).disposition # crossing.disposition
  \/ Gate(crossing).reason # crossing.reason

FirstChanged(i) == Changed(transcript[i]) /\ \A j \in 1..(i - 1) : ~Changed(transcript[j])

-----------------------------------------------------------------------------
TranscriptInit ==
  /\ links = <<>> /\ transcript = <<>> /\ received = <<>> /\ edits = 0

TranscriptNext ==
  \/ \E route \in Routes, lifecycle \in Lifecycles, artifact \in Artifacts \cup {NoArtifact},
        payload, asserted \in Payloads, at \in Times :
       Cross(route, lifecycle, artifact, payload, asserted, at)
  \/ \E identifier \in Identifiers : Link(identifier)
  \/ \E i \in DOMAIN transcript, payload \in Payloads, lifecycle \in Lifecycles :
       Edit(i, payload, lifecycle)
  \/ InjectOutage
  \/ \E at \in Times : RecordConditions(at)

TranscriptSpec == TranscriptInit /\ [][TranscriptNext]_transcriptVars

-----------------------------------------------------------------------------
\* A crossing is not what was received when its bytes or its lifecycle were
\* altered, or the scenario was linked to something since.
Touched(i) ==
  \/ transcript[i].payload_bytes # received[i].payload
  \/ transcript[i].lifecycle_id # Lifecycle
  \/ received[i].links # links

RefusedOnReceipt(i) == transcript[i].producer_asserted_digest # DigestBytes(received[i].payload)

\* A replay that reports no change shows that every crossing the consumer
\* accepted is, byte for byte, what it received, of this lifecycle and under this
\* very scenario record, whatever outage was injected; and a reported first
\* change is the first accepted crossing that was touched, or one the consumer
\* had refused on receipt (replay_transcript compares with what the producer
\* asserted, so a refused crossing reads as changed even untouched).
ReplayNamesFirstTouched ==
  /\ (\A i \in DOMAIN transcript : ~Changed(transcript[i])) =>
       \A i \in DOMAIN transcript : Touched(i) <=> RefusedOnReceipt(i)
  /\ \A i \in DOMAIN transcript :
       FirstChanged(i) =>
         /\ Touched(i) \/ RefusedOnReceipt(i)
         /\ \A j \in 1..(i - 1) : Touched(j) => RefusedOnReceipt(j)
=============================================================================
