---------------------------- MODULE HarnessProofs ----------------------------
(***************************************************************************)
(* Proofs about the harness, for any records, payloads, identifiers, plan, *)
(* works, agents and times, and any number of steps.  Its three parts      *)
(* share no state: the lineage and its escalation, the transcript and its  *)
(* replay, and the handoff are proved one after the other.                 *)
(***************************************************************************)
EXTENDS Lineage, Transcript, Handoff, TLAPS, SequenceTheorems

-----------------------------------------------------------------------------
(* The transcript and its replay *)

Bytes == Payloads \cup {Conditions[c].payload : c \in DOMAIN Conditions}
Ids   == Artifacts \cup {NoArtifact} \cup {Conditions[c].id : c \in DOMAIN Conditions}

ScenarioRecords == [lifecycle : {Lifecycle}, links : Seq(Identifiers)]
Reasons == {"MISMATCH_AS_RECEIVED", "ACCEPTED", "CHAOS_OUTAGE"}

Crossings ==
  [route : Routes, lifecycle_id : Lifecycles \cup {Lifecycle}, artifact_id : Ids,
   scenario_digest : ScenarioRecords, payload_bytes : Bytes, producer_asserted_digest : Bytes,
   event_time : Times, disposition : {"BLOCK", "PASS", "INDETERMINATE"}, reason : Reasons]

Receipts == [payload : Bytes, links : Seq(Identifiers)]

\* Every crossing has its receipt and was recorded under the scenario of then.
TranscriptInv ==
  /\ links \in Seq(Identifiers)
  /\ transcript \in Seq(Crossings)
  /\ received \in Seq(Receipts)
  /\ Len(received) = Len(transcript)
  /\ \A i \in DOMAIN transcript : transcript[i].scenario_digest.links = received[i].links

\* What is recorded of an artifact as it is received (record_crossing).
LEMMA CrossingRecorded ==
  ASSUME links \in Seq(Identifiers), NEW route \in Routes, NEW lifecycle \in Lifecycles \cup {Lifecycle},
         NEW artifact \in Ids, NEW payload \in Bytes, NEW asserted \in Bytes, NEW at \in Times
  PROVE  LET crossing == Crossing(route, lifecycle, artifact, payload, asserted, at)
         IN  /\ crossing \in Crossings
             /\ AsReceived(crossing) \in Receipts
             /\ crossing.scenario_digest.links = AsReceived(crossing).links
<1> DEFINE crossing == Crossing(route, lifecycle, artifact, payload, asserted, at)
<1>1. ScenarioDigest \in ScenarioRecords /\ ScenarioDigest.links = links
  BY DEF ScenarioDigest, ScenarioRecords
<1>2. /\ crossing \in Crossings
      /\ crossing.scenario_digest = ScenarioDigest /\ crossing.payload_bytes = payload
  BY <1>1 DEF Crossing, Crossings, Reasons
<1>3. AsReceived(crossing) \in Receipts /\ AsReceived(crossing).links = links
  BY <1>2 DEF AsReceived, Receipts
<1> HIDE DEF crossing
<1> QED
  BY <1>1, <1>2, <1>3 DEF crossing

\* One more crossing, with its receipt (record_crossing, append).
LEMMA CrossKeeps ==
  ASSUME TranscriptInv, NEW route \in Routes, NEW lifecycle \in Lifecycles,
         NEW artifact \in Artifacts \cup {NoArtifact}, NEW payload \in Payloads,
         NEW asserted \in Payloads, NEW at \in Times,
         Cross(route, lifecycle, artifact, payload, asserted, at)
  PROVE  TranscriptInv'
<1> DEFINE crossing == Crossing(route, lifecycle, artifact, payload, asserted, at)
           receipt  == AsReceived(crossing)
<1>1. /\ transcript' = Append(transcript, crossing) /\ received' = Append(received, receipt)
      /\ links' = links
  BY DEF Cross
<1>2. /\ crossing \in Crossings /\ receipt \in Receipts
      /\ crossing.scenario_digest.links = receipt.links
  BY CrossingRecorded DEF TranscriptInv, Bytes, Ids
<1> HIDE DEF crossing, receipt
<1>3. /\ transcript' \in Seq(Crossings) /\ received' \in Seq(Receipts)
      /\ Len(received') = Len(transcript')
  BY <1>1, <1>2 DEF TranscriptInv
<1>4. ASSUME NEW i \in DOMAIN transcript'
      PROVE  transcript'[i].scenario_digest.links = received'[i].links
  <2>1. CASE i \in DOMAIN transcript
    <3>1. transcript'[i] = transcript[i] /\ received'[i] = received[i]
      BY <1>1, <2>1 DEF TranscriptInv
    <3> QED
      BY <2>1, <3>1 DEF TranscriptInv
  <2>2. CASE i \notin DOMAIN transcript
    <3>1. transcript'[i] = crossing /\ received'[i] = receipt
      BY <1>1, <1>2, <1>4, <2>2 DEF TranscriptInv
    <3> QED
      BY <1>2, <3>1
  <2> QED
    BY <2>1, <2>2
<1> QED
  BY <1>1, <1>3, <1>4 DEF TranscriptInv

\* Every condition of the plan, each with its receipt (record_injection_conditions).
LEMMA ConditionsKeep ==
  ASSUME TranscriptInv, NEW at \in Times, RecordConditions(at)
  PROVE  TranscriptInv'
<1> DEFINE recorded == ConditionCrossings(at)
           receipts == [c \in DOMAIN recorded |-> AsReceived(recorded[c])]
<1>1. /\ transcript' = transcript \o recorded /\ received' = received \o receipts
      /\ links' = links
  BY DEF RecordConditions
<1>2. PICK n \in Nat : DOMAIN Conditions = 1..n
  BY TranscriptAssumption
<1>3. ASSUME NEW c \in 1..n
      PROVE  /\ recorded[c] \in Crossings /\ receipts[c] \in Receipts
             /\ recorded[c].scenario_digest.links = receipts[c].links
  <2>1. Conditions[c].id \in Ids /\ Conditions[c].payload \in Bytes
    BY <1>2 DEF Ids, Bytes
  <2>2. recorded[c] = Crossing("elsewhere", Lifecycle, Conditions[c].id, Conditions[c].payload,
                               Conditions[c].payload, at)
    BY <1>2 DEF ConditionCrossings, DigestBytes
  <2>3. receipts[c] = AsReceived(recorded[c])
    BY <1>2 DEF ConditionCrossings
  <2>4. "elsewhere" \in Routes /\ links \in Seq(Identifiers)
    BY DEF Routes, TranscriptInv
  <2>5. LET crossing == Crossing("elsewhere", Lifecycle, Conditions[c].id, Conditions[c].payload,
                                 Conditions[c].payload, at)
        IN  /\ crossing \in Crossings
            /\ AsReceived(crossing) \in Receipts
            /\ crossing.scenario_digest.links = AsReceived(crossing).links
    BY <2>1, <2>4, CrossingRecorded
  <2> HIDE DEF recorded, receipts
  <2> QED
    BY <2>2, <2>3, <2>5
<1>4. recorded \in Seq(Crossings) /\ receipts \in Seq(Receipts) /\ Len(recorded) = n /\ Len(receipts) = n
  <2>1. recorded = [c \in 1..n |-> recorded[c]] /\ receipts = [c \in 1..n |-> receipts[c]]
    BY <1>2 DEF ConditionCrossings
  <2> HIDE DEF recorded, receipts
  <2>2. recorded \in [1..n -> Crossings] /\ receipts \in [1..n -> Receipts]
    BY <1>3, <2>1
  <2> QED
    BY <2>2
<1> HIDE DEF recorded, receipts
<1>5. /\ transcript' \in Seq(Crossings) /\ received' \in Seq(Receipts)
      /\ Len(received') = Len(transcript')
  <2>1. transcript \o recorded \in Seq(Crossings)
    BY <1>4 DEF TranscriptInv
  <2>2. received \o receipts \in Seq(Receipts)
    BY <1>4 DEF TranscriptInv
  <2>3. /\ Len(transcript \o recorded) = Len(transcript) + n
        /\ Len(received \o receipts) = Len(received) + n
    <3>1. transcript \in Seq(Crossings) /\ received \in Seq(Receipts)
      BY DEF TranscriptInv
    <3>2. Len(transcript \o recorded) = Len(transcript) + Len(recorded)
      BY <1>4, <3>1, ConcatProperties
    <3>3. Len(received \o receipts) = Len(received) + Len(receipts)
      BY <1>4, <3>1, ConcatProperties
    <3> QED
      BY <1>4, <3>2, <3>3
  <2> QED
    BY <1>1, <2>1, <2>2, <2>3 DEF TranscriptInv
<1>6. ASSUME NEW i \in DOMAIN transcript'
      PROVE  transcript'[i].scenario_digest.links = received'[i].links
  <2>1. CASE i \in DOMAIN transcript
    <3>1. transcript'[i] = transcript[i] /\ received'[i] = received[i]
      BY <1>1, <1>4, <2>1 DEF TranscriptInv
    <3> QED
      BY <2>1, <3>1 DEF TranscriptInv
  <2>2. CASE i \notin DOMAIN transcript
    <3> DEFINE c == i - Len(transcript)
    <3>1. c \in 1..n /\ transcript'[i] = recorded[c] /\ received'[i] = receipts[c]
      BY <1>1, <1>4, <1>6, <2>2 DEF TranscriptInv
    <3> QED
      BY <1>3, <3>1
  <2> QED
    BY <2>1, <2>2
<1> QED
  BY <1>1, <1>5, <1>6 DEF TranscriptInv

\* Altering a stored crossing, or an outage, leaves every crossing's scenario
\* record and receipt alone (apply_transcript_injections).
LEMMA AlteringKeeps ==
  ASSUME TranscriptInv, UNCHANGED <<links, received>>,
         NEW i \in DOMAIN transcript, NEW altered \in Crossings,
         altered.scenario_digest = transcript[i].scenario_digest,
         transcript' = [transcript EXCEPT ![i] = altered]
  PROVE  TranscriptInv'
<1>1. transcript' \in Seq(Crossings) /\ Len(transcript') = Len(transcript)
  BY DEF TranscriptInv
<1>2. ASSUME NEW j \in DOMAIN transcript'
      PROVE  transcript'[j].scenario_digest.links = received'[j].links
  <2>1. j \in DOMAIN transcript
    BY DEF TranscriptInv
  <2>2. transcript'[j].scenario_digest = transcript[j].scenario_digest
    BY <2>1 DEF TranscriptInv
  <2> QED
    BY <2>1, <2>2 DEF TranscriptInv
<1> QED
  BY <1>1, <1>2 DEF TranscriptInv

\* The outage alters what one crossing says was decided (apply_transcript_injections).
LEMMA OutageKeeps == TranscriptInv /\ InjectOutage => TranscriptInv'
<1> SUFFICES ASSUME TranscriptInv, InjectOutage PROVE TranscriptInv'
  OBVIOUS
<1>1. PICK i \in DOMAIN transcript :
        transcript' = [transcript EXCEPT ![i].disposition = "INDETERMINATE",
                                         ![i].reason = "CHAOS_OUTAGE"]
  BY DEF InjectOutage, Target
<1> DEFINE altered == [transcript[i] EXCEPT !.disposition = "INDETERMINATE",
                                            !.reason = "CHAOS_OUTAGE"]
<1>2. transcript[i] \in Crossings
  BY DEF TranscriptInv
<1>3. altered \in Crossings /\ altered.scenario_digest = transcript[i].scenario_digest
  BY <1>2 DEF Crossings, Reasons
<1>4. transcript' = [transcript EXCEPT ![i] = altered]
  BY <1>1
<1> HIDE DEF altered
<1> QED
  BY <1>3, <1>4, AlteringKeeps DEF InjectOutage

\* An alteration changes the bytes of one crossing, or the lifecycle it names.
LEMMA EditKeeps ==
  ASSUME TranscriptInv, NEW i \in DOMAIN transcript, NEW payload \in Payloads,
         NEW lifecycle \in Lifecycles, Edit(i, payload, lifecycle)
  PROVE  TranscriptInv'
<1> DEFINE altered == [transcript[i] EXCEPT !.payload_bytes = payload, !.lifecycle_id = lifecycle]
<1>1. transcript' = [transcript EXCEPT ![i].payload_bytes = payload, ![i].lifecycle_id = lifecycle]
  BY DEF Edit
<1>2. transcript[i] \in Crossings
  BY DEF TranscriptInv
<1>3. altered \in Crossings /\ altered.scenario_digest = transcript[i].scenario_digest
  BY <1>2 DEF Crossings, Bytes
<1>4. transcript' = [transcript EXCEPT ![i] = altered]
  BY <1>1
<1> HIDE DEF altered
<1> QED
  BY <1>3, <1>4, AlteringKeeps DEF Edit

\* When a gate differs from what the consumer recorded (replay_transcript).
LEMMA ChangedWhen ==
  ASSUME TranscriptInv, NEW i \in DOMAIN transcript
  PROVE  Changed(transcript[i]) <=>
           \/ received[i].links # links
           \/ transcript[i].lifecycle_id # Lifecycle
           \/ transcript[i].payload_bytes # transcript[i].producer_asserted_digest
<1> DEFINE crossing == transcript[i]
<1>1. crossing \in Crossings
  BY DEF TranscriptInv
<1>2. crossing.reason \in Reasons /\ crossing.scenario_digest \in ScenarioRecords
  BY <1>1 DEF Crossings
<1>3. crossing.scenario_digest = ScenarioDigest <=> received[i].links = links
  <2>1. crossing.scenario_digest = [lifecycle |-> Lifecycle, links |-> received[i].links]
    BY <1>2 DEF ScenarioRecords, TranscriptInv
  <2> QED
    BY <2>1 DEF ScenarioDigest
<1> HIDE DEF crossing
<1>4. CASE crossing.scenario_digest # ScenarioDigest
  BY <1>2, <1>3, <1>4 DEF Changed, Gate, Blocked, Reasons, crossing
<1>5. CASE crossing.scenario_digest = ScenarioDigest /\ crossing.lifecycle_id # Lifecycle
  BY <1>2, <1>5 DEF Changed, Gate, Blocked, Reasons, crossing
<1>6. CASE /\ crossing.scenario_digest = ScenarioDigest /\ crossing.lifecycle_id = Lifecycle
           /\ crossing.payload_bytes # crossing.producer_asserted_digest
  BY <1>2, <1>6 DEF Changed, Gate, Blocked, Reasons, DigestBytes, crossing
<1>7. CASE /\ crossing.scenario_digest = ScenarioDigest /\ crossing.lifecycle_id = Lifecycle
           /\ crossing.payload_bytes = crossing.producer_asserted_digest
  BY <1>3, <1>7 DEF Changed, Gate, Recorded, DigestBytes, crossing
<1> QED
  BY <1>4, <1>5, <1>6, <1>7

\* A replay without a change vouches for every crossing the consumer accepted,
\* and its first change is the first that was touched or refused, for any plan
\* and any sequence of crossings, links, outages and alterations.
THEOREM ReplayVouches == TranscriptSpec => []ReplayNamesFirstTouched
<1>1. TranscriptInit => TranscriptInv
  BY DEF TranscriptInit, TranscriptInv
<1>2. TranscriptInv /\ [TranscriptNext]_transcriptVars => TranscriptInv'
  <2> SUFFICES ASSUME TranscriptInv, [TranscriptNext]_transcriptVars
               PROVE  TranscriptInv'
    OBVIOUS
  <2>1. ASSUME NEW identifier \in Identifiers, Link(identifier) PROVE TranscriptInv'
    BY <2>1 DEF Link, TranscriptInv
  <2>2. CASE UNCHANGED transcriptVars
    BY <2>2 DEF transcriptVars, TranscriptInv
  <2> QED
    BY <2>1, <2>2, CrossKeeps, EditKeeps, OutageKeeps, ConditionsKeep DEF TranscriptNext
<1>3. TranscriptInv => ReplayNamesFirstTouched
  <2> SUFFICES ASSUME TranscriptInv PROVE ReplayNamesFirstTouched
    OBVIOUS
  <2>1. ASSUME NEW i \in DOMAIN transcript, ~Changed(transcript[i])
        PROVE  Touched(i) <=> RefusedOnReceipt(i)
    BY <2>1, ChangedWhen DEF Touched, RefusedOnReceipt, DigestBytes
  <2>2. ASSUME NEW i \in DOMAIN transcript, Changed(transcript[i])
        PROVE  Touched(i) \/ RefusedOnReceipt(i)
    BY <2>2, ChangedWhen DEF Touched, RefusedOnReceipt, DigestBytes
  <2>3. \A i \in DOMAIN transcript : 1..(i - 1) \subseteq DOMAIN transcript
    BY DEF TranscriptInv
  <2> QED
    BY <2>1, <2>2, <2>3 DEF ReplayNamesFirstTouched, FirstChanged
<1> QED
  BY <1>1, <1>2, <1>3, PTL DEF TranscriptSpec

-----------------------------------------------------------------------------
(* The handoff *)

\* An authorization joins two agents and rests on a record of an entitled
\* actor's decision to hand off, made by the time it was issued.
Grounded(handoff) ==
  /\ handoff.from_agent # handoff.to_agent
  /\ handoff.issued_at \in Int
  /\ \E record \in granted :
       /\ record = handoff.authority_digest
       /\ record.decision_type = C2Handoff
       /\ record.actor_kind \in AuthorizingKinds
       /\ record.timestamp <= handoff.issued_at

\* The records' dates, the grounds of what was issued, and the last admission.
HandoffInv ==
  /\ \A record \in granted : record.timestamp \in Int
  /\ \A handoff \in handoffs : Grounded(handoff)
  /\ admission # NoAdmission =>
       /\ admission.handoff \in handoffs
       /\ admission.when \in Int
       /\ Admits(admission.handoff, admission.lifecycle_id, admission.agent,
                 admission.stage, admission.when)

\* More authority records take away no authorization's grounds.
LEMMA GrantKeeps ==
  ASSUME HandoffInv, NEW decision, NEW kind, NEW at \in WorkTimes, Grant(decision, kind, at)
  PROVE  HandoffInv'
<1> DEFINE record == [decision_type |-> decision, actor_kind |-> kind, timestamp |-> at]
<1>1. granted' = granted \cup {record} /\ UNCHANGED <<handoffs, admission>>
  BY DEF Grant
<1>2. record.timestamp \in Int
  BY HandoffAssumption
<1>3. \A r \in granted' : r.timestamp \in Int
  BY <1>1, <1>2 DEF HandoffInv
<1>4. \A handoff \in handoffs' : Grounded(handoff)'
  BY <1>1 DEF HandoffInv, Grounded
<1> QED
  BY <1>1, <1>3, <1>4 DEF HandoffInv, Admits, IsLiveAt

\* An authorization is issued with its grounds (issue_handoff).
LEMMA IssueKeeps ==
  ASSUME HandoffInv, NEW record \in granted, NEW work, NEW from, NEW to, NEW stage,
         NEW issuedAt \in WorkTimes, NEW notAfter \in WorkTimes,
         IssueHandoff(record, work, from, to, stage, issuedAt, notAfter)
  PROVE  HandoffInv'
<1> DEFINE issued == [lifecycle_id |-> work, from_agent |-> from, to_agent |-> to,
                      stage |-> stage, issued_at |-> issuedAt, not_after |-> notAfter,
                      authority_digest |-> record]
<1>1. handoffs' = handoffs \cup {issued} /\ UNCHANGED <<granted, admission>>
  BY DEF IssueHandoff, AuthorityDigest
<1>2. Grounded(issued)
  BY HandoffAssumption DEF IssueHandoff, Authorizes, Grounded
<1>3. \A handoff \in handoffs' : Grounded(handoff)'
  BY <1>1, <1>2 DEF HandoffInv, Grounded
<1> QED
  BY <1>1, <1>3 DEF HandoffInv, Admits, IsLiveAt

\* An admission is what its authorization admits at that time (admits).
LEMMA AdmitKeeps ==
  ASSUME HandoffInv, NEW handoff \in handoffs, NEW work, NEW agent, NEW stage,
         NEW when \in WorkTimes, Admit(handoff, work, agent, stage, when)
  PROVE  HandoffInv'
<1>1. /\ admission' = [handoff |-> handoff, lifecycle_id |-> work, agent |-> agent,
                       stage |-> stage, when |-> when]
      /\ Admits(handoff, work, agent, stage, when)
      /\ UNCHANGED <<granted, handoffs>>
  BY DEF Admit
<1>2. /\ admission'.handoff = handoff /\ admission'.lifecycle_id = work
      /\ admission'.agent = agent /\ admission'.stage = stage /\ admission'.when = when
  BY <1>1
<1>3. \A h \in handoffs' : Grounded(h)'
  BY <1>1 DEF HandoffInv, Grounded
<1> QED
  BY <1>1, <1>2, <1>3, HandoffAssumption DEF HandoffInv, Admits, IsLiveAt

\* Nobody is admitted to a piece of work unless an entitled actor had decided
\* by then that work be handed off and another agent handed it this piece, for
\* any number of records and authorizations, made in any order and of any date.
THEOREM AdmittedWithAuthority == HandoffSpec => []AdmissionsAuthorised
<1>1. HandoffInit => HandoffInv
  BY DEF HandoffInit, HandoffInv
<1>2. HandoffInv /\ [HandoffNext]_handoffVars => HandoffInv'
  <2> SUFFICES ASSUME HandoffInv, [HandoffNext]_handoffVars
               PROVE  HandoffInv'
    OBVIOUS
  <2>1. CASE HandoffNext
    BY <2>1, GrantKeeps, IssueKeeps, AdmitKeeps DEF HandoffNext
  <2>2. CASE UNCHANGED handoffVars
    BY <2>2 DEF handoffVars, HandoffInv, Grounded, Admits, IsLiveAt
  <2> QED
    BY <2>1, <2>2
<1>3. HandoffInv => AdmissionsAuthorised
  <2> SUFFICES ASSUME HandoffInv, admission # NoAdmission
               PROVE  AdmissionsAuthorised
    BY DEF AdmissionsAuthorised
  <2>1. Grounded(admission.handoff)
    BY DEF HandoffInv
  <2>2. PICK record \in granted :
          /\ record = admission.handoff.authority_digest
          /\ record.decision_type = C2Handoff
          /\ record.actor_kind \in AuthorizingKinds
          /\ record.timestamp <= admission.handoff.issued_at
    BY <2>1 DEF Grounded
  <2>3. record.timestamp <= admission.when
    BY <2>1, <2>2 DEF HandoffInv, Grounded, Admits, IsLiveAt
  <2>4. /\ admission.handoff \in handoffs
        /\ admission.handoff.from_agent # admission.agent
        /\ admission.handoff.lifecycle_id = admission.lifecycle_id
        /\ admission.handoff.stage = admission.stage
        /\ admission.when < admission.handoff.not_after
    BY <2>1 DEF HandoffInv, Grounded, Admits, IsLiveAt
  <2> QED
    BY <2>2, <2>3, <2>4 DEF AdmissionsAuthorised, AuthorityDigest
<1> QED
  BY <1>1, <1>2, <1>3, PTL DEF HandoffSpec

-----------------------------------------------------------------------------
(* The lineage and its escalation *)

\* The records a hand may hold, stage by stage in the order they came.
AnyRecord == UNION {Records[s] : s \in Stages}
Hands == [Stages -> Seq(AnyRecord)]

AllOurs(hand) ==
  \A s \in Stages \ {"ACCEPTANCE"} : \A r \in ToSet(hand[s]) : r.lifecycle_id = Ours

\* What a sequence of records says as the function of its places.
LEMMA RecordsShape ==
  ASSUME NEW records \in Seq(AnyRecord)
  PROVE  /\ Len(records) \in Nat /\ DOMAIN records = 1 .. Len(records)
         /\ records = <<>> <=> Len(records) = 0
         /\ DOMAIN records = {} <=> Len(records) = 0
         /\ ToSet(records) = {} <=> Len(records) = 0
         /\ Range(records) = ToSet(records)
         /\ (\E i, j \in DOMAIN records : i # j) <=> Len(records) > 1
         /\ Len(records) = 1 => /\ ToSet(records) = {records[1]}
                                /\ OnlyRecord(records) = {records[1]}
                                /\ records = <<records[1]>>
         /\ Len(records) # 1 => OnlyRecord(records) = {}
         /\ \A x : records = <<x>> => Len(records) = 1 /\ records[1] = x
<1>1. Len(records) \in Nat /\ DOMAIN records = 1 .. Len(records)
  OBVIOUS
<1>2. records = <<>> <=> Len(records) = 0
  OBVIOUS
<1>3. ToSet(records) = {records[i] : i \in DOMAIN records}
  BY DEF ToSet
<1>4. Range(records) = ToSet(records)
  BY <1>3 DEF Range
<1>5. DOMAIN records = {} <=> Len(records) = 0
  <2>1. Len(records) # 0 => 1 \in 1 .. Len(records)
    BY <1>1
  <2>2. Len(records) = 0 => 1 .. Len(records) = {}
    OBVIOUS
  <2> QED BY <1>1, <2>1, <2>2
<1>6. (\E i, j \in DOMAIN records : i # j) <=> Len(records) > 1
  <2>1. Len(records) > 1 => 1 \in 1 .. Len(records) /\ 2 \in 1 .. Len(records)
    BY <1>1
  <2>2. Len(records) <= 1 => \A i, j \in 1 .. Len(records) : i = j
    BY <1>1
  <2> QED BY <1>1, <2>1, <2>2
<1>7. ASSUME Len(records) = 1
      PROVE  /\ ToSet(records) = {records[1]} /\ OnlyRecord(records) = {records[1]}
             /\ records = <<records[1]>>
  <2>1. DOMAIN records = {1}
    BY <1>1, <1>7
  <2>2. records = <<records[1]>>
    BY <1>7
  <2>3. {i \in DOMAIN records : DOMAIN records = {i}} = {1}
    BY <2>1
  <2>4. OnlyRecord(records) = {records[1]}
    BY <2>3 DEF OnlyRecord
  <2> QED BY <1>3, <2>1, <2>2, <2>4
<1>8. Len(records) # 1 => OnlyRecord(records) = {}
  <2>1. ASSUME NEW i \in DOMAIN records, DOMAIN records = {i} PROVE Len(records) = 1
    <3>1. Len(records) \in DOMAIN records /\ 1 \in DOMAIN records
      BY <1>1, <2>1
    <3> QED BY <2>1, <3>1
  <2>2. Len(records) # 1 => {i \in DOMAIN records : DOMAIN records = {i}} = {}
    BY <2>1
  <2> QED BY <2>2 DEF OnlyRecord
<1>9. \A x : records = <<x>> => Len(records) = 1 /\ records[1] = x
  OBVIOUS
<1>10. ToSet(records) = {} <=> Len(records) = 0
  BY <1>3, <1>5
<1> QED BY <1>1, <1>2, <1>4, <1>5, <1>6, <1>7, <1>8, <1>9, <1>10

\* What one stage that may have one record says of it (_exactly_one).
LEMMA ExactlyOneSays ==
  ASSUME NEW records \in Seq(AnyRecord), NEW stage, NEW required \in BOOLEAN
  PROVE  LET said == ExactlyOne(records, stage, required)
         IN  /\ said = {} <=> Len(records) = 1
             /\ Gap(stage, "AMBIGUOUS") \in said <=> Len(records) > 1
             /\ (\A g \in said : ~IsHole(g)) <=>
                  Len(records) <= 1 /\ (required => Len(records) = 1)
             /\ \A g \in said : g.code # "LIFECYCLE_MISMATCH"
<1>1. /\ Len(records) \in Nat
      /\ DOMAIN records = {} <=> Len(records) = 0
      /\ (\E i, j \in DOMAIN records : i # j) <=> Len(records) > 1
  BY RecordsShape
<1>2. CASE Len(records) > 1
  <2>1. ExactlyOne(records, stage, required) = {Gap(stage, "AMBIGUOUS")}
    BY <1>1, <1>2 DEF ExactlyOne
  <2>2. /\ Gap(stage, "AMBIGUOUS").code = "AMBIGUOUS"
        /\ IsHole(Gap(stage, "AMBIGUOUS"))
    BY DEF Gap, IsHole
  <2> QED BY <1>1, <1>2, <2>1, <2>2
<1>3. CASE Len(records) = 0
  <2>1. ExactlyOne(records, stage, required) =
          {Gap(stage, IF required THEN "MISSING" ELSE "NOT_REACHED")}
    BY <1>1, <1>3 DEF ExactlyOne
  <2> QED BY <1>1, <1>3, <2>1 DEF Gap, IsHole
<1>4. CASE Len(records) = 1
  <2>1. ExactlyOne(records, stage, required) = {}
    BY <1>1, <1>4 DEF ExactlyOne
  <2> QED BY <1>1, <1>4, <2>1
<1> QED BY <1>1, <1>2, <1>3, <1>4

\* A record of another lifecycle is a gap; without one the gaps are those.
LEMMA OursOrStray ==
  ASSUME NEW hand \in Hands
  PROVE  /\ ~AllOurs(hand) =>
              \E g \in AssembleLineage(hand) : g.code = "LIFECYCLE_MISMATCH"
         /\ AllOurs(hand) => AssembleLineage(hand) = GapsOf(hand)
<1>1. ASSUME NEW s \in Stages \ {"ACCEPTANCE"}, NEW r \in ToSet(hand[s]),
             r.lifecycle_id # Ours
      PROVE  \E g \in AssembleLineage(hand) : g.code = "LIFECYCLE_MISMATCH"
  <2>1. Gap(s, "LIFECYCLE_MISMATCH") \in Strays(hand[s], s)
    BY <1>1 DEF Strays
  <2>2. Strays(hand[s], s) \in {Strays(hand[z], z) : z \in Stages \ {"ACCEPTANCE"}}
    OBVIOUS
  <2>3. Gap(s, "LIFECYCLE_MISMATCH") \in
          UNION {Strays(hand[z], z) : z \in Stages \ {"ACCEPTANCE"}}
    BY <2>1, <2>2
  <2>4. Gap(s, "LIFECYCLE_MISMATCH") \in AssembleLineage(hand)
    BY <2>3 DEF AssembleLineage
  <2> QED BY <2>4 DEF Gap
<1>2. ASSUME AllOurs(hand) PROVE AssembleLineage(hand) = GapsOf(hand)
  <2>1. ASSUME NEW s \in Stages \ {"ACCEPTANCE"}
        PROVE  Strays(hand[s], s) = {} /\ OfThisLifecycle(hand[s]) = hand[s]
    <3>1. hand[s] \in Seq(AnyRecord)
      BY DEF Hands
    <3>2. \A i \in DOMAIN hand[s] : hand[s][i].lifecycle_id = Ours
      BY <1>2, <3>1 DEF AllOurs, ToSet
    <3>3. {i \in DOMAIN hand[s] : hand[s][i].lifecycle_id = Ours} = DOMAIN hand[s]
      BY <3>2
    <3>4. hand[s] = [i \in DOMAIN hand[s] |-> hand[s][i]]
      BY <3>1
    <3> QED BY <1>2, <3>3, <3>4 DEF AllOurs, Strays, OfThisLifecycle, Restrict
  <2> DEFINE strays == UNION {Strays(hand[s], s) : s \in Stages \ {"ACCEPTANCE"}}
  <2>2. strays = {}
    BY <2>1
  <2>3. Kept(hand) = hand
    BY <2>1 DEF Kept, Hands
  <2>4. AssembleLineage(hand) = strays \cup GapsOf(Kept(hand))
    BY DEF AssembleLineage
  <2> HIDE DEF strays
  <2> QED BY <2>2, <2>3, <2>4
<1> QED BY <1>1, <1>2 DEF AllOurs

\* What the links are checked for: each record names the ones of the stage
\* before it.
LinksHold(hand) ==
  /\ \A i \in OnlyRecord(hand.INTENT), e \in Range(hand.EXECUTION) :
       e.intent_id = i.envelope_id /\ e.intent_digest = i
  /\ \A c \in OnlyRecord(hand.CLEARING) :
       Range(hand.EXECUTION) # {} => Range(hand.EXECUTION) = c.input_digests
  /\ \A o \in OnlyRecord(hand.OBLIGATION), c \in OnlyRecord(hand.CLEARING) :
       o.transformation_digest = c
  /\ \A a \in OnlyRecord(hand.ACCEPTANCE) : \E o \in OnlyRecord(hand.OBLIGATION) :
       a.obligation_id = o.obligation_id /\ a.obligation_digest = o

\* _check_links finds nothing exactly when they do, and broken links otherwise.
LEMMA LinksChecked ==
  ASSUME NEW hand
  PROVE  /\ CheckLinks(hand) = {} <=> LinksHold(hand)
         /\ \A g \in CheckLinks(hand) : g.code = "BROKEN_LINK"
<1> DEFINE executions == Range(hand.EXECUTION)
           toIntent == {ExecutionsAgainstIntent(executions, i) :
                          i \in OnlyRecord(hand.INTENT)}
           toExecutions == {ClearingAgainstExecutions(c, executions) :
                              c \in {x \in OnlyRecord(hand.CLEARING) : executions # {}}}
           toClearing == {ObligationAgainstClearing(o, c) :
                            o \in OnlyRecord(hand.OBLIGATION), c \in OnlyRecord(hand.CLEARING)}
           toObligation == {AcceptanceAgainstObligation(a, OnlyRecord(hand.OBLIGATION)) :
                              a \in OnlyRecord(hand.ACCEPTANCE)}
<1>0. \A stage : Gap(stage, "BROKEN_LINK").code = "BROKEN_LINK"
  BY DEF Gap
<1>1. ASSUME NEW i
      PROVE  /\ ExecutionsAgainstIntent(executions, i) = {} <=>
                  \A e \in executions : e.intent_id = i.envelope_id /\ e.intent_digest = i
             /\ \A g \in ExecutionsAgainstIntent(executions, i) : g.code = "BROKEN_LINK"
  <2> DEFINE odd == {e \in executions : e.intent_id # i.envelope_id \/ e.intent_digest # i}
  <2>1. ExecutionsAgainstIntent(executions, i) = {Gap("EXECUTION", "BROKEN_LINK") : e \in odd}
    BY DEF ExecutionsAgainstIntent, Digest
  <2>2. odd = {} <=> \A e \in executions : e.intent_id = i.envelope_id /\ e.intent_digest = i
    OBVIOUS
  <2> HIDE DEF odd, executions
  <2> QED BY <1>0, <2>1, <2>2
<1>2. ASSUME NEW c
      PROVE  /\ ClearingAgainstExecutions(c, executions) = {} <=>
                  executions = c.input_digests
             /\ \A g \in ClearingAgainstExecutions(c, executions) : g.code = "BROKEN_LINK"
  <2>1. {Digest(e) : e \in executions} = executions
    BY DEF Digest
  <2> HIDE DEF executions
  <2> DEFINE odd == (c.input_digests \ executions) \cup (executions \ c.input_digests)
  <2>2. ClearingAgainstExecutions(c, executions) = {Gap("CLEARING", "BROKEN_LINK") : d \in odd}
    BY <2>1 DEF ClearingAgainstExecutions
  <2>3. odd = {} <=> executions = c.input_digests
    OBVIOUS
  <2> HIDE DEF odd
  <2> QED BY <1>0, <2>2, <2>3
<1>3. ASSUME NEW o, NEW c
      PROVE  /\ ObligationAgainstClearing(o, c) = {} <=> o.transformation_digest = c
             /\ \A g \in ObligationAgainstClearing(o, c) : g.code = "BROKEN_LINK"
  <2> DEFINE odd == {o.transformation_digest} \ {c}
  <2>1. ObligationAgainstClearing(o, c) = {Gap("OBLIGATION", "BROKEN_LINK") : d \in odd}
    BY DEF ObligationAgainstClearing, Digest
  <2>2. odd = {} <=> o.transformation_digest = c
    OBVIOUS
  <2> HIDE DEF odd
  <2> QED BY <1>0, <2>1, <2>2
<1>4. ASSUME NEW a, NEW os
      PROVE  /\ AcceptanceAgainstObligation(a, os) = {} <=>
                  \E o \in os : a.obligation_id = o.obligation_id /\ a.obligation_digest = o
             /\ \A g \in AcceptanceAgainstObligation(a, os) : g.code = "BROKEN_LINK"
  <2> DEFINE fits ==
               \E o \in os : a.obligation_id = o.obligation_id /\ a.obligation_digest = o
  <2>1. AcceptanceAgainstObligation(a, os) =
          IF fits THEN {} ELSE {Gap("ACCEPTANCE", "BROKEN_LINK")}
    BY DEF AcceptanceAgainstObligation, Digest
  <2> HIDE DEF fits
  <2>2. /\ AcceptanceAgainstObligation(a, os) = {} <=> fits
        /\ \A g \in AcceptanceAgainstObligation(a, os) : g.code = "BROKEN_LINK"
    BY <1>0, <2>1
  <2> QED BY <2>2 DEF fits
<1>5. CheckLinks(hand) = UNION (toIntent \cup toExecutions \cup toClearing \cup toObligation)
  BY DEF CheckLinks
<1>6. /\ (\A s \in toIntent : s = {}) <=>
           \A i \in OnlyRecord(hand.INTENT), e \in executions :
             e.intent_id = i.envelope_id /\ e.intent_digest = i
      /\ \A s \in toIntent : \A g \in s : g.code = "BROKEN_LINK"
  BY <1>1
<1>7. /\ (\A s \in toExecutions : s = {}) <=>
           \A c \in OnlyRecord(hand.CLEARING) :
             executions # {} => executions = c.input_digests
      /\ \A s \in toExecutions : \A g \in s : g.code = "BROKEN_LINK"
  BY <1>2
<1>8. /\ (\A s \in toClearing : s = {}) <=>
           \A o \in OnlyRecord(hand.OBLIGATION), c \in OnlyRecord(hand.CLEARING) :
             o.transformation_digest = c
      /\ \A s \in toClearing : \A g \in s : g.code = "BROKEN_LINK"
  BY <1>3
<1>9. /\ (\A s \in toObligation : s = {}) <=>
           \A a \in OnlyRecord(hand.ACCEPTANCE) : \E o \in OnlyRecord(hand.OBLIGATION) :
             a.obligation_id = o.obligation_id /\ a.obligation_digest = o
      /\ \A s \in toObligation : \A g \in s : g.code = "BROKEN_LINK"
  BY <1>4
<1> HIDE DEF toIntent, toExecutions, toClearing, toObligation
<1>10. CheckLinks(hand) = {} <=>
         /\ \A s \in toIntent : s = {}
         /\ \A s \in toExecutions : s = {}
         /\ \A s \in toClearing : s = {}
         /\ \A s \in toObligation : s = {}
  BY <1>5
<1>11. \A g \in CheckLinks(hand) : g.code = "BROKEN_LINK"
  BY <1>5, <1>6, <1>7, <1>8, <1>9
<1> QED BY <1>6, <1>7, <1>8, <1>9, <1>10, <1>11 DEF LinksHold

\* What a hand whose records are all ours must be for none of its gaps to be a
\* hole.
Sound(hand) ==
  /\ \A s \in Stages \ {"EXECUTION"} : Len(hand[s]) <= 1
  /\ HasExecution(hand) => Len(hand.INTENT) = 1
  /\ HasClearing(hand) => hand.EXECUTION # <<>>
  /\ HasObligation(hand) => Len(hand.CLEARING) = 1
  /\ HasAcceptance(hand) => Len(hand.OBLIGATION) = 1
  /\ LinksHold(hand)

LEMMA HandShape ==
  ASSUME NEW hand \in Hands
  PROVE  /\ hand.INTENT \in Seq(AnyRecord) /\ hand.EXECUTION \in Seq(AnyRecord)
         /\ hand.CLEARING \in Seq(AnyRecord) /\ hand.OBLIGATION \in Seq(AnyRecord)
         /\ hand.ACCEPTANCE \in Seq(AnyRecord)
BY DEF Hands, Stages

LEMMA SoundWithoutHoles ==
  ASSUME NEW hand \in Hands
  PROVE  (\A g \in GapsOf(hand) : ~IsHole(g)) <=> Sound(hand)
<1> DEFINE I == hand.INTENT
           E == hand.EXECUTION
           C == hand.CLEARING
           O == hand.OBLIGATION
           A == hand.ACCEPTANCE
           EGap == IF DOMAIN E # {} THEN {}
                   ELSE {Gap("EXECUTION", IF HasClearing(hand) THEN "MISSING"
                                          ELSE "NOT_REACHED")}
<1>1. /\ I \in Seq(AnyRecord) /\ E \in Seq(AnyRecord) /\ C \in Seq(AnyRecord)
      /\ O \in Seq(AnyRecord) /\ A \in Seq(AnyRecord)
  BY HandShape
<1>2. /\ HasExecution(hand) \in BOOLEAN /\ HasObligation(hand) \in BOOLEAN
      /\ HasAcceptance(hand) \in BOOLEAN
  BY DEF HasExecution, HasObligation, HasAcceptance
<1>3. (\A g \in EGap : ~IsHole(g)) <=> (HasClearing(hand) => E # <<>>)
  <2>1. DOMAIN E # {} <=> E # <<>>
    BY <1>1, RecordsShape
  <2>2. IsHole(Gap("EXECUTION", "MISSING")) /\ ~IsHole(Gap("EXECUTION", "NOT_REACHED"))
    BY DEF Gap, IsHole
  <2> QED BY <2>1, <2>2
<1>4. (\A g \in CheckLinks(hand) : ~IsHole(g)) <=> LinksHold(hand)
  BY LinksChecked DEF IsHole
<1>5. /\ (\A g \in ExactlyOne(I, "INTENT", HasExecution(hand)) : ~IsHole(g)) <=>
           Len(I) <= 1 /\ (HasExecution(hand) => Len(I) = 1)
      /\ (\A g \in ExactlyOne(C, "CLEARING", HasObligation(hand)) : ~IsHole(g)) <=>
           Len(C) <= 1 /\ (HasObligation(hand) => Len(C) = 1)
      /\ (\A g \in ExactlyOne(O, "OBLIGATION", HasAcceptance(hand)) : ~IsHole(g)) <=>
           Len(O) <= 1 /\ (HasAcceptance(hand) => Len(O) = 1)
      /\ (\A g \in ExactlyOne(A, "ACCEPTANCE", FALSE) : ~IsHole(g)) <=> Len(A) <= 1
  BY <1>1, <1>2, ExactlyOneSays
<1>6. (\A s \in Stages \ {"EXECUTION"} : Len(hand[s]) <= 1) <=>
        Len(I) <= 1 /\ Len(C) <= 1 /\ Len(O) <= 1 /\ Len(A) <= 1
  BY DEF Stages
<1>7. GapsOf(hand) =
        ExactlyOne(I, "INTENT", HasExecution(hand))
          \cup ExactlyOne(C, "CLEARING", HasObligation(hand))
          \cup ExactlyOne(O, "OBLIGATION", HasAcceptance(hand))
          \cup ExactlyOne(A, "ACCEPTANCE", FALSE)
          \cup EGap \cup CheckLinks(hand)
  BY DEF GapsOf
<1> HIDE DEF EGap, I, C, O, A
<1>8. (\A g \in GapsOf(hand) : ~IsHole(g)) <=>
        /\ \A g \in ExactlyOne(I, "INTENT", HasExecution(hand)) : ~IsHole(g)
        /\ \A g \in ExactlyOne(C, "CLEARING", HasObligation(hand)) : ~IsHole(g)
        /\ \A g \in ExactlyOne(O, "OBLIGATION", HasAcceptance(hand)) : ~IsHole(g)
        /\ \A g \in ExactlyOne(A, "ACCEPTANCE", FALSE) : ~IsHole(g)
        /\ \A g \in EGap : ~IsHole(g)
        /\ \A g \in CheckLinks(hand) : ~IsHole(g)
  BY <1>7
<1> QED BY <1>3, <1>4, <1>5, <1>6, <1>8 DEF Sound, I, C, O, A

\* For a hand of ours, sound is to be made from what is in it.
LEMMA SoundIsWhole ==
  ASSUME NEW hand \in Hands, AllOurs(hand)
  PROVE  Sound(hand) <=> MadeFromTheHand(hand)
<1> DEFINE I == hand.INTENT
           E == hand.EXECUTION
           C == hand.CLEARING
           O == hand.OBLIGATION
           A == hand.ACCEPTANCE
<1>1. /\ I \in Seq(AnyRecord) /\ E \in Seq(AnyRecord) /\ C \in Seq(AnyRecord)
      /\ O \in Seq(AnyRecord) /\ A \in Seq(AnyRecord)
  BY HandShape
<1>2. ASSUME NEW s \in {I, C, O, A}
      PROVE  /\ Len(s) \in Nat /\ DOMAIN s = {} <=> Len(s) = 0
             /\ ToSet(s) = {} <=> Len(s) = 0
             /\ Len(s) = 1 => /\ ToSet(s) = {s[1]} /\ OnlyRecord(s) = {s[1]}
                              /\ s = <<s[1]>>
             /\ Len(s) # 1 => OnlyRecord(s) = {}
             /\ \A x : s = <<x>> => Len(s) = 1 /\ s[1] = x
  BY <1>1, RecordsShape
<1>3. /\ E = <<>> <=> ToSet(E) = {}
      /\ DOMAIN E = {} <=> ToSet(E) = {}
      /\ Range(E) = ToSet(E)
  BY <1>1, RecordsShape
<1>4. (\A s \in Stages \ {"EXECUTION"} : Len(hand[s]) <= 1) <=>
        Len(I) <= 1 /\ Len(C) <= 1 /\ Len(O) <= 1 /\ Len(A) <= 1
  BY DEF Stages
<1>5. MadeFromTheHand(hand) <=>
        /\ \A e \in ToSet(E) : I = <<e.intent_digest>> /\ e.intent_digest.envelope_id = e.intent_id
        /\ \A c \in ToSet(C) : E # <<>> /\ ToSet(E) = c.input_digests
        /\ \A o \in ToSet(O) : C = <<o.transformation_digest>>
        /\ \A a \in ToSet(A) :
             O = <<a.obligation_digest>> /\ a.obligation_digest.obligation_id = a.obligation_id
        /\ Len(I) <= 1 /\ Len(C) <= 1 /\ Len(O) <= 1 /\ Len(A) <= 1
  BY <1>4 DEF MadeFromTheHand, AllOurs
<1>6. LinksHold(hand) <=>
        /\ \A i \in OnlyRecord(I), e \in ToSet(E) :
             e.intent_id = i.envelope_id /\ e.intent_digest = i
        /\ \A c \in OnlyRecord(C) : ToSet(E) # {} => ToSet(E) = c.input_digests
        /\ \A o \in OnlyRecord(O), c \in OnlyRecord(C) : o.transformation_digest = c
        /\ \A a \in OnlyRecord(A) : \E o \in OnlyRecord(O) :
             a.obligation_id = o.obligation_id /\ a.obligation_digest = o
  BY <1>3 DEF LinksHold
<1>7. Sound(hand) <=>
        /\ Len(I) <= 1 /\ Len(C) <= 1 /\ Len(O) <= 1 /\ Len(A) <= 1
        /\ ToSet(E) # {} \/ Len(C) # 0 \/ Len(O) # 0 \/ Len(A) # 0 => Len(I) = 1
        /\ Len(C) # 0 \/ Len(O) # 0 \/ Len(A) # 0 => ToSet(E) # {}
        /\ Len(O) # 0 \/ Len(A) # 0 => Len(C) = 1
        /\ Len(A) # 0 => Len(O) = 1
        /\ LinksHold(hand)
  BY <1>2, <1>3, <1>4
     DEF Sound, HasExecution, HasClearing, HasObligation, HasAcceptance
<1> HIDE DEF I, E, C, O, A
<1>8. ASSUME Sound(hand) PROVE MadeFromTheHand(hand)
  <2>1. \A e \in ToSet(E) :
          I = <<e.intent_digest>> /\ e.intent_digest.envelope_id = e.intent_id
    BY <1>2, <1>6, <1>7, <1>8
  <2>2. \A c \in ToSet(C) : E # <<>> /\ ToSet(E) = c.input_digests
    BY <1>2, <1>3, <1>6, <1>7, <1>8
  <2>3. \A o \in ToSet(O) : C = <<o.transformation_digest>>
    BY <1>2, <1>6, <1>7, <1>8
  <2>4. \A a \in ToSet(A) :
          O = <<a.obligation_digest>> /\ a.obligation_digest.obligation_id = a.obligation_id
    BY <1>2, <1>6, <1>7, <1>8
  <2> QED BY <1>5, <1>7, <1>8, <2>1, <2>2, <2>3, <2>4
<1>9. ASSUME MadeFromTheHand(hand) PROVE Sound(hand)
  <2>1. /\ Len(A) # 0 => Len(O) = 1
        /\ Len(O) # 0 => Len(C) = 1
        /\ Len(C) # 0 => ToSet(E) # {}
        /\ ToSet(E) # {} => Len(I) = 1
    BY <1>2, <1>3, <1>5, <1>9
  <2>2. \A i \in OnlyRecord(I), e \in ToSet(E) :
          e.intent_id = i.envelope_id /\ e.intent_digest = i
    BY <1>2, <1>5, <1>9
  <2>3. \A c \in OnlyRecord(C) : ToSet(E) # {} => ToSet(E) = c.input_digests
    BY <1>2, <1>5, <1>9
  <2>4. \A o \in OnlyRecord(O), c \in OnlyRecord(C) : o.transformation_digest = c
    BY <1>2, <1>5, <1>9
  <2>5. \A a \in OnlyRecord(A) : \E o \in OnlyRecord(O) :
          a.obligation_id = o.obligation_id /\ a.obligation_digest = o
    BY <1>2, <1>5, <1>9
  <2>6. LinksHold(hand)
    BY <1>6, <2>2, <2>3, <2>4, <2>5
  <2>7. Len(I) <= 1 /\ Len(C) <= 1 /\ Len(O) <= 1 /\ Len(A) <= 1
    BY <1>5, <1>9
  <2>8. Len(I) \in Nat /\ Len(C) \in Nat /\ Len(O) \in Nat /\ Len(A) \in Nat
    BY <1>2
  <2>9. /\ ToSet(E) # {} \/ Len(C) # 0 \/ Len(O) # 0 \/ Len(A) # 0 => Len(I) = 1
        /\ Len(C) # 0 \/ Len(O) # 0 \/ Len(A) # 0 => ToSet(E) # {}
        /\ Len(O) # 0 \/ Len(A) # 0 => Len(C) = 1
    BY <2>1, <2>8
  <2> QED BY <1>7, <2>1, <2>6, <2>7, <2>9
<1> QED BY <1>8, <1>9

\* The verdict on any hand: blocked exactly when it is not made from itself,
\* passed exactly when it is and is finished.
LEMMA VerdictIs ==
  ASSUME NEW hand \in Hands
  PROVE  LET gaps == AssembleLineage(hand)
         IN  /\ (\A g \in gaps : ~IsHole(g)) <=> MadeFromTheHand(hand)
             /\ gaps = {} <=> MadeFromTheHand(hand) /\ hand.ACCEPTANCE # <<>>
<1> DEFINE gaps == AssembleLineage(hand)
<1>1. CASE ~AllOurs(hand)
  <2>1. PICK g \in gaps : g.code = "LIFECYCLE_MISMATCH"
    BY <1>1, OursOrStray
  <2>2. IsHole(g)
    BY <2>1 DEF IsHole
  <2>3. ~MadeFromTheHand(hand)
    BY <1>1 DEF MadeFromTheHand, AllOurs
  <2> QED BY <2>1, <2>2, <2>3
<1>2. CASE AllOurs(hand)
  <2>1. gaps = GapsOf(hand)
    BY <1>2, OursOrStray
  <2>2. (\A g \in gaps : ~IsHole(g)) <=> MadeFromTheHand(hand)
    BY <1>2, <2>1, SoundWithoutHoles, SoundIsWhole
  <2> HIDE DEF gaps
  <2>3. ASSUME gaps = {} PROVE hand.ACCEPTANCE # <<>>
    <3>1. ExactlyOne(hand.ACCEPTANCE, "ACCEPTANCE", FALSE) = {}
      BY <2>1, <2>3 DEF GapsOf
    <3>2. hand.ACCEPTANCE \in Seq(AnyRecord)
      BY HandShape
    <3>3. Len(hand.ACCEPTANCE) = 1
      BY <3>1, <3>2, ExactlyOneSays
    <3> QED BY <3>2, <3>3, RecordsShape
  <2>4. ASSUME MadeFromTheHand(hand), hand.ACCEPTANCE # <<>> PROVE gaps = {}
    <3>1. Sound(hand)
      BY <1>2, <2>4, SoundIsWhole
    <3>2. /\ hand.INTENT \in Seq(AnyRecord) /\ hand.EXECUTION \in Seq(AnyRecord)
          /\ hand.CLEARING \in Seq(AnyRecord) /\ hand.OBLIGATION \in Seq(AnyRecord)
          /\ hand.ACCEPTANCE \in Seq(AnyRecord)
      BY HandShape
    <3>3. HasAcceptance(hand)
      BY <2>4, <3>2, RecordsShape DEF HasAcceptance
    <3>4. HasObligation(hand) /\ HasClearing(hand) /\ HasExecution(hand)
      BY <3>3 DEF HasObligation, HasClearing, HasExecution
    <3>5. /\ Len(hand.INTENT) = 1 /\ Len(hand.CLEARING) = 1
          /\ Len(hand.OBLIGATION) = 1
      BY <3>1, <3>3, <3>4 DEF Sound
    <3>6. Len(hand.ACCEPTANCE) = 1
      <4> DEFINE n == Len(hand.ACCEPTANCE)
      <4>1. n <= 1
        BY <3>1 DEF Sound, Stages
      <4>2. n \in Nat /\ n # 0
        BY <2>4, <3>2, RecordsShape
      <4>3. n = 1
        <5> HIDE DEF n
        <5> QED BY <4>1, <4>2
      <4> QED BY <4>3
    <3>7. /\ ExactlyOne(hand.INTENT, "INTENT", HasExecution(hand)) = {}
          /\ ExactlyOne(hand.CLEARING, "CLEARING", HasObligation(hand)) = {}
          /\ ExactlyOne(hand.OBLIGATION, "OBLIGATION", HasAcceptance(hand)) = {}
          /\ ExactlyOne(hand.ACCEPTANCE, "ACCEPTANCE", FALSE) = {}
      <4>1. /\ HasExecution(hand) \in BOOLEAN /\ HasObligation(hand) \in BOOLEAN
            /\ HasAcceptance(hand) \in BOOLEAN /\ FALSE \in BOOLEAN
        BY DEF HasExecution, HasObligation, HasAcceptance
      <4> QED BY <3>2, <3>5, <3>6, <4>1, ExactlyOneSays
    <3>8. DOMAIN hand.EXECUTION # {}
      BY <3>1, <3>2, <3>4, RecordsShape DEF Sound
    <3>9. CheckLinks(hand) = {}
      BY <3>1, LinksChecked DEF Sound
    <3> QED BY <2>1, <3>7, <3>8, <3>9 DEF GapsOf
  <2>5. gaps = {} => MadeFromTheHand(hand)
    BY <2>2
  <2> QED BY <2>2, <2>3, <2>4, <2>5 DEF gaps
<1> QED BY <1>1, <1>2

\* What is escalated of a hand: no other lifecycle's record, no two candidates,
\* and a packet that is unfinished only if nothing is wrong.
LEMMA EscalatedIs ==
  ASSUME NEW hand \in Hands, Escalates(AssembleLineage(hand))
  PROVE  LET packed == PackageEscalation(AssembleLineage(hand))
             whole == MadeFromTheHand(hand)
         IN  /\ AllOurs(hand)
             /\ \A s \in Stages \ {"EXECUTION"} : Len(hand[s]) <= 1
             /\ packed.findings = {} <=> whole
             /\ whole => hand.ACCEPTANCE = <<>> /\ packed.unknowns # {}
<1> DEFINE gaps == AssembleLineage(hand)
<1>1. /\ \A g \in gaps : g.code \notin {"LIFECYCLE_MISMATCH", "AMBIGUOUS"}
      /\ Disposition(gaps) # "PASS"
  BY DEF Escalates, BlockingGaps
<1>2. AllOurs(hand) /\ gaps = GapsOf(hand)
  BY <1>1, OursOrStray
<1>3. /\ (\A g \in gaps : ~IsHole(g)) <=> MadeFromTheHand(hand)
      /\ gaps = {} <=> MadeFromTheHand(hand) /\ hand.ACCEPTANCE # <<>>
  BY VerdictIs
<1> HIDE DEF gaps
<1>4. /\ hand.INTENT \in Seq(AnyRecord) /\ hand.CLEARING \in Seq(AnyRecord)
      /\ hand.OBLIGATION \in Seq(AnyRecord) /\ hand.ACCEPTANCE \in Seq(AnyRecord)
  BY HandShape
<1>5. \A s \in Stages \ {"EXECUTION"} : Len(hand[s]) <= 1
  <2>1. /\ HasExecution(hand) \in BOOLEAN /\ HasObligation(hand) \in BOOLEAN
        /\ HasAcceptance(hand) \in BOOLEAN /\ FALSE \in BOOLEAN
    BY DEF HasExecution, HasObligation, HasAcceptance
  <2>2. /\ Gap("INTENT", "AMBIGUOUS") \notin gaps
        /\ Gap("CLEARING", "AMBIGUOUS") \notin gaps
        /\ Gap("OBLIGATION", "AMBIGUOUS") \notin gaps
        /\ Gap("ACCEPTANCE", "AMBIGUOUS") \notin gaps
    BY <1>1 DEF Gap
  <2>3. /\ Gap("INTENT", "AMBIGUOUS") \notin
             ExactlyOne(hand.INTENT, "INTENT", HasExecution(hand))
        /\ Gap("CLEARING", "AMBIGUOUS") \notin
             ExactlyOne(hand.CLEARING, "CLEARING", HasObligation(hand))
        /\ Gap("OBLIGATION", "AMBIGUOUS") \notin
             ExactlyOne(hand.OBLIGATION, "OBLIGATION", HasAcceptance(hand))
        /\ Gap("ACCEPTANCE", "AMBIGUOUS") \notin
             ExactlyOne(hand.ACCEPTANCE, "ACCEPTANCE", FALSE)
    BY <1>2, <2>2 DEF GapsOf
  <2>4. /\ ~(Len(hand.INTENT) > 1) /\ ~(Len(hand.CLEARING) > 1)
        /\ ~(Len(hand.OBLIGATION) > 1) /\ ~(Len(hand.ACCEPTANCE) > 1)
    BY <1>4, <2>1, <2>3, ExactlyOneSays
  <2>5. /\ Len(hand.INTENT) \in Nat /\ Len(hand.CLEARING) \in Nat
        /\ Len(hand.OBLIGATION) \in Nat /\ Len(hand.ACCEPTANCE) \in Nat
    BY <1>4
  <2> QED BY <2>4, <2>5 DEF Stages
<1>6. /\ PackageEscalation(gaps).findings = {g \in gaps : IsHole(g)}
      /\ PackageEscalation(gaps).unknowns = {g.stage : g \in {x \in gaps : ~IsHole(x)}}
  BY DEF PackageEscalation
<1>7. PackageEscalation(gaps).findings = {} <=> MadeFromTheHand(hand)
  BY <1>3, <1>6
<1>8. ASSUME MadeFromTheHand(hand)
      PROVE  hand.ACCEPTANCE = <<>> /\ PackageEscalation(gaps).unknowns # {}
  <2>1. gaps # {}
    BY <1>1, <1>3, <1>8 DEF Disposition
  <2>2. hand.ACCEPTANCE = <<>>
    BY <1>3, <1>8, <2>1
  <2>3. PICK g \in gaps : ~IsHole(g)
    BY <1>3, <1>8, <2>1
  <2>4. g.stage \in PackageEscalation(gaps).unknowns
    BY <1>6, <2>3
  <2> QED BY <2>2, <2>4
<1> QED BY <1>2, <1>5, <1>7, <1>8 DEF gaps

\* The hand holds records, and what was escalated was packed of it as it is.
LineageInv ==
  /\ supplied \in Hands
  /\ packet # NoPacket => /\ Escalates(AssembleLineage(supplied))
                          /\ packet = PackageEscalation(AssembleLineage(supplied))

LEMMA LineageKept == LineageInv /\ [LineageNext]_lineageVars => LineageInv'
<1> SUFFICES ASSUME LineageInv, [LineageNext]_lineageVars PROVE LineageInv'
  OBVIOUS
<1>1. ASSUME NEW stage \in Stages, NEW record \in Records[stage], Supply(stage, record)
      PROVE  LineageInv'
  <2>1. /\ supplied' = [supplied EXCEPT ![stage] = Append(@, record)]
        /\ packet' = NoPacket
    BY <1>1 DEF Supply
  <2>2. supplied \in [Stages -> Seq(AnyRecord)] /\ record \in AnyRecord
    BY DEF LineageInv, Hands, AnyRecord
  <2>3. Append(supplied[stage], record) \in Seq(AnyRecord)
    BY <2>2
  <2> QED BY <2>1, <2>2, <2>3 DEF LineageInv, Hands
<1>2. CASE Escalate
  <2>1. /\ Escalates(AssembleLineage(supplied)) /\ supplied' = supplied
        /\ packet' = PackageEscalation(AssembleLineage(supplied))
    BY <1>2 DEF Escalate
  <2> QED BY <2>1 DEF LineageInv
<1>3. CASE UNCHANGED lineageVars
  BY <1>3 DEF LineageInv, lineageVars
<1> QED BY <1>1, <1>2, <1>3 DEF LineageNext

\* Whatever records a caller supplies, in whatever order and however often,
\* the assembler passes, leaves open and blocks exactly what it should, and
\* what is escalated fits the records it was packed of.
THEOREM VerdictsFit == LineageSpec => []VerdictsFitTheRecords
<1>1. LineageInit => LineageInv
  <2>1. <<>> \in Seq(AnyRecord)
    OBVIOUS
  <2> QED BY <2>1 DEF LineageInit, LineageInv, Hands
<1>2. LineageInv => VerdictsFitTheRecords
  <2> SUFFICES ASSUME LineageInv PROVE VerdictsFitTheRecords
    OBVIOUS
  <2> DEFINE gaps == AssembleLineage(supplied)
             whole == MadeFromTheHand(supplied)
  <2>1. /\ (\A g \in gaps : ~IsHole(g)) <=> whole
        /\ gaps = {} <=> whole /\ supplied.ACCEPTANCE # <<>>
    BY VerdictIs DEF LineageInv
  <2>2. ASSUME packet # NoPacket
        PROVE  /\ AllOurs(supplied)
               /\ \A s \in Stages \ {"EXECUTION"} : Len(supplied[s]) <= 1
               /\ packet.findings = {} <=> whole
               /\ whole => supplied.ACCEPTANCE = <<>> /\ packet.unknowns # {}
    BY <2>2, EscalatedIs DEF LineageInv
  <2> HIDE DEF gaps, whole
  <2>3. /\ Disposition(gaps) # "BLOCK" <=> whole
        /\ Disposition(gaps) = "PASS" <=> whole /\ supplied.ACCEPTANCE # <<>>
    BY <2>1 DEF Disposition
  <2> QED BY <2>2, <2>3 DEF VerdictsFitTheRecords, AllOurs, gaps, whole
<1> QED BY <1>1, <1>2, LineageKept, PTL DEF LineageSpec
=============================================================================
