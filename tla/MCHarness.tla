----------------------------- MODULE MCHarness -----------------------------
(* Instances of the harness for TLC.  Its three parts are pure functions    *)
(* that share no state, so a behaviour exercises one of them: interleaving  *)
(* them would multiply the states and show nothing more.                    *)
EXTENDS Lineage, Transcript, Handoff

CONSTANTS ours, theirs, p, q, condition, x, y, doc, noArtifact, noPacket, noAdmission

VARIABLE part

-----------------------------------------------------------------------------
\* Lineage: the records of two lifecycles.  Ours has a revised intent, two
\* fills, one clearing that consumed both and one that missed the second.
MCIntent(l, revision) == [lifecycle_id |-> l, envelope_id |-> l, revision |-> revision]
MCFill(l, n, i) ==
  [lifecycle_id |-> l, event_id |-> n, intent_id |-> i.envelope_id, intent_digest |-> i]
MCCleared(l, fills) == [lifecycle_id |-> l, input_digests |-> fills]
MCObligation(l, c) == [lifecycle_id |-> l, obligation_id |-> l, transformation_digest |-> c]
MCAcceptance(id, o) == [obligation_id |-> id, obligation_digest |-> o]

Approved == MCIntent(ours, 1)
Foreign == MCIntent(theirs, 1)
Filled == {MCFill(ours, 1, Approved), MCFill(ours, 2, Approved)}
ForeignFill == MCFill(theirs, 1, Foreign)
ClearedAll == MCCleared(ours, Filled)
ClearedOne == MCCleared(ours, {MCFill(ours, 1, Approved)})
ForeignCleared == MCCleared(theirs, {ForeignFill})
Formed == MCObligation(ours, ClearedAll)
FormedOfOne == MCObligation(ours, ClearedOne)
ForeignFormed == MCObligation(theirs, ForeignCleared)

MCRecords ==
  [s \in Stages |->
     CASE s = "INTENT"     -> {Approved, MCIntent(ours, 2), Foreign}
       [] s = "EXECUTION"  -> Filled \cup {ForeignFill, MCFill(ours, 1, Foreign)}
       [] s = "CLEARING"   -> {ClearedAll, ClearedOne, ForeignCleared}
       [] s = "OBLIGATION" -> {Formed, FormedOfOne, ForeignFormed}
       [] s = "ACCEPTANCE" -> {MCAcceptance(ours, Formed), MCAcceptance(ours, FormedOfOne),
                               MCAcceptance(theirs, Formed), MCAcceptance(theirs, ForeignFormed)}]

\* Transcript: two payloads, two identifiers to link, a plan of one condition.
MCConditions == <<[id |-> doc, payload |-> condition]>>

-----------------------------------------------------------------------------
MCInit ==
  /\ part \in {"lineage", "transcript", "handoff"}
  /\ LineageInit /\ TranscriptInit /\ HandoffInit

MCNext ==
  /\ UNCHANGED part
  /\ \/ part = "lineage" /\ LineageNext /\ UNCHANGED <<transcriptVars, handoffVars>>
     \/ part = "transcript" /\ TranscriptNext /\ UNCHANGED <<lineageVars, handoffVars>>
     \/ part = "handoff" /\ HandoffNext /\ UNCHANGED <<lineageVars, transcriptVars>>

MCSpec == MCInit /\ [][MCNext]_<<part, lineageVars, transcriptVars, handoffVars>>
=============================================================================
