------------------------------- MODULE Handoff -------------------------------
(* C2 handoffs (harness_c2/handoff.py): the authority records entitled      *)
(* actors make, the authorizations issued against them, and the consumer's  *)
(* question whether one admits an agent to a piece of work at a time.  The  *)
(* caller names every time: none of these functions reads a clock.          *)
EXTENDS Integers, FiniteSets

CONSTANTS WorkIds,       \* lifecycles handed over
          Agents, WorkStages, Decisions, ActorKinds,
          C2Handoff,     \* the decision that authorizes a handoff
          WorkTimes,     \* instants
          NoAdmission,
          MaxGrants,     \* bound: authority records made
          MaxHandoffs    \* bound: authorizations issued

ASSUME HandoffAssumption == WorkTimes \subseteq Int

VARIABLES granted,       \* authority records
          handoffs,      \* authorizations issued
          admission      \* the last admission: who, to what, when, on which handoff

handoffVars == <<granted, handoffs, admission>>

AuthorizingKinds == {"HUMAN", "DETERMINISTIC_SERVICE"}

\* Digests tell any two authority records apart.
AuthorityDigest(record) == record

-----------------------------------------------------------------------------
\* An entitled actor makes a record, of any date; the kernel refuses other actors.
Grant(decision, kind, timestamp) ==
  /\ Cardinality(granted) < MaxGrants
  /\ kind \in AuthorizingKinds
  /\ granted' = granted \cup
       {[decision_type |-> decision, actor_kind |-> kind, timestamp |-> timestamp]}
  /\ UNCHANGED <<handoffs, admission>>

\* Mutant of Authorizes: the record's date is not compared.
AuthorizesWhenever(record, issuedAt) ==
  record.decision_type = C2Handoff /\ record.actor_kind \in AuthorizingKinds

\* What issue_handoff asks of the authority record.
Authorizes(record, issuedAt) ==
  /\ record.decision_type = C2Handoff
  /\ record.actor_kind \in AuthorizingKinds
  /\ record.timestamp <= issuedAt

\* The authorization's validators: it expires later, and joins two agents.
IssueHandoff(record, work, from, to, stage, issuedAt, notAfter) ==
  /\ Cardinality(handoffs) < MaxHandoffs
  /\ Authorizes(record, issuedAt)
  /\ issuedAt < notAfter
  /\ from # to
  /\ handoffs' = handoffs \cup
       {[lifecycle_id |-> work, from_agent |-> from, to_agent |-> to, stage |-> stage,
         issued_at |-> issuedAt, not_after |-> notAfter,
         authority_digest |-> AuthorityDigest(record)]}
  /\ UNCHANGED <<granted, admission>>

IsLiveAt(handoff, when) == handoff.issued_at <= when /\ when < handoff.not_after

Admits(handoff, work, agent, stage, when) ==
  /\ handoff.lifecycle_id = work
  /\ handoff.to_agent = agent
  /\ handoff.stage = stage
  /\ IsLiveAt(handoff, when)

Admit(handoff, work, agent, stage, when) ==
  /\ Admits(handoff, work, agent, stage, when)
  /\ admission' = [handoff |-> handoff, lifecycle_id |-> work, agent |-> agent,
                   stage |-> stage, when |-> when]
  /\ UNCHANGED <<granted, handoffs>>

-----------------------------------------------------------------------------
HandoffInit == granted = {} /\ handoffs = {} /\ admission = NoAdmission

HandoffNext ==
  \/ \E decision \in Decisions, kind \in ActorKinds, at \in WorkTimes : Grant(decision, kind, at)
  \/ \E record \in granted, work \in WorkIds, from, to \in Agents, stage \in WorkStages,
        issuedAt, notAfter \in WorkTimes :
       IssueHandoff(record, work, from, to, stage, issuedAt, notAfter)
  \/ \E handoff \in handoffs, work \in WorkIds, agent \in Agents, stage \in WorkStages,
        when \in WorkTimes :
       Admit(handoff, work, agent, stage, when)

HandoffSpec == HandoffInit /\ [][HandoffNext]_handoffVars

-----------------------------------------------------------------------------
\* Whenever an agent is admitted, somebody entitled had by then decided on a C2
\* handoff, another agent handed this very work to it, and it had not expired
\* (grant, issue and admission are separate calls with times the callers name;
\* handoff.py:248 "An authorization cannot post-date the thing it authorizes").
AdmissionsAuthorised ==
  admission # NoAdmission =>
    LET handoff == admission.handoff
    IN  /\ handoff \in handoffs
        /\ handoff.from_agent # admission.agent
        /\ handoff.lifecycle_id = admission.lifecycle_id
        /\ handoff.stage = admission.stage
        /\ admission.when < handoff.not_after
        /\ \E record \in granted :
             /\ AuthorityDigest(record) = handoff.authority_digest
             /\ record.decision_type = C2Handoff
             /\ record.actor_kind \in AuthorizingKinds
             /\ record.timestamp <= admission.when
=============================================================================
