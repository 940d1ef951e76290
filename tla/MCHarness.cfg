SPECIFICATION MCSpec
CONSTANTS
  ours = ours
  theirs = theirs
  p = p
  q = q
  condition = condition
  x = x
  y = y
  doc = doc
  noArtifact = noArtifact
  noPacket = noPacket
  noAdmission = noAdmission
  Ours <- ours
  Records <- MCRecords
  NoPacket <- noPacket
  MaxSupplied = 6
  Lifecycle <- ours
  Lifecycles = {ours, theirs}
  Payloads = {p, q}
  Identifiers = {x}
  Artifacts = {doc}
  NoArtifact <- noArtifact
  Conditions <- MCConditions
  Times = {1, 2}
  MaxCrossings = 3
  MaxEdits = 1
  WorkIds = {ours, theirs}
  Agents = {x, y}
  WorkStages = {"INVESTIGATE", "RECONCILE"}
  Decisions = {"C2_HANDOFF", "INTENT_APPROVAL"}
  ActorKinds = {"HUMAN", "DETERMINISTIC_SERVICE", "AGENT"}
  C2Handoff = "C2_HANDOFF"
  WorkTimes = {0, 1, 2}
  NoAdmission <- noAdmission
  MaxGrants = 2
  MaxHandoffs = 1
INVARIANTS VerdictsFitTheRecords ReplayNamesFirstTouched AdmissionsAuthorised
CHECK_DEADLOCK FALSE
