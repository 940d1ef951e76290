SPECIFICATION Spec
CONSTANTS
  o1 = o1
  o2 = o2
  noTerms = noTerms
  noOrder = noOrder
  noPlan = noPlan
  noCapture = noCapture
  noOutcome = noOutcome
  noCapacity = noCapacity
  firm = firm
  other = other
  OrderIds = {o1, o2}
  NoTerms <- noTerms
  NoOrder <- noOrder
  NoPlan <- noPlan
  NoCapture <- noCapture
  NoOutcome <- noOutcome
  NoCapacity <- noCapacity
  Firm <- firm
  Participants = {firm, other}
  Terms <- MCTerms
  Plans <- MCPlans
  Prices = {8}
  Facts <- MCFacts
  Starts <- MCStarts
  MaxAllocations = 2
  MaxCaptures = 2
  Unit = 20
  PerCent = 2
  Obligations = {1, 2}
  Days = {2, 3}
  Cycle = 1
  Accrued <- MCAccrued
  Intents <- MCIntents
  Capacity <- MCCapacity
INVARIANTS TypeOK LeadsOneAllocation SharesFair OddCentsSmall NeverDoubted SettlesWhatWasFilled AnswerBinds
CHECK_DEADLOCK FALSE
