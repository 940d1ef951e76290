SPECIFICATION Spec
CONSTANTS
  o1 = o1
  o2 = o2
  noTerms = noTerms
  noOrder = noOrder
  locate = locate
  noLocate = noLocate
  halt = halt
  noScope = noScope
  noCap = noCap
  noExpiry = noExpiry
  OrderIds = {o1}
  Terms <- MCFillTerms
  NoTerms <- noTerms
  NoOrder <- noOrder
  Limits <- MCFillLimits
  BuyingPower <- MCFillPower
  Position <- MCFillPosition
  ReferencePrice <- MCReferencePrice
  Locates = {}
  LocateTerms <- MCLocateTerms
  NoLocate <- noLocate
  HaltIds = {}
  HaltScopes <- MCHaltScopes
  NoScope <- noScope
  FillQuantities = {1, 2, 3}
  FillPrices = {2, 3}
  NoCap <- noCap
  NoExpiry <- noExpiry
  Quantities = {2, 3}
  Policy <- MCFillPolicy
  MaxTime = 2
PROPERTIES FillsHonourTerms KeepsPromise
CHECK_DEADLOCK FALSE
