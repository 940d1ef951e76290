SPECIFICATION Spec
CONSTANTS
  o1 = o1
  o2 = o2
  noTerms = noTerms
  noOrder = noOrder
  locate = locate
  noLocate = noLocate
  halt = halt
  noScope = noScope
  noCap = noCap
  noExpiry = noExpiry
  OrderIds = {o1, o2}
  Terms <- MCControlTerms
  NoTerms <- noTerms
  NoOrder <- noOrder
  Limits <- MCControlLimits
  BuyingPower <- MCBuyingPower
  Position <- MCPosition
  ReferencePrice <- MCReferencePrice
  Locates = {locate}
  LocateTerms <- MCLocateTerms
  NoLocate <- noLocate
  HaltIds = {halt}
  HaltScopes <- MCHaltScopes
  NoScope <- noScope
  FillQuantities = {1}
  FillPrices = {2}
  NoCap <- noCap
  NoExpiry <- noExpiry
  Quantities = {2}
  Policy <- MCPolicy
  MaxTime = 2
SYMMETRY MCSymmetry
INVARIANTS TypeOK HaltedScopeInert TradesOnGatedTerms PendingPassesValid ExposureWithinLimits NoDuplicateRelease ShortSalesCovered
CHECK_DEADLOCK FALSE
