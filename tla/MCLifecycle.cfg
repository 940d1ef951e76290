SPECIFICATION Spec
CONSTANTS
  p = p
  c1 = c1
  c2 = c2
  terms = terms
  noTerms = noTerms
  noOrder = noOrder
  OrderIds <- MCOrderIds
  Terms <- MCTerms
  NoTerms <- noTerms
  NoOrder <- noOrder
  Quantities = {1, 2}
  MaxChildren = 2
  MaxEvents = 5
  MaxChain = 11
  MaxNotReached = 1
  MaxSealed = 1
SYMMETRY MCSymmetry
INVARIANTS TypeOK OneChain GatePrecedesFill HandedInOrder
PROPERTY KeepsPromise
CHECK_DEADLOCK FALSE
