SPECIFICATION Spec
CONSTANTS
  p = p
  c1 = c1
  c2 = c2
  terms = terms
  noTerms = noTerms
  noOrder = noOrder
  OrderIds <- MCOrderIds
  Terms <- MCTerms
  NoTerms <- noTerms
  NoOrder <- noOrder
  Quantities = {1, 2}
  MaxChildren = 2
  MaxEvents = 5
  MaxChain = 5
  MaxNotReached = 1
  MaxSealed = 0
INVARIANT SplitConserves
CHECK_DEADLOCK FALSE
SYMMETRY MCSymmetry
