CONSTANTS
  LEAF_N = 2
  INNER_N = 4
  None = None
  Value = {v}
  Key <- TallKey
  MaxLeaf = 40
  Tall <- TallKeys
  Sparse <- TallSparse
  Budget = 2

SPECIFICATION MCSpec

INVARIANTS
  Filled
  TreeIsChain
  EveryKeyIsFound
  AugmentationExact

PROPERTIES
  ImplementsMap
