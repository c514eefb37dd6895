CONSTANTS
  LEAF_N = 8
  INNER_N = 8
  None = None
  Value = {v}
  Key <- WideKey
  MaxLeaf = 40
  Tall <- WideKeys
  Sparse <- WideSparse
  Budget = 1

SPECIFICATION MCSpec

INVARIANTS
  NoOverflow
  Filled
  OrderStatistics
