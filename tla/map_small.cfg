CONSTANTS
  LEAF_N = 2
  INNER_N = 4
  None = None
  Value = {v, w}
  Key <- MCKeyFew
  MaxLeaf = 4

SPECIFICATION Spec

PROPERTIES
  ImplementsMap
  EveryCallReturns
