CONSTANTS
  LEAF_N = 2
  INNER_N = 4
  None = None
  Value = {v}
  Key <- MCKey
  MaxLeaf = 5

SPECIFICATION Spec

INVARIANTS
  TypeOK
  IInv
  ChainOrdered
  CacheSound
  OrderStatistics
  LeafChain
