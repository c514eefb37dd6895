CONSTANTS
  LEAF_N = 2
  INNER_N = 4
  None = None
  v = v
  Value <- MCValue
  Key <- MCKey
  MaxLeaf = 7

SPECIFICATION MCSpec

INVARIANTS
  IInv
  Balanced
  TreeShaped
  SiblingAtHand
  KeysRouted
