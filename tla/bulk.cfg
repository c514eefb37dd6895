CONSTANTS
  LEAF_N = 4
  INNER_N = 8
  None = None
  NoGroup = None
  Widths = {}
  old = old
  new = new
  Value <- MCValue
  Key <- MCKey
  MaxLeaf = 60
  Loads <- MCLoads
  Sizes = {16, 41, 44}
  Gone <- MCGone
  Budget = 1

SPECIFICATION MCSpec

INVARIANTS
  SiblingAtHand
  EveryKeyIsFound

PROPERTIES
  LoadedMap
  EveryCallReturns
