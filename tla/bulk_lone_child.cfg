CONSTANTS
  LEAF_N = 2
  INNER_N = 4
  None = None
  NoGroup = None
  Widths = {}
  old = old
  new = new
  Value <- MCValue
  Key <- MCKey
  MaxLeaf = 60
  Loads <- MCLoads
  Sizes = {0, 1, 3, 10, 11, 14, 23}
  Gone <- MCGoneNone
  Budget = 1

SPECIFICATION MCSpec

INVARIANTS
  SiblingAtHand
