CONSTANTS
  LEAF_N = 4
  INNER_N = 4
  None = None
  NoGroup = None
  Widths = {2}
  old = old
  new = new
  Value <- MCValue
  Key <- MCKey
  MaxLeaf = 60
  Loads <- MCLoads
  Sizes = {3, 4}
  Gone <- MCGone
  Budget = 1

SPECIFICATION MCSpec

INVARIANTS
  MaxGroupCounted
