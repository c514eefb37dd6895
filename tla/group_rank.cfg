CONSTANTS
  LEAF_N = 2
  INNER_N = 4
  None = None
  NoGroup = None
  Widths = {100}
  old = old
  new = new
  Value <- MCValue
  Key <- MCKeyFar
  MaxLeaf = 60
  Loads <- MCLoads
  Sizes = {10, 23}
  Gone <- MCGoneNone
  Budget = 0

SPECIFICATION MCSpec

INVARIANTS
  GroupRankExact
