CONSTANTS
  LEAF_N = 2
  INNER_N = 4
  None = None
  NoGroup = None
  Widths = {3, 17}
  old = old
  new = new
  Value <- MCValue
  Key <- MCKeyFar
  MaxLeaf = 60
  Loads <- MCUnsorted
  Sizes = {10, 23, 63}
  Gone <- MCGoneNone
  Budget = 1

SPECIFICATION MCSpec

INVARIANTS
  OrderStatistics
  GroupStatistics
  GroupRankKept

PROPERTIES
  LoadedMap
