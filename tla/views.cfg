CONSTANTS
  LEAF_N = 2
  INNER_N = 4
  None = None
  NoItem = None
  old = old
  new = new
  Value <- MCValue
  Key <- MCKey
  MaxLeaf = 12
  Loads <- MCLoads
  Sizes <- MCSizes
  Asked <- MCAsked
  Views = {"cursor", "iter", "into", "readers", "union"}
  Budget <- MCBudget
  Reader = {t1, t2}
  UnionKey = {1, 2, 3, 4}

SPECIFICATION MCSpec

INVARIANTS
  CursorIsItsKey
  IterInOrder
  MovedOutOnce
  ReadersSeeTheMap
  UnionInOrder
  SizeHintBounds

PROPERTIES
  IntoIterReturns
  EveryReaderReturns
