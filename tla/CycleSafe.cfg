SPECIFICATION Spec
CONSTANTS
  Objects = {x1, x2, x3}
  Nil = Nil
  Lists = {l1, l2}
  Fields = 2
  MaxLen = 1
  Theta = 3
  KRoots = 2
  Overwrites = FALSE
  FullStores = FALSE
SYMMETRY Perms
INVARIANTS NoPrematureFree CountsCoverEdges ColoursSettle BufferIsExact FreedOnce CyclesReclaimed
CHECK_DEADLOCK FALSE
