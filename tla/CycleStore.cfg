SPECIFICATION Spec
CONSTANTS
  Objects = {x1, x2, x3}
  Nil = Nil
  Lists = {l1, l2}
  Fields = 1
  MaxLen = 2
  Theta = 3
  KRoots = 2
  Overwrites = FALSE
  FullStores = TRUE
INVARIANTS NoPrematureFree
CHECK_DEADLOCK FALSE
