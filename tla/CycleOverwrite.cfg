SPECIFICATION Spec
CONSTANTS
  Objects = {x1, x2}
  Nil = Nil
  Lists = {l1, l2}
  Fields = 1
  MaxLen = 2
  Theta = 4
  KRoots = 3
  Overwrites = TRUE
  FullStores = FALSE
INVARIANTS NoPrematureFree
CHECK_DEADLOCK FALSE
