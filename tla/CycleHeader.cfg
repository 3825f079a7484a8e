SPECIFICATION Spec
CONSTANTS
  Objects = {x1, x2}
  Nil = Nil
  Lists = {l1}
  Fields = 1
  MaxLen = 2
  Theta = 4
  KRoots = 3
  Overwrites = FALSE
  FullStores = FALSE
INVARIANTS HeaderReadsAreLive
CHECK_DEADLOCK FALSE
