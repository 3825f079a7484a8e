SPECIFICATION Spec
CONSTANTS
  Main = main
  Workers = {w1}
  Classes = {c1}
  Spans = 1
  SpanBlocks = 3
  Window = 2
  Batch = 1
  MainFirst = FALSE
INVARIANTS NeverToLibc
