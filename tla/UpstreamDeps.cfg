SPECIFICATION Spec
CONSTANTS
  a = a
  b = b
  c = c
  d = d
  e = e
  Nodes = {a, b, c, d, e}
  target = a
  MaxDepth = 3
  Start <- CyclicStart
  Later <- LaterEdges
INVARIANTS OnlyCallers NoDuplicates AllCallers DepthCovered
PROPERTY SearchEnds
\* The search ends.
CHECK_DEADLOCK FALSE
