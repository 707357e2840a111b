SPECIFICATION Spec
CONSTANTS
  Jobs = {j1, j2}
  Nodes = {n1, n2}
  Requests = {r1}
  Ops = {"delete", "retry"}
  MaxCrashes = 0
  None = None
  Empty = Empty
  Torn = Torn
PROPERTY ImplementsLifecycle
SYMMETRY Symmetry
CHECK_DEADLOCK FALSE
