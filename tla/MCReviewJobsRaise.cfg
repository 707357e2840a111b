SPECIFICATION Spec
CONSTANTS
  Jobs = {j1}
  Nodes = {n1}
  Requests = {r1}
  Ops = {"cancel", "delete"}
  MaxCrashes = 0
  None = None
  Empty = Empty
  Torn = Torn
INVARIANT TaskNeverRaises
CHECK_DEADLOCK FALSE
