SPECIFICATION Spec
CONSTANTS
  Jobs = {j1}
  Nodes = {n1}
  Requests = {r1}
  Ops = {"cancel"}
  MaxCrashes = 0
  None = None
  Empty = Empty
  Torn = Torn
PROPERTY CanceledJobStartsNoNode
CHECK_DEADLOCK FALSE
