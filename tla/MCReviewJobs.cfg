SPECIFICATION Spec
CONSTANTS
  Jobs = {j1}
  Nodes = {n1, n2}
  Requests = {r1, r2}
  Ops = {"cancel", "delete"}
  MaxCrashes = 0
  None = None
  Empty = Empty
  Torn = Torn
INVARIANTS TypeOK ErrorMatchesStatus QueuedMeansNotStarted ReturnedJobIsNotActive NodesAgreeWithEvents EventsInOrder IInv
SYMMETRY Symmetry
CHECK_DEADLOCK FALSE
