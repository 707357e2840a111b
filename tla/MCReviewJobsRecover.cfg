SPECIFICATION FairSpec
CONSTANTS
  Jobs = {j1}
  Nodes = {n1}
  Requests = {r1, r2}
  Ops = {"cancel", "delete"}
  MaxCrashes = 1
  None = None
  Empty = Empty
  Torn = Torn
INVARIANT SuccessHasArtifacts
PROPERTIES JobsSettle AbandonedJobCanBeCanceled
CHECK_DEADLOCK FALSE
