SPECIFICATION Spec
CONSTANTS
  c1 = c1
  c2 = c2
  m1 = m1
  m2 = m2
  m3 = m3
  m4 = m4
  p1 = p1
  p2 = p2
  n1 = n1
  n2 = n2
  Calls = {c1, c2}
  ConfigFiles <- MCConfigFiles
  ModelIds <- MCModelIds
  Prompt <- MCPrompt
  ModelArg <- MCModelArg
  Reporting = {p1}
  Priced = {m1}
  TimelineLimit = 2
  None = None
INVARIANTS
  TypeOK
  PolicyBoundsAttempts
  LoggedActionIsTaken
  FatalIsFinal
  RaisesOnlyWhenExhausted
  UsageStaysWithProvider
  UsageIsOwnWhenAlone
  ErrorRefsResolve
  RoutedCallsAreTried
  SummaryAddsUp
PROPERTY CallsEnd
