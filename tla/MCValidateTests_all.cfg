SPECIFICATION Spec
CONSTANTS
  a = a
  b = b
  Node = {a, b}
  Suites <- MCSuites
  Delay = 1
  Never <- MCNever
INVARIANTS
  SummaryIsTheResults
  FailuresShow
  LastChance
PROPERTY
  Ends
CHECK_DEADLOCK FALSE
