SPECIFICATION Spec
CONSTANTS
  a = a
  b = b
  c = c
  initial = initial
  ospf = ospf
  custom = custom
  normalize = normalize
  Node <- MCNode
  Item <- MCItem
  Normalize = normalize
  Delay <- MCDelay
  SshOperations <- MCSshOperations
  Retries <- MCRetries
  SshTimeout <- MCSshTimeout
  HealthTimeout = 2
  NoHost = {c}
  Exempt = {c}
  Internal = {"health", "ssh", "command"}
  Waitlists <- MCWaitlists
  Workers = 1
  Provider <- MCProvider
  Deploy <- MCDeploy
  Templates <- MCTemplates
  Method <- MCMethod
  Normalizes = {a, b}
INVARIANTS
  InTime
  SentInOrder
  Accounted
PROPERTY
  Ends
CHECK_DEADLOCK FALSE
