CONSTANTS
  Labs <- MCLabs
SPECIFICATION RoutingSpec
INVARIANTS
  SessionsAgree
  RoutesReach
  ExternalLinks
  AdjacenciesMeet
  ImportsResolve
CHECK_DEADLOCK FALSE
