CONSTANTS
  Vlan <- MCVlan
  Topologies <- Labs
  StartId = 1
  MaxId = 3
SPECIFICATION Spec
INVARIANTS
  OneSubnet
  NeighborsMatch
  TagsMeet
CHECK_DEADLOCK FALSE
