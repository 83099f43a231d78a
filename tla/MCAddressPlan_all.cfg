SPECIFICATION Spec
CONSTANTS
  loopback = loopback
  lan = lan
  vlan = vlan
  Unset = Unset
  Off = Off
  None = None
  NumNodes = 3
  NumLinks = 1
  MaxId = 7
  Pools <- MCPools
  Others <- MCOthers
  Capacity <- MCCapacity
  SubnetSize <- MCSubnetSize
  StaticIds <- MCStaticIds
  GatewayIds <- MCGatewayIds
  OtherGateways <- MCOtherGateways
  StaticSizes <- MCStaticSizes
  StaticHosts <- MCStaticHosts
  Attachments <- MCAttachments
  Allocations <- MCAllocations
INVARIANTS
  IdsAreUnique
  SubnetsAreUnique
  LoopbackFollowsId
  SharedPrefixesDo
CHECK_DEADLOCK FALSE
