---------------------------- MODULE MCAddressPlan ----------------------------
(***************************************************************************)
(* Three nodes and one link.  The loopback pool has three subnets of one   *)
(* address, the LAN pool two subnets of eight; static prefixes have two    *)
(* and four addresses.  Identifier 7 does not fit into any of them, and    *)
(* the VLANs may reserve so many identifiers that the nodes run out.       *)
(***************************************************************************)
EXTENDS AddressPlan

CONSTANTS loopback, lan, vlan

MCPools == {loopback, lan}
MCOthers == {vlan}
MCCapacity == [p \in Pools |-> IF p = loopback THEN 3 ELSE 2]
MCSubnetSize == [p \in Pools |-> IF p = loopback THEN 1 ELSE 8]
MCStaticIds == {0, 2, 7}
MCGatewayIds == {0, 1, 2, -2}
MCOtherGateways == {{}, {-2, 1, 3, 4, 5, 6}}
MCStaticSizes == {2, 4}
MCStaticHosts == {Unset, Off, 2}
MCAttachments == {<<1>>, <<2, 1>>, <<1, 2, 3>>}
MCAllocations == {"", "id_based"}
=============================================================================
