---------------------------- MODULE LinkAddresses ----------------------------
(***************************************************************************)
(* The addresses of the nodes on one link, in one address family: the      *)
(* policy chosen from the size of the prefix, the type of the link and the *)
(* gateway, and the host number every interface gets.  An address is its   *)
(* offset in the prefix; a negative one counts from the end.  Nodes are    *)
(* numbered in the order of their names.                                   *)
(***************************************************************************)
EXTENDS Integers, Sequences, FiniteSets

CONSTANTS
  Unset,   \* no static address on the interface
  Off     \* no address in this family at all

ASSUME NoAddress == Unset \notin Int /\ Off \notin Int /\ Unset # Off

\* A link is a record of its nodes (a sequence), its type, its gateway (0 for
\* none), its static addresses, the size of its prefix, and the allocation policy
\* its prefix asks for ("" for none).
Count(l) == Len(l.nodes)

NodeIds(l, id) == {id[l.nodes[i]] : i \in 1..Count(l)}

\* net[k] of a prefix: its host number, and whether there is one.
HostNumber(size, k) == IF k < 0 THEN size + k ELSE k

InPrefix(size, k) == -size <= k /\ k < size

\* The hosts left for nodes: all but the first and the last, and in front of a
\* gateway that counts from the end.
Room(l) ==
  IF l.size <= 2 THEN l.size
  ELSE IF l.gateway < -1 THEN l.size + l.gateway - 1
  ELSE l.size - 2

GatewayInFront(l) == IF l.size > 2 /\ l.gateway > 0 THEN 1 ELSE 0

\* get_prefix_IPAM_policy, unless the prefix comes with a policy.
Policy(l, id) ==
  IF l.allocation # "" THEN l.allocation
  ELSE IF l.type = "p2p" /\ l.gateway = 0 THEN IF l.size > 1 THEN "p2p" ELSE "error"
  ELSE IF l.size = 2 /\ Count(l) = 2 THEN "p2p"
  ELSE IF Room(l) = 1 THEN IF Count(l) = 1 THEN "loopback" ELSE "error"
  ELSE IF \A n \in NodeIds(l, id) : n <= Room(l) THEN "id_based"
  ELSE IF Count(l) + GatewayInFront(l) <= Room(l) THEN "sequential"
  ELSE "error"

First(l) == IF l.size > 2 THEN 1 ELSE 0

\* A bug: sequential addresses run over the gateway.
SequentialOverGateway(l, i) == First(l) + i - 1

\* One after the other, in the order of the link, stepping over the gateway.
Sequential(l, i) ==
  LET k == First(l) + i - 1
  IN  IF l.gateway > 0 /\ k >= l.gateway THEN k + 1 ELSE k

\* One after the other, in the order of the names.
PointToPoint(l, i) ==
  First(l) + Cardinality({j \in 1..Count(l) :
    l.nodes[j] < l.nodes[i] \/ (l.nodes[j] = l.nodes[i] /\ j < i)})

\* The host number an interface asks for.
Wanted(l, policy, id, i) ==
  IF policy = "loopback" THEN 0
  ELSE IF l.static[i] # Unset THEN l.static[i]
  ELSE CASE policy = "id_based"   -> id[l.nodes[i]]
         [] policy = "sequential" -> Sequential(l, i)
         [] policy = "p2p"        -> PointToPoint(l, i)

Addressed(l, policy) ==
  IF policy = "error" THEN {}
  ELSE {i \in 1..Count(l) : policy = "loopback" \/ l.static[i] # Off}

\* The address of the gateway; Off if it is not in the prefix.
GatewayHost(l) ==
  IF l.gateway # 0 /\ InPrefix(l.size, l.gateway) THEN HostNumber(l.size, l.gateway) ELSE Off

\* set_fhrp_gateway and assign_interface_addresses: the hosts of the interfaces,
\* Off where there is none.
Hosts(l, id) ==
  LET policy == Policy(l, id)
  IN  [i \in 1..Count(l) |->
         IF i \in Addressed(l, policy) /\ InPrefix(l.size, Wanted(l, policy, id, i))
         THEN HostNumber(l.size, Wanted(l, policy, id, i))
         ELSE Off]

\* An address that check_interface_host_bits refuses.
NoHostBits(l, host) == l.size > 2 /\ host \in {0, l.size - 1}

\* check_duplicate_address, which compares addresses with their prefix lengths.
Duplicate(l, hosts, policy) ==
  \/ \E i, j \in 1..Count(l) : i # j /\ hosts[i] # Off /\ hosts[i] = hosts[j]
  \/ /\ \E i \in 1..Count(l) : hosts[i] # Off /\ hosts[i] = GatewayHost(l)
     /\ policy # "loopback" \/ l.size = 1

\* No error is reported for the link.
Accepted(l, id) ==
  LET policy == Policy(l, id)
      hosts  == Hosts(l, id)
  IN  /\ l.gateway # 0 => GatewayHost(l) # Off
      /\ policy # "error"
      /\ \A i \in Addressed(l, policy) : hosts[i] # Off
      /\ policy = "loopback" \/ \A i \in Addressed(l, policy) : ~NoHostBits(l, hosts[i])
      /\ ~Duplicate(l, hosts, policy)

-----------------------------------------------------------------------------
(* What links promise *)

Usable(size) == IF size > 2 THEN size - 2 ELSE size

\* A link without static addresses, whose prefix has room for its nodes and its
\* gateway, where the gateway is the last host or counts from the start.
Fits(l) ==
  /\ \A i \in 1..Count(l) : l.static[i] = Unset
  /\ \A i, j \in 1..Count(l) : l.nodes[i] = l.nodes[j] => i = j
  /\ l.allocation = ""
  /\ Count(l) + (IF l.gateway # 0 THEN 1 ELSE 0) <= Usable(l.size)
  /\ l.gateway \in {0} \cup 1..(l.size - 2) \/ (l.gateway = -2 /\ l.size > 2)

\* All nodes of a link have a usable address in its prefix, and no other node
\* and no gateway has it.
HasAddresses(l, id) ==
  LET hosts == Hosts(l, id)
  IN  /\ Accepted(l, id)
      /\ \A i \in 1..Count(l) :
           /\ hosts[i] \in 0..(l.size - 1)
           /\ ~NoHostBits(l, hosts[i])
           /\ hosts[i] # GatewayHost(l)
           /\ \A j \in 1..Count(l) : j # i => hosts[j] # hosts[i]
=============================================================================
