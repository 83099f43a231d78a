----------------------------- MODULE RoutingLab -----------------------------
(***************************************************************************)
(* A lab topology as the routing modules of netlab see it, a record:         *)
(*   order        the nodes, in the order of the lab                         *)
(*   nodes        those with the bgp module, in the same order               *)
(*   links        role, localAs, and intfs: node, addr by address family     *)
(*                ("none", "number", or "true" for unnumbered), bgp (FALSE    *)
(*                for bgp: False), localAs, vrf ("" outside of VRFs)         *)
(*   loopback     the address families of the loopback, {} without one       *)
(* for BGP:                                                                  *)
(*   as, localAs  bgp.as and bgp.local_as of a node, 0 when missing          *)
(*   asList       the members and the rr of an AS in bgp.as_list             *)
(*   rr           bgp.rr of a node: "yes", "no" (False) or "" (missing)      *)
(*   rrList       the nodes in bgp.rr_list                                   *)
(*   noMesh       the nodes with bgp.rr_mesh False                           *)
(*   daemon       the nodes that are routing daemons on a host               *)
(*   features     the bgp features of the device of a node                   *)
(*   sessions     bgp.sessions: the types of sessions for a node and family  *)
(*   noVrfBgp     the nodes whose VRF says bgp: False                        *)
(*   confed       the members of a confederation AS                          *)
(* for the interior protocols (P is one, <<n, v, P>> is its instance in VRF  *)
(* v of node n or, when v is "", in its global routing table):               *)
(*   igps         the interior protocols among the modules of a node, in     *)
(*                their order                                                *)
(*   off          the pairs <<interface, P>> with P: False                   *)
(*   passive      P.passive of such pairs, where it is given                 *)
(*   dhcp         the pairs <<interface, family>> with a DHCP client          *)
(*   af           P.af of instances, where it is given                       *)
(*   vrfIgp       P of a VRF: "force" (True), "off" (False) or "active"       *)
(*                (active: True), where it is given                          *)
(*   vrfLoopback  the pairs <<n, v>> with a loopback                         *)
(*   import       <<n, v, P>> (P may be bgp) to its import, where given      *)
(*   lacks        <<n, P, feature>> for a feature the device has not         *)
(* An interface is named by its link and its position on it.                 *)
(***************************************************************************)
EXTENDS Integers, FiniteSets, SequencesExt

VARIABLE lab        \* the topology

AF == {"ipv4", "ipv6"}
Igps == {"ospf", "isis", "eigrp", "ripv2"}
Nodes == ToSet(lab.nodes)
Intf(l, i) == lab.links[l].intfs[i]
Interfaces == UNION {{<<l, i>> : i \in DOMAIN lab.links[l].intfs} : l \in DOMAIN lab.links}
Own(n) == {p \in Interfaces : Intf(p[1], p[2]).node = n}
\* What a topology is by the time modules see it: nodes and modules are listed
\* once, and nodes without the bgp module have no BGP data.
Kinds == {"none", "number", "true"}
WellFormed(x) ==
  LET names == ToSet(x.order)
      bgp == ToSet(x.nodes)
      LinkOk(link) == /\ link.localAs \in Nat /\ link.role \in STRING /\ DOMAIN link.intfs \subseteq Nat
                      /\ \A i \in DOMAIN link.intfs : /\ link.intfs[i].node \in names /\ link.intfs[i].localAs \in Nat
                                                      /\ link.intfs[i].addr \in [AF -> Kinds]
  IN  /\ x.order \in Seq(DOMAIN x.as) /\ IsInjective(x.order) /\ x.nodes \in Seq(names) /\ IsInjective(x.nodes)
      /\ DOMAIN x.links \subseteq Nat /\ \A l \in DOMAIN x.links : LinkOk(x.links[l])
      /\ x.as \in [DOMAIN x.as -> Nat] /\ x.localAs \in [DOMAIN x.as -> Nat] /\ x.rr \in [DOMAIN x.as -> {"", "yes", "no"}]
      /\ \A n \in DOMAIN x.as \ bgp : x.as[n] = 0 /\ x.localAs[n] = 0
      /\ \A a \in DOMAIN x.asList : a \in Nat \ {0} /\ x.asList[a].members \subseteq bgp
      /\ \A c \in DOMAIN x.confed : {c} \cup x.confed[c] \subseteq Nat \ {0}
      /\ \A n \in names : x.igps[n] \in Seq(Igps) /\ IsInjective(x.igps[n])
=============================================================================
