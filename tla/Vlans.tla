--------------------------------- MODULE Vlans ---------------------------------
(***************************************************************************)
(* VLANs of a lab topology, from the attributes a user writes to the        *)
(* interfaces of the devices: the hooks of netsim/modules/vlan.py in the    *)
(* order of augment/main.py, with what augment/links.py does between them.  *)
(*                                                                          *)
(* A VLAN link becomes interfaces with an access VLAN, a trunk also a link   *)
(* per VLAN (a VLAN member).  Then every node turns its interfaces into      *)
(* VLAN interfaces (SVI), ports and subinterfaces, one node after the other, *)
(* while the lists of neighbors it shares with the others are rebuilt.       *)
(*                                                                          *)
(* A prefix is named by its owner, and an address is that prefix: a node has *)
(* one address in a VLAN.  One address family, attributes of other modules,  *)
(* static addresses and gateways, and MTUs are left out.                     *)
(***************************************************************************)
EXTENDS VlanAttributes, TLC

CONSTANTS StartId, MaxId      \* defaults.vlan.start_vlan_id, and the last id a VLAN may get

ASSUME IdsAssumption == StartId \in Nat /\ MaxId \in Nat /\ StartId > 0

VARIABLES
  topo,       \* the lab topology
  stage,      \* the hook that runs next
  k,          \* the node or the link it runs for
  gvlans,     \* topology.vlans
  nvlans,     \* node.vlans
  ids,        \* the set of VLAN ids in use
  links,      \* topology.links
  intfs,      \* node.interfaces
  ngb,        \* the neighbors in the data of VLANs, of the topology and of nodes
  failed      \* an error was reported

vars == <<topo, stage, k, gvlans, nvlans, ids, links, intfs, ngb, failed>>

Nodes == ToSet(topo.nodes)
NoPrefix == <<>>
L2Only == <<"none">>          \* the prefix {} of a trunk: no addresses
Topology == "topology"
Loopback == -1                \* parentindex 'loopback'

VlanData == [mode : Modes \cup {""}, id : 0..MaxId, prefix : {NoPrefix} \cup ({Topology} \cup Nodes) \X ToSet(Vlan), group : 0..Len(Vlan)]
Unset(v) == [mode |-> v.mode, id |-> v.id, prefix |-> NoPrefix, group |-> 0]

Init ==
  /\ topo \in Topologies
  /\ stage = "global" /\ k = 1
  /\ gvlans = [v \in DOMAIN topo.gvlans |-> Unset(topo.gvlans[v])]
  /\ nvlans = [n \in Nodes |-> [v \in DOMAIN topo.nvlans[n] |-> Unset(topo.nvlans[n][v])]]
  /\ ids = {}
  /\ links = [i \in DOMAIN topo.links |->
       [vlan |-> topo.links[i].vlan, index |-> i, parent |-> 0, member |-> FALSE, vname |-> "", prefix |-> NoPrefix,
        intfs |-> [j \in DOMAIN topo.links[i].intfs |->
          [node |-> topo.links[i].intfs[j].node, vlan |-> topo.links[i].intfs[j].vlan, vmode |-> "", noip |-> FALSE]]]]
  /\ intfs = [n \in Nodes |-> <<>>]
  /\ ngb = [o \in {Topology} \cup Nodes, v \in ToSet(Vlan) |-> <<>>]
  /\ failed = FALSE

\* The next hook: for the next of the n nodes or links, or the first hook of
\* the next stage.
Step(n, next) == IF k < n THEN stage' = stage /\ k' = k + 1 ELSE stage' = next /\ k' = 1

\* log.exit_on_error.
Check(n, next) == Step(n, IF failed' THEN "aborted" ELSE next)

-----------------------------------------------------------------------------
(* module_pre_transform and node_pre_transform                              *)

InOrder(vlans) == SelectSeq(Vlan, LAMBDA v : v \in DOMAIN vlans)

\* get_next_id: the first id that is not in use, 0 when there is none.
NextId(used) == LET free == (StartId..MaxId) \ used IN IF free = {} THEN 0 ELSE Min(free)

\* validate_vlan_attributes: identifiers and prefixes of the VLANs of an owner.
\* The set of used ids and the VLANs; an id of 0 ends the transformation.
Complete(owner, vlans, used, defmode) ==
  LET Id(d, acc) == IF d.id # 0 THEN d.id ELSE NextId(acc.used)
      NeedsPrefix(d) == (IF d.mode # "" THEN d.mode ELSE defmode) # "route" \/ (topo.mixed /\ owner = Topology)
      One1(acc, v) ==
        LET d == acc.vlans[v]
        IN  [used  |-> acc.used \cup {Id(d, acc)},
             vlans |-> [acc.vlans EXCEPT ![v].id = Id(d, acc),
                                         ![v].prefix = IF NeedsPrefix(d) /\ @ = NoPrefix THEN <<owner, v>> ELSE @]]
  IN  FoldLeft(One1, [used |-> used, vlans |-> vlans], InOrder(vlans))

IdsGiven(vlans) == {vlans[v].id : v \in DOMAIN vlans}
IdsOf(vlans) == IdsGiven(vlans) \ {0}

\* module_pre_transform: all ids that were given, then the global VLANs.
ModulePreTransform ==
  LET given == IdsOf(gvlans) \cup UNION {IdsOf(nvlans[n]) : n \in Nodes}
      done == Complete(Topology, gvlans, given, Or(<<topo.gmode>>))
  IN  /\ stage = "global"
      /\ gvlans' = done.vlans /\ ids' = done.used
      /\ failed' = (0 \in ids')
      /\ IF failed' THEN stage' = "aborted" /\ k' = 1 ELSE Step(1, "nodes")
      /\ UNCHANGED <<topo, nvlans, links, intfs, ngb>>

\* A VLAN of a node takes what it does not say from the global VLAN; a routed
\* VLAN has no prefix.
NodeVlan(n, v) ==
  LET own == nvlans[n][v]
      mode == NodeVlanMode(topo, n, own.mode, gvlans, v)
  IN  IF v \notin DOMAIN gvlans THEN [own EXCEPT !.mode = mode]
      ELSE [own EXCEPT !.mode = mode, !.id = IF @ # 0 THEN @ ELSE gvlans[v].id,
                       !.prefix = IF mode = "route" THEN NoPrefix ELSE gvlans[v].prefix]

\* validate_global_node_match: a node may not give a global VLAN another id.
Mismatch(n, v) == v \in DOMAIN gvlans /\ nvlans[n][v].id \notin {0, gvlans[v].id}

NodePreTransform ==
  LET n == topo.nodes[k]
      done == Complete(n, [v \in DOMAIN nvlans[n] |-> NodeVlan(n, v)], ids, "irb")
  IN  /\ stage = "nodes"
      /\ IF Aware(topo, n)
         THEN /\ nvlans' = [nvlans EXCEPT ![n] = done.vlans]
              /\ ids' = done.used
              /\ failed' = (failed \/ \E v \in DOMAIN nvlans[n] : Mismatch(n, v))
         ELSE UNCHANGED <<nvlans, ids, failed>>
      /\ IF 0 \in ids' THEN stage' = "aborted" /\ k' = 1 ELSE Step(Len(topo.nodes), "links")
      /\ UNCHANGED <<topo, gvlans, links, intfs, ngb>>

-----------------------------------------------------------------------------
(* link_pre_transform                                                       *)

NextLinkIndex == IF links = <<>> THEN 1 ELSE links[Len(links)].index + 1

\* create_vlan_member_interface: the interface of a node on the link of VLAN v.
MemberInterface(v, parent) ==
  LET attr == [NoVlan EXCEPT !.access = v, !.mode = parent.vlan.mode]
      mode == InterfaceMode(topo, parent.node, attr, nvlans, gvlans)
  IN  [node |-> parent.node, vlan |-> attr, vmode |-> mode, noip |-> mode = "bridge"]

SetMode(intf) == IF intf.vlan = NoVlan THEN intf ELSE [intf EXCEPT !.vlan.mode = "route"]

\* The prefix of a VLAN member: of the global VLAN, or else of the first node
\* that does more than bridge it.
MemberPrefix(v, members) ==
  LET local == {i \in DOMAIN members : /\ v \in DOMAIN nvlans[members[i].node]
                                       /\ members[i].vmode # "bridge"
                                       /\ nvlans[members[i].node][v].prefix # NoPrefix}
  IN  IF v \in DOMAIN gvlans /\ gvlans[v].prefix # NoPrefix THEN gvlans[v].prefix
      ELSE IF local = {} THEN NoPrefix ELSE nvlans[members[Min(local)].node][v].prefix

\* create_vlan_links: one link for VLAN v of a trunk.  A VLAN all nodes route
\* has no prefix of its own.
MemberLink(link, v, index) ==
  LET parents == SelectSeq(link.intfs, LAMBDA f : v \in f.vlan.trunk)
      members == [i \in DOMAIN parents |-> MemberInterface(v, parents[i])]
      base == [vlan |-> [NoVlan EXCEPT !.access = v], index |-> index, parent |-> link.index, member |-> TRUE, vname |-> v]
  IN  IF Routed(members)
      THEN base @@ [prefix |-> NoPrefix, intfs |-> [i \in DOMAIN members |-> SetMode(members[i])]]
      ELSE base @@ [prefix |-> MemberPrefix(v, members), intfs |-> members]

MemberLinks(link) ==
  LET names == SelectSeq(Vlan, LAMBDA v : v \in Trunk(link) \ {FirstNative(link)})
  IN  [i \in DOMAIN names |-> MemberLink(link, names[i], NextLinkIndex + i - 1)]

\* The attributes of the link in its interfaces, for nodes with the module.
Merged(link) ==
  [link EXCEPT !.intfs = [i \in DOMAIN @ |->
     [@[i] EXCEPT !.vlan = IF Aware(topo, link.intfs[i].node) THEN Merge(link.vlan, @) ELSE @,
                  !.noip = OutsideNative(link, link.intfs[i])]]]

\* set_access_vlan_interface_mode, and no addresses where a VLAN is bridged.
WithModes(link) ==
  [link EXCEPT !.intfs = [i \in DOMAIN @ |->
     LET f == @[i]
         mode == IF f.vlan = NoVlan THEN "" ELSE InterfaceMode(topo, f.node, f.vlan, nvlans, gvlans)
     IN  [f EXCEPT !.vmode = mode, !.noip = @ \/ mode = "bridge"]]]

\* set_link_vlan_prefix, copy_vlan_attributes: the link takes name and prefix
\* of its VLAN v from the topology, or from a node that uses a VLAN of its own.
FromVlan(link, v, owner) ==
  LET data == IF v \in DOMAIN gvlans THEN gvlans ELSE nvlans[owner]
  IN  [link EXCEPT !.vname = v, !.prefix = IF v \in DOMAIN data THEN data[v].prefix ELSE NoPrefix]

\* The link after the transformation, for the VLAN v taken for it and a node
\* that has it.
Transformed(link, v, owner) ==
  LET l == WithModes(link)
  IN  IF v = "" THEN IF Trunk(link) = {} THEN link ELSE [link EXCEPT !.prefix = L2Only]
      ELSE IF Routed(l.intfs) THEN [l EXCEPT !.intfs = [i \in DOMAIN @ |-> SetMode(@[i])], !.vlan.mode = "route"]
      ELSE FromVlan(l, v, owner)

\* The nodes whose VLAN a link may take: a missing VLAN appears in the node.
Owners(link, v) ==
  IF v = "" \/ v \in DOMAIN gvlans THEN {Topology}
  ELSE NodeSet(link, gvlans)
EmptyVlan == [mode |-> "", id |-> 0, prefix |-> NoPrefix, group |-> 0]

LinkPreTransform ==
  /\ stage = "links" /\ k <= Len(links)
  /\ LET link == links[k]
         merged == Merged(link)
         usable == Defined(link, gvlans, nvlans) /\ Sensible(link, gvlans)
         valid == Trunk(link) = {} \/ ValidTrunk(merged)
     IN  IF link.member \/ ~(\E i \in DOMAIN link.intfs : Aware(topo, link.intfs[i].node))
         THEN UNCHANGED <<links, nvlans, failed>>
         ELSE IF ~usable \/ ~valid
         THEN failed' = TRUE /\ UNCHANGED <<links, nvlans>>
         ELSE /\ failed' = (failed \/ NativeErrors(link))
              /\ \E v \in IF LinkVlans(link) = {} THEN {""} ELSE LinkVlans(link) : \E owner \in Owners(link, v) :
                   /\ links' = [links EXCEPT ![k] = Transformed(merged, v, owner)] \o MemberLinks(merged)
                   /\ nvlans' = IF owner = Topology \/ Routed(WithModes(merged).intfs) THEN nvlans
                                ELSE [nvlans EXCEPT ![owner] = @ @@ (v :> EmptyVlan)]
  /\ Check(Len(links'), "loopbacks")
  /\ UNCHANGED <<topo, gvlans, ids, intfs, ngb>>

-----------------------------------------------------------------------------
(* Before and during the transformation of links                            *)

\* create_loopback_vlan_links: a link with one node for every VLAN of a node
\* that no interface of it uses, when it routes and bridges that VLAN.  Only
\* the prefix of a global VLAN is copied.
Attached(n, v) == \E i \in DOMAIN links : links[i].vname = v /\ \E j \in DOMAIN links[i].intfs : links[i].intfs[j].node = n
LoopbackLink(n, v, index) ==
  [vlan |-> [NoVlan EXCEPT !.access = v], index |-> index, parent |-> Loopback, member |-> TRUE, vname |-> v,
   prefix |-> IF v \in DOMAIN gvlans THEN gvlans[v].prefix ELSE NoPrefix,
   intfs |-> <<MemberInterface(v, [node |-> n, vlan |-> NoVlan])>>]
CreateLoopbackVlanLinks ==
  LET Missing(n) == SelectSeq(InOrder(nvlans[n]), LAMBDA v : ~Attached(n, v))
      Needed(n) == SelectSeq(Missing(n), LAMBDA v : MemberInterface(v, [node |-> n, vlan |-> NoVlan]).vmode = "irb")
      pairs == FlattenSeq([i \in DOMAIN topo.nodes |->
                 [j \in DOMAIN Needed(topo.nodes[i]) |-> <<topo.nodes[i], Needed(topo.nodes[i])[j]>>]])
  IN  /\ stage = "loopbacks"
      /\ links' = links \o [i \in DOMAIN pairs |-> LoopbackLink(pairs[i][1], pairs[i][2], NextLinkIndex + i - 1)]
      /\ Step(1, "check")
      /\ UNCHANGED <<topo, gvlans, nvlans, ids, intfs, ngb, failed>>

\* link_pre_link_transform, check_link_interface_attributes: nobody bridges a
\* global VLAN that is routed.
BridgesRouted(link) ==
  /\ ~topo.mixed /\ link.vname \in DOMAIN gvlans /\ gvlans[link.vname].mode = "route"
  /\ \E i \in DOMAIN link.intfs : link.intfs[i].vlan.access # "" /\ link.intfs[i].vmode \in {"bridge", "irb"}

LinkPreLinkTransform ==
  /\ stage = "check"
  /\ failed' = (failed \/ BridgesRouted(links[k]))
  /\ Check(Len(links), "transform")
  /\ UNCHANGED <<topo, gvlans, nvlans, ids, links, intfs, ngb>>

\* links.transform: addresses from the prefix of the link, or from a new one
\* (assign_interface_addresses), and an interface for every node.
Address(link, f) ==
  IF f.noip \/ link.prefix = L2Only THEN NoPrefix
  ELSE IF link.prefix = NoPrefix THEN <<"link", link.index>> ELSE link.prefix
EthName(n) == <<"eth", Len(intfs[n]) + 1>>
Neighbor(n, name, addr) == [node |-> n, name |-> name, addr |-> addr]
OnLink(link, i) ==
  LET f == link.intfs[i]
      others == SelectSeq(link.intfs, LAMBDA o : o.node # f.node)
  IN  [idx |-> Len(intfs[f.node]) + 1, type |-> IF link.member THEN "vlan_member" ELSE "lan",
       link |-> link.index, parent |-> link.parent, vlan |-> f.vlan, vmode |-> f.vmode, vname |-> link.vname,
       addr |-> Address(link, f), name |-> EthName(f.node),
       neighbors |-> [j \in DOMAIN others |-> Neighbor(others[j].node, EthName(others[j].node), Address(link, others[j]))],
       aid |-> 0, tid |-> {}, of |-> "", pidx |-> 0, subs |-> 0, routed |-> FALSE, vnative |-> "", saved |-> <<>>]

CreateNodeInterfaces ==
  LET link == links[k]
      At(n) == SelectInSeq(link.intfs, LAMBDA f : f.node = n)
  IN  /\ stage = "transform"
      /\ intfs' = [n \in Nodes |-> IF At(n) = 0 THEN intfs[n] ELSE Append(intfs[n], OnLink(link, At(n)))]
      /\ Step(Len(links), "post")
      /\ UNCHANGED <<topo, gvlans, nvlans, ids, links, ngb, failed>>

-----------------------------------------------------------------------------
(* module_post_link_transform: every node in turn.  The work of a node is a  *)
(* record of its VLANs, all interfaces, the lists of neighbors, and whether  *)
(* there was an error.                                                      *)

\* get_vlan_data: the global VLAN, that of the node, or of the first neighbor
\* that has one; the owner, or "".
VlanOwner(vlans, v, n, neighbors) ==
  LET i == SelectInSeq(neighbors, LAMBDA b : v \in DOMAIN vlans[b.node])
  IN  IF v \in DOMAIN gvlans THEN Topology
      ELSE IF v \in DOMAIN vlans[n] THEN n
      ELSE IF i # 0 THEN neighbors[i].node ELSE ""

\* update_vlan_neighbor_list: the neighbors of an interface whose nodes are not
\* yet in the list of the VLAN, and the interface of the node itself in place
\* of what the list had of it.
UpdateNeighbors(w, v, n, neighbors, own) ==
  LET owner == VlanOwner(w.vlans, v, n, neighbors)
      known == w.ngb[owner, v]
      IsKnown(m) == \E i \in DOMAIN known : known[i].node = m
      all == known \o SelectSeq(neighbors, LAMBDA b : ~IsKnown(b.node))
  IN  IF owner = "" THEN w
      ELSE [w EXCEPT !.ngb[owner, v] =
             Append(IF IsKnown(n) THEN SelectSeq(all, LAMBDA b : b.node # n) ELSE all, own)]

\* populate_node_vlan: a VLAN of the node with what the global VLAN adds.
Populated(n, vlans, v) ==
  LET own == IF v \in DOMAIN vlans THEN vlans[v] ELSE EmptyVlan
      inherited == IF v \in DOMAIN gvlans THEN gvlans[v] ELSE EmptyVlan
  IN  (v :> [own EXCEPT !.mode = NodeVlanMode(topo, n, @, gvlans, v),
                        !.id = IF @ # 0 THEN @ ELSE inherited.id,
                        !.prefix = IF @ # NoPrefix THEN @ ELSE inherited.prefix]) @@ vlans

\* create_node_vlan: and the number of its bridge group.
CreateNodeVlan(n, vlans, v) ==
  LET all == Populated(n, vlans, v)
      next == Max({0} \cup {all[x].group : x \in DOMAIN all}) + 1
  IN  [all EXCEPT ![v].group = IF @ = 0 THEN next ELSE @]

PopulateNodeVlanData(n, w) ==
  [w EXCEPT !.vlans[n] = FoldLeft(LAMBDA vlans, v : Populated(n, vlans, v), @, InOrder(@))]

\* An interface that routes its VLAN is a plain interface again, and a VLAN
\* member remembers its VLAN.
RoutedInterface(f, v, id) ==
  LET g == [f EXCEPT !.vlan.access = "", !.vlan.native = ""]
  IN  IF f.type = "vlan_member" THEN [g EXCEPT !.vlan.mode = "route", !.aid = id, !.of = v]
      ELSE [g EXCEPT !.vnative = f.vlan.native]

\* The VLAN interface of a node takes its address from the first port.
Svi(f, v, d, fs) ==
  [f EXCEPT !.type = "svi", !.idx = 40000 + SelectLastInSeq(fs, LAMBDA g : g.type = "svi"), !.link = 0, !.parent = 0,
            !.vlan = NoVlan, !.vmode = "", !.addr = IF d.mode # "bridge" THEN @ ELSE NoPrefix,
            !.name = <<"svi", d.id>>, !.neighbors = <<>>, !.of = v]

\* A port keeps the VLAN and its id; its neighbors are restored at the end.
Port(f, id) == [f EXCEPT !.vname = "", !.vmode = "", !.addr = NoPrefix, !.neighbors = <<>>, !.saved = f.neighbors, !.aid = id]

\* create_svi_interfaces, for the interface i of node n.
SviStep(n, w, i) ==
  LET fs == w.intfs[n]
      f == fs[i]
      v == IF f.vlan.access # "" THEN f.vlan.access ELSE f.vlan.native
      vlans == CreateNodeVlan(n, w.vlans[n], v)
      svi == SelectInSeq(fs, LAMBDA g : g.type = "svi" /\ g.of = v)
      more == IF svi = 0 THEN Append(fs, Svi(f, v, vlans[v], fs)) ELSE fs
      own == more[IF svi = 0 THEN Len(more) ELSE svi]
  IN  IF v = "" THEN w
      ELSE IF f.vmode = "route"
      THEN [w EXCEPT !.vlans[n] = vlans, !.intfs[n][i] = RoutedInterface(f, v, vlans[v].id)]
      ELSE UpdateNeighbors([w EXCEPT !.vlans[n] = vlans, !.intfs[n] = [more EXCEPT ![i] = Port(f, vlans[v].id)]],
                           v, n, f.neighbors, Neighbor(n, own.name, own.addr))

CreateSviInterfaces(n, w) ==
  FoldLeft(LAMBDA x, i : SviStep(n, x, i), w, [i \in DOMAIN w.intfs[n] |-> i])

\* map_trunk_vlans: the ids of a trunk; a VLAN the node does not have is an
\* internal error.
MapTrunkVlans(n, w) ==
  LET Known(f) == f.vlan.trunk \cap DOMAIN w.vlans[n]
  IN  [w EXCEPT !.intfs[n] = [i \in DOMAIN @ |-> [@[i] EXCEPT !.tid = {w.vlans[n][v].id : v \in Known(w.intfs[n][i])}]],
                !.bad = @ \/ \E i \in DOMAIN w.intfs[n] : Known(w.intfs[n][i]) # w.intfs[n][i].vlan.trunk]

\* remove_vlan_from_trunk.
WithoutVlan(f, id) ==
  IF id \notin f.tid THEN f
  ELSE [f EXCEPT !.tid = @ \ {id}, !.vlan.trunk = IF f.tid = {id} THEN {} ELSE @]

\* A bug: the new name is not told to the neighbors.
RenameNothing(all, neighbors, n, old, new) == all

\* rename_neighbor_interface, in all nodes of a list of neighbors.
RenameNeighbor(all, neighbors, n, old, new) ==
  LET Renamed(b) == IF b.node = n /\ b.name = old THEN [b EXCEPT !.name = new] ELSE b
      peers == {neighbors[j].node : j \in DOMAIN neighbors}
  IN  [m \in DOMAIN all |-> IF m \notin peers THEN all[m]
        ELSE [i \in DOMAIN all[m] |-> [all[m][i] EXCEPT !.neighbors = [j \in DOMAIN @ |-> Renamed(@[j])]]]]

\* rename_vlan_subinterfaces, for the interface i of node n: a VLAN member is a
\* subinterface of the interface its trunk is on, under a new name.
RenameStep(n, w, i) ==
  LET fs == w.intfs[n]
      f == fs[i]
      p == SelectInSeq(fs, LAMBDA g : g.link = f.parent)
      subs == fs[p].subs + 1
      name == <<"sub", fs[p].idx, IF topo.device[n].subif = "id" THEN f.aid ELSE subs>>
      shared == f.vname # "" /\ ~Routed(links[f.link].intfs)
      sub == [f EXCEPT !.name = name, !.pidx = fs[p].idx, !.routed = (f.vname # "" /\ ~shared)]
      x == [w EXCEPT !.intfs[n] = [fs EXCEPT ![i] = sub, ![p] = WithoutVlan([@ EXCEPT !.subs = subs], f.aid)]]
  IN  IF f.type # "vlan_member" THEN w
      ELSE IF topo.device[n].model = "switch" THEN [w EXCEPT !.bad = TRUE]
      ELSE IF f.parent = Loopback THEN w
      ELSE IF shared THEN UpdateNeighbors(x, f.vname, n, <<>>, Neighbor(n, name, f.addr))
      ELSE IF f.vname # "" THEN [x EXCEPT !.intfs = RenameNeighbor(@, f.neighbors, n, f.name, name)]
      ELSE x

\* A device without subinterfaces for bridged VLANs drops those VLAN members
\* first; the links without a trunk go at the end.
SwitchModel(n) == topo.device[n].model \in {"switch", "l3-switch"}
RenameVlanSubinterfaces(n, w) ==
  LET Kept(f) == SwitchModel(n) => f.type # "vlan_member" \/ f.vlan.mode = "route"
      x == [w EXCEPT !.intfs[n] = SelectSeq(@, Kept)]
      y == FoldLeft(LAMBDA z, i : RenameStep(n, z, i), x, [i \in DOMAIN x.intfs[n] |-> i])
  IN  IF topo.device[n].model = "switch" THEN y
      ELSE [y EXCEPT !.intfs[n] = SelectSeq(@, LAMBDA f : f.parent # Loopback)]

\* cleanup_routed_native_vlan: a routed native VLAN is not in the trunk.
CleanupRoutedNativeVlan(n, w) ==
  LET RoutedNative(f) == f.vnative # "" /\ f.vmode = "route"
  IN  [w EXCEPT !.intfs[n] = [i \in DOMAIN @ |->
                  IF RoutedNative(@[i]) THEN WithoutVlan(@[i], w.vlans[n][@[i].vnative].id) ELSE @[i]],
                !.bad = @ \/ (~topo.device[n].native /\ \E i \in DOMAIN w.intfs[n] : RoutedNative(w.intfs[n][i]))]

\* check_mixed_trunks, check_mixed_native_trunk: what the device cannot do.
MixedTrunk(n, fs) ==
  /\ ~topo.device[n].mixed
  /\ \E i, p \in DOMAIN fs : fs[i].pidx # 0 /\ fs[p].idx = fs[i].pidx /\ fs[p].tid # {}
MixedNativeTrunk(n, fs) ==
  /\ SwitchModel(n)
  /\ \E i \in DOMAIN fs : fs[i].type # "svi" /\ fs[i].pidx = 0 /\ fs[i].addr # NoPrefix /\ fs[i].tid # {}

NodeWork(n) ==
  LET w0 == PopulateNodeVlanData(n, [vlans |-> nvlans, intfs |-> intfs, ngb |-> ngb, bad |-> failed])
      w1 == MapTrunkVlans(n, CreateSviInterfaces(n, w0))
      w2 == CleanupRoutedNativeVlan(n, RenameVlanSubinterfaces(n, w1))
  IN  [w2 EXCEPT !.bad = @ \/ MixedTrunk(n, w2.intfs[n]) \/ MixedNativeTrunk(n, w2.intfs[n])]

PostLinkTransform ==
  LET n == topo.nodes[k]
      w == NodeWork(n)
  IN  /\ stage = "post"
      /\ IF Aware(topo, n) THEN nvlans' = w.vlans /\ intfs' = w.intfs /\ ngb' = w.ngb /\ failed' = w.bad
                           ELSE UNCHANGED <<nvlans, intfs, ngb, failed>>
      /\ Step(Len(topo.nodes), "neighbors")
      /\ UNCHANGED <<topo, gvlans, ids, links>>

\* set_svi_neighbor_list: the neighbors of the VLAN, without the node itself;
\* and the end of the hook: no VLAN members among the links, vlan_name gone.
SviNeighbors(n, f) ==
  LET owner == VlanOwner(nvlans, f.vname, n, f.neighbors)
  IN  IF f.vname = "" \/ f.routed \/ owner = "" THEN f.neighbors
      ELSE SelectSeq(ngb[owner, f.vname], LAMBDA b : b.node # n)
SetSviNeighborList ==
  /\ stage = "neighbors"
  /\ intfs' = [n \in Nodes |-> [i \in DOMAIN intfs[n] |->
                [intfs[n][i] EXCEPT !.neighbors = SviNeighbors(n, intfs[n][i]), !.vname = ""]]]
  /\ links' = SelectSeq(links, LAMBDA l : ~l.member)
  /\ UNCHANGED <<topo, gvlans, nvlans, ids, ngb, failed>>
  /\ Check(1, "cleanup")

\* node_cleanup: the ports get back their neighbors.
NodeCleanup ==
  /\ stage = "cleanup"
  /\ intfs' = [n \in Nodes |-> [i \in DOMAIN intfs[n] |->
                IF intfs[n][i].saved = <<>> THEN intfs[n][i]
                ELSE [intfs[n][i] EXCEPT !.neighbors = intfs[n][i].saved, !.saved = <<>>]]]
  /\ Step(1, "done")
  /\ UNCHANGED <<topo, gvlans, nvlans, ids, links, ngb, failed>>

Next == \/ ModulePreTransform \/ NodePreTransform \/ LinkPreTransform
        \/ CreateLoopbackVlanLinks \/ LinkPreLinkTransform \/ CreateNodeInterfaces
        \/ PostLinkTransform \/ SetSviNeighborList \/ NodeCleanup

Spec == Init /\ [][Next]_vars

\* The data of the hooks: every VLAN has an id from the first hook for its owner
\* on, at most MaxId (validate_vlan_attributes, get_next_id), and a tag on an
\* interface is the id of a VLAN of its node.
TypeOK ==
  /\ stage \in {"global", "nodes", "links", "loopbacks", "check", "transform", "post", "neighbors", "cleanup", "done", "aborted"}
  /\ k \in Nat \ {0} /\ ids \subseteq 0..MaxId /\ failed \in BOOLEAN
  /\ \A v \in DOMAIN gvlans : gvlans[v] \in VlanData
  /\ \A n \in Nodes : \A v \in DOMAIN nvlans[n] : nvlans[n][v] \in VlanData
  /\ stage \notin {"global", "aborted"} => 0 \notin IdsGiven(gvlans)
  /\ stage \notin {"global", "nodes", "aborted"} => \A n \in Nodes : Aware(topo, n) => 0 \notin IdsGiven(nvlans[n])
  /\ \A n \in Nodes : \A i \in DOMAIN intfs[n] : (intfs[n][i].tid \cup {intfs[n][i].aid}) \ {0} \subseteq IdsOf(nvlans[n])

-----------------------------------------------------------------------------
(* What the devices do with the interfaces.  A port is where frames of a link *)
(* with a tag (0 without one) enter a domain of a node: one of its VLANs, or  *)
(* an interface that routes.                                                  *)

Domain(n, kind, i) == [node |-> n, kind |-> kind, id |-> i]
WirePort(l, tag, domain) == [link |-> l, tag |-> tag, domain |-> domain]
PortsOf(n, f) ==
  IF f.type = "lan"
  THEN (IF f.aid # 0 THEN {WirePort(f.link, 0, Domain(n, "vlan", f.aid))}
        ELSE IF f.addr # NoPrefix THEN {WirePort(f.link, 0, Domain(n, "intf", f.idx))} ELSE {})
       \cup {WirePort(f.link, t, Domain(n, "vlan", t)) : t \in f.tid \ {f.aid}}
  ELSE IF f.pidx # 0
  THEN {WirePort(f.parent, f.aid, IF f.vlan.mode = "route" THEN Domain(n, "intf", f.idx) ELSE Domain(n, "vlan", f.aid))}
  ELSE {}
Wires == UNION {UNION {PortsOf(n, intfs[n][i]) : i \in DOMAIN intfs[n]} : n \in Nodes}

\* The interfaces with addresses, each in its domain.
Routing(n) == {i \in DOMAIN intfs[n] : intfs[n][i].addr # NoPrefix}
DomainOf(n, i) ==
  LET f == intfs[n][i] IN IF f.type = "svi" THEN Domain(n, "vlan", nvlans[n][f.of].id) ELSE Domain(n, "intf", f.idx)

\* The interfaces of a node in a domain with an address, and those of all nodes
\* frames can pass between: domains are connected by ports of a link that have
\* a tag in common.
Ends == UNION {{<<n, i>> : i \in Routing(n)} : n \in Nodes}
Pairs ==
  LET wires == Wires
      Reach(ds) == ds \cup {p.domain : p \in {q \in wires : \E r \in wires : r.domain \in ds /\ r.link = q.link /\ r.tag = q.tag}}
      hops == [i \in 1..Cardinality({p.domain : p \in wires}) |-> i]
      segment == [e \in Ends |-> FoldLeft(LAMBDA ds, i : Reach(ds), {DomainOf(e[1], e[2])}, hops)]
  IN  {p \in Ends \X Ends : DomainOf(p[2][1], p[2][2]) \in segment[p[1]]}
Interface(e) == intfs[e[1]][e[2]]
Done == stage = "done"

\* Interfaces between which frames can pass have addresses of one prefix, over
\* every mix of ports, trunks, native VLANs, VLAN interfaces and subinterfaces
\* (set_link_vlan_prefix, create_vlan_links, check_link_interface_attributes).
OneSubnet == Done => \A p \in Pairs : Interface(p[1]).addr = Interface(p[2]).addr

\* The neighbors of an interface with an address are interfaces that exist, and
\* every other node with an interface frames can reach is, with one of them and
\* the name it has in the end, among them: nobody is lost while one node after
\* the other replaces and renames interfaces
\* (update_vlan_neighbor_list, rename_neighbor_interface, set_svi_neighbor_list).
NeighborsMatch == Done =>
  /\ \A p \in Pairs : p[1][1] # p[2][1] =>
       \E q \in Pairs : /\ q[1] = p[1] /\ q[2][1] = p[2][1]
                        /\ \E b \in ToSet(Interface(p[1]).neighbors) : b.node = q[2][1] /\ b.name = Interface(q[2]).name
  /\ \A n \in Nodes : \A i \in Routing(n) : \A b \in ToSet(intfs[n][i].neighbors) :
       \E j \in DOMAIN intfs[b.node] : intfs[b.node][j].name = b.name

\* Frames of a link, with a tag or without, are known at both ends of it: no
\* VLAN of a trunk ends in a node that does not have it, or under another id
\* (validate_trunk_vlan_list, map_trunk_vlans, remove_vlan_from_trunk).
TagsMeet == Done => \A p \in Wires : Len(links[p.link].intfs) > 1 => \E q \in Wires : q # p /\ q.link = p.link /\ q.tag = p.tag

=============================================================================
