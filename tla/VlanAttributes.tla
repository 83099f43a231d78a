---------------------------- MODULE VlanAttributes ----------------------------
(***************************************************************************)
(* The VLAN attributes a user writes, and what netsim/modules/vlan.py reads *)
(* out of them: the forwarding mode that wins, the checks of the VLANs of a *)
(* link, and the VLAN a link is used for.                                   *)
(*                                                                          *)
(* A lab topology is a record:                                              *)
(*   nodes, order  the node names, in the order of the dictionary           *)
(*   device        what a node runs; the device of a node without the vlan  *)
(*                 module is NoVlanDevice                                   *)
(*   gmode, nmode  vlan.mode of the topology and of the nodes               *)
(*   gvlans        the global VLANs: the mode and the id given for each     *)
(*   nvlans        those of every node                                      *)
(*   links         for every link its VLAN attributes and its interfaces    *)
(*   mixed         warnings.mixed_fwd_check is off                          *)
(* A missing attribute is "", 0 or {}.                                      *)
(***************************************************************************)
EXTENDS Integers, SequencesExt

CONSTANTS
  Vlan,         \* the sequence of all VLAN names, in the order of the dictionaries and of sorted()
  Topologies    \* the lab topologies

Modes == {"bridge", "irb", "route"}

\* The vlan attribute of a link or of an interface without VLANs.
NoVlan == [access |-> "", native |-> "", trunk |-> {}, mode |-> ""]

NoVlanDevice == [model |-> "none", mixed |-> FALSE, native |-> FALSE, subif |-> "id"]
Aware(topo, n) == topo.device[n] # NoVlanDevice

\* The first value that is set: Python's "or".
FirstOf(modes) == SelectInSeq(modes, LAMBDA m : m # "")
Or(modes) == IF FirstOf(modes) = 0 THEN "irb" ELSE modes[FirstOf(modes)]

\* The mode of VLAN v of a set of VLANs, "" when it is not there.
ModeIn(vlans, v) == IF v \in DOMAIN vlans THEN vlans[v].mode ELSE ""

\* set_node_vlan_mode, populate_node_vlan: the mode of a VLAN on a node.
NodeVlanMode(topo, n, own, gvlans, v) == Or(<<own, topo.nmode[n], ModeIn(gvlans, v), topo.gmode>>)

\* compute_interface_vlan_mode: the mode of the access or native VLAN v of an
\* interface.
InterfaceMode(topo, n, attr, nvlans, gvlans) ==
  LET v == IF attr.access # "" THEN attr.access ELSE attr.native
  IN  IF v = "" THEN "irb"
      ELSE Or(<<attr.mode, ModeIn(nvlans[n], v), topo.nmode[n], ModeIn(gvlans, v), topo.gmode>>)

\* link.vlan + intf.vlan: the interface wins, the trunks are merged.
Merge(link, intf) ==
  [access |-> IF intf.access # "" THEN intf.access ELSE link.access,
   native |-> IF intf.native # "" THEN intf.native ELSE link.native,
   trunk  |-> link.trunk \cup intf.trunk,
   mode   |-> IF intf.mode # "" THEN intf.mode ELSE link.mode]

-----------------------------------------------------------------------------
(* The VLANs of a link.  An object is the link or one of its interfaces.    *)

One(v) == IF v = "" THEN {} ELSE {v}
Attrs(link) == <<link.vlan>> \o [i \in DOMAIN link.intfs |-> link.intfs[i].vlan]
Access(link) == UNION {One(a.access) : a \in ToSet(Attrs(link))}
Native(link) == UNION {One(a.native) : a \in ToSet(Attrs(link))}
Trunk(link) == UNION {a.trunk : a \in ToSet(Attrs(link))}

\* v_attr.native.list[0]: the first native VLAN, that of the link itself first.
FirstNative(link) ==
  LET i == SelectInSeq(Attrs(link), LAMBDA a : a.native # "")
  IN  IF i = 0 THEN "" ELSE Attrs(link)[i].native

Names(attr) == One(attr.access) \cup One(attr.native) \cup attr.trunk

\* check_link_vlan_attributes: every VLAN is defined, for an interface in the
\* topology or in its node, for the link in the topology.
Defined(link, gvlans, nvlans) ==
  /\ Names(link.vlan) \subseteq DOMAIN gvlans
  /\ \A i \in DOMAIN link.intfs :
       Names(link.intfs[i].vlan) \subseteq DOMAIN gvlans \cup DOMAIN nvlans[link.intfs[i].node]

\* The nodes with a VLAN of their own as the access VLAN of their interface or,
\* on a link without access VLANs, as its native VLAN.
NodeSet(link, gvlans) ==
  LET Own(attr) == (IF Access(link) # {} THEN One(attr.access) ELSE One(attr.native)) \ DOMAIN gvlans
  IN  {link.intfs[i].node : i \in {j \in DOMAIN link.intfs : Own(link.intfs[j].vlan) # {}}}

\* validate_link_vlan_attributes: what ends the processing of the link.  The
\* two later checks of the function, of names used in several places, ask the
\* collected attributes for the keys 'vlan' and 'single', which are never there.
Sensible(link, gvlans) ==
  /\ Trunk(link) # {} => Access(link) = {}
  /\ Native(link) # {} => Trunk(link) # {}
  /\ \A v, w \in Access(link) \cap DOMAIN gvlans : v = w

\* A native VLAN that is in no trunk, and interfaces that have a native VLAN
\* their trunk lacks, or the native VLAN of the others in their trunk: errors
\* that do not end the processing of the link.
EffectiveTrunk(link, intf) == link.vlan.trunk \cup intf.vlan.trunk
EffectiveNative(link, intf) == IF intf.vlan.native # "" THEN intf.vlan.native ELSE link.vlan.native
NativeErrors(link) ==
  /\ Native(link) # {}
  /\ \/ Native(link) \cap Trunk(link) = {}
     \/ \E i \in DOMAIN link.intfs :
          LET intf == link.intfs[i]
              native == EffectiveNative(link, intf)
          IN  /\ intf.vlan # NoVlan
              /\ IF native # "" THEN native \notin EffectiveTrunk(link, intf)
                                ELSE FirstNative(link) \in EffectiveTrunk(link, intf)

\* An interface with a trunk that does not take part in the native VLAN has no
\* address in its subnet.
OutsideNative(link, intf) ==
  /\ Native(link) \cap Trunk(link) # {}
  /\ intf.vlan # NoVlan /\ EffectiveNative(link, intf) = ""
  /\ EffectiveTrunk(link, intf) # {} /\ FirstNative(link) \notin EffectiveTrunk(link, intf)

\* validate_trunk_vlan_list, on a link whose attributes were merged: nodes
\* without VLANs need a native VLAN, and every VLAN of a node another node.
\* An interface without a trunk is fatal.
NeedsNative(link) == \E i \in DOMAIN link.intfs : link.intfs[i].vlan = NoVlan
UsedByOther(link, i, v) ==
  \/ \E j \in DOMAIN link.intfs \ {i} : v \in link.intfs[j].vlan.trunk
  \/ v = link.intfs[i].vlan.native /\ NeedsNative(link)
\* A bug: a VLAN of a trunk without another node in it is not reported.
ValidTrunkOfOne(link) == NeedsNative(link) => \E i \in DOMAIN link.intfs : link.intfs[i].vlan.native # ""
ValidTrunk(link) ==
  /\ NeedsNative(link) => \E i \in DOMAIN link.intfs : link.intfs[i].vlan.native # ""
  /\ \A i \in DOMAIN link.intfs :
       link.intfs[i].vlan # NoVlan =>
         /\ link.intfs[i].vlan.trunk # {}
         /\ \A v \in link.intfs[i].vlan.trunk : UsedByOther(link, i, v)

\* get_link_access_vlan: an element of a Python set of strings, whose order is
\* not the same in every process.
LinkVlans(link) == IF Access(link) # {} THEN Access(link) ELSE Native(link)

\* A bug: one node that routes the VLAN is enough.
RoutedIfAny(intfs) == \E i \in DOMAIN intfs : intfs[i].vmode = "route"

\* routed_access_vlan: there are interfaces with a VLAN mode, and all route.
Routed(intfs) ==
  LET vlan == {i \in DOMAIN intfs : intfs[i].vmode # ""}
  IN  vlan # {} /\ \A i \in vlan : intfs[i].vmode = "route"
=============================================================================
