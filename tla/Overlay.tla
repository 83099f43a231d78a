-------------------------------- MODULE Overlay --------------------------------
(***************************************************************************)
(* VXLAN segments and EVPN services: netsim/modules/vxlan.py and evpn.py,    *)
(* together with the identifiers of VpnIds, between whose hooks theirs run.  *)
(* The topology decides which VLANs and VRFs become EVPN services and with   *)
(* which numbers, every node then finds its VTEP, builds the list of nodes   *)
(* it floods a VLAN to, and decides over which of its BGP sessions it talks  *)
(* EVPN and what of the services it has.                                     *)
(*                                                                          *)
(* More fields of a lab topology:                                            *)
(*   vxlan, evpn  the nodes with these modules                               *)
(*   on           the global VLANs of a node                                 *)
(*   linked       the nodes with interfaces                                  *)
(*   domain       vxlan.domain of a node                                     *)
(*   static       the nodes with static flooding                             *)
(*   address      the addresses of the VTEP interface of a node: a function  *)
(*                of address families, "" for none; anycast VTEPs share one  *)
(*   v6           vxlan.use_v6_vtep                                          *)
(*   lacks        <<n, feature>> for a feature the device has not; without   *)
(*                "transport" it is a node of the control plane only         *)
(*   evpnVlans, evpnVrfs  the lists of an owner, Missing or <<set>>           *)
(*   vlanVrf      the VRF of a global VLAN, or ""                            *)
(*   bundle       the VRFs whose VLANs are a bundle                          *)
(*   evi          evpn.evi of a VLAN or a global VRF, 0 when missing         *)
(*   rts          evpn.import and evpn.export of a VLAN, Missing or <<set>>   *)
(*   topoAs       evpn.as, vrf.as and bgp.as of the topology, 0 when missing  *)
(*   addressed    the VRFs of a node with addresses on their interfaces       *)
(* The topology lists both modules when some node has one of them.           *)
(*   peers        BGP neighbors: node, name, type, and their families        *)
(*   session      evpn.session of a node                                     *)
(* Left out: MPLS transport, given route distinguishers of services, VLANs   *)
(* that belong to VRFs of nodes, and the removal of EBGP sessions in VRFs.   *)
(***************************************************************************)
EXTENDS VpnIds

\* Nodes with these modules are nodes of the lab, the VLANs of a node are global
\* ones, or its own, which are not global, bundles are global VRFs, EVIs numbers,
\* and the targets of VLANs pairs of numbers.  The AS of the rds of the topology is
\* one of its own, and only VRFs on interfaces have addresses.
ASSUME FabricAssumption ==
  \A l \in Labs :
    /\ l.vxlan \cup l.evpn \subseteq ToSet(l.nodes)
    /\ \A n \in ToSet(l.nodes) :
         l.on[n] \subseteq DOMAIN l.vlans[Topology] /\ DOMAIN l.vlans[n] \cap DOMAIN l.vlans[Topology] = {}
    /\ l.bundle \subseteq DOMAIN l.vrfs[Topology]
    /\ \A v \in DOMAIN l.vlans[Topology] \cup DOMAIN l.vrfs[Topology] : l.evi[v] \in Nat
    /\ \A v \in DOMAIN l.vlans[Topology] : \A said \in {l.rts[v].import, l.rts[v].export} :
         said # Missing => said[1] \subseteq Nat \X Nat
    /\ l.topoAs \in [evpn : Nat, vrf : Nat, bgp : Nat]
    /\ l.as[Topology] = IF l.topoAs.bgp # 0 THEN l.topoAs.bgp ELSE l.topoAs.vrf
    /\ \A n \in ToSet(l.nodes) : l.addressed[n] \subseteq l.used[n]

VARIABLES
  turn,       \* what VXLAN and EVPN do next
  evpnVlans,  \* evpn.vlans of the topology
  evi,        \* evpn.evi of the global VRFs, 0 without one
  service,    \* the EVPN data of the VLANs that have some
  vtep,       \* the VTEP address of a node, "" without one
  flood,      \* vtep_list of the VLANs of a node
  spoken,     \* <<n, m>> when n activates EVPN on its session with m
  instances   \* the VLANs and VRFs of a node with a local RD, by EVI

overlayVars == <<turn, evpnVlans, evi, service, vtep, flood, spoken, instances>>

OverlayInit ==
  /\ Init
  /\ turn = "lists"
  /\ evpnVlans = {} /\ evi = Empty /\ service = Empty
  /\ vtep = [n \in Nodes |-> ""] /\ flood = [n \in Nodes |-> Empty]
  /\ spoken = {} /\ instances = [n \in Nodes |-> Empty]

GlobalVlans == DOMAIN lab.vlans[Topology]
VlansOf(n) == lab.on[n] \cup DOMAIN lab.vlans[n]
VniOf(n, v) == IF v \in DOMAIN lab.vlans[n] THEN vlanVni[n][v] ELSE vlanVni[Topology][v]
Lacks(n, feature) == <<n, feature>> \in lab.lacks

-----------------------------------------------------------------------------
(* Services of the topology                                                 *)

\* validate_evpn_lists: a given list that is not empty, or everything with a VNI.
Listed(list, default) == IF list # Missing THEN list[1] ELSE default
GlobalList(list, default) == IF list \notin {Missing, <<{}>>} THEN list[1] ELSE default
EvpnVlans == GlobalList(lab.evpnVlans[Topology], {v \in GlobalVlans : vlanVni[Topology][v] > 0})
EvpnVrfs == GlobalList(lab.evpnVrfs[Topology],
                       {v \in Names(Topology) : transit[v] \notin {NoVni, Disabled} \/ lab.vrfs[Topology][v].like # ""})
UnknownReference == \E o \in Owners :
  \/ ~(Listed(lab.evpnVlans[o], {}) \subseteq GlobalVlans \cup DOMAIN lab.vlans[o])
  \/ ~(Listed(lab.evpnVrfs[o], {}) \subseteq Names(Topology) \cup Names(o))

\* A bug: the EVIs of VRFs are in the range of those of VLANs.
VrfEviInVlanRange(v) == IF lab.evi[v] = 0 THEN vrf[Topology][v].id ELSE lab.evi[v]
\* ip_vrf_service: EVIs above those of VLANs.
VrfEvi(v) == IF lab.evi[v] = 0 THEN vrf[Topology][v].id + 5000 ELSE lab.evi[v]

ValidateEvpnLists ==
  /\ turn = "lists" /\ stage = "transit"
  /\ evpnVlans' = EvpnVlans \cap GlobalVlans
  /\ evi' = [v \in Names(Topology) |-> IF v \in EvpnVrfs THEN VrfEvi(v) ELSE lab.evi[v]]
  /\ failed' = (failed \/ UnknownReference)
  /\ turn' = "services"
  /\ UNCHANGED <<lab, stage, k, todo, vrf, ids, rds, next, vnis, nextVni, vlanVni, transit, service, vtep, flood, spoken, instances>>

\* get_vlan_bundle_flag.
Bundled(v) == lab.vlanVrf[v] \in lab.bundle
HasOwnData(v) == lab.evi[v] # 0 \/ lab.rts[v].import # Missing \/ lab.rts[v].export # Missing

\* vrf_irb_setup, and the first VLAN of a bundle: any VRF with EVPN data gets
\* an EVI.
HasEvpn(r) == lab.vrfs[Topology][r].vni # NoVni \/ lab.vrfs[Topology][r].like # "" \/ lab.evi[r] # 0 \/ r \in lab.bundle
FinalEvi(r) == IF evi[r] = 0 /\ HasEvpn(r) THEN vrf[Topology][r].id ELSE evi[r]

\* vlan_based_service: the EVI of a VLAN that is in no bundle.
OwnEvi(v) == IF lab.evi[v] = 0 THEN lab.vlans[Topology][v].id ELSE lab.evi[v]

\* get_usable_evpn_asn, which prefers vrf.as to bgp.as; the rds of VRFs do not.
EvpnAs == IF lab.topoAs.evpn # 0 THEN lab.topoAs.evpn
          ELSE IF lab.topoAs.vrf # 0 THEN lab.topoAs.vrf ELSE lab.topoAs.bgp

\* create_evpn_service, vlan_based_service and vlan_aware_bundle_service.
DefaultRt(e) == <<{<<EvpnAs, e>>}>>
VlanService(v) ==
  IF Bundled(v) THEN [evi |-> FinalEvi(lab.vlanVrf[v]), import |-> Missing, export |-> Missing]
  ELSE LET Rt(said) == IF said = Missing THEN DefaultRt(OwnEvi(v)) ELSE said
       IN  [evi |-> OwnEvi(v), import |-> Rt(lab.rts[v].import), export |-> Rt(lab.rts[v].export)]
ServiceError ==
  \/ \E v \in evpnVlans : Bundled(v) /\ HasOwnData(v)
  \/ EvpnAs = 0 /\ \E v \in evpnVlans : ~Bundled(v)

CreateVlanServices ==
  /\ turn = "services" /\ stage = "shared" /\ todo = {}
  /\ service' = [v \in evpnVlans |-> VlanService(v)]
  /\ evi' = [r \in Names(Topology) |-> FinalEvi(r)]
  /\ failed' = (failed \/ ServiceError)
  /\ turn' = "vteps"
  /\ UNCHANGED <<lab, stage, k, todo, vrf, ids, rds, next, vnis, nextVni, vlanVni, transit, evpnVlans, vtep, flood, spoken, instances>>

-----------------------------------------------------------------------------
(* VTEPs and flooding                                                       *)

VtepAf == IF lab.v6 THEN "ipv6" ELSE "ipv4"
L3Vnis(n) == {r \in Names(n) \cap Names(Topology) : transit[r] > 0}
\* There is a reason to use VXLAN on the node.
NeedsVtep(n) == n \in lab.vxlan \cap lab.linked /\ (L3Vnis(n) # {} \/ \E v \in VlansOf(n) : VniOf(n, v) > 0)
NoVtep(n) == (lab.v6 /\ Lacks(n, "vtep6")) \/ lab.address[n][VtepAf] = ""

\* The first half of module_post_transform, with node_set_vtep.
NodeSetVtep ==
  /\ turn = "vteps" /\ stage = "check"
  /\ vtep' = [n \in Nodes |-> IF NeedsVtep(n) /\ ~NoVtep(n) THEN lab.address[n][VtepAf] ELSE ""]
  /\ failed' = (failed \/ \E n \in lab.vxlan : n \notin lab.linked \/ (NeedsVtep(n) /\ NoVtep(n)))
  /\ turn' = "floods"
  /\ UNCHANGED <<lab, stage, k, todo, vrf, ids, rds, next, vnis, nextVni, vlanVni, transit, evpnVlans, evi, service, flood, spoken, instances>>

\* A bug: VLANs are compared by their names on the other node.
VtepListByName(n, v) ==
  {vtep[m] : m \in {x \in Nodes \ {n} : lab.domain[x] = lab.domain[n] /\ vtep[x] \notin {"", vtep[n]} /\ v \in VlansOf(x)}}
\* build_vtep_list: a VLAN with vni: False has one, too.
VtepList(n, v) ==
  {vtep[m] : m \in {x \in Nodes \ {n} : /\ lab.domain[x] = lab.domain[n] /\ vtep[x] \notin {"", vtep[n]}
                                        /\ \E w \in VlansOf(x) : VniOf(x, w) = VniOf(n, v)}}

\* The second half of module_post_transform.
BuildVtepLists ==
  /\ turn = "floods" /\ stage = "check"
  /\ flood' = [n \in Nodes |-> [v \in VlansOf(n) |->
       IF n \in lab.static /\ vtep[n] # "" /\ VniOf(n, v) # NoVni THEN VtepList(n, v) ELSE {}]]
  /\ turn' = "nodes"
  /\ UNCHANGED <<lab, stage, k, todo, vrf, ids, rds, next, vnis, nextVni, vlanVni, transit, failed, evpnVlans, evi, service, vtep, spoken, instances>>

-----------------------------------------------------------------------------
(* EVPN on the nodes                                                        *)

\* check_node_transport, check_cp_only, with the list trimmed to what the node has.
CpOnly(n) == Lacks(n, "transport")
NodeVlans(n) == Listed(lab.evpnVlans[n], evpnVlans) \cap VlansOf(n)
NodeVrfs(n) == Listed(lab.evpnVrfs[n], EvpnVrfs) \cap Names(n)
Transports(n) == ~(CpOnly(n) /\ Lacks(n, "control_plane"))

\* enable_evpn_af: the neighbors n talks EVPN to.
Relevant(n, p) == p.node = n /\ p.type \in lab.session[n] /\ p.name \in lab.evpn /\ VtepAf \in p.af
NoEvpnAf(n) == lab.v6 /\ Lacks(n, "ipv6")
AfErrors(n) == NoEvpnAf(n) \/ \E p \in lab.peers : Relevant(n, p) /\ Lacks(n, p.type)
Spoken(n) == IF AfErrors(n) THEN {} ELSE {<<n, p.name>> : p \in {x \in lab.peers : Relevant(n, x)}}

\* The VLANs with EVPN data, of a service or of their own.
WithEvpn == DOMAIN service \cup {v \in GlobalVlans : HasOwnData(v)}

\* A bug: VLANs that are missing are not looked for.
NoIrbErrors(n) == FALSE
\* check_node_vrf_irb and check_asym_vlan: without a transit VNI the node
\* needs every EVPN VLAN of a VRF in which it has addresses.
IrbErrors(n) == \E r \in lab.addressed[n] :
  IF r \in DOMAIN transit /\ transit[r] > 0 THEN Lacks(n, "irb")
  ELSE \/ Lacks(n, "asymmetrical_irb")
       \/ \E v \in WithEvpn : lab.vlanVrf[v] = r /\ v \notin VlansOf(n)

\* check_node_vrf_bundle and check_vlan_rt_values.
BundleErrors(n) == Lacks(n, "bundle") /\ Names(n) \cap lab.bundle # {}
RtErrors(n) == /\ Lacks(n, "multi_rt")
               /\ \E v \in lab.on[n] : \E rts \in {lab.rts[v].import, lab.rts[v].export} :
                    rts # Missing /\ Cardinality(rts[1]) > 1

\* set_local_evpn_rd: what has an EVI, and what has EVPN data without one.
GivenEvis(n) == {v \in lab.on[n] \ DOMAIN service : lab.evi[v] # 0}
LocalRds(n) == [x \in (VlansOf(n) \cap DOMAIN service) \cup GivenEvis(n) \cup {r \in Names(n) \cap Names(Topology) : evi[r] # 0}
                  |-> IF x \in DOMAIN service THEN service[x].evi ELSE IF x \in GivenEvis(n) THEN lab.evi[x] ELSE evi[x]]
NoEvi(n) == \E v \in lab.on[n] \cap WithEvpn : v \notin DOMAIN service \cup GivenEvis(n)

NodeErrors(n) ==
  IF Transports(n)
  THEN AfErrors(n) \/ IrbErrors(n) \/ BundleErrors(n) \/ RtErrors(n) \/ NoEvi(n) \/ (CpOnly(n) /\ NodeVlans(n) \cup NodeVrfs(n) # {})
  ELSE TRUE

EvpnNodes ==
  /\ turn = "nodes" /\ stage = "done"
  /\ failed' = (failed \/ \E n \in lab.evpn : NodeErrors(n))
  /\ spoken' = UNION {Spoken(n) : n \in lab.evpn}
  /\ instances' = [n \in Nodes |-> IF n \in lab.evpn THEN LocalRds(n) ELSE Empty]
  /\ turn' = IF failed' THEN "aborted" ELSE "end"
  /\ UNCHANGED <<lab, stage, k, todo, vrf, ids, rds, next, vnis, nextVni, vlanVni, transit, evpnVlans, evi, service, vtep, flood>>

-----------------------------------------------------------------------------
OverlayTurn ==
  /\ lab.vxlan \cup lab.evpn # {}
  /\ \/ turn = "lists" /\ stage = "transit"
     \/ turn = "services" /\ stage = "shared" /\ todo = {}
     \/ turn \in {"vteps", "floods"} /\ stage = "check"
     \/ turn = "nodes" /\ stage = "done"

OverlayNext ==
  \/ ~OverlayTurn /\ Next /\ UNCHANGED overlayVars
  \/ OverlayTurn /\ (ValidateEvpnLists \/ CreateVlanServices \/ NodeSetVtep \/ BuildVtepLists \/ EvpnNodes)

OverlaySpec == OverlayInit /\ [][OverlayNext]_<<vars, overlayVars>>

-----------------------------------------------------------------------------
(* Properties                                                               *)

OverlayDone == turn = "end"

\* Two VLANs of two nodes are one segment for the user: one global VLAN, or
\* VLANs with one given VNI.
GivenVni(n, v) == lab.vlans[IF v \in DOMAIN lab.vlans[n] THEN n ELSE Topology][v].vni
OneSegment(n, v, m, w) ==
  \/ v = w /\ v \in GlobalVlans
  \/ GivenVni(n, v) > 0 /\ GivenVni(n, v) = GivenVni(m, w)

Stretched(n) == {v \in VlansOf(n) : VniOf(n, v) > 0}
Floods(n, m) == n # m /\ n \in lab.static \cap lab.vxlan /\ m \in lab.vxlan /\ vtep[m] # vtep[n]

\* What a node floods in a VLAN reaches exactly the nodes of its domain that
\* have the VLAN, whatever numbers they were given: each node builds its list
\* from the VNIs and VTEPs of the others (docs/module/vxlan.md, "Building
\* Ingress Replication Lists").
FloodsReachTheVlan == OverlayDone =>
  \A n, m \in Nodes : Floods(n, m) => \A v \in Stretched(n) :
    LET together == \E w \in Stretched(m) : OneSegment(n, v, m, w) /\ lab.domain[n] = lab.domain[m]
        anycast == \E x \in Nodes \ {n, m} : vtep[x] = vtep[m] /\ vtep[m] # "" /\ lab.domain[x] = lab.domain[n]
    IN  /\ together => vtep[m] \in flood[n][v]
        /\ vtep[m] \in flood[n][v] => together \/ anycast

\* What the lab says about the routes of a service, without generated numbers.
SymbolOf(v, said) == IF said = Missing THEN {<<"vlan", Topology, v>>} ELSE said[1]
Told(n, v, direction) ==
  IF Bundled(v) THEN Wanted(n, lab.vlanVrf[v], direction)
  ELSE SymbolOf(v, IF direction = "import" THEN lab.rts[v].import ELSE lab.rts[v].export)
Used(n, v, direction) ==
  LET of == IF Bundled(v) THEN vrf[n][lab.vlanVrf[v]] ELSE service[v]
  IN  IF direction = "import" THEN of.import[1] ELSE of.export[1]
Here(n) == IF n \in lab.evpn THEN VlansOf(n) \cap DOMAIN service ELSE {}

\* A VLAN of a bundle has the EVI of its VRF.
InstanceOf(x) == IF x \in DOMAIN service /\ Bundled(x) THEN lab.vlanVrf[x] ELSE x

\* EVPN connects what the lab connects.  The routes of a VLAN on one node reach
\* a VLAN on another one exactly if the lab says so; if one of two nodes talks
\* EVPN to the other one and that one wants such sessions, it answers; and the
\* EVIs of a node, of which route distinguishers are made, differ
\* (docs/module/evpn.md, "VLAN-Based Service Parameters").
ServicesMeet == OverlayDone =>
  /\ \A n, m \in Nodes : \A v \in Here(n), w \in Here(m) :
       (Used(n, v, "export") \cap Used(m, w, "import") # {}) = (Told(n, v, "export") \cap Told(m, w, "import") # {})
  /\ \A p \in lab.peers : <<p.node, p.name>> \in spoken /\ p.type \in lab.session[p.name] => <<p.name, p.node>> \in spoken
  /\ \A n \in Nodes : \A x, y \in DOMAIN instances[n] : instances[n][x] = instances[n][y] => InstanceOf(x) = InstanceOf(y)

\* What keeps the numbers apart, which nobody compares.  VLANs and given EVIs
\* have EVIs of their own, above the ids of VRFs and below the EVIs made of
\* these; targets of VLANs that are given are rds of the lab or numbers netlab
\* does not generate, and those that are made of EVIs are given to nobody.
Single == {v \in GlobalVlans : ~Bundled(v)}
FixedEvis == {<<v, OwnEvi(v)>> : v \in Single \cup {x \in GlobalVlans : lab.evi[x] # 0}} \cup {<<r, lab.evi[r]>> : r \in {x \in DOMAIN lab.vrfs[Topology] : lab.evi[x] # 0}}
EvisClear ==
  /\ \A x, y \in FixedEvis : x[2] = y[2] => x[1] = y[1]
  /\ \A x \in FixedEvis : next < x[2] /\ x[2] <= 5000 /\ x[2] \notin GivenIds
  /\ \A i \in GivenIds \cup {next} : i <= 5000
GivenRts == UNION {IF said = Missing THEN {} ELSE said[1] : said \in UNION {{lab.rts[v].import, lab.rts[v].export} : v \in GlobalVlans}}
RtsClear ==
  /\ \A rt \in GivenRts : rt \in GivenRds \/ (\A p \in Owners : rt[1] # lab.as[p]) \/ rt[2] > MaxVrfId
  /\ \A v \in Single : LET rt == <<EvpnAs, OwnEvi(v)>> IN
       /\ rt \notin GivenRds \cup GivenRts
       /\ \A o \in Owners : \A t \in TargetsOf(o) : t.vrf = "" => rt # Own(o, t.rt)

\* A node has the VRFs of its bundles on interfaces, and BGP neighbors list each
\* other, with one type of session for a pair of nodes.
BundlesUsed == \A n \in lab.evpn : \A v \in lab.on[n] : Bundled(v) => lab.vlanVrf[v] \in lab.used[n]
PeersMutual == \A p \in lab.peers :
  /\ \E q \in lab.peers : q.node = p.name /\ q.name = p.node /\ q.type = p.type /\ q.af = p.af
  /\ \A q \in lab.peers : q.node = p.node /\ q.name = p.name => q.type = p.type

ServicesClear == EvisClear /\ RtsClear /\ BundlesUsed /\ PeersMutual

\* A host in a VRF behind one node with addresses in it reaches every EVPN VLAN of
\* that VRF behind another one: the VRFs share a transit segment, or the first node
\* has the VLAN, too (docs/module/evpn.md, "Asymmetric IRB").
IrbReaches == OverlayDone =>
  \A n, m \in lab.evpn : \A v \in Here(m) : LET r == lab.vlanVrf[v] IN
    r \in lab.addressed[n] \cap lab.used[m] => v \in VlansOf(n) \/ (transit[r] > 0 /\ r \in L3Vnis(n) \cap L3Vnis(m))
=============================================================================
