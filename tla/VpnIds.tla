-------------------------------- MODULE VpnIds --------------------------------
(***************************************************************************)
(* Identifiers of VRFs and of their VXLAN segments: netsim/modules/vrf.py,   *)
(* the id sets of modules/_dataplane.py, the VNIs of modules/vxlan.py and    *)
(* modules/evpn.py.  VRFs are defined globally and in nodes; a number of one *)
(* VRF is given by the user, generated, or copied from the global VRF of     *)
(* that name, and route targets are looked up in the VRFs they name.  The    *)
(* hooks run one after the other, and none of them looks at the result.      *)
(*                                                                          *)
(* A lab topology is a record.  An owner is the topology or a node.          *)
(*   nodes   the nodes with these modules, in order                          *)
(*   order   all names of VRFs and VLANs, in the order of the dictionaries   *)
(*   as      bgp.as or vrf.as of an owner                                    *)
(*   vrfs    the VRFs an owner defines, by name: id (0 when missing), rd,     *)
(*           import, export, and vni (evpn.transit_vni)                      *)
(*   used    the VRFs on the interfaces of a node                            *)
(*   pulled  the VRFs named by the VLANs of a node                           *)
(*   vlans   the VLANs of an owner, by name: id, and vni; those of a node are  *)
(*           not global                                                      *)
(* An AS of 0 stands for a number that gets the AS of its owner, and the as   *)
(* of an owner is 0 when it has none, which is an error then.  A missing     *)
(* list of targets is <<>>, a given one <<set>>; a target is the name of a   *)
(* VRF or a number.  A vni is NoVni, AutoVni (True), a number or, as "like", the *)
(* name of another VRF.  Ranges, reserved names, loopbacks, links of VRFs,   *)
(* router ids, the lists of EVPN-enabled VLANs and EVIs are left out.        *)
(***************************************************************************)
EXTENDS Integers, SequencesExt

CONSTANTS
  Labs,
  MaxVrfId,      \* the last VRF id
  StartVni,      \* vxlan.start_vni
  StartTransit   \* evpn.start_transit_vni

ASSUME BoundsAssumption ==
  /\ MaxVrfId \in Nat \ {0}
  /\ StartVni \in Nat \ {0} /\ StartTransit \in Nat \ {0}

Topology == "topology"
NoRd == <<>>           \* no rd in the VRF
EmptyRd == <<0>>       \* an rd without a value
Rds == {NoRd, EmptyRd} \cup (Nat \X Nat)
Missing == <<>>
NoVni == 0
AutoVni == -1          \* vni: True
Disabled == -2         \* vni: False

\* The owners of a lab are its nodes, which are the keys of a dictionary, and
\* the topology; the order has every name, and a VRF that takes the VNI of
\* another one has none of its own.
ASSUME LabsAssumption ==
  \A l \in Labs :
    LET nodes == ToSet(l.nodes)
        names == ToSet(l.order)
    IN  /\ l.nodes \in Seq(nodes) /\ l.order \in Seq(names)
        /\ \A i, j \in DOMAIN l.nodes : l.nodes[i] = l.nodes[j] => i = j
        /\ Topology \notin nodes
        /\ \A o \in nodes \cup {Topology} :
             /\ l.as[o] \in Nat
             /\ DOMAIN l.vrfs[o] \cup DOMAIN l.vlans[o] \subseteq names
             /\ \A v \in DOMAIN l.vrfs[o] :
                  /\ l.vrfs[o][v].id \in Nat /\ l.vrfs[o][v].rd \in Rds /\ l.vrfs[o][v].vni \in Int
                  /\ l.vrfs[o][v].like # "" => l.vrfs[o][v].vni = NoVni
                  /\ \A said \in {l.vrfs[o][v].import, l.vrfs[o][v].export} :
                       said # Missing => \A t \in said[1] : t.vrf = "" => t.rt \in Nat \X Nat
             /\ \A v \in DOMAIN l.vlans[o] : l.vlans[o][v].id \in Nat /\ l.vlans[o][v].vni \in Int
        /\ \A n \in nodes : l.pulled[n] \subseteq names

VARIABLES
  lab,       \* the topology
  stage,     \* the hook that runs next
  k,         \* the owner it runs for, 0 for the topology
  todo,      \* the names of that owner still to be looked at, the first one next
  vrf,       \* the VRFs of every owner: id, rd, import, export
  ids, rds,  \* the sets vrf_id and vrf_rd
  next,      \* the counter of vrf_id
  vnis,      \* the set vni
  nextVni,   \* its counter, or the next transit VNI
  vlanVni,   \* the VNI of every VLAN of every owner
  transit,   \* evpn.transit_vni of every global VRF
  failed     \* an error was reported

vars == <<lab, stage, k, todo, vrf, ids, rds, next, vnis, nextVni, vlanVni, transit, failed>>

Empty == [x \in {} |-> 0]

Nodes == ToSet(lab.nodes)
Owners == Nodes \cup {Topology}
Owner == IF k = 0 THEN Topology ELSE lab.nodes[k]
Names(o) == DOMAIN vrf[o]
IsGlobal(v) == v \in Names(Topology)
HasGlobals == DOMAIN lab.vrfs[Topology] # {}
\* The next name in the order of the dictionaries.
Current == lab.order[Min({i \in DOMAIN lab.order : lab.order[i] \in todo})]
Usable(rd) == rd \notin {NoRd, EmptyRd}
Own(o, rd) == IF Usable(rd) /\ rd[1] = 0 THEN <<lab.as[o], rd[2]>> ELSE rd
New == [id |-> 0, rd |-> NoRd, import |-> Missing, export |-> Missing, vni |-> NoVni, like |-> ""]
Said(o, v) == IF v \in DOMAIN lab.vrfs[o] THEN lab.vrfs[o][v] ELSE New
\* The VLANs of a lab, with their owners.
AllVlans == {s \in Owners \X ToSet(lab.order) : s[2] \in DOMAIN lab.vlans[s[1]]}
StatedVni(s) == lab.vlans[s[1]][s[2]].vni
StaticVnis == {n \in {StatedVni(s) : s \in AllVlans} : n > 0}
StaticTransit == {n \in {lab.vrfs[Topology][v].vni : v \in DOMAIN lab.vrfs[Topology]} : n > 0}

Init ==
  /\ lab \in Labs
  /\ stage = "normalize" /\ k = 0 /\ todo = {}
  /\ vrf = [o \in Owners |-> Empty]
  /\ ids = {} /\ rds = {} /\ next = 1
  /\ vnis = {} /\ nextVni = StartVni
  /\ vlanVni = [o \in Owners |-> [v \in DOMAIN lab.vlans[o] |-> lab.vlans[o][v].vni]]
  /\ transit = [v \in DOMAIN lab.vrfs[Topology] |-> lab.vrfs[Topology][v].vni]
  /\ failed = FALSE

-----------------------------------------------------------------------------
(* Identifiers                                                              *)

\* normalize_vrf_dict: a number gets the AS of the owner of the VRF.
Normalized(o) == [v \in DOMAIN lab.vrfs[o] |->
  [id |-> lab.vrfs[o][v].id, rd |-> Own(o, lab.vrfs[o][v].rd), import |-> Missing, export |-> Missing]]

\* A number without an AS.
LacksAs(o, rd) == Usable(rd) /\ rd[1] = 0 /\ lab.as[o] = 0
IntegerRdError == \E o \in Owners : \E v \in DOMAIN lab.vrfs[o] : LacksAs(o, lab.vrfs[o][v].rd)

\* module_pre_transform, up to its early return, or to its exit_on_error in a lab
\* with global VRFs.
NormalizeVrfIds ==
  /\ stage = "normalize"
  /\ vrf' = [o \in Owners |-> Normalized(o)]
  /\ failed' = (failed \/ IntegerRdError)
  /\ stage' = IF ~HasGlobals THEN "vnis" ELSE IF failed' THEN "aborted" ELSE "register"
  /\ UNCHANGED <<lab, k, todo, ids, rds, next, vnis, nextVni, vlanVni, transit>>

\* populate_vrf_static_ids.
StaticIds == (UNION {{vrf[o][v].id : v \in Names(o)} : o \in Owners}) \ {0}
StaticRds == {rd \in UNION {{vrf[o][v].rd : v \in Names(o)} : o \in Owners} : Usable(rd)}

PopulateVrfStaticIds ==
  /\ stage = "register"
  /\ ids' = StaticIds
  /\ rds' = StaticRds
  /\ stage' = "ids" /\ todo' = Names(Topology)
  /\ UNCHANGED <<lab, k, vrf, next, vnis, nextVni, vlanVni, transit, failed>>

\* A bug: the number is not looked up among the given rds.
FreeIds(a) == {n \in next..MaxVrfId : n \notin ids}

\* get_next_vrf_id: the next number that neither set holds.
Free(a) == {n \in next..MaxVrfId : n \notin ids /\ <<a, n>> \notin rds}

\* What set_vrf_ids leaves to be generated, and what a node takes from the
\* global VRF.
HasBoth(d) == d.id # 0 /\ Usable(d.rd)
Inherits(o, v) == o # Topology /\ IsGlobal(v)
WithGlobalId(v, d) == IF d.id = 0 THEN [d EXCEPT !.id = vrf[Topology][v].id] ELSE d
GlobalRd(o, v, d) == CASE d.rd = NoRd -> vrf[Topology][v].rd
                       [] d.rd = EmptyRd -> <<lab.as[o], d.id>>
                       [] OTHER -> d.rd
Inherited(o, v) == LET d == WithGlobalId(v, vrf[o][v]) IN [d EXCEPT !.rd = GlobalRd(o, v, d)]
Completes(o, rd) == rd = NoRd \/ (rd = EmptyRd /\ lab.as[o] # 0)
NeedsNew(o, v) == ~HasBoth(vrf[o][v]) /\ ~(Inherits(o, v) /\ Completes(o, vrf[o][v].rd))
Generated(d, a, n) == [d EXCEPT !.id = IF @ = 0 THEN n ELSE @, !.rd = IF @ = NoRd THEN <<a, n>> ELSE @]

\* Keeps the work list of the owner going.
Following(work, after) ==
  IF todo # {Current} THEN stage' = work /\ todo' = todo \ {Current}
                   ELSE stage' = after /\ todo' = Names(Owner)

\* set_vrf_ids, a VRF that is complete or takes its numbers from the global one.
KeepOrInheritId ==
  /\ stage = "ids" /\ todo # {}
  /\ ~NeedsNew(Owner, Current)
  /\ vrf' = IF HasBoth(vrf[Owner][Current]) THEN vrf
            ELSE [vrf EXCEPT ![Owner][Current] = Inherited(Owner, Current)]
  /\ Following("ids", "targets")
  /\ UNCHANGED <<lab, k, ids, rds, next, vnis, nextVni, vlanVni, transit, failed>>

\* set_vrf_ids with set_vrf_auto_id: the numbers that were passed over are used.
\* Without an AS, or a number that is left, the command ends.
GenerateId ==
  /\ stage = "ids" /\ todo # {}
  /\ NeedsNew(Owner, Current)
  /\ LET v == Current
         a == lab.as[Owner]
         d == IF Inherits(Owner, v) THEN WithGlobalId(v, vrf[Owner][v]) ELSE vrf[Owner][v]
     IN  IF a = 0 \/ Free(a) = {}
         THEN failed' = TRUE /\ stage' = "aborted" /\ UNCHANGED <<todo, vrf, ids, rds, next>>
         ELSE LET n == Min(Free(a)) IN
              /\ vrf' = [vrf EXCEPT ![Owner][v] = Generated(d, a, n)]
              /\ ids' = ids \cup next..n
              /\ rds' = rds \cup {<<a, n>>}
              /\ next' = n
              /\ Following("ids", "targets")
              /\ UNCHANGED failed
  /\ UNCHANGED <<lab, k, vnis, nextVni, vlanVni, transit>>

-----------------------------------------------------------------------------
(* Route targets                                                            *)

\* get_vrf_id: the global VRF of that name comes first.
Known(o, v) == IsGlobal(v) \/ v \in Names(o)
RdOf(o, v) == IF IsGlobal(v) THEN vrf[Topology][v].rd ELSE vrf[o][v].rd
Resolved(o, targets) ==
  {Own(o, t.rt) : t \in {x \in targets : x.vrf = "" /\ ~LacksAs(o, x.rt)}}
    \cup {RdOf(o, t.vrf) : t \in {x \in targets : x.vrf # "" /\ Known(o, x.vrf) /\ RdOf(o, x.vrf) # EmptyRd}}
\* A bug: a node takes its own rd, not the targets of the global VRF.
TargetsOfOwnRd(o, v, said, global) ==
  IF said # Missing THEN <<Resolved(o, said[1])>> ELSE <<{vrf[o][v].rd}>>

Targets(o, v, said, global) ==
  IF said # Missing THEN <<Resolved(o, said[1])>>
  ELSE IF Inherits(o, v) THEN global
  ELSE <<{vrf[o][v].rd}>>
Unknown(o, v) == \E said \in {Said(o, v).import, Said(o, v).export} :
  said # Missing /\ \E t \in said[1] : IF t.vrf = "" THEN LacksAs(o, t.rt) ELSE ~Known(o, t.vrf)

\* set_import_export_rt, for a VRF.
SetImportExportRt ==
  /\ stage = "targets" /\ todo # {}
  /\ LET v == Current
         global == IF IsGlobal(v) THEN vrf[Topology][v] ELSE New
     IN  /\ vrf' = [vrf EXCEPT ![Owner][v] = [@ EXCEPT
                      !.import = Targets(Owner, v, Said(Owner, v).import, global.import),
                      !.export = Targets(Owner, v, Said(Owner, v).export, global.export)]]
         /\ failed' = (failed \/ Unknown(Owner, v))
  /\ Following("targets", IF k = 0 THEN "vnis" ELSE "node")
  /\ UNCHANGED <<lab, k, ids, rds, next, vnis, nextVni, vlanVni, transit>>

\* node_pre_transform: the VRFs of its VLANs become VRFs of the node.
PullVrfs ==
  /\ stage = "node" /\ k < Len(lab.nodes)
  /\ k' = k + 1
  /\ LET n == lab.nodes[k + 1]
         names == Names(n) \cup lab.pulled[n]
         pulled == [v \in names |-> IF v \in Names(n) THEN vrf[n][v]
                                    ELSE [id |-> 0, rd |-> NoRd, import |-> Missing, export |-> Missing]]
     IN  /\ vrf' = [vrf EXCEPT ![n] = pulled]
         /\ todo' = names
         /\ stage' = IF names = {} THEN "node" ELSE "ids"
  /\ UNCHANGED <<lab, ids, rds, next, vnis, nextVni, vlanVni, transit, failed>>

\* The end of the hooks of the nodes.
EndOfNodes ==
  /\ stage = "node" /\ k = Len(lab.nodes)
  /\ stage' = IF failed THEN "aborted" ELSE "vlans"
  /\ k' = 0 /\ todo' = DOMAIN lab.vlans[Topology]
  /\ UNCHANGED <<lab, vrf, ids, rds, next, vnis, nextVni, vlanVni, transit, failed>>

-----------------------------------------------------------------------------
(* VXLAN segments                                                           *)

\* register_static_vni and register_static_transit_vni.
SameTransit == \E v, w \in DOMAIN transit : v # w /\ transit[v] > 0 /\ transit[v] = transit[w]

RegisterStaticVnis ==
  /\ stage = "vnis"
  /\ vnis' = StaticVnis \cup StaticTransit
  /\ failed' = (failed \/ SameTransit \/ StaticVnis \cap StaticTransit # {})
  /\ stage' = "node"
  /\ UNCHANGED <<lab, k, todo, vrf, ids, rds, next, nextVni, vlanVni, transit>>

\* assign_vni, for a VLAN: the VNI made of the VLAN id if it is free.
NextVni == Min(nextVni..(nextVni + Cardinality(vnis)) \ vnis)
DefaultVni(v) == StartVni + lab.vlans[Owner][v].id

AssignVni ==
  /\ stage = "vlans" /\ todo # {}
  /\ LET v == Current
         taken == DefaultVni(v) \in vnis
         vni == IF taken THEN NextVni ELSE DefaultVni(v)
     IN  IF vlanVni[Owner][v] \in {NoVni, AutoVni}
         THEN /\ vlanVni' = [vlanVni EXCEPT ![Owner][v] = vni]
              /\ vnis' = vnis \cup {vni}
              /\ nextVni' = IF taken THEN vni ELSE nextVni
         ELSE UNCHANGED <<vlanVni, vnis, nextVni>>
  /\ todo' = todo \ {Current}
  /\ UNCHANGED <<lab, stage, k, vrf, ids, rds, next, transit, failed>>

AssignVnisOfNode ==
  /\ stage = "vlans" /\ todo = {} /\ k < Len(lab.nodes)
  /\ k' = k + 1 /\ todo' = DOMAIN lab.vlans[lab.nodes[k + 1]]
  /\ UNCHANGED <<lab, stage, vrf, ids, rds, next, vnis, nextVni, vlanVni, transit, failed>>

EndOfVlans ==
  /\ stage = "vlans" /\ todo = {} /\ k = Len(lab.nodes)
  /\ stage' = "transit" /\ k' = 0 /\ nextVni' = StartTransit
  /\ todo' = Names(Topology)
  /\ UNCHANGED <<lab, vrf, ids, rds, next, vnis, vlanVni, transit, failed>>

\* A bug: given VNIs are not passed over.
NextTransitBlind == nextVni + 1

\* vrf_transit_vni, second pass, with get_next_vni.
NextTransit == Min(((nextVni + 1)..(nextVni + 1 + Cardinality(StaticTransit))) \ StaticTransit)

SetTransitVni ==
  /\ stage = "transit" /\ todo # {}
  /\ LET v == Current
         vni == IF transit[v] = AutoVni THEN nextVni ELSE transit[v]
     IN  /\ transit' = [transit EXCEPT ![v] = vni]
         /\ nextVni' = IF vni = nextVni THEN NextTransit ELSE nextVni
  /\ todo' = todo \ {Current}
  /\ UNCHANGED <<lab, stage, k, vrf, ids, rds, next, vnis, vlanVni, failed>>

EndOfTransit ==
  /\ stage = "transit" /\ todo = {}
  /\ stage' = "shared" /\ todo' = {v \in Names(Topology) : lab.vrfs[Topology][v].like # ""}
  /\ UNCHANGED <<lab, k, vrf, ids, rds, next, vnis, nextVni, vlanVni, transit, failed>>

\* vrf_transit_vni, third pass: a VRF may take the VNI of another one.
ShareTransitVni ==
  /\ stage = "shared" /\ todo # {}
  /\ LET v == Current
         w == lab.vrfs[Topology][v].like
     IN  IF IsGlobal(w) /\ transit[w] > 0
         THEN transit' = [transit EXCEPT ![v] = transit[w]] /\ UNCHANGED failed
         ELSE failed' = TRUE /\ UNCHANGED transit
  /\ todo' = todo \ {Current}
  /\ UNCHANGED <<lab, stage, k, vrf, ids, rds, next, vnis, nextVni, vlanVni>>

-----------------------------------------------------------------------------
(* VRFs in use                                                              *)

\* node_post_link_transform: what a node did not define comes from the global VRF.
MergeGlobalVrfs ==
  /\ stage = "shared" /\ todo = {}
  /\ LET InUse(n) == Names(n) \cup (lab.used[n] \cap Names(Topology))
     IN  vrf' = [o \in Owners |-> IF o = Topology THEN vrf[o]
                                  ELSE [v \in InUse(o) |-> IF v \in Names(o) THEN vrf[o][v] ELSE vrf[Topology][v]]]
  /\ failed' = (failed \/ \E n \in Nodes : \E v \in lab.used[n] : ~Known(n, v))
  /\ stage' = IF failed' THEN "aborted" ELSE "check"
  /\ UNCHANGED <<lab, k, todo, ids, rds, next, vnis, nextVni, vlanVni, transit>>

\* node_post_transform: a VRF on an interface has an rd, a node without any
\* such VRF loses the module.
CheckVrfs ==
  /\ stage = "check"
  /\ failed' = (failed \/ \E n \in Nodes : \E v \in lab.used[n] : ~Usable(vrf[n][v].rd))
  /\ vrf' = [o \in Owners |-> IF o # Topology /\ lab.used[o] = {} THEN Empty ELSE vrf[o]]
  /\ stage' = IF failed' THEN "aborted" ELSE "done"
  /\ UNCHANGED <<lab, k, todo, ids, rds, next, vnis, nextVni, vlanVni, transit>>

Next ==
  \/ NormalizeVrfIds \/ PopulateVrfStaticIds \/ KeepOrInheritId \/ GenerateId
  \/ SetImportExportRt \/ PullVrfs \/ EndOfNodes
  \/ RegisterStaticVnis \/ AssignVni \/ AssignVnisOfNode \/ EndOfVlans
  \/ SetTransitVni \/ EndOfTransit \/ ShareTransitVni
  \/ MergeGlobalVrfs \/ CheckVrfs

Spec == Init /\ [][Next]_vars

-----------------------------------------------------------------------------
(* Properties                                                               *)

VrfData == [id : Nat, rd : Rds, import : Seq(SUBSET Rds), export : Seq(SUBSET Rds)]
Stages == {"normalize", "register", "ids", "targets", "vnis", "node", "vlans", "transit", "shared", "check", "done", "aborted"}

\* Type invariant: owners keep their VRFs and their data, and the names that
\* are left are names of the owner.
TypeOK ==
  /\ stage \in Stages /\ k \in 0..Len(lab.nodes) /\ failed \in BOOLEAN
  /\ DOMAIN vrf = Owners
  /\ \A o \in Owners : vrf[o] \in [Names(o) -> VrfData] /\ Names(o) \subseteq ToSet(lab.order)
  /\ stage # "normalize" => Names(Topology) = DOMAIN lab.vrfs[Topology]
  /\ stage \in {"normalize", "register", "vnis", "transit", "shared"} => k = 0
  /\ stage \in {"ids", "targets"} => todo \subseteq Names(Owner)
  /\ stage = "vlans" => todo \subseteq DOMAIN lab.vlans[Owner]
  /\ stage \in {"transit", "shared"} => todo \subseteq DOMAIN transit
  /\ ids \subseteq Nat \ {0} /\ rds \subseteq Rds /\ next \in 1..MaxVrfId
  /\ vnis \subseteq Nat \ {0} /\ IsFiniteSet(vnis) /\ nextVni \in Nat \ {0}
  /\ DOMAIN vlanVni = Owners
  /\ \A o \in Owners : vlanVni[o] \in [DOMAIN lab.vlans[o] -> Int]
  /\ transit \in [DOMAIN lab.vrfs[Topology] -> Int]

Finished == stage = "done"

\* VRFs with one name are one VRF when a global VRF has that name.
One(o, v, p, w) == v = w /\ (o = p \/ v \in DOMAIN lab.vrfs[Topology])

\* The numbers the user gives belong to one VRF each, a node gives no other id
\* to a global VRF, and only labs with global VRFs give numbers.
GivenRd(o, v) == Own(o, lab.vrfs[o][v].rd)
GivenRds == {rd \in UNION {{GivenRd(o, v) : v \in DOMAIN lab.vrfs[o]} : o \in Owners} : Usable(rd)}
GivenIds == (UNION {{lab.vrfs[o][v].id : v \in DOMAIN lab.vrfs[o]} : o \in Owners}) \ {0}
GivenApart ==
  \A o, p \in Owners : \A v \in DOMAIN lab.vrfs[o], w \in DOMAIN lab.vrfs[p] : ~One(o, v, p, w) =>
    /\ lab.vrfs[o][v].id # 0 => lab.vrfs[o][v].id # lab.vrfs[p][w].id
    /\ Usable(GivenRd(o, v)) => GivenRd(o, v) # GivenRd(p, w)
GivenOnce ==
  \A n \in Nodes : \A v \in DOMAIN lab.vrfs[n] \cap DOMAIN lab.vrfs[Topology] :
    lab.vrfs[n][v].id \in {0, lab.vrfs[Topology][v].id}
GivenWithGlobals == HasGlobals \/ (GivenIds = {} /\ GivenRds = {})

\* An empty rd of a global VRF in a node is made of the AS of the node and the
\* id of the VRF, without a look at the rds in use.
MadeOf(n, v) ==
  LET id == lab.vrfs[Topology][v].id
  IN  IF id # 0 THEN {<<lab.as[n], id>>}
      ELSE IF lab.as[n] = lab.as[Topology] THEN {} ELSE {<<lab.as[n], x>> : x \in 1..MaxVrfId}
EmptyRdsFree ==
  \A n \in Nodes : \A v \in DOMAIN lab.vrfs[n] \cap DOMAIN lab.vrfs[Topology] :
    lab.vrfs[n][v].rd = EmptyRd => MadeOf(n, v) \cap GivenRds = {}

NumbersClear == GivenApart /\ GivenOnce /\ GivenWithGlobals /\ EmptyRdsFree

\* Two VRFs of a lab never end with one route distinguisher or one id, and the
\* id of a VRF is the same on all nodes, whether it was given, generated or
\* inherited, unless the lab already mixes them up (set_vrf_ids, get_next_vrf_id).
VrfsDiffer == Finished /\ NumbersClear =>
  \A n, m \in Nodes : \A v \in lab.used[n], w \in lab.used[m] :
    /\ ~One(n, v, m, w) => vrf[n][v].rd # vrf[m][w].rd
    /\ One(n, v, m, w) = (vrf[n][v].id = vrf[m][w].id)

\* Route targets given as numbers are rds of the lab, or numbers netlab does not
\* generate; an empty rd does not stand in a definition others can name.
TargetsOf(o) == UNION {UNION {IF said = Missing THEN {} ELSE said[1] : said \in {lab.vrfs[o][v].import, lab.vrfs[o][v].export}} : v \in DOMAIN lab.vrfs[o]}
TargetsClear ==
  \A o \in Owners :
    /\ \A t \in TargetsOf(o) : t.vrf = "" =>
         LET rt == Own(o, t.rt) IN
         rt \in GivenRds \/ (\A p \in Owners : rt[1] # lab.as[p]) \/ rt[2] > MaxVrfId
    /\ \A v \in DOMAIN lab.vrfs[o] : lab.vrfs[o][v].rd = EmptyRd => o # Topology /\ v \in DOMAIN lab.vrfs[Topology]

\* What the lab says about the routes of a VRF, without any generated number: a
\* VRF stands for the rd the user gave it or for its name.
Symbol(o, v) == LET rd == Own(o, Said(o, v).rd) IN IF Usable(rd) THEN rd ELSE <<"rd", o, v>>
Meaning(o, t) == IF t.vrf = "" THEN Own(o, t.rt)
                 ELSE Symbol(IF t.vrf \in DOMAIN lab.vrfs[Topology] THEN Topology ELSE o, t.vrf)
SaidOf(o, v, direction) == IF direction = "import" THEN Said(o, v).import ELSE Said(o, v).export
Wanted(n, v, direction) ==
  LET o == IF SaidOf(n, v, direction) = Missing /\ v \in DOMAIN lab.vrfs[Topology] THEN Topology ELSE n
      said == SaidOf(o, v, direction)
  IN  IF said = Missing THEN {Symbol(o, v)} ELSE {Meaning(o, t) : t \in said[1]}

\* The routes of a VRF on a node reach a VRF on a node exactly if the lab says
\* so: what is generated neither connects VRFs nor cuts one in two
\* (set_import_export_rt, get_vrf_id).
RoutesGoAsTold == Finished /\ NumbersClear /\ TargetsClear =>
  \A n, m \in Nodes : \A v \in lab.used[n], w \in lab.used[m] :
    (vrf[n][v].export[1] \cap vrf[m][w].import[1] # {})
      = (Wanted(n, v, "export") \cap Wanted(m, w, "import") # {})

\* The VLANs with a segment.
Vni(s) == vlanVni[s[1]][s[2]]
Segments == {s \in AllVlans : Vni(s) > 0}

\* The VNIs of VLANs, given ones and those netlab may generate, are below those
\* of VRFs, and no VRF is given the first of these.
VnisClear ==
  /\ StartTransit \notin StaticTransit
  /\ \A s \in AllVlans : StatedVni(s) < StartTransit /\ StartVni + lab.vlans[s[1]][s[2]].id < StartTransit
  /\ StartVni + Cardinality(AllVlans) + Cardinality(DOMAIN lab.vrfs[Topology]) < StartTransit

\* No two segments share a VNI, VLANs or VRFs, given or generated, that do not
\* ask for it, and VRFs share one with the VRF they ask for
\* (assign_vni, register_static_transit_vni, vrf_transit_vni).
VnisDiffer == Finished /\ VnisClear =>
  LET Like(v) == lab.vrfs[Topology][v].like IN
  /\ \A s, t \in Segments : Vni(s) = Vni(t) => s = t \/ (StatedVni(s) > 0 /\ StatedVni(s) = StatedVni(t))
  /\ \A s \in Segments : \A v \in DOMAIN transit : Vni(s) # transit[v]
  /\ \A v, w \in DOMAIN transit : v # w /\ Like(v) = "" /\ Like(w) = "" /\ transit[v] > 0 => transit[v] # transit[w]
  /\ \A v \in DOMAIN transit : Like(v) # "" => transit[v] = transit[Like(v)]
=============================================================================
