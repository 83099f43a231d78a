----------------------------- MODULE VpnIds_proofs -----------------------------
(***************************************************************************)
(* Proofs about the identifiers of VRFs and segments, for any labs: VRFs   *)
(* keep different numbers and segments different VNIs, and routes go where *)
(* the lab says, while VXLAN and EVPN do their work between the hooks.     *)
(***************************************************************************)
EXTENDS Overlay, FiniteSetTheorems, WellFoundedInduction, TLAPS

-----------------------------------------------------------------------------
(* The inductive invariant *)

Late == {"vlans", "transit", "shared", "check", "done"}

\* A VRF has its numbers, or still those the lab gives it.
HasNumbers(o, v) == vrf[o][v].id # 0 /\ vrf[o][v].rd # NoRd
AsSaid(o, v) == vrf[o][v].id = Said(o, v).id /\ vrf[o][v].rd = Own(o, Said(o, v).rd)

\* Who has numbers: the names that were taken from the list of the owner, the
\* VRFs of the topology after its turn, those of a node after its turn.
WorkDone == stage = "ids" =>
  \A v \in Names(Owner) : IF v \in todo THEN AsSaid(Owner, v) ELSE HasNumbers(Owner, v)
TopologyDone ==
  /\ stage = "register" => \A v \in Names(Topology) : AsSaid(Topology, v)
  /\ stage \notin {"normalize", "register", "aborted"} /\ (k > 0 \/ stage # "ids") =>
       \A v \in Names(Topology) : HasNumbers(Topology, v)
Over(i) == stage \in Late \/ (stage # "aborted" /\ i < k) \/ (i = k /\ stage \in {"targets", "node"})
NodesDone == \A i \in 1..Len(lab.nodes) : Over(i) => \A v \in Names(lab.nodes[i]) : HasNumbers(lab.nodes[i], v)
NodesWait == stage \notin Late \cup {"normalize", "aborted"} => \A i \in 1..Len(lab.nodes) : i > k =>
  LET n == lab.nodes[i] IN Names(n) = DOMAIN lab.vrfs[n] /\ \A v \in Names(n) : AsSaid(n, v)
UsedKnown ==
  /\ stage \in {"check", "done"} => \A n \in Nodes : lab.used[n] \subseteq Names(n)
  /\ stage = "done" => \A n \in Nodes : \A v \in lab.used[n] : Usable(vrf[n][v].rd)

Progress == WorkDone /\ TopologyDone /\ NodesDone /\ NodesWait /\ UsedKnown

\* The numbers a VRF takes: its id, and that of a generated rd.
Numbers(o, v) ==
  ({vrf[o][v].id} \ {0})
    \cup (IF Usable(vrf[o][v].rd) /\ vrf[o][v].rd \notin GivenRds THEN {vrf[o][v].rd[2]} ELSE {})

\* The sets have every number in use.
Registered == stage \notin {"normalize", "register", "aborted"} =>
  /\ \A o \in Owners : \A v \in Names(o) : Numbers(o, v) \subseteq ids
  /\ GivenRds \subseteq rds /\ GivenIds \subseteq ids

\* Two VRFs have no number in common.
Apart == \A o, p \in Owners : \A v \in Names(o), w \in Names(p) :
  ~One(o, v, p, w) => Numbers(o, v) \cap Numbers(p, w) = {}

\* A given rd is the one of this VRF.
Origins == \A o \in Owners : \A v \in Names(o) : vrf[o][v].rd \in GivenRds =>
  \E p \in Owners : One(o, v, p, v) /\ v \in DOMAIN lab.vrfs[p] /\ vrf[o][v].rd = GivenRd(p, v)

\* A global VRF has one id on all nodes, the given one, or one that makes no
\* given rd.
GlobalIds ==
  /\ \A n \in Nodes : \A v \in Names(n) \cap Names(Topology) : vrf[n][v].id \in {0, vrf[Topology][v].id}
  /\ \A v \in Names(Topology) :
       IF lab.vrfs[Topology][v].id # 0 THEN vrf[Topology][v].id = lab.vrfs[Topology][v].id
       ELSE vrf[Topology][v].id # 0 => vrf[Topology][v].id \in 1..MaxVrfId /\ <<lab.as[Topology], vrf[Topology][v].id>> \notin GivenRds

NumbersApart == Registered /\ Apart /\ Origins /\ GlobalIds
IdInv == NumbersClear => NumbersApart

\* The VNIs the lab gives are registered.
Numbered == stage \in {"node"} \cup Late \/ (stage \in {"ids", "targets"} /\ k > 0)
Stated(v) == lab.vrfs[Topology][v].vni
Like(v) == lab.vrfs[Topology][v].like

VlansBefore == stage \notin Late \cup {"aborted"} =>
  nextVni = StartVni /\ \A s \in AllVlans : Vni(s) = StatedVni(s)
TransitBefore == stage \notin (Late \ {"vlans"}) \cup {"aborted"} =>
  \A v \in DOMAIN transit : transit[v] = Stated(v)

VnisHeld == Numbered => vnis = StaticTransit \cup {Vni(s) : s \in Segments}

SegmentsDiffer == \A s, t \in Segments : Vni(s) = Vni(t) =>
  s = t \/ (StatedVni(s) > 0 /\ StatedVni(s) = StatedVni(t))

NotMixed ==
  /\ StaticVnis \cap StaticTransit = {}
  /\ \A v, w \in DOMAIN transit : v # w /\ Stated(v) > 0 => Stated(v) # Stated(w)
Checked == /\ Numbered => failed \/ NotMixed
           /\ stage \in Late => NotMixed

VlansLow == VnisClear /\ stage \in Late =>
  /\ \A s \in Segments : Vni(s) < StartTransit /\ Vni(s) \notin StaticTransit
  /\ stage = "vlans" => StartVni <= nextVni /\ StartVni..(nextVni - 1) \subseteq vnis

\* The transit VNI of a VRF that does not take that of another one.
Assigned(v) == IF Stated(v) = AutoVni THEN transit[v] >= StartTransit /\ transit[v] \notin StaticTransit ELSE transit[v] = Stated(v)

TransitApart(names) == \A v, w \in names : v # w /\ transit[v] > 0 => transit[v] # transit[w]
OwnVnis == {v \in DOMAIN transit : Like(v) = ""}

TransitDuring == VnisClear /\ stage = "transit" =>
  /\ todo \subseteq DOMAIN transit
  /\ nextVni >= StartTransit /\ nextVni \notin StaticTransit
  /\ \A v \in todo : transit[v] = Stated(v)
  /\ \A v \in DOMAIN transit \ todo : Assigned(v) /\ (Stated(v) = AutoVni => transit[v] < nextVni)
  /\ TransitApart(DOMAIN transit \ todo)

TransitAfter == VnisClear /\ stage \in {"shared", "check", "done"} =>
  /\ \A v \in OwnVnis : Assigned(v)
  /\ TransitApart(OwnVnis)
  /\ \A v \in DOMAIN transit : transit[v] <= 0 \/ transit[v] >= StartTransit \/ transit[v] \in StaticTransit
  /\ stage = "shared" => /\ todo \subseteq DOMAIN transit \ OwnVnis
                         /\ \A v \in todo : transit[v] = NoVni
  /\ \A v \in DOMAIN transit \ OwnVnis : v \in todo \/ failed \/ (Like(v) \in DOMAIN transit /\ transit[v] = transit[Like(v)] /\ transit[v] > 0)
  /\ stage \in {"check", "done"} => todo = {} /\ \A v \in DOMAIN transit \ OwnVnis : Like(v) \in DOMAIN transit /\ transit[v] = transit[Like(v)]

VniInv == VlansBefore /\ TransitBefore /\ VnisHeld /\ SegmentsDiffer /\ Checked /\ VlansLow /\ TransitDuring /\ TransitAfter

\* A VRF that is looked up by name: a global one, or one of a node only.
IsOwn(o, v) == o = Topology \/ v \notin DOMAIN lab.vrfs[Topology]

\* Its rd is the one the lab gives, or a generated one that nobody gives.
SaidRd(o, v) == Own(o, Said(o, v).rd)
MadeUp(o, rd) == Usable(rd) /\ rd \notin GivenRds /\ rd[1] = lab.as[o] /\ rd[2] \in 1..MaxVrfId
Made(o, v) ==
  IF Usable(SaidRd(o, v)) THEN vrf[o][v].rd = SaidRd(o, v)
  ELSE vrf[o][v].rd = NoRd \/ MadeUp(o, vrf[o][v].rd) \/ (vrf[o][v].rd = EmptyRd /\ ~TargetsClear)
AllMade == \A o \in Owners : \A v \in Names(o) : IsOwn(o, v) => Made(o, v)
Defined == stage \notin {"normalize", "done", "aborted"} => \A o \in Owners : DOMAIN lab.vrfs[o] \subseteq Names(o)
MadeInv == NumbersClear => Defined /\ AllMade

\* The targets of a VRF are those the lab asks for, with an rd for each symbol.
Directions == {"import", "export"}
RdFor(s) == IF s \in Rds THEN s ELSE vrf[s[2]][s[3]].rd
Obeys(o, v, direction) == vrf[o][v][direction] = <<{RdFor(s) : s \in Wanted(o, v, direction)}>>
Named(o, s) == \E p \in {Topology, o} : \E w \in Names(p) : s = Symbol(p, w) /\ IsOwn(p, w)
Settled(o, v) == \A d \in Directions : Obeys(o, v, d) /\ \A s \in Wanted(o, v, d) : s \in Rds \/ Named(o, s)

\* Who has targets: the VRFs taken from the list of the owner, those of the
\* topology and of the nodes whose turn is over.
Served(i) == stage \in Late \/ (stage # "aborted" /\ i < k) \/ (i = k /\ stage = "node")
OwnerSettled == stage = "targets" => \A v \in Names(Owner) \ todo : Settled(Owner, v)
TopologySettled == k > 0 \/ stage \in {"vnis", "node"} \cup Late => \A v \in Names(Topology) : Settled(Topology, v)
NodesSettled == \A i \in 1..Len(lab.nodes) : Served(i) => \A v \in Names(lab.nodes[i]) : Settled(lab.nodes[i], v)

TargetsInv == NumbersClear /\ TargetsClear /\ (stage \in Late \/ ~failed) =>
  OwnerSettled /\ TopologySettled /\ NodesSettled
\* VLANs keep the VNIs the lab gives them.
GivenKeptVnis == \A s \in AllVlans : StatedVni(s) \notin {NoVni, AutoVni} => Vni(s) = StatedVni(s)

\* What VXLAN and EVPN have done between the hooks.
TurnsInOrder ==
  /\ turn # "lists" => lab.vxlan \cup lab.evpn # {}
  /\ turn = "floods" => stage = "check"
  /\ turn = "nodes" => stage \in {"check", "done", "aborted"}
  /\ turn = "end" => stage = "done" /\ ~failed
VtepsSet == turn \in {"floods", "nodes", "end"} /\ ~failed =>
  \A n \in lab.vxlan : \A v \in VlansOf(n) : VniOf(n, v) > 0 => vtep[n] # ""
Flooded(n, v) == IF n \in lab.static /\ vtep[n] # "" /\ VniOf(n, v) # NoVni THEN VtepList(n, v) ELSE {}
FloodsSet == turn \in {"nodes", "end"} => \A n \in Nodes : \A v \in VlansOf(n) : flood[n][v] = Flooded(n, v)
IrbChecked == turn = "end" => \A n \in lab.evpn : ~IrbErrors(n)

FabricInv == GivenKeptVnis /\ TurnsInOrder /\ VtepsSet /\ FloodsSet /\ IrbChecked

\* What EVPN has put into its lists and numbers: EVIs are given, or made of the
\* ids of VRFs, services follow the EVIs, and nodes the services.
IdsLow == ids \subseteq GivenIds \cup 1..next
Placed == {"transit", "shared", "check", "done", "aborted"}
EviSet(r) == IF lab.evi[r] # 0 THEN evi[r] = lab.evi[r] ELSE evi[r] \in {0, vrf[Topology][r].id, vrf[Topology][r].id + 5000}
Listing == turn \notin {"lists", "aborted"} =>
  /\ stage \in Placed /\ evpnVlans \subseteq GlobalVlans
  /\ DOMAIN evi = Names(Topology) /\ \A r \in Names(Topology) : EviSet(r)
Serving == turn \notin {"lists", "services", "aborted"} =>
  /\ service = [v \in evpnVlans |-> VlanService(v)]
  /\ \A r \in lab.bundle : evi[r] # 0
Ending == turn = "end" =>
  /\ spoken = UNION {Spoken(n) : n \in lab.evpn} /\ \A n \in lab.evpn : ~AfErrors(n)
  /\ instances = [n \in Nodes |-> IF n \in lab.evpn THEN LocalRds(n) ELSE Empty]

ServiceInv == IdsLow /\ Listing /\ Serving /\ Ending


-----------------------------------------------------------------------------
(* Lemmas about labs and lists of names *)

\* A set of numbers has a least element.
LEMMA MinFact ==
  ASSUME NEW S \in SUBSET Nat, S # {}
  PROVE  Min(S) \in S /\ \A y \in S : Min(S) <= y
  <1> DEFINE B(m) == {x \in S : x < m}
             T == {B(m) : m \in S}
  <1>0. \A x \in S : x \in Nat
    OBVIOUS
  <1>1. T \subseteq FiniteSubsetsOf(S) /\ T # {}
    <2>1. ASSUME NEW m \in S
          PROVE  IsFiniteSet(B(m))
      <3>1. m \in Nat /\ \A s \in B(m) : s \in Nat /\ s <= m
        BY <1>0
      <3>2. B(m) \in SUBSET Nat
        BY <3>1
      <3>3. QED
        BY <3>1, <3>2, FS_BoundedSetOfNaturals
    <2>2. QED
      BY <2>1 DEF FiniteSubsetsOf
  <1>2. PICK t \in T : \A u \in T : <<u, t>> \notin StrictSubsetOrdering(S)
    <2>1. IsWellFoundedOn(StrictSubsetOrdering(S), FiniteSubsetsOf(S))
      BY FS_StrictSubsetOrderingWellFounded
    <2>2. QED
      BY <1>1, <2>1, WFMin
  <1>3. PICK m \in S : t = B(m)
    BY <1>2
  <1>4. B(m) = {}
    <2>1. SUFFICES ASSUME NEW y \in B(m) PROVE FALSE
      OBVIOUS
    <2>2. B(y) \in T /\ B(y) \subseteq B(m) /\ B(y) # B(m)
      <3>1. y \in S /\ y < m /\ y \in Nat /\ m \in Nat
        BY <1>0
      <3>2. y \in B(m) /\ y \notin B(y)
        BY <3>1
      <3>3. \A x \in B(y) : x \in S /\ x < m
        BY <1>0, <3>1
      <3>4. QED
        BY <3>1, <3>2, <3>3
    <2>3. <<B(y), B(m)>> \in StrictSubsetOrdering(S)
      BY <2>2 DEF StrictSubsetOrdering
    <2>4. QED
      BY <1>2, <1>3, <2>2, <2>3
  <1>5. \A y \in S : m <= y
    BY <1>4
  <1>6. QED
    BY <1>5 DEF Min

\* What the assumption about labs says about the lab at hand.
LabOK ==
  /\ Len(lab.nodes) \in Nat
  /\ \A i \in 1..Len(lab.nodes) : lab.nodes[i] \in Nodes
  /\ DOMAIN lab.nodes = 1..Len(lab.nodes)
  /\ \A n \in Nodes : \E i \in 1..Len(lab.nodes) : n = lab.nodes[i]
  /\ \A i, j \in 1..Len(lab.nodes) : lab.nodes[i] = lab.nodes[j] => i = j
  /\ Topology \notin Nodes
  /\ IsFiniteSet(ToSet(lab.order)) /\ DOMAIN lab.order \subseteq Nat
  /\ \A o \in Owners :
       /\ lab.as[o] \in Nat
       /\ DOMAIN lab.vrfs[o] \subseteq ToSet(lab.order) /\ DOMAIN lab.vlans[o] \subseteq ToSet(lab.order)
       /\ \A v \in DOMAIN lab.vrfs[o] :
            /\ lab.vrfs[o][v].id \in Nat /\ lab.vrfs[o][v].rd \in Rds /\ lab.vrfs[o][v].vni \in Int
            /\ lab.vrfs[o][v].like # "" => lab.vrfs[o][v].vni = NoVni
            /\ \A said \in {lab.vrfs[o][v].import, lab.vrfs[o][v].export} :
                 said # Missing => \A t \in said[1] : t.vrf = "" => t.rt \in Nat \X Nat
       /\ \A v \in DOMAIN lab.vlans[o] : lab.vlans[o][v].id \in Nat /\ lab.vlans[o][v].vni \in Int
  /\ \A n \in Nodes : lab.pulled[n] \subseteq ToSet(lab.order)

\* What LabsAssumption says of the lab at hand.
LEMMA LabFacts ==
  ASSUME lab \in Labs
  PROVE  LabOK
<1> DEFINE nodes == ToSet(lab.nodes)
           names == ToSet(lab.order)
<1>1. /\ lab.nodes \in Seq(nodes) /\ lab.order \in Seq(names)
      /\ \A i, j \in DOMAIN lab.nodes : lab.nodes[i] = lab.nodes[j] => i = j
      /\ Topology \notin nodes
      /\ \A o \in nodes \cup {Topology} :
           /\ lab.as[o] \in Nat
           /\ DOMAIN lab.vrfs[o] \cup DOMAIN lab.vlans[o] \subseteq names
           /\ \A v \in DOMAIN lab.vrfs[o] :
                /\ lab.vrfs[o][v].id \in Nat /\ lab.vrfs[o][v].rd \in Rds /\ lab.vrfs[o][v].vni \in Int
                /\ lab.vrfs[o][v].like # "" => lab.vrfs[o][v].vni = NoVni
                /\ \A said \in {lab.vrfs[o][v].import, lab.vrfs[o][v].export} :
                     said # Missing => \A t \in said[1] : t.vrf = "" => t.rt \in Nat \X Nat
           /\ \A v \in DOMAIN lab.vlans[o] : lab.vlans[o][v].id \in Nat /\ lab.vlans[o][v].vni \in Int
      /\ \A n \in nodes : lab.pulled[n] \subseteq names
  BY LabsAssumption, Zenon
<1> HIDE DEF nodes, names
<1>2. /\ DOMAIN lab.order = 1..Len(lab.order) /\ Len(lab.order) \in Nat /\ lab.order \in [DOMAIN lab.order -> names]
      /\ DOMAIN lab.nodes = 1..Len(lab.nodes) /\ Len(lab.nodes) \in Nat
  <2>1. lab.nodes \in Seq(nodes) /\ lab.order \in Seq(names)
    BY <1>1
  <2>. QED
    BY <2>1
<1>3. IsFiniteSet(names)
  <2>1. IsFiniteSet(DOMAIN lab.order)
    BY <1>2, FS_Interval
  <2>2. lab.order \in Surjection(DOMAIN lab.order, names)
    BY <1>2 DEF Surjection, names, ToSet
  <2>. QED
    BY <2>1, <2>2, FS_Surjection
<1> USE DEF nodes, names
<1>4. /\ \A i \in 1..Len(lab.nodes) : lab.nodes[i] \in Nodes
      /\ \A n \in Nodes : \E i \in 1..Len(lab.nodes) : n = lab.nodes[i]
  BY <1>2 DEF Nodes, ToSet
<1>5. Nodes = nodes /\ Owners = nodes \cup {Topology} /\ DOMAIN lab.order \subseteq Nat
  BY <1>2 DEF Nodes, Owners
<1> HIDE DEF nodes
<1>6. \A o \in Owners :
        /\ lab.as[o] \in Nat
        /\ DOMAIN lab.vrfs[o] \subseteq ToSet(lab.order) /\ DOMAIN lab.vlans[o] \subseteq ToSet(lab.order)
  BY <1>1, <1>5
<1>. QED
  BY <1>1, <1>2, <1>3, <1>4, <1>5, <1>6, ZenonT(40) DEF LabOK

\* The next name is one of those that are left.
LEMMA CurrentFact ==
  ASSUME lab \in Labs, todo # {}, todo \subseteq ToSet(lab.order)
  PROVE  Current \in todo
<1> DEFINE S == {i \in DOMAIN lab.order : lab.order[i] \in todo}
<1>1. S \in SUBSET Nat
  BY LabFacts DEF LabOK
<1>2. S # {}
  BY DEF ToSet
<1>3. Min(S) \in S
  BY <1>1, <1>2, MinFact
<1>. QED
  BY <1>3 DEF Current

\* rds with two numbers.
LEMMA RdFact ==
  ASSUME NEW rd \in Rds
  PROVE  /\ Usable(rd) <=> rd \in Nat \X Nat
         /\ Usable(rd) => rd = <<rd[1], rd[2]>> /\ rd[1] \in Nat /\ rd[2] \in Nat
<1>1. \A a, x \in Nat : <<a, x>> # NoRd /\ <<a, x>> # EmptyRd
  BY DEF NoRd, EmptyRd
<1>. QED
  BY <1>1 DEF Rds, Usable

\* A pair of numbers is a route distinguisher that can be used.
LEMMA MadeRd ==
  ASSUME NEW a \in Nat, NEW x \in Nat
  PROVE  <<a, x>> \in Rds /\ Usable(<<a, x>>) /\ <<a, x>>[1] = a /\ <<a, x>>[2] = x
BY DEF Rds, Usable, NoRd, EmptyRd

\* Taking a route distinguisher from the lab as that of an owner keeps its type.
LEMMA OwnFact ==
  ASSUME LabOK, NEW o \in Owners, NEW rd \in Rds
  PROVE  /\ Own(o, rd) \in Rds /\ (Usable(Own(o, rd)) <=> Usable(rd))
         /\ ~Usable(rd) => Own(o, rd) = rd
<1>1. lab.as[o] \in Nat
  BY DEF LabOK
<1>2. CASE Usable(rd)
  BY <1>1, <1>2, RdFact, MadeRd DEF Own
<1>3. CASE ~Usable(rd)
  BY <1>3 DEF Own
<1>. QED
  BY <1>2, <1>3

-----------------------------------------------------------------------------
(* Owners, updates and finite sets *)

\* The owner a hook runs for.
LEMMA OwnerFact ==
  ASSUME LabOK, k \in 0..Len(lab.nodes)
  PROVE  /\ Owner \in Owners /\ Topology \in Owners
         /\ k = 0 => Owner = Topology
         /\ k # 0 => Owner = lab.nodes[k] /\ Owner \in Nodes /\ Owner # Topology
<1>1. /\ Len(lab.nodes) \in Nat /\ Topology \notin Nodes
      /\ \A i \in 1..Len(lab.nodes) : lab.nodes[i] \in Nodes
  BY DEF LabOK
<1>2. CASE k = 0
  BY <1>2 DEF Owner, Owners
<1>3. CASE k # 0
  <2>1. k \in 1..Len(lab.nodes) /\ Owner = lab.nodes[k]
    BY <1>1, <1>3 DEF Owner
  <2>. QED
    BY <1>1, <1>3, <2>1 DEF Owners
<1>. QED
  BY <1>2, <1>3

\* The lab does not change, nor what is made of it.
LEMMA LabKept ==
  ASSUME lab' = lab
  PROVE  /\ Nodes' = Nodes /\ Owners' = Owners /\ HasGlobals' = HasGlobals
         /\ AllVlans' = AllVlans /\ StaticVnis' = StaticVnis /\ StaticTransit' = StaticTransit
         /\ \A o, v : Said(o, v)' = Said(o, v)
<1>1. Nodes' = Nodes /\ Owners' = Owners /\ HasGlobals' = HasGlobals
  BY DEF Nodes, Owners, HasGlobals
<1>2. AllVlans' = AllVlans /\ \A s : StatedVni(s)' = StatedVni(s)
  BY <1>1 DEF AllVlans, StatedVni
<1>3. StaticVnis' = StaticVnis /\ StaticTransit' = StaticTransit
  BY <1>2 DEF StaticVnis, StaticTransit
<1>4. \A o, v : Said(o, v)' = Said(o, v)
  BY DEF Said
<1>. QED
  BY <1>1, <1>2, <1>3, <1>4

\* The VRFs of the owners as functions.
VrfOK ==
  /\ DOMAIN vrf = Owners
  /\ \A o \in Owners : vrf[o] \in [Names(o) -> VrfData] /\ Names(o) \subseteq ToSet(lab.order)

\* What a step does that changes the data of one VRF.
Updates(o, v, d) ==
  /\ DOMAIN vrf' = DOMAIN vrf
  /\ \A p \in Owners : Names(p)' = Names(p) /\ vrf'[p] = [w \in Names(p) |-> vrf'[p][w]]
  /\ vrf'[o][v] = d
  /\ \A p \in Owners : \A w \in Names(p) : p # o \/ w # v => vrf'[p][w] = vrf[p][w]

\* What Update does to one VRF and to all others.
LEMMA UpdateFact ==
  ASSUME VrfOK, NEW o \in Owners, NEW v \in Names(o), NEW d, vrf' = [vrf EXCEPT ![o][v] = d]
  PROVE  Updates(o, v, d)
<1>1. /\ DOMAIN vrf' = DOMAIN vrf
      /\ vrf'[o] = [vrf[o] EXCEPT ![v] = d]
      /\ \A p \in Owners : p # o => vrf'[p] = vrf[p]
  BY DEF VrfOK
<1>2. DOMAIN vrf'[o] = DOMAIN vrf[o] /\ vrf'[o][v] = d /\ \A w \in Names(o) : w # v => vrf'[o][w] = vrf[o][w]
  BY <1>1 DEF Names
<1>3. \A p \in Owners : DOMAIN vrf'[p] = DOMAIN vrf[p]
  BY <1>1, <1>2
<1>4. \A p \in Owners : vrf'[p] = [w \in Names(p) |-> vrf'[p][w]]
  <2>1. \A p \in Owners : vrf[p] = [w \in DOMAIN vrf[p] |-> vrf[p][w]]
    BY DEF VrfOK, Names
  <2>2. vrf'[o] = [w \in DOMAIN vrf[o] |-> vrf'[o][w]]
    BY <1>1
  <2>. QED
    BY <1>1, <2>1, <2>2 DEF Names
<1>. QED
  BY <1>1, <1>2, <1>3, <1>4 DEF Updates, Names

\* An updated VRF of the right type keeps the type of vrf.
LEMMA UpdateType ==
  ASSUME VrfOK, NEW o \in Owners, NEW v \in Names(o), NEW d \in VrfData, Updates(o, v, d), lab' = lab
  PROVE  VrfOK'
<1>1. \A p \in Owners : \A w \in Names(p) : vrf'[p][w] \in VrfData
  BY DEF Updates, VrfOK
<1>2. ASSUME NEW p \in Owners
      PROVE  vrf'[p] \in [Names(p) -> VrfData]
  <2>1. vrf'[p] = [w \in Names(p) |-> vrf'[p][w]]
    BY DEF Updates
  <2>. QED
    BY <1>1, <2>1
<1>3. Owners' = Owners
  BY LabKept
<1>4. \A p \in Owners : Names(p)' = Names(p)
  BY DEF Updates
<1>. QED
  BY <1>2, <1>3, <1>4 DEF Updates, VrfOK

\* Finite sets.
LEMMA FreeNumber ==
  ASSUME NEW S, IsFiniteSet(S), NEW m \in Nat
  PROVE  LET F == (m..(m + Cardinality(S))) \ S IN
         Min(F) \in Nat /\ Min(F) >= m /\ Min(F) \notin S /\ (m..(Min(F) - 1)) \subseteq S
               /\ Min(F) <= m + Cardinality(S)
<1> DEFINE T == m..(m + Cardinality(S))
           F == T \ S
<1>1. Cardinality(S) \in Nat
  BY FS_CardinalityType
<1>2. F # {}
  <2>1. SUFFICES ASSUME T \subseteq S PROVE FALSE
    OBVIOUS
  <2>2. Cardinality(T) <= Cardinality(S)
    BY <2>1, FS_Subset
  <2>3. Cardinality(T) = m + Cardinality(S) - m + 1
    BY <1>1, FS_Interval
  <2>. QED
    BY <1>1, <2>2, <2>3
<1>3. F \in SUBSET Nat
  BY <1>1
<1>4. Min(F) \in F /\ \A y \in F : Min(F) <= y
  BY <1>2, <1>3, MinFact
<1>5. \A y \in m..(Min(F) - 1) : y \in T
  BY <1>1, <1>4
<1>6. ASSUME NEW y \in m..(Min(F) - 1)
      PROVE  y \in S
  <2>1. Min(F) \in Nat /\ ~(Min(F) <= y)
    BY <1>3, <1>4
  <2>. QED
    BY <1>4, <1>5, <2>1
<1>. QED
  BY <1>1, <1>3, <1>4, <1>6

\* There are finitely many owners and VLANs.
LEMMA OwnersFinite ==
  ASSUME LabOK
  PROVE  IsFiniteSet(Owners) /\ IsFiniteSet(AllVlans)
<1>1. IsFiniteSet(1..Len(lab.nodes))
  <2>1. Len(lab.nodes) \in Nat
    BY DEF LabOK
  <2>. QED
    BY <2>1, FS_Interval
<1>2. IsFiniteSet(Nodes)
  <2> DEFINE f == [i \in 1..Len(lab.nodes) |-> lab.nodes[i]]
  <2>1. f \in Surjection(1..Len(lab.nodes), Nodes)
    BY DEF LabOK, Surjection
  <2>. QED
    BY <1>1, <2>1, FS_Surjection
<1>3. IsFiniteSet(Owners)
  BY <1>2, FS_AddElement DEF Owners
<1>4. IsFiniteSet(Owners \X ToSet(lab.order))
  BY <1>3, FS_Product DEF LabOK
<1>5. AllVlans \subseteq Owners \X ToSet(lab.order)
  BY DEF AllVlans
<1>. QED
  BY <1>3, <1>4, <1>5, FS_Subset

\* The VNIs a lab gives are finitely many, and positive.
LEMMA StaticsFinite ==
  ASSUME LabOK
  PROVE  /\ IsFiniteSet(StaticVnis) /\ StaticVnis \subseteq Nat \ {0}
         /\ IsFiniteSet(StaticTransit) /\ StaticTransit \subseteq Nat \ {0}
<1>1. ASSUME NEW s \in AllVlans PROVE StatedVni(s) \in Int
  BY DEF AllVlans, StatedVni, LabOK
<1>2. IsFiniteSet({StatedVni(s) : s \in AllVlans})
  <2> DEFINE f == [s \in AllVlans |-> StatedVni(s)]
  <2>1. f \in Surjection(AllVlans, {StatedVni(s) : s \in AllVlans})
    BY DEF Surjection
  <2>. QED
    BY <2>1, OwnersFinite, FS_Surjection
<1>3. StaticVnis \subseteq Nat \ {0} /\ StaticVnis \subseteq {StatedVni(s) : s \in AllVlans}
  BY <1>1 DEF StaticVnis
<1> DEFINE D == DOMAIN lab.vrfs[Topology]
<1>4. Topology \in Owners
  BY DEF Owners
<1>5. IsFiniteSet(D)
  BY <1>4, FS_Subset DEF LabOK
<1>6. IsFiniteSet({lab.vrfs[Topology][v].vni : v \in D})
  <2> DEFINE f == [v \in D |-> lab.vrfs[Topology][v].vni]
  <2>1. f \in Surjection(D, {lab.vrfs[Topology][v].vni : v \in D})
    BY DEF Surjection
  <2>. QED
    BY <1>5, <2>1, FS_Surjection
<1>7. StaticTransit \subseteq Nat \ {0} /\ StaticTransit \subseteq {lab.vrfs[Topology][v].vni : v \in D}
  <2>1. \A v \in D : lab.vrfs[Topology][v].vni \in Int
    BY <1>4 DEF LabOK
  <2>. QED
    BY <2>1 DEF StaticTransit
<1>. QED
  BY <1>2, <1>3, <1>6, <1>7, FS_Subset

-----------------------------------------------------------------------------
(* Types *)

ControlOK == stage \in Stages /\ k \in 0..Len(lab.nodes) /\ failed \in BOOLEAN
WorkOK ==
  /\ stage # "normalize" => Names(Topology) = DOMAIN lab.vrfs[Topology]
  /\ stage \in {"normalize", "register", "vnis", "transit", "shared"} => k = 0
  /\ stage \in {"ids", "targets"} => todo \subseteq Names(Owner)
  /\ stage = "vlans" => todo \subseteq DOMAIN lab.vlans[Owner]
  /\ stage \in {"transit", "shared"} => todo \subseteq DOMAIN transit
IdsOK == ids \subseteq Nat \ {0} /\ rds \subseteq Rds /\ next \in 1..MaxVrfId
VnisOK ==
  /\ vnis \subseteq Nat \ {0} /\ IsFiniteSet(vnis) /\ nextVni \in Nat \ {0}
  /\ DOMAIN vlanVni = Owners
  /\ \A o \in Owners : vlanVni[o] \in [DOMAIN lab.vlans[o] -> Int]
  /\ transit \in [DOMAIN lab.vrfs[Topology] -> Int]

\* The type invariant, part by part.
LEMMA TypeParts == TypeOK = (ControlOK /\ VrfOK /\ WorkOK /\ IdsOK /\ VnisOK)
BY DEF TypeOK, ControlOK, VrfOK, WorkOK, IdsOK, VnisOK

\* What an action may rely on.
Typed == LabOK /\ ControlOK /\ VrfOK /\ WorkOK /\ IdsOK /\ VnisOK

\* A step that keeps the lab and the position keeps the owner.
LEMMA OwnerKept ==
  ASSUME lab' = lab
  PROVE  k' = k => Owner' = Owner
BY DEF Owner

\* Names that are left are names of the owner.
LEMMA CurrentOwned ==
  ASSUME lab \in Labs, Typed, stage \in {"ids", "targets"}, todo # {}
  PROVE  Owner \in Owners /\ Current \in Names(Owner) /\ Current \in todo
<1>1. Owner \in Owners
  BY OwnerFact DEF Typed, ControlOK
<1>2. todo \subseteq Names(Owner) /\ Names(Owner) \subseteq ToSet(lab.order)
  BY <1>1 DEF Typed, WorkOK, VrfOK
<1>. QED
  BY <1>1, <1>2, CurrentFact

\* VRFs that keep their numbers, or not.
SameVnis == UNCHANGED <<vnis, nextVni, vlanVni, transit>>
SameIds == UNCHANGED <<ids, rds, next>>

\* A step that keeps the variables of the VNIs keeps their types.
LEMMA VnisKept ==
  ASSUME VnisOK, lab' = lab, SameVnis
  PROVE  VnisOK'
BY LabKept DEF VnisOK, SameVnis

\* A step that keeps the sets of numbers keeps their types.
LEMMA IdsKept ==
  ASSUME IdsOK, SameIds
  PROVE  IdsOK'
BY DEF IdsOK, SameIds

\* A step that keeps the VRFs keeps their types.
LEMMA VrfKept ==
  ASSUME VrfOK, UNCHANGED <<lab, vrf>>
  PROVE  VrfOK' /\ \A o : Names(o)' = Names(o)
BY LabKept DEF VrfOK, Names

\* normalize_vrf_ids keeps all types.
LEMMA NormalizeTypes ==
  ASSUME Typed, NormalizeVrfIds
  PROVE  ControlOK' /\ VrfOK' /\ WorkOK' /\ IdsOK' /\ VnisOK'
<1> USE DEF Typed, NormalizeVrfIds
<1>1. ControlOK'
  <2>1. failed' \in BOOLEAN /\ stage' \in {"register", "vnis", "aborted"}
    BY DEF IntegerRdError
  <2>. QED
    BY <2>1 DEF ControlOK, Stages
<1>2. ASSUME NEW o \in Owners
      PROVE  vrf'[o] \in [DOMAIN lab.vrfs[o] -> VrfData] /\ DOMAIN lab.vrfs[o] \subseteq ToSet(lab.order)
  <2>1. /\ DOMAIN lab.vrfs[o] \subseteq ToSet(lab.order)
        /\ \A v \in DOMAIN lab.vrfs[o] : lab.vrfs[o][v].id \in Nat /\ lab.vrfs[o][v].rd \in Rds
    BY DEF LabOK
  <2>2. \A v \in DOMAIN lab.vrfs[o] : Own(o, lab.vrfs[o][v].rd) \in Rds
    BY <2>1, OwnFact
  <2>3. Missing \in Seq(SUBSET Rds)
    BY DEF Missing
  <2>. QED
    BY <2>1, <2>2, <2>3 DEF Normalized, VrfData
<1>3. VrfOK'
  <2>1. \A o \in Owners : DOMAIN vrf'[o] = DOMAIN lab.vrfs[o]
    BY <1>2
  <2>2. DOMAIN vrf' = Owners /\ Owners' = Owners /\ lab' = lab
    BY LabKept
  <2>. QED
    BY <1>2, <2>1, <2>2 DEF VrfOK, Names
<1>4. WorkOK'
  <2>1. Topology \in Owners /\ stage' \in {"register", "vnis", "aborted"}
    BY DEF Owners
  <2>2. Names(Topology)' = DOMAIN lab'.vrfs[Topology]
    BY <1>2, <2>1 DEF Names
  <2>. QED
    BY <2>1, <2>2 DEF WorkOK
<1>. QED
  BY <1>1, <1>3, <1>4, IdsKept, VnisKept DEF SameIds, SameVnis

\* populate_vrf_static_ids keeps all types.
LEMMA PopulateTypes ==
  ASSUME Typed, PopulateVrfStaticIds
  PROVE  ControlOK' /\ VrfOK' /\ WorkOK' /\ IdsOK' /\ VnisOK'
<1> USE DEF Typed, PopulateVrfStaticIds
<1>1. ControlOK'
  BY DEF ControlOK, Stages
<1>2. VrfOK' /\ \A o : Names(o)' = Names(o)
  BY VrfKept
<1>3. WorkOK'
  <2>1. k = 0 /\ Owner' = Owner /\ Owner = Topology
    BY OwnerKept DEF WorkOK, Owner
  <2>. QED
    BY <1>2, <2>1 DEF WorkOK
<1>4. IdsOK'
  <2>1. \A o \in Owners : \A v \in Names(o) : vrf[o][v].id \in Nat /\ vrf[o][v].rd \in Rds
    BY DEF VrfOK, VrfData
  <2>2. StaticIds \subseteq Nat \ {0}
    <3>1. ASSUME NEW x \in StaticIds PROVE x # 0 /\ \E o \in Owners : \E v \in Names(o) : x = vrf[o][v].id
      BY DEF StaticIds
    <3>. QED
      BY <2>1, <3>1
  <2>3. StaticRds \subseteq Rds
    BY <2>1 DEF StaticRds
  <2>. QED
    BY <2>2, <2>3 DEF IdsOK
<1>. QED
  BY <1>1, <1>2, <1>3, <1>4, VnisKept DEF SameVnis

\* Taking the next VRF of a list keeps the types of control.
LEMMA FollowingTypes ==
  ASSUME Typed, stage \in {"ids", "targets"}, UNCHANGED <<lab, k, transit>>,
         NEW work \in {"ids", "targets"}, NEW after \in {"targets", "node", "vnis"},
         Following(work, after), after = "vnis" => k = 0,
         Names(Owner)' = Names(Owner), Names(Topology)' = Names(Topology)
  PROVE  WorkOK' /\ stage' \in Stages
<1>1. /\ Owner' = Owner /\ stage' \in {work, after}
      /\ todo' \subseteq Names(Owner)
  BY OwnerKept DEF Following, Typed, WorkOK
<1>2. Names(Topology)' = DOMAIN lab'.vrfs[Topology]
  BY DEF Typed, WorkOK
<1>. QED
  BY <1>1, <1>2 DEF WorkOK, Stages

\* What a node takes over from the global VRF is a VRF.
LEMMA InheritedType ==
  ASSUME Typed, NEW o \in Owners, NEW v \in Names(o), Inherits(o, v)
  PROVE  WithGlobalId(v, vrf[o][v]) \in VrfData /\ Inherited(o, v) \in VrfData
<1>1. Topology \in Owners /\ v \in Names(Topology)
  BY DEF Owners, Inherits, IsGlobal
<1>2. vrf[o][v] \in VrfData /\ vrf[Topology][v] \in VrfData
  BY <1>1 DEF Typed, VrfOK
<1>3. WithGlobalId(v, vrf[o][v]) \in VrfData
  BY <1>2 DEF WithGlobalId, VrfData
<1>4. lab.as[o] \in Nat
  BY DEF Typed, LabOK
<1> DEFINE d == WithGlobalId(v, vrf[o][v])
<1>5. GlobalRd(o, v, d) \in Rds
  <2>1. d.id \in Nat /\ d.rd \in Rds /\ vrf[Topology][v].rd \in Rds
    BY <1>2, <1>3 DEF VrfData
  <2>2. <<lab.as[o], d.id>> \in Rds
    BY <1>4, <2>1, MadeRd
  <2>. QED
    BY <2>1, <2>2 DEF GlobalRd
<1>. QED
  BY <1>3, <1>5 DEF Inherited, VrfData

\* A VRF that keeps or inherits its numbers keeps all types.
LEMMA KeepTypes ==
  ASSUME lab \in Labs, Typed, KeepOrInheritId
  PROVE  ControlOK' /\ VrfOK' /\ WorkOK' /\ IdsOK' /\ VnisOK'
<1> USE DEF KeepOrInheritId
<1>1. Owner \in Owners /\ Current \in Names(Owner)
  BY CurrentOwned
<1>2. VrfOK' /\ \A o \in Owners : Names(o)' = Names(o)
  <2>1. CASE HasBoth(vrf[Owner][Current])
    BY <2>1, VrfKept DEF Typed
  <2>2. CASE ~HasBoth(vrf[Owner][Current])
    <3>1. Inherits(Owner, Current)
      BY <2>2 DEF NeedsNew
    <3>2. Inherited(Owner, Current) \in VrfData
      BY <1>1, <3>1, InheritedType
    <3>3. Updates(Owner, Current, Inherited(Owner, Current))
      BY <1>1, <2>2, UpdateFact DEF Typed
    <3>. QED
      BY <1>1, <3>2, <3>3, UpdateType DEF Typed, Updates
  <2>. QED
    BY <2>1, <2>2
<1>3. Names(Owner)' = Names(Owner) /\ Names(Topology)' = Names(Topology)
  <2>1. Owner' = Owner
    BY OwnerKept
  <2>. QED
    BY <1>1, <1>2, <2>1 DEF Owners, Names
<1>4. WorkOK' /\ stage' \in Stages
  BY <1>3, FollowingTypes
<1>. QED
  BY <1>2, <1>4, IdsKept, VnisKept DEF Typed, SameIds, SameVnis, ControlOK

\* The next free number.
LEMMA FreeFact ==
  ASSUME Typed, NEW a, Free(a) # {}
  PROVE  LET n == Min(Free(a)) IN n \in next..MaxVrfId /\ n \in 1..MaxVrfId /\ n \notin ids /\ <<a, n>> \notin rds
<1>1. Free(a) \in SUBSET Nat /\ Free(a) \subseteq 1..MaxVrfId
  BY BoundsAssumption DEF Free, Typed, IdsOK
<1>2. Min(Free(a)) \in Free(a)
  BY <1>1, MinFact
<1>. QED
  BY <1>1, <1>2 DEF Free

\* A VRF that gets a generated id keeps all types.
LEMMA GenerateTypes ==
  ASSUME lab \in Labs, Typed, GenerateId
  PROVE  ControlOK' /\ VrfOK' /\ WorkOK' /\ IdsOK' /\ VnisOK'
<1> DEFINE v == Current
           a == lab.as[Owner]
           d == IF Inherits(Owner, v) THEN WithGlobalId(v, vrf[Owner][v]) ELSE vrf[Owner][v]
           n == Min(Free(a))
<1>1. Owner \in Owners /\ v \in Names(Owner)
  BY CurrentOwned DEF GenerateId
<1>2. CASE a = 0 \/ Free(a) = {}
  <2>1. UNCHANGED <<lab, k, vrf, ids, rds, next, vnis, nextVni, vlanVni, transit>> /\ stage' = "aborted" /\ failed' = TRUE /\ stage = "ids"
    BY <1>2 DEF GenerateId
  <2>2. VrfOK' /\ \A o : Names(o)' = Names(o)
    BY <2>1, VrfKept DEF Typed
  <2>. QED
    BY <2>1, <2>2, IdsKept, VnisKept DEF Typed, SameIds, SameVnis, ControlOK, WorkOK, Stages
<1>3. CASE ~(a = 0 \/ Free(a) = {})
  <2>1. /\ vrf' = [vrf EXCEPT ![Owner][v] = Generated(d, a, n)]
        /\ ids' = ids \cup next..n /\ rds' = rds \cup {<<a, n>>} /\ next' = n
        /\ Following("ids", "targets") /\ stage = "ids"
        /\ UNCHANGED <<lab, k, failed, vnis, nextVni, vlanVni, transit>>
    BY <1>3 DEF GenerateId
  <2>2. n \in 1..MaxVrfId /\ n \in Nat /\ a \in Nat
    <3>1. a \in Nat
      BY <1>1 DEF Typed, LabOK
    <3>2. n \in 1..MaxVrfId
      BY <1>3, FreeFact
    <3>. QED
      BY <3>1, <3>2
  <2>3. d \in VrfData
    BY <1>1, InheritedType DEF Typed, VrfOK
  <2>4. Generated(d, a, n) \in VrfData
    <3>1. <<a, n>> \in Rds
      BY <2>2, MadeRd
    <3>. QED
      BY <2>2, <2>3, <3>1 DEF Generated, VrfData
  <2>5. Updates(Owner, v, Generated(d, a, n))
    BY <1>1, <2>1, UpdateFact DEF Typed
  <2>6. VrfOK'
    BY <1>1, <2>1, <2>4, <2>5, UpdateType DEF Typed
  <2>7. Names(Owner)' = Names(Owner) /\ Names(Topology)' = Names(Topology)
    <3>1. Owner' = Owner
      BY <2>1, OwnerKept
    <3>. QED
      BY <1>1, <2>5, <3>1 DEF Owners, Names, Updates
  <2>8. WorkOK' /\ stage' \in Stages
    BY <2>1, <2>7, FollowingTypes
  <2>9. IdsOK'
    <3>1. \A x \in next..n : x \in Nat \ {0}
      BY <2>2 DEF Typed, IdsOK
    <3>2. <<a, n>> \in Rds
      BY <2>2, MadeRd
    <3>. QED
      BY <2>1, <2>2, <3>1, <3>2 DEF Typed, IdsOK
  <2>. QED
    BY <2>1, <2>6, <2>8, <2>9, VnisKept DEF Typed, SameVnis, ControlOK
<1>. QED
  BY <1>2, <1>3

\* Targets are rds.
LEMMA ResolvedType ==
  ASSUME Typed, NEW o \in Owners, NEW v \in Names(o), NEW said \in {Said(o, v).import, Said(o, v).export},
         said # Missing
  PROVE  Resolved(o, said[1]) \in SUBSET Rds
<1>1. \A t \in said[1] : t.vrf = "" => Own(o, t.rt) \in Rds
  <2>1. v \in DOMAIN lab.vrfs[o]
    BY DEF Said, New
  <2>2. said \in {lab.vrfs[o][v].import, lab.vrfs[o][v].export}
    BY <2>1 DEF Said
  <2>3. \A x \in {lab.vrfs[o][v].import, lab.vrfs[o][v].export} :
          x # Missing => \A t \in x[1] : t.vrf = "" => t.rt \in Nat \X Nat
    BY <2>1, ZenonT(40) DEF Typed, LabOK
  <2>4. Nat \X Nat \subseteq Rds
    BY DEF Rds
  <2>. QED
    BY <2>2, <2>3, <2>4, OwnFact DEF Typed
<1>2. ASSUME NEW w, Known(o, w) PROVE RdOf(o, w) \in Rds
  <2>1. Topology \in Owners
    BY DEF Owners
  <2>. QED
    BY <1>2, <2>1 DEF Known, RdOf, IsGlobal, Typed, VrfOK, VrfData
<1>. QED
  BY <1>1, <1>2 DEF Resolved

\* Setting the targets of a VRF keeps all types.
LEMMA TargetsTypes ==
  ASSUME lab \in Labs, Typed, SetImportExportRt
  PROVE  ControlOK' /\ VrfOK' /\ WorkOK' /\ IdsOK' /\ VnisOK'
<1> DEFINE v == Current
           global == IF IsGlobal(v) THEN vrf[Topology][v] ELSE New
           i == Targets(Owner, v, Said(Owner, v).import, global.import)
           e == Targets(Owner, v, Said(Owner, v).export, global.export)
           d == [vrf[Owner][v] EXCEPT !.import = i, !.export = e]
<1>1. Owner \in Owners /\ v \in Names(Owner) /\ vrf[Owner][v] \in VrfData
  <2>1. Owner \in Owners /\ v \in Names(Owner)
    BY CurrentOwned DEF SetImportExportRt
  <2>. QED
    BY <2>1 DEF Typed, VrfOK
<1>2. ASSUME NEW said \in {Said(Owner, v).import, Said(Owner, v).export}, NEW g, g \in Seq(SUBSET Rds) \/ ~IsGlobal(v)
      PROVE  Targets(Owner, v, said, g) \in Seq(SUBSET Rds)
  <2>1. CASE said # Missing
    <3>1. Resolved(Owner, said[1]) \in SUBSET Rds
      BY <1>1, <2>1, ResolvedType
    <3>. QED
      BY <2>1, <3>1 DEF Targets
  <2>2. CASE said = Missing
    <3>1. vrf[Owner][v].rd \in Rds
      BY <1>1 DEF VrfData
    <3>2. <<{vrf[Owner][v].rd}>> \in Seq(SUBSET Rds)
      BY <3>1
    <3>3. Targets(Owner, v, said, g) \in {g, <<{vrf[Owner][v].rd}>>} /\ (~IsGlobal(v) => Targets(Owner, v, said, g) = <<{vrf[Owner][v].rd}>>)
      BY <2>2 DEF Targets, Inherits
    <3>. QED
      BY <1>2, <3>2, <3>3
  <2>. QED
    BY <2>1, <2>2
<1>3. d \in VrfData
  <2>1. IsGlobal(v) => global.import \in Seq(SUBSET Rds) /\ global.export \in Seq(SUBSET Rds)
    <3>1. Topology \in Owners
      BY DEF Owners
    <3>. QED
      BY <3>1 DEF IsGlobal, Typed, VrfOK, VrfData
  <2>2. i \in Seq(SUBSET Rds) /\ e \in Seq(SUBSET Rds)
    BY <1>2, <2>1
  <2> HIDE DEF i, e
  <2>. QED
    BY <1>1, <2>2 DEF VrfData
<1>4. Updates(Owner, v, d)
  <2>1. vrf' = [vrf EXCEPT ![Owner][v] = d]
    BY DEF SetImportExportRt
  <2> HIDE DEF d, v
  <2>. QED
    BY <1>1, <2>1, UpdateFact DEF Typed
<1> HIDE DEF d, v
<1>5. VrfOK'
  BY <1>1, <1>3, <1>4, UpdateType DEF Typed, SetImportExportRt
<1>6. Names(Owner)' = Names(Owner) /\ Names(Topology)' = Names(Topology)
  <2>1. Owner' = Owner
    BY OwnerKept DEF SetImportExportRt
  <2>. QED
    BY <1>1, <1>4, <2>1 DEF Owners, Names, Updates
<1>7. WorkOK' /\ stage' \in Stages
  <2> DEFINE after == IF k = 0 THEN "vnis" ELSE "node"
  <2>1. Following("targets", after) /\ after \in {"targets", "node", "vnis"} /\ (after = "vnis" => k = 0)
    BY DEF SetImportExportRt
  <2> HIDE DEF after
  <2>. QED
    BY <1>6, <2>1, FollowingTypes DEF SetImportExportRt
<1>8. failed' \in BOOLEAN
  BY DEF SetImportExportRt, Typed, ControlOK, Unknown
<1>. QED
  BY <1>5, <1>7, <1>8, IdsKept, VnisKept DEF Typed, SameIds, SameVnis, ControlOK, SetImportExportRt

\* What a step does that replaces the VRFs of an owner.
LEMMA PullFacts ==
  ASSUME Typed, PullVrfs
  PROVE  LET n == lab.nodes[k + 1]
             names == Names(n) \cup lab.pulled[n]
             pulled == [v \in names |-> IF v \in Names(n) THEN vrf[n][v]
                                        ELSE [id |-> 0, rd |-> NoRd, import |-> Missing, export |-> Missing]]
         IN  /\ n \in Nodes /\ k' \in 1..Len(lab.nodes) /\ Owner' = n
             /\ DOMAIN vrf' = Owners /\ vrf'[n] = pulled
             /\ \A o \in Owners : o # n => vrf'[o] = vrf[o]
<1>1. k + 1 \in 1..Len(lab.nodes) /\ Len(lab.nodes) \in Nat
  <2>1. Len(lab.nodes) \in Nat
    BY DEF Typed, LabOK
  <2>. QED
    BY <2>1 DEF Typed, ControlOK, PullVrfs
<1>2. lab.nodes[k + 1] \in Nodes
  BY <1>1 DEF Typed, LabOK
<1>3. Owner' = lab.nodes[k + 1]
  BY <1>1 DEF PullVrfs, Owner
<1>. QED
  BY <1>1, <1>2, <1>3 DEF PullVrfs, Typed, VrfOK, Owners

\* Pulling VRFs into a node keeps all types.
LEMMA PullTypes ==
  ASSUME Typed, PullVrfs
  PROVE  ControlOK' /\ VrfOK' /\ WorkOK' /\ IdsOK' /\ VnisOK'
<1> DEFINE n == lab.nodes[k + 1]
           names == Names(n) \cup lab.pulled[n]
           pulled == [v \in names |-> IF v \in Names(n) THEN vrf[n][v]
                                      ELSE [id |-> 0, rd |-> NoRd, import |-> Missing, export |-> Missing]]
<1>1. /\ n \in Nodes /\ k' \in 1..Len(lab.nodes) /\ Owner' = n
      /\ DOMAIN vrf' = Owners /\ vrf'[n] = pulled
      /\ \A o \in Owners : o # n => vrf'[o] = vrf[o]
  BY PullFacts
<1>2. pulled \in [names -> VrfData] /\ names \subseteq ToSet(lab.order)
  <2>1. n \in Owners /\ lab.pulled[n] \subseteq ToSet(lab.order)
    BY <1>1 DEF Owners, Typed, LabOK
  <2>2. vrf[n] \in [Names(n) -> VrfData] /\ Names(n) \subseteq ToSet(lab.order)
    BY <2>1 DEF Typed, VrfOK
  <2>3. [id |-> 0, rd |-> NoRd, import |-> Missing, export |-> Missing] \in VrfData
    BY DEF VrfData, Rds, Missing
  <2>. QED
    BY <2>1, <2>2, <2>3
<1>3. /\ UNCHANGED <<lab, ids, rds, next, vnis, nextVni, vlanVni, transit, failed>>
      /\ stage' \in {"node", "ids"} /\ stage = "node" /\ todo' = names
  BY DEF PullVrfs
<1> HIDE DEF names, pulled, n
<1>4. VrfOK'
  <2>1. Owners' = Owners
    BY <1>3, LabKept
  <2>2. ASSUME NEW o \in Owners
        PROVE  vrf'[o] \in [Names(o)' -> VrfData] /\ Names(o)' \subseteq ToSet(lab.order)
    <3>1. CASE o = n
      BY <1>1, <1>2, <3>1 DEF Names
    <3>2. CASE o # n
      BY <1>1, <3>2 DEF Names, Typed, VrfOK
    <3>. QED
      BY <3>1, <3>2
  <2>. QED
    BY <1>1, <1>3, <2>1, <2>2 DEF VrfOK
<1>5. WorkOK'
  <2>1. n # Topology /\ Topology \in Owners
    BY <1>1 DEF Typed, LabOK, Owners
  <2>2. Names(Topology)' = DOMAIN lab'.vrfs[Topology]
    BY <1>1, <1>3, <2>1 DEF Names, Typed, WorkOK
  <2>3. Names(Owner)' = names
    BY <1>1, <1>2 DEF Names
  <2>. QED
    BY <1>3, <2>2, <2>3 DEF WorkOK
<1>. QED
  BY <1>1, <1>3, <1>4, <1>5, IdsKept, VnisKept DEF Typed, SameIds, SameVnis, ControlOK, Stages

\* The ends of the hooks of VRFs keep all types.
LEMMA HookTypes ==
  ASSUME Typed, EndOfNodes \/ RegisterStaticVnis
  PROVE  ControlOK' /\ VrfOK' /\ WorkOK' /\ IdsOK' /\ VnisOK'
<1>1. UNCHANGED <<lab, vrf, ids, rds, next, nextVni, vlanVni, transit>>
  BY DEF EndOfNodes, RegisterStaticVnis
<1>2. VrfOK' /\ \A o : Names(o)' = Names(o)
  BY <1>1, VrfKept DEF Typed
<1>3. CASE EndOfNodes
  <2>1. ControlOK' /\ Owner' = Topology
    <3>1. Len(lab.nodes) \in Nat
      BY DEF Typed, LabOK
    <3>. QED
      BY <1>3, <3>1 DEF EndOfNodes, Typed, ControlOK, Stages, Owner
  <2>2. WorkOK'
    BY <1>2, <1>3, <2>1 DEF EndOfNodes, Typed, WorkOK
  <2>. QED
    BY <1>1, <1>2, <1>3, <2>1, <2>2, IdsKept, VnisKept DEF Typed, SameIds, SameVnis, EndOfNodes
<1>4. CASE RegisterStaticVnis
  <2>1. ControlOK'
    BY <1>4 DEF RegisterStaticVnis, Typed, ControlOK, Stages, SameTransit
  <2>2. WorkOK'
    BY <1>2, <1>4 DEF RegisterStaticVnis, Typed, WorkOK
  <2>3. VnisOK'
    <3>1. vnis' \subseteq Nat \ {0} /\ IsFiniteSet(vnis')
      BY <1>4, StaticsFinite, FS_Union DEF RegisterStaticVnis, Typed
    <3>. QED
      BY <1>1, <3>1, LabKept DEF Typed, VnisOK
  <2>. QED
    BY <1>1, <1>2, <2>1, <2>2, <2>3, IdsKept DEF Typed, SameIds
<1>. QED
  BY <1>3, <1>4

\* The list of VLANs or VRFs a step of the VNIs works on.
LEMMA CurrentVlan ==
  ASSUME lab \in Labs, Typed, stage \in {"vlans", "transit", "shared"}, todo # {}
  PROVE  /\ Current \in todo /\ Owner \in Owners
         /\ stage = "vlans" => Current \in DOMAIN lab.vlans[Owner] /\ Current \in ToSet(lab.order)
         /\ stage # "vlans" => Current \in DOMAIN lab.vrfs[Topology] /\ Current \in DOMAIN transit
<1>1. Owner \in Owners /\ Topology \in Owners
  BY OwnerFact DEF Typed, ControlOK
<1>2. DOMAIN lab.vlans[Owner] \subseteq ToSet(lab.order) /\ DOMAIN lab.vrfs[Topology] \subseteq ToSet(lab.order)
  BY <1>1 DEF Typed, LabOK
<1>3. DOMAIN transit = DOMAIN lab.vrfs[Topology]
  BY DEF Typed, VnisOK
<1>4. todo \subseteq ToSet(lab.order)
  BY <1>1, <1>2, <1>3 DEF Typed, WorkOK
<1>5. Current \in todo
  BY <1>4, CurrentFact
<1>. QED
  BY <1>1, <1>2, <1>3, <1>5 DEF Typed, WorkOK

\* The VNI of a VLAN: made of its id, or the next one that is free.
LEMMA NextVniFact ==
  ASSUME Typed
  PROVE  /\ NextVni \in Nat \ {0} /\ NextVni \notin vnis /\ NextVni >= nextVni
         /\ nextVni..(NextVni - 1) \subseteq vnis /\ NextVni <= nextVni + Cardinality(vnis)
<1>1. IsFiniteSet(vnis) /\ nextVni \in Nat /\ nextVni > 0
  BY DEF Typed, VnisOK
<1>2. /\ NextVni \in Nat /\ NextVni \notin vnis /\ NextVni >= nextVni
      /\ nextVni..(NextVni - 1) \subseteq vnis /\ NextVni <= nextVni + Cardinality(vnis)
  BY <1>1, FreeNumber DEF NextVni
<1>. QED
  BY <1>1, <1>2

\* What a step that gives a VNI to a VLAN does to it and to the others.
Assigns(v, vni) ==
  /\ vlanVni'[Owner] = [vlanVni[Owner] EXCEPT ![v] = vni]
  /\ \A o \in Owners : o # Owner => vlanVni'[o] = vlanVni[o]
  /\ DOMAIN vlanVni' = Owners

\* Giving a VLAN its VNI keeps all types.
LEMMA AssignTypes ==
  ASSUME lab \in Labs, Typed, AssignVni
  PROVE  ControlOK' /\ VrfOK' /\ WorkOK' /\ IdsOK' /\ VnisOK'
<1> DEFINE v == Current
           taken == DefaultVni(v) \in vnis
           vni == IF taken THEN NextVni ELSE DefaultVni(v)
<1>1. Owner \in Owners /\ v \in todo /\ v \in DOMAIN lab.vlans[Owner]
  BY CurrentVlan DEF AssignVni
<1>2. /\ UNCHANGED <<lab, stage, k, vrf, ids, rds, next, transit, failed>>
      /\ stage = "vlans" /\ todo' = todo \ {v}
  BY DEF AssignVni
<1>3. VrfOK' /\ \A o : Names(o)' = Names(o)
  BY <1>2, VrfKept DEF Typed
<1>4. ControlOK'
  BY <1>2 DEF Typed, ControlOK
<1>5. WorkOK'
  BY <1>2, <1>3, OwnerKept DEF Typed, WorkOK
<1>6. VnisOK'
  <2>1. CASE vlanVni[Owner][v] \in {NoVni, AutoVni}
    <3>1. /\ vlanVni' = [vlanVni EXCEPT ![Owner][v] = vni]
          /\ vnis' = vnis \cup {vni}
          /\ nextVni' = IF taken THEN vni ELSE nextVni
      BY <2>1 DEF AssignVni
    <3>2. DefaultVni(v) \in Nat \ {0}
      <4>1. lab.vlans[Owner][v].id \in Nat
        BY <1>1 DEF Typed, LabOK
      <4>. QED
        BY <4>1, BoundsAssumption DEF DefaultVni
    <3>3. vni \in Nat \ {0}
      BY <3>2, NextVniFact
    <3> HIDE DEF v, vni, taken
    <3>4. vnis' \subseteq Nat \ {0} /\ IsFiniteSet(vnis') /\ nextVni' \in Nat \ {0}
      BY <3>1, <3>3, FS_AddElement DEF Typed, VnisOK
    <3>5. Assigns(v, vni)
      BY <1>1, <3>1 DEF Assigns, Typed, VnisOK
    <3>6. \A o \in Owners : vlanVni'[o] \in [DOMAIN lab.vlans[o] -> Int]
      <4>1. vlanVni[Owner] \in [DOMAIN lab.vlans[Owner] -> Int] /\ vni \in Int
        BY <1>1, <3>3 DEF Typed, VnisOK
      <4>2. vlanVni'[Owner] \in [DOMAIN lab.vlans[Owner] -> Int]
        BY <3>5, <4>1 DEF Assigns
      <4>. QED
        BY <3>5, <4>2 DEF Typed, VnisOK, Assigns
    <3>. QED
      BY <1>2, <3>4, <3>5, <3>6, LabKept DEF VnisOK, Typed, Assigns
  <2>2. CASE vlanVni[Owner][v] \notin {NoVni, AutoVni}
    BY <1>2, <2>2, VnisKept DEF Typed, SameVnis, AssignVni
  <2>. QED
    BY <2>1, <2>2
<1>. QED
  BY <1>2, <1>3, <1>4, <1>5, <1>6, IdsKept DEF Typed, SameIds

\* The hooks about VLANs keep all types.
LEMMA VlanHookTypes ==
  ASSUME Typed, AssignVnisOfNode \/ EndOfVlans \/ EndOfTransit
  PROVE  ControlOK' /\ VrfOK' /\ WorkOK' /\ IdsOK' /\ VnisOK'
<1>1. UNCHANGED <<lab, vrf, ids, rds, next, vnis, vlanVni, transit, failed>>
  BY DEF AssignVnisOfNode, EndOfVlans, EndOfTransit
<1>2. VrfOK' /\ \A o : Names(o)' = Names(o)
  BY <1>1, VrfKept DEF Typed
<1>3. IdsOK'
  BY <1>1, IdsKept DEF Typed, SameIds
<1>4. VnisOK'
  <2>1. nextVni' \in Nat \ {0}
    BY BoundsAssumption DEF AssignVnisOfNode, EndOfVlans, EndOfTransit, Typed, VnisOK
  <2>. QED
    BY <1>1, <2>1, LabKept DEF Typed, VnisOK
<1>5. Len(lab.nodes) \in Nat
  BY DEF Typed, LabOK
<1>6. DOMAIN transit = DOMAIN lab.vrfs[Topology]
  BY DEF Typed, VnisOK
<1>7. CASE AssignVnisOfNode
  <2>1. ControlOK' /\ k' # 0
    BY <1>1, <1>5, <1>7 DEF AssignVnisOfNode, Typed, ControlOK
  <2>2. Owner' = lab.nodes[k + 1]
    BY <1>7, <2>1 DEF AssignVnisOfNode, Owner
  <2>3. WorkOK'
    BY <1>1, <1>2, <1>7, <2>2 DEF AssignVnisOfNode, Typed, WorkOK
  <2>. QED
    BY <1>2, <1>3, <1>4, <2>1, <2>3
<1>8. CASE EndOfVlans
  BY <1>1, <1>2, <1>3, <1>4, <1>5, <1>6, <1>8 DEF EndOfVlans, Typed, ControlOK, WorkOK, Stages
<1>9. CASE EndOfTransit
  BY <1>1, <1>2, <1>3, <1>4, <1>5, <1>6, <1>9 DEF EndOfTransit, Typed, ControlOK, WorkOK, Stages
<1>. QED
  BY <1>7, <1>8, <1>9

\* The next transit VNI is none of the given ones.
LEMMA NextTransitFact ==
  ASSUME Typed
  PROVE  NextTransit \in Nat \ {0} /\ NextTransit > nextVni /\ NextTransit \notin StaticTransit
<1>1. nextVni + 1 \in Nat /\ nextVni \in Nat
  BY DEF Typed, VnisOK
<1>2. IsFiniteSet(StaticTransit)
  BY StaticsFinite DEF Typed
<1>3. NextTransit \in Nat /\ NextTransit >= nextVni + 1 /\ NextTransit \notin StaticTransit
  BY <1>1, <1>2, FreeNumber DEF NextTransit
<1>. QED
  BY <1>1, <1>3

\* The actions on transit VNIs keep all types.
LEMMA TransitTypes ==
  ASSUME lab \in Labs, Typed, SetTransitVni \/ ShareTransitVni
  PROVE  ControlOK' /\ VrfOK' /\ WorkOK' /\ IdsOK' /\ VnisOK'
<1>1. /\ UNCHANGED <<lab, stage, k, vrf, ids, rds, next, vnis, vlanVni>>
      /\ stage \in {"transit", "shared"} /\ todo # {} /\ todo' = todo \ {Current}
  BY DEF SetTransitVni, ShareTransitVni
<1>2. VrfOK' /\ \A o : Names(o)' = Names(o)
  BY <1>1, VrfKept DEF Typed
<1>3. Current \in DOMAIN transit
  BY <1>1, CurrentVlan
<1>4. transit \in [DOMAIN lab.vrfs[Topology] -> Int] /\ nextVni \in Nat \ {0}
  BY DEF Typed, VnisOK
<1>5. transit' \in [DOMAIN lab.vrfs[Topology] -> Int] /\ nextVni' \in Nat \ {0} /\ failed' \in BOOLEAN
  <2>1. CASE SetTransitVni
    <3>1. failed' \in BOOLEAN
      BY <2>1 DEF SetTransitVni, Typed, ControlOK
    <3>. QED
      BY <1>3, <1>4, <2>1, <3>1, NextTransitFact DEF SetTransitVni
  <2>2. CASE ShareTransitVni
    <3>1. failed' \in BOOLEAN /\ nextVni' = nextVni
      BY <2>2 DEF ShareTransitVni, Typed, ControlOK
    <3>2. Names(Topology) = DOMAIN lab.vrfs[Topology]
      BY <1>1 DEF Typed, WorkOK
    <3>. QED
      BY <1>3, <1>4, <2>2, <3>1, <3>2 DEF ShareTransitVni, IsGlobal
  <2>. QED
    BY <2>1, <2>2 DEF SetTransitVni, ShareTransitVni
<1>6. ControlOK'
  BY <1>1, <1>5 DEF Typed, ControlOK
<1>7. WorkOK'
  <2>1. DOMAIN transit' = DOMAIN transit
    BY <1>4, <1>5
  <2>. QED
    BY <1>1, <1>2, <2>1 DEF Typed, WorkOK
<1>8. VnisOK'
  BY <1>1, <1>5, LabKept DEF Typed, VnisOK
<1>. QED
  BY <1>1, <1>2, <1>6, <1>7, <1>8, IdsKept DEF Typed, SameIds

\* The VRFs a node uses, and the final check, keep all types.
LEMMA UseTypes ==
  ASSUME Typed, MergeGlobalVrfs \/ CheckVrfs
  PROVE  ControlOK' /\ VrfOK' /\ WorkOK' /\ IdsOK' /\ VnisOK'
<1>1. /\ UNCHANGED <<lab, k, todo, ids, rds, next, vnis, nextVni, vlanVni, transit>>
      /\ stage' \in {"aborted", "check", "done"} /\ stage \in {"shared", "check"}
  BY DEF MergeGlobalVrfs, CheckVrfs
<1>2. ControlOK'
  BY <1>1 DEF MergeGlobalVrfs, CheckVrfs, Typed, ControlOK, Stages
<1>3. VrfOK' /\ Names(Topology)' = Names(Topology)
  <2>1. Topology \in Owners /\ Owners' = Owners
    BY <1>1, LabKept DEF Owners
  <2>2. CASE MergeGlobalVrfs
    <3> DEFINE InUse(n) == Names(n) \cup (lab.used[n] \cap Names(Topology))
    <3>1. vrf' = [o \in Owners |-> IF o = Topology THEN vrf[o]
                                  ELSE [v \in InUse(o) |-> IF v \in Names(o) THEN vrf[o][v] ELSE vrf[Topology][v]]]
      BY <2>2 DEF MergeGlobalVrfs
    <3>2. ASSUME NEW o \in Owners
          PROVE  /\ vrf'[o] \in [DOMAIN vrf'[o] -> VrfData] /\ DOMAIN vrf'[o] \subseteq ToSet(lab.order)
                 /\ o = Topology => vrf'[o] = vrf[o]
      <4>1. /\ vrf[o] \in [Names(o) -> VrfData] /\ Names(o) \subseteq ToSet(lab.order)
            /\ vrf[Topology] \in [Names(Topology) -> VrfData] /\ Names(Topology) \subseteq ToSet(lab.order)
        BY <2>1 DEF Typed, VrfOK
      <4>2. CASE o = Topology
        BY <3>1, <4>1, <4>2 DEF Names
      <4>3. CASE o # Topology
        <5>1. vrf'[o] = [v \in InUse(o) |-> IF v \in Names(o) THEN vrf[o][v] ELSE vrf[Topology][v]]
          BY <3>1, <4>3
        <5>2. InUse(o) \subseteq ToSet(lab.order)
          BY <4>1
        <5>. QED
          BY <4>1, <4>3, <5>1, <5>2
      <4>. QED
        BY <4>2, <4>3
    <3>3. DOMAIN vrf' = Owners
      BY <3>1
    <3>4. \A o \in Owners : vrf'[o] \in [Names(o)' -> VrfData] /\ Names(o)' \subseteq ToSet(lab.order)
      BY <3>2 DEF Names
    <3>5. Names(Topology)' = Names(Topology)
      BY <2>1, <3>2 DEF Names
    <3>. QED
      BY <1>1, <2>1, <3>3, <3>4, <3>5 DEF VrfOK
  <2>3. CASE CheckVrfs
    <3>1. vrf' = [o \in Owners |-> IF o # Topology /\ lab.used[o] = {} THEN Empty ELSE vrf[o]]
      BY <2>3 DEF CheckVrfs
    <3>2. Empty \in [{} -> VrfData] /\ DOMAIN Empty = {}
      BY DEF Empty
    <3>3. ASSUME NEW o \in Owners
          PROVE  /\ vrf'[o] \in [DOMAIN vrf'[o] -> VrfData] /\ DOMAIN vrf'[o] \subseteq ToSet(lab.order)
                 /\ o = Topology => vrf'[o] = vrf[o]
      BY <3>1, <3>2 DEF Typed, VrfOK, Names
    <3>. QED
      BY <1>1, <2>1, <3>1, <3>3 DEF VrfOK, Names
  <2>. QED
    BY <2>2, <2>3
<1>4. WorkOK'
  BY <1>1, <1>3 DEF Typed, WorkOK
<1>. QED
  BY <1>1, <1>2, <1>3, <1>4, IdsKept, VnisKept DEF Typed, SameIds, SameVnis

\* The types hold at the start.
LEMMA TypesStart == Init => LabOK /\ ControlOK /\ VrfOK /\ WorkOK /\ IdsOK /\ VnisOK
<1> SUFFICES ASSUME Init PROVE LabOK /\ ControlOK /\ VrfOK /\ WorkOK /\ IdsOK /\ VnisOK
  OBVIOUS
<1> USE DEF Init
<1>1. LabOK
  BY LabFacts
<1>2. Len(lab.nodes) \in Nat /\ Topology \in Owners
  BY <1>1 DEF LabOK, Owners
<1>3. ControlOK
  <2>1. stage \in Stages /\ k = 0
    BY DEF Stages
  <2>2. failed \in BOOLEAN
    BY Zenon
  <2> HIDE DEF Init
  <2>. QED
    BY <1>2, <2>1, <2>2 DEF ControlOK
<1>4. VrfOK
  <2>1. Empty \in [{} -> VrfData] /\ DOMAIN Empty = {}
    BY DEF Empty
  <2>. QED
    BY <2>1 DEF VrfOK, Names
<1>5. WorkOK
  BY DEF WorkOK
<1>6. IdsOK
  BY BoundsAssumption DEF IdsOK
<1>7. VnisOK
  <2>1. /\ \A o \in Owners : \A v \in DOMAIN lab.vlans[o] : lab.vlans[o][v].vni \in Int
        /\ \A v \in DOMAIN lab.vrfs[Topology] : lab.vrfs[Topology][v].vni \in Int
    BY <1>1, <1>2 DEF LabOK
  <2>2. IsFiniteSet({})
    BY FS_EmptySet
  <2>. QED
    BY <2>1, <2>2, BoundsAssumption DEF VnisOK
<1>. QED
  BY <1>1, <1>3, <1>4, <1>5, <1>6, <1>7

\* What VXLAN and EVPN do between the hooks leaves numbers alone.
Quiet ==
  /\ UNCHANGED <<lab, stage, k, todo, vrf, ids, rds, next, vnis, nextVni, vlanVni, transit>>
  /\ failed' \in BOOLEAN /\ (failed => failed')

\* A step of the composition is a step of the identifiers, or leaves their state alone.
LEMMA OverlaySteps ==
  ASSUME failed \in BOOLEAN, [OverlayNext]_<<vars, overlayVars>>
  PROVE  Next \/ Quiet
<1>1. CASE OverlayNext /\ ~OverlayTurn
  BY <1>1 DEF OverlayNext
<1>2. CASE OverlayNext /\ OverlayTurn
  <2>1. ValidateEvpnLists \/ CreateVlanServices \/ NodeSetVtep \/ BuildVtepLists \/ EvpnNodes
    BY <1>2 DEF OverlayNext
  <2>2. CASE ValidateEvpnLists
    BY <2>2 DEF ValidateEvpnLists, Quiet
  <2>3. CASE CreateVlanServices
    BY <2>3 DEF CreateVlanServices, Quiet
  <2>4. CASE NodeSetVtep
    BY <2>4 DEF NodeSetVtep, Quiet
  <2>5. CASE BuildVtepLists
    BY <2>5 DEF BuildVtepLists, Quiet
  <2>6. CASE EvpnNodes
    BY <2>6 DEF EvpnNodes, Quiet
  <2>. QED
    BY <2>1, <2>2, <2>3, <2>4, <2>5, <2>6
<1>3. CASE UNCHANGED <<vars, overlayVars>>
  BY <1>3 DEF vars, Quiet
<1>. QED
  BY <1>1, <1>2, <1>3

\* Every step keeps the types.
LEMMA TypesKeep ==
  ASSUME lab \in Labs, TypeOK, Next \/ Quiet
  PROVE  TypeOK' /\ lab' = lab
<1>0. Typed
  BY TypeParts, LabFacts DEF Typed
<1>1. CASE Quiet
  <2>1. VrfOK' /\ \A o : Names(o)' = Names(o)
    BY <1>0, <1>1, VrfKept DEF Typed, Quiet
  <2>2. IdsOK' /\ VnisOK'
    BY <1>0, <1>1, IdsKept, VnisKept DEF Typed, Quiet, SameIds, SameVnis
  <2>3. ControlOK' /\ WorkOK'
    BY <1>0, <1>1, <2>1, OwnerKept DEF Typed, Quiet, ControlOK, WorkOK
  <2>. QED
    BY <1>1, <2>1, <2>2, <2>3 DEF Quiet, TypeOK, ControlOK, VrfOK, WorkOK, IdsOK, VnisOK
<1>2. CASE Next
  <2>1. ControlOK' /\ VrfOK' /\ WorkOK' /\ IdsOK' /\ VnisOK'
    BY <1>0, <1>2, NormalizeTypes, PopulateTypes, KeepTypes, GenerateTypes, TargetsTypes, PullTypes, HookTypes,
       AssignTypes, VlanHookTypes, TransitTypes, UseTypes DEF Next
  <2>2. lab' = lab
    BY <1>2 DEF Next, NormalizeVrfIds, PopulateVrfStaticIds, KeepOrInheritId, GenerateId, SetImportExportRt, PullVrfs,
       EndOfNodes, RegisterStaticVnis, AssignVni, AssignVnisOfNode, EndOfVlans, SetTransitVni, EndOfTransit,
       ShareTransitVni, MergeGlobalVrfs, CheckVrfs
  <2>. QED
    BY <2>1, <2>2 DEF TypeOK, ControlOK, VrfOK, WorkOK, IdsOK, VnisOK
<1>. QED
  BY <1>1, <1>2

-----------------------------------------------------------------------------
(* Who has numbers *)

\* What a step leaves alone.
SameCell(o, v) == vrf'[o][v].id = vrf[o][v].id /\ vrf'[o][v].rd = vrf[o][v].rd
SameNumbers ==
  /\ lab' = lab
  /\ \A o \in Owners : Names(o)' = Names(o) /\ \A v \in Names(o) : SameCell(o, v)
OthersKeep(o, v) ==
  /\ lab' = lab
  /\ \A p \in Owners : Names(p)' = Names(p) /\ \A w \in Names(p) : p # o \/ w # v => SameCell(p, w)

\* A cell with the same numbers has them, or not.
LEMMA CellFact ==
  ASSUME NEW o, NEW v, SameCell(o, v), lab' = lab
  PROVE  HasNumbers(o, v)' = HasNumbers(o, v) /\ AsSaid(o, v)' = AsSaid(o, v)
<1>1. Own(o, Said(o, v).rd)' = Own(o, Said(o, v).rd) /\ Said(o, v)' = Said(o, v)
  BY LabKept DEF Own
<1>. QED
  BY <1>1 DEF SameCell, HasNumbers, AsSaid

\* The owner at position k is the k-th node, and each node has one position.
LEMMA NodeFacts ==
  ASSUME Typed, NEW i \in 1..Len(lab.nodes)
  PROVE  /\ lab.nodes[i] \in Nodes /\ lab.nodes[i] \in Owners /\ lab.nodes[i] # Topology
         /\ i # k => lab.nodes[i] # Owner
         /\ i = k => lab.nodes[i] = Owner
<1>1. lab.nodes[i] \in Nodes /\ Topology \notin Nodes
  BY DEF Typed, LabOK
<1>2. CASE k = 0
  BY <1>1, <1>2 DEF Owner, Owners
<1>3. CASE k # 0
  <2>1. Len(lab.nodes) \in Nat
    BY DEF Typed, LabOK
  <2>2. k \in 1..Len(lab.nodes)
    BY <1>3, <2>1 DEF Typed, ControlOK
  <2>3. i # k => lab.nodes[i] # lab.nodes[k]
    BY <2>2 DEF Typed, LabOK
  <2>. QED
    BY <1>1, <1>3, <2>3 DEF Owner, Owners
<1>. QED
  BY <1>2, <1>3

\* Nodes whose turn comes later, or is over.
LEMMA NodesKeep ==
  ASSUME Typed, NodesDone, NodesWait, SameNumbers,
         \A i \in 1..Len(lab.nodes) : Over(i)' => Over(i),
         \A i \in 1..Len(lab.nodes) : (stage \notin Late \cup {"normalize", "aborted"} /\ i > k)' =>
                                       (stage \notin Late \cup {"normalize", "aborted"} /\ i > k)
  PROVE  NodesDone' /\ NodesWait'
<1>1. ASSUME NEW i \in 1..Len(lab.nodes)
      PROVE  LET n == lab.nodes[i] IN Names(n)' = Names(n) /\ \A v \in Names(n) : HasNumbers(n, v)' = HasNumbers(n, v) /\ AsSaid(n, v)' = AsSaid(n, v)
  BY NodeFacts, CellFact DEF SameNumbers
<1>2. NodesDone'
  BY <1>1 DEF NodesDone, SameNumbers
<1>3. NodesWait'
  <2>1. SUFFICES ASSUME NEW i \in 1..Len(lab.nodes), i > k, stage \notin Late \cup {"normalize", "aborted"},
                        NEW n, n = lab.nodes[i]
                 PROVE  Names(n)' = DOMAIN lab.vrfs[n] /\ \A v \in Names(n)' : AsSaid(n, v)'
    BY DEF NodesWait, SameNumbers
  <2>2. Names(n) = DOMAIN lab.vrfs[n] /\ \A v \in Names(n) : AsSaid(n, v)
    BY <2>1 DEF NodesWait
  <2>3. Names(n)' = Names(n) /\ \A v \in Names(n) : AsSaid(n, v)' = AsSaid(n, v)
    BY <2>1, NodeFacts, CellFact DEF SameNumbers
  <2>. QED
    BY <2>2, <2>3
<1>. QED
  BY <1>2, <1>3

\* The VRF whose turn it is gets its numbers.
LEMMA ProgressFollows ==
  ASSUME lab \in Labs, Typed, Progress, stage = "ids", todo # {}, k' = k, Following("ids", "targets"),
         OthersKeep(Owner, Current), NEW c, c = Current, HasNumbers(Owner, c)'
  PROVE  Progress'
<1>1. Owner \in Owners /\ Current \in Names(Owner) /\ Current \in todo /\ Owner' = Owner
  BY CurrentOwned, OwnerKept DEF OthersKeep
<1>2. \A p \in Owners : Names(p)' = Names(p) /\ \A w \in Names(p) : p # Owner \/ w # Current =>
        HasNumbers(p, w)' = HasNumbers(p, w) /\ AsSaid(p, w)' = AsSaid(p, w)
  BY CellFact DEF OthersKeep
<1>3. stage' \in {"ids", "targets"} /\ (stage' = "ids" => todo' = todo \ {Current}) /\ (stage' = "targets" => todo = {Current})
  BY DEF Following
<1>4. \A v \in Names(Owner) : v \notin todo \/ v = Current => HasNumbers(Owner, v)'
  <2>1. \A v \in Names(Owner) : v \notin todo => HasNumbers(Owner, v)
    BY DEF Progress, WorkDone
  <2>2. \A v \in Names(Owner) : v # Current => HasNumbers(Owner, v)' = HasNumbers(Owner, v)
    BY <1>1, <1>2
  <2>3. \A v \in Names(Owner) : v = Current => HasNumbers(Owner, v)'
    OBVIOUS
  <2>. QED
    BY <1>1, <2>1, <2>2, <2>3
<1>5. WorkDone'
  <2>1. SUFFICES ASSUME stage' = "ids", NEW v \in Names(Owner)
                 PROVE  IF v \in todo' THEN AsSaid(Owner, v)' ELSE HasNumbers(Owner, v)'
    BY <1>1, <1>2 DEF WorkDone
  <2>2. CASE v \in todo'
    BY <1>1, <1>2, <1>3, <2>1, <2>2 DEF Progress, WorkDone
  <2>3. CASE v \notin todo'
    BY <1>3, <1>4, <2>1, <2>3
  <2>. QED
    BY <2>2, <2>3
<1>6. stage' = "targets" => \A v \in Names(Owner) : HasNumbers(Owner, v)'
  BY <1>3, <1>4
<1>7. TopologyDone'
  <2>1. SUFFICES ASSUME k > 0 \/ stage' # "ids" PROVE \A v \in Names(Topology) : HasNumbers(Topology, v)'
    <3>1. Names(Topology)' = Names(Topology)
      BY <1>2 DEF Owners
    <3>. QED
      BY <1>3, <2>1, <3>1 DEF TopologyDone
  <2>2. CASE k = 0
    BY <1>3, <1>6, <2>1, <2>2 DEF Owner
  <2>3. CASE k # 0
    <3>1. Owner # Topology /\ Topology \in Owners
      BY <2>3, OwnerFact DEF Typed, ControlOK
    <3>2. k > 0
      BY <2>3 DEF Typed, ControlOK
    <3>. QED
      BY <1>2, <3>1, <3>2 DEF Progress, TopologyDone
  <2>. QED
    BY <2>2, <2>3
<1>8. NodesDone'
  <2>1. SUFFICES ASSUME NEW i \in 1..Len(lab.nodes), Over(i)', NEW n, n = lab.nodes[i], NEW v \in Names(n)'
                 PROVE  HasNumbers(n, v)'
    BY DEF NodesDone, OthersKeep
  <2>2. n \in Owners /\ (i # k => n # Owner) /\ (i = k => n = Owner)
    BY <2>1, NodeFacts
  <2>3. (i < k) \/ (i = k /\ stage' = "targets")
    BY <1>3, <2>1 DEF Over, Late
  <2>4. CASE i < k
    <3>1. i # k
      BY <2>4 DEF Typed, ControlOK
    <3>2. \A w \in Names(n) : HasNumbers(n, w)
      BY <2>1, <2>4 DEF Progress, NodesDone, Over
    <3>. QED
      BY <1>2, <2>1, <2>2, <3>1, <3>2
  <2>5. CASE i = k /\ stage' = "targets"
    <3>1. n = Owner /\ v \in Names(Owner)
      BY <1>2, <2>1, <2>2, <2>5
    <3>2. HasNumbers(Owner, v)'
      BY <1>6, <2>5, <3>1
    <3>. QED
      BY <1>1, <3>1, <3>2
  <2>. QED
    BY <2>3, <2>4, <2>5
<1>9. NodesWait'
  <2>1. SUFFICES ASSUME NEW i \in 1..Len(lab.nodes), i > k, NEW n, n = lab.nodes[i]
                 PROVE  Names(n)' = DOMAIN lab.vrfs[n] /\ \A v \in Names(n)' : AsSaid(n, v)'
    BY DEF NodesWait, OthersKeep
  <2>2. n # Owner /\ n \in Owners
    <3>1. i # k
      BY <2>1 DEF Typed, ControlOK
    <3>. QED
      BY <2>1, <3>1, NodeFacts
  <2>3. Names(n) = DOMAIN lab.vrfs[n] /\ \A v \in Names(n) : AsSaid(n, v)
    BY <2>1 DEF Progress, NodesWait, Late
  <2>. QED
    BY <1>2, <2>2, <2>3
<1>10. UsedKnown'
  BY <1>3 DEF UsedKnown
<1>. QED
  BY <1>5, <1>7, <1>8, <1>9, <1>10 DEF Progress

\* A step that leaves the numbers alone, and begins no list.
LEMMA ProgressSame ==
  ASSUME Typed, Progress, SameNumbers,
         \A i \in 1..Len(lab.nodes) : Over(i)' => Over(i),
         stage' \notin Late \cup {"normalize", "aborted"} => stage \notin Late \cup {"normalize", "aborted"} /\ k' >= k,
         stage' \notin {"normalize", "register", "aborted", "ids"} => stage \notin {"normalize", "register", "aborted", "ids"},
         stage' = "ids" => stage = "ids" /\ k' = k /\ todo' = todo,
         stage' \in {"register", "check", "done"} => stage' = stage,
         k' \in 0..Len(lab.nodes)
  PROVE  Progress'
<1>0. k \in Int /\ k' \in Int /\ lab' = lab
  <2>1. Len(lab.nodes) \in Nat
    BY DEF Typed, LabOK
  <2>. QED
    BY <2>1 DEF Typed, ControlOK, SameNumbers
<1>1. \A o \in Owners : Names(o)' = Names(o) /\ \A v \in Names(o) : HasNumbers(o, v)' = HasNumbers(o, v) /\ AsSaid(o, v)' = AsSaid(o, v)
  BY CellFact DEF SameNumbers
<1>2. NodesDone' /\ NodesWait'
  BY <1>0, NodesKeep DEF Progress
<1>3. Topology \in Owners
  BY DEF Owners
<1>4. TopologyDone'
  <2>1. CASE stage' = "register"
    BY <1>1, <1>3, <2>1 DEF Progress, TopologyDone
  <2>2. CASE stage' # "register"
    <3>1. SUFFICES ASSUME stage' \notin {"normalize", "register", "aborted"}, k' > 0 \/ stage' # "ids"
                   PROVE  \A v \in Names(Topology)' : HasNumbers(Topology, v)'
      BY <2>2 DEF TopologyDone
    <3>2. stage \notin {"normalize", "register", "aborted"} /\ (k > 0 \/ stage # "ids")
      BY <3>1
    <3>3. \A v \in Names(Topology) : HasNumbers(Topology, v)
      BY <3>2 DEF Progress, TopologyDone
    <3>. QED
      BY <1>1, <1>3, <3>3
  <2>. QED
    BY <2>1, <2>2
<1>5. WorkDone'
  <2>1. SUFFICES ASSUME stage' = "ids", NEW o, o = Owner, NEW v \in Names(o)'
                 PROVE  IF v \in todo THEN AsSaid(o, v)' ELSE HasNumbers(o, v)'
    <3>1. stage' = "ids" => Owner' = Owner
      BY <1>0, OwnerKept
    <3>. QED
      BY <2>1, <3>1 DEF WorkDone
  <2>2. o \in Owners
    BY <2>1, OwnerFact DEF Typed, ControlOK
  <2>3. \A w \in Names(o) : IF w \in todo THEN AsSaid(o, w) ELSE HasNumbers(o, w)
    BY <2>1 DEF Progress, WorkDone
  <2>4. /\ v \in Names(o) /\ AsSaid(o, v)' = AsSaid(o, v) /\ HasNumbers(o, v)' = HasNumbers(o, v)
    BY <1>1, <2>1, <2>2
  <2>. QED
    BY <2>3, <2>4
<1>6. UsedKnown'
  <2>1. ASSUME NEW n \in Nodes
        PROVE  Names(n)' = Names(n) /\ \A v \in Names(n) : SameCell(n, v)
    BY DEF SameNumbers, Owners
  <2>2. SUFFICES ASSUME stage' \in {"check", "done"}
                 PROVE  UsedKnown'
    BY DEF UsedKnown
  <2>3. \A n \in Nodes : lab.used[n] \subseteq Names(n)'
    BY <2>1, <2>2 DEF Progress, UsedKnown
  <2>4. stage' = "done" => \A n \in Nodes : \A v \in lab.used[n] : Usable(vrf'[n][v].rd)
    BY <2>1, <2>2 DEF Progress, UsedKnown, SameCell
  <2>5. Nodes' = Nodes
    BY <1>0, LabKept
  <2>. QED
    BY <1>0, <2>3, <2>4, <2>5 DEF UsedKnown
<1>. QED
  BY <1>2, <1>4, <1>5, <1>6 DEF Progress

\* A step that leaves the VRFs alone leaves their numbers alone.
LEMMA SameVrf ==
  ASSUME UNCHANGED <<lab, vrf>>
  PROVE  SameNumbers
BY DEF SameNumbers, SameCell, Names

\* What the first hook does.
LEMMA NormalizeCells ==
  ASSUME Typed, NormalizeVrfIds
  PROVE  /\ lab' = lab
         /\ \A o \in Owners : /\ Names(o)' = DOMAIN lab.vrfs[o]
                              /\ \A v \in DOMAIN lab.vrfs[o] : /\ vrf'[o][v].id = lab.vrfs[o][v].id
                                                               /\ vrf'[o][v].rd = Own(o, lab.vrfs[o][v].rd)
                                                               /\ AsSaid(o, v)'
<1>1. \A o \in Owners : vrf'[o] = Normalized(o) /\ lab' = lab
  BY DEF NormalizeVrfIds
<1>2. ASSUME NEW o \in Owners
      PROVE  Names(o)' = DOMAIN lab.vrfs[o] /\ \A v \in DOMAIN lab.vrfs[o] : vrf'[o][v].id = lab.vrfs[o][v].id /\ vrf'[o][v].rd = Own(o, lab.vrfs[o][v].rd)
  <2>1. vrf'[o] = Normalized(o) /\ Names(o)' = DOMAIN vrf'[o]
    BY <1>1 DEF Names
  <2>. QED
    BY <2>1 DEF Normalized
<1>3. \A o \in Owners : \A v \in DOMAIN lab.vrfs[o] : Said(o, v)' = lab.vrfs[o][v] /\ Own(o, lab.vrfs[o][v].rd)' = Own(o, lab.vrfs[o][v].rd)
  BY <1>1 DEF Said, Own
<1>. QED
  BY <1>1, <1>2, <1>3 DEF AsSaid, NormalizeVrfIds

\* normalize_vrf_ids keeps track of what has numbers.
LEMMA NormalizeProgress ==
  ASSUME Typed, NormalizeVrfIds
  PROVE  Progress'
<1>1. k' = 0 /\ stage' \in {"register", "vnis", "aborted"} /\ lab' = lab /\ (stage' = "vnis" => DOMAIN lab.vrfs[Topology] = {})
  BY DEF NormalizeVrfIds, Typed, WorkOK, HasGlobals
<1>2. Topology \in Owners
  BY DEF Owners
<1>3. WorkDone' /\ UsedKnown'
  BY <1>1 DEF WorkDone, UsedKnown
<1>4. TopologyDone'
  BY <1>1, <1>2, NormalizeCells DEF TopologyDone
<1>5. NodesDone'
  <2>1. \A i \in 1..Len(lab.nodes) : ~Over(i)'
    <3>1. Len(lab.nodes) \in Nat
      BY DEF Typed, LabOK
    <3>. QED
      BY <1>1, <3>1 DEF Over, Late
  <2>. QED
    BY <1>1, <2>1 DEF NodesDone
<1>6. NodesWait'
  <2>1. SUFFICES ASSUME NEW i \in 1..Len(lab.nodes), NEW n, n = lab.nodes[i]
                 PROVE  Names(n)' = DOMAIN lab.vrfs[n] /\ \A v \in Names(n)' : AsSaid(n, v)'
    BY <1>1 DEF NodesWait
  <2>. QED
    BY <2>1, NodeFacts, NormalizeCells
<1>. QED
  BY <1>3, <1>4, <1>5, <1>6 DEF Progress

\* populate_vrf_static_ids keeps track of what has numbers.
LEMMA PopulateProgress ==
  ASSUME Typed, Progress, PopulateVrfStaticIds
  PROVE  Progress'
<1>1. /\ UNCHANGED <<lab, k, vrf>> /\ stage = "register" /\ stage' = "ids" /\ todo' = Names(Topology)
      /\ k = 0
  BY DEF PopulateVrfStaticIds, Typed, WorkOK
<1>2. SameNumbers
  BY <1>1, SameVrf
<1>3. Owner = Topology /\ Topology \in Owners
  BY <1>1 DEF Owner, Owners
<1>4. WorkDone'
  <2>1. \A v \in Names(Topology) : AsSaid(Topology, v)
    BY <1>1 DEF Progress, TopologyDone
  <2>2. \A v \in Names(Topology) : AsSaid(Topology, v)'
    BY <1>2, <1>3, <2>1, CellFact DEF SameNumbers
  <2>3. Owner' = Topology /\ Names(Topology)' = Names(Topology)
    BY <1>1, <1>2, <1>3 DEF Owner, SameNumbers
  <2>. QED
    BY <1>1, <2>2, <2>3 DEF WorkDone
<1>5. TopologyDone' /\ UsedKnown'
  BY <1>1 DEF TopologyDone, UsedKnown
<1>6. NodesDone' /\ NodesWait'
  <2>1. \A i \in 1..Len(lab.nodes) : ~Over(i)'
    <3>1. Len(lab.nodes) \in Nat
      BY DEF Typed, LabOK
    <3>. QED
      BY <1>1, <3>1 DEF Over, Late
  <2>. QED
    BY <1>1, <1>2, <2>1, NodesKeep DEF Progress, Late
<1>. QED
  BY <1>4, <1>5, <1>6 DEF Progress

\* What a VRF gets from the global one.
LEMMA InheritedNumbers ==
  ASSUME Typed, NEW o \in Owners, NEW v \in Names(o), Inherits(o, v), HasNumbers(Topology, v)
  PROVE  LET d == Inherited(o, v) IN
         /\ d.id = IF vrf[o][v].id = 0 THEN vrf[Topology][v].id ELSE vrf[o][v].id
         /\ d.rd = (CASE vrf[o][v].rd = NoRd -> vrf[Topology][v].rd
                      [] vrf[o][v].rd = EmptyRd -> <<lab.as[o], d.id>>
                      [] OTHER -> vrf[o][v].rd)
         /\ d.id # 0 /\ d.rd # NoRd /\ d.id \in Nat
         /\ WithGlobalId(v, vrf[o][v]).id = d.id /\ WithGlobalId(v, vrf[o][v]).rd = vrf[o][v].rd
<1>1. v \in Names(Topology) /\ Topology \in Owners
  BY DEF Inherits, IsGlobal, Owners
<1>2. vrf[o][v] \in VrfData /\ vrf[Topology][v] \in VrfData
  BY <1>1 DEF Typed, VrfOK
<1> DEFINE e == WithGlobalId(v, vrf[o][v])
<1>3. /\ e.id = (IF vrf[o][v].id = 0 THEN vrf[Topology][v].id ELSE vrf[o][v].id)
      /\ e.rd = vrf[o][v].rd /\ e \in VrfData /\ e.id \in Nat
  BY <1>2 DEF WithGlobalId, VrfData
<1> HIDE DEF e
<1>4. Inherited(o, v).id = e.id /\ Inherited(o, v).rd = GlobalRd(o, v, e)
  BY <1>3 DEF Inherited, e, VrfData
<1>5. GlobalRd(o, v, e) = (CASE vrf[o][v].rd = NoRd -> vrf[Topology][v].rd
                             [] vrf[o][v].rd = EmptyRd -> <<lab.as[o], e.id>>
                             [] OTHER -> vrf[o][v].rd)
  BY <1>3 DEF GlobalRd
<1>6. e.id # 0
  BY <1>3 DEF HasNumbers
<1>7. GlobalRd(o, v, e) # NoRd
  <2>1. <<lab.as[o], e.id>> # NoRd
    BY DEF NoRd
  <2>. QED
    BY <1>5, <2>1 DEF HasNumbers, EmptyRd, NoRd
<1>. QED
  BY <1>3, <1>4, <1>5, <1>6, <1>7 DEF e

\* set_vrf_ids: what becomes of the VRF whose turn it is.
LEMMA TopologyHas ==
  ASSUME Typed, Progress, stage \in {"ids", "targets"}, NEW v, Inherits(Owner, v)
  PROVE  HasNumbers(Topology, v) /\ k > 0
<1>1. k # 0 /\ v \in Names(Topology)
  BY DEF Inherits, Owner, IsGlobal
<1>2. k > 0
  <2>1. Len(lab.nodes) \in Nat
    BY DEF Typed, LabOK
  <2>. QED
    BY <1>1, <2>1 DEF Typed, ControlOK
<1>. QED
  BY <1>1, <1>2 DEF Progress, TopologyDone

\* Updating a VRF of the owner leaves the others as they were.
LEMMA UpdatesKeep ==
  ASSUME lab' = lab, NEW o \in Owners, NEW v \in Names(o), NEW d, Updates(o, v, d)
  PROVE  OthersKeep(o, v)
BY DEF Updates, OthersKeep, SameCell

\* What a VRF is after it kept or inherited its numbers.
LEMMA KeepCell ==
  ASSUME lab \in Labs, Typed, Progress, KeepOrInheritId, NEW o, o = Owner, NEW v, v = Current
  PROVE  /\ o \in Owners /\ v \in Names(o) /\ AsSaid(o, v) /\ OthersKeep(o, v) /\ HasNumbers(o, v)'
         /\ \/ SameCell(o, v)
            \/ /\ Inherits(o, v) /\ Completes(o, vrf[o][v].rd) /\ HasNumbers(Topology, v)
               /\ vrf'[o][v].id = Inherited(o, v).id /\ vrf'[o][v].rd = Inherited(o, v).rd
<1>1. Owner \in Owners /\ Current \in Names(Owner) /\ Current \in todo
  BY CurrentOwned DEF KeepOrInheritId
<1>2. stage = "ids" /\ lab' = lab /\ AsSaid(o, v) /\ o \in Owners /\ v \in Names(o)
  BY <1>1 DEF KeepOrInheritId, Progress, WorkDone
<1>3. CASE HasBoth(vrf[Owner][Current])
  <2>1. SameNumbers
    BY <1>2, <1>3, SameVrf DEF KeepOrInheritId
  <2>2. OthersKeep(o, v) /\ SameCell(o, v)
    BY <1>2, <2>1 DEF SameNumbers, OthersKeep
  <2>3. HasNumbers(o, v)
    BY <1>2, <1>3 DEF HasBoth, HasNumbers, Usable
  <2>. QED
    BY <1>2, <2>2, <2>3, CellFact
<1>4. CASE ~HasBoth(vrf[Owner][Current])
  <2>1. Inherits(o, v) /\ Completes(o, vrf[o][v].rd) /\ vrf' = [vrf EXCEPT ![o][v] = Inherited(o, v)]
    BY <1>4 DEF KeepOrInheritId, NeedsNew
  <2>2. Updates(o, v, Inherited(o, v))
    BY <1>2, <2>1, UpdateFact DEF Typed
  <2>3. HasNumbers(Topology, v)
    BY <1>2, <2>1, TopologyHas
  <2>4. Inherited(o, v).id # 0 /\ Inherited(o, v).rd # NoRd
    BY <1>2, <2>1, <2>3, InheritedNumbers
  <2>5. vrf'[o][v] = Inherited(o, v)
    BY <2>2 DEF Updates
  <2>6. HasNumbers(o, v)'
    BY <2>4, <2>5 DEF HasNumbers
  <2>. QED
    BY <1>2, <2>1, <2>2, <2>3, <2>5, <2>6, UpdatesKeep
<1>. QED
  BY <1>3, <1>4

\* A VRF that keeps or inherits its numbers has them afterwards.
LEMMA KeepProgress ==
  ASSUME lab \in Labs, Typed, Progress, KeepOrInheritId
  PROVE  Progress'
<1>1. PICK o, v : o = Owner /\ v = Current
  OBVIOUS
<1>2. OthersKeep(Owner, Current) /\ HasNumbers(o, v)'
  BY <1>1, KeepCell
<1>3. Owner' = o
  BY <1>1, OwnerKept DEF KeepOrInheritId
<1>4. HasNumbers(Owner, v)'
  BY <1>2, <1>3
<1>. QED
  BY <1>1, <1>2, <1>4, ProgressFollows DEF KeepOrInheritId

\* set_vrf_auto_id: a number nobody has.
LEMMA GenerateCell ==
  ASSUME lab \in Labs, Typed, Progress, GenerateId, stage' # "aborted", NEW o, o = Owner, NEW v, v = Current
  PROVE  /\ o \in Owners /\ v \in Names(o) /\ AsSaid(o, v) /\ OthersKeep(o, v) /\ HasNumbers(o, v)'
         /\ Following("ids", "targets")
         /\ Inherits(o, v) => HasNumbers(Topology, v)
         /\ \E n \in 1..MaxVrfId :
              /\ n \notin ids /\ <<lab.as[o], n>> \notin rds
              /\ ids \cup {n} \subseteq ids' /\ rds \subseteq rds'
              /\ vrf'[o][v].id = (IF vrf[o][v].id # 0 THEN vrf[o][v].id
                                  ELSE IF Inherits(o, v) THEN vrf[Topology][v].id ELSE n)
              /\ vrf'[o][v].rd = (IF vrf[o][v].rd = NoRd THEN <<lab.as[o], n>> ELSE vrf[o][v].rd)
              /\ Inherits(o, v) => Usable(vrf[o][v].rd)
<1> DEFINE a == lab.as[o]
           d == IF Inherits(o, v) THEN WithGlobalId(v, vrf[o][v]) ELSE vrf[o][v]
           n == Min(Free(a))
           g == Generated(d, a, n)
<1>1. Owner \in Owners /\ Current \in Names(Owner) /\ Current \in todo
  BY CurrentOwned DEF GenerateId
<1>2. stage = "ids" /\ lab' = lab /\ AsSaid(o, v) /\ o \in Owners /\ v \in Names(o) /\ NeedsNew(o, v)
  BY <1>1 DEF GenerateId, Progress, WorkDone
<1>3. ~(a = 0 \/ Free(a) = {})
  BY DEF GenerateId
<1>4. /\ vrf' = [vrf EXCEPT ![o][v] = g]
      /\ ids' = ids \cup next..n /\ rds' = rds \cup {<<a, n>>}
      /\ Following("ids", "targets")
  BY <1>3 DEF GenerateId
<1>5. a \in Nat /\ n \in next..MaxVrfId /\ n \in 1..MaxVrfId /\ n \notin ids /\ <<a, n>> \notin rds
  <2>1. a \in Nat
    BY <1>2 DEF Typed, LabOK
  <2>2. n \in next..MaxVrfId /\ n \in 1..MaxVrfId /\ n \notin ids /\ <<a, n>> \notin rds
    BY <1>3, FreeFact
  <2>. QED
    BY <2>1, <2>2
<1>6. n \in next..n
  BY <1>5 DEF Typed, IdsOK
<1>7. Inherits(o, v) => HasNumbers(Topology, v)
  BY <1>2, TopologyHas
<1>8. Updates(o, v, g)
  <2> HIDE DEF g
  <2>. QED
    BY <1>2, <1>4, UpdateFact DEF Typed
<1>9. vrf'[o][v] = g
  BY <1>8 DEF Updates
<1>10. /\ d \in VrfData /\ d.rd = vrf[o][v].rd
       /\ d.id = (IF vrf[o][v].id # 0 THEN vrf[o][v].id ELSE IF Inherits(o, v) THEN vrf[Topology][v].id ELSE 0)
       /\ Inherits(o, v) => d.id # 0
  <2>1. CASE Inherits(o, v)
    BY <1>2, <1>7, <2>1, InheritedType, InheritedNumbers, ZenonT(40)
  <2>2. CASE ~Inherits(o, v)
    BY <1>2, <2>2 DEF Typed, VrfOK
  <2>. QED
    BY <2>1, <2>2
<1>11. g.id = (IF d.id = 0 THEN n ELSE d.id) /\ g.rd = (IF d.rd = NoRd THEN <<a, n>> ELSE d.rd)
  <2> HIDE DEF d, n
  <2>. QED
    BY <1>10 DEF Generated, VrfData
<1>12. Inherits(o, v) => Usable(vrf[o][v].rd)
  BY <1>2, <1>3 DEF NeedsNew, Completes, Usable
<1>13. HasNumbers(o, v)'
  <2>1. n # 0 /\ <<a, n>> # NoRd
    BY <1>5, MadeRd DEF NoRd
  <2>. QED
    BY <1>9, <1>11, <2>1 DEF HasNumbers
<1>14. OthersKeep(o, v)
  BY <1>2, <1>8, UpdatesKeep
<1>15. /\ n \notin ids /\ <<lab.as[o], n>> \notin rds
       /\ ids \cup {n} \subseteq ids' /\ rds \subseteq rds'
       /\ vrf'[o][v].id = (IF vrf[o][v].id # 0 THEN vrf[o][v].id
                           ELSE IF Inherits(o, v) THEN vrf[Topology][v].id ELSE n)
       /\ vrf'[o][v].rd = (IF vrf[o][v].rd = NoRd THEN <<lab.as[o], n>> ELSE vrf[o][v].rd)
       /\ Inherits(o, v) => Usable(vrf[o][v].rd)
  <2>1. ids \cup {n} \subseteq ids' /\ rds \subseteq rds'
    BY <1>4, <1>6
  <2> HIDE DEF n, d, g
  <2>. QED
    BY <1>5, <1>9, <1>10, <1>11, <1>12, <2>1
<1> HIDE DEF n
<1>. QED
  BY <1>2, <1>4, <1>5, <1>7, <1>13, <1>14, <1>15

\* A VRF that gets a generated id has its numbers afterwards.
LEMMA GenerateProgress ==
  ASSUME lab \in Labs, Typed, Progress, GenerateId
  PROVE  Progress'
<1>1. CASE stage' # "aborted"
  <2>1. PICK o, v : o = Owner /\ v = Current
    OBVIOUS
  <2>2. OthersKeep(Owner, Current) /\ HasNumbers(o, v)' /\ Following("ids", "targets")
    BY <1>1, <2>1, GenerateCell
  <2>3. Owner' = o
    BY <2>1, OwnerKept DEF GenerateId
  <2>4. HasNumbers(Owner, v)'
    BY <2>2, <2>3
  <2>. QED
    BY <2>1, <2>2, <2>4, ProgressFollows DEF GenerateId
<1>2. CASE stage' = "aborted"
  <2>1. k' \in 0..Len(lab.nodes) /\ \A i \in 1..Len(lab.nodes) : ~Over(i)'
    BY <1>2 DEF GenerateId, Typed, ControlOK, Over, Late
  <2>2. SameNumbers
    <3>1. UNCHANGED <<lab, vrf>>
      BY <1>2 DEF GenerateId, Following
    <3>. QED
      BY <3>1, SameVrf
  <2>. QED
    BY <1>2, <2>1, <2>2, ProgressSame
<1>. QED
  BY <1>1, <1>2

\* set_import_export_rt.
LEMMA TargetsCell ==
  ASSUME lab \in Labs, Typed, SetImportExportRt, NEW o, o = Owner, NEW v, v = Current
  PROVE  LET global == IF IsGlobal(v) THEN vrf[Topology][v] ELSE New
             d == [vrf[o][v] EXCEPT !.import = Targets(o, v, Said(o, v).import, global.import),
                                    !.export = Targets(o, v, Said(o, v).export, global.export)]
         IN  o \in Owners /\ v \in Names(o) /\ v \in todo /\ Updates(o, v, d) /\ vrf[o][v] \in VrfData /\ SameNumbers
<1> DEFINE global == IF IsGlobal(v) THEN vrf[Topology][v] ELSE New
           i == Targets(o, v, Said(o, v).import, global.import)
           e == Targets(o, v, Said(o, v).export, global.export)
           d == [vrf[o][v] EXCEPT !.import = i, !.export = e]
<1>1. o \in Owners /\ v \in Names(o) /\ v \in todo /\ lab' = lab
  BY CurrentOwned DEF SetImportExportRt
<1>2. vrf[o][v] \in VrfData
  BY <1>1 DEF Typed, VrfOK
<1>3. vrf' = [vrf EXCEPT ![o][v] = d]
  BY DEF SetImportExportRt
<1>4. d.id = vrf[o][v].id /\ d.rd = vrf[o][v].rd
  <2> HIDE DEF i, e
  <2>. QED
    BY <1>2 DEF VrfData
<1>5. Updates(o, v, d)
  <2> HIDE DEF d
  <2>. QED
    BY <1>1, <1>3, UpdateFact DEF Typed
<1>6. SameNumbers
  <2> HIDE DEF d
  <2>1. SameCell(o, v)
    BY <1>4, <1>5 DEF SameCell, Updates
  <2>2. OthersKeep(o, v)
    BY <1>1, <1>5, UpdatesKeep
  <2>. QED
    BY <2>1, <2>2 DEF SameNumbers, OthersKeep
<1>. QED
  BY <1>1, <1>2, <1>5, <1>6

\* Setting the targets of a VRF changes no numbers.
LEMMA TargetsProgress ==
  ASSUME lab \in Labs, Typed, Progress, SetImportExportRt
  PROVE  Progress' /\ SameNumbers
<1>1. SameNumbers
  <2>1. PICK o, v : o = Owner /\ v = Current
    OBVIOUS
  <2>. QED
    BY <2>1, TargetsCell
<1>2. /\ stage = "targets" /\ k' = k /\ stage' \in {"targets", "vnis", "node"} /\ (stage' = "vnis" => k = 0)
      /\ stage' # "node" \/ k # 0
  BY DEF SetImportExportRt, Following
<1>3. \A i \in 1..Len(lab.nodes) : Over(i)' => Over(i)
  BY <1>2 DEF Over, Late
<1>4. k' \in 0..Len(lab.nodes) /\ k' >= k
  BY <1>2 DEF Typed, ControlOK
<1>. QED
  BY <1>1, <1>2, <1>3, <1>4, ProgressSame DEF Late

\* The hooks that leave all VRFs alone.
Hooks ==
  EndOfNodes \/ RegisterStaticVnis \/ AssignVni \/ AssignVnisOfNode \/ EndOfVlans \/ SetTransitVni \/ EndOfTransit \/ ShareTransitVni

\* The ends of the hooks of VRFs keep track of what has numbers.
LEMMA HooksProgress ==
  ASSUME Typed, ControlOK', Progress, Hooks
  PROVE  Progress' /\ SameNumbers
<1>0. Len(lab.nodes) \in Nat /\ k \in 0..Len(lab.nodes)
  BY DEF Typed, LabOK, ControlOK
<1>1. UNCHANGED <<lab, vrf>>
  BY DEF Hooks, EndOfNodes, RegisterStaticVnis, AssignVni, AssignVnisOfNode, EndOfVlans, SetTransitVni, EndOfTransit, ShareTransitVni
<1>2. SameNumbers
  BY <1>1, SameVrf
<1>3. k' \in 0..Len(lab.nodes)
  BY <1>1 DEF ControlOK
<1>4. /\ stage \in {"node", "vnis", "vlans", "transit", "shared"} /\ stage' \in {"aborted", "node", "vlans", "transit", "shared"}
      /\ stage' = "node" => stage = "vnis" /\ k' = k /\ k = 0
      /\ stage = "node" => k = Len(lab.nodes)
      /\ stage = "vnis" => stage' = "node"
  BY DEF Typed, WorkOK, Hooks, EndOfNodes, RegisterStaticVnis, AssignVni, AssignVnisOfNode, EndOfVlans, SetTransitVni, EndOfTransit, ShareTransitVni
<1>5. ASSUME NEW i \in 1..Len(lab.nodes), Over(i)'
      PROVE  Over(i)
  <2>1. CASE stage' = "node"
    BY <1>0, <1>4, <1>5, <2>1 DEF Over, Late
  <2>2. CASE stage' \in Late
    BY <1>0, <1>4, <2>2 DEF Over, Late
  <2>3. CASE stage' = "aborted"
    BY <1>5, <2>3 DEF Over, Late
  <2>. QED
    BY <1>4, <2>1, <2>2, <2>3 DEF Late
<1>. QED
  BY <1>0, <1>2, <1>3, <1>4, <1>5, ProgressSame DEF Late

\* A node gets the VRFs of its VLANs.
LEMMA PullCells ==
  ASSUME Typed, PullVrfs, NEW n, n = lab.nodes[k + 1]
  PROVE  /\ n \in Nodes /\ n \in Owners /\ n # Topology /\ lab' = lab
         /\ \A o \in Owners : o # n => Names(o)' = Names(o) /\ \A v \in Names(o) : SameCell(o, v)
         /\ Names(n)' = Names(n) \cup lab.pulled[n]
         /\ \A v \in Names(n)' : IF v \in Names(n) THEN SameCell(n, v) ELSE vrf'[n][v].id = 0 /\ vrf'[n][v].rd = NoRd
         /\ \A v \in Names(n) : SameCell(n, v)
<1>1. n \in Nodes /\ n \in Owners /\ n # Topology /\ lab' = lab
  <2>1. n \in Nodes
    BY PullFacts
  <2>. QED
    BY <2>1 DEF Typed, LabOK, Owners, PullVrfs
<1>2. \A o \in Owners : o # n => vrf'[o] = vrf[o]
  BY PullFacts
<1>3. vrf'[n] = [v \in Names(n) \cup lab.pulled[n] |-> IF v \in Names(n) THEN vrf[n][v]
                                        ELSE [id |-> 0, rd |-> NoRd, import |-> Missing, export |-> Missing]]
  BY PullFacts
<1>4. Names(n)' = DOMAIN vrf'[n]
  BY DEF Names
<1>5. Names(n)' = Names(n) \cup lab.pulled[n]
  BY <1>3, <1>4
<1>6. \A v \in Names(n)' : IF v \in Names(n) THEN SameCell(n, v) ELSE vrf'[n][v].id = 0 /\ vrf'[n][v].rd = NoRd
  BY <1>3, <1>5 DEF SameCell
<1>. QED
  BY <1>1, <1>2, <1>5, <1>6 DEF Names, SameCell

\* The VRFs a node pulls wait for its turn.
LEMMA PullProgress ==
  ASSUME Typed, Progress, PullVrfs
  PROVE  Progress'
<1>1. PICK n : n = lab.nodes[k + 1]
  OBVIOUS
<1>2. /\ n \in Nodes /\ n \in Owners /\ n # Topology /\ lab' = lab
      /\ \A o \in Owners : o # n => Names(o)' = Names(o) /\ \A v \in Names(o) : SameCell(o, v)
      /\ Names(n)' = Names(n) \cup lab.pulled[n]
      /\ \A v \in Names(n)' : IF v \in Names(n) THEN SameCell(n, v) ELSE vrf'[n][v].id = 0 /\ vrf'[n][v].rd = NoRd
      /\ \A v \in Names(n) : SameCell(n, v)
  BY <1>1, PullCells
<1>3. /\ stage = "node" /\ k' = k + 1 /\ k' \in 1..Len(lab.nodes) /\ k \in Nat /\ Len(lab.nodes) \in Nat
      /\ todo' = Names(n) \cup lab.pulled[n] /\ stage' \in {"node", "ids"} /\ (stage' = "node" => todo' = {}) /\ Owner' = n
  <2>1. k' \in 1..Len(lab.nodes) /\ Owner' = n
    BY <1>1, PullFacts
  <2>2. Len(lab.nodes) \in Nat
    BY DEF Typed, LabOK
  <2>. QED
    BY <1>1, <2>1, <2>2 DEF PullVrfs, Typed, ControlOK
<1>4. ASSUME NEW o \in Owners, o # n
      PROVE  Names(o)' = Names(o) /\ \A v \in Names(o) : HasNumbers(o, v)' = HasNumbers(o, v) /\ AsSaid(o, v)' = AsSaid(o, v)
  BY <1>2, <1>4, CellFact
<1>5. Names(n) = DOMAIN lab.vrfs[n] /\ \A v \in Names(n) : AsSaid(n, v)
  <2>1. k + 1 \in 1..Len(lab.nodes) /\ k + 1 > k
    BY <1>3
  <2>2. stage \notin Late \cup {"normalize", "aborted"}
    BY <1>3 DEF Late
  <2>. QED
    BY <1>1, <2>1, <2>2 DEF Progress, NodesWait
<1>6. ASSUME NEW v \in Names(n)'
      PROVE  AsSaid(n, v)'
  <2>1. CASE v \in Names(n)
    BY <1>2, <1>5, <2>1, CellFact
  <2>2. CASE v \notin Names(n)
    <3>1. Said(n, v)' = New /\ Own(n, NoRd)' = NoRd
      BY <1>2, <1>5, <2>2 DEF Said, Own, Usable
    <3>2. vrf'[n][v].id = 0 /\ vrf'[n][v].rd = NoRd
      BY <1>2, <1>6, <2>2
    <3>3. New.id = 0 /\ New.rd = NoRd
      BY DEF New
    <3>. QED
      BY <3>1, <3>2, <3>3 DEF AsSaid
  <2>. QED
    BY <2>1, <2>2
<1>7. WorkDone'
  <2>1. SUFFICES ASSUME NEW v \in Names(n)' PROVE v \in todo' /\ AsSaid(n, v)'
    BY <1>3 DEF WorkDone
  <2>. QED
    BY <1>2, <1>3, <1>6
<1>8. TopologyDone'
  <2>1. \A v \in Names(Topology) : HasNumbers(Topology, v)
    BY <1>3 DEF Progress, TopologyDone
  <2>2. Topology \in Owners
    BY DEF Owners
  <2>. QED
    BY <1>2, <1>3, <1>4, <2>1, <2>2 DEF TopologyDone
<1>9. NodesDone'
  <2>1. SUFFICES ASSUME NEW i \in 1..Len(lab.nodes), Over(i)', NEW m, m = lab.nodes[i], NEW v \in Names(m)'
                 PROVE  HasNumbers(m, v)'
    BY <1>2 DEF NodesDone
  <2>2. i <= k \/ (i = k + 1 /\ stage' = "node")
    BY <1>3, <2>1 DEF Over, Late
  <2>3. CASE i <= k
    <3>1. m # n
      <4>1. \A j \in 1..Len(lab.nodes) : lab.nodes[i] = lab.nodes[j] => i = j
        BY DEF Typed, LabOK
      <4>2. k + 1 \in 1..Len(lab.nodes) /\ i # k + 1
        BY <1>3, <2>3
      <4>. QED
        BY <1>1, <2>1, <4>1, <4>2
    <3>2. Over(i)
      BY <1>3, <2>3 DEF Over
    <3>3. \A w \in Names(m) : HasNumbers(m, w)
      BY <2>1, <3>2 DEF Progress, NodesDone
    <3>4. m \in Owners
      BY <2>1, NodeFacts
    <3>. QED
      BY <1>4, <2>1, <3>1, <3>3, <3>4
  <2>4. CASE i = k + 1 /\ stage' = "node"
    BY <1>1, <1>2, <1>3, <2>1, <2>4
  <2>. QED
    BY <2>2, <2>3, <2>4
<1>10. NodesWait'
  <2>1. SUFFICES ASSUME NEW i \in 1..Len(lab.nodes), i > k + 1, NEW m, m = lab.nodes[i]
                 PROVE  Names(m)' = DOMAIN lab.vrfs[m] /\ \A v \in Names(m)' : AsSaid(m, v)'
    BY <1>2, <1>3 DEF NodesWait
  <2>2. m \in Owners /\ m # n
    <3>1. lab.nodes[i] # lab.nodes[k + 1]
      <4>1. \A j \in 1..Len(lab.nodes) : lab.nodes[i] = lab.nodes[j] => i = j
        BY DEF Typed, LabOK
      <4>2. k + 1 \in 1..Len(lab.nodes) /\ i # k + 1
        BY <1>3, <2>1
      <4>. QED
        BY <4>1, <4>2
    <3>. QED
      BY <1>1, <2>1, <3>1, NodeFacts
  <2>3. Names(m) = DOMAIN lab.vrfs[m] /\ \A v \in Names(m) : AsSaid(m, v)
    <3>1. i > k /\ stage \notin Late \cup {"normalize", "aborted"}
      BY <1>3, <2>1 DEF Late
    <3>. QED
      BY <2>1, <3>1 DEF Progress, NodesWait
  <2>. QED
    BY <1>4, <2>2, <2>3
<1>11. UsedKnown'
  BY <1>3 DEF UsedKnown
<1>. QED
  BY <1>7, <1>8, <1>9, <1>10, <1>11 DEF Progress

\* Steps that only copy numbers: a VRF has those it had, those of the global
\* VRF, or none.
Copied(o, v) == v \in Names(Topology) /\ vrf'[o][v].id = vrf[Topology][v].id /\ vrf'[o][v].rd = vrf[Topology][v].rd
Copies ==
  /\ lab' = lab
  /\ \A o \in Owners : \A v \in Names(o)' :
       (v \in Names(o) /\ SameCell(o, v)) \/ Copied(o, v) \/ (vrf'[o][v].id = 0 /\ vrf'[o][v].rd = NoRd)
  /\ Names(Topology)' = Names(Topology)
  /\ \A v \in Names(Topology) : SameCell(Topology, v)

\* A step that changes no number copies none.
LEMMA SameCopies ==
  ASSUME SameNumbers
  PROVE  Copies
<1>1. Topology \in Owners
  BY DEF Owners
<1>. QED
  BY <1>1 DEF SameNumbers, Copies

\* The VRFs a node pulls have no numbers, or those of the global VRF.
LEMMA PullCopies ==
  ASSUME Typed, PullVrfs
  PROVE  Copies
<1>1. PICK n : n = lab.nodes[k + 1]
  OBVIOUS
<1>2. Topology \in Owners
  BY DEF Owners
<1>. QED
  BY <1>1, <1>2, PullCells DEF Copies

\* The steps that end with the VRFs in use.
LEMMA UseCells ==
  ASSUME Typed, MergeGlobalVrfs \/ CheckVrfs
  PROVE  /\ Copies
         /\ \A o \in Owners : \A v \in Names(o)' : (v \in Names(o) /\ SameCell(o, v)) \/ Copied(o, v)
         /\ MergeGlobalVrfs => \A n \in Nodes : Names(n) \cup (lab.used[n] \cap Names(Topology)) \subseteq Names(n)'
         /\ \A n \in Nodes : CheckVrfs /\ lab.used[n] # {} => Names(n)' = Names(n) /\ \A v \in Names(n) : SameCell(n, v)
<1>1. Topology \in Owners /\ Topology \notin Nodes /\ Nodes \subseteq Owners /\ lab' = lab
  BY DEF Owners, Typed, LabOK, MergeGlobalVrfs, CheckVrfs
<1>2. \A o : Names(o)' = DOMAIN vrf'[o]
  BY DEF Names
<1>3. CASE MergeGlobalVrfs
  <2> DEFINE InUse(n) == Names(n) \cup (lab.used[n] \cap Names(Topology))
  <2>1. \A o \in Owners : vrf'[o] = IF o = Topology THEN vrf[o]
                                  ELSE [v \in InUse(o) |-> IF v \in Names(o) THEN vrf[o][v] ELSE vrf[Topology][v]]
    BY <1>3, Zenon DEF MergeGlobalVrfs
  <2>2. Names(Topology)' = Names(Topology) /\ \A v \in Names(Topology) : SameCell(Topology, v)
    BY <1>1, <2>1 DEF Names, SameCell
  <2>3. ASSUME NEW n \in Owners, n # Topology
        PROVE  /\ Names(n)' = InUse(n)
               /\ \A v \in Names(n)' : (v \in Names(n) /\ SameCell(n, v)) \/ Copied(n, v)
    <3>1. vrf'[n] = [v \in InUse(n) |-> IF v \in Names(n) THEN vrf[n][v] ELSE vrf[Topology][v]]
      BY <2>1, <2>3
    <3>2. Names(n)' = InUse(n)
      BY <1>2, <3>1
    <3>. QED
      BY <3>1, <3>2 DEF SameCell, Copied
  <2>4. ~CheckVrfs
    BY <1>3 DEF MergeGlobalVrfs, CheckVrfs
  <2>. QED
    BY <1>1, <2>2, <2>3, <2>4 DEF Copies
<1>4. CASE CheckVrfs
  <2>1. \A o \in Owners : vrf'[o] = IF o # Topology /\ lab.used[o] = {} THEN Empty ELSE vrf[o]
    BY <1>4 DEF CheckVrfs
  <2>2. Names(Topology)' = Names(Topology) /\ \A v \in Names(Topology) : SameCell(Topology, v)
    BY <1>1, <2>1 DEF Names, SameCell
  <2>3. ASSUME NEW o \in Owners, NEW v \in Names(o)'
        PROVE  v \in Names(o) /\ SameCell(o, v)
    <3>1. DOMAIN Empty = {}
      BY DEF Empty
    <3>2. vrf'[o] = vrf[o]
      BY <1>2, <2>1, <3>1
    <3>. QED
      BY <1>2, <3>2 DEF Names, SameCell
  <2>4. \A n \in Nodes : lab.used[n] # {} => Names(n)' = Names(n) /\ \A v \in Names(n) : SameCell(n, v)
    BY <1>1, <2>1 DEF Names, SameCell
  <2>5. ~MergeGlobalVrfs
    BY <1>4 DEF MergeGlobalVrfs, CheckVrfs
  <2>. QED
    BY <1>1, <2>2, <2>3, <2>4, <2>5 DEF Copies
<1>. QED
  BY <1>3, <1>4

\* The VRFs a node gets last have their numbers from the global ones.
LEMMA UseProgress ==
  ASSUME Typed, ControlOK', Progress, MergeGlobalVrfs \/ CheckVrfs
  PROVE  Progress'
<1>1. /\ stage \in {"shared", "check"} /\ stage' \in {"aborted", "check", "done"} /\ lab' = lab
      /\ stage' = "check" => MergeGlobalVrfs /\ ~failed'
      /\ stage' = "done" => CheckVrfs /\ ~failed' /\ stage = "check"
  BY DEF MergeGlobalVrfs, CheckVrfs
<1>2. /\ Topology \in Owners /\ Nodes \subseteq Owners
      /\ \A i \in 1..Len(lab.nodes) : lab.nodes[i] \in Nodes
      /\ \A n \in Nodes : \E i \in 1..Len(lab.nodes) : n = lab.nodes[i]
  BY DEF Owners, Typed, LabOK
<1>3. \A v \in Names(Topology) : HasNumbers(Topology, v)
  BY <1>1 DEF Progress, TopologyDone
<1>4. \A n \in Nodes : \A v \in Names(n) : HasNumbers(n, v)
  <2>1. \A i \in 1..Len(lab.nodes) : Over(i)
    BY <1>1 DEF Over, Late
  <2>. QED
    BY <1>2, <2>1 DEF Progress, NodesDone
<1>5. \A v \in Names(Topology)' : HasNumbers(Topology, v)'
  <2>1. Names(Topology)' = Names(Topology) /\ \A v \in Names(Topology) : SameCell(Topology, v)
    BY UseCells DEF Copies
  <2>. QED
    BY <1>1, <1>3, <2>1, CellFact
<1>6. \A n \in Nodes : \A v \in Names(n)' : HasNumbers(n, v)'
  <2>1. SUFFICES ASSUME NEW n \in Nodes, NEW v \in Names(n)'
                 PROVE  HasNumbers(n, v)'
    OBVIOUS
  <2>2. (v \in Names(n) /\ SameCell(n, v)) \/ Copied(n, v)
    BY <1>2, UseCells
  <2>3. CASE v \in Names(n) /\ SameCell(n, v)
    BY <1>1, <1>4, <2>3, CellFact
  <2>4. CASE Copied(n, v)
    BY <1>3, <2>4 DEF Copied, HasNumbers
  <2>. QED
    BY <2>2, <2>3, <2>4
<1>7. WorkDone' /\ TopologyDone'
  BY <1>1, <1>5 DEF WorkDone, TopologyDone
<1>8. NodesDone'
  BY <1>1, <1>2, <1>6 DEF NodesDone
<1>9. NodesWait'
  BY <1>1 DEF NodesWait, Late
<1>10. UsedKnown'
  <2>1. Nodes' = Nodes
    BY <1>1, LabKept
  <2>2. CASE stage' = "check"
    <3>1. \A n \in Nodes : \A v \in lab.used[n] : Known(n, v)
      BY <1>1, <2>2 DEF MergeGlobalVrfs
    <3>2. \A n \in Nodes : Names(n) \cup (lab.used[n] \cap Names(Topology)) \subseteq Names(n)'
      BY <1>1, <2>2, UseCells
    <3>3. \A n \in Nodes : lab.used[n] \subseteq Names(n)'
      BY <3>1, <3>2 DEF Known, IsGlobal
    <3>. QED
      BY <1>1, <2>1, <2>2, <3>3 DEF UsedKnown
  <2>3. CASE stage' = "done"
    <3>1. \A n \in Nodes : lab.used[n] \subseteq Names(n) /\ \A v \in lab.used[n] : Usable(vrf[n][v].rd)
      <4>1. \A n \in Nodes : \A v \in lab.used[n] : Usable(vrf[n][v].rd)
        BY <1>1, <2>3 DEF CheckVrfs
      <4>2. \A n \in Nodes : lab.used[n] \subseteq Names(n)
        BY <1>1, <2>3 DEF Progress, UsedKnown
      <4>. QED
        BY <4>1, <4>2
    <3>2. \A n \in Nodes : lab.used[n] # {} => Names(n)' = Names(n) /\ \A v \in Names(n) : SameCell(n, v)
      BY <1>1, <2>3, UseCells
    <3>3. \A n \in Nodes : lab.used[n] \subseteq Names(n)' /\ \A v \in lab.used[n] : Usable(vrf'[n][v].rd)
      BY <3>1, <3>2 DEF SameCell
    <3>. QED
      BY <1>1, <2>1, <2>3, <3>3 DEF UsedKnown
  <2>4. CASE stage' = "aborted"
    BY <2>4 DEF UsedKnown
  <2>. QED
    BY <1>1, <2>2, <2>3, <2>4
<1>. QED
  BY <1>7, <1>8, <1>9, <1>10 DEF Progress

\* The steps on VNIs change nothing about numbers of VRFs.
LEMMA QuietProgress ==
  ASSUME Typed, Progress, Quiet
  PROVE  Progress' /\ SameNumbers
<1>1. UNCHANGED <<lab, stage, k, todo, vrf>>
  BY DEF Quiet
<1>2. SameNumbers
  BY <1>1, SameVrf
<1>3. k' \in 0..Len(lab.nodes) /\ k' >= k
  BY <1>1 DEF Typed, ControlOK
<1>4. \A i \in 1..Len(lab.nodes) : Over(i)' => Over(i)
  BY <1>1 DEF Over
<1>. QED
  BY <1>1, <1>2, <1>3, <1>4, ProgressSame

\* Every step keeps track of what has numbers.
LEMMA ProgressKeeps ==
  ASSUME lab \in Labs, Typed, ControlOK', Progress, Next \/ Quiet
  PROVE  Progress'
<1>1. CASE Quiet
  BY <1>1, QuietProgress
<1>2. CASE Hooks
  BY <1>2, HooksProgress
<1>3. CASE MergeGlobalVrfs \/ CheckVrfs
  BY <1>3, UseProgress
<1>4. CASE NormalizeVrfIds
  BY <1>4, NormalizeProgress
<1>5. CASE PopulateVrfStaticIds
  BY <1>5, PopulateProgress
<1>6. CASE KeepOrInheritId
  BY <1>6, KeepProgress
<1>7. CASE GenerateId
  BY <1>7, GenerateProgress
<1>8. CASE SetImportExportRt
  BY <1>8, TargetsProgress
<1>9. CASE PullVrfs
  BY <1>9, PullProgress
<1>. QED
  BY <1>1, <1>2, <1>3, <1>4, <1>5, <1>6, <1>7, <1>8, <1>9 DEF Next, Hooks

\* No VRF has more than the lab gives it at the start.
LEMMA ProgressStarts ==
  ASSUME LabOK, Init
  PROVE  Progress
<1>1. stage = "normalize" /\ k = 0
  BY DEF Init
<1>2. \A i \in 1..Len(lab.nodes) : ~Over(i)
  <2>1. Len(lab.nodes) \in Nat
    BY DEF LabOK
  <2>. QED
    BY <1>1, <2>1 DEF Over, Late
<1>. QED
  BY <1>1, <1>2 DEF Progress, WorkDone, TopologyDone, NodesDone, NodesWait, UsedKnown

-----------------------------------------------------------------------------
(* Numbers of VRFs *)

\* What the lab gives stays.
LEMMA GivenKept ==
  ASSUME lab' = lab
  PROVE  /\ NumbersClear' = NumbersClear /\ GivenRds' = GivenRds /\ GivenIds' = GivenIds
         /\ \A o, v : GivenRd(o, v)' = GivenRd(o, v)
         /\ \A o, v, p, w : One(o, v, p, w)' = One(o, v, p, w)
<1>1. Nodes' = Nodes /\ Owners' = Owners /\ HasGlobals' = HasGlobals
  BY LabKept
<1>2. \A o, v : GivenRd(o, v)' = GivenRd(o, v)
  BY DEF GivenRd, Own
<1>3. GivenRds' = GivenRds
  BY <1>1, <1>2 DEF GivenRds
<1>4. GivenIds' = GivenIds
  BY <1>1 DEF GivenIds
<1>5. \A o, v, p, w : One(o, v, p, w)' = One(o, v, p, w)
  BY DEF One
<1>6. GivenApart' = GivenApart
  BY <1>1, <1>2, <1>5 DEF GivenApart
<1>7. GivenOnce' = GivenOnce /\ GivenWithGlobals' = GivenWithGlobals
  BY <1>1, <1>3, <1>4 DEF GivenOnce, GivenWithGlobals
<1>8. EmptyRdsFree' = EmptyRdsFree
  <2>1. \A n, v : MadeOf(n, v)' = MadeOf(n, v)
    BY DEF MadeOf
  <2>. QED
    BY <1>1, <1>3, <2>1 DEF EmptyRdsFree
<1>. QED
  BY <1>2, <1>3, <1>4, <1>5, <1>6, <1>7, <1>8 DEF NumbersClear

\* VRFs that are one VRF.
LEMMA OneFact ==
  ASSUME NEW o, NEW v, NEW p, NEW w, NEW g, NEW h, One(o, v, g, v), One(p, w, h, w)
  PROVE  One(o, v, p, w) = One(g, v, h, w)
BY DEF One

\* A given rd is given by the VRF that is as the lab says.
LEMMA SaidGiven ==
  ASSUME Typed, NEW o \in Owners, NEW v, AsSaid(o, v), Usable(vrf[o][v].rd)
  PROVE  v \in DOMAIN lab.vrfs[o] /\ vrf[o][v].rd = GivenRd(o, v) /\ vrf[o][v].rd \in GivenRds
<1>1. v \in DOMAIN lab.vrfs[o]
  <2>1. SUFFICES ASSUME v \notin DOMAIN lab.vrfs[o] PROVE FALSE
    OBVIOUS
  <2>2. Said(o, v).rd = NoRd
    BY <2>1 DEF Said, New
  <2>3. Own(o, NoRd) = NoRd /\ ~Usable(NoRd)
    BY DEF Own, Usable
  <2>. QED
    BY <2>2, <2>3 DEF AsSaid
<1>2. vrf[o][v].rd = GivenRd(o, v)
  BY <1>1 DEF AsSaid, Said, GivenRd
<1>. QED
  BY <1>1, <1>2 DEF GivenRds

\* The numbers of a VRF that has the id and rd of another one.
LEMMA NumbersOf ==
  ASSUME lab' = lab, NEW o, NEW v, NEW g, vrf'[o][v].id = vrf[g][v].id, vrf'[o][v].rd = vrf[g][v].rd
  PROVE  Numbers(o, v)' = Numbers(g, v)
BY GivenKept DEF Numbers

\* A VRF without id and route distinguisher takes no numbers.
LEMMA NoNumbers ==
  ASSUME NEW o, NEW v, vrf'[o][v].id = 0, vrf'[o][v].rd = NoRd
  PROVE  Numbers(o, v)' = {} /\ (lab' = lab => vrf'[o][v].rd \notin GivenRds)
<1>1. ~Usable(NoRd) /\ \A rd \in GivenRds : Usable(rd)
  BY DEF Usable, GivenRds
<1>. QED
  BY <1>1 DEF Numbers

\* Copied numbers stay apart.
LEMMA CopiesApart ==
  ASSUME Typed, NumbersApart, Copies, stage # "normalize" \/ SameNumbers, UNCHANGED <<ids, rds>>,
         stage' \notin {"normalize", "register", "aborted"} => stage \notin {"normalize", "register", "aborted"}
  PROVE  NumbersApart'
<1>1. /\ lab' = lab /\ Owners' = Owners /\ Nodes' = Nodes /\ GivenRds' = GivenRds /\ GivenIds' = GivenIds /\ Nodes \subseteq Owners
      /\ \A o, v : GivenRd(o, v)' = GivenRd(o, v)
      /\ \A o, v, p, w : One(o, v, p, w)' = One(o, v, p, w)
      /\ Topology \in Owners
  BY LabKept, GivenKept DEF Copies, Owners
<1> DEFINE From(o, v, g) == /\ g \in Owners /\ v \in Names(g) /\ One(o, v, g, v)
                            /\ vrf'[o][v].id = vrf[g][v].id /\ vrf'[o][v].rd = vrf[g][v].rd
                            /\ Numbers(o, v)' = Numbers(g, v)
           None(o, v) == vrf'[o][v].id = 0 /\ vrf'[o][v].rd \notin GivenRds /\ Numbers(o, v)' = {}
<1>2. ASSUME NEW o \in Owners, NEW v \in Names(o)'
      PROVE  (\E g \in Owners : From(o, v, g)) \/ None(o, v)
  <2>1. CASE v \in Names(o) /\ SameCell(o, v)
    <3>1. From(o, v, o)
      BY <1>1, <2>1, NumbersOf DEF SameCell, One
    <3>. QED
      BY <3>1
  <2>2. CASE vrf'[o][v].id = 0 /\ vrf'[o][v].rd = NoRd
    <3>1. None(o, v)
      BY <1>1, <2>2, NoNumbers
    <3>. QED
      BY <3>1
  <2>3. CASE Copied(o, v) /\ stage # "normalize"
    <3>1. v \in DOMAIN lab.vrfs[Topology] /\ v \in Names(Topology)
      BY <2>3 DEF Copied, Typed, WorkOK
    <3>2. From(o, v, Topology)
      BY <1>1, <2>3, <3>1, NumbersOf DEF Copied, One
    <3>. QED
      BY <1>1, <3>2
  <2>4. CASE SameNumbers
    BY <2>1, <2>4 DEF SameNumbers
  <2>. QED
    BY <2>1, <2>2, <2>3, <2>4 DEF Copies
<1>3. Registered'
  <2>1. SUFFICES ASSUME stage' \notin {"normalize", "register", "aborted"}
                 PROVE  /\ \A o \in Owners : \A v \in Names(o)' : Numbers(o, v)' \subseteq ids
                        /\ GivenRds \subseteq rds /\ GivenIds \subseteq ids
    BY <1>1 DEF Registered
  <2>2. /\ \A o \in Owners : \A v \in Names(o) : Numbers(o, v) \subseteq ids
        /\ GivenRds \subseteq rds /\ GivenIds \subseteq ids
    BY <2>1 DEF NumbersApart, Registered
  <2>. QED
    BY <1>2, <2>2
<1>4. Apart'
  <2>1. SUFFICES ASSUME NEW o \in Owners, NEW p \in Owners, NEW v \in Names(o)', NEW w \in Names(p)', ~One(o, v, p, w)
                 PROVE  Numbers(o, v)' \cap Numbers(p, w)' = {}
    BY <1>1 DEF Apart
  <2>2. CASE None(o, v) \/ None(p, w)
    BY <2>2
  <2>3. CASE ~None(o, v) /\ ~None(p, w)
    <3>1. PICK g \in Owners, h \in Owners : From(o, v, g) /\ From(p, w, h)
      BY <1>2, <2>3
    <3>2. ~One(g, v, h, w)
      BY <2>1, <3>1, OneFact
    <3>. QED
      BY <3>1, <3>2 DEF NumbersApart, Apart
  <2>. QED
    BY <2>2, <2>3
<1>5. Origins'
  <2>1. SUFFICES ASSUME NEW o \in Owners, NEW v \in Names(o)', vrf'[o][v].rd \in GivenRds
                 PROVE  \E p \in Owners : One(o, v, p, v) /\ v \in DOMAIN lab.vrfs[p] /\ vrf'[o][v].rd = GivenRd(p, v)
    BY <1>1 DEF Origins
  <2>2. PICK g \in Owners : From(o, v, g)
    BY <1>2, <2>1
  <2>3. PICK p \in Owners : One(g, v, p, v) /\ v \in DOMAIN lab.vrfs[p] /\ vrf[g][v].rd = GivenRd(p, v)
    BY <2>1, <2>2 DEF NumbersApart, Origins
  <2>4. One(o, v, p, v)
    BY <2>2, <2>3 DEF One
  <2>. QED
    BY <2>2, <2>3, <2>4
<1>6. GlobalIds'
  <2>1. Names(Topology)' = Names(Topology) /\ \A v \in Names(Topology) : vrf'[Topology][v].id = vrf[Topology][v].id
    BY DEF Copies, SameCell
  <2>2. ASSUME NEW n \in Nodes, NEW v \in Names(n)', v \in Names(Topology)
        PROVE  vrf'[n][v].id \in {0, vrf[Topology][v].id}
    <3>1. CASE v \in Names(n) /\ SameCell(n, v)
      BY <2>2, <3>1 DEF NumbersApart, GlobalIds, SameCell
    <3>2. CASE Copied(n, v) \/ vrf'[n][v].id = 0
      BY <3>2 DEF Copied
    <3>. QED
      BY <1>1, <3>1, <3>2 DEF Copies
  <2>. QED
    BY <1>1, <2>1, <2>2 DEF NumbersApart, GlobalIds
<1>. QED
  BY <1>3, <1>4, <1>5, <1>6 DEF NumbersApart

\* A VRF that gets numbers of the VRF it is, and numbers nobody has.
LEMMA GainsApart ==
  ASSUME Typed, NumbersApart, stage \notin {"normalize", "register", "aborted"},
         NEW o \in Owners, NEW v \in Names(o), OthersKeep(o, v),
         NEW g \in Owners, v \in Names(g), One(o, v, g, v),
         NEW F, F \cap ids = {}, ids \cup F \subseteq ids', rds \subseteq rds',
         Numbers(o, v)' \subseteq Numbers(o, v) \cup Numbers(g, v) \cup F
  PROVE  Registered' /\ Apart'
<1>1. /\ lab' = lab /\ Owners' = Owners /\ GivenRds' = GivenRds /\ GivenIds' = GivenIds
      /\ \A p, w, q, x : One(p, w, q, x)' = One(p, w, q, x)
  BY LabKept, GivenKept DEF OthersKeep
<1>2. \A p \in Owners : Names(p)' = Names(p) /\ \A w \in Names(p) : p # o \/ w # v => Numbers(p, w)' = Numbers(p, w)
  BY <1>1, NumbersOf DEF OthersKeep, SameCell
<1>3. /\ \A p \in Owners : \A w \in Names(p) : Numbers(p, w) \subseteq ids
      /\ GivenRds \subseteq rds /\ GivenIds \subseteq ids
  BY DEF NumbersApart, Registered
<1>4. Numbers(o, v)' \subseteq ids'
  BY <1>3
<1>5. Registered'
  <2>1. \A p \in Owners : \A w \in Names(p) : Numbers(p, w)' \subseteq ids'
    BY <1>2, <1>3, <1>4
  <2>. QED
    BY <1>1, <1>2, <1>3, <2>1 DEF Registered
<1>6. ASSUME NEW p \in Owners, NEW w \in Names(p), ~One(o, v, p, w)
      PROVE  Numbers(o, v)' \cap Numbers(p, w)' = {}
  <2>1. p # o \/ w # v
    BY <1>6 DEF One
  <2>2. Numbers(p, w)' = Numbers(p, w) /\ Numbers(p, w) \subseteq ids
    BY <1>2, <1>3, <2>1
  <2>3. ~One(g, v, p, w)
    BY <1>6 DEF One
  <2>4. Numbers(o, v) \cap Numbers(p, w) = {} /\ Numbers(g, v) \cap Numbers(p, w) = {}
    BY <1>6, <2>3 DEF NumbersApart, Apart
  <2>. QED
    BY <2>2, <2>4
<1>7. Apart'
  <2>1. SUFFICES ASSUME NEW p \in Owners, NEW q \in Owners, NEW w \in Names(p), NEW x \in Names(q), ~One(p, w, q, x)
                 PROVE  Numbers(p, w)' \cap Numbers(q, x)' = {}
    BY <1>1, <1>2 DEF Apart
  <2>2. CASE p = o /\ w = v
    BY <1>6, <2>1, <2>2
  <2>3. CASE q = o /\ x = v
    <3>1. ~One(o, v, p, w)
      BY <2>1, <2>3 DEF One
    <3>. QED
      BY <1>6, <2>3, <3>1
  <2>4. CASE (p # o \/ w # v) /\ (q # o \/ x # v)
    BY <1>2, <2>1, <2>4 DEF NumbersApart, Apart
  <2>. QED
    BY <2>2, <2>3, <2>4
<1>. QED
  BY <1>5, <1>7

\* The numbers the lab gives are apart.
LEMMA NormalizeApart ==
  ASSUME Typed, NumbersClear, NormalizeVrfIds
  PROVE  NumbersApart'
<1>1. /\ lab' = lab /\ Owners' = Owners /\ Nodes' = Nodes /\ GivenRds' = GivenRds /\ GivenIds' = GivenIds
      /\ Topology \in Owners /\ Nodes \subseteq Owners
      /\ \A o, v : GivenRd(o, v)' = GivenRd(o, v)
      /\ \A o, v, p, w : One(o, v, p, w)' = One(o, v, p, w)
  BY LabKept, GivenKept DEF NormalizeVrfIds, Owners
<1>2. \A o \in Owners : /\ Names(o)' = DOMAIN lab.vrfs[o]
                        /\ \A v \in DOMAIN lab.vrfs[o] : vrf'[o][v].id = lab.vrfs[o][v].id /\ vrf'[o][v].rd = GivenRd(o, v)
  BY NormalizeCells DEF GivenRd
<1>3. ASSUME NEW o \in Owners, NEW v \in DOMAIN lab.vrfs[o]
      PROVE  Numbers(o, v)' = {lab.vrfs[o][v].id} \ {0}
  <2>1. Usable(vrf'[o][v].rd) => vrf'[o][v].rd \in GivenRds
    BY <1>2 DEF GivenRds
  <2>2. vrf'[o][v].id = lab.vrfs[o][v].id
    BY <1>2
  <2>. QED
    BY <1>1, <2>1, <2>2 DEF Numbers
<1>4. Registered'
  <2>1. SUFFICES ASSUME stage' \notin {"normalize", "register", "aborted"} PROVE Registered'
    BY DEF Registered
  <2>2. GivenIds = {} /\ GivenRds = {}
    BY <2>1 DEF NumbersClear, GivenWithGlobals, NormalizeVrfIds
  <2>3. ASSUME NEW o \in Owners, NEW v \in DOMAIN lab.vrfs[o]
        PROVE  {lab.vrfs[o][v].id} \ {0} = {}
    BY <2>2 DEF GivenIds
  <2>4. \A o \in Owners : \A v \in DOMAIN lab.vrfs[o] : Numbers(o, v)' = {}
    BY <1>3, <2>3
  <2>. QED
    BY <1>1, <1>2, <2>2, <2>4 DEF Registered
<1>5. Apart'
  <2>1. SUFFICES ASSUME NEW o \in Owners, NEW p \in Owners, NEW v \in DOMAIN lab.vrfs[o], NEW w \in DOMAIN lab.vrfs[p], ~One(o, v, p, w)
                 PROVE  Numbers(o, v)' \cap Numbers(p, w)' = {}
    BY <1>1, <1>2 DEF Apart
  <2>2. lab.vrfs[o][v].id # 0 => lab.vrfs[o][v].id # lab.vrfs[p][w].id
    BY <2>1 DEF NumbersClear, GivenApart
  <2>. QED
    BY <1>3, <2>2
<1>6. Origins'
  <2>1. \A o \in Owners : \A v \in Names(o)' : One(o, v, o, v) /\ v \in DOMAIN lab.vrfs[o] /\ vrf'[o][v].rd = GivenRd(o, v)
    BY <1>2 DEF One
  <2>. QED
    BY <1>1, <2>1 DEF Origins
<1>7. GlobalIds'
  <2>1. \A n \in Nodes : \A v \in DOMAIN lab.vrfs[n] \cap DOMAIN lab.vrfs[Topology] : lab.vrfs[n][v].id \in {0, lab.vrfs[Topology][v].id}
    BY DEF NumbersClear, GivenOnce
  <2>2. \A n \in Nodes : \A v \in Names(n)' \cap Names(Topology)' : vrf'[n][v].id \in {0, vrf'[Topology][v].id}
    BY <1>1, <1>2, <2>1
  <2>3. \A v \in Names(Topology)' : vrf'[Topology][v].id = lab.vrfs[Topology][v].id
    BY <1>1, <1>2
  <2>. QED
    BY <1>1, <2>2, <2>3 DEF GlobalIds
<1>. QED
  BY <1>4, <1>5, <1>6, <1>7 DEF NumbersApart

\* Before the first VRF gets numbers all of them are as the lab says.
LEMMA AllAsSaid ==
  ASSUME Typed, Progress, stage = "register"
  PROVE  \A o \in Owners : Names(o) = DOMAIN lab.vrfs[o] /\ \A v \in Names(o) : AsSaid(o, v)
<1>1. k = 0 /\ Names(Topology) = DOMAIN lab.vrfs[Topology]
  BY DEF Typed, WorkOK
<1>2. \A v \in Names(Topology) : AsSaid(Topology, v)
  BY DEF Progress, TopologyDone
<1>3. ASSUME NEW n \in Nodes
      PROVE  Names(n) = DOMAIN lab.vrfs[n] /\ \A v \in Names(n) : AsSaid(n, v)
  <2>1. PICK i \in 1..Len(lab.nodes) : n = lab.nodes[i]
    BY DEF Typed, LabOK
  <2>2. i > k
    BY <1>1
  <2>. QED
    BY <2>1, <2>2 DEF Progress, NodesWait, Late
<1>. QED
  BY <1>1, <1>2, <1>3 DEF Owners

\* Registering the given numbers puts all of them into the sets.
LEMMA PopulateApart ==
  ASSUME Typed, Progress, NumbersApart, PopulateVrfStaticIds
  PROVE  NumbersApart'
<1>1. UNCHANGED <<lab, vrf>> /\ stage = "register" /\ ids' = StaticIds /\ rds' = StaticRds
  BY DEF PopulateVrfStaticIds
<1>2. /\ Owners' = Owners /\ Nodes' = Nodes /\ GivenRds' = GivenRds /\ GivenIds' = GivenIds
      /\ \A o, v : GivenRd(o, v)' = GivenRd(o, v)
      /\ \A o, v, p, w : One(o, v, p, w)' = One(o, v, p, w)
      /\ \A o : Names(o)' = Names(o)
      /\ \A o, v : Numbers(o, v)' = Numbers(o, v)
  BY <1>1, LabKept, GivenKept DEF Names, Numbers
<1>3. \A o \in Owners : Names(o) = DOMAIN lab.vrfs[o] /\ \A v \in Names(o) : AsSaid(o, v)
  BY <1>1, AllAsSaid
<1>4. \A o \in Owners : \A v \in Names(o) : vrf[o][v].id = lab.vrfs[o][v].id /\ vrf[o][v].rd = GivenRd(o, v)
  BY <1>3 DEF AsSaid, Said, GivenRd
<1>5. ASSUME NEW o \in Owners, NEW v \in Names(o)
      PROVE  Numbers(o, v) \subseteq ids'
  <2>1. Usable(vrf[o][v].rd) => vrf[o][v].rd \in GivenRds
    BY <1>3, SaidGiven
  <2>2. Numbers(o, v) = {vrf[o][v].id} \ {0}
    BY <2>1 DEF Numbers
  <2>3. ids' = (UNION {{vrf[p][w].id : w \in Names(p)} : p \in Owners}) \ {0}
    BY <1>1 DEF StaticIds
  <2>. QED
    BY <2>2, <2>3
<1>6. GivenIds \subseteq ids'
  <2>1. ASSUME NEW x \in GivenIds PROVE x \in ids'
    <3>1. PICK o \in Owners : \E v \in DOMAIN lab.vrfs[o] : x = lab.vrfs[o][v].id /\ x # 0
      BY DEF GivenIds
    <3>2. \E v \in Names(o) : vrf[o][v].id = x
      BY <1>3, <1>4, <3>1
    <3>. QED
      BY <1>1, <3>1, <3>2 DEF StaticIds
  <2>. QED
    BY <2>1
<1>7. GivenRds \subseteq rds'
  <2>1. ASSUME NEW x \in GivenRds PROVE x \in rds'
    <3>1. PICK o \in Owners : \E v \in DOMAIN lab.vrfs[o] : x = GivenRd(o, v) /\ Usable(x)
      BY DEF GivenRds
    <3>2. \E v \in Names(o) : vrf[o][v].rd = x
      BY <1>3, <1>4, <3>1
    <3>. QED
      BY <1>1, <3>1, <3>2 DEF StaticRds
  <2>. QED
    BY <2>1
<1>8. Registered'
  BY <1>2, <1>5, <1>6, <1>7 DEF Registered
<1>9. Apart'
  BY <1>2 DEF NumbersApart, Apart
<1>10. Origins'
  BY <1>1, <1>2 DEF NumbersApart, Origins
<1>11. GlobalIds'
  BY <1>1, <1>2 DEF NumbersApart, GlobalIds
<1>. QED
  BY <1>8, <1>9, <1>10, <1>11 DEF NumbersApart

\* An empty rd of a global VRF on a node makes no given rd.
LEMMA EmptyMakes ==
  ASSUME Typed, NumbersClear, NumbersApart, stage # "normalize", NEW o \in Nodes, NEW v \in DOMAIN lab.vrfs[o], v \in Names(Topology),
         lab.vrfs[o][v].rd = EmptyRd, vrf[Topology][v].id # 0
  PROVE  <<lab.as[o], vrf[Topology][v].id>> \notin GivenRds
<1> DEFINE x == vrf[Topology][v].id
           given == lab.vrfs[Topology][v].id
<1>1. v \in DOMAIN lab.vrfs[Topology]
  BY DEF Typed, WorkOK
<1>2. MadeOf(o, v) \cap GivenRds = {}
  BY <1>1 DEF NumbersClear, EmptyRdsFree
<1>3. IF given # 0 THEN x = given ELSE x \in 1..MaxVrfId /\ <<lab.as[Topology], x>> \notin GivenRds
  BY DEF NumbersApart, GlobalIds
<1>4. CASE given # 0
  <2>1. <<lab.as[o], x>> \in MadeOf(o, v)
    BY <1>3, <1>4 DEF MadeOf
  <2>. QED
    BY <1>2, <2>1
<1>5. CASE given = 0 /\ lab.as[o] = lab.as[Topology]
  BY <1>3, <1>5
<1>6. CASE given = 0 /\ lab.as[o] # lab.as[Topology]
  <2>1. <<lab.as[o], x>> \in MadeOf(o, v)
    BY <1>3, <1>6 DEF MadeOf
  <2>. QED
    BY <1>2, <2>1
<1>. QED
  BY <1>4, <1>5, <1>6

\* Global VRFs and their ids, when a VRF of a node changes.
LEMMA NodeChanges ==
  ASSUME Typed, NumbersApart, NEW o \in Owners, NEW v \in Names(o), OthersKeep(o, v),
         v \in Names(Topology) => o # Topology /\ vrf'[o][v].id \in {0, vrf[Topology][v].id}
  PROVE  GlobalIds'
<1>1. /\ lab' = lab /\ Nodes' = Nodes /\ GivenRds' = GivenRds /\ Topology \in Owners /\ Nodes \subseteq Owners
  BY LabKept, GivenKept DEF OthersKeep, Owners
<1>2. Names(Topology)' = Names(Topology) /\ \A w \in Names(Topology) : vrf'[Topology][w].id = vrf[Topology][w].id
  BY <1>1 DEF OthersKeep, SameCell
<1>3. ASSUME NEW n \in Nodes, NEW w \in Names(n), w \in Names(Topology)
      PROVE  vrf'[n][w].id \in {0, vrf[Topology][w].id}
  <2>1. CASE n = o /\ w = v
    BY <1>3, <2>1
  <2>2. CASE n # o \/ w # v
    <3>1. vrf'[n][w].id = vrf[n][w].id
      BY <1>1, <2>2 DEF OthersKeep, SameCell
    <3>. QED
      BY <1>3, <3>1 DEF NumbersApart, GlobalIds
  <2>. QED
    BY <2>1, <2>2
<1>4. \A n \in Nodes : Names(n)' = Names(n)
  BY <1>1 DEF OthersKeep
<1>. QED
  BY <1>1, <1>2, <1>3, <1>4 DEF NumbersApart, GlobalIds

\* Given rds, when a VRF changes.
LEMMA RdChanges ==
  ASSUME NumbersApart, NEW o \in Owners, NEW v \in Names(o), OthersKeep(o, v),
         vrf'[o][v].rd \in GivenRds => \E g \in Owners : v \in Names(g) /\ One(o, v, g, v) /\ vrf'[o][v].rd = vrf[g][v].rd
  PROVE  Origins'
<1>1. /\ lab' = lab /\ Owners' = Owners /\ GivenRds' = GivenRds
      /\ \A p, w : GivenRd(p, w)' = GivenRd(p, w)
      /\ \A p, w, q, x : One(p, w, q, x)' = One(p, w, q, x)
  BY LabKept, GivenKept DEF OthersKeep
<1>2. ASSUME NEW p \in Owners, NEW w \in Names(p), vrf'[p][w].rd \in GivenRds
      PROVE  \E q \in Owners : One(p, w, q, w) /\ w \in DOMAIN lab.vrfs[q] /\ vrf'[p][w].rd = GivenRd(q, w)
  <2>1. PICK g \in Owners : w \in Names(g) /\ One(p, w, g, w) /\ vrf'[p][w].rd = vrf[g][w].rd
    <3>1. CASE p = o /\ w = v
      BY <1>2, <3>1
    <3>2. CASE p # o \/ w # v
      <4>1. vrf'[p][w].rd = vrf[p][w].rd /\ One(p, w, p, w)
        BY <3>2 DEF OthersKeep, SameCell, One
      <4>. QED
        BY <4>1
    <3>. QED
      BY <3>1, <3>2
  <2>2. PICK q \in Owners : One(g, w, q, w) /\ w \in DOMAIN lab.vrfs[q] /\ vrf[g][w].rd = GivenRd(q, w)
    BY <1>2, <2>1 DEF NumbersApart, Origins
  <2>3. One(p, w, q, w)
    BY <2>1, <2>2 DEF One
  <2>. QED
    BY <2>1, <2>2, <2>3
<1>3. \A p \in Owners : Names(p)' = Names(p)
  BY DEF OthersKeep
<1>. QED
  BY <1>1, <1>2, <1>3 DEF Origins

\* Numbers a VRF keeps or inherits stay apart from all others.
LEMMA KeepApart ==
  ASSUME lab \in Labs, Typed, Progress, NumbersClear, NumbersApart, KeepOrInheritId
  PROVE  NumbersApart'
<1>1. PICK o, v : o = Owner /\ v = Current
  OBVIOUS
<1>2. /\ o \in Owners /\ v \in Names(o) /\ AsSaid(o, v) /\ OthersKeep(o, v)
      /\ \/ SameCell(o, v)
         \/ /\ Inherits(o, v) /\ HasNumbers(Topology, v)
            /\ vrf'[o][v].id = Inherited(o, v).id /\ vrf'[o][v].rd = Inherited(o, v).rd
  BY <1>1, KeepCell
<1>3. stage = "ids" /\ stage' \in {"ids", "targets"} /\ UNCHANGED <<ids, rds>> /\ lab' = lab /\ GivenRds' = GivenRds
  BY GivenKept DEF KeepOrInheritId, Following
<1>4. CASE SameCell(o, v)
  <2>1. SameNumbers
    BY <1>2, <1>4 DEF SameNumbers, OthersKeep
  <2>. QED
    BY <1>3, <2>1, SameCopies, CopiesApart
<1>5. CASE Inherits(o, v) /\ HasNumbers(Topology, v) /\ vrf'[o][v].id = Inherited(o, v).id /\ vrf'[o][v].rd = Inherited(o, v).rd
  <2> DEFINE x == vrf[Topology][v].id
  <2>1. o # Topology /\ o \in Nodes /\ Topology \in Owners /\ v \in Names(Topology) /\ v \in DOMAIN lab.vrfs[Topology] /\ One(o, v, Topology, v)
    BY <1>2, <1>3, <1>5 DEF Inherits, IsGlobal, Owners, Typed, WorkOK, One
  <2>2. /\ Inherited(o, v).id = IF vrf[o][v].id = 0 THEN x ELSE vrf[o][v].id
        /\ Inherited(o, v).rd = (CASE vrf[o][v].rd = NoRd -> vrf[Topology][v].rd
                                   [] vrf[o][v].rd = EmptyRd -> <<lab.as[o], Inherited(o, v).id>>
                                   [] OTHER -> vrf[o][v].rd)
    BY <1>2, <1>5, InheritedNumbers
  <2>3. vrf[o][v].id \in {0, x} /\ x # 0
    BY <1>2, <1>5, <2>1 DEF NumbersApart, GlobalIds, HasNumbers
  <2>4. vrf'[o][v].id = x /\ x \in Numbers(Topology, v)
    BY <1>5, <2>2, <2>3 DEF Numbers
  <2> DEFINE F == {}
  <2>0. F \cap ids = {} /\ ids \cup F \subseteq ids' /\ rds \subseteq rds' /\ stage \notin {"normalize", "register", "aborted"}
    BY <1>3
  <2>5. CASE vrf[o][v].rd = NoRd
    <3>1. vrf'[o][v].rd = vrf[Topology][v].rd
      BY <1>5, <2>2, <2>5 DEF EmptyRd, NoRd
    <3>2. Numbers(o, v)' = Numbers(Topology, v)
      BY <1>3, <2>4, <3>1, NumbersOf
    <3>3. Registered' /\ Apart'
      <4>1. Numbers(o, v)' \subseteq Numbers(o, v) \cup Numbers(Topology, v) \cup F
        BY <3>2
      <4> HIDE DEF F
      <4>. QED
        BY <1>2, <2>1, <2>0, <4>1, GainsApart
    <3>4. GlobalIds'
      BY <1>2, <2>1, <2>4, NodeChanges
    <3>5. Origins'
      BY <1>2, <2>1, <3>1, RdChanges
    <3>. QED
      BY <3>3, <3>4, <3>5 DEF NumbersApart
  <2>6. CASE vrf[o][v].rd = EmptyRd
    <3>1. vrf'[o][v].rd = <<lab.as[o], x>>
      BY <1>5, <2>2, <2>4, <2>6 DEF EmptyRd, NoRd
    <3>2. v \in DOMAIN lab.vrfs[o] /\ lab.vrfs[o][v].rd = EmptyRd
      <4>1. Own(o, Said(o, v).rd) = EmptyRd
        BY <1>2, <2>6 DEF AsSaid
      <4>2. v \in DOMAIN lab.vrfs[o]
        <5>1. Own(o, NoRd) = NoRd /\ NoRd # EmptyRd
          BY DEF Own, Usable, NoRd, EmptyRd
        <5>. QED
          BY <4>1, <5>1 DEF Said, New
      <4>3. lab.vrfs[o][v].rd \in Rds
        BY <1>2, <4>2 DEF Typed, LabOK
      <4>4. ~Usable(EmptyRd)
        BY DEF Usable
      <4>5. Own(o, lab.vrfs[o][v].rd) = EmptyRd
        BY <4>1, <4>2 DEF Said
      <4>. QED
        BY <1>2, <4>2, <4>3, <4>4, <4>5, OwnFact DEF Typed
    <3>3. vrf'[o][v].rd \notin GivenRds
      BY <1>3, <2>1, <2>3, <3>1, <3>2, EmptyMakes
    <3>4. Numbers(o, v)' \subseteq Numbers(o, v) \cup Numbers(Topology, v) \cup F
      <4>1. vrf'[o][v].rd[2] = x
        BY <3>1
      <4>2. Numbers(o, v)' \subseteq {x}
        BY <2>4, <4>1 DEF Numbers
      <4>. QED
        BY <2>4, <4>2
    <3>5. Registered' /\ Apart'
      <4> HIDE DEF F
      <4>. QED
        BY <1>2, <2>1, <2>0, <3>4, GainsApart
    <3>6. GlobalIds'
      BY <1>2, <2>1, <2>4, NodeChanges
    <3>7. Origins'
      BY <1>2, <3>3, RdChanges
    <3>. QED
      BY <3>5, <3>6, <3>7 DEF NumbersApart
  <2>7. CASE vrf[o][v].rd # NoRd /\ vrf[o][v].rd # EmptyRd
    <3>1. vrf'[o][v].rd = vrf[o][v].rd
      BY <1>5, <2>2, <2>7
    <3>2. vrf[o][v].rd \in GivenRds
      BY <1>2, <2>7, SaidGiven DEF Usable
    <3>3. Numbers(o, v)' \subseteq Numbers(o, v) \cup Numbers(Topology, v) \cup F
      <4>1. Numbers(o, v)' \subseteq {x}
        BY <1>3, <2>4, <3>1, <3>2 DEF Numbers
      <4>. QED
        BY <2>4, <4>1
    <3>4. Registered' /\ Apart'
      <4> HIDE DEF F
      <4>. QED
        BY <1>2, <2>1, <2>0, <3>3, GainsApart
    <3>5. GlobalIds'
      BY <1>2, <2>1, <2>4, NodeChanges
    <3>6. Origins'
      <4>1. One(o, v, o, v)
        BY DEF One
      <4>. QED
        BY <1>2, <3>1, <4>1, RdChanges
    <3>. QED
      BY <3>4, <3>5, <3>6 DEF NumbersApart
  <2>. QED
    BY <2>5, <2>6, <2>7
<1>. QED
  BY <1>2, <1>4, <1>5

\* A generated number is apart from all others.
LEMMA GenerateApart ==
  ASSUME lab \in Labs, Typed, Progress, NumbersClear, NumbersApart, GenerateId
  PROVE  NumbersApart'
<1>1. CASE stage' = "aborted"
  <2>1. UNCHANGED <<lab, vrf, ids, rds>> /\ stage = "ids"
    BY <1>1 DEF GenerateId, Following
  <2>. QED
    BY <1>1, <2>1, SameVrf, SameCopies, CopiesApart
<1>2. CASE stage' # "aborted"
  <2>1. PICK o, v : o = Owner /\ v = Current
    OBVIOUS
  <2> DEFINE Takes(n) ==
        /\ n \notin ids /\ <<lab.as[o], n>> \notin rds
        /\ ids \cup {n} \subseteq ids' /\ rds \subseteq rds'
        /\ vrf'[o][v].id = (IF vrf[o][v].id # 0 THEN vrf[o][v].id
                            ELSE IF Inherits(o, v) THEN vrf[Topology][v].id ELSE n)
        /\ vrf'[o][v].rd = (IF vrf[o][v].rd = NoRd THEN <<lab.as[o], n>> ELSE vrf[o][v].rd)
        /\ Inherits(o, v) => Usable(vrf[o][v].rd)
  <2>2. /\ o \in Owners /\ v \in Names(o) /\ AsSaid(o, v) /\ OthersKeep(o, v)
        /\ Inherits(o, v) => HasNumbers(Topology, v)
        /\ \E n \in 1..MaxVrfId : Takes(n)
    BY <1>2, <2>1, GenerateCell
  <2>3. PICK n \in 1..MaxVrfId : Takes(n)
    BY <2>2
  <2>4. stage = "ids" /\ lab' = lab /\ GivenRds' = GivenRds /\ One(o, v, o, v) /\ stage \notin {"normalize", "register", "aborted"}
    BY GivenKept DEF GenerateId, One
  <2>5. <<lab.as[o], n>> \notin GivenRds /\ <<lab.as[o], n>>[2] = n
    BY <2>3, <2>4 DEF NumbersApart, Registered
  <2>6. vrf[o][v].rd # NoRd => (Usable(vrf[o][v].rd) => vrf[o][v].rd \in GivenRds) /\ vrf'[o][v].rd = vrf[o][v].rd
    BY <2>2, <2>3, SaidGiven
  <2>7. Origins'
    BY <2>2, <2>3, <2>4, <2>5, <2>6, RdChanges
  <2>8. CASE Inherits(o, v)
    <3>1. o # Topology /\ o \in Nodes /\ Topology \in Owners /\ v \in Names(Topology) /\ v \in DOMAIN lab.vrfs[Topology] /\ One(o, v, Topology, v)
      BY <2>2, <2>4, <2>8 DEF Inherits, IsGlobal, Owners, Typed, WorkOK, One
    <3>2. vrf[o][v].id \in {0, vrf[Topology][v].id} /\ vrf[Topology][v].id # 0
      BY <2>2, <2>8, <3>1 DEF NumbersApart, GlobalIds, HasNumbers
    <3>3. vrf'[o][v].id = vrf[Topology][v].id
      BY <2>3, <2>8, <3>2
    <3>4. vrf[o][v].rd # NoRd /\ Usable(vrf[o][v].rd)
      BY <2>3, <2>8 DEF Usable
    <3>5. Numbers(o, v)' \subseteq Numbers(o, v) \cup Numbers(Topology, v) \cup {n}
      BY <2>4, <2>6, <3>3, <3>4 DEF Numbers
    <3>6. {n} \cap ids = {} /\ ids \cup {n} \subseteq ids' /\ rds \subseteq rds'
      BY <2>3
    <3>7. Registered' /\ Apart'
      BY <2>2, <2>4, <3>1, <3>5, <3>6, GainsApart
    <3>8. GlobalIds'
      BY <2>2, <3>1, <3>3, NodeChanges
    <3>. QED
      BY <2>7, <3>7, <3>8 DEF NumbersApart
  <2>9. CASE ~Inherits(o, v)
    <3>1. vrf'[o][v].id = (IF vrf[o][v].id # 0 THEN vrf[o][v].id ELSE n)
      BY <2>3, <2>9
    <3>2. Numbers(o, v)' \subseteq Numbers(o, v) \cup Numbers(o, v) \cup {n}
      <4>1. {vrf'[o][v].id} \ {0} \subseteq Numbers(o, v) \cup {n}
        BY <3>1 DEF Numbers
      <4>2. CASE vrf[o][v].rd = NoRd
        <5>1. vrf'[o][v].rd = <<lab.as[o], n>>
          BY <2>3, <4>2
        <5>. QED
          BY <2>4, <2>5, <4>1, <5>1 DEF Numbers
      <4>3. CASE vrf[o][v].rd # NoRd
        BY <2>4, <2>6, <4>1, <4>3 DEF Numbers
      <4>. QED
        BY <4>2, <4>3
    <3>3. {n} \cap ids = {} /\ ids \cup {n} \subseteq ids' /\ rds \subseteq rds'
      BY <2>3
    <3>4. Registered' /\ Apart'
      BY <2>2, <2>4, <3>2, <3>3, GainsApart
    <3>5. CASE o # Topology
      <4>1. v \notin Names(Topology)
        BY <2>9, <3>5 DEF Inherits, IsGlobal
      <4>2. GlobalIds'
        BY <2>2, <4>1, NodeChanges
      <4>. QED
        BY <2>7, <3>4, <4>2 DEF NumbersApart
    <3>6. CASE o = Topology
      <4>1. k = 0
        <5>1. k # 0 => Owner # Topology
          BY OwnerFact DEF Typed, ControlOK
        <5>. QED
          BY <2>1, <3>6, <5>1
      <4>2. v \in DOMAIN lab.vrfs[Topology] /\ Names(Topology) = DOMAIN lab.vrfs[Topology]
        BY <2>2, <2>4, <3>6 DEF Typed, WorkOK
      <4> DEFINE given == lab.vrfs[Topology][v].id
      <4>3. vrf[Topology][v].id = given
        BY <2>2, <3>6, <4>2 DEF AsSaid, Said
      <4>4. IF given # 0 THEN vrf'[Topology][v].id = given
            ELSE vrf'[Topology][v].id \in 1..MaxVrfId /\ <<lab.as[Topology], vrf'[Topology][v].id>> \notin GivenRds
        BY <2>5, <3>1, <3>6, <4>3
      <4>5. Topology \in Owners /\ Nodes \subseteq Owners /\ Nodes' = Nodes
        BY <2>4, LabKept DEF Owners
      <4>6. \A w \in Names(Topology) :
              IF lab.vrfs[Topology][w].id # 0 THEN vrf'[Topology][w].id = lab.vrfs[Topology][w].id
              ELSE vrf'[Topology][w].id # 0 => vrf'[Topology][w].id \in 1..MaxVrfId /\ <<lab.as[Topology], vrf'[Topology][w].id>> \notin GivenRds
        <5>1. SUFFICES ASSUME NEW w \in Names(Topology), w # v
                       PROVE  vrf'[Topology][w].id = vrf[Topology][w].id
          BY <4>4 DEF NumbersApart, GlobalIds
        <5>. QED
          BY <2>2, <3>6, <4>5, <5>1 DEF OthersKeep, SameCell
      <4>7. ASSUME NEW m \in Nodes, NEW w \in Names(m), w \in Names(Topology)
            PROVE  vrf'[m][w].id \in {0, vrf'[Topology][w].id}
        <5>1. m # Topology /\ m \in Owners
          BY <4>5 DEF Typed, LabOK
        <5>2. vrf'[m][w].id = vrf[m][w].id
          BY <2>2, <3>6, <4>7, <5>1 DEF OthersKeep, SameCell
        <5>3. w # v => vrf'[Topology][w].id = vrf[Topology][w].id
          BY <2>2, <3>6, <4>5, <4>7 DEF OthersKeep, SameCell
        <5>4. w # v => vrf[m][w].id \in {0, vrf[Topology][w].id}
          BY <4>7 DEF NumbersApart, GlobalIds
        <5>5. CASE w = v
          <6>1. PICK i \in 1..Len(lab.nodes) : m = lab.nodes[i]
            BY DEF Typed, LabOK
          <6>2. Names(m) = DOMAIN lab.vrfs[m] /\ \A x \in Names(m) : AsSaid(m, x)
            <7>1. i > k
              BY <4>1
            <7>. QED
              BY <2>4, <6>1, <7>1 DEF Progress, NodesWait, Late
          <6>3. vrf[m][w].id = lab.vrfs[m][w].id
            BY <4>7, <6>2 DEF AsSaid, Said
          <6>4. lab.vrfs[m][w].id \in {0, given}
            BY <4>2, <4>7, <5>5, <6>2 DEF NumbersClear, GivenOnce
          <6>. QED
            BY <4>4, <5>2, <5>5, <6>3, <6>4
        <5>. QED
          BY <5>2, <5>3, <5>4, <5>5
      <4>8. Names(Topology)' = Names(Topology) /\ \A m \in Nodes : Names(m)' = Names(m)
        BY <2>2, <4>5 DEF OthersKeep
      <4>9. GlobalIds'
        BY <2>4, <4>5, <4>6, <4>7, <4>8 DEF GlobalIds
      <4>. QED
        BY <2>7, <3>4, <4>9 DEF NumbersApart
    <3>. QED
      BY <3>5, <3>6
  <2>. QED
    BY <2>8, <2>9
<1>. QED
  BY <1>1, <1>2

\* Every step keeps the numbers of VRFs apart.
LEMMA IdsKeep ==
  ASSUME lab \in Labs, Typed, ControlOK', Progress, IdInv, Next \/ Quiet
  PROVE  IdInv'
<1>1. lab' = lab
  BY DEF Next, Quiet, NormalizeVrfIds, PopulateVrfStaticIds, KeepOrInheritId, GenerateId, SetImportExportRt, PullVrfs, EndOfNodes,
         RegisterStaticVnis, AssignVni, AssignVnisOfNode, EndOfVlans, SetTransitVni, EndOfTransit, ShareTransitVni, MergeGlobalVrfs, CheckVrfs
<1>2. SUFFICES ASSUME NumbersClear PROVE NumbersApart'
  BY <1>1, GivenKept DEF IdInv
<1>3. NumbersApart
  BY <1>2 DEF IdInv
<1>4. CASE Quiet
  <2>1. UNCHANGED <<lab, stage, vrf, ids, rds>>
    BY <1>4 DEF Quiet
  <2>. QED
    BY <1>3, <2>1, SameVrf, SameCopies, CopiesApart
<1>5. CASE Hooks
  <2>1. SameNumbers
    BY <1>5, HooksProgress
  <2>2. UNCHANGED <<ids, rds>> /\ stage \notin {"normalize", "register", "aborted"}
    BY <1>5 DEF Hooks, EndOfNodes, RegisterStaticVnis, AssignVni, AssignVnisOfNode, EndOfVlans, SetTransitVni, EndOfTransit, ShareTransitVni
  <2>. QED
    BY <1>3, <2>1, <2>2, SameCopies, CopiesApart
<1>6. CASE MergeGlobalVrfs \/ CheckVrfs
  <2>1. UNCHANGED <<ids, rds>> /\ stage \notin {"normalize", "register", "aborted"}
    BY <1>6 DEF MergeGlobalVrfs, CheckVrfs
  <2>. QED
    BY <1>3, <1>6, <2>1, UseCells, CopiesApart
<1>7. CASE SetImportExportRt
  <2>1. UNCHANGED <<ids, rds>> /\ stage \notin {"normalize", "register", "aborted"}
    BY <1>7 DEF SetImportExportRt
  <2>. QED
    BY <1>3, <1>7, <2>1, TargetsProgress, SameCopies, CopiesApart
<1>8. CASE PullVrfs
  <2>1. UNCHANGED <<ids, rds>> /\ stage \notin {"normalize", "register", "aborted"}
    BY <1>8 DEF PullVrfs
  <2>. QED
    BY <1>3, <1>8, <2>1, PullCopies, CopiesApart
<1>9. CASE NormalizeVrfIds
  BY <1>2, <1>9, NormalizeApart
<1>10. CASE PopulateVrfStaticIds
  BY <1>3, <1>10, PopulateApart
<1>11. CASE KeepOrInheritId
  BY <1>2, <1>3, <1>11, KeepApart
<1>12. CASE GenerateId
  BY <1>2, <1>3, <1>12, GenerateApart
<1>. QED
  BY <1>4, <1>5, <1>6, <1>7, <1>8, <1>9, <1>10, <1>11, <1>12 DEF Next, Hooks

\* There are no numbers at the start.
LEMMA IdsStart ==
  ASSUME LabOK, Init
  PROVE  IdInv
<1>1. stage = "normalize" /\ \A o \in Owners : Names(o) = {}
  BY DEF Init, Names, Empty
<1>2. Topology \in Owners /\ Nodes \subseteq Owners
  BY DEF Owners
<1>. QED
  BY <1>1, <1>2 DEF IdInv, NumbersApart, Registered, Apart, Origins, GlobalIds

\* What the numbers mean when all hooks have run.
LEMMA ApartDiffer ==
  ASSUME Typed, Progress, IdInv
  PROVE  VrfsDiffer
<1>1. SUFFICES ASSUME Finished, NumbersClear, NEW n \in Nodes, NEW m \in Nodes, NEW v \in lab.used[n], NEW w \in lab.used[m]
               PROVE  /\ ~One(n, v, m, w) => vrf[n][v].rd # vrf[m][w].rd
                      /\ One(n, v, m, w) = (vrf[n][v].id = vrf[m][w].id)
  BY DEF VrfsDiffer
<1>2. stage = "done" /\ NumbersApart
  BY <1>1 DEF Finished, IdInv
<1>3. ASSUME NEW p \in Nodes, NEW x \in lab.used[p]
      PROVE  x \in Names(p) /\ HasNumbers(p, x) /\ Usable(vrf[p][x].rd) /\ p \in Owners
  <2>1. PICK i \in 1..Len(lab.nodes) : p = lab.nodes[i]
    BY DEF Typed, LabOK
  <2>2. x \in Names(p) /\ Usable(vrf[p][x].rd)
    BY <1>2, <1>3 DEF Progress, UsedKnown
  <2>3. HasNumbers(p, x)
    BY <1>2, <2>1, <2>2 DEF Progress, NodesDone, Over, Late
  <2>. QED
    BY <2>2, <2>3 DEF Owners
<1>4. vrf[n][v].id \in Numbers(n, v) /\ vrf[m][w].id \in Numbers(m, w)
  BY <1>3 DEF HasNumbers, Numbers
<1>5. CASE ~One(n, v, m, w)
  <2>1. Numbers(n, v) \cap Numbers(m, w) = {}
    BY <1>2, <1>3, <1>5 DEF NumbersApart, Apart
  <2>2. vrf[n][v].rd # vrf[m][w].rd
    <3>1. SUFFICES ASSUME vrf[n][v].rd = vrf[m][w].rd PROVE FALSE
      OBVIOUS
    <3>2. CASE vrf[n][v].rd \in GivenRds
      <4>1. PICK p \in Owners : One(n, v, p, v) /\ v \in DOMAIN lab.vrfs[p] /\ vrf[n][v].rd = GivenRd(p, v)
        BY <1>2, <1>3, <3>2 DEF NumbersApart, Origins
      <4>2. PICK q \in Owners : One(m, w, q, w) /\ w \in DOMAIN lab.vrfs[q] /\ vrf[m][w].rd = GivenRd(q, w)
        BY <1>2, <1>3, <3>1, <3>2 DEF NumbersApart, Origins
      <4>3. ~One(p, v, q, w)
        BY <1>5, <4>1, <4>2, OneFact
      <4>4. Usable(GivenRd(p, v)) => GivenRd(p, v) # GivenRd(q, w)
        BY <1>1, <4>1, <4>2, <4>3 DEF NumbersClear, GivenApart
      <4>. QED
        BY <1>3, <3>1, <4>1, <4>2, <4>4
    <3>3. CASE vrf[n][v].rd \notin GivenRds
      BY <1>3, <2>1, <3>1, <3>3 DEF Numbers
    <3>. QED
      BY <3>2, <3>3
  <2>3. vrf[n][v].id # vrf[m][w].id
    BY <1>4, <2>1
  <2>. QED
    BY <1>5, <2>2, <2>3 DEF One
<1>6. CASE One(n, v, m, w)
  <2>1. v = w /\ (n = m \/ v \in DOMAIN lab.vrfs[Topology])
    BY <1>6 DEF One
  <2>2. CASE n # m
    <3>1. v \in Names(Topology)
      BY <1>2, <2>1, <2>2 DEF Typed, WorkOK
    <3>2. vrf[n][v].id \in {0, vrf[Topology][v].id} /\ vrf[m][v].id \in {0, vrf[Topology][v].id}
      BY <1>2, <1>3, <2>1, <3>1 DEF NumbersApart, GlobalIds
    <3>. QED
      BY <1>3, <1>6, <2>1, <3>2 DEF HasNumbers
  <2>3. CASE n = m
    BY <1>6, <2>1, <2>3
  <2>. QED
    BY <2>2, <2>3
<1>. QED
  BY <1>5, <1>6

-----------------------------------------------------------------------------
(* VNIs of VLANs and VRFs *)

\* What the lab says about VNIs stays.
LEMMA StatedKept ==
  ASSUME lab' = lab, DOMAIN transit' = DOMAIN transit
  PROVE  /\ AllVlans' = AllVlans /\ StaticVnis' = StaticVnis /\ StaticTransit' = StaticTransit
         /\ VnisClear' = VnisClear /\ NotMixed' = NotMixed /\ OwnVnis' = OwnVnis
         /\ \A s : StatedVni(s)' = StatedVni(s)
         /\ \A v : Stated(v)' = Stated(v) /\ Like(v)' = Like(v)
<1>1. AllVlans' = AllVlans /\ StaticVnis' = StaticVnis /\ StaticTransit' = StaticTransit
  BY LabKept
<1>2. \A s : StatedVni(s)' = StatedVni(s)
  BY DEF StatedVni
<1>3. \A v : Stated(v)' = Stated(v) /\ Like(v)' = Like(v)
  BY DEF Stated, Like
<1>4. VnisClear' = VnisClear
  BY <1>1, <1>2 DEF VnisClear
<1>5. NotMixed' = NotMixed /\ OwnVnis' = OwnVnis
  BY <1>1, <1>3 DEF NotMixed, OwnVnis
<1>. QED
  BY <1>1, <1>2, <1>3, <1>4, <1>5

\* A step that keeps the VNIs keeps the segments.
LEMMA SegmentsKept ==
  ASSUME UNCHANGED <<lab, vlanVni, transit>>
  PROVE  Segments' = Segments /\ \A s : Vni(s)' = Vni(s)
<1>1. \A s : Vni(s)' = Vni(s)
  BY DEF Vni
<1>. QED
  BY <1>1, StatedKept DEF Segments

\* Steps before any VNI is generated, and those that end the command.
LEMMA EarlyVnis ==
  ASSUME VniInv, UNCHANGED <<lab, vnis, nextVni, vlanVni, transit>>, failed => failed',
         stage \notin Late, stage' \notin Late, stage = "aborted" => stage' = "aborted", Numbered' => Numbered
  PROVE  VniInv'
<1>1. /\ AllVlans' = AllVlans /\ StaticVnis' = StaticVnis /\ StaticTransit' = StaticTransit /\ NotMixed' = NotMixed
      /\ \A s : StatedVni(s)' = StatedVni(s)
      /\ \A v : Stated(v)' = Stated(v)
      /\ Segments' = Segments /\ \A s : Vni(s)' = Vni(s)
  BY StatedKept, SegmentsKept
<1>2. VlansBefore' /\ TransitBefore'
  BY <1>1 DEF VniInv, VlansBefore, TransitBefore
<1>3. VnisHeld' /\ SegmentsDiffer'
  BY <1>1 DEF VniInv, VnisHeld, SegmentsDiffer
<1>4. Checked'
  BY <1>1 DEF VniInv, Checked
<1>5. VlansLow' /\ TransitDuring' /\ TransitAfter'
  BY DEF VlansLow, TransitDuring, TransitAfter, Late
<1>. QED
  BY <1>2, <1>3, <1>4, <1>5 DEF VniInv

\* Nothing is failed in the end that had failed before.
LEMMA EarlySteps ==
  ASSUME Typed, VniInv,
         NormalizeVrfIds \/ PopulateVrfStaticIds \/ KeepOrInheritId \/ GenerateId \/ SetImportExportRt \/ PullVrfs
           \/ (EndOfNodes /\ failed) \/ (Quiet /\ stage \notin Late)
  PROVE  VniInv'
<1>0. Len(lab.nodes) \in Nat /\ k \in 0..Len(lab.nodes)
  BY DEF Typed, LabOK, ControlOK
<1>1. CASE NormalizeVrfIds \/ PopulateVrfStaticIds
  <2>1. /\ UNCHANGED <<lab, vnis, nextVni, vlanVni, transit>>
        /\ stage \in {"normalize", "register"} /\ k = 0 /\ k' = 0
        /\ stage' \in {"register", "vnis", "ids", "aborted"}
    BY <1>1 DEF NormalizeVrfIds, PopulateVrfStaticIds, Typed, WorkOK
  <2>2. failed => failed'
    BY <1>1 DEF NormalizeVrfIds, PopulateVrfStaticIds
  <2>. QED
    BY <2>1, <2>2, EarlyVnis DEF Numbered, Late
<1>2. CASE KeepOrInheritId \/ GenerateId
  <2>1. /\ UNCHANGED <<lab, k, vnis, nextVni, vlanVni, transit>> /\ (failed => failed')
        /\ stage = "ids" /\ stage' \in {"ids", "targets", "aborted"}
    BY <1>2 DEF KeepOrInheritId, GenerateId, Following
  <2>. QED
    BY <2>1, EarlyVnis DEF Numbered, Late
<1>3. CASE SetImportExportRt
  <2>1. /\ UNCHANGED <<lab, k, vnis, nextVni, vlanVni, transit>> /\ (failed => failed')
        /\ stage = "targets" /\ stage' \in {"targets", IF k = 0 THEN "vnis" ELSE "node"}
    BY <1>3 DEF SetImportExportRt, Following
  <2>2. stage \notin Late /\ stage' \notin Late /\ stage # "aborted"
    BY <2>1 DEF Late
  <2>3. Numbered' => Numbered
    BY <1>0, <2>1, <2>2 DEF Numbered
  <2>. QED
    BY <2>1, <2>2, <2>3, EarlyVnis
<1>4. CASE PullVrfs \/ (EndOfNodes /\ failed)
  <2>1. /\ UNCHANGED <<lab, vnis, nextVni, vlanVni, transit, failed>>
        /\ stage = "node" /\ stage' \in {"node", "ids", "aborted"}
    BY <1>4 DEF PullVrfs, EndOfNodes
  <2>. QED
    BY <2>1, EarlyVnis DEF Numbered, Late
<1>5. CASE Quiet /\ stage \notin Late
  <2>1. UNCHANGED <<lab, stage, k, vnis, nextVni, vlanVni, transit>> /\ (failed => failed')
    BY <1>5 DEF Quiet
  <2>. QED
    BY <1>5, <2>1, EarlyVnis DEF Numbered
<1>. QED
  BY <1>1, <1>2, <1>3, <1>4, <1>5

\* register_static_vni: the given VNIs are the VNIs so far.
LEMMA RegisterVnis ==
  ASSUME Typed, VniInv, RegisterStaticVnis
  PROVE  VniInv'
<1>1. /\ UNCHANGED <<lab, nextVni, vlanVni, transit>> /\ stage = "vnis" /\ stage' = "node"
      /\ vnis' = StaticVnis \cup StaticTransit
      /\ failed' = (failed \/ SameTransit \/ StaticVnis \cap StaticTransit # {})
  BY DEF RegisterStaticVnis
<1>2. /\ AllVlans' = AllVlans /\ StaticTransit' = StaticTransit /\ NotMixed' = NotMixed
      /\ \A s : StatedVni(s)' = StatedVni(s)
      /\ \A v : Stated(v)' = Stated(v)
      /\ Segments' = Segments /\ \A s : Vni(s)' = Vni(s)
  BY <1>1, StatedKept, SegmentsKept
<1>3. VlansBefore' /\ TransitBefore'
  BY <1>1, <1>2 DEF VniInv, VlansBefore, TransitBefore, Late
<1>4. VnisHeld'
  <2>1. \A s \in AllVlans : Vni(s) = StatedVni(s)
    BY <1>1 DEF VniInv, VlansBefore, Late
  <2>2. StaticVnis = {Vni(s) : s \in Segments}
    BY <2>1 DEF StaticVnis, Segments
  <2>. QED
    BY <1>1, <1>2, <2>2 DEF VnisHeld
<1>5. SegmentsDiffer'
  BY <1>2 DEF VniInv, SegmentsDiffer
<1>6. Checked'
  <2>1. \A v \in DOMAIN transit : transit[v] = Stated(v)
    BY <1>1 DEF VniInv, TransitBefore, Late
  <2>2. ~SameTransit /\ StaticVnis \cap StaticTransit = {} => NotMixed
    BY <2>1 DEF SameTransit, NotMixed
  <2>. QED
    BY <1>1, <1>2, <2>2 DEF Checked, Late
<1>7. VlansLow' /\ TransitDuring' /\ TransitAfter'
  BY <1>1 DEF VlansLow, TransitDuring, TransitAfter, Late
<1>. QED
  BY <1>3, <1>4, <1>5, <1>6, <1>7 DEF VniInv

\* VLANs have no VNIs but the given ones when their turn comes.
LEMMA EndOfNodesVnis ==
  ASSUME Typed, VniInv, EndOfNodes, ~failed
  PROVE  VniInv'
<1>1. UNCHANGED <<lab, vnis, nextVni, vlanVni, transit, failed>> /\ stage = "node" /\ stage' = "vlans"
  BY DEF EndOfNodes
<1>2. /\ AllVlans' = AllVlans /\ StaticTransit' = StaticTransit /\ NotMixed' = NotMixed /\ VnisClear' = VnisClear
      /\ \A s : StatedVni(s)' = StatedVni(s)
      /\ \A v : Stated(v)' = Stated(v)
      /\ Segments' = Segments /\ \A s : Vni(s)' = Vni(s)
  BY <1>1, StatedKept, SegmentsKept
<1>3. NotMixed
  BY <1>1 DEF VniInv, Checked, Numbered
<1>4. VlansBefore' /\ TransitBefore'
  BY <1>1, <1>2 DEF VniInv, VlansBefore, TransitBefore, Late
<1>5. VnisHeld' /\ SegmentsDiffer' /\ Checked'
  BY <1>1, <1>2, <1>3 DEF VniInv, VnisHeld, SegmentsDiffer, Checked, Numbered
<1>6. VlansLow'
  <2>1. SUFFICES ASSUME VnisClear
                 PROVE  /\ \A s \in Segments : Vni(s) < StartTransit /\ Vni(s) \notin StaticTransit
                        /\ StartVni <= nextVni /\ StartVni..(nextVni - 1) \subseteq vnis
    BY <1>1, <1>2 DEF VlansLow
  <2>2. nextVni = StartVni /\ \A s \in AllVlans : Vni(s) = StatedVni(s)
    BY <1>1 DEF VniInv, VlansBefore, Late
  <2>3. ASSUME NEW s \in Segments
        PROVE  Vni(s) < StartTransit /\ Vni(s) \notin StaticTransit
    <3>1. s \in AllVlans /\ StatedVni(s) > 0 /\ Vni(s) = StatedVni(s)
      BY <2>2 DEF Segments
    <3>2. StatedVni(s) < StartTransit
      BY <2>1, <3>1 DEF VnisClear
    <3>3. StatedVni(s) \in StaticVnis
      BY <3>1 DEF StaticVnis
    <3>. QED
      BY <1>3, <3>1, <3>2, <3>3 DEF NotMixed
  <2>. QED
    BY <2>2, <2>3, BoundsAssumption
<1>7. TransitDuring' /\ TransitAfter'
  BY <1>1 DEF TransitDuring, TransitAfter
<1>. QED
  BY <1>4, <1>5, <1>6, <1>7 DEF VniInv

\* The set vni has no more than the numbers of VLANs and VRFs, so the search for
\* a free one ends below the VNIs of VRFs.
LEMMA FewVnis ==
  ASSUME Typed, VniInv, VnisClear, stage = "vlans"
  PROVE  NextVni < StartTransit
<1> DEFINE D == DOMAIN lab.vrfs[Topology]
           V == {Vni(s) : s \in Segments}
<1>1. IsFiniteSet(AllVlans) /\ IsFiniteSet(StaticTransit) /\ Topology \in Owners
  BY OwnersFinite, StaticsFinite DEF Typed, Owners
<1>2. IsFiniteSet(D)
  BY <1>1, FS_Subset DEF Typed, LabOK
<1>3. IsFiniteSet(V) /\ Cardinality(V) <= Cardinality(AllVlans)
  <2>1. IsFiniteSet(Segments) /\ Cardinality(Segments) <= Cardinality(AllVlans)
    BY <1>1, FS_Subset DEF Segments
  <2> DEFINE f == [s \in Segments |-> Vni(s)]
  <2>2. f \in Surjection(Segments, V)
    BY DEF Surjection
  <2>3. IsFiniteSet(V) /\ Cardinality(V) <= Cardinality(Segments)
    BY <2>1, <2>2, FS_Surjection
  <2>4. Cardinality(V) \in Nat /\ Cardinality(Segments) \in Nat /\ Cardinality(AllVlans) \in Nat
    BY <1>1, <2>1, <2>3, FS_CardinalityType
  <2>. QED
    BY <2>1, <2>3, <2>4
<1>4. Cardinality(StaticTransit) <= Cardinality(D)
  <2> DEFINE T == {lab.vrfs[Topology][v].vni : v \in D}
             f == [v \in D |-> lab.vrfs[Topology][v].vni]
  <2>1. f \in Surjection(D, T)
    BY DEF Surjection
  <2>2. IsFiniteSet(T) /\ Cardinality(T) <= Cardinality(D)
    BY <1>2, <2>1, FS_Surjection
  <2>3. StaticTransit \subseteq T
    BY DEF StaticTransit
  <2>4. Cardinality(StaticTransit) <= Cardinality(T)
    BY <2>2, <2>3, FS_Subset
  <2>5. Cardinality(StaticTransit) \in Nat /\ Cardinality(T) \in Nat /\ Cardinality(D) \in Nat
    BY <1>1, <1>2, <2>2, FS_CardinalityType
  <2>. QED
    BY <2>2, <2>4, <2>5
<1>5. vnis = StaticTransit \cup V
  BY DEF VniInv, VnisHeld, Numbered, Late
<1>6. Cardinality(vnis) <= Cardinality(AllVlans) + Cardinality(D)
  <2>1. Cardinality(vnis) = Cardinality(StaticTransit) + Cardinality(V) - Cardinality(StaticTransit \cap V)
    BY <1>1, <1>3, <1>5, FS_Union
  <2>2. IsFiniteSet(StaticTransit \cap V) /\ IsFiniteSet(vnis)
    BY <1>1, <1>3, <1>5, FS_Intersection DEF Typed, VnisOK
  <2>3. /\ Cardinality(StaticTransit) \in Nat /\ Cardinality(V) \in Nat /\ Cardinality(StaticTransit \cap V) \in Nat
        /\ Cardinality(AllVlans) \in Nat /\ Cardinality(D) \in Nat
    BY <1>1, <1>2, <1>3, <2>2, FS_CardinalityType
  <2>. QED
    BY <1>3, <1>4, <2>1, <2>3
<1>7. StartVni..(nextVni - 1) \subseteq vnis /\ StartVni <= nextVni /\ StartVni \in Nat /\ StartTransit \in Nat /\ nextVni \in Nat
  BY BoundsAssumption DEF VniInv, VlansLow, Late, Typed, VnisOK
<1>8. NextVni \in Nat /\ nextVni..(NextVni - 1) \subseteq vnis
  BY NextVniFact
<1>9. SUFFICES ASSUME NextVni >= StartTransit PROVE FALSE
  BY <1>7, <1>8
<1>10. StartVni..(StartTransit - 1) \subseteq vnis
  BY <1>7, <1>8, <1>9
<1>11. StartVni + Cardinality(AllVlans) + Cardinality(D) < StartTransit
  BY DEF VnisClear
<1>12. Cardinality(AllVlans) \in Nat /\ Cardinality(D) \in Nat /\ Cardinality(vnis) \in Nat /\ IsFiniteSet(vnis)
  BY <1>1, <1>2, FS_CardinalityType DEF Typed, VnisOK
<1>13. Cardinality(StartVni..(StartTransit - 1)) = StartTransit - StartVni
  <2>1. StartVni \in Int /\ StartTransit - 1 \in Int /\ StartVni <= StartTransit - 1
    BY <1>7, <1>11, <1>12
  <2>2. Cardinality(StartVni..(StartTransit - 1)) = (StartTransit - 1) - StartVni + 1
    BY <2>1, FS_Interval
  <2>. QED
    BY <1>7, <2>2
<1>14. Cardinality(StartVni..(StartTransit - 1)) <= Cardinality(vnis)
  BY <1>10, <1>12, FS_Subset
<1>. QED
  BY <1>6, <1>7, <1>11, <1>12, <1>13, <1>14

\* assign_vni: the VNI of a VLAN is the only new one, and it was free.
LEMMA AssignedVlan ==
  ASSUME lab \in Labs, Typed, VniInv, AssignVni, NEW o, o = Owner, NEW v, v = Current
  PROVE  /\ <<o, v>> \in AllVlans
         /\ \/ UNCHANGED <<vlanVni, vnis, nextVni>>
            \/ \E vni \in Nat \ {0} :
                 /\ vni \notin vnis /\ vnis' = vnis \cup {vni}
                 /\ Vni(<<o, v>>)' = vni
                 /\ \A s \in AllVlans : s # <<o, v>> => Vni(s)' = Vni(s)
                 /\ Vni(<<o, v>>) <= 0
                 /\ VnisClear => vni < StartTransit
                 /\ nextVni' >= nextVni /\ nextVni..(nextVni' - 1) \subseteq vnis'
<1> DEFINE taken == DefaultVni(v) \in vnis
           vni == IF taken THEN NextVni ELSE DefaultVni(v)
<1>1. o \in Owners /\ v \in todo /\ v \in DOMAIN lab.vlans[o] /\ v \in ToSet(lab.order) /\ stage = "vlans"
  BY CurrentVlan DEF AssignVni
<1>2. <<o, v>> \in AllVlans
  BY <1>1 DEF AllVlans
<1>3. CASE vlanVni[o][v] \notin {NoVni, AutoVni}
  BY <1>2, <1>3 DEF AssignVni
<1>4. CASE vlanVni[o][v] \in {NoVni, AutoVni}
  <2>1. /\ vlanVni' = [vlanVni EXCEPT ![o][v] = vni]
        /\ vnis' = vnis \cup {vni}
        /\ nextVni' = IF taken THEN vni ELSE nextVni
    BY <1>4 DEF AssignVni
  <2>2. DefaultVni(v) \in Nat \ {0} /\ DefaultVni(v) = StartVni + lab.vlans[o][v].id
    <3>1. lab.vlans[o][v].id \in Nat
      BY <1>1 DEF Typed, LabOK
    <3>. QED
      BY <3>1, BoundsAssumption DEF DefaultVni
  <2>3. vni \in Nat \ {0} /\ vni \notin vnis
    BY <2>2, NextVniFact
  <2>4. Vni(<<o, v>>) <= 0
    BY <1>4 DEF Vni, NoVni, AutoVni
  <2>5. VnisClear => vni < StartTransit
    <3>1. VnisClear => DefaultVni(v) < StartTransit
      BY <1>2, <2>2 DEF VnisClear
    <3>. QED
      BY <1>1, <3>1, FewVnis
  <2>6. nextVni' >= nextVni /\ nextVni..(nextVni' - 1) \subseteq vnis'
    <3>1. nextVni \in Nat
      BY DEF Typed, VnisOK
    <3>. QED
      BY <2>1, <3>1, NextVniFact
  <2> HIDE DEF vni, taken
  <2>7. Vni(<<o, v>>)' = vni /\ \A s \in AllVlans : s # <<o, v>> => Vni(s)' = Vni(s)
    <3>1. /\ vlanVni'[o] = [vlanVni[o] EXCEPT ![v] = vni]
          /\ \A p \in Owners : p # o => vlanVni'[p] = vlanVni[p]
          /\ v \in DOMAIN vlanVni[o]
      BY <1>1, <2>1 DEF Typed, VnisOK
    <3>2. ASSUME NEW s \in AllVlans, s # <<o, v>>
          PROVE  vlanVni'[s[1]][s[2]] = vlanVni[s[1]][s[2]]
      <4>1. s = <<s[1], s[2]>> /\ s[1] \in Owners
        BY DEF AllVlans
      <4>2. CASE s[1] = o
        <5>1. s[2] # v /\ s[2] \in DOMAIN vlanVni[o]
          BY <1>1, <3>2, <4>1, <4>2 DEF AllVlans, Typed, VnisOK
        <5>. QED
          BY <3>1, <4>2, <5>1
      <4>3. CASE s[1] # o
        BY <3>1, <4>1, <4>3
      <4>. QED
        BY <4>2, <4>3
    <3>3. vlanVni'[o][v] = vni
      BY <3>1
    <3>. QED
      BY <3>2, <3>3 DEF Vni
  <2>. QED
    BY <1>2, <2>1, <2>3, <2>4, <2>5, <2>6, <2>7
<1>. QED
  BY <1>3, <1>4

\* Two intervals in a row make one.
LEMMA Joined ==
  ASSUME NEW a \in Nat, NEW b \in Nat, NEW c \in Nat, NEW S, a..(b - 1) \subseteq S, b..(c - 1) \subseteq S
  PROVE  a..(c - 1) \subseteq S
<1>1. \A x \in a..(c - 1) : x \in a..(b - 1) \/ x \in b..(c - 1)
  OBVIOUS
<1>. QED
  BY <1>1

\* The segments of a step in which VLANs keep their VNIs, apart from one.
LEMMA AssignVnis ==
  ASSUME lab \in Labs, Typed, VniInv, AssignVni
  PROVE  VniInv'
<1>1. PICK o, v : o = Owner /\ v = Current
  OBVIOUS
<1>2. UNCHANGED <<lab, transit, failed>> /\ stage = "vlans" /\ stage' = "vlans"
  BY DEF AssignVni
<1>3. /\ AllVlans' = AllVlans /\ StaticTransit' = StaticTransit /\ NotMixed' = NotMixed /\ VnisClear' = VnisClear
      /\ \A s : StatedVni(s)' = StatedVni(s)
      /\ \A w : Stated(w)' = Stated(w)
  BY <1>2, StatedKept
<1>4. VlansBefore' /\ TransitBefore' /\ Checked'
  BY <1>2, <1>3 DEF VniInv, VlansBefore, TransitBefore, Checked, Numbered, Late
<1>5. TransitDuring' /\ TransitAfter'
  BY <1>2 DEF TransitDuring, TransitAfter
<1> DEFINE t == <<o, v>>
<1>6. t \in AllVlans
  BY <1>1, AssignedVlan
<1>7. CASE UNCHANGED <<vlanVni, vnis, nextVni>>
  <2>1. Segments' = Segments /\ \A s : Vni(s)' = Vni(s)
    BY <1>2, <1>7, SegmentsKept
  <2>2. VnisHeld' /\ SegmentsDiffer' /\ VlansLow'
    BY <1>2, <1>3, <1>7, <2>1 DEF VniInv, VnisHeld, SegmentsDiffer, VlansLow, Numbered
  <2>. QED
    BY <1>4, <1>5, <2>2 DEF VniInv
<1>8. ASSUME NEW vni \in Nat \ {0}, vni \notin vnis, vnis' = vnis \cup {vni}, Vni(<<o, v>>)' = vni,
             \A s \in AllVlans : s # <<o, v>> => Vni(s)' = Vni(s), Vni(<<o, v>>) <= 0,
             VnisClear => vni < StartTransit, nextVni' >= nextVni, nextVni..(nextVni' - 1) \subseteq vnis'
      PROVE  VniInv'
  <2> HIDE DEF t
  <2>0. /\ Vni(t)' = vni /\ \A s \in AllVlans : s # t => Vni(s)' = Vni(s)
        /\ ~(Vni(t) > 0)
    <3>1. Vni(t) \in Int
      BY <1>6 DEF AllVlans, Vni, Typed, VnisOK
    <3>. QED
      BY <1>8, <3>1 DEF t
  <2>1. Segments' = Segments \cup {t} /\ t \notin Segments
    BY <1>3, <1>6, <2>0 DEF Segments
  <2>2. \A s \in Segments : Vni(s)' = Vni(s) /\ s \in AllVlans
    BY <2>0, <2>1 DEF Segments
  <2>3. vnis = StaticTransit \cup {Vni(s) : s \in Segments}
    BY <1>2 DEF VniInv, VnisHeld, Numbered, Late
  <2>4. VnisHeld'
    <3>1. vnis' = StaticTransit \cup {Vni(s)' : s \in Segments'}
      BY <1>8, <2>0, <2>1, <2>2, <2>3
    <3>. QED
      BY <1>3, <3>1 DEF VnisHeld
  <2>5. SegmentsDiffer'
    <3>1. SUFFICES ASSUME NEW x \in Segments', NEW y \in Segments', Vni(x)' = Vni(y)'
                   PROVE  x = y \/ (StatedVni(x) > 0 /\ StatedVni(x) = StatedVni(y))
      BY <1>3 DEF SegmentsDiffer
    <3>2. \A s \in Segments : Vni(s)' # Vni(t)'
      BY <1>8, <2>0, <2>2, <2>3
    <3>3. CASE x = t \/ y = t
      BY <2>1, <3>1, <3>2, <3>3
    <3>4. CASE x # t /\ y # t
      BY <2>1, <2>2, <3>1, <3>4 DEF VniInv, SegmentsDiffer
    <3>. QED
      BY <3>3, <3>4
  <2>6. VlansLow'
    <3>1. SUFFICES ASSUME VnisClear
                   PROVE  /\ \A s \in Segments' : Vni(s)' < StartTransit /\ Vni(s)' \notin StaticTransit
                          /\ StartVni <= nextVni' /\ StartVni..(nextVni' - 1) \subseteq vnis'
      BY <1>2, <1>3 DEF VlansLow
    <3>2. /\ \A s \in Segments : Vni(s) < StartTransit /\ Vni(s) \notin StaticTransit
          /\ StartVni <= nextVni /\ StartVni..(nextVni - 1) \subseteq vnis
      BY <1>2, <3>1 DEF VniInv, VlansLow, Late
    <3>3. \A s \in Segments' : Vni(s)' < StartTransit /\ Vni(s)' \notin StaticTransit
      BY <1>8, <2>0, <2>1, <2>2, <2>3, <3>1, <3>2
    <3>4. nextVni' \in Nat /\ nextVni \in Nat /\ StartVni \in Nat
      <4>1. nextVni' \in Nat
        BY <1>1, AssignTypes DEF VnisOK
      <4>. QED
        BY <4>1, BoundsAssumption DEF Typed, VnisOK
    <3>5. StartVni <= nextVni' /\ nextVni - 1 < nextVni
      BY <1>8, <3>2, <3>4
    <3>6. StartVni..(nextVni - 1) \subseteq vnis' /\ nextVni..(nextVni' - 1) \subseteq vnis'
      BY <1>8, <3>2
    <3>7. StartVni..(nextVni' - 1) \subseteq vnis'
      BY <3>4, <3>6, Joined
    <3>. QED
      BY <3>3, <3>5, <3>7
  <2>. QED
    BY <1>4, <1>5, <2>4, <2>5, <2>6 DEF VniInv
<1>. QED
  BY <1>1, <1>7, <1>8, AssignedVlan

\* Steps that leave VLANs and their VNIs alone while VRFs get theirs.
LEMMA LateVnis ==
  ASSUME VniInv, UNCHANGED <<lab, vnis, vlanVni>>, DOMAIN transit' = DOMAIN transit,
         stage \in Late, stage' \in Late \cup {"aborted"}, stage' = "vlans" => nextVni' = nextVni /\ stage = "vlans",
         stage' = "vlans" => transit' = transit
  PROVE  VlansBefore' /\ TransitBefore' /\ VnisHeld' /\ SegmentsDiffer' /\ Checked' /\ VlansLow'
<1>1. /\ AllVlans' = AllVlans /\ StaticTransit' = StaticTransit /\ NotMixed' = NotMixed /\ VnisClear' = VnisClear
      /\ \A s : StatedVni(s)' = StatedVni(s)
      /\ \A v : Stated(v)' = Stated(v)
  BY StatedKept
<1>2. \A s : Vni(s)' = Vni(s)
  BY DEF Vni
<1>3. Segments' = Segments
  BY <1>1, <1>2 DEF Segments
<1>4. VlansBefore' /\ TransitBefore'
  BY <1>1 DEF VniInv, VlansBefore, TransitBefore, Late
<1>5. VnisHeld'
  BY <1>1, <1>2, <1>3 DEF VniInv, VnisHeld, Numbered, Late
<1>6. SegmentsDiffer'
  BY <1>1, <1>2, <1>3 DEF VniInv, SegmentsDiffer
<1>7. Checked'
  BY <1>1 DEF VniInv, Checked, Numbered, Late
<1>8. VlansLow'
  BY <1>1, <1>2, <1>3 DEF VniInv, VlansLow, Late
<1>. QED
  BY <1>4, <1>5, <1>6, <1>7, <1>8

\* The ends of the hooks about VLANs keep the VNIs apart.
LEMMA VlanHookVnis ==
  ASSUME Typed, VniInv, AssignVnisOfNode \/ EndOfVlans
  PROVE  VniInv'
<1>1. /\ UNCHANGED <<lab, vnis, vlanVni, transit>> /\ stage = "vlans" /\ stage' \in {"vlans", "transit"}
      /\ stage' = "vlans" => nextVni' = nextVni
      /\ stage' = "transit" => nextVni' = StartTransit /\ todo' = Names(Topology)
  BY DEF AssignVnisOfNode, EndOfVlans
<1>2. /\ VlansBefore' /\ TransitBefore' /\ VnisHeld' /\ SegmentsDiffer' /\ Checked' /\ VlansLow'
      /\ StaticTransit' = StaticTransit /\ VnisClear' = VnisClear
      /\ \A v : Stated(v)' = Stated(v)
  BY <1>1, LateVnis, StatedKept DEF Late
<1>3. TransitDuring'
  <2>1. SUFFICES ASSUME VnisClear, stage' = "transit"
                 PROVE  /\ todo' \subseteq DOMAIN transit
                        /\ nextVni' >= StartTransit /\ nextVni' \notin StaticTransit
                        /\ \A v \in todo' : transit[v] = Stated(v)
                        /\ DOMAIN transit \ todo' = {}
    BY <1>1, <1>2 DEF TransitDuring, TransitApart
  <2>2. DOMAIN transit = Names(Topology)
    BY <1>1 DEF Typed, VnisOK, WorkOK
  <2>3. \A v \in DOMAIN transit : transit[v] = Stated(v)
    BY <1>1 DEF VniInv, TransitBefore, Late
  <2>4. nextVni' >= StartTransit /\ nextVni' \notin StaticTransit
    BY <1>1, <2>1, BoundsAssumption DEF VnisClear
  <2>. QED
    BY <1>1, <2>1, <2>2, <2>3, <2>4
<1>4. TransitAfter'
  BY <1>1 DEF TransitAfter
<1>. QED
  BY <1>2, <1>3, <1>4 DEF VniInv

\* vrf_transit_vni, second pass: the VNI of a VRF is given to no other one.
LEMMA SetVnis ==
  ASSUME lab \in Labs, Typed, VniInv, SetTransitVni
  PROVE  VniInv'
<1> DEFINE D == DOMAIN transit
<1>1. PICK v : v = Current
  OBVIOUS
<1> DEFINE vni == IF transit[v] = AutoVni THEN nextVni ELSE transit[v]
<1>2. /\ UNCHANGED <<lab, stage, vnis, vlanVni>> /\ stage = "transit"
      /\ todo' = todo \ {v}
      /\ transit' = [transit EXCEPT ![v] = vni]
      /\ nextVni' = IF vni = nextVni THEN NextTransit ELSE nextVni
  BY <1>1 DEF SetTransitVni
<1>3. v \in todo /\ v \in D
  BY <1>1, CurrentVlan DEF SetTransitVni
<1>4. transit \in [DOMAIN lab.vrfs[Topology] -> Int] /\ nextVni \in Nat \ {0} /\ D = DOMAIN lab.vrfs[Topology]
  BY DEF Typed, VnisOK
<1>5. DOMAIN transit' = D /\ transit'[v] = vni /\ \A w \in D : w # v => transit'[w] = transit[w]
  <2> HIDE DEF vni
  <2>. QED
    BY <1>2, <1>3
<1>6. /\ VlansBefore' /\ TransitBefore' /\ VnisHeld' /\ SegmentsDiffer' /\ Checked' /\ VlansLow'
      /\ StaticTransit' = StaticTransit /\ VnisClear' = VnisClear
      /\ \A w : Stated(w)' = Stated(w)
  <2>1. stage \in Late /\ stage' \in Late \cup {"aborted"} /\ stage' # "vlans"
    BY <1>2 DEF Late
  <2> HIDE DEF vni
  <2>. QED
    BY <1>2, <1>5, <2>1, LateVnis, StatedKept
<1>7. TransitAfter'
  BY <1>2 DEF TransitAfter
<1>8. TransitDuring'
  <2>1. SUFFICES ASSUME VnisClear PROVE TransitDuring'
    BY <1>6 DEF TransitDuring
  <2>2. /\ todo \subseteq D
        /\ nextVni >= StartTransit /\ nextVni \notin StaticTransit
        /\ \A w \in todo : transit[w] = Stated(w)
        /\ \A w \in D \ todo : Assigned(w) /\ (Stated(w) = AutoVni => transit[w] < nextVni)
        /\ TransitApart(D \ todo)
    BY <1>2, <2>1 DEF VniInv, TransitDuring
  <2>3. ASSUME NEW w \in D, Stated(w) > 0
        PROVE  Stated(w) \in StaticTransit
    BY <1>4, <2>3 DEF Stated, StaticTransit
  <2>4. transit[v] = Stated(v) /\ Stated(v) \in Int
    BY <1>3, <1>4, <2>2
  <2>5. /\ nextVni' \in Nat /\ nextVni' >= nextVni /\ nextVni' \notin StaticTransit
        /\ Stated(v) = AutoVni => vni = nextVni /\ nextVni' > nextVni
        /\ Stated(v) # AutoVni => vni = Stated(v)
    BY <1>2, <1>4, <2>2, <2>4, NextTransitFact
  <2>6. StartTransit \in Nat /\ AutoVni \notin Nat
    BY BoundsAssumption DEF AutoVni
  <2>7. \A w \in D : Assigned(w)' = IF Stated(w) = AutoVni THEN transit'[w] >= StartTransit /\ transit'[w] \notin StaticTransit ELSE transit'[w] = Stated(w)
    BY <1>6 DEF Assigned
  <2>8. ASSUME NEW w \in D \ todo'
        PROVE  Assigned(w)' /\ (Stated(w) = AutoVni => transit'[w] < nextVni')
    <3>1. CASE w = v
      <4>1. transit'[w] = vni /\ w \in D
        BY <1>5, <2>8, <3>1
      <4>2. Assigned(w)' = IF Stated(w) = AutoVni THEN vni >= StartTransit /\ vni \notin StaticTransit ELSE vni = Stated(w)
        BY <2>7, <4>1
      <4>. HIDE DEF vni
      <4>3. CASE Stated(w) = AutoVni
        BY <1>4, <2>2, <2>5, <3>1, <4>1, <4>2, <4>3
      <4>4. CASE Stated(w) # AutoVni
        BY <2>5, <3>1, <4>2, <4>4
      <4>. QED
        BY <4>3, <4>4
    <3>2. CASE w # v
      <4>1. w \in D \ todo /\ transit'[w] = transit[w]
        BY <1>2, <1>5, <3>2
      <4>2. Assigned(w) /\ (Stated(w) = AutoVni => transit[w] < nextVni) /\ transit[w] \in Int
        BY <1>4, <2>2, <4>1
      <4>. QED
        BY <1>4, <2>5, <2>7, <4>1, <4>2 DEF Assigned
    <3>. QED
      BY <3>1, <3>2
  <2>9. ASSUME NEW w \in D \ todo, w # v
        PROVE  transit[w] > 0 \/ vni > 0 => transit[w] # vni
    <3>1. Assigned(w) /\ (Stated(w) = AutoVni => transit[w] < nextVni) /\ transit[w] \in Int /\ Stated(w) \in Int
      BY <1>4, <2>2 DEF Stated, Typed, LabOK, Owners
    <3>2. CASE Stated(v) = AutoVni /\ Stated(w) = AutoVni
      BY <1>4, <2>5, <3>1, <3>2
    <3>3. CASE Stated(v) = AutoVni /\ Stated(w) # AutoVni
      BY <1>4, <2>2, <2>3, <2>5, <3>1, <3>3 DEF Assigned
    <3>4. CASE Stated(v) # AutoVni /\ Stated(w) = AutoVni
      BY <1>3, <2>3, <2>4, <2>5, <2>6, <3>1, <3>4 DEF Assigned
    <3>5. CASE Stated(v) # AutoVni /\ Stated(w) # AutoVni
      <4>1. NotMixed
        BY <1>2 DEF VniInv, Checked, Late
      <4>. QED
        BY <1>3, <2>5, <2>9, <3>1, <3>5, <4>1 DEF Assigned, NotMixed
    <3>. QED
      BY <3>2, <3>3, <3>4, <3>5
  <2> HIDE DEF vni
  <2>10. \A x, y \in D \ todo' : x # y /\ transit'[x] > 0 => transit'[x] # transit'[y]
    <3>1. SUFFICES ASSUME NEW x \in D \ todo', NEW y \in D \ todo', x # y, transit'[x] > 0
                   PROVE  transit'[x] # transit'[y]
      OBVIOUS
    <3>2. CASE x = v
      <4>1. y \in D \ todo /\ y # v /\ transit'[y] = transit[y] /\ transit'[x] = vni
        BY <1>2, <1>5, <3>1, <3>2
      <4>. QED
        BY <2>9, <3>1, <4>1
    <3>3. CASE y = v
      <4>1. x \in D \ todo /\ x # v /\ transit'[x] = transit[x] /\ transit'[y] = vni
        BY <1>2, <1>5, <3>1, <3>3
      <4>. QED
        BY <2>9, <3>1, <4>1
    <3>4. CASE x # v /\ y # v
      <4>1. x \in D \ todo /\ y \in D \ todo /\ transit'[x] = transit[x] /\ transit'[y] = transit[y]
        BY <1>2, <1>5, <3>4
      <4>. QED
        BY <2>2, <3>1, <4>1 DEF TransitApart
    <3>. QED
      BY <3>2, <3>3, <3>4
  <2>11. /\ todo' \subseteq DOMAIN transit'
         /\ nextVni' >= StartTransit /\ nextVni' \notin StaticTransit'
         /\ \A w \in todo' : transit'[w] = Stated(w)'
    BY <1>2, <1>4, <1>5, <1>6, <2>2, <2>5, <2>6
  <2>12. \A w \in DOMAIN transit' \ todo' : Assigned(w)' /\ (Stated(w)' = AutoVni => transit'[w] < nextVni')
    BY <1>5, <1>6, <2>8
  <2>13. TransitApart(DOMAIN transit \ todo)'
    BY <1>5, <2>10 DEF TransitApart
  <2>. QED
    BY <2>11, <2>12, <2>13 DEF TransitDuring
<1>. QED
  BY <1>6, <1>7, <1>8 DEF VniInv

\* The third pass begins: VRFs that take a VNI have none.
LEMMA EndOfTransitVnis ==
  ASSUME Typed, VniInv, EndOfTransit
  PROVE  VniInv'
<1> DEFINE D == DOMAIN transit
<1>1. /\ UNCHANGED <<lab, vnis, vlanVni, transit, failed>> /\ stage = "transit" /\ stage' = "shared" /\ todo = {}
      /\ todo' = {v \in Names(Topology) : Like(v) # ""}
  BY DEF EndOfTransit, Like
<1>2. /\ VlansBefore' /\ TransitBefore' /\ VnisHeld' /\ SegmentsDiffer' /\ Checked' /\ VlansLow'
      /\ StaticTransit' = StaticTransit /\ VnisClear' = VnisClear /\ OwnVnis' = OwnVnis
      /\ \A v : Stated(v)' = Stated(v) /\ Like(v)' = Like(v)
  BY <1>1, LateVnis, StatedKept DEF Late
<1>3. TransitDuring'
  BY <1>1 DEF TransitDuring
<1>4. TransitAfter'
  <2>1. SUFFICES ASSUME VnisClear PROVE TransitAfter'
    BY <1>2 DEF TransitAfter
  <2>2. (\A v \in D : Assigned(v)) /\ TransitApart(D)
    <3>1. D \ todo = D
      BY <1>1
    <3>. QED
      BY <1>1, <2>1, <3>1 DEF VniInv, TransitDuring
  <2>3. D = DOMAIN lab.vrfs[Topology] /\ Names(Topology) = D /\ OwnVnis \subseteq D /\ todo' = D \ OwnVnis /\ transit \in [D -> Int]
    BY <1>1 DEF Typed, VnisOK, WorkOK, OwnVnis
  <2>4. ASSUME NEW v \in D, Like(v) # ""
        PROVE  transit[v] = NoVni
    <3>1. Topology \in Owners
      BY DEF Owners
    <3>2. Stated(v) = NoVni
      BY <2>3, <2>4, <3>1 DEF Stated, Like, Typed, LabOK
    <3>3. Assigned(v) /\ NoVni # AutoVni
      BY <2>2 DEF NoVni, AutoVni
    <3>. QED
      BY <3>2, <3>3 DEF Assigned
  <2>5. ASSUME NEW v \in D
        PROVE  transit[v] <= 0 \/ transit[v] >= StartTransit \/ transit[v] \in StaticTransit
    <3>1. Assigned(v) /\ transit[v] \in Int
      BY <2>2, <2>3
    <3>2. CASE Stated(v) = AutoVni
      BY <3>1, <3>2 DEF Assigned
    <3>3. CASE Stated(v) # AutoVni
      <4>1. transit[v] > 0 => transit[v] \in StaticTransit
        BY <2>3, <3>1, <3>3 DEF Assigned, Stated, StaticTransit
      <4>. QED
        BY <3>1, <4>1
    <3>. QED
      BY <3>2, <3>3
  <2>6. \A v \in D : Assigned(v)' = Assigned(v)
    BY <1>1, <1>2 DEF Assigned
  <2>7. TransitApart(OwnVnis)'
    BY <1>1, <1>2, <2>2, <2>3 DEF TransitApart
  <2>8. \A v \in OwnVnis' : Assigned(v)'
    BY <1>2, <2>2, <2>3, <2>6
  <2>9. /\ \A v \in DOMAIN transit' : transit'[v] <= 0 \/ transit'[v] >= StartTransit \/ transit'[v] \in StaticTransit'
        /\ todo' \subseteq DOMAIN transit' \ OwnVnis'
        /\ \A v \in todo' : transit'[v] = NoVni
        /\ \A v \in DOMAIN transit' \ OwnVnis' : v \in todo'
    BY <1>1, <1>2, <2>3, <2>4, <2>5
  <2>. QED
    BY <1>1, <2>7, <2>8, <2>9 DEF TransitAfter
<1>. QED
  BY <1>2, <1>3, <1>4 DEF VniInv

\* A VRF takes the VNI of another one, that has one.
LEMMA ShareVnis ==
  ASSUME lab \in Labs, Typed, VniInv, ShareTransitVni
  PROVE  VniInv'
<1> DEFINE D == DOMAIN transit
<1>1. PICK v : v = Current
  OBVIOUS
<1> DEFINE w == Like(v)
<1>2. /\ UNCHANGED <<lab, stage, vnis, vlanVni>> /\ stage = "shared"
      /\ todo' = todo \ {v}
      /\ \/ IsGlobal(w) /\ transit[w] > 0 /\ transit' = [transit EXCEPT ![v] = transit[w]] /\ failed' = failed
         \/ failed' /\ transit' = transit
  BY <1>1 DEF ShareTransitVni, Like
<1>3. v \in todo /\ v \in D
  BY <1>1, CurrentVlan DEF ShareTransitVni
<1>4. transit \in [D -> Int] /\ Names(Topology) = D /\ D = DOMAIN lab.vrfs[Topology]
  BY <1>2 DEF Typed, VnisOK, WorkOK
<1>5. DOMAIN transit' = D /\ \A x \in D : x # v => transit'[x] = transit[x]
  <2> HIDE DEF w
  <2>. QED
    BY <1>2, <1>3
<1>6. /\ VlansBefore' /\ TransitBefore' /\ VnisHeld' /\ SegmentsDiffer' /\ Checked' /\ VlansLow'
      /\ StaticTransit' = StaticTransit /\ VnisClear' = VnisClear /\ OwnVnis' = OwnVnis
      /\ \A x : Stated(x)' = Stated(x) /\ Like(x)' = Like(x)
  <2>1. stage \in Late /\ stage' \in Late \cup {"aborted"} /\ stage' # "vlans"
    BY <1>2 DEF Late
  <2> HIDE DEF w
  <2>. QED
    BY <1>2, <1>5, <2>1, LateVnis, StatedKept
<1>7. TransitDuring'
  BY <1>2 DEF TransitDuring
<1>8. TransitAfter'
  <2>1. SUFFICES ASSUME VnisClear PROVE TransitAfter'
    BY <1>6 DEF TransitAfter
  <2> DEFINE Settles(x) == Like(x) \in D /\ transit[x] = transit[Like(x)] /\ transit[x] > 0
             High(x) == transit[x] <= 0 \/ transit[x] >= StartTransit \/ transit[x] \in StaticTransit
  <2>2. /\ \A x \in OwnVnis : Assigned(x)
        /\ TransitApart(OwnVnis)
        /\ \A x \in D : High(x)
        /\ todo \subseteq D \ OwnVnis
        /\ \A x \in todo : transit[x] = NoVni
        /\ \A x \in D \ OwnVnis : x \in todo \/ failed \/ Settles(x)
    BY <1>2, <2>1 DEF VniInv, TransitAfter
  <2>3. v \notin OwnVnis /\ OwnVnis \subseteq D /\ \A x \in OwnVnis : transit'[x] = transit[x]
    BY <1>3, <1>5, <2>2 DEF OwnVnis
  <2>4. (\A x \in OwnVnis' : Assigned(x)') /\ TransitApart(OwnVnis)'
    <3>1. \A x \in OwnVnis : Assigned(x)'
      BY <1>6, <2>2, <2>3 DEF Assigned
    <3>2. TransitApart(OwnVnis)'
      BY <1>6, <2>2, <2>3 DEF TransitApart
    <3>. QED
      BY <1>6, <3>1, <3>2
  <2>5. \A x \in todo' : transit'[x] = NoVni
    BY <1>2, <1>5, <2>2
  <2>6. todo' \subseteq DOMAIN transit' \ OwnVnis'
    BY <1>2, <1>5, <1>6, <2>2
  <2>7. CASE failed' /\ transit' = transit
    <3>1. \A x \in DOMAIN transit' : transit'[x] <= 0 \/ transit'[x] >= StartTransit \/ transit'[x] \in StaticTransit'
      BY <1>6, <2>2, <2>7
    <3>. QED
      BY <1>2, <2>4, <2>5, <2>6, <2>7, <3>1 DEF TransitAfter
  <2>8. CASE IsGlobal(w) /\ transit[w] > 0 /\ transit' = [transit EXCEPT ![v] = transit[w]] /\ failed' = failed
    <3>1. transit'[v] = transit[w] /\ w \in D /\ transit[w] > 0
      BY <1>3, <1>4, <2>8 DEF IsGlobal
    <3>2. transit[v] = NoVni /\ ~(transit[v] > 0)
      BY <1>3, <2>2 DEF NoVni
    <3>3. w # v /\ transit'[w] = transit[w]
      BY <1>5, <3>1, <3>2
    <3> HIDE DEF w
    <3>4. \A x \in DOMAIN transit' : transit'[x] <= 0 \/ transit'[x] >= StartTransit \/ transit'[x] \in StaticTransit'
      BY <1>3, <1>5, <1>6, <2>2, <3>1
    <3>5. ASSUME NEW x \in D \ OwnVnis, x \notin todo', ~failed
          PROVE  Like(x) \in D /\ transit'[x] = transit'[Like(x)] /\ transit'[x] > 0
      <4>1. CASE x = v
        <5>1. Like(x) = w
          BY <4>1 DEF w
        <5>. QED
          BY <3>1, <3>3, <4>1, <5>1
      <4>2. CASE x # v
        <5>1. Settles(x)
          BY <1>2, <2>2, <3>5, <4>2
        <5>2. Like(x) # v
          BY <3>2, <5>1
        <5>. QED
          BY <1>5, <4>2, <5>1, <5>2
      <4>. QED
        BY <4>1, <4>2
    <3>6. \A x \in DOMAIN transit' \ OwnVnis' : x \in todo' \/ failed' \/ (Like(x)' \in DOMAIN transit' /\ transit'[x] = transit'[Like(x)'] /\ transit'[x] > 0)
      BY <1>5, <1>6, <2>8, <3>5
    <3>. QED
      BY <1>2, <2>4, <2>5, <2>6, <3>4, <3>6 DEF TransitAfter
  <2>. QED
    BY <1>2, <2>7, <2>8
<1>. QED
  BY <1>6, <1>7, <1>8 DEF VniInv

\* After the VNIs of VRFs nothing changes.
LEMMA LastVnis ==
  ASSUME Typed, VniInv, MergeGlobalVrfs \/ CheckVrfs \/ (Quiet /\ stage \in Late)
  PROVE  VniInv'
<1>1. /\ UNCHANGED <<lab, vnis, nextVni, vlanVni, transit, todo>> /\ (failed => failed')
      /\ stage \in Late /\ stage' \in Late \cup {"aborted"} /\ (stage' = stage \/ stage' \in {"check", "done", "aborted"})
      /\ stage' # stage => stage \in {"shared", "check"}
      /\ stage' = "check" /\ stage' # stage => ~failed' /\ stage = "shared" /\ todo = {}
      /\ stage' = "done" /\ stage' # stage => stage = "check"
  BY DEF MergeGlobalVrfs, CheckVrfs, Quiet, Late
<1>2. /\ VlansBefore' /\ TransitBefore' /\ VnisHeld' /\ SegmentsDiffer' /\ Checked' /\ VlansLow'
      /\ StaticTransit' = StaticTransit /\ VnisClear' = VnisClear /\ OwnVnis' = OwnVnis
      /\ \A v : Stated(v)' = Stated(v) /\ Like(v)' = Like(v)
  <2>1. stage' = "vlans" => stage = "vlans"
    BY <1>1
  <2>. QED
    BY <1>1, <2>1, LateVnis, StatedKept
<1>3. \A v : Assigned(v)' = Assigned(v)
  BY <1>1, <1>2 DEF Assigned
<1>4. TransitDuring'
  <2>1. SUFFICES ASSUME stage' = "transit" PROVE TransitDuring'
    BY DEF TransitDuring
  <2>2. stage = "transit"
    BY <1>1, <2>1
  <2>3. TransitApart(DOMAIN transit \ todo)' = TransitApart(DOMAIN transit \ todo)
    BY <1>1 DEF TransitApart
  <2>. QED
    BY <1>1, <1>2, <1>3, <2>2, <2>3 DEF VniInv, TransitDuring
<1>5. TransitAfter'
  <2>1. SUFFICES ASSUME VnisClear, stage' \in {"shared", "check", "done"} PROVE TransitAfter'
    BY <1>2 DEF TransitAfter
  <2>2. stage \in {"shared", "check", "done"}
    BY <1>1, <2>1
  <2>3. TransitApart(OwnVnis)' = TransitApart(OwnVnis)
    BY <1>1, <1>2 DEF TransitApart
  <2>4. /\ \A v \in OwnVnis : Assigned(v)
        /\ TransitApart(OwnVnis)
        /\ \A v \in DOMAIN transit : transit[v] <= 0 \/ transit[v] >= StartTransit \/ transit[v] \in StaticTransit
        /\ stage = "shared" => /\ todo \subseteq DOMAIN transit \ OwnVnis
                               /\ \A v \in todo : transit[v] = NoVni
        /\ \A v \in DOMAIN transit \ OwnVnis : v \in todo \/ failed \/ (Like(v) \in DOMAIN transit /\ transit[v] = transit[Like(v)] /\ transit[v] > 0)
        /\ stage \in {"check", "done"} => todo = {} /\ \A v \in DOMAIN transit \ OwnVnis : Like(v) \in DOMAIN transit /\ transit[v] = transit[Like(v)]
    BY <2>1, <2>2 DEF VniInv, TransitAfter
  <2>5. stage' \in {"check", "done"} => todo = {} /\ \A v \in DOMAIN transit \ OwnVnis : Like(v) \in DOMAIN transit /\ transit[v] = transit[Like(v)]
    <3>1. CASE stage \in {"check", "done"}
      BY <2>4, <3>1
    <3>2. CASE stage = "shared" /\ stage' \in {"check", "done"}
      <4>1. todo = {} /\ ~failed
        BY <1>1, <3>2
      <4>. QED
        BY <2>4, <4>1
    <3>. QED
      BY <2>2, <3>1, <3>2
  <2>6. stage' = "shared" => stage = "shared"
    BY <1>1
  <2>. QED
    BY <1>1, <1>2, <1>3, <2>3, <2>4, <2>5, <2>6 DEF TransitAfter
<1>. QED
  BY <1>2, <1>4, <1>5 DEF VniInv

\* Every step keeps the VNIs apart.
LEMMA VnisKeep ==
  ASSUME lab \in Labs, Typed, VniInv, Next \/ Quiet
  PROVE  VniInv'
<1>1. CASE NormalizeVrfIds \/ PopulateVrfStaticIds \/ KeepOrInheritId \/ GenerateId \/ SetImportExportRt \/ PullVrfs
           \/ (EndOfNodes /\ failed) \/ (Quiet /\ stage \notin Late)
  BY <1>1, EarlySteps
<1>2. CASE RegisterStaticVnis
  BY <1>2, RegisterVnis
<1>3. CASE EndOfNodes /\ ~failed
  BY <1>3, EndOfNodesVnis
<1>4. CASE AssignVni
  BY <1>4, AssignVnis
<1>5. CASE AssignVnisOfNode \/ EndOfVlans
  BY <1>5, VlanHookVnis
<1>6. CASE SetTransitVni
  BY <1>6, SetVnis
<1>7. CASE EndOfTransit
  BY <1>7, EndOfTransitVnis
<1>8. CASE ShareTransitVni
  BY <1>8, ShareVnis
<1>9. CASE MergeGlobalVrfs \/ CheckVrfs \/ (Quiet /\ stage \in Late)
  BY <1>9, LastVnis
<1>. QED
  BY <1>1, <1>2, <1>3, <1>4, <1>5, <1>6, <1>7, <1>8, <1>9 DEF Next

\* The VNIs at the start are those of the lab.
LEMMA VnisStart ==
  ASSUME LabOK, Init
  PROVE  VniInv
<1>1. /\ stage = "normalize" /\ nextVni = StartVni
      /\ vlanVni = [o \in Owners |-> [v \in DOMAIN lab.vlans[o] |-> lab.vlans[o][v].vni]]
      /\ transit = [v \in DOMAIN lab.vrfs[Topology] |-> lab.vrfs[Topology][v].vni]
  BY DEF Init
<1>2. \A s \in AllVlans : Vni(s) = StatedVni(s)
  <2>1. \A s \in AllVlans : s[1] \in Owners /\ s[2] \in DOMAIN lab.vlans[s[1]]
    BY DEF AllVlans
  <2>. QED
    BY <1>1, <2>1 DEF Vni, StatedVni
<1>3. VlansBefore /\ TransitBefore
  BY <1>1, <1>2 DEF VlansBefore, TransitBefore, Stated
<1>4. SegmentsDiffer
  BY <1>2 DEF SegmentsDiffer, Segments
<1>5. VnisHeld /\ Checked /\ VlansLow /\ TransitDuring /\ TransitAfter
  BY <1>1 DEF VnisHeld, Checked, VlansLow, TransitDuring, TransitAfter, Numbered, Late
<1>. QED
  BY <1>3, <1>4, <1>5 DEF VniInv

\* What the VNIs mean when all hooks have run.
LEMMA HeldDiffer ==
  ASSUME Typed, VniInv
  PROVE  VnisDiffer
<1>1. SUFFICES ASSUME Finished, VnisClear
               PROVE  /\ \A s, t \in Segments : Vni(s) = Vni(t) => s = t \/ (StatedVni(s) > 0 /\ StatedVni(s) = StatedVni(t))
                      /\ \A s \in Segments : \A v \in DOMAIN transit : Vni(s) # transit[v]
                      /\ \A v, w \in DOMAIN transit : v # w /\ Like(v) = "" /\ Like(w) = "" /\ transit[v] > 0 => transit[v] # transit[w]
                      /\ \A v \in DOMAIN transit : Like(v) # "" => transit[v] = transit[Like(v)]
  BY DEF VnisDiffer, Like
<1>2. stage = "done" /\ OwnVnis = {v \in DOMAIN transit : Like(v) = ""}
  BY <1>1 DEF Finished, OwnVnis
<1>3. \A s \in Segments : Vni(s) > 0 /\ Vni(s) < StartTransit /\ Vni(s) \notin StaticTransit /\ Vni(s) \in Int
  <2>1. \A s \in Segments : Vni(s) \in Int
    BY DEF Segments, AllVlans, Vni, Typed, VnisOK
  <2>. QED
    BY <1>1, <1>2, <2>1 DEF VniInv, VlansLow, Late, Segments
<1>4. /\ TransitApart(OwnVnis)
      /\ \A v \in DOMAIN transit : transit[v] <= 0 \/ transit[v] >= StartTransit \/ transit[v] \in StaticTransit
      /\ \A v \in DOMAIN transit \ OwnVnis : transit[v] = transit[Like(v)]
  BY <1>1, <1>2 DEF VniInv, TransitAfter
<1>5. \A v \in DOMAIN transit : transit[v] \in Int
  BY DEF Typed, VnisOK
<1>6. \A s \in Segments : \A v \in DOMAIN transit : Vni(s) # transit[v]
  BY <1>3, <1>4, <1>5, BoundsAssumption
<1>. QED
  BY <1>2, <1>4, <1>6 DEF VniInv, SegmentsDiffer, TransitApart

-----------------------------------------------------------------------------
(* The rds that are generated *)

\* What a step that keeps the lab keeps.
LEMMA SaysKept ==
  ASSUME lab' = lab
  PROVE  /\ TargetsClear' = TargetsClear
         /\ \A o, v : SaidRd(o, v)' = SaidRd(o, v) /\ IsOwn(o, v)' = IsOwn(o, v) /\ Symbol(o, v)' = Symbol(o, v)
         /\ \A o, rd : MadeUp(o, rd)' = MadeUp(o, rd)
         /\ \A o, v, d : Wanted(o, v, d)' = Wanted(o, v, d)
<1>1. Owners' = Owners /\ Nodes' = Nodes /\ GivenRds' = GivenRds
  BY LabKept, GivenKept
<1>2. /\ \A o, v : Said(o, v)' = Said(o, v)
      /\ \A o, rd : Own(o, rd)' = Own(o, rd)
  BY DEF Said, Own
<1>3. \A o, v : SaidRd(o, v)' = SaidRd(o, v) /\ IsOwn(o, v)' = IsOwn(o, v) /\ Symbol(o, v)' = Symbol(o, v)
  BY <1>2 DEF SaidRd, IsOwn, Symbol
<1>4. \A o : TargetsOf(o)' = TargetsOf(o)
  BY DEF TargetsOf
<1>5. TargetsClear' = TargetsClear
  BY <1>1, <1>2, <1>4 DEF TargetsClear
<1>6. \A o, rd : MadeUp(o, rd)' = MadeUp(o, rd)
  BY <1>1 DEF MadeUp
<1>7. \A o, v, d : SaidOf(o, v, d)' = SaidOf(o, v, d)
  BY <1>2 DEF SaidOf
<1>8. \A o, t : Meaning(o, t)' = Meaning(o, t)
  BY <1>2, <1>3 DEF Meaning
<1>9. \A o, v, d : Wanted(o, v, d)' = Wanted(o, v, d)
  BY <1>3, <1>7, <1>8 DEF Wanted
<1>. QED
  BY <1>3, <1>5, <1>6, <1>9

\* A VRF with the rd it had has one of the right kind.
LEMMA MadeFollows ==
  ASSUME lab' = lab, AllMade,
         \A o \in Owners : \A v \in Names(o)' : IsOwn(o, v) => (v \in Names(o) /\ SameCell(o, v)) \/ Made(o, v)'
  PROVE  AllMade'
<1>1. Owners' = Owners
  BY LabKept
<1>2. SUFFICES ASSUME NEW o \in Owners, NEW v \in Names(o)', IsOwn(o, v), v \in Names(o), SameCell(o, v)
               PROVE  Made(o, v)'
  BY <1>1, SaysKept DEF AllMade
<1>3. Made(o, v) /\ vrf'[o][v].rd = vrf[o][v].rd
  BY <1>2 DEF AllMade, SameCell
<1>. QED
  BY <1>3, SaysKept DEF Made

\* A VRF without an rd has one of the right kind, if the lab gives it none.
LEMMA MadeNone ==
  ASSUME lab' = lab, NEW o, NEW v, vrf'[o][v].rd = NoRd, ~Usable(SaidRd(o, v))
  PROVE  Made(o, v)'
BY SaysKept DEF Made

\* The rds the lab gives are the first ones.
LEMMA NormalizeMade ==
  ASSUME Typed, NormalizeVrfIds
  PROVE  AllMade' /\ Defined'
<1>1. /\ lab' = lab
      /\ \A o \in Owners : /\ Names(o)' = DOMAIN lab.vrfs[o]
                           /\ \A v \in DOMAIN lab.vrfs[o] : vrf'[o][v].rd = Own(o, lab.vrfs[o][v].rd)
  BY NormalizeCells
<1>2. Owners' = Owners
  BY <1>1, LabKept
<1>3. ASSUME NEW o \in Owners, NEW v \in DOMAIN lab.vrfs[o], IsOwn(o, v)
      PROVE  Made(o, v)'
  <2>1. vrf'[o][v].rd = SaidRd(o, v) /\ Said(o, v) = lab.vrfs[o][v]
    BY <1>1, <1>3 DEF SaidRd, Said
  <2>2. lab.vrfs[o][v].rd \in Rds
    BY DEF Typed, LabOK
  <2>3. CASE Usable(SaidRd(o, v))
    BY <1>1, <2>1, <2>3, SaysKept DEF Made
  <2>4. CASE ~Usable(SaidRd(o, v))
    <3>1. SaidRd(o, v) = lab.vrfs[o][v].rd /\ SaidRd(o, v) \in {NoRd, EmptyRd}
      BY <2>1, <2>2, <2>4, OwnFact DEF Typed, SaidRd, Usable
    <3>2. TargetsClear => lab.vrfs[o][v].rd # EmptyRd
      BY <1>3 DEF TargetsClear, IsOwn
    <3>. QED
      BY <1>1, <2>1, <2>4, <3>1, <3>2, SaysKept DEF Made
  <2>. QED
    BY <2>3, <2>4
<1>4. AllMade'
  BY <1>1, <1>2, <1>3, SaysKept DEF AllMade
<1>5. Defined'
  BY <1>1, <1>2 DEF Defined
<1>. QED
  BY <1>4, <1>5

\* A VRF that keeps or inherits its numbers gets no generated rd.
LEMMA KeepMade ==
  ASSUME lab \in Labs, Typed, Progress, AllMade, Defined, KeepOrInheritId
  PROVE  AllMade' /\ Defined'
<1>1. PICK o, v : o = Owner /\ v = Current
  OBVIOUS
<1>2. /\ OthersKeep(o, v) /\ o \in Owners /\ v \in Names(o)
      /\ SameCell(o, v) \/ Inherits(o, v)
  BY <1>1, KeepCell
<1>3. Owners' = Owners /\ lab' = lab /\ stage = "ids"
  BY <1>2, LabKept DEF OthersKeep, KeepOrInheritId
<1>4. Inherits(o, v) => ~IsOwn(o, v)
  BY <1>3 DEF Inherits, IsGlobal, IsOwn, Typed, WorkOK
<1>5. AllMade'
  BY <1>2, <1>3, <1>4, MadeFollows DEF OthersKeep
<1>6. Defined'
  BY <1>2, <1>3 DEF Defined, OthersKeep
<1>. QED
  BY <1>5, <1>6

\* A generated rd is nobody's given one.
LEMMA GenerateMade ==
  ASSUME lab \in Labs, Typed, Progress, NumbersApart, AllMade, Defined, GenerateId
  PROVE  AllMade' /\ Defined'
<1>1. CASE stage' = "aborted"
  <2>1. UNCHANGED <<lab, vrf>>
    BY <1>1 DEF GenerateId, Following
  <2>. QED
    BY <1>1, <2>1, SameVrf, MadeFollows DEF SameNumbers, Defined
<1>2. CASE stage' # "aborted"
  <2>1. PICK o, v : o = Owner /\ v = Current
    OBVIOUS
  <2>2. /\ o \in Owners /\ v \in Names(o) /\ AsSaid(o, v) /\ OthersKeep(o, v)
        /\ \E n \in 1..MaxVrfId :
              /\ <<lab.as[o], n>> \notin rds
              /\ vrf'[o][v].rd = (IF vrf[o][v].rd = NoRd THEN <<lab.as[o], n>> ELSE vrf[o][v].rd)
    BY <1>2, <2>1, GenerateCell
  <2>3. PICK n \in 1..MaxVrfId :
              /\ <<lab.as[o], n>> \notin rds
              /\ vrf'[o][v].rd = (IF vrf[o][v].rd = NoRd THEN <<lab.as[o], n>> ELSE vrf[o][v].rd)
    BY <2>2
  <2>4. stage = "ids" /\ lab' = lab /\ Owners' = Owners
    BY <2>2, LabKept DEF OthersKeep, GenerateId
  <2>5. Made(o, v)' \/ vrf'[o][v].rd = vrf[o][v].rd
    <3>1. SUFFICES ASSUME vrf[o][v].rd = NoRd PROVE Made(o, v)'
      BY <2>3
    <3>2. ~Usable(SaidRd(o, v))
      BY <2>2, <3>1 DEF AsSaid, SaidRd, Usable
    <3>3. lab.as[o] \in Nat /\ n \in Nat
      <4>1. lab.as[o] \in Nat
        BY <2>2 DEF Typed, LabOK
      <4>. QED
        BY <4>1, BoundsAssumption
    <3>4. <<lab.as[o], n>> \notin GivenRds
      BY <2>3, <2>4 DEF NumbersApart, Registered
    <3>5. MadeUp(o, <<lab.as[o], n>>)
      BY <3>3, <3>4, MadeRd DEF MadeUp
    <3>. QED
      BY <2>3, <2>4, <3>1, <3>2, <3>5, SaysKept DEF Made
  <2>6. vrf'[o][v].rd = vrf[o][v].rd /\ IsOwn(o, v) => Made(o, v)'
    BY <2>2, <2>4, SaysKept DEF AllMade, Made
  <2>7. AllMade'
    BY <2>2, <2>4, <2>5, <2>6, MadeFollows DEF OthersKeep
  <2>8. Defined'
    BY <2>2, <2>4 DEF Defined, OthersKeep
  <2>. QED
    BY <2>7, <2>8
<1>. QED
  BY <1>1, <1>2

\* The VRFs a node pulls have no rd yet.
LEMMA PullMade ==
  ASSUME Typed, Progress, AllMade, Defined, PullVrfs
  PROVE  AllMade' /\ Defined'
<1>1. PICK n : n = lab.nodes[k + 1]
  OBVIOUS
<1>2. /\ n \in Nodes /\ n \in Owners /\ n # Topology /\ lab' = lab
      /\ \A o \in Owners : o # n => Names(o)' = Names(o) /\ \A v \in Names(o) : SameCell(o, v)
      /\ Names(n)' = Names(n) \cup lab.pulled[n]
      /\ \A v \in Names(n)' : IF v \in Names(n) THEN SameCell(n, v) ELSE vrf'[n][v].id = 0 /\ vrf'[n][v].rd = NoRd
  BY <1>1, PullCells
<1>3. stage = "node" /\ Owners' = Owners
  BY <1>2, LabKept DEF PullVrfs
<1>4. ASSUME NEW v \in Names(n)', v \notin Names(n)
      PROVE  Made(n, v)'
  <2>1. v \notin DOMAIN lab.vrfs[n]
    BY <1>2, <1>3, <1>4 DEF Defined
  <2>2. SaidRd(n, v) = NoRd
    BY <2>1 DEF SaidRd, Said, New, Own, Usable
  <2>3. ~Usable(SaidRd(n, v)) /\ vrf'[n][v].rd = NoRd
    BY <1>2, <1>4, <2>2 DEF Usable
  <2>. QED
    BY <1>2, <2>3, MadeNone
<1>5. AllMade'
  BY <1>2, <1>4, MadeFollows
<1>6. Defined'
  BY <1>2, <1>3 DEF Defined
<1>. QED
  BY <1>5, <1>6

\* The VRFs a node gets last are global ones.
LEMMA UseMade ==
  ASSUME Typed, AllMade, Defined, MergeGlobalVrfs \/ CheckVrfs
  PROVE  AllMade' /\ Defined'
<1>1. /\ Copies /\ lab' = lab
      /\ \A o \in Owners : \A v \in Names(o)' : (v \in Names(o) /\ SameCell(o, v)) \/ Copied(o, v)
      /\ stage # "normalize" /\ Owners' = Owners
  BY UseCells, LabKept DEF Copies, MergeGlobalVrfs, CheckVrfs
<1>2. ASSUME NEW o \in Owners, NEW v \in Names(o)', IsOwn(o, v)
      PROVE  v \in Names(o) /\ SameCell(o, v)
  <2>1. CASE Copied(o, v)
    <3>1. v \in DOMAIN lab.vrfs[Topology] /\ v \in Names(Topology)
      BY <1>1, <2>1 DEF Copied, Typed, WorkOK
    <3>2. o = Topology
      BY <1>2, <3>1 DEF IsOwn
    <3>. QED
      BY <1>1, <3>1, <3>2 DEF Copies
  <2>. QED
    BY <1>1, <1>2, <2>1
<1>3. AllMade'
  BY <1>1, <1>2, MadeFollows
<1>4. CASE MergeGlobalVrfs
  <2>1. \A o \in Owners : Names(o) \subseteq Names(o)'
    <3>1. Owners = Nodes \cup {Topology} /\ Names(Topology)' = Names(Topology)
      BY <1>1 DEF Owners, Copies
    <3>. QED
      BY <1>4, <3>1, UseCells
  <2>2. stage = "shared"
    BY <1>4 DEF MergeGlobalVrfs
  <2>. QED
    BY <1>1, <1>3, <2>1, <2>2 DEF Defined
<1>5. CASE CheckVrfs
  <2>1. stage' \in {"aborted", "done"}
    BY <1>5 DEF CheckVrfs
  <2>. QED
    BY <1>3, <2>1 DEF Defined
<1>. QED
  BY <1>4, <1>5

\* Every step keeps the rds of the right kind.
LEMMA MadeKeeps ==
  ASSUME lab \in Labs, Typed, ControlOK', Progress, IdInv, MadeInv, Next \/ Quiet
  PROVE  MadeInv'
<1>1. lab' = lab
  BY DEF Next, Quiet, NormalizeVrfIds, PopulateVrfStaticIds, KeepOrInheritId, GenerateId, SetImportExportRt, PullVrfs, EndOfNodes,
         RegisterStaticVnis, AssignVni, AssignVnisOfNode, EndOfVlans, SetTransitVni, EndOfTransit, ShareTransitVni, MergeGlobalVrfs, CheckVrfs
<1>2. SUFFICES ASSUME NumbersClear PROVE Defined' /\ AllMade'
  BY <1>1, GivenKept DEF MadeInv
<1>3. Defined /\ AllMade /\ NumbersApart
  BY <1>2 DEF MadeInv, IdInv
<1>4. ASSUME SameNumbers, stage' \in {"normalize", "done", "aborted"} \/ stage \notin {"normalize", "done", "aborted"}
      PROVE  Defined' /\ AllMade'
  BY <1>3, <1>4, LabKept, MadeFollows DEF SameNumbers, Defined
<1>5. CASE Quiet
  BY <1>4, <1>5, SameVrf DEF Quiet
<1>6. CASE Hooks
  <2>1. SameNumbers
    BY <1>6, HooksProgress
  <2>2. stage \notin {"normalize", "done", "aborted"}
    BY <1>6 DEF Hooks, EndOfNodes, RegisterStaticVnis, AssignVni, AssignVnisOfNode, EndOfVlans, SetTransitVni, EndOfTransit, ShareTransitVni
  <2>. QED
    BY <1>4, <2>1, <2>2
<1>7. CASE SetImportExportRt
  <2>1. SameNumbers
    BY <1>7, TargetsProgress
  <2>2. stage \notin {"normalize", "done", "aborted"}
    BY <1>7 DEF SetImportExportRt
  <2>. QED
    BY <1>4, <2>1, <2>2
<1>8. CASE PopulateVrfStaticIds
  BY <1>4, <1>8, SameVrf DEF PopulateVrfStaticIds
<1>. QED
  BY <1>3, <1>5, <1>6, <1>7, <1>8, NormalizeMade, KeepMade, GenerateMade, PullMade, UseMade DEF Next, Hooks

-----------------------------------------------------------------------------
(* Symbols and the rds they stand for *)

\* A symbol is not an rd.
LEMMA NoRdSymbol ==
  ASSUME NEW p, NEW w
  PROVE  <<"rd", p, w>> \notin Rds
<1>1. <<"rd", p, w>> \notin Nat \X Nat
  OBVIOUS
<1>. QED
  BY <1>1 DEF Rds, NoRd, EmptyRd

\* The symbol of a VRF is its given rd, or a name.
LEMMA SymbolFact ==
  ASSUME Typed, NEW o \in Owners, NEW v
  PROVE  /\ SaidRd(o, v) \in Rds
         /\ Usable(SaidRd(o, v)) => Symbol(o, v) = SaidRd(o, v) /\ SaidRd(o, v) \in GivenRds
         /\ ~Usable(SaidRd(o, v)) => Symbol(o, v) = <<"rd", o, v>> /\ Symbol(o, v) \notin Rds
<1>1. CASE v \in DOMAIN lab.vrfs[o]
  <2>1. Said(o, v) = lab.vrfs[o][v] /\ lab.vrfs[o][v].rd \in Rds
    BY <1>1 DEF Said, Typed, LabOK
  <2>2. SaidRd(o, v) \in Rds
    BY <2>1, OwnFact DEF SaidRd, Typed
  <2>3. Usable(SaidRd(o, v)) => SaidRd(o, v) \in GivenRds
    BY <1>1, <2>1 DEF SaidRd, GivenRds, GivenRd
  <2>. QED
    BY <2>2, <2>3, NoRdSymbol DEF Symbol, SaidRd
<1>2. CASE v \notin DOMAIN lab.vrfs[o]
  <2>1. SaidRd(o, v) = NoRd
    BY <1>2 DEF SaidRd, Said, New, Own, Usable
  <2>. QED
    BY <2>1, NoRdSymbol DEF Symbol, SaidRd, Usable, Rds
<1>. QED
  BY <1>1, <1>2

\* A VRF that is looked up by name has the rd its symbol stands for.
LEMMA SymbolRd ==
  ASSUME Typed, AllMade, NEW o \in Owners, NEW v \in Names(o), IsOwn(o, v)
  PROVE  /\ RdFor(Symbol(o, v)) = vrf[o][v].rd
         /\ TargetsClear => vrf[o][v].rd # EmptyRd
<1>1. Made(o, v)
  BY DEF AllMade
<1>2. CASE Usable(SaidRd(o, v))
  BY <1>1, <1>2, SymbolFact DEF Made, RdFor, Usable
<1>3. CASE ~Usable(SaidRd(o, v))
  <2>1. RdFor(Symbol(o, v)) = vrf[o][v].rd
    BY <1>3, SymbolFact DEF RdFor
  <2>2. NoRd # EmptyRd
    BY DEF NoRd, EmptyRd
  <2>. QED
    BY <1>1, <1>3, <2>1, <2>2 DEF Made, MadeUp, Usable
<1>. QED
  BY <1>2, <1>3

\* A symbol of an owner, or a number among its targets.
AskedOf(p, s) == (\E w : s = Symbol(p, w)) \/ (\E t \in TargetsOf(p) : t.vrf = "" /\ s = Own(p, t.rt))

\* What the lab asks for are symbols and numbers given as targets.
LEMMA WantedFact ==
  ASSUME Typed, NEW o \in Owners, NEW v, NEW d \in Directions, NEW s \in Wanted(o, v, d)
  PROVE  AskedOf(Topology, s) \/ AskedOf(o, s)
<1> DEFINE p == IF SaidOf(o, v, d) = Missing /\ v \in DOMAIN lab.vrfs[Topology] THEN Topology ELSE o
           said == SaidOf(p, v, d)
<1>1. s \in (IF said = Missing THEN {Symbol(p, v)} ELSE {Meaning(p, t) : t \in said[1]}) /\ p \in {Topology, o}
  BY DEF Wanted
<1>2. CASE said = Missing
  BY <1>1, <1>2 DEF AskedOf
<1>3. CASE said # Missing
  <2>1. PICK t \in said[1] : s = Meaning(p, t)
    BY <1>1, <1>3
  <2>2. CASE t.vrf = ""
    <3>1. s = Own(p, t.rt)
      BY <2>1, <2>2 DEF Meaning
    <3>2. said \in {Said(p, v).import, Said(p, v).export}
      BY DEF SaidOf
    <3>3. v \in DOMAIN lab.vrfs[p] /\ said \in {lab.vrfs[p][v].import, lab.vrfs[p][v].export}
      BY <1>3, <3>2 DEF Said, New
    <3>4. t \in TargetsOf(p)
      <4> DEFINE of(x) == UNION {IF y = Missing THEN {} ELSE y[1] : y \in {lab.vrfs[p][x].import, lab.vrfs[p][x].export}}
      <4>1. t \in of(v)
        <5>1. said[1] = IF said = Missing THEN {} ELSE said[1]
          BY <1>3
        <5>. HIDE DEF said
        <5>. QED
          BY <2>1, <3>3, <5>1
      <4>2. TargetsOf(p) = UNION {of(x) : x \in DOMAIN lab.vrfs[p]}
        BY DEF TargetsOf
      <4>. HIDE DEF of
      <4>. QED
        BY <3>3, <4>1, <4>2
    <3>. QED
      BY <1>1, <2>2, <3>1, <3>4 DEF AskedOf
  <2>3. CASE t.vrf # ""
    BY <1>1, <2>1, <2>3 DEF Meaning, AskedOf
  <2>. QED
    BY <2>2, <2>3
<1>. QED
  BY <1>2, <1>3

-----------------------------------------------------------------------------
(* Targets *)

\* A global VRF, or one the node says nothing about, wants what the topology says.
LEMMA WantedGlobal ==
  ASSUME NEW o, NEW v \in DOMAIN lab.vrfs[Topology], NEW d, SaidOf(o, v, d) = Missing \/ o = Topology
  PROVE  Wanted(o, v, d) = Wanted(Topology, v, d)
BY DEF Wanted

\* Targets made of the numbers of now are settled if these numbers stay.
LEMMA SettledSoon ==
  ASSUME Typed, lab' = lab, NEW o \in Owners, NEW v,
         \A d \in Directions :
            /\ vrf'[o][v][d] = <<{RdFor(s) : s \in Wanted(o, v, d)}>>
            /\ \A s \in Wanted(o, v, d) : s \in Rds \/ Named(o, s),
         \A p \in {Topology, o} : \A w \in Names(p) : w \in Names(p)' /\ SameCell(p, w)
  PROVE  Settled(o, v)'
<1>1. ASSUME NEW d \in Directions
      PROVE  Obeys(o, v, d)' /\ \A s \in Wanted(o, v, d) : s \in Rds \/ Named(o, s)'
  <2>1. ASSUME NEW s \in Wanted(o, v, d)
        PROVE  RdFor(s)' = RdFor(s) /\ (s \in Rds \/ Named(o, s)')
    <3>1. CASE s \in Rds
      BY <3>1 DEF RdFor
    <3>2. CASE s \notin Rds
      <4>1. PICK p \in {Topology, o} : \E w \in Names(p) : s = Symbol(p, w) /\ IsOwn(p, w)
        BY <2>1, <3>2 DEF Named
      <4>2. PICK w \in Names(p) : s = Symbol(p, w) /\ IsOwn(p, w)
        BY <4>1
      <4>3. s = <<"rd", p, w>>
        BY <3>2, <4>2, SymbolFact DEF Owners
      <4>4. Named(o, s)'
        BY <4>2, SaysKept DEF Named
      <4>5. s[2] = p /\ s[3] = w
        BY <4>3
      <4>. QED
        BY <3>2, <4>2, <4>4, <4>5 DEF RdFor, SameCell
    <3>. QED
      BY <3>1, <3>2
  <2>2. {RdFor(s)' : s \in Wanted(o, v, d)} = {RdFor(s) : s \in Wanted(o, v, d)}
    BY <2>1
  <2>3. Obeys(o, v, d)'
    BY <2>2, SaysKept DEF Obeys
  <2>. QED
    BY <2>1, <2>3
<1>. QED
  BY <1>1, SaysKept DEF Settled

\* The VRFs of an owner stay as they are.
SameOwner(o) == Names(o)' = Names(o) /\ \A v \in Names(o) : vrf'[o][v] = vrf[o][v]

\* Targets stay while the numbers they are made of do.
LEMMA SettledKept ==
  ASSUME Typed, lab' = lab, NEW o \in Owners, SameOwner(Topology), SameOwner(o), NEW v \in Names(o), Settled(o, v)
  PROVE  Settled(o, v)'
<1>1. \A d \in Directions :
        /\ vrf'[o][v][d] = <<{RdFor(s) : s \in Wanted(o, v, d)}>>
        /\ \A s \in Wanted(o, v, d) : s \in Rds \/ Named(o, s)
  BY DEF Settled, Obeys, SameOwner
<1>2. \A p \in {Topology, o} : \A w \in Names(p) : w \in Names(p)' /\ SameCell(p, w)
  BY DEF SameOwner, SameCell
<1>. QED
  BY <1>1, <1>2, SettledSoon

\* get_vrf_id: what is found by name is what the symbol stands for.
LEMMA ResolvedRd ==
  ASSUME Typed, stage # "normalize", AllMade, TargetsClear, NEW o \in Owners, NEW v, NEW d \in Directions,
         NEW said, said = SaidOf(o, v, d), said # Missing, ~Unknown(o, v)
  PROVE  /\ Resolved(o, said[1]) = {RdFor(Meaning(o, t)) : t \in said[1]}
         /\ \A t \in said[1] : Meaning(o, t) \in Rds \/ Named(o, Meaning(o, t))
<1>1. said \in {Said(o, v).import, Said(o, v).export}
  BY DEF SaidOf
<1>2. v \in DOMAIN lab.vrfs[o] /\ said \in {lab.vrfs[o][v].import, lab.vrfs[o][v].export}
  BY <1>1 DEF Said, New
<1>3. ASSUME NEW t \in said[1], t.vrf = ""
      PROVE  Meaning(o, t) = Own(o, t.rt) /\ Meaning(o, t) \in Rds /\ RdFor(Meaning(o, t)) = Own(o, t.rt)
  <2>1. \A x \in {lab.vrfs[o][v].import, lab.vrfs[o][v].export} :
          x # Missing => \A y \in x[1] : y.vrf = "" => y.rt \in Nat \X Nat
    BY <1>2, ZenonT(40) DEF Typed, LabOK
  <2>2. t.rt \in Rds
    BY <1>2, <1>3, <2>1 DEF Rds
  <2>3. Own(o, t.rt) \in Rds
    BY <2>2, OwnFact DEF Typed
  <2>. QED
    BY <1>3, <2>3 DEF Meaning, RdFor
<1>4. ASSUME NEW t \in said[1], t.vrf # ""
      PROVE  /\ Known(o, t.vrf) /\ RdOf(o, t.vrf) # EmptyRd /\ RdFor(Meaning(o, t)) = RdOf(o, t.vrf)
             /\ Named(o, Meaning(o, t))
  <2> DEFINE p == IF t.vrf \in DOMAIN lab.vrfs[Topology] THEN Topology ELSE o
  <2>1. Known(o, t.vrf)
    BY <1>1, <1>4 DEF Unknown
  <2>2. Names(Topology) = DOMAIN lab.vrfs[Topology]
    BY DEF Typed, WorkOK
  <2>3. t.vrf \in Names(p) /\ IsOwn(p, t.vrf) /\ p \in {Topology, o} /\ p \in Owners /\ RdOf(o, t.vrf) = vrf[p][t.vrf].rd
    BY <2>1, <2>2 DEF Known, IsGlobal, IsOwn, RdOf, Owners
  <2>4. Meaning(o, t) = Symbol(p, t.vrf)
    BY <1>4 DEF Meaning
  <2> HIDE DEF p
  <2>5. RdFor(Symbol(p, t.vrf)) = vrf[p][t.vrf].rd /\ vrf[p][t.vrf].rd # EmptyRd
    BY <2>3, SymbolRd
  <2>. QED
    BY <2>1, <2>3, <2>4, <2>5 DEF Named
<1>5. ASSUME NEW t \in said[1], t.vrf = ""
      PROVE  ~LacksAs(o, t.rt)
  BY <1>1, <1>5 DEF Unknown
<1>6. Resolved(o, said[1]) = {RdFor(Meaning(o, t)) : t \in said[1]}
  <2>1. ASSUME NEW r \in Resolved(o, said[1])
        PROVE  \E t \in said[1] : r = RdFor(Meaning(o, t))
    BY <1>3, <1>4 DEF Resolved
  <2>2. ASSUME NEW t \in said[1]
        PROVE  RdFor(Meaning(o, t)) \in Resolved(o, said[1])
    BY <1>3, <1>4, <1>5 DEF Resolved
  <2>. QED
    BY <2>1, <2>2
<1>. QED
  BY <1>3, <1>4, <1>6

\* set_import_export_rt: the targets a VRF gets are those the lab asks for.
LEMMA TargetsWanted ==
  ASSUME Typed, stage # "normalize", AllMade, TargetsClear, NEW o \in Owners, NEW v \in Names(o), NEW d \in Directions, ~Unknown(o, v),
         o # Topology => \A w \in Names(Topology) : Settled(Topology, w)
  PROVE  LET global == IF IsGlobal(v) THEN vrf[Topology][v] ELSE New IN
         /\ Targets(o, v, SaidOf(o, v, d), global[d]) = <<{RdFor(s) : s \in Wanted(o, v, d)}>>
         /\ \A s \in Wanted(o, v, d) : s \in Rds \/ Named(o, s)
<1> DEFINE global == IF IsGlobal(v) THEN vrf[Topology][v] ELSE New
           said == SaidOf(o, v, d)
           made == Targets(o, v, said, global[d])
<1>1. Names(Topology) = DOMAIN lab.vrfs[Topology] /\ Topology \in Owners
  BY DEF Typed, WorkOK, Owners
<1>2. CASE said # Missing
  <2>1. made = <<Resolved(o, said[1])>>
    BY <1>2 DEF Targets
  <2>2. Wanted(o, v, d) = {Meaning(o, t) : t \in said[1]}
    BY <1>2 DEF Wanted
  <2>3. /\ Resolved(o, said[1]) = {RdFor(Meaning(o, t)) : t \in said[1]}
        /\ \A t \in said[1] : Meaning(o, t) \in Rds \/ Named(o, Meaning(o, t))
    BY <1>2, ResolvedRd
  <2>4. {RdFor(s) : s \in Wanted(o, v, d)} = {RdFor(Meaning(o, t)) : t \in said[1]}
    BY <2>2
  <2> HIDE DEF made, said
  <2>. QED
    BY <2>1, <2>2, <2>3, <2>4 DEF made, said
<1>3. CASE said = Missing /\ Inherits(o, v)
  <2>1. v \in Names(Topology) /\ o # Topology /\ global[d] = vrf[Topology][v][d]
    BY <1>3 DEF Inherits, IsGlobal
  <2>2. made = vrf[Topology][v][d]
    BY <1>3, <2>1 DEF Targets
  <2>3. Settled(Topology, v) /\ Wanted(o, v, d) = Wanted(Topology, v, d)
    BY <1>1, <1>3, <2>1, WantedGlobal
  <2>4. \A s : Named(Topology, s) => Named(o, s)
    BY DEF Named
  <2> HIDE DEF made, said
  <2>. QED
    BY <2>2, <2>3, <2>4 DEF made, said, Settled, Obeys
<1>4. CASE said = Missing /\ ~Inherits(o, v)
  <2>1. made = <<{vrf[o][v].rd}>>
    BY <1>4 DEF Targets
  <2>2. IsOwn(o, v)
    BY <1>1, <1>4 DEF Inherits, IsGlobal, IsOwn
  <2>3. Wanted(o, v, d) = {Symbol(o, v)}
    BY <1>4, <2>2 DEF Wanted, IsOwn
  <2>4. RdFor(Symbol(o, v)) = vrf[o][v].rd
    BY <2>2, SymbolRd
  <2>5. Named(o, Symbol(o, v))
    BY <2>2 DEF Named
  <2> HIDE DEF made, said
  <2>. QED
    BY <2>1, <2>3, <2>4, <2>5 DEF made, said
<1>. QED
  BY <1>2, <1>3, <1>4

\* The VRF whose turn it is is settled by the step.
LEMMA TargetsSettle ==
  ASSUME lab \in Labs, Typed, AllMade, TargetsClear, SetImportExportRt, ~failed', NEW o, o = Owner, NEW v, v = Current,
         o # Topology => \A w \in Names(Topology) : Settled(Topology, w)
  PROVE  Settled(o, v)'
<1> DEFINE global == IF IsGlobal(v) THEN vrf[Topology][v] ELSE New
           e == [vrf[o][v] EXCEPT !.import = Targets(o, v, Said(o, v).import, global.import),
                                  !.export = Targets(o, v, Said(o, v).export, global.export)]
<1>1. o \in Owners /\ v \in Names(o) /\ Updates(o, v, e) /\ vrf[o][v] \in VrfData /\ SameNumbers
  BY TargetsCell
<1>2. stage # "normalize" /\ ~Unknown(o, v)
  BY DEF SetImportExportRt
<1>3. vrf'[o][v].import = Targets(o, v, Said(o, v).import, global.import) /\ vrf'[o][v].export = Targets(o, v, Said(o, v).export, global.export)
  <2> DEFINE i == Targets(o, v, Said(o, v).import, global.import)
             x == Targets(o, v, Said(o, v).export, global.export)
  <2>1. vrf'[o][v] = [vrf[o][v] EXCEPT !.import = i, !.export = x] /\ vrf[o][v] \in VrfData
    BY <1>1 DEF Updates
  <2> HIDE DEF i, x
  <2>2. vrf'[o][v].import = i /\ vrf'[o][v].export = x
    BY <2>1 DEF VrfData
  <2>. QED
    BY <2>2 DEF i, x
<1> HIDE DEF e
<1>4. ASSUME NEW d \in Directions
      PROVE  vrf'[o][v][d] = Targets(o, v, SaidOf(o, v, d), global[d])
  <2>1. CASE d = "import"
    BY <1>3, <2>1 DEF SaidOf
  <2>2. CASE d = "export"
    BY <1>3, <2>2 DEF SaidOf
  <2>. QED
    BY <2>1, <2>2 DEF Directions
<1>5. ASSUME NEW d \in Directions
      PROVE  /\ vrf'[o][v][d] = <<{RdFor(s) : s \in Wanted(o, v, d)}>>
             /\ \A s \in Wanted(o, v, d) : s \in Rds \/ Named(o, s)
  BY <1>1, <1>2, <1>4, TargetsWanted
<1>6. \A p \in {Topology, o} : \A w \in Names(p) : w \in Names(p)' /\ SameCell(p, w)
  BY <1>1 DEF SameNumbers, Owners
<1>7. lab' = lab
  BY <1>1 DEF SameNumbers
<1>. QED
  BY <1>1, <1>5, <1>6, <1>7, SettledSoon

\* All VRFs of an owner have their targets.
AllSettled(o) == \A v \in Names(o) : Settled(o, v)

\* The VRFs of an owner are settled still when its data and the global VRFs stay.
LEMMA OwnerStays ==
  ASSUME Typed, lab' = lab, NEW o \in Owners, SameOwner(Topology), SameOwner(o), AllSettled(o)
  PROVE  AllSettled(o)'
<1>1. Names(o)' = Names(o)
  BY DEF SameOwner
<1>2. ASSUME NEW v \in Names(o) PROVE Settled(o, v)'
  BY SettledKept DEF AllSettled
<1>. QED
  BY <1>1, <1>2 DEF AllSettled

\* Nothing is left to settle when data and work stay.
LEMMA SettledSame ==
  ASSUME Typed, UNCHANGED <<lab, vrf>>, TopologySettled, NodesSettled,
         k' > 0 \/ stage' \in {"vnis", "node"} \cup Late => k > 0 \/ stage \in {"vnis", "node"} \cup Late,
         \A i \in 1..Len(lab.nodes) : Served(i)' => Served(i)
  PROVE  TopologySettled' /\ NodesSettled'
<1>1. Topology \in Owners /\ \A o : SameOwner(o) /\ Names(o)' = Names(o)
  BY DEF SameOwner, Names, Owners
<1>2. TopologySettled'
  <2>1. SUFFICES ASSUME k > 0 \/ stage \in {"vnis", "node"} \cup Late PROVE AllSettled(Topology)'
    BY DEF TopologySettled, AllSettled
  <2>2. AllSettled(Topology)
    BY <2>1 DEF TopologySettled, AllSettled
  <2>. QED
    BY <1>1, <2>2, OwnerStays
<1>3. NodesSettled'
  <2>1. SUFFICES ASSUME NEW i \in 1..Len(lab.nodes), Served(i), NEW n, n = lab.nodes[i] PROVE AllSettled(n)'
    BY DEF NodesSettled, AllSettled
  <2>2. AllSettled(n) /\ n \in Owners
    BY <2>1, NodeFacts DEF NodesSettled, AllSettled
  <2>. QED
    BY <1>1, <2>2, OwnerStays
<1>. QED
  BY <1>2, <1>3

\* A step on the VRFs of one owner, before its targets are settled.
LEMMA OthersSettled ==
  ASSUME Typed, lab' = lab, NEW o \in Owners, \A p \in Owners : p # o => SameOwner(p),
         TopologySettled, NodesSettled,
         k' > 0 \/ stage' \in {"vnis", "node"} \cup Late => o # Topology /\ (k > 0 \/ stage \in {"vnis", "node"} \cup Late),
         \A i \in 1..Len(lab.nodes) : Served(i)' => (lab.nodes[i] # o \/ Names(o)' = {}) /\ (lab.nodes[i] # o => Served(i) /\ o # Topology)
  PROVE  TopologySettled' /\ NodesSettled'
<1>1. Topology \in Owners
  BY DEF Owners
<1>2. TopologySettled'
  <2>1. SUFFICES ASSUME o # Topology, k > 0 \/ stage \in {"vnis", "node"} \cup Late PROVE AllSettled(Topology)'
    BY DEF TopologySettled, AllSettled
  <2>2. AllSettled(Topology)
    BY <2>1 DEF TopologySettled, AllSettled
  <2>. QED
    BY <1>1, <2>1, <2>2, OwnerStays
<1>3. NodesSettled'
  <2>1. SUFFICES ASSUME NEW i \in 1..Len(lab.nodes), Served(i)', NEW n, n = lab.nodes[i] PROVE AllSettled(n)'
    BY DEF NodesSettled, AllSettled
  <2>2. n \in Owners
    BY <2>1, NodeFacts
  <2>3. CASE n = o
    BY <2>1, <2>3 DEF AllSettled
  <2>4. CASE n # o
    <3>1. AllSettled(n) /\ o # Topology
      BY <2>1, <2>4 DEF NodesSettled, AllSettled
    <3>. QED
      BY <1>1, <2>2, <2>4, <3>1, OwnerStays
  <2>. QED
    BY <2>3, <2>4
<1>. QED
  BY <1>2, <1>3

\* The VRFs whose numbers are being set have no targets yet.
LEMMA IdsSettled ==
  ASSUME lab \in Labs, Typed, KeepOrInheritId \/ GenerateId, ~failed', TopologySettled, NodesSettled
  PROVE  OwnerSettled' /\ TopologySettled' /\ NodesSettled'
<1>1. PICK o, v : o = Owner /\ v = Current
  OBVIOUS
<1>2. /\ stage = "ids" /\ lab' = lab /\ k' = k /\ Following("ids", "targets")
      /\ vrf' = vrf \/ \E d : vrf' = [vrf EXCEPT ![o][v] = d]
  <2>1. CASE KeepOrInheritId
    BY <1>1, <2>1 DEF KeepOrInheritId
  <2>2. CASE GenerateId
    BY <1>1, <2>2 DEF GenerateId
  <2>. QED
    BY <2>1, <2>2
<1>3. o \in Owners /\ v \in Names(o) /\ Owner' = o
  BY <1>1, <1>2, CurrentOwned, OwnerKept DEF KeepOrInheritId, GenerateId
<1>4. /\ \A p \in Owners : p # o => SameOwner(p)
      /\ Names(o)' = Names(o)
  <2>1. CASE vrf' = vrf
    BY <2>1 DEF SameOwner, Names
  <2>2. CASE \E d : vrf' = [vrf EXCEPT ![o][v] = d]
    <3>1. PICK d : vrf' = [vrf EXCEPT ![o][v] = d]
      BY <2>2
    <3>2. Updates(o, v, d)
      BY <1>3, <3>1, UpdateFact DEF Typed
    <3>. QED
      BY <1>3, <3>2 DEF Updates, SameOwner
  <2>. QED
    BY <1>2, <2>1, <2>2
<1>5. stage' \in {"ids", "targets"} /\ (stage' = "targets" => todo' = Names(o))
  BY <1>1, <1>2 DEF Following
<1>6. OwnerSettled'
  BY <1>3, <1>4, <1>5 DEF OwnerSettled
<1>7. k \in 0..Len(lab.nodes) /\ Len(lab.nodes) \in Nat
  BY DEF Typed, ControlOK, LabOK
<1>8. k > 0 => o # Topology
  <2>1. SUFFICES ASSUME k > 0 PROVE o # Topology
    OBVIOUS
  <2>2. k \in 1..Len(lab.nodes) /\ o = lab.nodes[k]
    BY <1>1, <1>7, <2>1 DEF Owner
  <2>. QED
    BY <2>2, NodeFacts
<1>9. ASSUME NEW i \in 1..Len(lab.nodes), Served(i)'
      PROVE  lab.nodes[i] # o /\ Served(i) /\ o # Topology
  <2>1. i < k
    BY <1>2, <1>5, <1>9 DEF Served, Late
  <2>2. Served(i) /\ k > 0
    BY <1>2, <1>7, <2>1 DEF Served
  <2>3. lab.nodes[i] # o
    BY <1>1, <1>7, <2>1, NodeFacts
  <2>. QED
    BY <1>8, <2>2, <2>3
<1>10. k' > 0 \/ stage' \in {"vnis", "node"} \cup Late => o # Topology /\ (k > 0 \/ stage \in {"vnis", "node"} \cup Late)
  BY <1>2, <1>5, <1>8 DEF Late
<1>11. TopologySettled' /\ NodesSettled'
  BY <1>2, <1>3, <1>4, <1>9, <1>10, OthersSettled
<1>. QED
  BY <1>6, <1>11

\* set_import_export_rt settles one VRF after the other, and leaves the rest alone.
LEMMA TargetsSettled ==
  ASSUME lab \in Labs, Typed, AllMade, TargetsClear, SetImportExportRt, ~failed', OwnerSettled, TopologySettled, NodesSettled
  PROVE  OwnerSettled' /\ TopologySettled' /\ NodesSettled'
<1>1. PICK o, v : o = Owner /\ v = Current
  OBVIOUS
<1>2. /\ stage = "targets" /\ lab' = lab /\ k' = k /\ Following("targets", IF k = 0 THEN "vnis" ELSE "node")
      /\ k \in 0..Len(lab.nodes) /\ Len(lab.nodes) \in Nat
  BY DEF SetImportExportRt, Typed, ControlOK, LabOK
<1>3. /\ o \in Owners /\ v \in Names(o) /\ SameNumbers /\ \A p \in Owners : p # o => SameOwner(p)
      /\ Names(o)' = Names(o) /\ \A w \in Names(o) : w # v => vrf'[o][w] = vrf[o][w]
  <2> DEFINE global == IF IsGlobal(v) THEN vrf[Topology][v] ELSE New
             e == [vrf[o][v] EXCEPT !.import = Targets(o, v, Said(o, v).import, global.import),
                                    !.export = Targets(o, v, Said(o, v).export, global.export)]
  <2>1. o \in Owners /\ v \in Names(o) /\ Updates(o, v, e) /\ SameNumbers
    BY <1>1, TargetsCell
  <2> HIDE DEF e
  <2>. QED
    BY <2>1 DEF Updates, SameOwner
<1>4. Owner' = o /\ Topology \in Owners
  BY <1>1, <1>2, OwnerKept DEF Owners
<1>5. k > 0 => o # Topology /\ o = lab.nodes[k] /\ k \in 1..Len(lab.nodes)
  <2>1. SUFFICES ASSUME k > 0 PROVE o # Topology /\ o = lab.nodes[k] /\ k \in 1..Len(lab.nodes)
    OBVIOUS
  <2>2. k \in 1..Len(lab.nodes) /\ o = lab.nodes[k]
    BY <1>1, <1>2, <2>1 DEF Owner
  <2>. QED
    BY <2>2, NodeFacts
<1>6. k = 0 => o = Topology
  BY <1>1 DEF Owner
<1>7. o # Topology => AllSettled(Topology)
  BY <1>2, <1>6 DEF TopologySettled, AllSettled
<1>8. Settled(o, v)'
  BY <1>1, <1>7, TargetsSettle DEF AllSettled
<1>9. ASSUME NEW w \in Names(o), Settled(o, w)
      PROVE  Settled(o, w)'
  <2>1. CASE w = v
    BY <1>8, <2>1
  <2>2. CASE w # v
    <3>1. \A d \in Directions :
            /\ vrf'[o][w][d] = <<{RdFor(s) : s \in Wanted(o, w, d)}>>
            /\ \A s \in Wanted(o, w, d) : s \in Rds \/ Named(o, s)
      BY <1>3, <1>9, <2>2 DEF Settled, Obeys
    <3>2. \A p \in {Topology, o} : \A x \in Names(p) : x \in Names(p)' /\ SameCell(p, x)
      BY <1>3, <1>4 DEF SameNumbers
    <3>. QED
      BY <1>2, <1>3, <3>1, <3>2, SettledSoon
  <2>. QED
    BY <2>1, <2>2
<1>10. ASSUME NEW w \in Names(o), w = v \/ w \notin todo
       PROVE  Settled(o, w)'
  <2>1. CASE w = v
    BY <1>8, <2>1
  <2>2. CASE w # v
    BY <1>1, <1>2, <1>9, <1>10, <2>2 DEF OwnerSettled
  <2>. QED
    BY <2>1, <2>2
<1>11. OwnerSettled'
  <2>1. SUFFICES ASSUME stage' = "targets", NEW w \in Names(o) \ todo' PROVE Settled(o, w)'
    BY <1>3, <1>4 DEF OwnerSettled
  <2>2. w = v \/ w \notin todo
    BY <1>1, <1>2, <1>3, <2>1 DEF Following
  <2>. QED
    BY <1>10, <2>1, <2>2
<1>12. stage' # "targets" => AllSettled(o)'
  <2>1. SUFFICES ASSUME stage' # "targets", NEW w \in Names(o) PROVE Settled(o, w)'
    BY <1>3 DEF AllSettled
  <2>2. w = v \/ w \notin todo
    BY <1>1, <1>2, <2>1 DEF Following
  <2>. QED
    BY <1>10, <2>1, <2>2
<1>13. ASSUME NEW p \in Owners, p # o, AllSettled(p), o # Topology
       PROVE  AllSettled(p)'
  BY <1>2, <1>3, <1>4, <1>13, OwnerStays
<1>14. stage' \in {"targets"} \cup (IF k = 0 THEN {"vnis"} ELSE {"node"})
  BY <1>2 DEF Following
<1>15. TopologySettled'
  <2>1. SUFFICES ASSUME k > 0 \/ stage' # "targets" PROVE AllSettled(Topology)'
    BY <1>2, <1>14 DEF TopologySettled, AllSettled, Late
  <2>2. CASE k > 0
    BY <1>4, <1>5, <1>7, <1>13, <2>2
  <2>3. CASE k = 0
    BY <1>2, <1>6, <1>12, <2>1, <2>3
  <2>. QED
    BY <1>2, <2>2, <2>3
<1>16. NodesSettled'
  <2>1. SUFFICES ASSUME NEW i \in 1..Len(lab.nodes), Served(i)', NEW n, n = lab.nodes[i] PROVE AllSettled(n)'
    BY <1>2 DEF NodesSettled, AllSettled
  <2>2. n \in Owners /\ (i < k \/ (i = k /\ stage' = "node"))
    BY <1>2, <1>14, <2>1, NodeFacts DEF Served, Late
  <2>3. CASE i < k
    <3>1. Served(i)
      BY <1>2, <2>3 DEF Served
    <3>2. AllSettled(n) /\ n # o
      BY <1>1, <2>1, <2>3, <3>1, NodeFacts DEF NodesSettled, AllSettled
    <3>. QED
      BY <1>2, <1>5, <1>13, <2>2, <2>3, <3>2
  <2>4. CASE i = k /\ stage' = "node"
    BY <1>2, <1>5, <1>12, <2>1, <2>4
  <2>. QED
    BY <2>2, <2>3, <2>4
<1>. QED
  BY <1>11, <1>15, <1>16

\* A node that gets the VRFs of its VLANs has no targets yet.
LEMMA PullSettled ==
  ASSUME Typed, PullVrfs, TopologySettled, NodesSettled
  PROVE  OwnerSettled' /\ TopologySettled' /\ NodesSettled'
<1>1. PICK o : o = lab.nodes[k + 1]
  OBVIOUS
<1>2. /\ o \in Nodes /\ o \in Owners /\ o # Topology /\ lab' = lab
      /\ Names(o)' = Names(o) \cup lab.pulled[o]
  BY <1>1, PullCells
<1>3. \A p \in Owners : p # o => SameOwner(p)
  BY <1>1, PullFacts DEF SameOwner, Names
<1>4. /\ stage = "node" /\ k' = k + 1 /\ k \in Nat /\ Len(lab.nodes) \in Nat /\ k < Len(lab.nodes)
      /\ stage' \in {"node", "ids"} /\ (stage' = "node" => Names(o)' = {})
  <2>1. k \in 0..Len(lab.nodes) /\ Len(lab.nodes) \in Nat
    BY DEF Typed, ControlOK, LabOK
  <2>2. stage' = IF Names(o) \cup lab.pulled[o] = {} THEN "node" ELSE "ids"
    BY <1>1 DEF PullVrfs
  <2>3. stage = "node" /\ k' = k + 1 /\ k < Len(lab.nodes)
    BY DEF PullVrfs
  <2>. QED
    BY <1>2, <2>1, <2>2, <2>3
<1>5. ASSUME NEW i \in 1..Len(lab.nodes), Served(i)'
      PROVE  (lab.nodes[i] # o \/ Names(o)' = {}) /\ (lab.nodes[i] # o => Served(i) /\ o # Topology)
  <2>1. i < k + 1 \/ (i = k + 1 /\ stage' = "node")
    BY <1>4, <1>5 DEF Served, Late
  <2>2. CASE i < k + 1
    <3>1. Served(i)
      BY <1>4, <2>2 DEF Served
    <3>2. lab.nodes[i] # lab.nodes[k + 1]
      <4>1. \A j \in 1..Len(lab.nodes) : lab.nodes[i] = lab.nodes[j] => i = j
        BY DEF Typed, LabOK
      <4>2. k + 1 \in 1..Len(lab.nodes) /\ i # k + 1
        BY <1>4, <2>2
      <4>. QED
        BY <4>1, <4>2
    <3>. QED
      BY <1>1, <1>2, <3>1, <3>2
  <2>3. CASE i = k + 1 /\ stage' = "node"
    BY <1>1, <1>4, <2>3
  <2>. QED
    BY <2>1, <2>2, <2>3
<1>6. OwnerSettled'
  BY <1>4 DEF OwnerSettled
<1>7. TopologySettled' /\ NodesSettled'
  BY <1>2, <1>3, <1>4, <1>5, OthersSettled
<1>. QED
  BY <1>6, <1>7

\* A node that gets a global VRF gets its targets; one without VRFs in use loses all.
LEMMA UseSettled ==
  ASSUME Typed, Defined, MergeGlobalVrfs \/ CheckVrfs, TopologySettled, NodesSettled
  PROVE  OwnerSettled' /\ TopologySettled' /\ NodesSettled'
<1>1. /\ lab' = lab /\ stage \in {"shared", "check"} /\ stage' \in {"check", "done", "aborted"}
      /\ Topology \in Owners /\ Names(Topology) = DOMAIN lab.vrfs[Topology]
  BY DEF MergeGlobalVrfs, CheckVrfs, Owners, Typed, WorkOK
<1>2. /\ \A o \in Owners : o # Topology => \A v \in Names(o)' :
           (v \in Names(o) /\ vrf'[o][v] = vrf[o][v]) \/ (v \in Names(Topology) /\ v \notin Names(o) /\ vrf'[o][v] = vrf[Topology][v])
      /\ \A o \in Owners : o = Topology \/ MergeGlobalVrfs \/ Names(o)' # {} => Names(o) \subseteq Names(o)' /\ \A v \in Names(o) : vrf'[o][v] = vrf[o][v]
      /\ SameOwner(Topology)
  <2>1. CASE MergeGlobalVrfs
    <3> DEFINE InUse(n) == Names(n) \cup (lab.used[n] \cap Names(Topology))
    <3>1. \A o \in Owners : vrf'[o] = IF o = Topology THEN vrf[o]
                                  ELSE [v \in InUse(o) |-> IF v \in Names(o) THEN vrf[o][v] ELSE vrf[Topology][v]]
      BY <2>1, Zenon DEF MergeGlobalVrfs
    <3>2. ASSUME NEW o \in Owners, o # Topology
          PROVE  Names(o)' = InUse(o) /\ \A v \in InUse(o) : vrf'[o][v] = IF v \in Names(o) THEN vrf[o][v] ELSE vrf[Topology][v]
      <4>1. vrf'[o] = [v \in InUse(o) |-> IF v \in Names(o) THEN vrf[o][v] ELSE vrf[Topology][v]]
        BY <3>1, <3>2
      <4> HIDE DEF InUse
      <4>. QED
        BY <4>1 DEF Names
    <3>3. SameOwner(Topology)
      BY <1>1, <3>1 DEF SameOwner, Names
    <3>. QED
      BY <3>2, <3>3 DEF SameOwner
  <2>2. CASE CheckVrfs
    <3>1. \A o \in Owners : vrf'[o] = IF o # Topology /\ lab.used[o] = {} THEN Empty ELSE vrf[o]
      BY <2>2 DEF CheckVrfs
    <3>2. DOMAIN Empty = {}
      BY DEF Empty
    <3>3. SameOwner(Topology)
      BY <1>1, <3>1 DEF SameOwner, Names
    <3>4. ASSUME NEW o \in Owners
          PROVE  Names(o)' = {} \/ vrf'[o] = vrf[o]
      BY <3>1, <3>2 DEF Names
    <3>5. ~MergeGlobalVrfs
      BY <2>2 DEF CheckVrfs, MergeGlobalVrfs
    <3>. QED
      BY <3>3, <3>4, <3>5 DEF SameOwner, Names
  <2>. QED
    BY <2>1, <2>2
<1>3. OwnerSettled'
  BY <1>1 DEF OwnerSettled
<1>4. AllSettled(Topology) /\ \A i \in 1..Len(lab.nodes) : AllSettled(lab.nodes[i])
  BY <1>1 DEF TopologySettled, NodesSettled, Served, Late, AllSettled
<1>5. TopologySettled'
  BY <1>1, <1>2, <1>4, OwnerStays DEF TopologySettled, AllSettled
<1>6. NodesSettled'
  <2>1. SUFFICES ASSUME NEW i \in 1..Len(lab.nodes), NEW n, n = lab.nodes[i], NEW v \in Names(n)'
                 PROVE  Settled(n, v)'
    BY <1>1 DEF NodesSettled
  <2>2. n \in Owners /\ n # Topology
    BY <2>1, NodeFacts
  <2>3. \A p \in {Topology, n} : \A w \in Names(p) : w \in Names(p)' /\ SameCell(p, w)
    BY <1>1, <1>2, <2>1, <2>2 DEF SameCell
  <2>4. CASE v \in Names(n) /\ vrf'[n][v] = vrf[n][v]
    <3>1. Settled(n, v)
      BY <1>4, <2>1, <2>4 DEF AllSettled
    <3>2. \A d \in Directions :
            /\ vrf'[n][v][d] = <<{RdFor(s) : s \in Wanted(n, v, d)}>>
            /\ \A s \in Wanted(n, v, d) : s \in Rds \/ Named(n, s)
      BY <2>4, <3>1 DEF Settled, Obeys
    <3>. QED
      BY <1>1, <2>2, <2>3, <3>2, SettledSoon
  <2>5. CASE v \in Names(Topology) /\ v \notin Names(n) /\ vrf'[n][v] = vrf[Topology][v]
    <3>1. Settled(Topology, v)
      BY <1>4, <2>5 DEF AllSettled
    <3>2. v \notin DOMAIN lab.vrfs[n]
      BY <1>1, <2>2, <2>5 DEF Defined
    <3>3. ASSUME NEW d \in Directions
          PROVE  Wanted(n, v, d) = Wanted(Topology, v, d)
      <4>1. SaidOf(n, v, d) = Missing
        BY <3>2 DEF SaidOf, Said, New
      <4>. QED
        BY <1>1, <2>5, <4>1, WantedGlobal
    <3>4. \A s : Named(Topology, s) => Named(n, s)
      BY DEF Named
    <3>5. \A d \in Directions :
            /\ vrf'[n][v][d] = <<{RdFor(s) : s \in Wanted(n, v, d)}>>
            /\ \A s \in Wanted(n, v, d) : s \in Rds \/ Named(n, s)
      BY <2>5, <3>1, <3>3, <3>4 DEF Settled, Obeys
    <3>. QED
      BY <1>1, <2>2, <2>3, <3>5, SettledSoon
  <2>. QED
    BY <1>2, <2>1, <2>2, <2>4, <2>5
<1>. QED
  BY <1>3, <1>5, <1>6

\* The hooks about VLANs and VNIs leave targets alone.
LEMMA HooksSettled ==
  ASSUME Typed, ControlOK', Hooks, stage' # "aborted", TopologySettled, NodesSettled
  PROVE  OwnerSettled' /\ TopologySettled' /\ NodesSettled'
<1>1. UNCHANGED <<lab, vrf>>
  BY DEF Hooks, EndOfNodes, RegisterStaticVnis, AssignVni, AssignVnisOfNode, EndOfVlans, SetTransitVni, EndOfTransit, ShareTransitVni
<1>2. /\ stage \in {"node", "vnis", "vlans", "transit", "shared"} /\ stage' \in {"node", "vlans", "transit", "shared"}
      /\ stage' = "node" => stage = "vnis" /\ k' = k /\ k = 0
      /\ stage = "node" => k = Len(lab.nodes)
      /\ stage = "vnis" => stage' = "node"
  BY DEF Typed, WorkOK, Hooks, EndOfNodes, RegisterStaticVnis, AssignVni, AssignVnisOfNode, EndOfVlans, SetTransitVni, EndOfTransit, ShareTransitVni
<1>3. Len(lab.nodes) \in Nat
  BY DEF Typed, LabOK
<1>4. ASSUME NEW i \in 1..Len(lab.nodes), Served(i)'
      PROVE  Served(i)
  <2>1. CASE stage' = "node"
    BY <1>2, <1>3, <1>4, <2>1 DEF Served, Late
  <2>2. CASE stage' # "node"
    <3>1. stage = "node" \/ stage \in Late
      BY <1>2, <2>2 DEF Late
    <3>2. i < Len(lab.nodes) \/ i = Len(lab.nodes)
      BY <1>3
    <3>. QED
      BY <1>2, <3>1, <3>2 DEF Served
  <2>. QED
    BY <2>1, <2>2
<1>5. OwnerSettled'
  BY <1>2 DEF OwnerSettled
<1>6. k > 0 \/ stage \in {"vnis", "node"} \cup Late
  BY <1>2 DEF Late
<1>. QED
  BY <1>1, <1>4, <1>5, <1>6, SettledSame

\* An error stays, and ends the hooks of the nodes.
LEMMA ErrorsStay ==
  ASSUME Typed, Next \/ Quiet, stage' \in Late \/ ~failed'
  PROVE  (stage \in Late \/ ~failed) /\ (stage' = "aborted" => Quiet)
<1>1. CASE Quiet
  BY <1>1 DEF Quiet
<1>2. CASE PopulateVrfStaticIds \/ KeepOrInheritId \/ PullVrfs
  <2>1. failed' = failed /\ stage' \notin Late \cup {"aborted"}
    BY <1>2 DEF Late, PopulateVrfStaticIds, KeepOrInheritId, Following, PullVrfs
  <2>. QED
    BY <2>1
<1>3. CASE GenerateId
  <2>1. (failed' = failed \/ failed' = TRUE) /\ stage' \notin Late /\ (stage' = "aborted" => failed' = TRUE)
    BY <1>3 DEF Late, GenerateId, Following
  <2>. QED
    BY <2>1
<1>4. CASE SetImportExportRt \/ RegisterStaticVnis
  <2>1. stage' \notin Late \cup {"aborted"}
    BY <1>4 DEF Late, SetImportExportRt, RegisterStaticVnis, Following
  <2>2. failed => failed'
    BY <1>4 DEF SetImportExportRt, RegisterStaticVnis
  <2>. QED
    BY <2>1, <2>2
<1>5. CASE EndOfNodes
  <2>1. failed' = failed /\ stage' = IF failed THEN "aborted" ELSE "vlans"
    BY <1>5 DEF EndOfNodes
  <2>. QED
    BY <2>1 DEF Late
<1>6. CASE AssignVni \/ AssignVnisOfNode \/ EndOfVlans \/ SetTransitVni \/ EndOfTransit \/ ShareTransitVni
  <2>1. stage \in Late /\ stage' # "aborted"
    BY <1>6 DEF Late, AssignVni, AssignVnisOfNode, EndOfVlans, SetTransitVni, EndOfTransit, ShareTransitVni
  <2>. QED
    BY <2>1
<1>7. CASE MergeGlobalVrfs \/ CheckVrfs
  <2>1. stage \in Late /\ (stage' = "aborted" => failed')
    BY <1>7 DEF Late, MergeGlobalVrfs, CheckVrfs
  <2>. QED
    BY <2>1 DEF Late
<1>8. CASE NormalizeVrfIds
  <2>1. (failed => failed') /\ stage' \notin Late /\ (stage' = "aborted" => failed')
    BY <1>8 DEF Late, NormalizeVrfIds
  <2>. QED
    BY <1>8, <2>1
<1>. QED
  BY <1>1, <1>2, <1>3, <1>4, <1>5, <1>6, <1>7, <1>8 DEF Next

\* Every step keeps the targets.
LEMMA TargetsKeep ==
  ASSUME lab \in Labs, Typed, ControlOK', Progress, IdInv, MadeInv, TargetsInv, Next \/ Quiet
  PROVE  TargetsInv'
<1>1. lab' = lab
  BY DEF Next, Quiet, NormalizeVrfIds, PopulateVrfStaticIds, KeepOrInheritId, GenerateId, SetImportExportRt, PullVrfs, EndOfNodes,
         RegisterStaticVnis, AssignVni, AssignVnisOfNode, EndOfVlans, SetTransitVni, EndOfTransit, ShareTransitVni, MergeGlobalVrfs, CheckVrfs
<1>2. SUFFICES ASSUME NumbersClear, TargetsClear, stage' \in Late \/ ~failed' PROVE OwnerSettled' /\ TopologySettled' /\ NodesSettled'
  BY <1>1, GivenKept, SaysKept DEF TargetsInv
<1>3. (stage \in Late \/ ~failed) /\ (stage' = "aborted" => Quiet)
  BY <1>2, ErrorsStay
<1>4. OwnerSettled /\ TopologySettled /\ NodesSettled /\ Defined /\ AllMade /\ NumbersApart
  BY <1>2, <1>3 DEF TargetsInv, MadeInv, IdInv
<1>6. CASE Quiet
  <2>1. UNCHANGED <<lab, stage, k, todo, vrf>> /\ Owner' = Owner
    BY <1>6, OwnerKept DEF Quiet
  <2>2. \A i : Served(i)' => Served(i)
    BY <2>1 DEF Served
  <2>3. TopologySettled' /\ NodesSettled'
    BY <1>4, <2>1, <2>2, SettledSame
  <2>4. OwnerSettled'
    <3>1. \A o : SameOwner(o) /\ Names(o)' = Names(o)
      BY <2>1 DEF SameOwner, Names
    <3>2. Owner \in Owners
      BY OwnerFact DEF Typed, ControlOK
    <3>3. SUFFICES ASSUME stage = "targets", NEW o, o = Owner, NEW v \in Names(o) \ todo PROVE Settled(o, v)'
      BY <2>1, <3>1 DEF OwnerSettled
    <3>. QED
      BY <1>4, <2>1, <3>1, <3>2, <3>3, SettledKept DEF OwnerSettled
  <2>. QED
    BY <2>3, <2>4
<1>7. CASE Hooks
  <2>1. stage' # "aborted"
    <3>1. (stage' = (IF failed THEN "aborted" ELSE "vlans") /\ stage \notin Late) \/ stage' # "aborted"
      BY <1>7 DEF Hooks, Late, EndOfNodes, RegisterStaticVnis, AssignVni, AssignVnisOfNode, EndOfVlans, SetTransitVni, EndOfTransit, ShareTransitVni
    <3>. QED
      BY <1>3, <3>1
  <2>. QED
    BY <1>4, <1>7, <2>1, HooksSettled
<1>8. CASE MergeGlobalVrfs \/ CheckVrfs
  BY <1>4, <1>8, UseSettled
<1>9. CASE SetImportExportRt
  <2>1. ~failed'
    BY <1>2, <1>9 DEF SetImportExportRt, Following, Late
  <2>. QED
    BY <1>2, <1>4, <1>9, <2>1, TargetsSettled
<1>10. CASE KeepOrInheritId \/ GenerateId
  <2>1. stage' \in {"ids", "targets", "aborted"}
    BY <1>10 DEF KeepOrInheritId, GenerateId, Following
  <2>2. ~failed'
    BY <1>2, <2>1 DEF Late
  <2>. QED
    BY <1>4, <1>10, <2>2, IdsSettled
<1>11. CASE PullVrfs
  BY <1>4, <1>11, PullSettled
<1>12. CASE PopulateVrfStaticIds
  <2>1. UNCHANGED <<lab, vrf, k>> /\ stage = "register" /\ stage' = "ids" /\ k = 0
    BY <1>12 DEF PopulateVrfStaticIds, Typed, WorkOK
  <2>2. \A i \in 1..Len(lab.nodes) : Served(i)' => Served(i)
    BY <2>1 DEF Served, Late
  <2>3. TopologySettled' /\ NodesSettled'
    BY <1>4, <2>1, <2>2, SettledSame DEF Late
  <2>. QED
    BY <2>1, <2>3 DEF OwnerSettled
<1>13. CASE NormalizeVrfIds
  <2>1. k' = 0 /\ stage' \in {"register", "vnis", "aborted"} /\ (stage' = "vnis" => ~HasGlobals)
    BY <1>13 DEF NormalizeVrfIds, Typed, WorkOK
  <2>2. stage' = "vnis" => Names(Topology)' = {}
    BY <1>13, <2>1, NormalizeCells DEF HasGlobals, Owners
  <2>3. TopologySettled'
    BY <2>1, <2>2 DEF TopologySettled, Late
  <2>4. \A i \in 1..Len(lab.nodes)' : ~Served(i)'
    BY <2>1 DEF Served, Late
  <2>. QED
    BY <2>1, <2>3, <2>4 DEF OwnerSettled, NodesSettled
<1>. QED
  BY <1>6, <1>7, <1>8, <1>9, <1>10, <1>11, <1>12, <1>13 DEF Next, Hooks

\* A lab at the start has no VRFs yet.
LEMMA TargetsStart ==
  ASSUME Init
  PROVE  MadeInv /\ TargetsInv
<1>1. stage = "normalize" /\ k = 0 /\ \A o \in Owners : Names(o) = {}
  BY DEF Init, Names, Empty
<1>2. Defined /\ AllMade
  BY <1>1 DEF Defined, AllMade
<1>3. OwnerSettled /\ TopologySettled
  BY <1>1 DEF OwnerSettled, TopologySettled, Late
<1>4. \A i \in 1..Len(lab.nodes) : ~Served(i)
  BY <1>1 DEF Served, Late
<1>. QED
  BY <1>2, <1>3, <1>4 DEF MadeInv, TargetsInv, NodesSettled

-----------------------------------------------------------------------------
(* Routes *)

\* A named symbol stands for the rd of a VRF, which is a generated one if the
\* symbol is none.
LEMMA NamedRd ==
  ASSUME Typed, Progress, AllMade, TargetsClear, stage = "done", NEW o \in Owners, NEW s, s \notin Rds, Named(o, s)
  PROVE  \E p \in Owners : \E w \in Names(p) :
           /\ s = Symbol(p, w) /\ IsOwn(p, w) /\ RdFor(s) = vrf[p][w].rd
           /\ MadeUp(p, vrf[p][w].rd) /\ vrf[p][w].rd[2] \in Numbers(p, w)
<1>1. PICK p \in {Topology, o} : \E w \in Names(p) : s = Symbol(p, w) /\ IsOwn(p, w)
  BY DEF Named
<1>2. PICK w \in Names(p) : s = Symbol(p, w) /\ IsOwn(p, w)
  BY <1>1
<1>3. p \in Owners
  BY <1>1 DEF Owners
<1>4. HasNumbers(p, w)
  <2>1. CASE p = Topology
    BY <1>2, <2>1 DEF Progress, TopologyDone
  <2>2. CASE p # Topology
    <3>1. PICK i \in 1..Len(lab.nodes) : p = lab.nodes[i]
      BY <1>3, <2>2 DEF Typed, LabOK, Owners
    <3>. QED
      BY <1>2, <3>1 DEF Progress, NodesDone, Over, Late
  <2>. QED
    BY <2>1, <2>2
<1>5. RdFor(s) = vrf[p][w].rd /\ vrf[p][w].rd # EmptyRd /\ vrf[p][w].rd # NoRd
  BY <1>2, <1>3, <1>4, SymbolRd DEF HasNumbers
<1>6. ~Usable(SaidRd(p, w))
  BY <1>2, <1>3, SymbolFact
<1>7. MadeUp(p, vrf[p][w].rd)
  BY <1>2, <1>3, <1>5, <1>6 DEF AllMade, Made
<1>8. vrf[p][w].rd[2] \in Numbers(p, w)
  BY <1>7 DEF MadeUp, Numbers
<1>. QED
  BY <1>2, <1>3, <1>5, <1>7, <1>8

\* An rd that a VRF asks for is a given one, or none that could be generated.
LEMMA WantedRd ==
  ASSUME Typed, TargetsClear, NEW o \in Owners, NEW v, NEW d \in Directions, NEW s \in Wanted(o, v, d), s \in Rds
  PROVE  s \in GivenRds \/ (\A p \in Owners : s[1] # lab.as[p]) \/ s[2] > MaxVrfId
<1>1. PICK p \in Owners : AskedOf(p, s)
  BY WantedFact DEF Owners
<1>2. CASE \E w : s = Symbol(p, w)
  <2>1. PICK w : s = Symbol(p, w)
    BY <1>2
  <2>. QED
    BY <2>1, SymbolFact
<1>3. CASE \E t \in TargetsOf(p) : t.vrf = "" /\ s = Own(p, t.rt)
  <2>1. PICK t \in TargetsOf(p) : t.vrf = "" /\ s = Own(p, t.rt)
    BY <1>3
  <2>. QED
    BY <2>1 DEF TargetsClear
<1>. QED
  BY <1>1, <1>2, <1>3 DEF AskedOf

\* What is asked for and what is generated do not meet.
LEMMA WantedMade ==
  ASSUME Typed, TargetsClear, NEW o \in Owners, NEW v, NEW d \in Directions, NEW s \in Wanted(o, v, d), s \in Rds, NEW p \in Owners
  PROVE  ~MadeUp(p, s)
<1>1. SUFFICES ASSUME MadeUp(p, s) PROVE FALSE
  OBVIOUS
<1>2. s \notin GivenRds /\ s[1] = lab.as[p] /\ s[2] \in 1..MaxVrfId
  BY <1>1 DEF MadeUp
<1>3. ~(s[2] > MaxVrfId)
  BY <1>2, BoundsAssumption
<1>. QED
  BY <1>2, <1>3, WantedRd

\* Different symbols stand for different rds.
LEMMA SymbolsApart ==
  ASSUME Typed, Progress, NumbersApart, AllMade, TargetsClear, stage = "done",
         NEW n \in Owners, NEW v, NEW d \in Directions, NEW s \in Wanted(n, v, d), s \in Rds \/ Named(n, s),
         NEW m \in Owners, NEW w, NEW e \in Directions, NEW t \in Wanted(m, w, e), t \in Rds \/ Named(m, t),
         RdFor(s) = RdFor(t)
  PROVE  s = t
<1>1. CASE s \in Rds /\ t \in Rds
  BY <1>1 DEF RdFor
<1>2. CASE s \in Rds /\ t \notin Rds
  <2>1. PICK p \in Owners : \E x \in Names(p) : RdFor(t) = vrf[p][x].rd /\ MadeUp(p, vrf[p][x].rd)
    BY <1>2, NamedRd
  <2>2. RdFor(s) = s
    BY <1>2 DEF RdFor
  <2>. QED
    BY <1>2, <2>1, <2>2, WantedMade
<1>3. CASE s \notin Rds /\ t \in Rds
  <2>1. PICK p \in Owners : \E x \in Names(p) : RdFor(s) = vrf[p][x].rd /\ MadeUp(p, vrf[p][x].rd)
    BY <1>3, NamedRd
  <2>2. RdFor(t) = t
    BY <1>3 DEF RdFor
  <2>. QED
    BY <1>3, <2>1, <2>2, WantedMade
<1>4. CASE s \notin Rds /\ t \notin Rds
  <2>1. PICK p \in Owners : \E x \in Names(p) : s = Symbol(p, x) /\ IsOwn(p, x) /\ RdFor(s) = vrf[p][x].rd /\ vrf[p][x].rd[2] \in Numbers(p, x)
    BY <1>4, NamedRd
  <2>2. PICK x \in Names(p) : s = Symbol(p, x) /\ IsOwn(p, x) /\ RdFor(s) = vrf[p][x].rd /\ vrf[p][x].rd[2] \in Numbers(p, x)
    BY <2>1
  <2>3. PICK q \in Owners : \E y \in Names(q) : t = Symbol(q, y) /\ IsOwn(q, y) /\ RdFor(t) = vrf[q][y].rd /\ vrf[q][y].rd[2] \in Numbers(q, y)
    BY <1>4, NamedRd
  <2>4. PICK y \in Names(q) : t = Symbol(q, y) /\ IsOwn(q, y) /\ RdFor(t) = vrf[q][y].rd /\ vrf[q][y].rd[2] \in Numbers(q, y)
    BY <2>3
  <2>5. Numbers(p, x) \cap Numbers(q, y) # {}
    BY <2>2, <2>4
  <2>6. One(p, x, q, y)
    BY <2>5 DEF NumbersApart, Apart
  <2>7. x = y /\ p = q
    BY <2>2, <2>4, <2>6 DEF One, IsOwn
  <2>. QED
    BY <2>2, <2>4, <2>7
<1>. QED
  BY <1>1, <1>2, <1>3, <1>4

\* Settled targets of rds that stay apart send the routes where the lab says.
LEMMA SettledRoutes ==
  ASSUME Typed, Progress, IdInv, MadeInv, TargetsInv
  PROVE  RoutesGoAsTold
<1>1. SUFFICES ASSUME Finished, NumbersClear, TargetsClear, NEW n \in Nodes, NEW m \in Nodes, NEW v \in lab.used[n], NEW w \in lab.used[m]
               PROVE  (vrf[n][v].export[1] \cap vrf[m][w].import[1] # {})
                         = (Wanted(n, v, "export") \cap Wanted(m, w, "import") # {})
  BY DEF RoutesGoAsTold
<1>2. stage = "done" /\ NumbersApart /\ AllMade /\ NodesSettled
  BY <1>1 DEF Finished, IdInv, MadeInv, TargetsInv, Late
<1>3. ASSUME NEW p \in Nodes, NEW x \in lab.used[p]
      PROVE  p \in Owners /\ Settled(p, x)
  <2>1. PICK i \in 1..Len(lab.nodes) : p = lab.nodes[i]
    BY DEF Typed, LabOK
  <2>2. x \in Names(p)
    BY <1>2, <1>3 DEF Progress, UsedKnown
  <2>. QED
    BY <1>2, <2>1, <2>2 DEF NodesSettled, Served, Late, Owners
<1> DEFINE S == Wanted(n, v, "export")
           T == Wanted(m, w, "import")
<1>4. /\ vrf[n][v].export = <<{RdFor(s) : s \in S}>>
      /\ vrf[m][w].import = <<{RdFor(t) : t \in T}>>
      /\ \A s \in S : s \in Rds \/ Named(n, s)
      /\ \A t \in T : t \in Rds \/ Named(m, t)
  BY <1>3 DEF Settled, Obeys, Directions
<1>5. ASSUME NEW s \in S, NEW t \in T, RdFor(s) = RdFor(t)
      PROVE  s = t
  BY <1>1, <1>2, <1>3, <1>4, <1>5, SymbolsApart DEF Directions
<1> HIDE DEF S, T
<1>6. vrf[n][v].export[1] = {RdFor(s) : s \in S} /\ vrf[m][w].import[1] = {RdFor(t) : t \in T}
  BY <1>4
<1>7. ({RdFor(s) : s \in S} \cap {RdFor(t) : t \in T} # {}) <=> (S \cap T # {})
  BY <1>5
<1>8. (vrf[n][v].export[1] \cap vrf[m][w].import[1] # {}) <=> (S \cap T # {})
  BY <1>6, <1>7
<1>. QED
  BY <1>8 DEF S, T

-----------------------------------------------------------------------------
(* Flooding and routing between VLANs *)

\* What FabricAssumption says of the lab at hand.
FabricOK ==
  /\ lab.vxlan \cup lab.evpn \subseteq Nodes
  /\ \A n \in Nodes : lab.on[n] \subseteq GlobalVlans /\ DOMAIN lab.vlans[n] \cap GlobalVlans = {}
  /\ lab.bundle \subseteq DOMAIN lab.vrfs[Topology]
  /\ \A v \in GlobalVlans \cup DOMAIN lab.vrfs[Topology] : lab.evi[v] \in Nat
  /\ \A v \in GlobalVlans : \A said \in {lab.rts[v].import, lab.rts[v].export} : said # Missing => said[1] \subseteq Nat \X Nat
  /\ EvpnAs \in Nat /\ \A n \in Nodes : lab.addressed[n] \subseteq lab.used[n]

\* The lab at hand is one of the labs.
LEMMA FabricFacts ==
  ASSUME lab \in Labs
  PROVE  FabricOK
<1>1. lab.topoAs \in [evpn : Nat, vrf : Nat, bgp : Nat]
  BY FabricAssumption
<1>2. EvpnAs \in Nat
  BY <1>1 DEF EvpnAs
<1>. QED
  BY <1>2, FabricAssumption DEF FabricOK, Nodes, GlobalVlans

\* A VLAN on a node is one of the VLANs, of the node or the topology.
Home(n, v) == <<IF v \in DOMAIN lab.vlans[n] THEN n ELSE Topology, v>>

\* Where the VNI of a VLAN on a node comes from.
LEMMA HomeFact ==
  ASSUME Typed, FabricOK, NEW n \in Nodes, NEW v \in VlansOf(n)
  PROVE  /\ Home(n, v) \in AllVlans /\ Vni(Home(n, v)) \in Int
         /\ VniOf(n, v) = Vni(Home(n, v)) /\ GivenVni(n, v) = StatedVni(Home(n, v))
         /\ v \in GlobalVlans <=> Home(n, v) = <<Topology, v>>
<1> DEFINE o == IF v \in DOMAIN lab.vlans[n] THEN n ELSE Topology
<1>1. o \in Owners /\ v \in DOMAIN lab.vlans[o] /\ (v \in GlobalVlans <=> o = Topology)
  <2>1. n \in Owners /\ Topology \in Owners /\ n # Topology
    BY DEF Owners, Typed, LabOK
  <2>. QED
    BY <2>1 DEF FabricOK, VlansOf, GlobalVlans
<1>2. Home(n, v) = <<o, v>>
  BY DEF Home
<1>3. VniOf(n, v) = vlanVni[o][v] /\ GivenVni(n, v) = lab.vlans[o][v].vni
  BY DEF VniOf, GivenVni
<1> HIDE DEF o
<1>4. <<o, v>> \in AllVlans
  BY <1>1 DEF AllVlans, Typed, LabOK
<1>5. Vni(<<o, v>>) \in Int
  BY <1>1 DEF Vni, Typed, VnisOK
<1>. QED
  BY <1>1, <1>2, <1>3, <1>4, <1>5 DEF Vni, StatedVni

\* The VNIs given by the lab are there at the start.
LEMMA FabricStarts ==
  ASSUME OverlayInit
  PROVE  FabricInv
<1>1. vlanVni = [o \in Owners |-> [v \in DOMAIN lab.vlans[o] |-> lab.vlans[o][v].vni]] /\ turn = "lists"
  BY DEF OverlayInit, Init
<1>2. GivenKeptVnis
  BY <1>1 DEF GivenKeptVnis, AllVlans, Vni, StatedVni
<1>. QED
  BY <1>1, <1>2 DEF FabricInv, TurnsInOrder, VtepsSet, FloodsSet, IrbChecked

\* No VNI given by the lab is replaced.
LEMMA GivenVnisKeep ==
  ASSUME lab \in Labs, Typed, GivenKeptVnis, Next \/ Quiet
  PROVE  GivenKeptVnis'
<1>1. AllVlans' = AllVlans /\ \A s : StatedVni(s)' = StatedVni(s)
  <2>1. lab' = lab
    BY TypesKeep, TypeParts DEF Typed
  <2>. QED
    BY <2>1, LabKept DEF StatedVni
<1>2. SUFFICES ASSUME NEW s \in AllVlans, Vni(s) \notin {NoVni, AutoVni}
               PROVE  Vni(s)' = Vni(s)
  BY <1>1 DEF GivenKeptVnis
<1>3. CASE vlanVni' = vlanVni
  BY <1>3 DEF Vni
<1>4. CASE AssignVni
  <2>1. PICK o, v, vni :
            \/ vlanVni[o][v] \in {NoVni, AutoVni} /\ vlanVni' = [vlanVni EXCEPT ![o][v] = vni]
            \/ vlanVni' = vlanVni
    BY <1>4 DEF AssignVni
  <2>2. CASE vlanVni[o][v] \in {NoVni, AutoVni} /\ vlanVni' = [vlanVni EXCEPT ![o][v] = vni]
    <3>1. s[1] # o \/ s[2] # v
      BY <1>2, <2>2 DEF Vni
    <3>2. vlanVni'[s[1]][s[2]] = vlanVni[s[1]][s[2]]
      BY <2>2, <3>1
    <3>. QED
      BY <3>2 DEF Vni
  <2>. QED
    BY <1>3, <2>1, <2>2
<1>5. CASE Next /\ ~AssignVni
  <2>1. vlanVni' = vlanVni
    BY <1>5 DEF Next, NormalizeVrfIds, PopulateVrfStaticIds, KeepOrInheritId, GenerateId, SetImportExportRt, PullVrfs,
       EndOfNodes, RegisterStaticVnis, AssignVnisOfNode, EndOfVlans, SetTransitVni, EndOfTransit, ShareTransitVni, MergeGlobalVrfs, CheckVrfs
  <2>. QED
    BY <1>3, <2>1
<1>. QED
  BY <1>3, <1>4, <1>5 DEF Quiet

\* VLANs, VNIs and lists stay while the lab and the VNIs do.
LEMMA FabricSays ==
  ASSUME UNCHANGED <<lab, vlanVni>>
  PROVE  /\ Nodes' = Nodes
         /\ \A n : VlansOf(n)' = VlansOf(n)
         /\ \A n, v : VniOf(n, v)' = VniOf(n, v)
         /\ vtep' = vtep => \A n, v : Flooded(n, v)' = Flooded(n, v)
<1>1. Nodes' = Nodes /\ \A n : VlansOf(n)' = VlansOf(n)
  BY LabKept DEF VlansOf
<1>2. \A n, v : VniOf(n, v)' = VniOf(n, v)
  BY DEF VniOf
<1>3. ASSUME vtep' = vtep, NEW n, NEW v
      PROVE  Flooded(n, v)' = Flooded(n, v)
  <2>1. VtepList(n, v)' = VtepList(n, v)
    BY <1>1, <1>2, <1>3 DEF VtepList
  <2>. QED
    BY <1>2, <1>3, <2>1 DEF Flooded
<1>. QED
  BY <1>1, <1>2, <1>3

\* VTEPs and lists stay.
LEMMA FabricSame ==
  ASSUME UNCHANGED <<lab, vlanVni, vtep, flood>>, failed => failed', VtepsSet, FloodsSet,
         turn' \in {"nodes", "end"} => turn \in {"nodes", "end"},
         turn' \in {"floods", "nodes", "end"} => turn \in {"floods", "nodes", "end"}
  PROVE  VtepsSet' /\ FloodsSet'
<1>1. VtepsSet'
  BY FabricSays DEF VtepsSet
<1>2. FloodsSet'
  BY FabricSays DEF FloodsSet
<1>. QED
  BY <1>1, <1>2

\* A step of the identifiers does not disturb VXLAN and EVPN.
LEMMA IdsKeepFabric ==
  ASSUME lab \in Labs, Typed, TurnsInOrder, VtepsSet, FloodsSet, IrbChecked, Next, UNCHANGED overlayVars, ~OverlayTurn
  PROVE  TurnsInOrder' /\ VtepsSet' /\ FloodsSet' /\ IrbChecked'
<1>1. lab' = lab /\ UNCHANGED <<turn, vtep, flood>>
  BY TypesKeep, TypeParts DEF Typed, overlayVars
<1>2. CASE turn \notin {"floods", "nodes", "end"}
  BY <1>1, <1>2 DEF TurnsInOrder, VtepsSet, FloodsSet, IrbChecked
<1>3. CASE turn \in {"floods", "nodes", "end"}
  <2>1. stage \in {"check", "aborted"} \/ turn = "end"
    BY <1>3 DEF TurnsInOrder, OverlayTurn
  <2>2. stage \in {"check", "done", "aborted"} /\ (turn # "nodes" => stage # "check")
    BY <1>3 DEF TurnsInOrder, OverlayTurn
  <2>3. CheckVrfs
    BY <2>2 DEF Next, NormalizeVrfIds, PopulateVrfStaticIds, KeepOrInheritId, GenerateId, SetImportExportRt, PullVrfs,
       EndOfNodes, RegisterStaticVnis, AssignVni, AssignVnisOfNode, EndOfVlans, SetTransitVni, EndOfTransit, ShareTransitVni, MergeGlobalVrfs
  <2>4. stage = "check" /\ vlanVni' = vlanVni /\ stage' \in {"done", "aborted"} /\ (failed => failed')
    BY <2>3 DEF CheckVrfs
  <2>5. turn = "nodes"
    BY <1>3, <2>2, <2>4 DEF TurnsInOrder
  <2>6. VtepsSet' /\ FloodsSet'
    BY <1>1, <2>4, FabricSame
  <2>. QED
    BY <1>1, <2>4, <2>5, <2>6 DEF TurnsInOrder, IrbChecked
<1>. QED
  BY <1>2, <1>3

\* node_set_vtep: a node with a VLAN that has a VNI gets a VTEP, or an error.
LEMMA VtepsSoon ==
  ASSUME FabricOK, NodeSetVtep
  PROVE  VtepsSet'
<1>1. /\ UNCHANGED <<lab, vlanVni>>
      /\ vtep' = [n \in Nodes |-> IF NeedsVtep(n) /\ ~NoVtep(n) THEN lab.address[n][VtepAf] ELSE ""]
      /\ failed' = (failed \/ \E n \in lab.vxlan : n \notin lab.linked \/ (NeedsVtep(n) /\ NoVtep(n)))
  BY DEF NodeSetVtep
<1>2. SUFFICES ASSUME ~failed', NEW n \in lab.vxlan, NEW v \in VlansOf(n), VniOf(n, v) > 0
               PROVE  vtep'[n] # ""
  BY <1>1, FabricSays DEF VtepsSet
<1>3. n \in lab.linked /\ ~(NeedsVtep(n) /\ NoVtep(n))
  BY <1>1, <1>2
<1>4. NeedsVtep(n)
  BY <1>2, <1>3 DEF NeedsVtep
<1>5. n \in Nodes
  BY DEF FabricOK
<1>. QED
  BY <1>1, <1>3, <1>4, <1>5 DEF NoVtep

\* A step of VXLAN or EVPN.
LEMMA OverlayKeepsFabric ==
  ASSUME FabricOK, TurnsInOrder, VtepsSet, FloodsSet, IrbChecked, OverlayTurn,
         ValidateEvpnLists \/ CreateVlanServices \/ NodeSetVtep \/ BuildVtepLists \/ EvpnNodes
  PROVE  TurnsInOrder' /\ VtepsSet' /\ FloodsSet' /\ IrbChecked'
<1>1. lab.vxlan \cup lab.evpn # {} /\ UNCHANGED <<lab, vlanVni, stage>>
  BY DEF OverlayTurn, ValidateEvpnLists, CreateVlanServices, NodeSetVtep, BuildVtepLists, EvpnNodes
<1>2. CASE ValidateEvpnLists \/ CreateVlanServices
  <2>1. turn' \in {"services", "vteps"}
    BY <1>2 DEF ValidateEvpnLists, CreateVlanServices
  <2>. QED
    BY <1>1, <2>1 DEF TurnsInOrder, VtepsSet, FloodsSet, IrbChecked
<1>3. CASE NodeSetVtep
  <2>1. turn' = "floods" /\ stage = "check"
    BY <1>3 DEF NodeSetVtep
  <2>2. VtepsSet'
    BY <1>3, VtepsSoon
  <2>. QED
    BY <1>1, <2>1, <2>2 DEF TurnsInOrder, FloodsSet, IrbChecked
<1>4. CASE BuildVtepLists
  <2>1. turn = "floods" /\ turn' = "nodes" /\ stage = "check" /\ UNCHANGED <<vtep, failed>>
    BY <1>4 DEF BuildVtepLists
  <2>2. VtepsSet'
    BY <1>1, <2>1, FabricSays DEF VtepsSet
  <2>3. flood' = [n \in Nodes |-> [v \in VlansOf(n) |-> Flooded(n, v)]]
    BY <1>4 DEF BuildVtepLists, Flooded
  <2>4. FloodsSet'
    BY <1>1, <2>1, <2>3, FabricSays DEF FloodsSet
  <2>. QED
    BY <1>1, <2>1, <2>2, <2>4 DEF TurnsInOrder, IrbChecked
<1>5. CASE EvpnNodes
  <2>1. /\ turn = "nodes" /\ stage = "done" /\ UNCHANGED <<vtep, flood, service, transit>>
        /\ failed' = (failed \/ \E n \in lab.evpn : NodeErrors(n))
        /\ turn' = IF failed' THEN "aborted" ELSE "end"
    BY <1>5 DEF EvpnNodes
  <2>2. (failed => failed') /\ turn' \in {"aborted", "end"} /\ (turn' = "end" => ~failed')
    BY <2>1
  <2>3. VtepsSet' /\ FloodsSet'
    BY <1>1, <2>1, <2>2, FabricSame
  <2>4. TurnsInOrder'
    BY <1>1, <2>1, <2>2 DEF TurnsInOrder
  <2>5. \A n : IrbErrors(n)' = IrbErrors(n)
    BY <1>1, <2>1, FabricSays DEF IrbErrors, Lacks, WithEvpn, GlobalVlans, HasOwnData
  <2>6. IrbChecked'
    <3>1. SUFFICES ASSUME ~failed', NEW n \in lab.evpn PROVE ~IrbErrors(n)
      BY <1>1, <2>2, <2>5 DEF IrbChecked
    <3>2. ~NodeErrors(n)
      BY <2>1, <3>1
    <3>. QED
      BY <3>2 DEF NodeErrors
  <2>. QED
    BY <2>3, <2>4, <2>6
<1>. QED
  BY <1>2, <1>3, <1>4, <1>5

\* Every step keeps the invariant of VXLAN and EVPN.
LEMMA FabricKeeps ==
  ASSUME lab \in Labs, Typed, FabricInv, [OverlayNext]_<<vars, overlayVars>>
  PROVE  FabricInv'
<1>1. GivenKeptVnis'
  BY OverlaySteps, GivenVnisKeep DEF FabricInv, Typed, ControlOK
<1>2. CASE OverlayNext /\ ~OverlayTurn
  <2>1. Next /\ UNCHANGED overlayVars
    BY <1>2 DEF OverlayNext
  <2>. QED
    BY <1>1, <1>2, <2>1, IdsKeepFabric DEF FabricInv
<1>3. CASE OverlayNext /\ OverlayTurn
  <2>1. ValidateEvpnLists \/ CreateVlanServices \/ NodeSetVtep \/ BuildVtepLists \/ EvpnNodes
    BY <1>3 DEF OverlayNext
  <2>. QED
    BY <1>1, <1>3, <2>1, OverlayKeepsFabric, FabricFacts DEF FabricInv
<1>4. CASE UNCHANGED <<vars, overlayVars>>
  <2>1. UNCHANGED <<lab, stage, failed, vlanVni, transit, turn, vtep, flood, service>>
    BY <1>4 DEF vars, overlayVars
  <2>2. VtepsSet' /\ FloodsSet'
    BY <2>1, FabricSame DEF FabricInv
  <2>3. \A n : IrbErrors(n)' = IrbErrors(n)
    BY <2>1, FabricSays DEF IrbErrors, Lacks, WithEvpn, GlobalVlans, HasOwnData
  <2>. QED
    BY <1>1, <2>1, <2>2, <2>3 DEF FabricInv, TurnsInOrder, IrbChecked
<1>. QED
  BY <1>2, <1>3, <1>4

\* Lists made of VNIs reach the nodes with the VLAN.
LEMMA FloodsFollow ==
  ASSUME Typed, FabricOK, VniInv, FabricInv
  PROVE  FloodsReachTheVlan
<1> DEFINE together(n, v, m) == \E w \in Stretched(m) : OneSegment(n, v, m, w) /\ lab.domain[n] = lab.domain[m]
           anycast(n, m) == \E x \in Nodes \ {n, m} : vtep[x] = vtep[m] /\ vtep[m] # "" /\ lab.domain[x] = lab.domain[n]
<1>1. SUFFICES ASSUME OverlayDone, NEW n \in Nodes, NEW m \in Nodes, Floods(n, m), NEW v \in Stretched(n)
               PROVE  /\ together(n, v, m) => vtep[m] \in flood[n][v]
                      /\ vtep[m] \in flood[n][v] => together(n, v, m) \/ anycast(n, m)
  BY DEF FloodsReachTheVlan
<1> HIDE DEF anycast, together
<1>2. turn = "end" /\ ~failed
  BY <1>1 DEF OverlayDone, FabricInv, TurnsInOrder
<1>3. v \in VlansOf(n) /\ VniOf(n, v) > 0 /\ n # m /\ n \in lab.static /\ n \in lab.vxlan /\ m \in lab.vxlan /\ vtep[m] # vtep[n]
  BY <1>1 DEF Stretched, Floods
<1>4. vtep[n] # "" /\ VniOf(n, v) # NoVni
  <2>1. vtep[n] # ""
    BY <1>2, <1>3 DEF FabricInv, VtepsSet
  <2>2. VniOf(n, v) \in Int
    BY <1>3, HomeFact
  <2>3. VniOf(n, v) # 0
    BY <1>3, <2>2
  <2>. QED
    BY <2>1, <2>3 DEF NoVni
<1>5. flood[n][v] = VtepList(n, v)
  BY <1>2, <1>3, <1>4 DEF FabricInv, FloodsSet, Flooded
<1>6. ASSUME NEW w \in VlansOf(m), VniOf(m, w) > 0
      PROVE  VniOf(m, w) = VniOf(n, v) <=> OneSegment(n, v, m, w)
  <2>1. /\ Home(n, v) \in Segments /\ Home(m, w) \in Segments
        /\ VniOf(n, v) = Vni(Home(n, v)) /\ VniOf(m, w) = Vni(Home(m, w))
        /\ GivenVni(n, v) = StatedVni(Home(n, v)) /\ GivenVni(m, w) = StatedVni(Home(m, w))
    BY <1>3, <1>6, HomeFact DEF Segments
  <2>2. ASSUME VniOf(m, w) = VniOf(n, v) PROVE OneSegment(n, v, m, w)
    <3>1. Home(n, v) = Home(m, w) \/ (StatedVni(Home(n, v)) > 0 /\ StatedVni(Home(n, v)) = StatedVni(Home(m, w)))
      BY <2>1, <2>2 DEF VniInv, SegmentsDiffer
    <3>2. CASE Home(n, v) = Home(m, w)
      <4>1. v = w
        BY <3>2 DEF Home
      <4>2. v \in GlobalVlans
        <5>1. v \in DOMAIN lab.vlans[n] => n # Topology /\ n \in {m, Topology}
          BY <3>2 DEF Home, Typed, LabOK
        <5>2. Home(n, v) = <<Topology, v>>
          BY <1>3, <5>1 DEF Home
        <5>. QED
          BY <1>3, <5>2, HomeFact
      <4>. QED
        BY <4>1, <4>2 DEF OneSegment
    <3>. QED
      BY <2>1, <3>1, <3>2 DEF OneSegment
  <2>3. ASSUME OneSegment(n, v, m, w) PROVE VniOf(m, w) = VniOf(n, v)
    <3>1. CASE v = w /\ v \in GlobalVlans
      <4>1. Home(n, v) = <<Topology, v>> /\ Home(m, w) = <<Topology, v>>
        BY <1>3, <1>6, <3>1, HomeFact
      <4>. QED
        BY <2>1, <4>1
    <3>2. CASE GivenVni(n, v) > 0 /\ GivenVni(n, v) = GivenVni(m, w)
      <4>1. Home(n, v) \in AllVlans /\ Home(m, w) \in AllVlans /\ StatedVni(Home(n, v)) \in Int
        <5>1. Home(n, v) \in AllVlans /\ Home(m, w) \in AllVlans
          BY <2>1 DEF Segments
        <5>2. \A s \in AllVlans : StatedVni(s) \in Int
          BY DEF AllVlans, StatedVni, Typed, LabOK
        <5>. QED
          BY <5>1, <5>2
      <4>2. StatedVni(Home(n, v)) \notin {NoVni, AutoVni}
        BY <2>1, <3>2, <4>1 DEF NoVni, AutoVni
      <4>. QED
        BY <2>1, <3>2, <4>1, <4>2 DEF FabricInv, GivenKeptVnis
    <3>. QED
      BY <2>3, <3>1, <3>2 DEF OneSegment
  <2>. QED
    BY <2>2, <2>3
<1>7. ASSUME together(n, v, m) PROVE vtep[m] \in flood[n][v]
  <2>1. PICK w \in Stretched(m) : OneSegment(n, v, m, w) /\ lab.domain[n] = lab.domain[m]
    BY <1>7 DEF together
  <2>2. w \in VlansOf(m) /\ VniOf(m, w) > 0
    BY DEF Stretched
  <2>3. VniOf(m, w) = VniOf(n, v)
    BY <1>6, <2>1, <2>2
  <2>4. vtep[m] # ""
    BY <1>2, <1>3, <2>2 DEF FabricInv, VtepsSet
  <2>. QED
    BY <1>3, <1>5, <2>1, <2>2, <2>3, <2>4 DEF VtepList
<1>8. ASSUME vtep[m] \in flood[n][v] PROVE together(n, v, m) \/ anycast(n, m)
  <2>1. PICK x \in Nodes \ {n} : /\ vtep[m] = vtep[x] /\ lab.domain[x] = lab.domain[n] /\ vtep[x] \notin {"", vtep[n]}
                                 /\ \E w \in VlansOf(x) : VniOf(x, w) = VniOf(n, v)
    BY <1>5, <1>8 DEF VtepList
  <2>2. CASE x = m
    <3>1. PICK w \in VlansOf(m) : VniOf(m, w) = VniOf(n, v)
      BY <2>1, <2>2
    <3>2. VniOf(m, w) > 0
      BY <1>3, <3>1
    <3>3. w \in Stretched(m) /\ OneSegment(n, v, m, w)
      BY <1>6, <3>1, <3>2 DEF Stretched
    <3>. QED
      BY <2>1, <2>2, <3>3 DEF together
  <2>3. CASE x # m
    BY <2>1, <2>3 DEF anycast
  <2>. QED
    BY <2>2, <2>3
<1>. QED
  BY <1>7, <1>8

\* The checks of the nodes find what is missing for routing between VLANs.
LEMMA IrbFollows ==
  ASSUME Typed, Progress, FabricOK, FabricInv
  PROVE  IrbReaches
<1>1. SUFFICES ASSUME OverlayDone, NEW n \in lab.evpn, NEW m \in lab.evpn, NEW v \in Here(m), NEW r,
                      r = lab.vlanVrf[v], r \in lab.addressed[n] \cap lab.used[m], v \notin VlansOf(n)
               PROVE  transit[r] > 0 /\ r \in L3Vnis(n) \cap L3Vnis(m)
  BY DEF IrbReaches
<1>2. stage = "done" /\ ~IrbErrors(n) /\ n \in Nodes /\ m \in Nodes
  BY <1>1 DEF OverlayDone, FabricInv, TurnsInOrder, IrbChecked, FabricOK
<1>3. v \in WithEvpn
  BY <1>1 DEF Here, WithEvpn
<1>4. r \in DOMAIN transit /\ transit[r] > 0
  BY <1>1, <1>2, <1>3 DEF IrbErrors
<1>5. r \in Names(n) \cap Names(m)
  <2>1. r \in lab.used[n]
    BY <1>1, <1>2 DEF FabricOK
  <2>. QED
    BY <1>1, <1>2, <2>1 DEF Progress, UsedKnown
<1>6. DOMAIN transit = Names(Topology)
  BY <1>2 DEF Typed, WorkOK, VnisOK
<1>. QED
  BY <1>4, <1>5, <1>6 DEF L3Vnis

-----------------------------------------------------------------------------
(* EVPN services *)

\* The ids in use are given ones, or were counted.
LEMMA IdsLowKeep ==
  ASSUME Typed, Progress, IdsLow, lab' = lab, Next \/ Quiet
  PROVE  IdsLow'
<1>1. GivenIds' = GivenIds
  BY GivenKept
<1>2. CASE UNCHANGED <<ids, next>>
  BY <1>1, <1>2 DEF IdsLow
<1>3. CASE PopulateVrfStaticIds
  <2>1. ids' = StaticIds /\ stage = "register"
    BY <1>3 DEF PopulateVrfStaticIds
  <2>2. ASSUME NEW x \in StaticIds
        PROVE  x \in GivenIds
    <3>1. PICK o \in Owners : \E v \in Names(o) : x = vrf[o][v].id /\ x # 0
      BY DEF StaticIds
    <3>2. PICK v \in Names(o) : x = vrf[o][v].id
      BY <3>1
    <3>3. v \in DOMAIN lab.vrfs[o] /\ x = lab.vrfs[o][v].id
      BY <2>1, <3>2, AllAsSaid DEF AsSaid, Said
    <3>. QED
      BY <3>1, <3>3 DEF GivenIds
  <2>. QED
    BY <1>1, <2>1, <2>2 DEF IdsLow
<1>4. CASE GenerateId
  <2> DEFINE a == lab.as[Owner]
             n == Min(Free(a))
  <2>1. CASE a = 0 \/ Free(a) = {}
    BY <1>2, <1>4, <2>1 DEF GenerateId
  <2>2. CASE ~(a = 0 \/ Free(a) = {})
    <3>1. ids' = ids \cup next..n /\ next' = n
      BY <1>4, <2>2 DEF GenerateId
    <3>2. n \in next..MaxVrfId /\ n \in 1..MaxVrfId
      BY <2>2, FreeFact
    <3> HIDE DEF n
    <3>3. next \in Nat \ {0} /\ n \in Nat /\ next <= n
      BY <3>2, BoundsAssumption DEF Typed, IdsOK
    <3>4. 1..next \subseteq 1..n /\ next..n \subseteq 1..n
      BY <3>3
    <3>. QED
      BY <1>1, <3>1, <3>4 DEF IdsLow
  <2>. QED
    BY <2>1, <2>2
<1>5. CASE ~GenerateId /\ ~PopulateVrfStaticIds
  <2>1. UNCHANGED <<ids, next>>
    BY <1>5 DEF Next, Quiet, NormalizeVrfIds, KeepOrInheritId, SetImportExportRt, PullVrfs, EndOfNodes,
       RegisterStaticVnis, AssignVni, AssignVnisOfNode, EndOfVlans, SetTransitVni, EndOfTransit, ShareTransitVni, MergeGlobalVrfs, CheckVrfs
  <2>. QED
    BY <1>2, <2>1
<1>. QED
  BY <1>3, <1>4, <1>5

\* The global VRFs and their numbers, when VNIs of VRFs are given out.
TopologyStays == stage' \in Placed /\ Names(Topology)' = Names(Topology) /\ \A r \in Names(Topology) : SameCell(Topology, r)

\* They stay from then on.
LEMMA PlacedStay ==
  ASSUME Typed, stage \in Placed, Next \/ Quiet
  PROVE  TopologyStays
<1>1. CASE UNCHANGED vrf /\ stage' \in Placed
  BY <1>1, SameVrf DEF TopologyStays, Names, SameCell
<1>2. CASE Quiet \/ SetTransitVni \/ EndOfTransit \/ ShareTransitVni
  <2>1. UNCHANGED vrf /\ stage' \in Placed
    BY <1>2 DEF Quiet, SetTransitVni, EndOfTransit, ShareTransitVni, Placed
  <2>. QED
    BY <1>1, <2>1
<1>3. CASE MergeGlobalVrfs \/ CheckVrfs
  <2>1. stage' \in Placed
    BY <1>3 DEF MergeGlobalVrfs, CheckVrfs, Placed
  <2>2. Copies
    BY <1>3, UseCells
  <2>. QED
    BY <2>1, <2>2 DEF TopologyStays, Copies
<1>. QED
  BY <1>2, <1>3 DEF Placed, Next, NormalizeVrfIds, PopulateVrfStaticIds, KeepOrInheritId, GenerateId, SetImportExportRt, PullVrfs,
     EndOfNodes, RegisterStaticVnis, AssignVni, AssignVnisOfNode, EndOfVlans

\* A service of a VLAN stays while the EVIs and the ids do.
LEMMA ServiceStays ==
  ASSUME Typed, FabricOK, stage # "normalize", lab' = lab, evi' = evi, Names(Topology)' = Names(Topology),
         \A r \in Names(Topology) : SameCell(Topology, r), NEW v
  PROVE  VlanService(v)' = VlanService(v)
<1>1. Bundled(v)' = Bundled(v) /\ OwnEvi(v)' = OwnEvi(v)
  BY DEF Bundled, OwnEvi
<1>2. \A e : DefaultRt(e)' = DefaultRt(e)
  BY DEF DefaultRt, EvpnAs
<1>3. CASE Bundled(v)
  <2> DEFINE r == lab.vlanVrf[v]
  <2>1. r \in Names(Topology)
    BY <1>3 DEF Bundled, FabricOK, Typed, WorkOK
  <2>2. vrf'[Topology][r].id = vrf[Topology][r].id
    BY <2>1 DEF SameCell
  <2>3. FinalEvi(r)' = FinalEvi(r)
    BY <2>2 DEF FinalEvi, HasEvpn
  <2>. QED
    BY <1>1, <1>3, <2>3 DEF VlanService
<1>4. CASE ~Bundled(v)
  BY <1>1, <1>2, <1>4 DEF VlanService
<1>. QED
  BY <1>3, <1>4

\* Lists and services stay while nobody changes them.
LEMMA ServicesSame ==
  ASSUME Typed, FabricOK, Listing, Serving, UNCHANGED <<lab, evpnVlans, evi, service>>,
         turn \notin {"lists", "aborted"} => TopologyStays,
         turn' \notin {"lists", "aborted"} => turn \notin {"lists", "aborted"},
         turn' \notin {"lists", "services", "aborted"} => turn \notin {"lists", "services", "aborted"}
  PROVE  Listing' /\ Serving'
<1>1. GlobalVlans' = GlobalVlans
  BY DEF GlobalVlans
<1>2. CASE turn' \in {"lists", "aborted"}
  BY <1>2 DEF Listing, Serving
<1>3. CASE turn' \notin {"lists", "aborted"}
  <2>1. TopologyStays /\ stage \in Placed /\ evpnVlans \subseteq GlobalVlans /\ DOMAIN evi = Names(Topology)
        /\ \A r \in Names(Topology) : EviSet(r)
    BY <1>3 DEF Listing
  <2>2. \A r \in Names(Topology) : EviSet(r)'
    BY <2>1 DEF EviSet, TopologyStays, SameCell
  <2>3. Listing'
    BY <1>1, <2>1, <2>2 DEF Listing, TopologyStays
  <2>4. CASE turn' = "services"
    BY <2>3, <2>4 DEF Serving
  <2>5. CASE turn' # "services"
    <3>1. service = [v \in evpnVlans |-> VlanService(v)] /\ \A r \in lab.bundle : evi[r] # 0
      BY <1>3, <2>5 DEF Serving
    <3>2. \A v : VlanService(v)' = VlanService(v)
      <4>1. stage # "normalize"
        BY <2>1 DEF Placed
      <4>. QED
        BY <2>1, <4>1, ServiceStays DEF TopologyStays
    <3>3. service' = [v \in evpnVlans' |-> VlanService(v)']
      BY <3>1, <3>2
    <3>. QED
      BY <2>3, <3>1, <3>3 DEF Serving
  <2>. QED
    BY <2>4, <2>5
<1>. QED
  BY <1>2, <1>3

\* What a node does with services follows the lab and the numbers.
LEMMA NodesSame ==
  ASSUME UNCHANGED <<lab, vrf, evi, service>>
  PROVE  /\ Nodes' = Nodes
         /\ \A n : Spoken(n)' = Spoken(n) /\ AfErrors(n)' = AfErrors(n) /\ LocalRds(n)' = LocalRds(n)
<1>1. VtepAf' = VtepAf /\ \A n, p : Relevant(n, p)' = Relevant(n, p)
  BY DEF VtepAf, Relevant
<1>2. \A n : AfErrors(n)' = AfErrors(n)
  BY <1>1 DEF AfErrors, NoEvpnAf, Lacks
<1>3. \A n : Spoken(n)' = Spoken(n)
  BY <1>1, <1>2 DEF Spoken
<1>4. \A n : VlansOf(n)' = VlansOf(n) /\ Names(n)' = Names(n)
  BY DEF VlansOf, GlobalVlans, Names
<1>5. \A n : LocalRds(n)' = LocalRds(n)
  BY <1>4 DEF LocalRds, GivenEvis
<1>. QED
  BY <1>2, <1>3, <1>5, LabKept

\* A step of the identifiers does not disturb EVPN.
LEMMA IdsKeepServices ==
  ASSUME Typed, FabricOK, TurnsInOrder, Listing, Serving, Ending, Next, lab' = lab, UNCHANGED overlayVars
  PROVE  Listing' /\ Serving' /\ Ending'
<1>1. UNCHANGED <<turn, evpnVlans, evi, service>>
  BY DEF overlayVars
<1>2. turn # "end"
  <2>1. SUFFICES ASSUME stage = "done" PROVE FALSE
    BY DEF TurnsInOrder
  <2>. QED
    BY <2>1 DEF Next, NormalizeVrfIds, PopulateVrfStaticIds, KeepOrInheritId, GenerateId, SetImportExportRt, PullVrfs, EndOfNodes,
       RegisterStaticVnis, AssignVni, AssignVnisOfNode, EndOfVlans, SetTransitVni, EndOfTransit, ShareTransitVni, MergeGlobalVrfs, CheckVrfs
<1>3. turn \notin {"lists", "aborted"} => TopologyStays
  BY PlacedStay DEF Listing
<1>. QED
  BY <1>1, <1>2, <1>3, ServicesSame DEF Ending

\* validate_evpn_lists: VRFs with a service get an EVI of their own.
LEMMA ListsSet ==
  ASSUME Typed, ValidateEvpnLists
  PROVE  Listing' /\ Serving' /\ Ending'
<1>1. /\ UNCHANGED <<lab, stage, vrf>> /\ stage = "transit" /\ turn' = "services"
      /\ evpnVlans' = EvpnVlans \cap GlobalVlans
      /\ evi' = [v \in Names(Topology) |-> IF v \in EvpnVrfs THEN VrfEvi(v) ELSE lab.evi[v]]
  BY DEF ValidateEvpnLists
<1>2. Names(Topology)' = Names(Topology) /\ GlobalVlans' = GlobalVlans
  BY <1>1 DEF Names, GlobalVlans
<1>3. \A r \in Names(Topology) : EviSet(r)'
  BY <1>1 DEF EviSet, VrfEvi
<1>4. Listing'
  BY <1>1, <1>2, <1>3 DEF Listing, Placed
<1>. QED
  BY <1>1, <1>4 DEF Serving, Ending

\* create_vlan_service: services follow the EVIs, and every bundle has one.
LEMMA ServicesSet ==
  ASSUME Typed, FabricOK, Progress, Listing, CreateVlanServices
  PROVE  Listing' /\ Serving' /\ Ending'
<1>1. /\ UNCHANGED <<lab, stage, vrf, evpnVlans>> /\ stage = "shared" /\ turn = "services" /\ turn' = "vteps"
      /\ service' = [v \in evpnVlans |-> VlanService(v)]
      /\ evi' = [r \in Names(Topology) |-> FinalEvi(r)]
  BY DEF CreateVlanServices
<1>2. Names(Topology)' = Names(Topology) /\ GlobalVlans' = GlobalVlans /\ lab.bundle \subseteq Names(Topology)
  BY <1>1 DEF Names, GlobalVlans, FabricOK, Typed, WorkOK
<1>3. /\ evpnVlans \subseteq GlobalVlans /\ \A r \in Names(Topology) : EviSet(r)
  BY <1>1 DEF Listing
<1>4. \A r \in Names(Topology) : EviSet(r)'
  BY <1>1, <1>3 DEF EviSet, FinalEvi
<1>5. Listing'
  BY <1>1, <1>2, <1>3, <1>4 DEF Listing, Placed
<1>6. \A r \in lab.bundle : evi'[r] = FinalEvi(r) /\ evi'[r] # 0
  <2>1. SUFFICES ASSUME NEW r \in lab.bundle PROVE FinalEvi(r) # 0
    BY <1>1, <1>2
  <2>2. vrf[Topology][r].id # 0
    BY <1>1, <1>2 DEF Progress, TopologyDone, HasNumbers
  <2>. QED
    BY <2>2 DEF FinalEvi, HasEvpn
<1>7. ASSUME NEW v
      PROVE  VlanService(v)' = VlanService(v)
  <2>1. Bundled(v)' = Bundled(v) /\ OwnEvi(v)' = OwnEvi(v) /\ \A e : DefaultRt(e)' = DefaultRt(e)
    BY <1>1 DEF Bundled, OwnEvi, DefaultRt, EvpnAs
  <2>2. CASE Bundled(v)
    <3>1. FinalEvi(lab.vlanVrf[v])' = FinalEvi(lab.vlanVrf[v])
      BY <1>1, <1>6, <2>2 DEF Bundled, FinalEvi
    <3>. QED
      BY <1>1, <2>1, <2>2, <3>1 DEF VlanService
  <2>3. CASE ~Bundled(v)
    BY <1>1, <2>1, <2>3 DEF VlanService
  <2>. QED
    BY <2>2, <2>3
<1>8. service' = [v \in evpnVlans' |-> VlanService(v)']
  BY <1>1, <1>7
<1>9. Serving'
  BY <1>1, <1>6, <1>8 DEF Serving
<1>. QED
  BY <1>1, <1>5, <1>9 DEF Ending

\* A step of VXLAN or EVPN keeps what EVPN has done.
LEMMA OverlayKeepsServices ==
  ASSUME Typed, FabricOK, Progress, Listing, Serving, Ending,
         ValidateEvpnLists \/ CreateVlanServices \/ NodeSetVtep \/ BuildVtepLists \/ EvpnNodes
  PROVE  Listing' /\ Serving' /\ Ending'
<1>1. CASE NodeSetVtep \/ BuildVtepLists \/ EvpnNodes
  <2>1. /\ UNCHANGED <<lab, stage, vrf, evpnVlans, evi, service>>
        /\ turn \in {"vteps", "floods", "nodes"} /\ turn' \in {"floods", "nodes", "end", "aborted"}
    BY <1>1 DEF NodeSetVtep, BuildVtepLists, EvpnNodes
  <2>2. TopologyStays
    BY <2>1 DEF Listing, TopologyStays, Names, SameCell
  <2>3. Listing' /\ Serving'
    BY <2>1, <2>2, ServicesSame
  <2>4. CASE turn' # "end"
    BY <2>3, <2>4 DEF Ending
  <2>5. CASE turn' = "end"
    <3>1. /\ failed' = (failed \/ \E n \in lab.evpn : NodeErrors(n))
          /\ spoken' = UNION {Spoken(n) : n \in lab.evpn}
          /\ instances' = [n \in Nodes |-> IF n \in lab.evpn THEN LocalRds(n) ELSE Empty]
          /\ turn' = IF failed' THEN "aborted" ELSE "end"
      BY <1>1, <2>5 DEF NodeSetVtep, BuildVtepLists, EvpnNodes
    <3>2. \A n \in lab.evpn : ~AfErrors(n)
      BY <2>5, <3>1 DEF NodeErrors
    <3>3. Nodes' = Nodes /\ \A n : Spoken(n)' = Spoken(n) /\ AfErrors(n)' = AfErrors(n) /\ LocalRds(n)' = LocalRds(n)
      BY <2>1, NodesSame
    <3>4. spoken' = UNION {Spoken(n)' : n \in lab.evpn}
      BY <3>1, <3>3
    <3>5. instances' = [n \in Nodes |-> IF n \in lab.evpn THEN LocalRds(n)' ELSE Empty]
      BY <3>1, <3>3
    <3>. QED
      BY <2>1, <2>3, <3>2, <3>3, <3>4, <3>5 DEF Ending, Empty
  <2>. QED
    BY <2>4, <2>5
<1>. QED
  BY <1>1, ListsSet, ServicesSet

\* Every step keeps the invariant of EVPN.
LEMMA ServicesKeep ==
  ASSUME lab \in Labs, Typed, Progress, FabricInv, ServiceInv, [OverlayNext]_<<vars, overlayVars>>
  PROVE  ServiceInv'
<1>1. Listing /\ Serving /\ Ending /\ IdsLow /\ TurnsInOrder /\ FabricOK
  BY FabricFacts DEF ServiceInv, FabricInv
<1>2. Next \/ Quiet
  BY OverlaySteps DEF Typed, ControlOK
<1>3. lab' = lab
  BY <1>2, TypesKeep, TypeParts DEF Typed
<1>4. IdsLow'
  BY <1>1, <1>2, <1>3, IdsLowKeep
<1>5. CASE OverlayNext /\ ~OverlayTurn
  <2>1. Next /\ UNCHANGED overlayVars
    BY <1>5 DEF OverlayNext
  <2>. QED
    BY <1>1, <1>3, <1>4, <2>1, IdsKeepServices DEF ServiceInv
<1>6. CASE OverlayNext /\ OverlayTurn
  <2>1. ValidateEvpnLists \/ CreateVlanServices \/ NodeSetVtep \/ BuildVtepLists \/ EvpnNodes
    BY <1>6 DEF OverlayNext
  <2>. QED
    BY <1>1, <1>4, <2>1, OverlayKeepsServices DEF ServiceInv
<1>7. CASE UNCHANGED <<vars, overlayVars>>
  <2>1. UNCHANGED <<lab, stage, vrf, turn, evpnVlans, evi, service, spoken, instances>>
    BY <1>7 DEF vars, overlayVars
  <2>2. turn \notin {"lists", "aborted"} => TopologyStays
    BY <1>1, <2>1 DEF Listing, TopologyStays, Names, SameCell
  <2>3. Listing' /\ Serving'
    BY <1>1, <2>1, <2>2, ServicesSame
  <2>4. Nodes' = Nodes /\ \A n : Spoken(n)' = Spoken(n) /\ AfErrors(n)' = AfErrors(n) /\ LocalRds(n)' = LocalRds(n)
    BY <2>1, NodesSame
  <2>5. ASSUME turn = "end" PROVE Ending'
    <3>1. /\ spoken = UNION {Spoken(n)' : n \in lab.evpn} /\ \A n \in lab.evpn : ~AfErrors(n)'
          /\ instances = [n \in Nodes |-> IF n \in lab.evpn THEN LocalRds(n)' ELSE Empty]
      BY <1>1, <2>4, <2>5 DEF Ending
    <3>. QED
      BY <2>1, <2>4, <3>1 DEF Ending, Empty
  <2>6. Ending'
    BY <2>1, <2>5 DEF Ending
  <2>. QED
    BY <1>4, <2>3, <2>6 DEF ServiceInv
<1>. QED
  BY <1>5, <1>6, <1>7

\* Nothing is done at the start.
LEMMA ServicesStart ==
  ASSUME OverlayInit
  PROVE  ServiceInv
BY DEF OverlayInit, Init, ServiceInv, IdsLow, Listing, Serving, Ending

\* What the lab asks of a VLAN and what is made of it: a symbol of the VRFs of a
\* node, a VLAN with an EVI of its own, or a given number.
AskedAt(n, s) == (\E r : \E d \in Directions : s \in Wanted(n, r, d)) /\ (s \in Rds \/ Named(n, s))
OfVlan(s) == \E v \in Single : s = <<"vlan", Topology, v>>
Kind(n, s) == AskedAt(n, s) \/ OfVlan(s) \/ s \in GivenRts
Real(s) == IF s \in Rds THEN s ELSE IF s[1] = "vlan" THEN <<EvpnAs, OwnEvi(s[3])>> ELSE vrf[s[2]][s[3]].rd

\* The state a lab ends in, if nothing mixes up its numbers.
Settles ==
  /\ Typed /\ FabricOK /\ Progress /\ NumbersApart /\ AllMade /\ NodesSettled /\ stage = "done"
  /\ IdsLow /\ Listing /\ Serving /\ Ending /\ OverlayDone
  /\ NumbersClear /\ TargetsClear /\ ServicesClear

\* A VLAN with an EVI of its own has a number that nobody else has.
LEMMA SingleFact ==
  ASSUME Settles, NEW v \in Single
  PROVE  LET rt == <<EvpnAs, OwnEvi(v)>> IN
         /\ v \in GlobalVlans /\ OwnEvi(v) \in Nat /\ <<v, OwnEvi(v)>> \in FixedEvis
         /\ next < OwnEvi(v) /\ OwnEvi(v) <= 5000 /\ OwnEvi(v) \notin GivenIds /\ OwnEvi(v) \notin ids
         /\ rt \in Rds /\ rt \notin GivenRds \cup GivenRts
         /\ rt[1] = EvpnAs /\ rt[2] = OwnEvi(v)
<1>1. v \in GlobalVlans /\ ~Bundled(v)
  BY DEF Single
<1>2. Topology \in Owners
  BY DEF Owners
<1>3. lab.vlans[Topology][v].id \in Nat /\ lab.evi[v] \in Nat /\ EvpnAs \in Nat
  BY <1>1, <1>2 DEF Settles, Typed, LabOK, FabricOK, GlobalVlans
<1>4. OwnEvi(v) \in Nat
  BY <1>3 DEF OwnEvi
<1>5. <<v, OwnEvi(v)>> \in FixedEvis
  BY DEF FixedEvis
<1>6. next < OwnEvi(v) /\ OwnEvi(v) <= 5000 /\ OwnEvi(v) \notin GivenIds
  BY <1>5 DEF Settles, ServicesClear, EvisClear
<1>7. next \in Nat
  BY DEF Settles, Typed, IdsOK
<1>8. OwnEvi(v) \notin ids
  BY <1>4, <1>6, <1>7 DEF Settles, IdsLow
<1>9. <<EvpnAs, OwnEvi(v)>> \notin GivenRds \cup GivenRts
  BY DEF Settles, ServicesClear, RtsClear
<1>. QED
  BY <1>1, <1>3, <1>4, <1>5, <1>6, <1>8, <1>9, MadeRd

\* The numbers symbols of each kind stand for.
LEMMA RealFact ==
  ASSUME Settles, NEW n \in Owners, NEW s
  PROVE  /\ AskedAt(n, s) => Real(s) = RdFor(s)
         /\ \A v \in Single : s = <<"vlan", Topology, v>> => Real(s) = <<EvpnAs, OwnEvi(v)>> /\ s \notin Rds
         /\ s \in GivenRts => s \in Rds /\ Real(s) = s
<1>1. ASSUME AskedAt(n, s)
      PROVE  Real(s) = RdFor(s)
  <2>1. CASE s \in Rds
    BY <2>1 DEF Real, RdFor
  <2>2. CASE s \notin Rds
    <3>1. PICK p \in {Topology, n} : \E w \in Names(p) : s = Symbol(p, w) /\ IsOwn(p, w)
      BY <1>1, <2>2 DEF AskedAt, Named
    <3>2. PICK w \in Names(p) : s = Symbol(p, w)
      BY <3>1
    <3>3. p \in Owners
      BY <3>1 DEF Owners
    <3>4. s = <<"rd", p, w>>
      BY <2>2, <3>2, <3>3, SymbolFact DEF Settles
    <3>5. s[1] # "vlan"
      BY <3>4
    <3>. QED
      BY <2>2, <3>5 DEF Real, RdFor
  <2>. QED
    BY <2>1, <2>2
<1>2. ASSUME NEW v \in Single, s = <<"vlan", Topology, v>>
      PROVE  Real(s) = <<EvpnAs, OwnEvi(v)>> /\ s \notin Rds
  <2>1. s \notin Rds
    <3>1. <<"vlan", Topology, v>> \notin Nat \X Nat
      OBVIOUS
    <3>. QED
      BY <1>2, <3>1 DEF Rds, NoRd, EmptyRd
  <2>2. s[1] = "vlan" /\ s[3] = v
    BY <1>2
  <2>. QED
    BY <2>1, <2>2 DEF Real
<1>3. ASSUME s \in GivenRts
      PROVE  s \in Rds /\ Real(s) = s
  <2> DEFINE lists == UNION {{lab.rts[v].import, lab.rts[v].export} : v \in GlobalVlans}
  <2>0. PICK said \in lists : said # Missing /\ s \in said[1]
    <3>1. GivenRts = UNION {IF x = Missing THEN {} ELSE x[1] : x \in lists}
      BY DEF GivenRts
    <3> HIDE DEF lists
    <3>. QED
      BY <1>3, <3>1
  <2>1. PICK v \in GlobalVlans : said \in {lab.rts[v].import, lab.rts[v].export}
    OBVIOUS
  <2>2. s \in Nat \X Nat
    BY <2>0, <2>1 DEF Settles, FabricOK
  <2>. QED
    BY <2>2 DEF Rds, Real
<1>. QED
  BY <1>1, <1>2, <1>3

\* Nothing else stands for the number of a VLAN.
LEMMA VlanApart ==
  ASSUME Settles, NEW v \in Single, NEW m \in Owners, NEW t, Kind(m, t), Real(t) = <<EvpnAs, OwnEvi(v)>>
  PROVE  t = <<"vlan", Topology, v>>
<1> DEFINE rt == <<EvpnAs, OwnEvi(v)>>
<1>1. /\ OwnEvi(v) \in Nat /\ <<v, OwnEvi(v)>> \in FixedEvis /\ OwnEvi(v) \notin ids
      /\ rt \in Rds /\ rt \notin GivenRds \cup GivenRts /\ rt[1] = EvpnAs /\ rt[2] = OwnEvi(v)
  BY SingleFact
<1>2. CASE AskedAt(m, t) /\ t \in Rds
  <2>1. t = rt
    BY <1>2 DEF Real
  <2>2. PICK r : \E d \in Directions : t \in Wanted(m, r, d)
    BY <1>2 DEF AskedAt
  <2>3. PICK p \in Owners : AskedOf(p, t)
    <3>1. PICK d \in Directions : t \in Wanted(m, r, d)
      BY <2>2
    <3>. QED
      BY <3>1, WantedFact DEF Settles, Owners
  <2>4. CASE \E w : t = Symbol(p, w)
    <3>1. PICK w : t = Symbol(p, w)
      BY <2>4
    <3>2. t \in GivenRds
      BY <1>2, <3>1, SymbolFact DEF Settles
    <3>. QED
      BY <1>1, <2>1, <3>2
  <2>5. CASE \E x \in TargetsOf(p) : x.vrf = "" /\ t = Own(p, x.rt)
    BY <2>1, <2>5 DEF Settles, ServicesClear, RtsClear
  <2>. QED
    BY <2>3, <2>4, <2>5 DEF AskedOf
<1>3. CASE AskedAt(m, t) /\ t \notin Rds
  <2>1. RdFor(t) = rt /\ Named(m, t)
    BY <1>3, RealFact DEF AskedAt
  <2>2. PICK p \in Owners : \E w \in Names(p) : RdFor(t) = vrf[p][w].rd /\ vrf[p][w].rd[2] \in Numbers(p, w)
    BY <1>3, <2>1, NamedRd DEF Settles
  <2>3. PICK w \in Names(p) : RdFor(t) = vrf[p][w].rd /\ vrf[p][w].rd[2] \in Numbers(p, w)
    BY <2>2
  <2>4. Numbers(p, w) \subseteq ids
    BY DEF Settles, NumbersApart, Registered
  <2>. QED
    BY <1>1, <2>1, <2>3, <2>4
<1>4. CASE OfVlan(t)
  <2>1. PICK w \in Single : t = <<"vlan", Topology, w>>
    BY <1>4 DEF OfVlan
  <2>2. Real(t) = <<EvpnAs, OwnEvi(w)>>
    BY <2>1, RealFact
  <2>3. OwnEvi(w) = OwnEvi(v) /\ <<w, OwnEvi(w)>> \in FixedEvis
    BY <2>2, SingleFact
  <2>4. w = v
    BY <1>1, <2>3 DEF Settles, ServicesClear, EvisClear
  <2>. QED
    BY <2>1, <2>4
<1>5. CASE t \in GivenRts
  BY <1>1, <1>5, RealFact
<1>. QED
  BY <1>2, <1>3, <1>4, <1>5 DEF Kind

\* A given target of a VLAN is not the number of something else.
LEMMA GivenAlone ==
  ASSUME Settles, NEW g \in GivenRts, NEW m \in Owners, NEW t, AskedAt(m, t), Real(t) = g
  PROVE  t = g
<1>1. CASE t \in Rds
  BY <1>1 DEF Real
<1>2. CASE t \notin Rds
  <2>1. RdFor(t) = g /\ Named(m, t)
    BY <1>2, RealFact DEF AskedAt
  <2>2. PICK p \in Owners : \E w \in Names(p) : RdFor(t) = vrf[p][w].rd /\ MadeUp(p, vrf[p][w].rd)
    BY <1>2, <2>1, NamedRd DEF Settles
  <2>3. g \notin GivenRds /\ g[1] = lab.as[p] /\ g[2] \in 1..MaxVrfId
    BY <2>1, <2>2 DEF MadeUp
  <2>4. ~(g[2] > MaxVrfId)
    BY <2>3, BoundsAssumption
  <2>. QED
    BY <2>3, <2>4 DEF Settles, ServicesClear, RtsClear
<1>. QED
  BY <1>1, <1>2

\* Different symbols of two nodes stand for different numbers.
LEMMA RealApart ==
  ASSUME Settles, NEW n \in Owners, NEW m \in Owners, NEW s, NEW t, Kind(n, s), Kind(m, t), Real(s) = Real(t)
  PROVE  s = t
<1>1. CASE OfVlan(s) \/ OfVlan(t)
  <2>1. CASE OfVlan(s)
    BY <2>1, RealFact, VlanApart DEF OfVlan
  <2>2. CASE OfVlan(t)
    BY <2>2, RealFact, VlanApart DEF OfVlan
  <2>. QED
    BY <1>1, <2>1, <2>2
<1>2. CASE s \in GivenRts /\ t \in GivenRts
  BY <1>2, RealFact
<1>3. CASE s \in GivenRts /\ AskedAt(m, t)
  <2>1. Real(s) = s
    BY <1>3, RealFact
  <2>. QED
    BY <1>3, <2>1, GivenAlone
<1>4. CASE t \in GivenRts /\ AskedAt(n, s)
  <2>1. Real(t) = t
    BY <1>4, RealFact
  <2>. QED
    BY <1>4, <2>1, GivenAlone
<1>5. CASE AskedAt(n, s) /\ AskedAt(m, t)
  <2>1. RdFor(s) = RdFor(t)
    BY <1>5, RealFact
  <2>2. PICK r : \E d \in Directions : s \in Wanted(n, r, d)
    BY <1>5 DEF AskedAt
  <2>3. PICK q : \E e \in Directions : t \in Wanted(m, q, e)
    BY <1>5 DEF AskedAt
  <2>4. PICK d \in Directions, e \in Directions : s \in Wanted(n, r, d) /\ t \in Wanted(m, q, e)
    BY <2>2, <2>3
  <2>. QED
    BY <1>5, <2>1, <2>4, SymbolsApart DEF Settles, AskedAt
<1>. QED
  BY <1>1, <1>2, <1>3, <1>4, <1>5 DEF Kind

\* A VLAN uses the numbers of what the lab asks for.
LEMMA UsedReal ==
  ASSUME Settles, NEW n \in Nodes, NEW v \in Here(n), NEW d \in Directions
  PROVE  /\ Used(n, v, d) = {Real(s) : s \in Told(n, v, d)}
         /\ \A s \in Told(n, v, d) : Kind(n, s)
<1>1. n \in lab.evpn /\ v \in VlansOf(n) /\ v \in DOMAIN service
  BY DEF Here
<1>2. service = [x \in evpnVlans |-> VlanService(x)] /\ evpnVlans \subseteq GlobalVlans
  BY DEF Settles, OverlayDone, Listing, Serving
<1>3. v \in GlobalVlans /\ service[v] = VlanService(v) /\ v \in lab.on[n]
  BY <1>1, <1>2 DEF Settles, FabricOK, VlansOf
<1>4. n \in Owners
  BY DEF Owners
<1>5. CASE Bundled(v)
  <2> DEFINE r == lab.vlanVrf[v]
             S == Wanted(n, r, d)
  <2>1. r \in Names(n)
    <3>1. r \in lab.used[n]
      BY <1>1, <1>3, <1>5 DEF Settles, ServicesClear, BundlesUsed
    <3>. QED
      BY <3>1 DEF Settles, Progress, UsedKnown
  <2>2. Settled(n, r)
    <3>1. PICK i \in 1..Len(lab.nodes) : n = lab.nodes[i]
      BY DEF Settles, Typed, LabOK
    <3>. QED
      BY <2>1, <3>1 DEF Settles, NodesSettled, Served, Late
  <2>3. vrf[n][r][d] = <<{RdFor(s) : s \in S}>> /\ \A s \in S : s \in Rds \/ Named(n, s)
    BY <2>2 DEF Settled, Obeys
  <2>4. Told(n, v, d) = S
    BY <1>5 DEF Told
  <2>5. Used(n, v, d) = vrf[n][r][d][1]
    BY <1>5 DEF Used, Directions
  <2>6. \A s \in S : AskedAt(n, s)
    BY <2>3 DEF AskedAt
  <2> HIDE DEF S
  <2>7. Used(n, v, d) = {RdFor(s) : s \in S}
    BY <2>3, <2>5
  <2>8. \A s \in S : Real(s) = RdFor(s)
    BY <1>4, <2>6, RealFact
  <2>. QED
    BY <2>4, <2>6, <2>7, <2>8 DEF Kind
<1>6. CASE ~Bundled(v)
  <2> DEFINE said == IF d = "import" THEN lab.rts[v].import ELSE lab.rts[v].export
  <2>1. v \in Single /\ Told(n, v, d) = SymbolOf(v, said)
    BY <1>3, <1>6 DEF Single, Told
  <2>2. Used(n, v, d) = (IF said = Missing THEN DefaultRt(OwnEvi(v)) ELSE said)[1]
    BY <1>3, <1>6 DEF Used, VlanService
  <2>3. CASE said = Missing
    <3>1. Told(n, v, d) = {<<"vlan", Topology, v>>} /\ Used(n, v, d) = {<<EvpnAs, OwnEvi(v)>>}
      BY <2>1, <2>2, <2>3 DEF SymbolOf, DefaultRt
    <3>2. Real(<<"vlan", Topology, v>>) = <<EvpnAs, OwnEvi(v)>>
      BY <1>4, <2>1, RealFact
    <3>3. OfVlan(<<"vlan", Topology, v>>)
      BY <2>1 DEF OfVlan
    <3>. QED
      BY <3>1, <3>2, <3>3 DEF Kind
  <2>4. CASE said # Missing
    <3>1. Told(n, v, d) = said[1] /\ Used(n, v, d) = said[1]
      BY <2>1, <2>2, <2>4 DEF SymbolOf
    <3>2. said[1] \subseteq GivenRts
      <4>1. said \in UNION {{lab.rts[w].import, lab.rts[w].export} : w \in GlobalVlans}
        BY <1>3
      <4>2. said[1] = IF said = Missing THEN {} ELSE said[1]
        BY <2>4
      <4> HIDE DEF said
      <4>. QED
        BY <4>1, <4>2 DEF GivenRts
    <3>3. \A s \in said[1] : Real(s) = s
      BY <1>4, <3>2, RealFact
    <3> HIDE DEF said
    <3>. QED
      BY <3>1, <3>2, <3>3 DEF Kind
  <2>. QED
    BY <2>3, <2>4
<1>. QED
  BY <1>5, <1>6

\* Routes of VLANs go where the lab says.
LEMMA VlanRoutes ==
  ASSUME Settles, NEW n \in Nodes, NEW m \in Nodes, NEW v \in Here(n), NEW w \in Here(m)
  PROVE  (Used(n, v, "export") \cap Used(m, w, "import") # {}) = (Told(n, v, "export") \cap Told(m, w, "import") # {})
<1> DEFINE S == Told(n, v, "export")
           T == Told(m, w, "import")
<1>1. /\ Used(n, v, "export") = {Real(s) : s \in S} /\ Used(m, w, "import") = {Real(t) : t \in T}
      /\ \A s \in S : Kind(n, s)
      /\ \A t \in T : Kind(m, t)
  BY UsedReal DEF Directions
<1>2. n \in Owners /\ m \in Owners
  BY DEF Owners
<1> HIDE DEF S, T
<1>3. \A s \in S, t \in T : Real(s) = Real(t) => s = t
  BY <1>1, <1>2, RealApart
<1>4. ({Real(s) : s \in S} \cap {Real(t) : t \in T} # {}) <=> (S \cap T # {})
  BY <1>3
<1>5. (Used(n, v, "export") \cap Used(m, w, "import") # {}) <=> (S \cap T # {})
  BY <1>1, <1>4
<1>. QED
  BY <1>5 DEF S, T

\* enable_evpn_af: a neighbor answers.
LEMMA Answers ==
  ASSUME Settles, NEW p \in lab.peers, <<p.node, p.name>> \in spoken, p.type \in lab.session[p.name]
  PROVE  <<p.name, p.node>> \in spoken
<1>1. spoken = UNION {Spoken(n) : n \in lab.evpn} /\ \A n \in lab.evpn : ~AfErrors(n)
  BY DEF Settles, OverlayDone, Ending
<1>2. PICK n \in lab.evpn : <<p.node, p.name>> \in Spoken(n)
  BY <1>1
<1>3. PICK x \in lab.peers : Relevant(n, x) /\ <<p.node, p.name>> = <<n, x.name>>
  BY <1>1, <1>2 DEF Spoken
<1>4. x.node = p.node /\ x.name = p.name /\ p.node \in lab.evpn /\ p.name \in lab.evpn /\ VtepAf \in x.af
  BY <1>2, <1>3 DEF Relevant
<1>5. x.type = p.type
  BY <1>4 DEF Settles, ServicesClear, PeersMutual
<1>6. PICK q \in lab.peers : q.node = x.name /\ q.name = x.node /\ q.type = x.type /\ q.af = x.af
  BY DEF Settles, ServicesClear, PeersMutual
<1>7. Relevant(p.name, q) /\ q.name = p.node
  BY <1>4, <1>5, <1>6 DEF Relevant
<1>8. <<p.name, p.node>> \in Spoken(p.name)
  BY <1>1, <1>4, <1>7 DEF Spoken
<1>. QED
  BY <1>1, <1>4, <1>8

\* The EVI of a global VRF is given, its id, or made of its id, which are apart.
LEMMA VrfEviFact ==
  ASSUME Settles, NEW r \in Names(Topology), evi[r] # 0
  PROVE  /\ IF lab.evi[r] # 0 THEN evi[r] = lab.evi[r] /\ <<r, evi[r]>> \in FixedEvis
            ELSE evi[r] \in {vrf[Topology][r].id, vrf[Topology][r].id + 5000}
         /\ vrf[Topology][r].id \in Nat /\ vrf[Topology][r].id <= 5000 /\ vrf[Topology][r].id # 0
         /\ \A x \in FixedEvis : x[2] # vrf[Topology][r].id /\ x[2] # vrf[Topology][r].id + 5000
<1> DEFINE id == vrf[Topology][r].id
<1>1. EviSet(r) /\ r \in DOMAIN lab.vrfs[Topology] /\ Topology \in Owners
  BY DEF Settles, OverlayDone, Listing, Typed, WorkOK, Owners
<1>2. IF lab.evi[r] # 0 THEN evi[r] = lab.evi[r] /\ <<r, evi[r]>> \in FixedEvis ELSE evi[r] \in {id, id + 5000}
  BY <1>1 DEF EviSet, FixedEvis
<1>3. id # 0 /\ id \in Numbers(Topology, r)
  BY DEF Settles, Progress, TopologyDone, HasNumbers, Numbers
<1>4. id \in GivenIds \cup 1..next
  BY <1>1, <1>3 DEF Settles, NumbersApart, Registered, IdsLow
<1>5. id \in Nat
  BY <1>1 DEF Settles, Typed, VrfOK, VrfData
<1>6. next \in Nat
  BY DEF Settles, Typed, IdsOK
<1>7. id <= 5000
  BY <1>4, <1>5, <1>6 DEF Settles, ServicesClear, EvisClear
<1>8. ASSUME NEW x \in FixedEvis
      PROVE  x[2] # id /\ x[2] # id + 5000
  <2>1. next < x[2] /\ x[2] <= 5000 /\ x[2] \notin GivenIds
    BY DEF Settles, ServicesClear, EvisClear
  <2> DEFINE e == x[2]
  <2>2. next < e /\ e <= 5000 /\ e \notin GivenIds
    BY <2>1
  <2> HIDE DEF e, id
  <2>3. e # id /\ e # id + 5000
    BY <1>3, <1>4, <1>5, <1>6, <2>2
  <2>. QED
    BY <2>3 DEF e
<1>. QED
  BY <1>2, <1>3, <1>5, <1>7, <1>8

\* Different VRFs have different EVIs.
LEMMA VrfEvisApart ==
  ASSUME Settles, NEW r \in Names(Topology), NEW q \in Names(Topology), evi[r] # 0, evi[r] = evi[q]
  PROVE  r = q
<1> DEFINE i == vrf[Topology][r].id
           j == vrf[Topology][q].id
<1>1. SUFFICES ASSUME r # q PROVE FALSE
  OBVIOUS
<1>2. /\ i \in Nat /\ i <= 5000 /\ i # 0 /\ j \in Nat /\ j <= 5000 /\ j # 0
      /\ \A x \in FixedEvis : x[2] # i /\ x[2] # i + 5000 /\ x[2] # j /\ x[2] # j + 5000
      /\ IF lab.evi[r] # 0 THEN <<r, evi[r]>> \in FixedEvis ELSE evi[r] \in {i, i + 5000}
      /\ IF lab.evi[q] # 0 THEN <<q, evi[r]>> \in FixedEvis ELSE evi[r] \in {j, j + 5000}
  BY VrfEviFact
<1>3. i # j
  <2>1. Topology \in Owners /\ ~One(Topology, r, Topology, q)
    BY <1>1 DEF One, Owners
  <2>2. Numbers(Topology, r) \cap Numbers(Topology, q) = {}
    BY <2>1 DEF Settles, NumbersApart, Apart
  <2>3. i \in Numbers(Topology, r) /\ j \in Numbers(Topology, q)
    BY <1>2 DEF Numbers
  <2>. QED
    BY <2>2, <2>3
<1> HIDE DEF i, j
<1>4. CASE lab.evi[r] # 0 /\ lab.evi[q] # 0
  BY <1>1, <1>2, <1>4 DEF Settles, ServicesClear, EvisClear
<1>5. CASE lab.evi[r] # 0 /\ lab.evi[q] = 0
  BY <1>2, <1>5
<1>6. CASE lab.evi[r] = 0 /\ lab.evi[q] # 0
  BY <1>2, <1>6
<1>7. CASE lab.evi[r] = 0 /\ lab.evi[q] = 0
  BY <1>2, <1>3, <1>7
<1>. QED
  BY <1>4, <1>5, <1>6, <1>7

\* The VLANs with an EVI of their own.
EviVlans == Single \cup {x \in GlobalVlans : lab.evi[x] # 0}

\* A VLAN and a VRF have different EVIs.
LEMMA VlanVrfApart ==
  ASSUME Settles, NEW v \in EviVlans, NEW r \in Names(Topology), evi[r] # 0, evi[r] = OwnEvi(v)
  PROVE  v = r
<1> DEFINE id == vrf[Topology][r].id
<1>1. /\ IF lab.evi[r] # 0 THEN evi[r] = lab.evi[r] /\ <<r, evi[r]>> \in FixedEvis ELSE evi[r] \in {id, id + 5000}
      /\ \A x \in FixedEvis : x[2] # id /\ x[2] # id + 5000
  BY VrfEviFact
<1> HIDE DEF id
<1>2. <<v, evi[r]>> \in FixedEvis
  BY DEF FixedEvis, EviVlans
<1>3. <<v, evi[r]>>[2] # id /\ <<v, evi[r]>>[2] # id + 5000
  BY <1>1, <1>2
<1>4. <<r, evi[r]>> \in FixedEvis
  BY <1>1, <1>3
<1>. QED
  BY <1>2, <1>4 DEF Settles, ServicesClear, EvisClear

\* What an instance of a node stands for: a VLAN of its own, or a global VRF.
InstanceHas(x, e) ==
  \/ InstanceOf(x) \in EviVlans /\ e = OwnEvi(InstanceOf(x))
  \/ InstanceOf(x) \in Names(Topology) /\ e = evi[InstanceOf(x)] /\ e # 0

\* set_local_evpn_rd: every instance has the EVI of what it stands for.
LEMMA InstanceFact ==
  ASSUME Settles, NEW n \in Nodes, NEW x \in DOMAIN instances[n]
  PROVE  InstanceHas(x, instances[n][x])
<1>1. instances[n] = IF n \in lab.evpn THEN LocalRds(n) ELSE Empty
  BY DEF Settles, OverlayDone, Ending
<1>2. instances[n] = LocalRds(n)
  BY <1>1 DEF Empty
<1>3. /\ x \in (VlansOf(n) \cap DOMAIN service) \cup GivenEvis(n) \cup {r \in Names(n) \cap Names(Topology) : evi[r] # 0}
      /\ instances[n][x] = IF x \in DOMAIN service THEN service[x].evi ELSE IF x \in GivenEvis(n) THEN lab.evi[x] ELSE evi[x]
  BY <1>2 DEF LocalRds
<1>4. CASE x \notin DOMAIN service
  <2>1. CASE x \in GivenEvis(n)
    <3>1. lab.evi[x] # 0 /\ x \in GlobalVlans /\ instances[n][x] = lab.evi[x]
      BY <1>3, <1>4, <2>1 DEF GivenEvis, Settles, FabricOK
    <3>2. x \in EviVlans /\ OwnEvi(x) = lab.evi[x]
      BY <3>1 DEF EviVlans, OwnEvi
    <3>. QED
      BY <1>4, <3>1, <3>2 DEF InstanceHas, InstanceOf
  <2>2. CASE x \notin GivenEvis(n)
    BY <1>3, <1>4, <2>2 DEF InstanceHas, InstanceOf
  <2>. QED
    BY <2>1, <2>2
<1>5. CASE x \in DOMAIN service
  <2>1. service = [v \in evpnVlans |-> VlanService(v)] /\ evpnVlans \subseteq GlobalVlans /\ \A r \in lab.bundle : evi[r] # 0
    BY DEF Settles, OverlayDone, Listing, Serving
  <2>2. x \in GlobalVlans /\ instances[n][x] = VlanService(x).evi
    BY <1>3, <1>5, <2>1
  <2>3. CASE Bundled(x)
    <3>1. lab.vlanVrf[x] \in lab.bundle /\ lab.vlanVrf[x] \in Names(Topology)
      BY <2>3 DEF Bundled, Settles, FabricOK, Typed, WorkOK
    <3>2. instances[n][x] = evi[lab.vlanVrf[x]]
      BY <2>1, <2>2, <2>3, <3>1 DEF VlanService, FinalEvi
    <3>. QED
      BY <1>5, <2>1, <2>3, <3>1, <3>2 DEF InstanceHas, InstanceOf
  <2>4. CASE ~Bundled(x)
    BY <1>5, <2>2, <2>4 DEF InstanceHas, InstanceOf, VlanService, Single, EviVlans
  <2>. QED
    BY <2>3, <2>4
<1>. QED
  BY <1>4, <1>5

\* Instances of a node with one EVI are one instance.
LEMMA InstancesApart ==
  ASSUME Settles, NEW n \in Nodes, NEW x \in DOMAIN instances[n], NEW y \in DOMAIN instances[n], instances[n][x] = instances[n][y]
  PROVE  InstanceOf(x) = InstanceOf(y)
<1> DEFINE a == InstanceOf(x)
           b == InstanceOf(y)
           e == instances[n][x]
<1>1. /\ (a \in EviVlans /\ e = OwnEvi(a)) \/ (a \in Names(Topology) /\ e = evi[a] /\ e # 0)
      /\ (b \in EviVlans /\ e = OwnEvi(b)) \/ (b \in Names(Topology) /\ e = evi[b] /\ e # 0)
  BY InstanceFact DEF InstanceHas
<1> HIDE DEF a, b, e
<1>2. CASE a \in EviVlans /\ e = OwnEvi(a) /\ b \in EviVlans /\ e = OwnEvi(b)
  <2>1. <<a, e>> \in FixedEvis /\ <<b, e>> \in FixedEvis
    BY <1>2 DEF FixedEvis, EviVlans
  <2>2. a = b
    BY <2>1 DEF Settles, ServicesClear, EvisClear
  <2>. QED
    BY <2>2 DEF a, b
<1>3. CASE ~(a \in EviVlans /\ e = OwnEvi(a) /\ b \in EviVlans /\ e = OwnEvi(b))
  <2>1. a = b
    BY <1>1, <1>3, VlanVrfApart, VrfEvisApart
  <2>. QED
    BY <2>1 DEF a, b
<1>. QED
  BY <1>2, <1>3

\* EVPN connects what the lab connects, if nothing mixes up its numbers.
LEMMA ServicesFollow ==
  ASSUME Typed, FabricOK, Progress, IdInv, MadeInv, TargetsInv, FabricInv, ServiceInv,
         NumbersClear, TargetsClear, ServicesClear
  PROVE  ServicesMeet
<1>1. SUFFICES ASSUME OverlayDone PROVE ServicesMeet
  BY DEF ServicesMeet
<1>2. stage = "done"
  BY <1>1 DEF OverlayDone, FabricInv, TurnsInOrder
<1>3. Settles
  BY <1>1, <1>2 DEF Settles, IdInv, MadeInv, TargetsInv, ServiceInv, Late
<1>. QED
  BY <1>3, VlanRoutes, Answers, InstancesApart DEF ServicesMeet

-----------------------------------------------------------------------------
(* Theorems *)

Invariant == lab \in Labs /\ TypeOK /\ Progress /\ IdInv /\ MadeInv /\ TargetsInv /\ VniInv

\* The types, with what the assumptions say of the lab.
LEMMA TypedFact == lab \in Labs /\ TypeOK => Typed
BY LabFacts, TypeParts DEF Typed

\* The inductive invariant holds in every state.
LEMMA InvariantHolds == OverlaySpec => []Invariant
<1>1. Init => Invariant
  <2>1. SUFFICES ASSUME Init PROVE Invariant
    OBVIOUS
  <2>2. lab \in Labs /\ LabOK /\ TypeOK
    BY <2>1, TypesStart, TypeParts DEF Init
  <2>. QED
    BY <2>1, <2>2, ProgressStarts, IdsStart, TargetsStart, VnisStart DEF Invariant
<1>2. Invariant /\ [OverlayNext]_<<vars, overlayVars>> => Invariant'
  <2>1. SUFFICES ASSUME Invariant, [OverlayNext]_<<vars, overlayVars>> PROVE Invariant'
    OBVIOUS
  <2>2. lab \in Labs /\ TypeOK /\ Progress /\ IdInv /\ MadeInv /\ TargetsInv /\ VniInv /\ Typed
    BY <2>1, TypedFact DEF Invariant
  <2>3. Next \/ Quiet
    BY <2>1, <2>2, OverlaySteps DEF Typed, ControlOK
  <2>4. TypeOK' /\ lab' = lab
    BY <2>2, <2>3, TypesKeep
  <2>5. ControlOK'
    BY <2>4 DEF TypeOK, ControlOK
  <2>6. Progress'
    BY <2>2, <2>3, <2>5, ProgressKeeps
  <2>7. IdInv'
    BY <2>2, <2>3, <2>5, IdsKeep
  <2>8. MadeInv'
    BY <2>2, <2>3, <2>5, MadeKeeps
  <2>9. TargetsInv'
    BY <2>2, <2>3, <2>5, TargetsKeep
  <2>10. VniInv'
    BY <2>2, <2>3, VnisKeep
  <2>. QED
    BY <2>2, <2>4, <2>6, <2>7, <2>8, <2>9, <2>10 DEF Invariant
<1>. QED
  BY <1>1, <1>2, PTL DEF OverlaySpec, OverlayInit

\* Numbers stay in their ranges, and owners keep their VRFs and VLANs.
THEOREM TypesHold == OverlaySpec => []TypeOK
<1>1. Invariant => TypeOK
  BY DEF Invariant
<1>. QED
  BY <1>1, InvariantHolds, PTL

\* If the given numbers are clear (NumbersClear), two VRFs of a lab never end with
\* one route distinguisher or one id, and a global VRF has one id on all nodes
\* (vrf.py, set_vrf_ids).
THEOREM VrfsStayApart == OverlaySpec => []VrfsDiffer
<1>1. Invariant => VrfsDiffer
  BY TypedFact, ApartDiffer DEF Invariant
<1>. QED
  BY <1>1, InvariantHolds, PTL

\* If given numbers and targets are clear (NumbersClear, TargetsClear), routes of a
\* VRF reach a VRF exactly if the lab says so: what is generated connects and
\* separates none (vrf.py, set_import_export_rt, get_vrf_id).
THEOREM RoutesGo == OverlaySpec => []RoutesGoAsTold
<1>1. Invariant => RoutesGoAsTold
  BY TypedFact, SettledRoutes DEF Invariant
<1>. QED
  BY <1>1, InvariantHolds, PTL

\* If the given VNIs are clear (VnisClear), no two segments share a VNI that do not
\* ask for it (vxlan.py, assign_vni; evpn.py, vrf_transit_vni).
THEOREM VnisStayApart == OverlaySpec => []VnisDiffer
<1>1. Invariant => VnisDiffer
  BY TypedFact, HeldDiffer DEF Invariant
<1>. QED
  BY <1>1, InvariantHolds, PTL

\* The invariant of VXLAN and EVPN holds in every state.
LEMMA FabricHolds == OverlaySpec => []FabricInv
<1>1. OverlayInit => FabricInv
  BY FabricStarts
<1>2. Invariant /\ FabricInv /\ [OverlayNext]_<<vars, overlayVars>> => FabricInv'
  BY TypedFact, FabricKeeps DEF Invariant
<1>. QED
  BY <1>1, <1>2, InvariantHolds, PTL DEF OverlaySpec

\* What a node floods in a VLAN reaches exactly the nodes of its domain with that
\* VLAN (vxlan.py, build_vtep_list).
THEOREM FloodsReach == OverlaySpec => []FloodsReachTheVlan
<1>1. Invariant /\ FabricInv => FloodsReachTheVlan
  BY TypedFact, FabricFacts, FloodsFollow DEF Invariant
<1>. QED
  BY <1>1, InvariantHolds, FabricHolds, PTL

\* A host in a VRF behind one node reaches every EVPN VLAN of that VRF behind
\* another one (evpn.py, check_node_vrf_irb).
THEOREM IrbWorks == OverlaySpec => []IrbReaches
<1>1. Invariant /\ FabricInv => IrbReaches
  BY TypedFact, FabricFacts, IrbFollows DEF Invariant
<1>. QED
  BY <1>1, InvariantHolds, FabricHolds, PTL

\* The invariant of EVPN holds in every state.
LEMMA ServiceHolds == OverlaySpec => []ServiceInv
<1>1. OverlayInit => ServiceInv
  BY ServicesStart
<1>2. Invariant /\ FabricInv /\ ServiceInv /\ [OverlayNext]_<<vars, overlayVars>> => ServiceInv'
  BY TypedFact, ServicesKeep DEF Invariant
<1>. QED
  BY <1>1, <1>2, InvariantHolds, FabricHolds, PTL DEF OverlaySpec

\* EVPN connects what the lab connects: routes of VLANs go where the lab says,
\* neighbors answer, and EVIs of a node differ, if the numbers of the lab and
\* those that are generated are clear, which no hook compares (evpn.py,
\* create_vlan_service, enable_evpn_af, set_local_evpn_rd).
THEOREM ServicesWork == OverlaySpec => [](NumbersClear /\ TargetsClear /\ ServicesClear => ServicesMeet)
<1>1. Invariant /\ FabricInv /\ ServiceInv => (NumbersClear /\ TargetsClear /\ ServicesClear => ServicesMeet)
  BY TypedFact, FabricFacts, ServicesFollow DEF Invariant
<1>. QED
  BY <1>1, InvariantHolds, FabricHolds, ServiceHolds, PTL
=============================================================================
