----------------------------- MODULE Groups_proofs -----------------------------
(***************************************************************************)
(* Proofs about groups, for any labs, groups and hierarchies of them: the   *)
(* groups of BGP AS, filled before devices and modules are settled, hold     *)
(* the nodes that run BGP in that AS when all is settled.                    *)
(***************************************************************************)
EXTENDS Groups, TLAPS

-----------------------------------------------------------------------------
(* The inductive invariant *)

\* Nodes and groups have the fields they always have.
Fields ==
  /\ lab \in Labs /\ DOMAIN lab.groups \subseteq Groups
  /\ \A n \in Nodes : DOMAIN node[n] = DOMAIN NewNode
  /\ \A g \in Groups : DOMAIN grp[g] = DOMAIN NewGroup

\* No group of an AS takes a node out of it.
NobodyLeaves == \A g \in AsNames \cap Groups : StaysInAs(grp[g].data)

\* The groups of AS are exact as far as can be known.
Exact == \A as \in AsNames :
  IF as \in Groups THEN grp[as].members = Speakers(as) ELSE Speakers(as) = {}

\* The modules of the topology have reached the nodes they go to.
Settled == \A n \in Nodes : node[n].module = Missing => lab.module = {} \/ IsHost(n)

FilledStages == {"as_order", "as_data", "default_device", "default_module", "config", "removal", "done"}
SettledStages == {"config", "removal", "done"}

GroupsInv ==
  /\ Fields
  /\ NobodyLeaves
  /\ stage \in FilledStages => Exact
  /\ stage \in SettledStages => Settled

-----------------------------------------------------------------------------
(* Lemmas about what a node runs *)

LEMMA FieldNames ==
  /\ DOMAIN NewNode = {"device", "module", "data", "config", "group"}
  /\ DOMAIN NewGroup = {"members", "auto", "device", "module", "data", "config"}
BY DEF NewNode, NewGroup

\* What a node does not have itself it may get from another function.
LEMMA OverFact ==
  ASSUME NEW f, NEW g
  PROVE  /\ DOMAIN Over(f, g) = DOMAIN f \cup DOMAIN g
         /\ \A x \in DOMAIN f : Over(f, g)[x] = f[x]
         /\ \A x \in DOMAIN g \ DOMAIN f : Over(f, g)[x] = g[x]
BY DEF Over

\* A node runs the same modules as long as its own modules, its device and its
\* being a host stay the same.
SameSpeaker(n) ==
  /\ ModulesOf(n)' = ModulesOf(n)
  /\ AsOf(n)' = AsOf(n)

LEMMA SpeakersKeep ==
  ASSUME Nodes' = Nodes, \A n \in Nodes : SameSpeaker(n), NEW as
  PROVE  Speakers(as)' = Speakers(as)
BY DEF Speakers, SameSpeaker

\* Groups that keep their members stay exact.
LEMMA ExactKeeps ==
  ASSUME Exact, Nodes' = Nodes, \A n \in Nodes : SameSpeaker(n),
         Groups' = Groups, \A g \in Groups : grp'[g].members = grp[g].members
  PROVE  Exact'
<1>1. \A as : Speakers(as)' = Speakers(as)
  BY SpeakersKeep
<1>. QED
  BY <1>1 DEF Exact

\* A node whose device, modules and data say the same runs the same.
LEMMA SameNode ==
  ASSUME lab' = lab, NEW n,
         DeviceOf(n)' = DeviceOf(n),
         node'[n].module = node[n].module,
         AsOf(n)' = AsOf(n),
         Role(n)' = "host" <=> Role(n) = "host"
  PROVE  SameSpeaker(n) /\ IsHost(n)' = IsHost(n)
<1>1. IsHost(n)' = IsHost(n)
  BY DEF IsHost
<1>2. ModulesOf(n)' = ModulesOf(n)
  BY <1>1 DEF ModulesOf
<1>. QED
  BY <1>1, <1>2 DEF SameSpeaker

-----------------------------------------------------------------------------
(* The fields and the data of groups *)

LEMMA FieldsInit ==
  ASSUME Init
  PROVE  Fields /\ NobodyLeaves
<1>. USE FieldsAssumption, AsGroupsAssumption
<1>1. lab \in Labs /\ node = lab.nodes /\ grp = lab.groups
  BY DEF Init
<1>. QED
  BY <1>1 DEF Fields, NobodyLeaves, Nodes, Groups

LEMMA NewFields ==
  /\ DOMAIN NewNode = DOMAIN NewNode
  /\ NewGroup.data = Nothing
  /\ StaysInAs(Nothing)
BY DEF NewGroup, StaysInAs, Nothing

\* Created members are nodes with nothing but their name.
LEMMA CreatedFields ==
  ASSUME Fields, NEW gs, NEW auto, node' = CreateMembers(gs, auto)
  PROVE  \A n \in Nodes' : DOMAIN node'[n] = DOMAIN NewNode
<1> DEFINE new == (UNION {gs[g].members : g \in {h \in DOMAIN gs : gs[h].auto \/ auto}}) \ AllGroups
           made == [n \in new |-> NewNode]
<1>1. node' = Over(node, made)
  BY DEF CreateMembers
<1>2. DOMAIN made = new /\ \A n \in new : made[n] = NewNode
  OBVIOUS
<1>. HIDE DEF made, new
<1>3. /\ DOMAIN node' = DOMAIN node \cup new
      /\ \A n \in DOMAIN node : node'[n] = node[n]
      /\ \A n \in new \ DOMAIN node : node'[n] = NewNode
  <2>1. /\ DOMAIN Over(node, made) = DOMAIN node \cup DOMAIN made
        /\ \A n \in DOMAIN node : Over(node, made)[n] = node[n]
        /\ \A n \in DOMAIN made \ DOMAIN node : Over(node, made)[n] = made[n]
    BY OverFact
  <2>. QED
    BY <1>1, <1>2, <2>1
<1>. QED
  BY <1>3 DEF Fields, Nodes

LEMMA MergedFields ==
  ASSUME NEW d, NEW t
  PROVE  /\ DOMAIN Merged(d, t) = DOMAIN NewGroup
         /\ StaysInAs(d.data) /\ StaysInAs(t.data) => StaysInAs(Merged(d, t).data)
<1>1. DOMAIN Merged(d, t) = DOMAIN NewGroup
  BY FieldNames DEF Merged
<1>2. Merged(d, t).data = Over(t.data, d.data)
  BY DEF Merged
<1>3. ASSUME StaysInAs(d.data), StaysInAs(t.data)
      PROVE  StaysInAs(Over(t.data, d.data))
  <2>1. /\ DOMAIN Over(t.data, d.data) = DOMAIN t.data \cup DOMAIN d.data
        /\ \A x \in DOMAIN t.data : Over(t.data, d.data)[x] = t.data[x]
        /\ \A x \in DOMAIN d.data \ DOMAIN t.data : Over(t.data, d.data)[x] = d.data[x]
    BY OverFact
  <2>. QED
    BY <1>3, <2>1 DEF StaysInAs
<1>. QED
  BY <1>1, <1>2, <1>3

\* Every step of the functions leaves the fields, and no group gets data that
\* would take its nodes out of an AS.
LEMMA FieldsOfCreation ==
  ASSUME Fields, NobodyLeaves, PrecheckGroups \/ PrecheckDefaultGroups
  PROVE  Fields' /\ NobodyLeaves'
<1>1. lab' = lab /\ grp' = grp
  BY DEF PrecheckGroups, PrecheckDefaultGroups, Fail
<1>2. \A n \in Nodes' : DOMAIN node'[n] = DOMAIN NewNode
  <2>1. CASE node' = node
    BY <2>1 DEF Fields, Nodes
  <2>2. CASE node' = CreateMembers(lab.groups, lab.auto)
    BY <2>2, CreatedFields
  <2>3. CASE node' = CreateMembers(lab.defaults, FALSE)
    BY <2>3, CreatedFields
  <2>. QED
    BY <2>1, <2>2, <2>3 DEF PrecheckGroups, PrecheckDefaultGroups, Fail
<1>. QED
  BY <1>1, <1>2 DEF Fields, NobodyLeaves, Groups

LEMMA FieldsOfMerge ==
  ASSUME Fields, NobodyLeaves, MergeDefaultGroups
  PROVE  Fields' /\ NobodyLeaves'
<1>1. lab' = lab /\ node' = node
  BY DEF MergeDefaultGroups, Fail
<1>2. CASE grp' = grp
  BY <1>1, <1>2 DEF Fields, NobodyLeaves, Nodes, Groups
<1>3. CASE grp' # grp
  <2>1. grp' = [g \in AllGroups |->
                 IF g \notin Groups THEN Pruned(g)
                 ELSE IF g \in DOMAIN lab.defaults THEN Merged(Pruned(g), grp[g]) ELSE grp[g]]
    BY <1>3 DEF MergeDefaultGroups, Fail
  <2>2. ASSUME NEW g \in DOMAIN lab.defaults
        PROVE  /\ DOMAIN Pruned(g) = DOMAIN NewGroup
               /\ g \in AsNames => StaysInAs(Pruned(g).data)
    <3>1. DOMAIN lab.defaults[g] = DOMAIN NewGroup /\ (g \in AsNames => StaysInAs(lab.defaults[g].data))
      BY <2>2, FieldsAssumption, AsGroupsAssumption DEF Fields
    <3>2. Pruned(g) = [lab.defaults[g] EXCEPT !.members = @ \cap (Nodes \cup DOMAIN lab.defaults)]
      BY DEF Pruned
    <3>3. DOMAIN Pruned(g) = DOMAIN lab.defaults[g] /\ Pruned(g).data = lab.defaults[g].data
      BY <3>1, <3>2, FieldNames
    <3>. QED
      BY <3>1, <3>3
  <2>3. ASSUME NEW g \in AllGroups
        PROVE  /\ DOMAIN grp'[g] = DOMAIN NewGroup
               /\ g \in AsNames => StaysInAs(grp'[g].data)
    <3>1. CASE g \notin Groups
      <4>1. grp'[g] = Pruned(g)
        BY <2>1, <3>1
      <4>2. CASE g \in DOMAIN lab.defaults
        BY <2>2, <4>1, <4>2
      <4>3. CASE g \in DOMAIN lab.groups
        BY <3>1, <4>3 DEF Fields
      <4>. QED
        BY <4>2, <4>3 DEF AllGroups
    <3>2. CASE g \in Groups /\ g \in DOMAIN lab.defaults
      <4>1. grp'[g] = Merged(Pruned(g), grp[g])
        BY <2>1, <3>2
      <4>. QED
        BY <2>2, <3>2, <4>1, MergedFields DEF NobodyLeaves
    <3>3. CASE g \in Groups /\ g \notin DOMAIN lab.defaults
      <4>1. grp'[g] = grp[g]
        BY <2>1, <3>3
      <4>. QED
        BY <3>3, <4>1 DEF Fields, NobodyLeaves
    <3>. QED
      BY <3>1, <3>2, <3>3
  <2>4. DOMAIN grp' = AllGroups /\ DOMAIN lab.groups \subseteq AllGroups
    BY <2>1 DEF AllGroups
  <2>. QED
    BY <1>1, <2>3, <2>4 DEF Fields, NobodyLeaves, Nodes, Groups
<1>. QED
  BY <1>2, <1>3

LEMMA FieldsOfAsking ==
  ASSUME Fields, NobodyLeaves, AddNodeLevelGroups
  PROVE  Fields' /\ NobodyLeaves'
<1> DEFINE asked == UNION {node[n].group : n \in Nodes}
           Asking(g) == {n \in Nodes : g \in node[n].group}
           old(g) == IF g \in Groups THEN grp[g] ELSE NewGroup
<1>1. lab' = lab /\ node' = node
  BY DEF AddNodeLevelGroups
<1>2. grp' = [g \in Groups \cup asked |-> [old(g) EXCEPT !.members = @ \cup Asking(g)]]
  BY DEF AddNodeLevelGroups
<1>3. ASSUME NEW g \in Groups \cup asked
      PROVE  /\ DOMAIN grp'[g] = DOMAIN NewGroup
             /\ g \in AsNames => StaysInAs(grp'[g].data)
  <2>1. grp'[g] = [old(g) EXCEPT !.members = @ \cup Asking(g)]
    BY <1>2
  <2>2. DOMAIN old(g) = DOMAIN NewGroup /\ (g \in AsNames => StaysInAs(old(g).data))
    BY NewFields DEF Fields, NobodyLeaves
  <2>3. DOMAIN grp'[g] = DOMAIN old(g) /\ grp'[g].data = old(g).data
    <3>. HIDE DEF old, Asking
    <3>. QED
      BY <2>1, <2>2, FieldNames
  <2>. QED
    BY <2>2, <2>3
<1>4. DOMAIN grp' = Groups \cup asked
  BY <1>2
<1>. HIDE DEF asked, Asking, old
<1>. QED
  BY <1>1, <1>3, <1>4 DEF Fields, NobodyLeaves, Nodes, Groups

\* Steps that only change the data of the nodes.
LEMMA FieldsOfNodes ==
  ASSUME Fields, NobodyLeaves, lab' = lab, grp' = grp,
         Nodes' = Nodes, \A n \in Nodes : DOMAIN node'[n] = DOMAIN node[n]
  PROVE  Fields' /\ NobodyLeaves'
BY DEF Fields, NobodyLeaves, Groups

LEMMA FieldsOfCopies ==
  ASSUME Fields, NobodyLeaves,
         \/ CopyGroupDevice \/ CopyGroupModule \/ CopyGroupNodeData \/ ProcessAsList
         \/ FindNodeDevice \/ AugmentNodeModule \/ MergeGroupTemplates
  PROVE  Fields' /\ NobodyLeaves'
<1>1. lab' = lab /\ grp' = grp
  BY DEF CopyGroupDevice, CopyGroupModule, CopyGroupNodeData, ProcessAsList,
         FindNodeDevice, AugmentNodeModule, MergeGroupTemplates, Fail
<1>2. Nodes' = Nodes /\ \A n \in Nodes : DOMAIN node'[n] = DOMAIN node[n]
  <2>1. CASE node' = node
    BY <2>1 DEF Nodes
  <2>2. CASE CopyGroupDevice /\ node' # node
    BY <2>2 DEF CopyGroupDevice, Fail, Nodes
  <2>3. CASE CopyGroupModule /\ node' # node
    BY <2>3 DEF CopyGroupModule, Fail, Nodes
  <2>4. CASE CopyGroupNodeData
    BY <2>4 DEF CopyGroupNodeData, WithData, Nodes
  <2>5. CASE ProcessAsList /\ node' # node
    BY <2>5 DEF ProcessAsList, Fail, Nodes
  <2>6. CASE FindNodeDevice
    BY <2>6 DEF FindNodeDevice, Nodes
  <2>7. CASE AugmentNodeModule
    BY <2>7 DEF AugmentNodeModule, Nodes
  <2>8. CASE MergeGroupTemplates
    BY <2>8 DEF MergeGroupTemplates, Nodes
  <2>. QED
    BY <2>1, <2>2, <2>3, <2>4, <2>5, <2>6, <2>7, <2>8
<1>. QED
  BY <1>1, <1>2, FieldsOfNodes

LEMMA FieldsOfRemoval ==
  ASSUME Fields, NobodyLeaves, RemoveTemplates
  PROVE  Fields' /\ NobodyLeaves'
<1>1. lab' = lab
  BY DEF RemoveTemplates
<1>2. DOMAIN node' = Nodes /\ \A n \in Nodes : DOMAIN node'[n] = DOMAIN NewNode
  BY DEF RemoveTemplates, Fields
<1>3. grp' = [g \in Groups |-> [grp[g] EXCEPT !.config = <<>>]]
  BY DEF RemoveTemplates
<1>4. ASSUME NEW g \in Groups
      PROVE  DOMAIN grp'[g] = DOMAIN NewGroup /\ grp'[g].data = grp[g].data
  BY <1>3, FieldNames DEF Fields
<1>5. DOMAIN grp' = Groups
  BY <1>3
<1>. QED
  BY <1>1, <1>2, <1>4, <1>5 DEF Fields, NobodyLeaves, Nodes, Groups

\* What filling the groups of AS makes of the groups.
LEMMA FilledGroups ==
  ASSUME Fields, CreateBgpAutogroups, ~ failed'
  PROVE  /\ lab' = lab /\ node' = node
         /\ Groups' = Groups \cup {as \in AsNames : Speakers(as) # {}}
         /\ \A g \in Groups' : /\ DOMAIN grp'[g] = DOMAIN NewGroup
                               /\ grp'[g].data = IF g \in Groups THEN grp[g].data ELSE NewGroup.data
         /\ \A as \in AsNames \cap Groups' : grp'[as].members = Speakers(as)
<1> DEFINE used == {as \in AsNames : Speakers(as) # {}}
           old(as) == IF as \in Groups THEN grp[as] ELSE NewGroup
           new == [as \in used |-> [old(as) EXCEPT !.members = @ \cup Speakers(as)]]
<1>1. /\ lab' = lab /\ node' = node
      /\ grp' = Over(new, grp)
      /\ \A as \in AsNames \cap Groups : grp[as].members = {}
  BY DEF CreateBgpAutogroups, Fail
<1>2. /\ DOMAIN grp' = used \cup Groups
      /\ \A as \in used : grp'[as] = [old(as) EXCEPT !.members = @ \cup Speakers(as)]
      /\ \A g \in Groups \ used : grp'[g] = grp[g]
  <2>1. /\ DOMAIN Over(new, grp) = DOMAIN new \cup DOMAIN grp
        /\ \A g \in DOMAIN new : Over(new, grp)[g] = new[g]
        /\ \A g \in DOMAIN grp \ DOMAIN new : Over(new, grp)[g] = grp[g]
    <3>. HIDE DEF new
    <3>. QED
      BY OverFact
  <2>2. DOMAIN new = used /\ \A as \in used : new[as] = [old(as) EXCEPT !.members = @ \cup Speakers(as)]
    OBVIOUS
  <2>. HIDE DEF new, used, old
  <2>. QED
    BY <1>1, <2>1, <2>2 DEF Groups
<1>3. ASSUME NEW as \in used
      PROVE  /\ DOMAIN grp'[as] = DOMAIN NewGroup
             /\ grp'[as].data = IF as \in Groups THEN grp[as].data ELSE NewGroup.data
             /\ grp'[as].members = Speakers(as)
  <2>1. DOMAIN old(as) = DOMAIN NewGroup /\ old(as).members = {}
    BY <1>1 DEF Fields, NewGroup
  <2>2. grp'[as] = [old(as) EXCEPT !.members = @ \cup Speakers(as)]
    BY <1>2
  <2>3. old(as).data = IF as \in Groups THEN grp[as].data ELSE NewGroup.data
    OBVIOUS
  <2>4. /\ DOMAIN grp'[as] = DOMAIN NewGroup
        /\ grp'[as].data = old(as).data
        /\ grp'[as].members = Speakers(as)
    <3>. HIDE DEF old
    <3>. QED
      BY <2>1, <2>2, FieldNames
  <2>. QED
    BY <2>3, <2>4
<1>4. ASSUME NEW g \in Groups \ used
      PROVE  /\ DOMAIN grp'[g] = DOMAIN NewGroup
             /\ grp'[g].data = grp[g].data
             /\ g \in AsNames => grp'[g].members = Speakers(g)
  BY <1>1, <1>2, <1>4 DEF Fields
<1>. QED
  BY <1>1, <1>2, <1>3, <1>4 DEF Groups

LEMMA FillingIsExact ==
  ASSUME Fields, NobodyLeaves, CreateBgpAutogroups, ~ failed'
  PROVE  Fields' /\ NobodyLeaves' /\ Exact'
<1>1. /\ lab' = lab /\ node' = node
      /\ Groups' = Groups \cup {as \in AsNames : Speakers(as) # {}}
      /\ \A g \in Groups' : /\ DOMAIN grp'[g] = DOMAIN NewGroup
                            /\ grp'[g].data = IF g \in Groups THEN grp[g].data ELSE NewGroup.data
      /\ \A as \in AsNames \cap Groups' : grp'[as].members = Speakers(as)
  BY FilledGroups
<1>2. Fields'
  BY <1>1 DEF Fields, Nodes
<1>3. NobodyLeaves'
  BY <1>1, NewFields DEF NobodyLeaves
<1>4. Exact'
  <2>1. \A as : Speakers(as)' = Speakers(as)
    BY <1>1 DEF Speakers, Nodes, ModulesOf, AsOf, IsHost, DeviceOf, Role
  <2>. QED
    BY <1>1, <2>1 DEF Exact
<1>. QED
  BY <1>2, <1>3, <1>4

-----------------------------------------------------------------------------
(* What later steps do to the nodes of an AS *)

\* The data of the group of an AS change neither the AS nor the modules.
LEMMA CopyingStays ==
  ASSUME Fields, NobodyLeaves, CopyGroupNodeData, stage = "as_data"
  PROVE  lab' = lab /\ grp' = grp /\ Nodes' = Nodes /\ \A n \in Nodes : SameSpeaker(n)
<1> DEFINE g == Head(todo)
<1>1. lab' = lab /\ grp' = grp /\ Nodes' = Nodes
  BY DEF CopyGroupNodeData, Nodes
<1>2. SUFFICES ASSUME NEW n \in Nodes PROVE SameSpeaker(n)
  BY <1>1
<1>3. CASE node'[n] = node[n]
  BY <1>1, <1>3 DEF SameSpeaker, ModulesOf, AsOf, IsHost, DeviceOf, Role
<1>4. CASE node'[n] # node[n]
  <2>1. g \in AsNames /\ node'[n] = WithData(n, grp[g].data)
    BY <1>2, <1>4 DEF CopyGroupNodeData
  <2>2. StaysInAs(Useful(n, grp[g].data))
    <3>1. g \in Groups => StaysInAs(grp[g].data)
      BY <2>1 DEF NobodyLeaves
    <3>2. g \in Groups
      BY <1>2, <1>4 DEF CopyGroupNodeData, GroupMembers
    <3>. QED
      BY <3>1, <3>2 DEF StaysInAs, Useful
  <2> DEFINE given == Useful(n, grp[g].data)
             data == Over(node[n].data, given)
  <2>3. node'[n].device = node[n].device /\ node'[n].module = node[n].module /\ node'[n].data = data
    <3>1. node'[n] = [node[n] EXCEPT !.data = data]
      BY <2>1 DEF WithData
    <3>. HIDE DEF data
    <3>. QED
      BY <1>2, <3>1, FieldNames DEF Fields
  <2>4. /\ DOMAIN data = DOMAIN node[n].data \cup DOMAIN given
        /\ \A x \in DOMAIN node[n].data : data[x] = node[n].data[x]
        /\ \A x \in DOMAIN given \ DOMAIN node[n].data : data[x] = given[x]
    BY OverFact
  <2>. HIDE DEF given, data, g
  <2>5. AsOf(n)' = AsOf(n)
    BY <1>1, <2>2, <2>3, <2>4 DEF AsOf, StaysInAs, given
  <2>6. Role(n)' = "host" <=> Role(n) = "host"
    BY <2>2, <2>3, <2>4 DEF Role, StaysInAs, given
  <2>7. DeviceOf(n)' = DeviceOf(n)
    BY <2>3 DEF DeviceOf
  <2>. QED
    BY <1>1, <2>3, <2>5, <2>6, <2>7, SameNode
<1>. QED
  BY <1>3, <1>4

\* The default device is the one the node was taken to have.
LEMMA DeviceStays ==
  ASSUME Fields, FindNodeDevice
  PROVE  lab' = lab /\ grp' = grp /\ Nodes' = Nodes /\ \A n \in Nodes : SameSpeaker(n)
<1>1. lab' = lab /\ grp' = grp /\ Nodes' = Nodes
  BY DEF FindNodeDevice, Nodes
<1>2. SUFFICES ASSUME NEW n \in Nodes PROVE SameSpeaker(n)
  BY <1>1
<1>3. node'[n] = [node[n] EXCEPT !.device = DeviceOf(n)]
  BY DEF FindNodeDevice
<1>4. node'[n].device = DeviceOf(n) /\ node'[n].module = node[n].module /\ node'[n].data = node[n].data
  BY <1>3, FieldNames DEF Fields
<1>5. DeviceOf(n)' = DeviceOf(n)
  BY <1>4 DEF DeviceOf
<1>6. AsOf(n)' = AsOf(n) /\ Role(n)' = Role(n)
  BY <1>1, <1>4 DEF AsOf, Role
<1>. QED
  BY <1>1, <1>4, <1>5, <1>6, SameNode

\* The modules of the topology reach the nodes that were taken to run them.
LEMMA ModulesArrive ==
  ASSUME Fields, AugmentNodeModule
  PROVE  /\ lab' = lab /\ grp' = grp /\ Nodes' = Nodes
         /\ \A n \in Nodes : SameSpeaker(n)
         /\ Settled'
<1>1. lab' = lab /\ grp' = grp /\ Nodes' = Nodes
  BY DEF AugmentNodeModule, Nodes
<1>2. ASSUME NEW n \in Nodes
      PROVE  SameSpeaker(n) /\ (node'[n].module = Missing => lab.module = {} \/ IsHost(n)')
  <2>1. CASE node[n].module = Missing /\ lab.module # {} /\ ~ IsHost(n)
    <3>1. node'[n] = [node[n] EXCEPT !.module = <<lab.module>>]
      BY <2>1 DEF AugmentNodeModule
    <3>2. node'[n].device = node[n].device /\ node'[n].module = <<lab.module>> /\ node'[n].data = node[n].data
      BY <3>1, FieldNames DEF Fields
    <3>3. <<lab.module>> # Missing /\ <<lab.module>>[1] = lab.module
      BY DEF Missing
    <3>4. ModulesOf(n) = lab.module /\ ModulesOf(n)' = lab.module
      BY <2>1, <3>2, <3>3 DEF ModulesOf
    <3>5. AsOf(n)' = AsOf(n)
      BY <1>1, <3>2 DEF AsOf
    <3>. QED
      BY <3>2, <3>3, <3>4, <3>5 DEF SameSpeaker
  <2>2. CASE ~ (node[n].module = Missing /\ lab.module # {} /\ ~ IsHost(n))
    <3>1. node'[n] = node[n]
      BY <2>2 DEF AugmentNodeModule
    <3>2. SameSpeaker(n) /\ IsHost(n)' = IsHost(n)
      BY <1>1, <3>1 DEF SameSpeaker, ModulesOf, AsOf, IsHost, DeviceOf, Role
    <3>. QED
      BY <2>2, <3>1, <3>2
  <2>. QED
    BY <2>1, <2>2
<1>. QED
  BY <1>1, <1>2 DEF Settled

\* Templates change neither the nodes of an AS nor what they run.
LEMMA TemplatesKeep ==
  ASSUME Fields, MergeGroupTemplates \/ RemoveTemplates
  PROVE  /\ lab' = lab /\ Nodes' = Nodes /\ Groups' = Groups
         /\ \A g \in Groups : grp'[g].members = grp[g].members
         /\ \A n \in Nodes : SameSpeaker(n)
         /\ Settled => Settled'
<1>1. lab' = lab /\ Nodes' = Nodes
  BY DEF MergeGroupTemplates, RemoveTemplates, Nodes
<1>2. Groups' = Groups /\ \A g \in Groups : grp'[g].members = grp[g].members
  <2>1. CASE grp' = grp
    BY <2>1 DEF Groups
  <2>2. CASE grp' = [g \in Groups |-> [grp[g] EXCEPT !.config = <<>>]]
    BY <2>2, FieldNames DEF Fields, Groups
  <2>. QED
    BY <2>1, <2>2 DEF MergeGroupTemplates, RemoveTemplates
<1>3. ASSUME NEW n \in Nodes
      PROVE  SameSpeaker(n) /\ node'[n].module = node[n].module /\ IsHost(n)' = IsHost(n)
  <2>1. \/ node'[n] = node[n]
        \/ \E c : node'[n] = [node[n] EXCEPT !.config = c]
    BY DEF MergeGroupTemplates, RemoveTemplates
  <2>2. /\ node'[n].device = node[n].device
        /\ node'[n].module = node[n].module
        /\ node'[n].data = node[n].data
    BY <2>1, FieldNames DEF Fields
  <2>3. DeviceOf(n)' = DeviceOf(n) /\ AsOf(n)' = AsOf(n) /\ Role(n)' = Role(n)
    BY <1>1, <2>2 DEF DeviceOf, AsOf, Role
  <2>. QED
    BY <1>1, <2>2, <2>3, SameNode
<1>4. Settled => Settled'
  BY <1>1, <1>3 DEF Settled
<1>. QED
  BY <1>1, <1>2, <1>3, <1>4

-----------------------------------------------------------------------------
(* The theorems *)

\* A step that fails leaves everything else as it was.
LEMMA NothingChanges ==
  ASSUME GroupsInv, UNCHANGED <<lab, stage, node, grp>>
  PROVE  GroupsInv'
<1>1. Fields' /\ NobodyLeaves'
  BY DEF GroupsInv, Fields, NobodyLeaves, Nodes, Groups
<1>2. \A n \in Nodes : SameSpeaker(n) /\ IsHost(n)' = IsHost(n)
  BY DEF SameSpeaker, ModulesOf, AsOf, IsHost, DeviceOf, Role
<1>3. Nodes' = Nodes /\ Groups' = Groups /\ \A g \in Groups : grp'[g].members = grp[g].members
  BY DEF Nodes, Groups
<1>4. Exact => Exact'
  BY <1>2, <1>3, ExactKeeps
<1>5. Settled => Settled'
  BY <1>2, <1>3 DEF Settled
<1>. QED
  BY <1>1, <1>4, <1>5 DEF GroupsInv

\* The next function starts from what the last one left.
LEMMA NextStageKeeps ==
  ASSUME GroupsInv, NextStage
  PROVE  GroupsInv'
<1>1. UNCHANGED <<lab, node, grp>>
  BY DEF NextStage
<1>2. Fields' /\ NobodyLeaves'
  BY <1>1 DEF GroupsInv, Fields, NobodyLeaves, Nodes, Groups
<1>3. /\ stage' \in FilledStages => stage \in FilledStages
      /\ stage' \in SettledStages => stage \in SettledStages
  BY DEF NextStage, FilledStages, SettledStages
<1>4. \A n \in Nodes : SameSpeaker(n) /\ IsHost(n)' = IsHost(n)
  BY <1>1 DEF SameSpeaker, ModulesOf, AsOf, IsHost, DeviceOf, Role
<1>5. Nodes' = Nodes /\ Groups' = Groups /\ \A g \in Groups : grp'[g].members = grp[g].members
  BY <1>1 DEF Nodes, Groups
<1>6. Exact => Exact'
  BY <1>4, <1>5, ExactKeeps
<1>7. Settled => Settled'
  BY <1>1, <1>4, <1>5 DEF Settled
<1>. QED
  BY <1>2, <1>3, <1>6, <1>7 DEF GroupsInv

\* Before the groups of AS are filled nothing has to be exact.
LEMMA EarlySteps ==
  ASSUME GroupsInv,
         \/ PrecheckGroups \/ PrecheckDefaultGroups \/ CheckGroupDataStructure \/ MergeDefaultGroups
         \/ AddNodeLevelGroups \/ CheckRecursiveGroups \/ ValidateGroups
         \/ CopyGroupDevice \/ CopyGroupModule \/ ProcessAsList \/ (CopyGroupNodeData /\ stage = "data")
  PROVE  GroupsInv'
<1>1. Fields' /\ NobodyLeaves'
  <2>1. CASE UNCHANGED <<lab, node, grp>>
    BY <2>1 DEF GroupsInv, Fields, NobodyLeaves, Nodes, Groups
  <2>2. CASE CheckGroupDataStructure \/ CheckRecursiveGroups \/ ValidateGroups
    BY <2>1, <2>2 DEF CheckGroupDataStructure, CheckRecursiveGroups, ValidateGroups, Fail
  <2>. QED
    BY <2>2, FieldsOfCreation, FieldsOfMerge, FieldsOfAsking, FieldsOfCopies DEF GroupsInv
<1>2. stage' \notin FilledStages /\ stage' \notin SettledStages
  BY DEF PrecheckGroups, PrecheckDefaultGroups, CheckGroupDataStructure, MergeDefaultGroups,
         AddNodeLevelGroups, CheckRecursiveGroups, ValidateGroups, CopyGroupDevice, CopyGroupModule,
         ProcessAsList, CopyGroupNodeData, Fail, FilledStages, SettledStages
<1>. QED
  BY <1>1, <1>2 DEF GroupsInv

\* GroupsInv is inductive: types and data of groups, and from the filling of
\* the groups of AS on that they are exact, provided none of them gives its
\* members another AS or the role host (AsGroupsAssumption; the code allows it).
THEOREM GroupsInvariance == Spec => []GroupsInv
<1>1. ASSUME Init PROVE GroupsInv
  <2>1. stage \notin FilledStages /\ stage \notin SettledStages
    BY <1>1 DEF Init, FilledStages, SettledStages
  <2>. QED
    BY <1>1, <2>1, FieldsInit DEF GroupsInv
<1>2. ASSUME GroupsInv, [Next]_vars PROVE GroupsInv'
  <2>. USE <1>2 DEF GroupsInv
  <2>1. CASE UNCHANGED vars
    BY <2>1, NothingChanges DEF vars
  <2>2. CASE \/ PrecheckGroups \/ PrecheckDefaultGroups \/ CheckGroupDataStructure \/ MergeDefaultGroups
             \/ AddNodeLevelGroups \/ CheckRecursiveGroups \/ ValidateGroups
             \/ CopyGroupDevice \/ CopyGroupModule \/ ProcessAsList \/ (CopyGroupNodeData /\ stage = "data")
    BY <2>2, EarlySteps
  <2>3. CASE CopyGroupNodeData /\ stage # "data"
    <3>1. stage = "as_data" /\ stage' = stage
      BY <2>3 DEF CopyGroupNodeData
    <3>2. Fields' /\ NobodyLeaves'
      BY <2>3, FieldsOfCopies
    <3>3. lab' = lab /\ grp' = grp /\ Nodes' = Nodes /\ \A n \in Nodes : SameSpeaker(n)
      BY <2>3, <3>1, CopyingStays
    <3>4. Exact'
      BY <3>1, <3>3, ExactKeeps DEF FilledStages, Groups
    <3>. QED
      BY <3>1, <3>2, <3>4 DEF SettledStages
  <2>4. CASE CreateBgpAutogroups
    <3>1. CASE failed'
      BY <2>4, <3>1, NothingChanges DEF CreateBgpAutogroups, Fail
    <3>2. CASE ~ failed'
      <4>1. Fields' /\ NobodyLeaves' /\ Exact'
        BY <2>4, <3>2, FillingIsExact
      <4>2. stage' \notin SettledStages
        BY <2>4 DEF CreateBgpAutogroups, Fail, SettledStages
      <4>. QED
        BY <4>1, <4>2
    <3>. QED
      BY <3>1, <3>2
  <2>5. CASE FindNodeDevice
    <3>1. stage \in FilledStages /\ stage' \notin SettledStages
      BY <2>5 DEF FindNodeDevice, FilledStages, SettledStages
    <3>2. Fields' /\ NobodyLeaves'
      BY <2>5, FieldsOfCopies
    <3>3. Exact'
      BY <2>5, <3>1, DeviceStays, ExactKeeps DEF Groups
    <3>. QED
      BY <3>1, <3>2, <3>3
  <2>6. CASE AugmentNodeModule
    <3>1. stage \in FilledStages
      BY <2>6 DEF AugmentNodeModule, FilledStages
    <3>2. Fields' /\ NobodyLeaves'
      BY <2>6, FieldsOfCopies
    <3>3. Exact' /\ Settled'
      BY <2>6, <3>1, ModulesArrive, ExactKeeps DEF Groups
    <3>. QED
      BY <3>2, <3>3
  <2>7. CASE MergeGroupTemplates \/ RemoveTemplates
    <3>1. stage \in FilledStages /\ stage \in SettledStages
      BY <2>7 DEF MergeGroupTemplates, RemoveTemplates, FilledStages, SettledStages
    <3>2. Fields' /\ NobodyLeaves'
      BY <2>7, FieldsOfCopies, FieldsOfRemoval
    <3>3. Exact' /\ Settled'
      BY <2>7, <3>1, TemplatesKeep, ExactKeeps DEF FilledStages, SettledStages
    <3>. QED
      BY <3>2, <3>3
  <2>8. CASE NextStage
    BY <2>8, NextStageKeeps
  <2>9. Next \/ UNCHANGED vars
    OBVIOUS
  <2>. HIDE DEF GroupsInv
  <2>. QED
    BY <2>1, <2>2, <2>3, <2>4, <2>5, <2>6, <2>7, <2>8, <2>9 DEF Next
<1>. QED
  BY <1>1, <1>2, PTL DEF Spec

\* docs/groups.md:281: when all is settled, the members of the group of an AS
\* are the nodes that run BGP in that AS, for any labs, groups and hierarchies,
\* as long as no group of an AS moves its nodes to another AS or makes them hosts.
THEOREM AsGroupsHold == Spec => []AsGroupsAreExact
<1>1. ASSUME GroupsInv PROVE AsGroupsAreExact
  <2>1. SUFFICES ASSUME stage = "done", NEW as \in AsNames
                 PROVE  LET speakers == {n \in Nodes : node[n].module # Missing /\ "bgp" \in node[n].module[1] /\ AsOf(n) = as}
                        IN IF as \in Groups THEN grp[as].members = speakers ELSE speakers = {}
    BY DEF AsGroupsAreExact
  <2>2. Exact /\ Settled
    BY <1>1, <2>1 DEF GroupsInv, FilledStages, SettledStages
  <2>3. ASSUME NEW n \in Nodes
        PROVE  "bgp" \in ModulesOf(n) <=> node[n].module # Missing /\ "bgp" \in node[n].module[1]
    BY <2>2 DEF Settled, ModulesOf
  <2>4. Speakers(as) = {n \in Nodes : node[n].module # Missing /\ "bgp" \in node[n].module[1] /\ AsOf(n) = as}
    BY <2>3, NamesAssumption DEF Speakers
  <2>. QED
    BY <2>2, <2>4 DEF Exact
<1>. QED
  BY <1>1, GroupsInvariance, PTL
==============================================================================
