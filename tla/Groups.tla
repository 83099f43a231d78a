-------------------------------- MODULE Groups --------------------------------
(***************************************************************************)
(* Groups of nodes: netsim/augment/groups.py, with the two later steps that  *)
(* settle what it had to guess (find_node_device, augment_node_module).      *)
(* Members of groups are created, checked, completed from the defaults and   *)
(* from the nodes; then devices, modules, attributes and configuration        *)
(* templates flow from groups to nodes, innermost group first.               *)
(*                                                                          *)
(* A lab is a record:                                                       *)
(*   nodes    the nodes it names, each with its device (or NoDevice), its     *)
(*            modules (<<>> when missing, or <<set>>), its attributes, its     *)
(*            configuration templates and the groups it asks for              *)
(*   groups   the groups of the topology: members, _auto_create, device,       *)
(*            modules, attributes and templates                              *)
(*   defaults the groups of the defaults                                      *)
(*   auto     _auto_create of all groups of the topology                      *)
(*   module   the modules of the topology                                     *)
(*   as       the global bgp.as, or NoAs                                      *)
(*   as_list  bgp.as_list: the members and the route reflectors of some AS     *)
(* The attributes stand for those of the nodes: one of module ospf, two of     *)
(* module bgp (an AS number, named by its group, and rr) and the role of the   *)
(* node.  VLAN and VRF groups, patterns in members, group variables and the    *)
(* spelling of names are left out; a missing list of members is an empty one, *)
(* as check_group_data_structure makes it.                                   *)
(***************************************************************************)
EXTENDS Integers, SequencesExt

CONSTANTS
  Labs,
  Names,          \* all names of groups, in alphabetical order
  AsNames,        \* the names of BGP AS groups
  Devices,        \* the names of devices
  Hosts,          \* the devices that are hosts
  DefaultDevice,  \* defaults.device
  NoDevice, NoAs

ASSUME DevicesAssumption == Hosts \subseteq Devices /\ DefaultDevice \in Devices /\ NoDevice \notin Devices
ASSUME NamesAssumption == NoAs \notin AsNames

VARIABLES
  lab,     \* the topology as it is written
  stage,   \* the function that runs next
  todo,    \* the groups it has still to look at
  node,    \* the data of the nodes
  grp,     \* the groups of the topology, all of them once they are merged
  isDefault,  \* the groups that only the defaults define
  failed   \* an error was reported

vars == <<lab, stage, todo, node, grp, isDefault, failed>>

Missing == <<>>
Nothing == [x \in {} |-> 0]
NewNode == [device |-> NoDevice, module |-> Missing, data |-> Nothing, config |-> <<>>, group |-> {}]
NewGroup == [members |-> {}, auto |-> FALSE, device |-> NoDevice, module |-> Missing, data |-> Nothing, config |-> <<>>]
ModuleOf == [area |-> "ospf", as |-> "bgp", rr |-> "bgp", role |-> "none"]

\* The lab as the header says, and what a group of a BGP AS may not give to its
\* members for them to stay in it: another AS, or the role of a host, which
\* takes the modules of the topology from them.
ASSUME FieldsAssumption ==
  \A l \in Labs :
    /\ \A n \in DOMAIN l.nodes : DOMAIN l.nodes[n] = DOMAIN NewNode
    /\ \A gs \in {l.groups, l.defaults} : \A g \in DOMAIN gs : DOMAIN gs[g] = DOMAIN NewGroup
StaysInAs(data) == "as" \notin DOMAIN data /\ ("role" \in DOMAIN data => data["role"] # "host")
ASSUME AsGroupsAssumption ==
  \A l \in Labs : \A gs \in {l.groups, l.defaults} : \A g \in AsNames \cap DOMAIN gs : StaysInAs(gs[g].data)

Nodes == DOMAIN node
Groups == DOMAIN grp
AllGroups == DOMAIN lab.groups \cup DOMAIN lab.defaults
Reserved == Devices \cup {"all"}
Over(f, g) == [x \in DOMAIN f \cup DOMAIN g |-> IF x \in DOMAIN f THEN f[x] ELSE g[x]]

Init ==
  /\ lab \in Labs
  /\ stage = "precheck" /\ todo = <<>>
  /\ node = lab.nodes /\ grp = lab.groups
  /\ isDefault = {} /\ failed = FALSE

Fail == failed' = TRUE /\ UNCHANGED <<lab, stage, todo, node, grp, isDefault>>

(***************************************************************************)
(* Members: creating, checking and completing them.                         *)
(***************************************************************************)
CreateMembers(gs, auto) ==
  LET new == (UNION {gs[g].members : g \in {h \in DOMAIN gs : gs[h].auto \/ auto}}) \ AllGroups
  IN Over(node, [n \in new |-> NewNode])

PrecheckGroups ==
  /\ ~failed /\ stage = "precheck"
  /\ IF DOMAIN lab.groups \cap Nodes # {}
     THEN Fail
     ELSE /\ node' = CreateMembers(lab.groups, lab.auto)
          /\ stage' = "precheck_defaults"
          /\ UNCHANGED <<lab, todo, grp, isDefault, failed>>

PrecheckDefaultGroups ==
  /\ ~failed /\ stage = "precheck_defaults"
  /\ IF DOMAIN lab.defaults \cap Nodes # {}
     THEN Fail
     ELSE /\ node' = CreateMembers(lab.defaults, FALSE)
          /\ stage' = "check"
          /\ UNCHANGED <<lab, todo, grp, isDefault, failed>>

Misused(gs) == \E g \in DOMAIN gs :
  \/ g \in Reserved /\ gs[g].members # {}
  \/ g \in Devices /\ gs[g].device # NoDevice

\* A member of a group of the topology is a node or a group of the topology.
CheckGroupDataStructure ==
  /\ ~failed /\ stage = "check"
  /\ IF Misused(grp) \/ \E g \in Groups : ~ grp[g].members \subseteq Nodes \cup Groups
     THEN Fail
     ELSE stage' = "merge" /\ UNCHANGED <<lab, todo, node, grp, isDefault, failed>>

\* The list of members of the topology wins, the empty one too.
Merged(d, t) ==
  [members |-> t.members, auto |-> t.auto,
   device |-> IF t.device # NoDevice THEN t.device ELSE d.device,
   module |-> IF t.module # Missing THEN t.module ELSE d.module,
   data |-> Over(t.data, d.data),
   config |-> IF t.config # <<>> THEN t.config ELSE d.config]

\* Members that are nothing in this topology are removed from default groups.
Pruned(g) == [lab.defaults[g] EXCEPT !.members = @ \cap (Nodes \cup DOMAIN lab.defaults)]

MergeDefaultGroups ==
  /\ ~failed /\ stage = "merge"
  /\ IF Misused(lab.defaults)
     THEN Fail
     ELSE /\ grp' = [g \in AllGroups |->
               IF g \notin Groups THEN Pruned(g)
               ELSE IF g \in DOMAIN lab.defaults THEN Merged(Pruned(g), grp[g]) ELSE grp[g]]
          /\ isDefault' = DOMAIN lab.defaults \ Groups
          /\ stage' = "nodes"
          /\ UNCHANGED <<lab, todo, node, failed>>

\* A group that only a node asks for is created.
AddNodeLevelGroups ==
  LET asked == UNION {node[n].group : n \in Nodes}
      Asking(g) == {n \in Nodes : g \in node[n].group}
      old(g) == IF g \in Groups THEN grp[g] ELSE NewGroup
  IN /\ ~failed /\ stage = "nodes"
     /\ grp' = [g \in Groups \cup asked |-> [old(g) EXCEPT !.members = @ \cup Asking(g)]]
     /\ stage' = "recursion"
     /\ UNCHANGED <<lab, todo, node, isDefault, failed>>

\* The groups inside a group, and the group itself.
Inside(g) ==
  LET Level[i \in Nat] ==
        IF i = 0 THEN {g}
        ELSE Level[i - 1] \cup UNION {grp[h].members \cap Groups : h \in Level[i - 1]}
  IN Level[Cardinality(Groups)]
StrictlyInside(g) == UNION {Inside(h) : h \in grp[g].members \cap Groups}

CheckRecursiveGroups ==
  /\ ~failed /\ stage = "recursion"
  /\ IF \E g \in Groups : g \in StrictlyInside(g)
     THEN Fail
     ELSE stage' = "validate" /\ UNCHANGED <<lab, todo, node, grp, isDefault, failed>>

(***************************************************************************)
(* The order of the groups: those inside a group before it, and by name       *)
(* among those that are ready in the same pass.                              *)
(***************************************************************************)
AddIfReady(sorted, g) ==
  IF g \in ToSet(sorted) \/ g \notin Groups \/ grp[g].members \cap (Groups \ ToSet(sorted)) # {}
  THEN sorted ELSE Append(sorted, g)
\* A bug: groups in alphabetical order.
SortedByName == SelectSeq(Names, LAMBDA g : g \in Groups)

ReverseTopsort ==
  LET Pass(sorted) == FoldLeft(AddIfReady, sorted, Names)
      passes[i \in Nat] == IF i = 0 THEN <<>> ELSE Pass(passes[i - 1])
  IN passes[Len(Names)]

\* The nodes of a group; those of "all" and of a device are computed.
OwnMembers(g) ==
  IF g = "all" THEN Nodes
  ELSE IF g \in Devices THEN {n \in Nodes : node[n].device = g}
  ELSE grp[g].members \cap Nodes
GroupMembers(g) ==
  IF g \notin Groups THEN {}
  ELSE IF g \in Reserved THEN OwnMembers(g) ELSE UNION {OwnMembers(h) : h \in Inside(g)}

\* The attributes of a group belong to its own modules, or to those of the
\* topology when it has none.
KnownModules(gdata) == {"none"} \cup
  (IF gdata.module \in {Missing, <<{}>>} THEN lab.module ELSE gdata.module[1])
Valid(gs) == \A g \in DOMAIN gs : \A a \in DOMAIN gs[g].data : ModuleOf[a] \in KnownModules(gs[g])

ValidateGroups ==
  /\ ~failed /\ stage = "validate"
  /\ IF ~ (Valid(grp) /\ Valid(lab.defaults))
     THEN Fail
     ELSE /\ stage' = "device" /\ todo' = ReverseTopsort
          /\ UNCHANGED <<lab, node, grp, isDefault, failed>>

(***************************************************************************)
(* From groups to nodes.                                                   *)
(***************************************************************************)
Pointless(g) == GroupMembers(g) = {} /\ g \notin isDefault

CopyGroupDevice ==
  LET g == Head(todo)
  IN /\ ~failed /\ stage = "device" /\ todo # <<>>
     /\ IF grp[g].device # NoDevice /\ Pointless(g)
        THEN Fail
        ELSE /\ node' = [n \in Nodes |->
                  IF grp[g].device # NoDevice /\ n \in GroupMembers(g) /\ node[n].device = NoDevice
                  THEN [node[n] EXCEPT !.device = grp[g].device] ELSE node[n]]
             /\ todo' = Tail(todo)
             /\ UNCHANGED <<lab, stage, grp, isDefault, failed>>

CopyGroupModule ==
  LET g == Head(todo)
      Known(n) == IF node[n].module = Missing THEN {} ELSE node[n].module[1]
  IN /\ ~failed /\ stage = "module" /\ todo # <<>>
     /\ IF grp[g].module # Missing /\ Pointless(g)
        THEN Fail
        ELSE /\ node' = [n \in Nodes |->
                  IF grp[g].module # Missing /\ n \in GroupMembers(g)
                  THEN [node[n] EXCEPT !.module = <<Known(n) \cup grp[g].module[1]>>] ELSE node[n]]
             /\ todo' = Tail(todo)
             /\ UNCHANGED <<lab, stage, grp, isDefault, failed>>

\* Attributes of a module of the topology that the node does not use are dropped.
Useful(n, data) ==
  LET out == {a \in DOMAIN data : /\ ModuleOf[a] \in lab.module
                                  /\ node[n].module # Missing
                                  /\ ModuleOf[a] \notin node[n].module[1]}
  IN [a \in DOMAIN data \ out |-> data[a]]
WithData(n, data) == [node[n] EXCEPT !.data = Over(@, Useful(n, data))]

\* The second time, only the groups of an AS are copied.
CopyGroupNodeData ==
  LET g == Head(todo)
      copied == stage = "as_data" => g \in AsNames
  IN /\ ~failed /\ stage \in {"data", "as_data"} /\ todo # <<>>
     /\ node' = [n \in Nodes |-> IF copied /\ n \in GroupMembers(g) THEN WithData(n, grp[g].data) ELSE node[n]]
     /\ todo' = Tail(todo)
     /\ UNCHANGED <<lab, stage, grp, isDefault, failed>>

\* bgp.as_list gives nodes their AS number and makes some of them reflectors.
ListedIn(n) == {as \in DOMAIN lab.as_list : n \in lab.as_list[as].members}
Listed(n) ==
  IF ListedIn(n) = {} THEN Nothing
  ELSE LET as == CHOOSE x \in ListedIn(n) : TRUE
       IN IF n \in lab.as_list[as].rr THEN [a \in {"as", "rr"} |-> IF a = "as" THEN as ELSE "yes"]
          ELSE [a \in {"as"} |-> as]

ProcessAsList ==
  LET list == lab.as_list
  IN /\ ~failed /\ stage = "as_list"
     /\ IF \/ \E as \in DOMAIN list : ~ (list[as].members \subseteq Nodes /\ list[as].rr \subseteq list[as].members)
           \/ \E n \in Nodes : \/ Cardinality(ListedIn(n)) > 1
                               \/ /\ "as" \in DOMAIN node[n].data /\ ListedIn(n) # {}
                                  /\ node[n].data["as"] \notin ListedIn(n)
        THEN Fail
        ELSE /\ node' = [n \in Nodes |-> [node[n] EXCEPT !.data = Over(@, Listed(n))]]
             /\ stage' = "autogroups"
             /\ UNCHANGED <<lab, todo, grp, isDefault, failed>>

\* Whether a node gets the modules of the topology: hosts do not.
DeviceOf(n) == IF node[n].device = NoDevice THEN DefaultDevice ELSE node[n].device
Role(n) == IF "role" \in DOMAIN node[n].data THEN node[n].data["role"] ELSE "none"
IsHost(n) == DeviceOf(n) \in Hosts \/ Role(n) = "host"
\* A bug: hosts get the modules of the topology, too.
ModulesOfAll(n) == IF node[n].module # Missing THEN node[n].module[1] ELSE lab.module

ModulesOf(n) ==
  IF node[n].module # Missing THEN node[n].module[1]
  ELSE IF IsHost(n) THEN {} ELSE lab.module
AsOf(n) == IF "as" \in DOMAIN node[n].data THEN node[n].data["as"] ELSE lab.as
Speakers(as) == {n \in Nodes : "bgp" \in ModulesOf(n) /\ AsOf(n) = as /\ as # NoAs}

CreateBgpAutogroups ==
  LET used == {as \in AsNames : Speakers(as) # {}}
      old(as) == IF as \in Groups THEN grp[as] ELSE NewGroup
      grouped == Over([as \in used |-> [old(as) EXCEPT !.members = @ \cup Speakers(as)]], grp)
  IN /\ ~failed /\ stage = "autogroups"
     /\ IF \/ \E as \in AsNames \cap Groups : grp[as].members # {}
           \/ used \cap Nodes # {}
        THEN Fail
        ELSE /\ grp' = grouped
             /\ stage' = "as_order"
             /\ UNCHANGED <<lab, todo, node, isDefault, failed>>

FindNodeDevice ==
  /\ ~failed /\ stage = "default_device"
  /\ node' = [n \in Nodes |-> [node[n] EXCEPT !.device = DeviceOf(n)]]
  /\ stage' = "default_module"
  /\ UNCHANGED <<lab, todo, grp, isDefault, failed>>

AugmentNodeModule ==
  /\ ~failed /\ stage = "default_module"
  /\ node' = [n \in Nodes |->
       IF node[n].module = Missing /\ lab.module # {} /\ ~IsHost(n)
       THEN [node[n] EXCEPT !.module = <<lab.module>>] ELSE node[n]]
  /\ stage' = "config" /\ todo' = ReverseTopsort
  /\ UNCHANGED <<lab, grp, isDefault, failed>>

(***************************************************************************)
(* Custom configuration templates.                                         *)
(***************************************************************************)
\* A bug: the templates of outer groups after those of inner ones.
AppendGroupTemplates ==
  LET g == Head(todo)
  IN /\ ~failed /\ stage = "config" /\ todo # <<>>
     /\ node' = [n \in Nodes |-> IF n \in GroupMembers(g)
                                 THEN [node[n] EXCEPT !.config = @ \o grp[g].config] ELSE node[n]]
     /\ todo' = Tail(todo)
     /\ UNCHANGED <<lab, stage, grp, isDefault, failed>>

MergeGroupTemplates ==
  LET g == Head(todo)
  IN /\ ~failed /\ stage = "config" /\ todo # <<>>
     /\ node' = [n \in Nodes |-> IF n \in GroupMembers(g)
                                 THEN [node[n] EXCEPT !.config = grp[g].config \o @] ELSE node[n]]
     /\ todo' = Tail(todo)
     /\ UNCHANGED <<lab, stage, grp, isDefault, failed>>

\* A template is a name; "-" removes all templates before it and a removal
\* <<name>> the earlier ones of that name.
ApplyRemoval(kept, c) ==
  CASE c = <<"-">> -> <<>>
    [] c[1] = "-" /\ Len(c) = 2 -> SelectSeq(kept, LAMBDA t : t # <<c[2]>>)
    [] OTHER -> Append(kept, c)

RemoveTemplates ==
  /\ ~failed /\ stage = "removal"
  /\ node' = [n \in Nodes |-> [node[n] EXCEPT !.config = FoldLeft(ApplyRemoval, <<>>, @)]]
  /\ grp' = [g \in Groups |-> [grp[g] EXCEPT !.config = <<>>]]
  /\ stage' = "done"
  /\ UNCHANGED <<lab, todo, isDefault, failed>>

\* The next function starts, with its groups in order.
NextStage ==
  LET after == [device |-> "module", module |-> "data", data |-> "as_list", as_order |-> "as_data",
                as_data |-> "default_device", config |-> "removal"]
  IN /\ ~failed /\ stage \in DOMAIN after /\ todo = <<>>
     /\ stage' = after[stage]
     /\ todo' = IF stage \in {"device", "module", "as_order"} THEN ReverseTopsort ELSE <<>>
     /\ UNCHANGED <<lab, node, grp, isDefault, failed>>

Next ==
  \/ PrecheckGroups \/ PrecheckDefaultGroups
  \/ CheckGroupDataStructure \/ MergeDefaultGroups \/ AddNodeLevelGroups \/ CheckRecursiveGroups
  \/ ValidateGroups
  \/ CopyGroupDevice \/ CopyGroupModule \/ CopyGroupNodeData \/ ProcessAsList \/ CreateBgpAutogroups
  \/ FindNodeDevice \/ AugmentNodeModule
  \/ MergeGroupTemplates \/ RemoveTemplates
  \/ NextStage

Spec == Init /\ [][Next]_vars

(***************************************************************************)
(* Properties.                                                             *)
(***************************************************************************)
Own(n) == IF n \in DOMAIN lab.nodes THEN lab.nodes[n] ELSE NewNode

\* The nodes a group reaches with what it says: a device group only the nodes
\* that say their device or get it from a group, an AS group (which has no
\* members before) none.
DeviceGiven(n) == \/ Own(n).device # NoDevice
                  \/ \E g \in Groups : grp[g].device # NoDevice /\ n \in GroupMembers(g)
ReachedBy(g) ==
  LET inside == IF g \in Reserved THEN {g} ELSE Inside(g) \ AsNames
  IN UNION {{n \in OwnMembers(h) : h \in Devices => DeviceGiven(n)} : h \in inside}

\* A value comes from one of these groups, and from none that contains another.
Innermost(from) == {g \in from : StrictlyInside(g) \cap from = {}}

\* docs/groups.md:95: the attributes of a node win over those of its groups,
\* an inner group wins over the groups around it, and a group with static
\* members over bgp.as_list and over the group of the BGP AS; attributes of modules the node does not
\* use are left out.  The same holds of the device.
InnermostWins ==
  stage = "done" => \A n \in Nodes :
    /\ \A a \in DOMAIN ModuleOf :
         LET Gives(g) == a \in DOMAIN Useful(n, grp[g].data)
             static == {g \in Groups \ AsNames : Gives(g) /\ n \in ReachedBy(g)}
             listed == static = {} /\ a \in DOMAIN Listed(n)
             byAs == {g \in Groups \cap AsNames : Gives(g) /\ n \in grp[g].members}
             from == IF static # {} THEN static ELSE byAs
             has == a \in DOMAIN node[n].data
         IN IF a \in DOMAIN Own(n).data THEN has /\ node[n].data[a] = Own(n).data[a]
            ELSE IF listed THEN has /\ node[n].data[a] = Listed(n)[a]
            ELSE IF from = {} THEN ~has
            ELSE has /\ node[n].data[a] \in {grp[g].data[a] : g \in Innermost(from)}
    /\ LET from == {g \in Groups : grp[g].device # NoDevice /\ \E h \in Inside(g) \ (Devices \cup AsNames) : n \in OwnMembers(h)}
       IN node[n].device \in IF Own(n).device # NoDevice THEN {Own(n).device}
                             ELSE IF from = {} THEN {DefaultDevice}
                             ELSE {grp[g].device : g \in Innermost(from)}

ConfigOf(g) ==
  IF g \in DOMAIN lab.groups /\ lab.groups[g].config # <<>> THEN lab.groups[g].config
  ELSE IF g \in DOMAIN lab.defaults THEN lab.defaults[g].config ELSE <<>>
IsTemplate(c) == c[1] # "-"
Templates(config) == {c \in ToSet(config) : IsTemplate(c)}
Removes(config, t) == \E c \in ToSet(config) : c = <<"-">> \/ c = <<"-">> \o t
IsBefore(s, x, y) == \E i, j \in DOMAIN s : i < j /\ s[i] = x /\ s[j] = y

\* docs/custom-config-templates.md:58-107: the templates of a group come before
\* those of the groups inside it and those of the node, and are removed by the
\* node and by a group inside it, never by a group around it.
TemplatesInOrder ==
  stage = "done" => \A n \in Nodes :
    LET of == {g \in Groups : n \in GroupMembers(g)}
        final == node[n].config
    IN /\ ToSet(final) \subseteq Templates(Own(n).config) \cup UNION {Templates(ConfigOf(g)) : g \in of}
       /\ \A g \in of, t \in UNION {Templates(ConfigOf(x)) : x \in of} : t \in Templates(ConfigOf(g)) =>
            LET inner == StrictlyInside(g) \cap of
                around == {h \in of : g \in StrictlyInside(h)}
                removers == {h \in of \ (around \cup {g}) : Removes(ConfigOf(h), t)}
                later == Templates(Own(n).config) \cup UNION {Templates(ConfigOf(h)) : h \in inner}
            IN IF t \in ToSet(final)
               THEN /\ ~Removes(Own(n).config, t) /\ removers \cap inner = {}
                    /\ \A u \in later : ~IsBefore(final, u, t)
               ELSE Removes(Own(n).config, t) \/ removers # {}

\* docs/groups.md:281: when all is settled, the members of the group of an AS are
\* the nodes that run BGP in that AS, though the group was filled before
\* devices and modules were.
AsGroupsAreExact ==
  stage = "done" => \A as \in AsNames :
    LET speakers == {n \in Nodes : node[n].module # Missing /\ "bgp" \in node[n].module[1] /\ AsOf(n) = as}
    IN IF as \in Groups THEN grp[as].members = speakers ELSE speakers = {}
==============================================================================
