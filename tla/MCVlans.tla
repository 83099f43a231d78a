-------------------------------- MODULE MCVlans --------------------------------
(* Lab topologies for Vlans: two switches, a host and a router.             *)
EXTENDS Vlans

MCVlan == <<"blue", "red">>

\* Devices like frr, eos, nxos and cumulus, by their features.
frr == [model |-> "router", mixed |-> TRUE, native |-> TRUE, subif |-> "id"]
eos == [model |-> "l3-switch", mixed |-> TRUE, native |-> TRUE, subif |-> "index"]
nxos == [model |-> "l3-switch", mixed |-> FALSE, native |-> TRUE, subif |-> "index"]
cumulus == [model |-> "switch", mixed |-> FALSE, native |-> FALSE, subif |-> "id"]

Given(mode, id) == [mode |-> mode, id |-> id]
On(n, attr) == [node |-> n, vlan |-> attr]
Acc(v) == [NoVlan EXCEPT !.access = v]
Tr(vs) == [NoVlan EXCEPT !.trunk = vs]
Nv(vs, v) == [NoVlan EXCEPT !.trunk = vs, !.native = v]
RouteMode(attr) == [attr EXCEPT !.mode = "route"]
Plain(ns) == [i \in DOMAIN ns |-> On(ns[i], NoVlan)]
Lnk(attr, is) == [vlan |-> attr, intfs |-> is]

\* s1 and s2 on a link, the host h on s1 and on the router r.
Both == {"red", "blue"}
Between == {
  Lnk(Acc("red"), Plain(<<"s1", "s2">>)),
  Lnk(NoVlan, <<On("s1", Acc("red")), On("s2", Acc("red"))>>),
  Lnk(Tr(Both), Plain(<<"s1", "s2">>)),
  Lnk(Nv(Both, "red"), Plain(<<"s1", "s2">>)),
  Lnk(NoVlan, <<On("s1", Nv(Both, "red")), On("s2", Tr({"blue"})), On("h", NoVlan)>>),
  Lnk(NoVlan, <<On("s1", Nv(Both, "red")), On("s2", Tr({"blue"}))>>),
  Lnk(NoVlan, <<On("s1", Tr(Both)), On("s2", RouteMode(Tr(Both)))>>)}
Edge == {
  <<Lnk(NoVlan, <<On("h", NoVlan), On("s1", Acc("red"))>>)>>,
  <<Lnk(NoVlan, <<On("s2", Acc("blue")), On("h", NoVlan)>>)>>,
  <<Lnk(NoVlan, <<On("r", NoVlan), On("s1", Nv({"red"}, "red")), On("h", NoVlan)>>)>>,
  <<Lnk(Tr(Both), Plain(<<"s1", "r">>))>>,
  <<Lnk(Nv(Both, "blue"), Plain(<<"s1", "r", "h">>))>>,
  <<>>}

Names4 == {"s1", "s2", "r", "h"}
Lab(device, gv, nmode, rmode, nv1, nv2, between, edge) ==
  [nodes |-> <<"s1", "s2", "r", "h">>,
   device |-> [n \in Names4 |-> CASE n = "h" -> NoVlanDevice [] n = "r" -> frr [] OTHER -> device],
   gmode |-> "", gvlans |-> gv,
   nmode |-> [n \in Names4 |-> CASE n = "s2" -> nmode [] n = "r" -> rmode [] OTHER -> ""],
   nvlans |-> [n \in Names4 |-> CASE n = "s1" -> nv1 [] n = "s2" -> nv2 [] OTHER -> <<>>],
   links |-> <<between>> \o edge, mixed |-> FALSE]

Globals == {[v \in Both |-> IF v = "red" THEN given ELSE Given("", 0)] :
              given \in {Given(m, 0) : m \in Modes \cup {""}} \cup {Given("", 2)}}
Locals == {<<>>, [v \in {"red"} |-> Given("irb", 0)], [v \in Both |-> IF v = "red" THEN Given("bridge", 0) ELSE Given("route", 0)]}

\* docs/module/vlan.md: "Never combine multiple modes of the same VLAN in a
\* single node".  The modes an interface of a node asks for, by VLAN.
Asked(lab, i, j) ==
  LET attr == Merge(lab.links[i].vlan, lab.links[i].intfs[j].vlan)
      n == lab.links[i].intfs[j].node
  IN  {<<n, v, InterfaceMode(lab, n, [attr EXCEPT !.access = v], lab.nvlans, lab.gvlans)>> : v \in Names(attr)}
OneMode(lab) ==
  LET asked == UNION {UNION {Asked(lab, i, j) : j \in DOMAIN lab.links[i].intfs} : i \in DOMAIN lab.links}
  IN  \A x, y \in asked : x[1] = y[1] /\ x[2] = y[2] => x[3] = y[3]

GlobalLabs == {Lab(d, gv, m, rm, <<>>, nv, b, e) :
                d \in {eos, nxos, cumulus}, gv \in Globals, m \in {"", "route"}, rm \in {"", "route"},
                nv \in Locals, b \in Between, e \in Edge}

\* The VLAN blue for all, and a VLAN red of s1 and one of s2, each on links of
\* its own, without another node that has a VLAN red (docs/module/vlan.md: the
\* list of neighbors of a VLAN of one node is not complete for the others).
Blue == [v \in {"blue"} |-> Given("", 0)]
Red(m) == [v \in {"red"} |-> Given(m, 0)]
Apart == {Lnk(Tr({"blue"}), Plain(<<"s1", "s2">>)), Lnk(Acc("blue"), Plain(<<"s1", "s2", "h">>))}
OwnEdge == {<<>>, <<Lnk(NoVlan, <<On("s1", Acc("red")), On("r", NoVlan)>>), Lnk(NoVlan, <<On("s2", Acc("red")), On("h", NoVlan)>>)>>}
OwnLabs == {Lab(d, Blue, m, "", nv1, Red(m2), b, e) :
             d \in {eos, nxos, cumulus}, m \in {"", "route"}, nv1 \in {Red("irb"), Red("bridge")}, m2 \in {"", "bridge", "irb"}, b \in Apart, e \in OwnEdge}

\* ... and one of r: more VLANs than ids.
FullLabs == {[lab EXCEPT !.nvlans["r"] = Red("")] : lab \in {o \in OwnLabs : Len(o.links) = 1}}

UsesRouter(lab) == \E l \in ToSet(lab.links) : \E f \in ToSet(l.intfs) : f.node = "r"
Labs == {lab \in GlobalLabs \cup OwnLabs \cup FullLabs : OneMode(lab) /\ (UsesRouter(lab) \/ lab.nmode["r"] = "")}
=============================================================================
