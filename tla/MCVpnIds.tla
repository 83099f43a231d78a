------------------------------- MODULE MCVpnIds -------------------------------
(* Labs for VpnIds and Overlay: VRFs red, blue and green, VLANs va and vb, nodes n and m. *)
EXTENDS Overlay

Order == <<"red", "blue", "green", "va", "vb", "local">>
Named(v) == [vrf |-> v, rt |-> <<>>]
Number(a, x) == [vrf |-> "", rt |-> <<a, x>>]
With(rd, id, import, export) == [New EXCEPT !.rd = rd, !.id = id, !.import = import, !.export = export]
Plain == New
Takes(vs) == With(NoRd, 0, <<{Named(v) : v \in vs}>>, Missing)
Gives(vs) == With(NoRd, 0, Missing, <<{Named(v) : v \in vs}>>)

\* A lab without VXLAN and EVPN.
Bare(nodes, vrfs, vlans, used, on) ==
  LET all == ToSet(nodes)
      owners == all \cup {Topology}
      none == [o \in owners |-> Missing]
  IN
  [nodes |-> nodes, order |-> Order, as |-> [o \in owners |-> 1], vrfs |-> vrfs, used |-> used,
   pulled |-> [n \in all |-> {}], vlans |-> vlans,
   vxlan |-> {}, evpn |-> {}, on |-> on, linked |-> all, domain |-> [n \in all |-> "one"],
   static |-> all, address |-> [n \in all |-> [ipv4 |-> n, ipv6 |-> ""]], v6 |-> FALSE, lacks |-> {},
   evpnVlans |-> none, evpnVrfs |-> none, vlanVrf |-> [v \in {"va", "vb"} |-> ""], bundle |-> {},
   evi |-> [v \in {"va", "vb"} \cup DOMAIN vrfs[Topology] |-> 0],
   rts |-> [v \in {"va", "vb"} |-> [import |-> Missing, export |-> Missing]],
   topoAs |-> [evpn |-> 0, vrf |-> 6, bgp |-> 1], addressed |-> [n \in all |-> {}],
   peers |-> {}, session |-> [n \in all |-> {"ibgp"}]]

Lab(global, onN, onM) ==
  Bare(<<"n", "m">>, [n |-> onN, m |-> onM, topology |-> global], [n |-> Empty, m |-> Empty, topology |-> Empty],
       [n |-> {"red", "blue"}, m |-> {"red", "blue"}], [n |-> {}, m |-> {}])

\* VRFs that are given numbers the generator would reach, numbers of other
\* systems, an id, or targets by name and by number.
Global1 == {Plain, With(<<0, 1>>, 0, Missing, Missing), With(<<1, 2>>, 0, Missing, Missing), With(<<7, 1>>, 0, Missing, Missing),
            With(NoRd, 2, Missing, Missing), Takes({"red", "blue"}), Takes({"blue"}), Gives({}), Gives({"red", "blue"}),
            With(NoRd, 0, <<{Named("red"), Number(0, 77)}>>, Missing)}
Global2 == {Plain, With(<<0, 3>>, 4, Missing, Missing), With(<<0, 77>>, 0, Missing, Missing), Takes({"red"}), Takes({"green"}),
            With(NoRd, 0, Missing, <<{Number(0, 77), Named("blue")}>>), With(NoRd, 0, <<{Number(7, 1)}>>, <<{}>>)}
Globals == {[v \in {"red", "blue"} |-> IF v = "red" THEN x ELSE y] : x \in Global1, y \in Global2}

\* What a node adds: its own numbers and targets for red, and a VRF green.
OnRed == {Plain, With(EmptyRd, 0, Missing, Missing), With(<<0, 9>>, 0, Missing, Missing), With(<<0, 8>>, 0, Missing, <<{Named("red")}>>),
          Takes({"blue"}), Takes({"green", "red"})}
OnGreen == {Plain, With(<<0, 2>>, 0, Missing, Missing), With(<<0, 4>>, 0, Missing, Missing), With(EmptyRd, 0, Missing, Missing),
            Takes({"green", "blue"})}
OfNodes == {Empty} \cup {[v \in {"red"} |-> r] : r \in OnRed} \cup {[v \in {"green"} |-> g] : g \in OnGreen}
              \cup {[v \in {"red", "green"} |-> IF v = "red" THEN r ELSE g] : r \in OnRed, g \in OnGreen}
SomeGlobals == {[v \in {"red", "blue"} |-> IF v = "red" THEN x ELSE y] :
                 x \in {Plain, With(<<0, 1>>, 0, Missing, Missing), Takes({"red", "blue"})},
                 y \in {Plain, With(<<0, 3>>, 4, Missing, Missing), Takes({"green"})}}
SomeOfNodes == {Empty, [v \in {"red"} |-> With(EmptyRd, 0, Missing, Missing)], [v \in {"green"} |-> Plain],
                 [v \in {"red", "green"} |-> IF v = "red" THEN Takes({"green", "red"}) ELSE With(<<0, 4>>, 0, Missing, Missing)]}

OtherNode == {Empty, [v \in {"red"} |-> Plain], [v \in {"red"} |-> With(EmptyRd, 0, Missing, Missing)], [v \in {"green"} |-> Plain]}
OnTwoNodes(g, x) ==
  {Lab(g, x, y) : y \in OtherNode} \cup {[Lab(g, x, y) EXCEPT !.as["n"] = 2, !.used["n"] = {"red", "green"}] : y \in {Empty}}
    \cup {[Lab(g, x, Empty) EXCEPT !.used["n"] = {"red", "green"}]}
TargetLabs == UNION {OnTwoNodes(g, x) : <<g, x>> \in (Globals \X SomeOfNodes) \cup (SomeGlobals \X OfNodes)}

\* VRFs of nodes only, VRFs that come through VLANs, nodes without VRFs, and
\* more VRFs than identifiers.
LocalLabs ==
  {[Lab(g, x, Empty) EXCEPT !.used["n"] = DOMAIN x, !.used["m"] = u, !.pulled["m"] = p] :
     g \in {Empty, [v \in {"red"} |-> Plain], [v \in {"red"} |-> With(<<0, 2>>, 1, Missing, Missing)]},
     x \in {[v \in {"green"} |-> Plain], [v \in {"green", "blue"} |-> Plain], [v \in {"green", "blue"} |-> Takes({"green"})]},
     u \in {{}, {"red"}}, p \in {{}, {"red"}}}

\* Segments: VLANs and VRFs with generated, given, shared and missing VNIs.
Seg(vni, like) == [New EXCEPT !.vni = vni, !.like = like]
SegmentLabs ==
  {[Lab([v \in {"red", "blue", "green"} |-> CASE v = "red" -> r [] v = "blue" -> b [] OTHER -> g], Empty, Empty)
     EXCEPT !.vlans[Topology] = [v \in {"va", "vb"} |-> IF v = "va" THEN [id |-> 1, vni |-> va] ELSE [id |-> 2, vni |-> vb]],
            !.vlans["n"] = l, !.vlans["m"] = l2] :
     r \in {Seg(AutoVni, ""), Seg(NoVni, ""), Seg(NoVni, "blue"), Seg(StartTransit + 1, "")},
     b \in {Seg(AutoVni, ""), Seg(StartTransit + 1, ""), Seg(NoVni, "green"), Seg(StartVni + 2, "")},
     g \in {Seg(AutoVni, ""), Seg(NoVni, "red"), Seg(StartTransit + 2, ""), Seg(StartVni + 1, "")},
     va \in {NoVni, AutoVni, Disabled, StartVni + 2}, vb \in {NoVni, StartVni + 1},
     l \in {Empty, [v \in {"local"} |-> [id |-> 1, vni |-> NoVni]]}, l2 \in {Empty}}

\* Fabrics: leaves n and m and a node c that is one, too, or a route reflector.
Three == {"n", "m", "c"}
Leaf == {"n", "m"}
Vlan(id, vni) == [id |-> id, vni |-> vni]
On(n, m, c) == [n |-> n, m |-> m, c |-> c]
Fabric(global, va, vb, on) ==
  [Bare(<<"n", "m", "c">>, [n |-> Empty, m |-> Empty, c |-> Empty, topology |-> global],
        [n |-> Empty, m |-> Empty, c |-> Empty, topology |-> [va |-> va, vb |-> vb]], On({}, {}, {}), on)
     EXCEPT !.vxlan = Three]
Both == {"va", "vb"}

\* Flooding: VNIs that are given, generated, taken by another VLAN or refused,
\* VLANs of nodes, shared VTEPs, domains, and nodes that lack something.
Local(vni) == [v \in {"local"} |-> Vlan(13, vni)]
Given == StartVni + 12
Places == {On(Both, {"va"}, Both), On({"vb"}, Both, {}), On({"va"}, {"vb"}, {"va"})}
Fabrics == {[Fabric(Empty, Vlan(11, a), Vlan(12, b), on) EXCEPT !.vlans["n"] = l[1], !.vlans["m"] = l[2]] :
              a \in {NoVni, Given, Disabled}, b \in {AutoVni, 150}, on \in Places,
              l \in {<<Empty, Empty>>, <<Local(NoVni), Local(NoVni)>>, <<Local(170), Local(170)>>, <<Local(Disabled), Local(NoVni)>>}}
Vteps(l) == {l, [l EXCEPT !.domain["c"] = "two"], [l EXCEPT !.address["c"] = l.address["m"]],
             [l EXCEPT !.address["c"] = l.address["n"]]}
Oddities(l) == {[l EXCEPT !.vxlan = Leaf], [l EXCEPT !.evpn = {"n"}, !.static = {"m", "c"}], [l EXCEPT !.linked = Leaf],
                [l EXCEPT !.v6 = TRUE],
                [l EXCEPT !.v6 = TRUE, !.address = [o \in Three |-> [ipv4 |-> "", ipv6 |-> o]]],
                [l EXCEPT !.v6 = TRUE, !.lacks = {<<"n", "vtep6">>}, !.address = [o \in Three |-> [ipv4 |-> "", ipv6 |-> o]]]}
FloodLabs == UNION {Vteps(l) \cup Oddities(l) : l \in Fabrics}

\* Services: VLANs in VRFs with and without transit segments or bundles, given
\* EVIs and targets, lists, and what devices cannot do.
Peer(n, m, type, af) == {[node |-> n, name |-> m, type |-> type, af |-> af], [node |-> m, name |-> n, type |-> type, af |-> af]}
Peers(af) == Peer("n", "c", "ibgp", af) \cup Peer("m", "c", "ibgp", af) \cup Peer("n", "m", "ebgp", af)
Vrfs2(r, b) == [red |-> r, blue |-> b]
Service(r, b, id, vrfs, on) ==
  LET pulled == [o \in Three |-> {vrfs[v] : v \in on[o]} \ {""}] IN
  [Fabric(Vrfs2(r, b), Vlan(id, NoVni), Vlan(id + 1, NoVni), on)
     EXCEPT !.vxlan = Leaf, !.evpn = Three, !.static = {}, !.vlanVrf = vrfs,
            !.pulled = pulled, !.used = [pulled EXCEPT !["n"] = pulled["n"] \cup {"blue"}],
            !.addressed = [pulled EXCEPT !["n"] = pulled["n"] \cup {"blue"}],
            !.peers = Peers({"ipv4"}), !.lacks = {<<"c", "transport">>}]
Of(a, b) == [va |-> a, vb |-> b]
Segs == {<<Seg(NoVni, ""), Seg(NoVni, "")>>, <<Seg(AutoVni, ""), Seg(AutoVni, "")>>, <<Seg(AutoVni, ""), Seg(NoVni, "red")>>,
         <<Seg(Disabled, ""), Seg(StartTransit + 1, "")>>}
Leaves == {On(Both, Both, {}), On(Both, {"va"}, {}), On({"va"}, {"vb"}, {})}
InVrfs == {Of("", ""), Of("red", "red"), Of("red", "blue"), Of("", "red")}
Basic(id, segs) == {Service(s[1], s[2], id, v, on) : s \in segs, v \in InVrfs, on \in Leaves}
Ones == <<{<<1, 91>>}>>
Twos == <<{<<1, 91>>, <<7, 92>>}>>
NoTopoAs == [evpn |-> 0, vrf |-> 0, bgp |-> 0]
Variants(l) ==
  {[l EXCEPT !.bundle = {"red"}], [l EXCEPT !.bundle = {"red"}, !.evi["va"] = 30], [l EXCEPT !.evi["va"] = 30, !.evi["red"] = 40],
   [l EXCEPT !.bundle = {"red"}, !.vrfs[Topology]["blue"].import = <<{Named("red"), Named("blue")}>>],
   [l EXCEPT !.rts["va"].import = Twos], [l EXCEPT !.rts["va"].import = Twos, !.lacks = @ \cup {<<"n", "multi_rt">>}],
   [l EXCEPT !.rts["va"].export = Ones, !.rts["vb"].import = Ones], [l EXCEPT !.as[Topology] = 0, !.topoAs = NoTopoAs],
   [l EXCEPT !.topoAs.evpn = 1], [l EXCEPT !.topoAs.vrf = 0], [l EXCEPT !.as[Topology] = 6, !.topoAs.bgp = 0],
   [l EXCEPT !.evpnVlans[Topology] = <<{"vb"}>>, !.evi["va"] = 30], [l EXCEPT !.evpnVlans[Topology] = <<{"vb"}>>, !.rts["va"].import = Ones],
   [l EXCEPT !.addressed["n"] = {}], [l EXCEPT !.addressed["m"] = {}],
   [l EXCEPT !.evpnVlans[Topology] = <<{"vb"}>>], [l EXCEPT !.evpnVlans["n"] = <<{"va"}>>, !.evpnVrfs[Topology] = <<{"red"}>>],
   [l EXCEPT !.evpnVlans[Topology] = <<{"local"}>>], [l EXCEPT !.evpnVlans[Topology] = <<{}>>, !.evpnVrfs["m"] = <<{"green"}>>],
   [l EXCEPT !.session = [o \in Three |-> {"ibgp", "ebgp"}]], [l EXCEPT !.session["m"] = {"ebgp"}],
   [l EXCEPT !.session["n"] = {"ibgp", "ebgp"}, !.lacks = @ \cup {<<"n", "ebgp">>}],
   [l EXCEPT !.peers = Peers({"ipv6"})], [l EXCEPT !.lacks = @ \cup {<<"c", "control_plane">>}],
   [l EXCEPT !.v6 = TRUE, !.peers = Peers({"ipv6"}), !.address = [o \in Three |-> [ipv4 |-> "", ipv6 |-> o]]],
   [l EXCEPT !.v6 = TRUE, !.lacks = @ \cup {<<"m", "ipv6">>}, !.address = [o \in Three |-> [ipv4 |-> "", ipv6 |-> o]]],
   [l EXCEPT !.lacks = @ \cup {<<"n", "irb">>, <<"m", "bundle">>}, !.bundle = {"red"}],
   [l EXCEPT !.lacks = @ \cup {<<"m", "asymmetrical_irb">>}], [l EXCEPT !.evpn = Leaf], [l EXCEPT !.lacks = @ \cup {<<"n", "transport">>}]}
\* The EVIs of VRFs with EVPN data but without a transit VNI are VRF ids, those
\* of VLANs VLAN ids: VLANs 1 and 2 only without such VRFs.
Disjoint == {s \in Segs : s[1].vni # Disabled}
\* VLANs without VRFs, and no AS for their targets.
Unnumbered == {[Fabric(Empty, Vlan(11, NoVni), Vlan(12, NoVni), on)
                  EXCEPT !.vxlan = Leaf, !.evpn = Leaf, !.as[Topology] = 0, !.topoAs = NoTopoAs, !.rts["va"].import = rts] :
                 on \in Leaves, rts \in {Missing, Ones}}
ServiceLabs == Basic(1, Disjoint) \cup UNION {Variants(l) : l \in Basic(11, Segs)} \cup Unnumbered

\* No AS: what is complete gets none, and everything else needs one.
WithoutAs(g, x) == [Lab(g, x, Empty) EXCEPT !.as = [o \in {"n", "m", Topology} |-> 0], !.topoAs = NoTopoAs]
NoAsLabs == {WithoutAs([v \in {"red"} |-> g], [v \in {"red"} |-> x]) :
               g \in {Plain, With(<<7, 1>>, 4, Missing, Missing), With(<<0, 1>>, 4, Missing, Missing),
                      With(<<7, 1>>, 4, <<{Number(0, 77), Named("red")}>>, Missing)},
               x \in {Plain, With(<<0, 9>>, 0, Missing, Missing), With(<<7, 9>>, 4, Missing, <<{Number(0, 77)}>>)}}
           \cup {[WithoutAs(Empty, [v \in {"green"} |-> x]) EXCEPT !.used = [n |-> {"green"}, m |-> {}]] :
                   x \in {With(<<0, 9>>, 4, Missing, Missing), With(<<7, 9>>, 4, Missing, Missing)}}

MCLabs == NoAsLabs \cup TargetLabs \cup LocalLabs \cup SegmentLabs \cup FloodLabs \cup ServiceLabs
=============================================================================
