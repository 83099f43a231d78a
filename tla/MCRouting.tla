----------------------------- MODULE MCRouting -----------------------------
(* Labs for Routing: routers a, b, c, d, and a host h.                       *)
EXTENDS Routing

Names == {"a", "b", "c", "d", "h"}
Each(x) == [a |-> x, b |-> x, c |-> x, d |-> x, h |-> x]
Zero == Each(0)
AllTypes == [ipv4 |-> Types, ipv6 |-> Types]
AllFeatures == <<"local_as", "vrf_local_as", "local_as_ibgp", "ipv6_lla", "rfc8950", "confederation">>

Addr(v4, v6) == [ipv4 |-> v4, ipv6 |-> v6]
V4 == Addr("number", "none")
Dual == Addr("number", "number")
At(n, addr) == [node |-> n, addr |-> addr, bgp |-> TRUE, localAs |-> 0, vrf |-> ""]
Link(intfs) == [role |-> "", localAs |-> 0, intfs |-> intfs]

Base(nodes, asn, links) ==
  [links |-> links, igps |-> Each(<<>>), order |-> nodes \o <<"h">>, af |-> <<>>, vrfIgp |-> <<>>, import |-> <<>>, off |-> {}, lacks |-> {}, passive |-> <<>>,
   dhcp |-> {}, vrfLoopback |-> {}, as |-> asn, rr |-> Each(""), localAs |-> Zero, rrList |-> {}, noMesh |-> {}, asList |-> <<>>, noVrfBgp |-> {},
   confed |-> <<>>, daemon |-> {}, nodes |-> nodes, loopback |-> [Each(AF) EXCEPT !.h = {}], features |-> Each(ToSet(AllFeatures)), sessions |-> Each(AllTypes)]

As(a, b, c, d) == [a |-> a, b |-> b, c |-> c, d |-> d, h |-> 0]
Four == <<"a", "b", "c", "d">>
Three == <<"a", "b", "c">>

\* An AS with route reflectors, said in four ways, a daemon without loopback,
\* and loopbacks and sessions of one family only.
Chain == <<Link(<<At("a", Dual), At("b", Dual)>>), Link(<<At("b", Dual), At("c", Dual), At("h", Dual)>>), Link(<<At("c", Dual), At("d", Dual)>>)>>
WithRr(lab1, how, rrs) ==
  CASE how = "node" -> [lab1 EXCEPT !.rr = [n \in Names |-> IF n \in rrs THEN "yes" ELSE ""]]
    [] how = "each" -> [lab1 EXCEPT !.rr = [n \in Names |-> IF n \in rrs THEN "yes" ELSE IF n = "b" THEN "" ELSE "no"]]
    [] how = "global" -> [lab1 EXCEPT !.rrList = rrs]
    [] how = "list" -> [lab1 EXCEPT !.as = [n \in Names |-> IF @[n] = 1 /\ n # "c" THEN 0 ELSE @[n]],
                                    !.asList = [x \in {1} |-> [members |-> {n \in Names : lab1.as[n] = 1}, rr |-> rrs]]]
LoopbackLabs(lab1) ==
  <<lab1, [lab1 EXCEPT !.loopback["b"] = {"ipv4"}], [lab1 EXCEPT !.loopback["c"] = {}], [lab1 EXCEPT !.loopback["c"] = {}, !.daemon = {"c"}],
   [lab1 EXCEPT !.sessions["d"]["ipv6"] = {"ebgp"}], [lab1 EXCEPT !.sessions["b"]["ipv4"] = {"ebgp"}]>>
LocalIn(lab1, a) == [lab1 EXCEPT !.links[3].intfs[1].localAs = a]
IbgpLabs == {LoopbackLabs(LocalIn([WithRr(Base(Four, As(1, 1, 1, d), Chain), how, rrs) EXCEPT !.noMesh = mesh], la))[o] :
              d \in {1, 2}, how \in {"node", "each", "global", "list"}, rrs \in {{}, {"a"}, {"a", "b"}, {"a", "b", "d"}},
              mesh \in {{}, {"a"}, {"a", "b"}}, la \in {0, 2}, o \in 1..6}

\* Three systems on a link: local systems, features, families, VRFs.
On3(x, y, z) == <<Link(<<At("a", x), At("b", y), At("c", z)>>)>>
Unnum == Addr("true", "none")
Lla == Addr("none", "true")
Addresses == <<On3(Dual, Dual, V4), On3(Unnum, Unnum, V4), On3(Addr("true", "true"), Addr("true", "true"), Addr("true", "true")),
              On3(Addr("true", "number"), Addr("true", "number"), Addr("true", "number")), On3(Lla, Lla, Addr("none", "none")), On3(Unnum, Dual, V4),
              On3(Unnum, Unnum, Addr("none", "none")), On3(Unnum, Unnum, Unnum)>>
AtFirst(links, la, x) == [links EXCEPT ![1].localAs = la, ![1].intfs[1].localAs = x]
Options(lab1) ==
  <<lab1, [lab1 EXCEPT !.links[1].intfs[1].vrf = "blue"], [lab1 EXCEPT !.links[1].intfs[1].vrf = "blue", !.noVrfBgp = {"a"}],
    [lab1 EXCEPT !.links[1].intfs[2].bgp = FALSE], [lab1 EXCEPT !.links[1].role = "core"], [lab1 EXCEPT !.sessions["a"]["ipv4"] = {"ebgp"}]>>
    \o [f \in 1..6 |-> [lab1 EXCEPT !.features["a"] = @ \ {AllFeatures[f]}]]
EbgpLabs == {Options([Base(Three, As(a, b, c, 0), AtFirst(Addresses[l], z, x)) EXCEPT !.localAs["b"] = y])[o] :
               a \in {1, 2}, b \in {1, 2}, c \in {1, 3}, l \in 1..8, x \in {0, 2, 3}, y \in {0, 1}, z \in {0, 4}, o \in 1..12}

\* A confederation 9 of 1 and 2, and lists of systems that make no sense.
ConfedLabs == {[Base(Three, As(a, b, c, 0), <<Link(<<At("a", Dual), At("b", Dual)>>), Link(<<At("b", V4), At("c", V4)>>)>>)
                  EXCEPT !.confed = cf, !.features["b"] = @ \ f] :
                a \in {1, 2, 9}, b \in {1, 2, 3}, c \in {1, 3, 4}, f \in {{}, {"confederation"}},
                cf \in {[x \in {9} |-> {1, 2}], [x \in {9, 8} |-> IF x = 9 THEN {1, 2} ELSE {3}], [x \in {9, 8} |-> {1}]}}
ListLabs == {[Base(Three, As(a, 0, 1, 0), <<>>) EXCEPT !.asList = [x \in {1, 2} |-> IF x = 1 THEN [members |-> {"a", "b"}, rr |-> r] ELSE [members |-> m, rr |-> {}]]] :
              a \in {0, 1, 2}, r \in {{}, {"b"}, {"c"}}, m \in {{}, {"b"}}}

\* Interior protocols: a link of a and b, one of b and c, a stub of b, in VRFs
\* or not, in either order of the nodes.
VrfAt(n, v) == [At(n, Dual) EXCEPT !.vrf = v]
IgpLinks(va, vb, vc, onLan) ==
  <<Link(<<VrfAt("a", va), VrfAt("b", vb)>>), Link(<<VrfAt("b", vb), VrfAt("c", vc)>> \o onLan), Link(<<VrfAt("b", vb)>>)>>
IgpBase(va, vb, vc, onLan) == [Base(<<>>, Zero, IgpLinks(va, vb, vc, onLan)) EXCEPT !.order = Three]
Protocols3(a, b, c) == [a |-> a, b |-> b, c |-> c, d |-> <<>>, h |-> <<>>]
Backwards == <<"c", "b", "a">>
NoIgp == [ospf |-> <<>>, isis |-> <<>>, eigrp |-> <<>>, ripv2 |-> <<>>]
SameIgp == [ospf |-> <<"ospf">>, isis |-> <<"isis">>, eigrp |-> <<"eigrp">>, ripv2 |-> <<"ripv2">>]
UnnumberedLink(link) == [link EXCEPT !.intfs = [i \in 1..2 |-> [@[i] EXCEPT !.addr = Unnum]]]
In(key, value) == [x \in {key} |-> value]

\* One protocol, with the options of interfaces, VRFs and links.
IgpOptions(x, P) ==
  <<x, [x EXCEPT !.off = {<<<<1, 1>>, P>>}], [x EXCEPT !.off = {<<<<2, 1>>, P>>}], [x EXCEPT !.passive = In(<<<<1, 2>>, P>>, TRUE)],
    [x EXCEPT !.passive = In(<<<<2, 1>>, P>>, FALSE), !.links[2].role = "stub"], [x EXCEPT !.links[2].role = "stub"],
    [x EXCEPT !.links[1].role = "passive"], [x EXCEPT !.links[1].role = "external"],
    [x EXCEPT !.dhcp = {<<<<2, 2>>, "ipv4">>}, !.links[2].intfs[2].addr = NoAddress],
    [x EXCEPT !.af = In(<<"b", "", P>>, {"ipv6"})], [x EXCEPT !.af = In(<<"b", "", P>>, {"ipv4"}), !.links[1].intfs[1].addr = V4],
    [x EXCEPT !.links[1].intfs[1].addr = V4, !.links[1].intfs[2].addr = Lla], [x EXCEPT !.links[1] = UnnumberedLink(@)],
    [x EXCEPT !.links[1] = UnnumberedLink(@), !.vrfLoopback = {<<"a", "red">>, <<"b", "red">>}],
    [x EXCEPT !.lacks = {<<"b", P, "ipv6">>}], [x EXCEPT !.lacks = {<<"b", P, "vrf">>}]>>
    \o [i \in 1..3 |-> [x EXCEPT !.vrfIgp = In(<<"b", "red", P>>, <<"off", "force", "active">>[i])]]
OneIgpLabs == {IgpOptions([IgpBase(va, vb, vc, lan) EXCEPT !.order = o, !.igps = Protocols3(a[P], <<P>>, c[P])], P)[x] :
                 P \in {"ospf", "isis", "eigrp", "ripv2"}, a \in {NoIgp, SameIgp}, c \in {NoIgp, SameIgp}, va \in {"", "red"}, vb \in {"", "red"}, vc \in {"", "red"},
                 lan \in {<<>>, <<At("a", V4)>>}, o \in {Three, Backwards}, x \in 1..19}

\* Two protocols and BGP, which import each other.
Imports == {<<>>, In(<<"b", "red", "bgp">>, {"ospf"}), In(<<"b", "red", "ospf">>, {"bgp", "isis"}), In(<<"b", "red", "ospf">>, {"ripv2"}),
            In(<<"b", "", "ospf">>, {"bgp"}), In(<<"b", "", "isis">>, {"connected"}), In(<<"b", "", "bgp">>, {"isis", "static"})}
BgpIgpLabs == {[IgpBase("red", "red", vc, <<>>) EXCEPT !.links[3].intfs[1].vrf = stub, !.order = o, !.nodes = o, !.as = As(1, asb, 1, 0), !.igps = Protocols3(<<"ospf">>, b, c),
                  !.import = imp, !.vrfIgp = says] :
                 asb \in {1, 2}, b \in {<<"ospf", "isis">>, <<"isis", "ospf">>, <<"ospf", "ripv2">>, <<"eigrp">>}, c \in {<<>>, <<"isis">>, <<"ripv2">>},
                 vc \in {"", "red"}, stub \in {"", "red"}, imp \in Imports, says \in {<<>>, In(<<"b", "red", "isis">>, "active"), In(<<"b", "red", "ospf">>, "off")},
                 o \in {Three, Backwards}}
MCLabs == {IbgpLabs, EbgpLabs, ConfedLabs, ListLabs, OneIgpLabs, BgpIgpLabs}
=============================================================================
