------------------------------- MODULE MCGroups -------------------------------
(* Labs for Groups: nodes a, b and the host c; groups g1, g2, g3 in several    *)
(* hierarchies, the groups of all nodes, of device eos and of AS 1 and 2.     *)
EXTENDS Groups

MCNames == <<"all", "as1", "as2", "eos", "g1", "g2", "g3">>
MCAsNames == {"as1", "as2"}
MCDevices == {"eos", "ios", "linux"}
MCHosts == {"linux"}

Node(device, module, data, config, group) ==
  [device |-> device, module |-> module, data |-> data, config |-> config, group |-> group]
Group(members, device, module, data, config) ==
  [NewGroup EXCEPT !.members = members, !.device = device, !.module = module, !.data = data, !.config = config]
Area(i) == [a \in {"area"} |-> i]
As(as) == [a \in {"as"} |-> as]
HostRole == [a \in {"role"} |-> "host"]
With(members) == [NewGroup EXCEPT !.members = members]

Host == Node("linux", Missing, Nothing, <<>>, {})
Lab(a, b, groups, defaults, module, as) ==
  [nodes |-> [n \in {"a", "b", "c"} |-> CASE n = "a" -> a [] n = "b" -> b [] OTHER -> Host],
   groups |-> groups, defaults |-> defaults, auto |-> FALSE, module |-> module, as |-> as, as_list |-> Nothing]

\* Hierarchies: a chain in both orders of names, siblings, two groups around
\* one, and a group of devices or of an AS inside another.
Members(g1, g2, g3) == [g \in {"g1", "g2", "g3"} |-> CASE g = "g1" -> g1 [] g = "g2" -> g2 [] OTHER -> g3]
Hierarchies == {Members({"a"}, {"g1", "b"}, {"g2", "c"}), Members({"g2", "c"}, {"g3", "b"}, {"a"}),
                Members({"a", "b"}, {"a", "c"}, {"b"}), Members({"g3", "b"}, {"g3", "c"}, {"a", "b"}),
                Members({"g3", "g2"}, {"a", "g3"}, {"a"})}
Filled(h, data, config) ==
  [g \in {"g1", "g2", "g3"} |-> Group(h[g], NoDevice, Missing, data[g], config[g])]
Datas == [{"g1", "g2", "g3"} -> {"none", "area"}]
DataOf(d) == [g \in {"g1", "g2", "g3"} |->
  IF d[g] = "none" THEN Nothing ELSE Area(CASE g = "g1" -> 1 [] g = "g2" -> 2 [] OTHER -> 3)]
NoConfig == [g \in {"g1", "g2", "g3"} |-> <<>>]
Special == {Nothing, [g \in {"all"} |-> Group({}, NoDevice, Missing, Area(8), <<<<"all">>>>)],
            [g \in {"as1"} |-> Group({}, NoDevice, Missing, Area(7), <<<<"as1">>>>)],
            [g \in {"eos"} |-> Group({}, NoDevice, Missing, Area(6), <<<<"eos">>>>)]}

SomeA == {NewNode, Node("eos", Missing, Area(9), <<>>, {}), Node(NoDevice, <<{"bgp"}>>, Nothing, <<>>, {"g2"})}
SomeB == {NewNode, Node("eos", <<{"ospf"}>>, Nothing, <<>>, {"g3"}), Node(NoDevice, Missing, HostRole, <<>>, {})}
DataLabs == {Lab(a, b, Over(s, Filled(h, DataOf(d), NoConfig)), Nothing, {"bgp", "ospf"}, "as1") :
               a \in SomeA, b \in SomeB, s \in Special, h \in Hierarchies, d \in Datas}

\* Modules, devices, AS numbers and roles given by groups.
Givers == {Group({}, "eos", Missing, Nothing, <<>>), Group({}, "ios", <<{"bgp"}>>, As("as2"), <<>>),
           Group({}, "linux", Missing, Nothing, <<>>), Group({}, NoDevice, <<{"ospf"}>>, Area(4), <<>>),
           Group({}, NoDevice, <<{}>>, Nothing, <<>>), Group({}, NoDevice, Missing, As("as1"), <<>>),
           Group({}, NoDevice, Missing, HostRole, <<>>), Group({}, NoDevice, Missing, Area(5), <<>>)}
Gives(h, x, y, z) == [g \in {"g1", "g2", "g3"} |->
  [(CASE g = "g1" -> x [] g = "g2" -> y [] OTHER -> z) EXCEPT !.members = h[g]]]
GiverLabs == {Lab(NewNode, b, Over(s, Gives(h, x, y, NewGroup)), Nothing, m, as) :
                b \in {NewNode, Node("eos", <<{"ospf"}>>, As("as2"), <<>>, {"g3"})},
                s \in {Nothing, [g \in {"eos"} |-> Group({}, NoDevice, <<{"bgp"}>>, As("as1"), <<>>)],
                       [g \in {"all"} |-> Group({}, NoDevice, Missing, Nothing, <<>>)]},
                h \in Hierarchies, x \in Givers, y \in Givers, m \in {{}, {"bgp", "ospf"}}, as \in {NoAs, "as1"}}

\* Templates and their removal.
ConfigLabs == {Lab([NewNode EXCEPT !.config = own], [NewNode EXCEPT !.device = "eos"],
                   Over(s, Filled(h, DataOf([g \in {"g1", "g2", "g3"} |-> "none"]),
                     [g \in {"g1", "g2", "g3"} |-> CASE g = "g1" -> c1 [] g = "g2" -> c2 [] OTHER -> c3])), Nothing, {"bgp"}, "as1") :
                 own \in {<<>>, <<<<"a">>>>, <<<<"-">>, <<"a">>>>, <<<<"-", "x2">>, <<"a">>>>},
                 c1 \in {<<>>, <<<<"x1">>, <<"y1">>>>, <<<<"-", "x2">>, <<"x1">>>>, <<<<"-">>, <<"x1">>>>},
                 c2 \in {<<>>, <<<<"x2">>>>, <<<<"-", "x3">>, <<"x2">>>>},
                 c3 \in {<<>>, <<<<"x3">>>>, <<<<"-", "y1">>, <<"x3">>>>},
                 s \in Special, h \in Hierarchies}

\* Errors, created nodes, default groups, and groups only nodes ask for.
Defaults == {Nothing, [g \in {"g1"} |-> With({"a", "x"})], [g \in {"g2"} |-> Group({"g1", "b"}, "eos", Missing, Area(5), <<>>)],
             [g \in {"g2", "g3"} |-> IF g = "g2" THEN [With({"g3", "d"}) EXCEPT !.auto = TRUE] ELSE Group({"a"}, "eos", <<{"ospf"}>>, Area(2), <<>>)],
             [g \in {"b"} |-> NewGroup], [g \in {"eos"} |-> With({"a"})],
             [g \in {"eos"} |-> Group({}, NoDevice, <<{"ospf"}>>, Area(3), <<>>)]}
Written == {Nothing, [g \in {"g1"} |-> With({})], [g \in {"g1"} |-> Group({"b"}, NoDevice, Missing, Area(1), <<>>)],
            [g \in {"g1", "g2"} |-> With(IF g = "g1" THEN {"g2"} ELSE {"g1"})], [g \in {"g1"} |-> With({"d", "a"})],
            [g \in {"g1"} |-> With({"g3"})], [g \in {"a"} |-> With({"b"})], [g \in {"as1"} |-> With({"a"})],
            [g \in {"g1", "as1"} |-> With(IF g = "g1" THEN {"as1"} ELSE {})],
            [g \in {"g1", "eos"} |-> IF g = "g1" THEN Group({"eos"}, NoDevice, Missing, Area(1), <<>>) ELSE NewGroup],
            [g \in {"eos"} |-> Group({}, "ios", Missing, Nothing, <<>>)], [g \in {"all"} |-> With({"a"})],
            [g \in {"g1"} |-> Group({}, "eos", Missing, Nothing, <<>>)]}
MemberLabs == {[Lab([NewNode EXCEPT !.group = asked], b, w, d, m, "as1") EXCEPT !.auto = auto] :
                 asked \in {{}, {"g1"}, {"g3", "all"}}, b \in {NewNode, Node("eos", Missing, Nothing, <<>>, {})},
                 w \in Written, d \in Defaults, m \in {{}, {"bgp", "ospf"}}, auto \in BOOLEAN}

\* AS numbers from bgp.as_list, with AS numbers of groups and nodes next to them.
AsOne(members, rr) == [as \in {"as1"} |-> [members |-> members, rr |-> rr]]
Lists == {AsOne({"a", "b"}, {"a"}), AsOne({"a", "c"}, {"b"}), AsOne({"a", "x"}, {}),
          [as \in {"as1", "as2"} |-> IF as = "as1" THEN [members |-> {"a"}, rr |-> {}] ELSE [members |-> {"b", "c"}, rr |-> {"b"}]],
          [as \in {"as1", "as2"} |-> [members |-> {"a"}, rr |-> {"a"}]]}
ListLabs == {[Lab(a, b, Over(s, Filled(h, [g \in {"g1", "g2", "g3"} |-> IF g = "g2" THEN d ELSE Nothing], NoConfig)), Nothing, m, as)
                EXCEPT !.as_list = list] :
               a \in {NewNode, [NewNode EXCEPT !.data = As("as1")]}, b \in {NewNode, Node(NoDevice, <<{"bgp"}>>, [x \in {"rr"} |-> "no"], <<>>, {})},
               s \in {Nothing, [g \in {"as2"} |-> Group({}, NoDevice, Missing, [x \in {"area", "rr"} |-> IF x = "rr" THEN "yes" ELSE 7], <<>>)]},
               h \in Hierarchies, d \in {Nothing, As("as1"), [x \in {"rr"} |-> "no"]}, m \in {{}, {"bgp", "ospf"}}, as \in {NoAs, "as1"}, list \in Lists}

AllLabs == DataLabs \cup GiverLabs \cup ConfigLabs \cup MemberLabs \cup ListLabs
==============================================================================
