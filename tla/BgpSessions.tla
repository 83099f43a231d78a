----------------------------- MODULE BgpSessions -----------------------------
(***************************************************************************)
(* The BGP sessions of a lab: netsim/modules/bgp.py.  Autonomous systems and *)
(* route reflectors come from nodes, from bgp.as_list and bgp.rr_list, the   *)
(* roles of links from the systems on them, and then every node builds its   *)
(* own list of neighbors, one node after the other: first the IBGP sessions, *)
(* then a session for every neighbor on its interfaces.  Nothing but these   *)
(* lists makes the two ends of a session agree.                              *)
(* Addresses, cluster identifiers, communities, activation of address        *)
(* families, advertised prefixes, VLANs and attributes of plugins are left   *)
(* out: an address is the interface or loopback it belongs to.               *)
(***************************************************************************)
EXTENDS RoutingLab

CONSTANT Labs       \* families of topologies

ASSUME LabsAssumption == \A family \in Labs : \A x \in family : WellFormed(x)

VARIABLES
  stage,      \* the hook that runs next
  k,          \* the node it runs for
  todo,       \* <<l, i, j>>: neighbor j of its interface i on link l is still to be looked at
  as, rr,     \* bgp.as and bgp.rr of every node
  role,       \* the role of every link
  confedAs,   \* bgp.confederation.as of every node, 0 without one
  lla,        \* interfaces whose ipv6 was set to True for an unnumbered neighbor
  sessions,   \* the neighbors of every node
  failed      \* an error was reported

vars == <<lab, stage, k, todo, as, rr, role, confedAs, lla, sessions, failed>>

Types == {"ibgp", "ebgp", "localas_ibgp", "confed_ebgp"}
EbgpRole == "external"
NoAs == 0

\* Python's or: the first AS that is there.
Or(a, b) == IF a # NoAs THEN a ELSE b

\* The neighbors on the interfaces of a node, and their order: link, own
\* interface, that of the neighbor.
Neighbors(n) == UNION {{<<p[1], p[2], j>> : j \in DOMAIN lab.links[p[1]].intfs \ {p[2]}} : p \in Own(n)}
Precedes(p, q) == p[1] < q[1] \/ (p[1] = q[1] /\ (p[2] < q[2] \/ (p[2] = q[2] /\ p[3] < q[3])))

Init ==
  /\ \E family \in Labs : lab \in family
  /\ stage = "as_list" /\ k = 1 /\ todo = {}
  /\ as = lab.as /\ rr = lab.rr
  /\ role = [l \in DOMAIN lab.links |-> lab.links[l].role]
  /\ confedAs = [n \in DOMAIN lab.as |-> NoAs]
  /\ lla = {}
  /\ sessions = [n \in Nodes |-> {}]
  /\ failed = FALSE

Check(next) == stage' = IF failed' THEN "aborted" ELSE next

-----------------------------------------------------------------------------
(* Systems, route reflectors, roles and confederations                      *)

AsOf(n) == {a \in DOMAIN lab.asList : n \in lab.asList[a].members}

\* process_as_list: a node has one AS, and a route reflector is a member.
AsListErrors ==
  \/ \E n \in DOMAIN as : \/ \E a, b \in AsOf(n) : a # b
                          \/ as[n] # NoAs /\ AsOf(n) \notin {{}, {as[n]}}
  \/ \E a \in DOMAIN lab.asList : ~(lab.asList[a].rr \subseteq lab.asList[a].members)

\* What a node says wins over the list.
ListedRr(n) == IF rr[n] = "" /\ (\E a \in AsOf(n) : n \in lab.asList[a].rr) THEN "yes" ELSE rr[n]

ProcessAsList ==
  /\ stage = "as_list"
  /\ failed' = AsListErrors
  /\ as' = [n \in DOMAIN as |-> IF AsOf(n) = {} \/ failed' THEN as[n] ELSE CHOOSE a \in AsOf(n) : TRUE]
  /\ rr' = [n \in DOMAIN rr |-> ListedRr(n)]
  /\ Check("nodes")
  /\ UNCHANGED <<lab, k, todo, role, confedAs, lla, sessions>>

\* node_pre_transform.
NodePreTransform ==
  /\ stage = "nodes"
  /\ rr' = [n \in DOMAIN rr |-> IF n \in Nodes \cap lab.rrList THEN "yes" ELSE rr[n]]
  /\ failed' = (\E n \in Nodes : as[n] = NoAs)
  /\ Check("roles")
  /\ UNCHANGED <<lab, k, todo, as, role, confedAs, lla, sessions>>

\* get_interface_as: the AS of an interface, before and after it takes the
\* attributes of its link.
InterfaceAs(l, i) == Or(Or(Intf(l, i).localAs, lab.localAs[Intf(l, i).node]), as[Intf(l, i).node])
HasBgp(l, i) == Intf(l, i).bgp /\ Intf(l, i).node \in Nodes
LocalAs(l, i) == Or(IF HasBgp(l, i) THEN Or(Intf(l, i).localAs, lab.links[l].localAs) ELSE NoAs, lab.localAs[Intf(l, i).node])

\* A bug: the local systems are forgotten.
RealLinkAs(l) == {as[Intf(l, i).node] : i \in DOMAIN lab.links[l].intfs} \ {NoAs}
\* The systems on a link: the real and the local ones.
LinkAs(l) == (UNION {{as[Intf(l, i).node], InterfaceAs(l, i)} : i \in DOMAIN lab.links[l].intfs}) \ {NoAs}
LinkRole(l) == IF (\E a, b \in LinkAs(l) : a # b) /\ role[l] = "" THEN EbgpRole ELSE role[l]

\* module_pre_link_transform.
EbgpRoleLink ==
  /\ stage = "roles"
  /\ role' = [l \in DOMAIN role |-> LinkRole(l)]
  /\ stage' = "post"
  /\ UNCHANGED <<lab, k, todo, as, rr, confedAs, lla, sessions, failed>>

\* check_confederation_data.
ConfedOf(a) == {c \in DOMAIN lab.confed : a \in lab.confed[c]}
ConfedErrors ==
  \/ \E c \in DOMAIN lab.confed : \/ lab.confed[c] = {}
                                  \/ \E a \in lab.confed[c] : a \in DOMAIN lab.confed \/ ConfedOf(a) # {c}
  \/ \E n \in DOMAIN as : \/ as[n] \in DOMAIN lab.confed
                          \/ ConfedOf(as[n]) # {} /\ "confederation" \notin lab.features[n]

ModulePostTransform ==
  /\ stage = "post"
  /\ failed' = ConfedErrors
  /\ confedAs' = [n \in DOMAIN as |->
       IF ConfedOf(as[n]) = {} \/ "confederation" \notin lab.features[n] THEN NoAs ELSE CHOOSE c \in ConfedOf(as[n]) : TRUE]
  /\ stage' = "ibgp"
  /\ UNCHANGED <<lab, k, todo, as, rr, role, lla, sessions>>

Peers(n) == IF confedAs[n] = NoAs THEN {} ELSE lab.confed[confedAs[n]] \ {as[n]}

-----------------------------------------------------------------------------
(* build_ibgp_sessions                                                      *)

Rr(n) == rr[n] = "yes"
FindRr(a) == {n \in Nodes : as[n] = a /\ Rr(n)}
\* A bug: what the other reflector says of the mesh does not count.
KeepsMeshAlone(n) == ~Rr(n)
KeepsMesh(n) == ~Rr(n) \/ n \notin lab.noMesh

\* Everyone else in the AS, or its route reflectors.
IbgpPeers(n) ==
  LET others == {m \in Nodes \ {n} : as[m] = as[n]}
  IN  IF Rr(n) \/ FindRr(as[n]) = {}
      THEN IF Rr(n) /\ n \in lab.noMesh THEN {m \in others : KeepsMesh(m)} ELSE others
      ELSE FindRr(as[n])

\* The families of an interface, those of an unnumbered one after lla.
Address(l, i, af) == IF af = "ipv6" /\ <<l, i>> \in lla /\ Intf(l, i).addr[af] = "none" THEN "true" ELSE Intf(l, i).addr[af]
NoAddress == [af \in AF |-> "none"]

\* get_remote_cp_endpoint: an internal, external or VRF interface, in this order.
Rank(l, i) == IF Intf(l, i).vrf # "" THEN 3 ELSE IF role[l] = EbgpRole THEN 2 ELSE 1
Ranked(p) == <<Rank(p[1], p[2]), p[1], p[2]>>
CpInterface(n) == CHOOSE p \in Own(n) : \A q \in Own(n) \ {p} : Precedes(Ranked(p), Ranked(q))
CpEndpoint(n) ==
  LET best == CpInterface(n)
  IN  IF Own(n) = {} THEN NoAddress ELSE [af \in AF |-> Address(best[1], best[2], af)]

\* get_remote_ibgp_endpoint.
IbgpEndpoint(n) ==
  IF lab.loopback[n] # {} THEN [af \in AF |-> IF af \in lab.loopback[n] THEN "number" ELSE "none"]
  ELSE IF n \in lab.daemon THEN CpEndpoint(n)
  ELSE NoAddress

\* bgp_neighbor: the address of the neighbor in the families that have
\* sessions of this type.
Transport(n, type, addr) == [af \in AF |-> IF type \in lab.sessions[n][af] THEN addr[af] ELSE "none"]

\* A bug: clients have a single route reflector.
IsClientOnce(n, m) == Rr(n) /\ rr[m] = "" /\ FindRr(as[n]) = {n}
\* get_neighbor_rr: a neighbor without a bgp.rr of its own is a client.
IsClient(n, m) == Rr(n) /\ rr[m] = ""
IbgpSession(n, m) ==
  [peer |-> m, type |-> "ibgp", as |-> as[m], to |-> Transport(n, "ibgp", IbgpEndpoint(m)), client |-> IsClient(n, m),
   nhs |-> "ebgp", localAs |-> NoAs, localIf |-> FALSE, rfc8950 |-> FALSE, vrf |-> "", link |-> 0, own |-> 0, remote |-> 0]
IbgpSessions(n) == {s \in {IbgpSession(n, m) : m \in IbgpPeers(n)} : s.to # NoAddress}

\* get_interface_as of an interface of a node, its addresses, and a local AS
\* the device cannot use there: an error, and no sessions on it.
OwnAs(l, i) == Or(LocalAs(l, i), as[Intf(l, i).node])
Usable(l, i) == \E af \in AF : Intf(l, i).addr[af] # "none"
LocalAsError(l, i) ==
  LET features == lab.features[Intf(l, i).node]
  IN  /\ Intf(l, i).bgp /\ Usable(l, i) /\ as[Intf(l, i).node] # OwnAs(l, i)
      /\ ("local_as" \notin features \/ (Intf(l, i).vrf # "" /\ "vrf_local_as" \notin features))

BuildIbgpSessions ==
  /\ stage = "ibgp" /\ k <= Len(lab.nodes)
  /\ sessions' = [sessions EXCEPT ![lab.nodes[k]] = IbgpSessions(lab.nodes[k])]
  /\ failed' = (failed \/ \E p \in Own(lab.nodes[k]) : LocalAsError(p[1], p[2]))
  /\ todo' = Neighbors(lab.nodes[k])
  /\ stage' = "ebgp"
  /\ UNCHANGED <<lab, k, as, rr, role, confedAs, lla>>

-----------------------------------------------------------------------------
(* build_ebgp_sessions: one neighbor <<l, i, j>>, at interface j of link l   *)

\* The AS of the neighbor for a node that uses AS a: outside of its
\* confederation the confederation AS; a local AS comes first.
RealAs(m, a) == IF confedAs[m] # NoAs /\ a \notin Peers(m) \cup {as[m]} THEN confedAs[m] ELSE as[m]
RemoteAs(l, i, j) == Or(LocalAs(l, j), RealAs(Intf(l, j).node, OwnAs(l, i)))

\* The neighbor is looked at.
Considered(l, i, j) ==
  LET n == Intf(l, i).node
      m == Intf(l, j).node
  IN  /\ Intf(l, i).bgp /\ Usable(l, i) /\ ~LocalAsError(l, i)
      /\ Usable(l, j)
      /\ RemoteAs(l, i, j) # NoAs
      /\ ~(as[n] = RealAs(m, OwnAs(l, i)) /\ OwnAs(l, i) = RemoteAs(l, i, j))

Type(l, i, j) ==
  IF RemoteAs(l, i, j) = OwnAs(l, i) THEN "localas_ibgp"
  ELSE IF RemoteAs(l, i, j) \in Peers(Intf(l, i).node) THEN "confed_ebgp"
  ELSE "ebgp"

Both(l, i, j, af, kind) == Address(l, i, af) = kind /\ Intf(l, j).addr[af] = kind
Unnumbered(l, i, j) == Both(l, i, j, "ipv4", "true")
OverNumbered(l, i, j) == Unnumbered(l, i, j) /\ Both(l, i, j, "ipv6", "number")
OverLla(l, i, j) == Both(l, i, j, "ipv6", "true") \/ (Unnumbered(l, i, j) /\ ~OverNumbered(l, i, j))

\* Only one end is unnumbered.
Mixed(l, i, j) == \E af \in AF : Address(l, i, af) = "true" /\ Intf(l, j).addr[af] # "true"

Missing(l, i, j) ==
  LET features == lab.features[Intf(l, i).node]
  IN  \/ OverLla(l, i, j) /\ "ipv6_lla" \notin features
      \/ OverNumbered(l, i, j) /\ "rfc8950" \notin features
      \/ Type(l, i, j) = "localas_ibgp" /\ "local_as_ibgp" \notin features

EbgpSession(l, i, j) ==
  LET n == Intf(l, i).node
      type == Type(l, i, j)
  IN  [peer |-> Intf(l, j).node, type |-> type, as |-> RemoteAs(l, i, j),
       to |-> Transport(n, type, Intf(l, j).addr), client |-> type = "localas_ibgp",
       nhs |-> IF type = "ebgp" THEN "" ELSE "all", localAs |-> LocalAs(l, i),
       localIf |-> OverLla(l, i, j), rfc8950 |-> Unnumbered(l, i, j), vrf |-> Intf(l, i).vrf, link |-> l, own |-> i, remote |-> j]

\* A VRF may do without BGP.
Wanted(l, i, j) == ~(Intf(l, i).vrf # "" /\ Intf(l, i).node \in lab.noVrfBgp)

BuildEbgpSession ==
  /\ stage = "ebgp"
  /\ \E p \in todo :
       LET l == p[1]
           i == p[2]
           j == p[3]
           s == EbgpSession(l, i, j)
           considered == Considered(l, i, j)
           broken == Mixed(l, i, j) \/ Missing(l, i, j)
       IN  /\ \A q \in todo \ {p} : Precedes(p, q)
           /\ todo' = todo \ {p}
           /\ failed' = (failed \/ (considered /\ broken))
           /\ lla' = IF considered /\ ~Mixed(l, i, j) /\ OverLla(l, i, j) /\ Address(l, i, "ipv6") = "none"
                     THEN lla \cup {<<l, i>>} ELSE lla
           /\ sessions' = IF considered /\ ~broken /\ s.to # NoAddress /\ Wanted(l, i, j)
                          THEN [sessions EXCEPT ![lab.nodes[k]] = @ \cup {s}] ELSE sessions
  /\ UNCHANGED <<lab, stage, k, as, rr, role, confedAs>>

\* localas_ibgp_nhs_fixup, for the sessions of the global routing table.
Fixup(ss) ==
  IF \E s \in ss : s.type = "localas_ibgp" /\ s.vrf = ""
  THEN {IF s.type = "ibgp" THEN [s EXCEPT !.nhs = "all"] ELSE s : s \in ss} ELSE ss

LocalasIbgpNhsFixup ==
  /\ stage = "ebgp" /\ todo = {}
  /\ sessions' = [sessions EXCEPT ![lab.nodes[k]] = Fixup(@)]
  /\ stage' = "ibgp" /\ k' = k + 1
  /\ UNCHANGED <<lab, todo, as, rr, role, confedAs, lla, failed>>

\* The end of all hooks.
PostTransform ==
  /\ stage = "ibgp" /\ k > Len(lab.nodes)
  /\ stage' = IF failed THEN "aborted" ELSE "done"
  /\ UNCHANGED <<lab, k, todo, as, rr, role, confedAs, lla, sessions, failed>>

Next == ProcessAsList \/ NodePreTransform \/ EbgpRoleLink \/ ModulePostTransform
        \/ BuildIbgpSessions \/ BuildEbgpSession \/ LocalasIbgpNhsFixup \/ PostTransform

Spec == Init /\ [][Next]_vars

-----------------------------------------------------------------------------
(* Properties                                                               *)

AsUsed == {NoAs} \cup DOMAIN lab.asList \cup DOMAIN lab.confed
          \cup UNION {{lab.as[n], lab.localAs[n]} : n \in DOMAIN lab.as}
          \cup UNION {{lab.links[p[1]].localAs, Intf(p[1], p[2]).localAs} : p \in Interfaces}

SessionOk(n, s) ==
  /\ s.peer \in Nodes \ {n} /\ s.type \in Types /\ s.as \in AsUsed \ {NoAs} /\ s.localAs \in AsUsed
  /\ s.to \in [AF -> Kinds] \ {NoAddress}
  /\ s.nhs \in {"", "ebgp", "all"}
  /\ s.type = "ibgp" <=> s.link = 0

\* Types: nobody peers with itself, a session has an address and an AS, and
\* only IBGP sessions are not those of an interface.
TypeOK ==
  /\ stage \in {"as_list", "nodes", "roles", "post", "ibgp", "ebgp", "done", "aborted"}
  /\ k \in 1..Len(lab.nodes) + 1 /\ todo \subseteq UNION {Neighbors(n) : n \in Nodes}
  /\ as \in [DOMAIN lab.as -> AsUsed] /\ rr \in [DOMAIN lab.as -> {"", "yes", "no"}]
  /\ confedAs \in [DOMAIN lab.as -> {NoAs} \cup DOMAIN lab.confed]
  /\ DOMAIN role = DOMAIN lab.links
  /\ lla \subseteq Interfaces
  /\ \A n \in Nodes : \A s \in sessions[n] : SessionOk(n, s)

\* The AS node m shows on its session t: the local one, or that of its
\* confederation to nodes outside of it, or its own.
Shown(m, t) ==
  IF t.localAs # NoAs /\ t.type # "ibgp" THEN t.localAs
  ELSE IF confedAs[m] # NoAs /\ t.as \notin lab.confed[confedAs[m]] THEN confedAs[m] ELSE as[m]

\* The addresses of the end of a session that has it in its list.
Endpoint(n, s) == IF s.type = "ibgp" THEN IbgpEndpoint(n) ELSE Intf(s.link, s.own).addr

\* The families of session s of n its peer m may use too.
Common(n, s) == {af \in AF : s.to[af] # "none" /\ Endpoint(n, s)[af] # "none" /\ s.type \in lab.sessions[s.peer][af]}

\* The peer has BGP where the session ends.
Runs(s) == s.type = "ibgp" \/ (HasBgp(s.link, s.remote) /\ Wanted(s.link, s.remote, s.own))

Matches(n, s, t) ==
  /\ t.peer = n /\ t.type = s.type /\ t.link = s.link /\ t.own = s.remote /\ t.remote = s.own
  /\ s.as = Shown(s.peer, t) /\ t.as = Shown(n, s)
  /\ s.client /\ t.client => s.type = "localas_ibgp"
  /\ t.localIf = s.localIf /\ t.rfc8950 = s.rfc8950
  /\ \A af \in Common(n, s) : s.to[af] = t.to[af] /\ (s.to[af] = "true" => s.localIf \/ s.rfc8950)

\* The two ends of a session, which two nodes put into their lists at
\* different times, agree: both have it, of one type, over the same addresses
\* and with the AS number the other end really uses (docs/module/bgp.md, "BGP
\* Sessions").  Unless BGP was turned off where it ends, or the ends have no
\* family in common.
SessionsAgree ==
  stage = "done" => \A n \in Nodes : \A s \in sessions[n] :
    Common(n, s) # {} /\ Runs(s) => \E t \in sessions[s.peer] : Matches(n, s, t)

Ibgp(n, m, af) == \E s \in sessions[n] : s.type = "ibgp" /\ s.peer = m /\ s.to[af] # "none"
Speaks(n, af) == IbgpEndpoint(n)[af] # "none" /\ "ibgp" \in lab.sessions[n][af]
Reflects(r, n, m) == \E s \in sessions[r] : s.type = "ibgp" /\ s.client /\ s.peer \in {n, m}

\* Every route of a node reaches the other nodes of its AS: over a session of
\* the two, or through a route reflector that has one of them as a client
\* (docs/module/bgp.md, "IBGP sessions").  Two reflectors that want no mesh
\* are left alone, and so are two nodes that say bgp.rr: False next to
\* reflectors: they are nobody's clients.
RoutesReach ==
  stage = "done" => \A n, m \in Nodes, af \in AF :
    /\ n # m /\ as[n] = as[m] /\ Speaks(n, af) /\ Speaks(m, af)
    /\ ~({n, m} \subseteq FindRr(as[n]) \cap lab.noMesh)
    /\ FindRr(as[n]) = {} \/ (~(rr[n] = "no" /\ rr[m] = "no") /\ \E r \in FindRr(as[n]) : Speaks(r, af))
    => \/ Ibgp(n, m, af) /\ Ibgp(m, n, af)
       \/ \E r \in Nodes \ {n, m} : /\ Ibgp(n, r, af) /\ Ibgp(r, n, af) /\ Ibgp(m, r, af) /\ Ibgp(r, m, af)
                                    /\ Reflects(r, n, m)

\* A link with a session other than IBGP both ends run has a role, which keeps the IGP away
\* from it (docs/module/bgp.md, "Interaction with IGP"): the role is set
\* before addresses, confederations and types of sessions are known.
ExternalLinks ==
  stage = "done" => \A n \in Nodes : \A s \in sessions[n] : s.type # "ibgp" /\ Runs(s) => role[s.link] # ""

=============================================================================
