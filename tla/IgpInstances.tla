---------------------------- MODULE IgpInstances ----------------------------
(***************************************************************************)
(* The interior routing protocols of a lab: netsim/modules/_routing.py with  *)
(* ospf.py, isis.py, eigrp.py and ripv2.py.  Node after node, and for a node *)
(* protocol after protocol, a hook decides which interfaces run the protocol *)
(* in the global routing table and in VRFs, which are passive, and what is   *)
(* imported from where.  It looks at the modules of the neighbors, from      *)
(* which the hooks of earlier nodes may have removed a protocol, and BGP has *)
(* already arranged to import protocols into VRFs that may turn out not to   *)
(* run there.                                                                *)
(* Areas, metrics, timers, network types, router ids, BFD, default routes,   *)
(* route policies and the protocol data of loopbacks are left out.           *)
(***************************************************************************)
EXTENDS RoutingLab

VARIABLES
  role,       \* the role of every link
  at, step,   \* the node whose hooks run, and which of them is next
  modules,    \* the interior protocols still among the modules of a node
  runs,       \* <<interface, P>> that run P in the global routing table
  members,    \* <<interface, P>> in the instance of P of the VRF of the interface
  passive,    \* those of them that are passive
  instances,  \* <<n, v, P>> for an instance of P in VRF v of node n
  imports,    \* what an instance imports
  failed      \* an error was reported

VrfAware == {"ospf", "isis", "ripv2"}

Order == lab.order
At(p) == Intf(p[1], p[2])
Neighbors(p) == {<<p[1], j>> : j \in DOMAIN lab.links[p[1]].intfs} \ {p}
Vrfs(n) == {At(p).vrf : p \in Own(n)} \ {""}
Static(p) == {af \in AF : At(p).addr[af] # "none"}
Families(p) == Static(p) \cup {af \in AF : <<p, af>> \in lab.dhcp}
Lacks(n, P, feature) == <<n, P, feature>> \in lab.lacks

Import(n, v, P, from, auto) == [node |-> n, vrf |-> v, into |-> P, from |-> from, auto |-> auto]

\* The first hook of a node is that of BGP.
First(x) == IF x <= Len(Order) /\ Order[x] \in Nodes THEN 0 ELSE 1

Init ==
  /\ at = 1 /\ step = First(1)
  /\ modules = [n \in ToSet(Order) |-> ToSet(lab.igps[n])]
  /\ runs = {} /\ members = {} /\ passive = {} /\ instances = {}
  /\ imports = UNION {{Import(d[1], d[2], d[3], s, FALSE) : s \in lab.import[d]} : d \in DOMAIN lab.import}

-----------------------------------------------------------------------------
(* Imports: check_import_request and process_imports                        *)

Protocols(n) == modules[n] \cup (IF n \in Nodes THEN {"bgp"} ELSE {})
Explicit(all, n, v, P) == {i \in all : i.node = n /\ i.vrf = v /\ i.into = P /\ ~i.auto}

WrongImport(all, n, v, P) ==
  \E i \in Explicit(all, n, v, P) :
    \/ Lacks(n, P, "import") \/ Lacks(n, P, i.from)
    \/ i.from \notin Protocols(n) \cup {"connected", "static"}
    \/ i.from = P
    \/ v # "" /\ Lacks(n, P, "vrf")

\* A VRF without an import of its own takes the usual sources it has.
Automatic(all, n, v, P, sources) ==
  IF Explicit(all, n, v, P) # {} \/ Lacks(n, P, "import") \/ Lacks(n, P, "vrf") THEN {}
  ELSE {Import(n, v, P, s, TRUE) : s \in sources}

\* RIPv2 is rip in the results.
Renamed(i) == IF i.from = "ripv2" THEN [i EXCEPT !.from = "rip"] ELSE i
ProcessImports(all, n, P, vrfs, sources) ==
  {IF i.node = n /\ i.into = P THEN Renamed(i) ELSE i : i \in all \cup UNION {Automatic(all, n, v, P, sources) : v \in vrfs}}

Advance == step' = step + 1 /\ UNCHANGED at

\* The end of the hook of BGP: it imports what runs on the node, whether or
\* not it will run in the VRF.
BgpImports ==
  /\ at <= Len(Order) /\ step = 0
  /\ LET n == Order[at]
     IN  /\ imports' = ProcessImports(imports, n, "bgp", Vrfs(n), {"connected"} \cup (modules[n] \cap VrfAware))
         /\ failed' = (failed \/ \E v \in Vrfs(n) \cup {""} : WrongImport(imports, n, v, "bgp"))
  /\ Advance
  /\ UNCHANGED <<lab, role, modules, runs, members, passive, instances>>

-----------------------------------------------------------------------------
(* Interfaces                                                               *)

External(p, P) == role[p[1]] = "external" \/ <<p, P>> \in lab.off
\* The interfaces of a node that run P, or would: those with an address.
Addressed(n, P) == {p \in Own(n) : ~External(p, P) /\ (IF P = "isis" THEN Static(p) ELSE Families(p)) # {}}

\* No neighbor has the protocol, as far as its modules still say.
TrueStub(p, P) == \A q \in Neighbors(p) : P \notin modules[At(q).node]
\* Set_passive: what the interface says, or its link.
Passive(p, P) ==
  IF <<p, P>> \in DOMAIN lab.passive THEN lab.passive[<<p, P>>]
  ELSE role[p[1]] = "passive" \/ Neighbors(p) = {} \/ (role[p[1]] = "stub" /\ TrueStub(p, P))

\* ospf_unnumbered, isis_unnumbered and ripv2_unnumbered.
Unnumbered(p, af) == At(p).addr[af] = "true"
UnnumberedError(n, P) ==
  \/ P \in {"ospf", "ripv2"} /\ \E p \in Own(n) : /\ ~External(p, P) /\ Unnumbered(p, "ipv4")
                                                  /\ Lacks(n, P, "unnumbered") \/ (P = "ospf" /\ Cardinality(Neighbors(p)) # 1)
  \/ P = "isis" /\ \E p \in Own(n) : \/ Unnumbered(p, "ipv4") /\ Lacks(n, P, "unnumbered")
                                     \/ Unnumbered(p, "ipv6") /\ Lacks(n, P, "lla")
                                     \/ Unnumbered(p, "ipv4") /\ Cardinality(Neighbors(p)) > 1 /\ Lacks(n, P, "network")

-----------------------------------------------------------------------------
(* Instances: igp_post_transform                                            *)

VrfSays(n, v, P, what) == <<n, v, P>> \in DOMAIN lab.vrfIgp /\ lab.vrfIgp[<<n, v, P>>] = what
InVrf(n, v, P) == {p \in Addressed(n, P) : At(p).vrf = v /\ ~VrfSays(n, v, P, "off")}

\* A neighbor of interface p has the protocol and shares an address family.
HasNeighbor(p, P) == \E q \in Neighbors(p) : P \in modules[At(q).node] /\ Static(p) \cap Static(q) # {}
\* The protocol is needed in a VRF.
Active(n, v, P) ==
  \/ VrfSays(n, v, P, "active")
  \/ \E p \in InVrf(n, v, P) : VrfSays(n, v, P, "force") \/ HasNeighbor(p, P)

\* node_proto.af and routing_af: families given for the instance or, for a
\* VRF, for the node, or those of its interfaces and the loopback.
Af(n, v, P, intfs) ==
  IF <<n, v, P>> \in DOMAIN lab.af THEN lab.af[<<n, v, P>>]
  ELSE IF <<n, "", P>> \in DOMAIN lab.af THEN lab.af[<<n, "", P>>]
  ELSE (UNION {Families(p) : p \in intfs}) \cup (IF v = "" THEN lab.loopback[n] ELSE {})

\* check_interface_af.
Fitting(n, v, P, intfs) == {p \in intfs : Families(p) \cap Af(n, v, P, intfs) # {}}

\* A bug: VRFs of the node do not count.
GlobalUse(global, inVrf) == global # {}
\* remove_unused_igp.
Used(global, inVrf) == global # {} \/ inVrf # {}

\* A bug: imports into BGP are kept.
NotIntoBgp(n, gone, P) == {i \in imports : i.node = n /\ i.vrf \in gone /\ i.from = P /\ i.into # "bgp"}
\* remove_vrf_imports: imports into other instances of the VRF.
Dangling(n, gone, P) == {i \in imports : i.node = n /\ i.vrf \in gone /\ i.from = P}

\* An instance in a VRF takes the imports of the node, too.
Inherited(n, P, vrfs) == {Import(n, v, P, i.from, FALSE) : v \in vrfs, i \in Explicit(imports, n, "", P)}

IgpPostTransform ==
  /\ at <= Len(Order) /\ step \in DOMAIN lab.igps[Order[at]]
  /\ LET n == Order[at]
         P == lab.igps[n][step]
         outside == {p \in Addressed(n, P) : At(p).vrf = ""}
         global == Fitting(n, "", P, outside)
         alive == {v \in Vrfs(n) : P \in VrfAware /\ Active(n, v, P)}
         inVrf == UNION {Fitting(n, v, P, InVrf(n, v, P)) : v \in alive}
         gone == {v \in Vrfs(n) : P \in VrfAware} \ alive
         used == Used(global, inVrf)
         kept == (imports \ (Dangling(n, gone, P) \cup {i \in imports : i.node = n /\ i.vrf \in gone /\ i.into = P}))
                 \cup Inherited(n, P, {v \in alive : InVrf(n, v, P) # {}})
         noLoopback == \E v \in alive : <<n, v>> \notin lab.vrfLoopback /\ \E p \in InVrf(n, v, P) : Unnumbered(p, "ipv4")
         lacking == \E v \in alive \cup {""} : \E af \in Af(n, v, P, IF v = "" THEN outside ELSE InVrf(n, v, P)) : Lacks(n, P, af)
     IN  IF UnnumberedError(n, P)
         THEN failed' = TRUE /\ UNCHANGED <<modules, runs, members, passive, instances, imports>>
         ELSE /\ runs' = runs \cup {<<p, P>> : p \in global}
              /\ members' = members \cup {<<p, P>> : p \in inVrf}
              /\ passive' = passive \cup {<<p, P>> : p \in {q \in global \cup inVrf : Passive(q, P)}}
              /\ instances' = instances \cup {<<n, v, P>> : v \in alive}
              /\ modules' = [modules EXCEPT ![n] = IF used THEN @ ELSE @ \ {P}]
              /\ imports' = IF used THEN ProcessImports(kept, n, P, alive, {"connected"} \cup (Protocols(n) \cap {"bgp"})) ELSE kept
              /\ failed' = (failed \/ (\E i \in Dangling(n, gone, P) : ~i.auto) \/ noLoopback \/ lacking
                                   \/ (used /\ \E v \in alive \cup {""} : WrongImport(kept, n, v, P)))
  /\ Advance
  /\ UNCHANGED <<lab, role>>

\* node_transform goes on to the next node.
NextNode ==
  /\ at <= Len(Order) /\ step > Len(lab.igps[Order[at]])
  /\ at' = at + 1 /\ step' = First(at + 1)
  /\ UNCHANGED <<lab, role, modules, runs, members, passive, instances, imports, failed>>

Next == BgpImports \/ IgpPostTransform \/ NextNode

-----------------------------------------------------------------------------
(* Properties                                                               *)

Done == at > Len(Order) /\ ~failed

Runs(p, P) == P \in modules[At(p).node] /\ <<p, P>> \in runs \cup members

\* The node of interface p asked for P on it.
Asked(p, P) ==
  LET n == At(p).node
  IN  /\ P \in ToSet(lab.igps[n]) /\ <<p, P>> \notin lab.off
      /\ At(p).vrf = "" \/ (P \in VrfAware /\ ~VrfSays(n, At(p).vrf, P, "off"))

\* The families of P on an interface.
Spoken(p, P) == Static(p) \cap Af(At(p).node, At(p).vrf, P, {p})

\* When one end of a link runs an interior protocol, every other end that was
\* asked to, and that shares an address family, runs it too, in its VRF or
\* outside, and is not passive unless the user said so
\* (docs/module/routing_protocols.md, "Passive Interfaces";
\* docs/module/vrf.md, "Interaction with Routing Protocols").  Each end is
\* decided by another node, from what the modules of its neighbors are by then.
AdjacenciesMeet ==
  Done => \A p \in Interfaces : \A q \in Neighbors(p), P \in Igps :
    Runs(p, P) /\ Asked(q, P) /\ Spoken(p, P) \cap Spoken(q, P) # {}
    => /\ Runs(q, P)
       /\ <<q, P>> \in passive => <<q, P>> \in DOMAIN lab.passive \/ role[q[1]] = "passive"

\* Everything that is imported into an instance of a protocol in a VRF runs
\* there in the end: BGP imports protocols before they decide whether they
\* are needed in the VRF (remove_vrf_imports, "circular dependency").  RIPv2
\* is left out: its imports are not found under their new name.
ImportsResolve ==
  Done => \A i \in imports :
    i.vrf # "" /\ (i.into = "bgp" \/ <<i.node, i.vrf, i.into>> \in instances)
    => \/ i.from \in {"connected", "static", "rip"}
       \/ i.from = "bgp" /\ i.node \in Nodes
       \/ <<i.node, i.vrf, i.from>> \in instances /\ i.from \in modules[i.node]

=============================================================================
