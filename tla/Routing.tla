------------------------------ MODULE Routing ------------------------------
(***************************************************************************)
(* BGP and the interior protocols of a lab together: node_transform in       *)
(* netsim/modules/__init__.py calls the post-transform hooks of the modules  *)
(* of one node after the other, BGP before the interior protocols.  They     *)
(* share the topology, the roles BGP gave to links, and the error counter.   *)
(***************************************************************************)
EXTENDS BgpSessions

VARIABLES at, step, modules, runs, members, passive, instances, imports

Igp == INSTANCE IgpInstances

igpVars == <<at, step, modules, runs, members, passive, instances, imports>>
routingVars == <<vars, igpVars>>

RoutingInit == Init /\ Igp!Init

\* BGP has built the sessions of the node whose hooks run, if it has any.
BgpIsDone == lab.order[at] \in Nodes => \E x \in 1..k - 1 : lab.nodes[x] = lab.order[at]
IgpTurn == stage = "ibgp" /\ at <= Len(lab.order) /\ BgpIsDone

BgpStep == ~IgpTurn /\ Next /\ UNCHANGED igpVars
IgpStep == IgpTurn /\ Igp!Next /\ UNCHANGED <<stage, k, todo, as, rr, confedAs, lla, sessions>>

RoutingNext == BgpStep \/ IgpStep

RoutingSpec == RoutingInit /\ [][RoutingNext]_routingVars

-----------------------------------------------------------------------------
AdjacenciesMeet == Igp!AdjacenciesMeet
ImportsResolve == Igp!ImportsResolve
=============================================================================
