----------------------------- MODULE AddressPlan -----------------------------
(***************************************************************************)
(* Identifiers and addresses of a lab: node identifiers (static ones,      *)
(* reserved gateway identifiers, and the next free ones), subnets drawn    *)
(* from address pools by order or by number, and the addresses of links.   *)
(* One address family; a subnet is its position in the generator of the    *)
(* pool.  Errors are collected and end the transformation at its           *)
(* checkpoints.                                                            *)
(***************************************************************************)
EXTENDS LinkAddresses

CONSTANTS
  NumNodes,      \* number of nodes
  NumLinks,      \* number of links
  MaxId,         \* MAX_NODE_ID
  Pools,         \* address pools
  Capacity,      \* how many subnets a pool has
  SubnetSize,    \* how many addresses a subnet of a pool has
  Others,        \* named prefixes, VLANs and VRF loopbacks with a prefix from a pool
  None,          \* no subnet
  StaticIds,     \* the static identifiers a node may have; 0 for none
  GatewayIds,    \* the gateway identifiers a link may have; 0 for none
  OtherGateways, \* the sets of gateway identifiers the lab and its VLANs may have
  StaticSizes,   \* the sizes of static prefixes on links
  StaticHosts,   \* the static addresses of interfaces
  Attachments,   \* the nodes of a link
  Allocations    \* the allocation policies of prefixes

Nodes == 1..NumNodes

Links == 1..NumLinks

\* Who gets a subnet from a pool.
Users == ({"node"} \X Nodes) \cup ({"link"} \X Links) \cup ({"other"} \X Others)

Subnets == Pools \X Nat

ASSUME PlanAssumption ==
  /\ NumNodes \in Nat \ {0} /\ NumLinks \in Nat \ {0} /\ MaxId \in Nat \ {0}
  /\ Capacity \in [Pools -> Nat]
  /\ SubnetSize \in [Pools -> Nat \ {0}]
  /\ None \notin Subnets
  /\ StaticIds \subseteq 0..MaxId /\ 0 \in StaticIds
  /\ GatewayIds \subseteq Int
  /\ OtherGateways \subseteq SUBSET Int
  /\ Attachments \subseteq Seq(Nodes) /\ StaticSizes \subseteq Nat \ {0}

VARIABLES
  phase,    \* the part of the transformation
  todo,     \* the next node or link
  gateway,  \* input: the gateway identifiers of the links
  ids,      \* the set of node identifiers in use
  next,     \* the counter of the set
  id,       \* the identifiers of the nodes; 0 for none yet
  drawn,    \* how many subnets were drawn from a pool
  cache,    \* the subnets of a pool that were drawn by number
  grant,    \* the subnet of every user
  last,     \* the last link that got addresses
  error     \* errors were reported

vars == <<phase, todo, gateway, ids, next, id, drawn, cache, grant, last, error>>

identity == <<gateway, ids, next, id>>
pools == <<drawn, cache, grant>>

NoLink ==
  [nodes |-> <<>>, type |-> "lan", gateway |-> 0, static |-> <<>>, size |-> 0,
   allocation |-> ""]

Init ==
  /\ phase = "gateways"
  /\ todo = 1
  /\ gateway \in [Links -> GatewayIds]
  /\ ids = {}
  /\ next = 1
  /\ id = [n \in Nodes |-> 0]
  /\ drawn = [p \in Pools |-> 0]
  /\ cache = [p \in Pools |-> <<>>]
  /\ grant = [u \in Users |-> None]
  /\ last = NoLink
  /\ error = FALSE

-----------------------------------------------------------------------------
(* Drawing subnets from pools *)

Draw(u, p, k) ==
  /\ drawn' = [drawn EXCEPT ![p] = @ + 1]
  /\ grant' = [grant EXCEPT ![u] = <<p, k>>]
  /\ UNCHANGED <<cache, error>>

RunOut == error' = TRUE /\ UNCHANGED pools

\* The next subnet of the pool, or an error.
NextPrefix(u, p) ==
  \/ drawn[p] < Capacity[p] /\ Draw(u, p, drawn[p] + 1)
  \/ drawn[p] >= Capacity[p] /\ RunOut

\* The subnets get_nth_subnet adds to the cache to have n of them.
Missing(p, n) ==
  IF n <= Len(cache[p]) THEN 0
  ELSE IF n - Len(cache[p]) <= Capacity[p] - drawn[p] THEN n - Len(cache[p])
  ELSE Capacity[p] - drawn[p]

Extended(p, n) ==
  [i \in 1..(Len(cache[p]) + Missing(p, n)) |->
     IF i <= Len(cache[p]) THEN cache[p][i] ELSE drawn[p] + i - Len(cache[p])]

\* A bug: the n-th subnet of the pool, whatever was drawn from it before.
NthPrefixOfPool(u, p, n) ==
  \/ n <= Capacity[p] /\ grant' = [grant EXCEPT ![u] = <<p, n>>]
     /\ UNCHANGED <<drawn, cache, error>>
  \/ n > Capacity[p] /\ RunOut

\* A bug: the subnet is the next one, whatever its number.
NthPrefixNext(u, p, n) == NextPrefix(u, p)

\* The n-th of the subnets drawn by number, or an error.
NthPrefix(u, p, n) ==
  /\ cache' = [cache EXCEPT ![p] = Extended(p, n)]
  /\ drawn' = [drawn EXCEPT ![p] = @ + Missing(p, n)]
  /\ \/ n <= Len(Extended(p, n))
        /\ grant' = [grant EXCEPT ![u] = <<p, Extended(p, n)[n]>>]
        /\ UNCHANGED error
     \/ n > Len(Extended(p, n)) /\ error' = TRUE /\ UNCHANGED grant

\* A named prefix or a VLAN takes its prefix before the nodes, a VRF loopback
\* after the links.
TakePrefix(u) ==
  /\ phase \in {"gateways", "static", "modules"}
  /\ grant[<<"other", u>>] = None
  /\ \E p \in Pools : NextPrefix(<<"other", u>>, p)
  /\ UNCHANGED <<phase, todo, identity, last>>

-----------------------------------------------------------------------------
(* Node identifiers *)

\* A bug: nothing is reserved for the gateways.
ReserveNothing ==
  /\ phase = "gateways"
  /\ phase' = "static"
  /\ UNCHANGED <<todo, identity, pools, last, error>>

\* The gateway module reserves the gateways of links and VLANs that count from
\* the start.
ReserveGateways ==
  /\ phase = "gateways"
  /\ phase' = "static"
  /\ \E v \in OtherGateways :
       ids' = {g \in v \cup {gateway[k] : k \in Links} : g > 0}
  /\ UNCHANGED <<todo, gateway, next, id, pools, last, error>>

\* exit_on_error
Checkpoint(to, failed) ==
  /\ phase' = IF error \/ failed THEN "failed" ELSE to
  /\ error' = (error \/ failed)

\* All static identifiers are reserved; one that is taken is an error.
ReserveStatic ==
  /\ phase = "static"
  /\ id' \in [Nodes -> StaticIds]
  /\ ids' = ids \cup ({id'[n] : n \in Nodes} \ {0})
  /\ Checkpoint("nodes",
       \E n \in Nodes : id'[n] # 0 /\ (id'[n] \in ids \/ \E m \in Nodes : m < n /\ id'[m] = id'[n]))
  /\ UNCHANGED <<todo, gateway, next, pools, last>>

Free == {i \in next..MaxId : i \notin ids}

\* get_next_id: the first free identifier from the counter on.
NextId(n) ==
  \E i \in Free :
    /\ \A j \in Free : i <= j
    /\ next' = i
    /\ ids' = ids \cup {i}
    /\ id' = [id EXCEPT ![n] = i]

Identify(n) ==
  \/ id[n] # 0 /\ UNCHANGED <<ids, next, id>>
  \/ id[n] = 0 /\ NextId(n)

Advance(final, to) ==
  IF todo < final THEN todo' = todo + 1 /\ UNCHANGED phase
  ELSE todo' = 1 /\ phase' = to

\* A node gets its identifier, and a loopback unless it wants none.
TransformNode(n) ==
  /\ phase = "nodes" /\ todo = n
  /\ Identify(n)
  /\ \/ \E p \in Pools : NthPrefix(<<"node", n>>, p, id'[n])
     \/ UNCHANGED <<pools, error>>
  /\ Advance(NumNodes, "checked")
  /\ UNCHANGED <<gateway, last>>

\* The identifiers have run out: get_next_id ends the command.
RunOutOfIds(n) ==
  /\ phase = "nodes" /\ todo = n
  /\ id[n] = 0 /\ Free = {}
  /\ Checkpoint("failed", TRUE)
  /\ UNCHANGED <<todo, identity, pools, last>>

CheckNodes ==
  /\ phase = "checked"
  /\ Checkpoint("links", FALSE)
  /\ UNCHANGED <<todo, identity, pools, last>>

-----------------------------------------------------------------------------
(* Links *)

\* The types a link between these nodes may have.
LinkTypes(nodes) == IF Len(nodes) = 2 THEN {"p2p", "lan"} ELSE {"lan"}

\* A link as the topology has it, with a prefix of this size.
LinkData(k, size) ==
  UNION {[nodes : {nodes}, type : LinkTypes(nodes), gateway : {gateway[k]},
          static : [1..Len(nodes) -> StaticHosts], size : {size},
          allocation : Allocations] : nodes \in Attachments}

\* The prefix of a link is static, or comes from a pool.
LinkPrefix(k, l) ==
  \/ l.size \in StaticSizes /\ UNCHANGED pools
  \/ \E p \in Pools :
       /\ l.size = SubnetSize[p] /\ drawn[p] < Capacity[p]
       /\ drawn' = [drawn EXCEPT ![p] = @ + 1]
       /\ grant' = [grant EXCEPT ![<<"link", k>>] = <<p, drawn[p] + 1>>]
       /\ UNCHANGED cache

TransformLink(k) ==
  /\ phase = "links" /\ todo = k
  /\ \E size \in StaticSizes \cup {SubnetSize[p] : p \in Pools} :
       \E l \in LinkData(k, size) :
         /\ LinkPrefix(k, l)
         /\ last' = l
         /\ error' = (error \/ ~Accepted(l, id))
  /\ Advance(NumLinks, "done")
  /\ UNCHANGED identity

\* The pool of a link has run out, and the link gets no addresses.
LinkWithoutPrefix(k) ==
  /\ phase = "links" /\ todo = k
  /\ \E p \in Pools : drawn[p] >= Capacity[p]
  /\ error' = TRUE
  /\ Advance(NumLinks, "done")
  /\ UNCHANGED <<identity, pools, last>>

\* A link that needs no prefix, or none of this address family.
SkipLink(k) ==
  /\ phase = "links" /\ todo = k
  /\ Advance(NumLinks, "done")
  /\ UNCHANGED <<identity, pools, last, error>>

CheckLinks ==
  /\ phase = "done"
  /\ Checkpoint("modules", FALSE)
  /\ UNCHANGED <<todo, identity, pools, last>>

CheckModules ==
  /\ phase = "modules"
  /\ Checkpoint("accepted", FALSE)
  /\ UNCHANGED <<todo, identity, pools, last>>

Next ==
  \/ \E u \in Others : TakePrefix(u)
  \/ ReserveGateways \/ ReserveStatic \/ CheckNodes \/ CheckLinks \/ CheckModules
  \/ \E n \in Nodes : TransformNode(n) \/ RunOutOfIds(n)
  \/ \E k \in Links : TransformLink(k) \/ LinkWithoutPrefix(k) \/ SkipLink(k)

Spec == Init /\ [][Next]_vars

-----------------------------------------------------------------------------
(* Properties *)

\* The types of the variables.
TypeOK ==
  /\ phase \in {"gateways", "static", "nodes", "checked", "links", "done", "modules",
               "accepted", "failed"}
  /\ todo \in Nat
  /\ gateway \in [Links -> GatewayIds]
  /\ ids \subseteq Int
  /\ next \in Nat
  /\ id \in [Nodes -> 0..MaxId]
  /\ drawn \in [Pools -> Nat]
  /\ \A p \in Pools : drawn[p] <= Capacity[p]
  /\ cache \in [Pools -> Seq(Nat)]
  /\ grant \in [Users -> Subnets \cup {None}]
  /\ error \in BOOLEAN

\* Past the static identifiers, no two nodes share one, and none has one that
\* a link uses for its gateway.
IdsAreUnique ==
  phase \in {"nodes", "checked", "links", "done", "modules", "accepted"} =>
    \A n \in Nodes :
      id[n] # 0 =>
        /\ \A m \in Nodes \ {n} : id[m] # id[n]
        /\ \A k \in Links : id[n] # gateway[k]

\* No two users get the same subnet, even when a pool serves some of them by
\* order and others by number.
SubnetsAreUnique ==
  \A u, v \in Users : u # v /\ grant[u] # None => grant[u] # grant[v]

\* A loopback is the subnet its node identifier names, as long as nobody else
\* takes subnets of the pool by order.
LoopbackFollowsId ==
  \A n \in Nodes :
    LET mine == grant[<<"node", n>>]
    IN  /\ mine # None
        /\ \A u \in Users : grant[u] # None /\ u[1] # "node" => grant[u][1] # mine[1]
        => mine[2] = id[n]

\* Two or more nodes get their addresses from every prefix that is large enough.
SharedPrefixesDo == Count(last) > 1 /\ Fits(last) => HasAddresses(last, id)

=============================================================================
