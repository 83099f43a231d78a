-------------------------- MODULE AddressPlan_proofs --------------------------
(***************************************************************************)
(* Proofs about AddressPlan for any number of nodes, links and pools, any  *)
(* sizes of the pools and any identifiers of nodes and gateways.           *)
(***************************************************************************)
EXTENDS AddressPlan, FiniteSetTheorems, TLAPS

-----------------------------------------------------------------------------
(* The addresses of a link: a link with two or more nodes gets its addresses *)
(* from every prefix that is large enough, whatever the prefix, the          *)
(* identifiers of the nodes and the gateway.                                 *)

\* What the callers guarantee: numbers, point-to-point links of two nodes, and
\* identifiers that belong to one node only and not to the gateway.
Sound(l, nid) ==
  /\ Count(l) \in Nat /\ Count(l) > 1
  /\ l.size \in Nat \ {0} /\ l.gateway \in Int
  /\ l.type = "p2p" => Count(l) = 2
  /\ \A i \in 1..Count(l) :
       /\ l.nodes[i] \in Int /\ nid[l.nodes[i]] \in Nat \ {0}
       /\ nid[l.nodes[i]] # l.gateway
       /\ \A j \in 1..Count(l) : l.nodes[i] # l.nodes[j] => nid[l.nodes[i]] # nid[l.nodes[j]]

\* The boundaries: what a prefix that is large enough looks like.
LEMMA Sizes ==
  ASSUME NEW l, NEW nid, Sound(l, nid), Fits(l)
  PROVE  /\ l.size >= 2
         /\ l.size = 2 => l.gateway = 0 /\ Count(l) = 2
         /\ l.size > 2 => /\ Room(l) \in Nat /\ Room(l) > 1 /\ Room(l) <= l.size - 2
                          /\ Count(l) + GatewayInFront(l) <= Room(l)
                          /\ l.gateway = -2 => Room(l) = l.size - 3
         /\ l.gateway = -2 \/ l.gateway = 0 \/ l.gateway \in 1..(l.size - 2)
         /\ l.gateway # 0 => l.size > 2
  <1>1. /\ Count(l) \in Nat /\ Count(l) > 1 /\ l.size \in Nat \ {0} /\ l.gateway \in Int
    BY DEF Sound
  <1>2. /\ Count(l) + (IF l.gateway # 0 THEN 1 ELSE 0) <= Usable(l.size)
        /\ l.gateway \in {0} \cup 1..(l.size - 2) \/ (l.gateway = -2 /\ l.size > 2)
    BY DEF Fits
  <1>3. QED
    BY <1>1, <1>2 DEF Room, GatewayInFront, Usable

\* The order of two nodes.
LEMMA TwoNodes ==
  ASSUME NEW l, NEW nid, Sound(l, nid), Fits(l), Count(l) = 2
  PROVE  /\ PointToPoint(l, 1) \in {First(l), First(l) + 1}
         /\ PointToPoint(l, 2) \in {First(l), First(l) + 1}
         /\ PointToPoint(l, 1) # PointToPoint(l, 2)
  <1> DEFINE before(i) == {j \in 1..Count(l) :
                             l.nodes[j] < l.nodes[i] \/ (l.nodes[j] = l.nodes[i] /\ j < i)}
  <1>1. l.nodes[1] \in Int /\ l.nodes[2] \in Int /\ l.nodes[1] # l.nodes[2]
    <2>1. 1 \in 1..Count(l) /\ 2 \in 1..Count(l)
      OBVIOUS
    <2>2. l.nodes[1] \in Int /\ l.nodes[2] \in Int
      BY <2>1 DEF Sound
    <2>3. l.nodes[1] # l.nodes[2]
      <3>1. \A i, j \in 1..Count(l) : l.nodes[i] = l.nodes[j] => i = j
        BY DEF Fits
      <3>2. l.nodes[1] = l.nodes[2] => 1 = 2
        BY <2>1, <3>1
      <3>3. QED
        BY <3>2
    <2>4. QED
      BY <2>2, <2>3
  <1>2. Cardinality({}) = 0 /\ Cardinality({1}) = 1 /\ Cardinality({2}) = 1
    BY FS_EmptySet, FS_Singleton
  <1>3. First(l) \in Nat
    BY DEF First
  <1>p. \A i \in {1, 2} : PointToPoint(l, i) = First(l) + Cardinality(before(i))
    BY DEF PointToPoint
  <1>4. CASE l.nodes[1] < l.nodes[2]
    <2>1. before(1) = {} /\ before(2) = {1}
      BY <1>1, <1>4
    <2>. HIDE DEF before
    <2>2. QED
      BY <1>2, <1>3, <1>p, <2>1
  <1>5. CASE l.nodes[2] < l.nodes[1]
    <2>1. before(1) = {2} /\ before(2) = {}
      BY <1>1, <1>5
    <2>. HIDE DEF before
    <2>2. QED
      BY <1>2, <1>3, <1>p, <2>1
  <1>6. QED
    BY <1>1, <1>4, <1>5

\* Under every policy the hosts are usable, different, and not the gateway.
LEMMA WantedIsUsable ==
  ASSUME NEW l, NEW nid, Sound(l, nid), Fits(l)
  PROVE  /\ Policy(l, nid) \in {"p2p", "id_based", "sequential"}
         /\ \A i \in 1..Count(l) :
              LET host == Wanted(l, Policy(l, nid), nid, i)
              IN  /\ host \in Nat /\ host < l.size
                  /\ ~NoHostBits(l, host)
                  /\ host # HostNumber(l.size, l.gateway) \/ l.gateway = 0
                  /\ \A j \in 1..Count(l) : j # i => Wanted(l, Policy(l, nid), nid, j) # host
  <1> DEFINE W(i) == Wanted(l, Policy(l, nid), nid, i)
             Good == \A i \in 1..Count(l) :
                       /\ W(i) \in Nat /\ W(i) < l.size
                       /\ ~NoHostBits(l, W(i))
                       /\ W(i) # HostNumber(l.size, l.gateway) \/ l.gateway = 0
                       /\ \A j \in 1..Count(l) : j # i => W(j) # W(i)
  <1>1. /\ Count(l) \in Nat /\ Count(l) > 1 /\ l.size \in Nat /\ l.size >= 2 /\ l.gateway \in Int
        /\ l.size = 2 => l.gateway = 0 /\ Count(l) = 2
        /\ l.size > 2 => /\ Room(l) \in Nat /\ Room(l) > 1 /\ Room(l) <= l.size - 2
                         /\ Count(l) + GatewayInFront(l) <= Room(l)
                         /\ l.gateway = -2 => Room(l) = l.size - 3
        /\ l.gateway = -2 \/ l.gateway = 0 \/ l.gateway \in 1..(l.size - 2)
        /\ l.gateway # 0 => l.size > 2
    BY Sizes DEF Sound
  <1>2. l.allocation = "" /\ \A i \in 1..Count(l) : l.static[i] = Unset
    BY DEF Fits
  <1>3. CASE (l.type = "p2p" /\ l.gateway = 0) \/ l.size = 2
    <2>1. Count(l) = 2 /\ Policy(l, nid) = "p2p" /\ l.gateway = 0
      <3>1. Count(l) = 2 /\ l.gateway = 0
        BY <1>1, <1>3 DEF Sound
      <3>2. l.size > 1
        BY <1>1
      <3>3. CASE l.type = "p2p"
        BY <1>2, <3>1, <3>2, <3>3 DEF Policy
      <3>4. CASE l.type # "p2p" /\ l.size = 2
        BY <1>2, <3>1, <3>4 DEF Policy
      <3>5. QED
        BY <1>3, <3>1, <3>3, <3>4
    <2>2. \A i \in 1..Count(l) : W(i) = PointToPoint(l, i)
      BY <1>2, <2>1 DEF Wanted
    <2>3. l.size > 2 => l.size - 2 >= 2
      BY <1>1, <2>1
    <2>4. /\ W(1) \in {First(l), First(l) + 1} /\ W(2) \in {First(l), First(l) + 1}
          /\ W(1) # W(2)
      BY <2>1, <2>2, TwoNodes
    <2> HIDE DEF W
    <2>5. Good
      BY <1>1, <2>1, <2>3, <2>4 DEF First, NoHostBits
    <2>6. QED
      BY <2>1, <2>5 DEF W
  <1>4. CASE ~(l.type = "p2p" /\ l.gateway = 0) /\ l.size > 2
    <2>1. Policy(l, nid) = IF \A n \in NodeIds(l, nid) : n <= Room(l) THEN "id_based" ELSE "sequential"
      <3>1. Room(l) # 1 /\ Count(l) + GatewayInFront(l) <= Room(l) /\ l.size # 2
        BY <1>1, <1>4
      <3>2. QED
        BY <1>2, <1>4, <3>1 DEF Policy
    <2>2. CASE \A n \in NodeIds(l, nid) : n <= Room(l)
      <3>1. Policy(l, nid) = "id_based"
        BY <2>1, <2>2
      <3>2. \A i \in 1..Count(l) : W(i) = nid[l.nodes[i]]
        BY <1>2, <3>1 DEF Wanted
      <3>3. \A i \in 1..Count(l) :
              /\ nid[l.nodes[i]] \in Nat \ {0} /\ nid[l.nodes[i]] <= Room(l)
              /\ nid[l.nodes[i]] # l.gateway
              /\ \A j \in 1..Count(l) : j # i => nid[l.nodes[j]] # nid[l.nodes[i]]
        BY <2>2 DEF NodeIds, Sound, Fits
      <3>4. Good
        <4>1. \A i \in 1..Count(l) : W(i) \in Nat \ {0} /\ W(i) <= Room(l) /\ W(i) # l.gateway
                /\ \A j \in 1..Count(l) : j # i => W(j) # W(i)
          BY <3>2, <3>3
        <4> HIDE DEF W
        <4>2. QED
          BY <1>1, <1>4, <4>1 DEF NoHostBits, HostNumber
      <3>5. QED
        BY <3>1, <3>4
    <2>3. CASE ~\A n \in NodeIds(l, nid) : n <= Room(l)
      <3>1. Policy(l, nid) = "sequential"
        BY <2>1, <2>3
      <3>2. \A i \in 1..Count(l) : W(i) = Sequential(l, i)
        BY <1>2, <3>1 DEF Wanted
      <3>3. \A i \in 1..Count(l) : W(i) = IF l.gateway > 0 /\ i >= l.gateway THEN i + 1 ELSE i
        BY <1>1, <1>4, <3>2 DEF Sequential, First
      <3> HIDE DEF W
      <3>4. Good
        BY <1>1, <1>4, <3>3 DEF NoHostBits, HostNumber, GatewayInFront
      <3>5. QED
        BY <3>1, <3>4 DEF W
    <2>4. QED
      BY <2>2, <2>3
  <1>5. QED
    BY <1>1, <1>3, <1>4

\* Two or more nodes of a link get their addresses from every prefix with enough room,
\* for all sizes, identifiers and gateways.
THEOREM FittingPrefixesDo ==
  ASSUME NEW l, NEW nid, Sound(l, nid), Fits(l)
  PROVE  HasAddresses(l, nid)
  <1> DEFINE policy == Policy(l, nid)
             W(i) == Wanted(l, policy, nid, i)
  <1>1. /\ policy \in {"p2p", "id_based", "sequential"}
        /\ \A i \in 1..Count(l) :
             /\ W(i) \in Nat /\ W(i) < l.size
             /\ ~NoHostBits(l, W(i))
             /\ W(i) # HostNumber(l.size, l.gateway) \/ l.gateway = 0
             /\ \A j \in 1..Count(l) : j # i => W(j) # W(i)
    BY WantedIsUsable
  <1>2. l.size \in Nat /\ \A i \in 1..Count(l) : l.static[i] = Unset
    BY DEF Sound, Fits
  <1>3. Addressed(l, policy) = 1..Count(l)
    <2>1. policy # "error"
      BY <1>1
    <2>2. \A i \in 1..Count(l) : l.static[i] # Off
      BY <1>2, NoAddress
    <2> HIDE DEF policy
    <2>3. QED
      BY <2>1, <2>2 DEF Addressed
  <1>4. \A i \in 1..Count(l) : Hosts(l, nid)[i] = W(i)
    <2>1. \A i \in 1..Count(l) : InPrefix(l.size, W(i)) /\ HostNumber(l.size, W(i)) = W(i)
      BY <1>1, <1>2 DEF InPrefix, HostNumber
    <2>2. QED
      BY <1>3, <2>1 DEF Hosts
  <1>5. \A i \in 1..Count(l) : W(i) # Off
    BY <1>1, NoAddress
  <1>6. /\ l.gateway # 0 => GatewayHost(l) = HostNumber(l.size, l.gateway) /\ GatewayHost(l) # Off
        /\ l.gateway = 0 => GatewayHost(l) = Off
    <2>1. /\ l.gateway = -2 \/ l.gateway = 0 \/ l.gateway \in 1..(l.size - 2)
          /\ l.gateway # 0 => l.size > 2
      BY Sizes
    <2>2. l.gateway # 0 => InPrefix(l.size, l.gateway) /\ HostNumber(l.size, l.gateway) \in Int
      BY <1>2, <2>1 DEF InPrefix, HostNumber
    <2>3. QED
      BY <2>2, NoAddress DEF GatewayHost
  <1> HIDE DEF W, policy
  <1>7. \A i \in 1..Count(l) : W(i) # GatewayHost(l)
    BY <1>1, <1>5, <1>6
  <1>8. ~Duplicate(l, Hosts(l, nid), policy)
    <2>1. \A i, j \in 1..Count(l) : i # j => Hosts(l, nid)[i] # Hosts(l, nid)[j]
      BY <1>1, <1>4
    <2>2. \A i \in 1..Count(l) : Hosts(l, nid)[i] # GatewayHost(l)
      BY <1>4, <1>7
    <2>3. QED
      BY <2>1, <2>2 DEF Duplicate
  <1>9. Accepted(l, nid)
    <2>1. \A i \in 1..Count(l) : Hosts(l, nid)[i] # Off /\ ~NoHostBits(l, Hosts(l, nid)[i])
      BY <1>1, <1>4, <1>5
    <2>2. policy # "error" /\ (l.gateway # 0 => GatewayHost(l) # Off)
      BY <1>1, <1>6
    <2>3. QED
      BY <1>3, <1>8, <2>1, <2>2 DEF Accepted, policy
  <1>10. ASSUME NEW i \in 1..Count(l)
         PROVE  /\ Hosts(l, nid)[i] \in 0..(l.size - 1)
                /\ ~NoHostBits(l, Hosts(l, nid)[i])
                /\ Hosts(l, nid)[i] # GatewayHost(l)
                /\ \A j \in 1..Count(l) : j # i => Hosts(l, nid)[j] # Hosts(l, nid)[i]
    BY <1>1, <1>2, <1>4, <1>7
  <1>11. QED
    BY <1>9, <1>10 DEF HasAddresses

-----------------------------------------------------------------------------
(* The address plan *)

USE DEF Nodes, Links, Subnets

-----------------------------------------------------------------------------
(* Lemmas about the operators *)

\* How many subnets get_nth_subnet adds is a number, within what the pool has left.
LEMMA MissingType ==
  ASSUME TypeOK, NEW p \in Pools, NEW n \in Nat
  PROVE  Missing(p, n) \in Nat /\ drawn[p] + Missing(p, n) <= Capacity[p]
  <1>1. drawn[p] \in Nat /\ drawn[p] <= Capacity[p] /\ Capacity[p] \in Nat /\ Len(cache[p]) \in Nat
    BY PlanAssumption DEF TypeOK
  <1>2. QED
    BY <1>1 DEF Missing

\* get_nth_subnet keeps a sequence of numbers: the old ones, and the ones that follow
\* what was drawn.
LEMMA ExtendedType ==
  ASSUME TypeOK, NEW p \in Pools, NEW n \in Nat
  PROVE  /\ Extended(p, n) \in Seq(Nat)
         /\ Len(Extended(p, n)) = Len(cache[p]) + Missing(p, n)
         /\ \A i \in 1..Len(Extended(p, n)) :
              Extended(p, n)[i] = IF i <= Len(cache[p]) THEN cache[p][i]
                                  ELSE drawn[p] + i - Len(cache[p])
  <1> DEFINE c == Len(cache[p])
             m == Missing(p, n)
  <1>1. c \in Nat /\ drawn[p] \in Nat
    BY DEF TypeOK
  <1>m. m \in Nat
    BY MissingType
  <1>2. \A i \in 1..c : cache[p][i] \in Nat
    BY DEF TypeOK
  <1>3. \A i \in 1..(c + m) : (IF i <= c THEN cache[p][i] ELSE drawn[p] + i - c) \in Nat
    BY <1>1, <1>m, <1>2
  <1>4. Extended(p, n) = [i \in 1..(c + m) |-> IF i <= c THEN cache[p][i] ELSE drawn[p] + i - c]
    BY DEF Extended
  <1> HIDE DEF c, m
  <1>5. Extended(p, n) \in [1..(c + m) -> Nat]
    BY <1>3, <1>4
  <1>6. Extended(p, n) \in Seq(Nat) /\ Len(Extended(p, n)) = c + m
    BY <1>1, <1>m, <1>5
  <1>7. QED
    BY <1>4, <1>6 DEF c, m

\* A user is a node, a link or somebody else.
LEMMA UserKinds ==
  ASSUME NEW u \in Users
  PROVE  \/ u[1] = "node" /\ u[2] \in Nodes /\ u = <<"node", u[2]>>
         \/ u[1] = "link" /\ u[2] \in Links /\ u = <<"link", u[2]>>
         \/ u[1] = "other" /\ u[2] \in Others /\ u = <<"other", u[2]>>
  BY DEF Users

\* Links, pools and nodes take prefixes under names of their own.
LEMMA UsersAre ==
  /\ \A n \in Nodes : <<"node", n>> \in Users
  /\ \A k \in Links : <<"link", k>> \in Users
  /\ \A u \in Others : <<"other", u>> \in Users
  BY DEF Users

-----------------------------------------------------------------------------
(* Types *)

\* What TypeOK says of the pools.
PoolsOK ==
  /\ drawn \in [Pools -> Nat]
  /\ \A q \in Pools : drawn[q] <= Capacity[q]
  /\ cache \in [Pools -> Seq(Nat)]
  /\ grant \in [Users -> Subnets \cup {None}]

\* A loop goes on, or to the next phase.
LEMMA AdvanceType ==
  ASSUME TypeOK, NEW final \in Nat, NEW to, Advance(final, to),
         to \in {"checked", "done"}
  PROVE  /\ todo' \in Nat
         /\ phase' \in {phase, to}
  BY DEF Advance, TypeOK

\* A prefix taken in order keeps the types.
LEMMA NextPrefixType ==
  ASSUME TypeOK, NEW u \in Users, NEW p \in Pools, NextPrefix(u, p)
  PROVE  PoolsOK' /\ error' \in BOOLEAN
  <1>1. CASE drawn[p] < Capacity[p] /\ Draw(u, p, drawn[p] + 1)
    <2>1. Capacity[p] \in Nat /\ drawn[p] \in Nat
      BY PlanAssumption DEF TypeOK
    <2>2. <<p, drawn[p] + 1>> \in Subnets
      BY <2>1
    <2>3. QED
      BY <1>1, <2>1, <2>2 DEF Draw, TypeOK, PoolsOK
  <1>2. CASE drawn[p] >= Capacity[p] /\ RunOut
    BY <1>2 DEF RunOut, pools, TypeOK, PoolsOK
  <1>3. QED
    BY <1>1, <1>2 DEF NextPrefix

\* A prefix asked for by its number keeps the types.
LEMMA NthPrefixType ==
  ASSUME TypeOK, NEW u \in Users, NEW p \in Pools, NEW n \in Nat \ {0}, NthPrefix(u, p, n)
  PROVE  PoolsOK' /\ error' \in BOOLEAN
  <1>1. /\ drawn' = [drawn EXCEPT ![p] = @ + Missing(p, n)]
        /\ cache' = [cache EXCEPT ![p] = Extended(p, n)]
    BY DEF NthPrefix
  <1>2. Missing(p, n) \in Nat /\ drawn[p] + Missing(p, n) <= Capacity[p]
    BY MissingType
  <1>3. drawn' \in [Pools -> Nat] /\ \A q \in Pools : drawn'[q] <= Capacity[q]
    <2>1. drawn \in [Pools -> Nat] /\ \A q \in Pools : drawn[q] <= Capacity[q]
      BY DEF TypeOK
    <2>2. QED
      BY <1>1, <1>2, <2>1
  <1>4. cache' \in [Pools -> Seq(Nat)]
    BY <1>1, ExtendedType DEF TypeOK
  <1>5. grant' \in [Users -> Subnets \cup {None}] /\ error' \in BOOLEAN
    <2>1. CASE n <= Len(Extended(p, n)) /\ grant' = [grant EXCEPT ![u] = <<p, Extended(p, n)[n]>>]
               /\ UNCHANGED error
      <3>1. Extended(p, n)[n] \in Nat
        BY <2>1, ExtendedType
      <3>2. <<p, Extended(p, n)[n]>> \in Subnets
        BY <3>1
      <3>3. QED
        BY <2>1, <3>2 DEF TypeOK
    <2>2. CASE n > Len(Extended(p, n)) /\ error' = TRUE /\ UNCHANGED grant
      BY <2>2 DEF TypeOK
    <2>3. QED
      BY <2>1, <2>2 DEF NthPrefix
  <1>6. QED
    BY <1>3, <1>4, <1>5 DEF PoolsOK

\* Giving out identifiers keeps the types.
LEMMA IdentifyType ==
  ASSUME TypeOK, NEW n \in Nodes, Identify(n)
  PROVE  /\ ids' \subseteq Int /\ next' \in Nat /\ id' \in [Nodes -> 0..MaxId]
         /\ next > 0 => next' > 0 /\ id'[n] # 0
         /\ \A m \in Nodes \ {n} : id'[m] = id[m]
         /\ id[n] # 0 => id' = id
         /\ next > 0 => id'[n] \in Nat \ {0}
  <1>1. MaxId \in Nat
    BY PlanAssumption
  <1>2. CASE id[n] # 0 /\ UNCHANGED <<ids, next, id>>
    BY <1>1, <1>2 DEF TypeOK
  <1>3. CASE id[n] = 0 /\ NextId(n)
    <2>1. PICK i \in Free : next' = i /\ ids' = ids \cup {i} /\ id' = [id EXCEPT ![n] = i]
      BY <1>3 DEF NextId
    <2>2. i \in Nat /\ i >= next /\ i <= MaxId
      BY <1>1, <2>1 DEF Free, TypeOK
    <2>3. QED
      BY <1>1, <1>3, <2>1, <2>2 DEF TypeOK
  <1>4. QED
    BY <1>2, <1>3 DEF Identify

\* The types are an invariant.
LEMMA TypeStep ==
  ASSUME TypeOK, next > 0, [Next]_vars
  PROVE  TypeOK'
  <1> USE DEF TypeOK
  <1>1. CASE UNCHANGED vars
    BY <1>1 DEF vars
  <1>2. ASSUME NEW u \in Others, TakePrefix(u)
        PROVE  TypeOK'
    <2>1. PICK p \in Pools : NextPrefix(<<"other", u>>, p)
      BY <1>2 DEF TakePrefix
    <2> HIDE DEF TypeOK
    <2>2. <<"other", u>> \in Users
      BY UsersAre
    <2>3. PoolsOK' /\ error' \in BOOLEAN
      BY <2>1, <2>2, NextPrefixType
    <2>4. QED
      BY <1>2, <2>3 DEF TakePrefix, identity, TypeOK, PoolsOK
  <1>3. CASE ReserveGateways
    <2>1. \A k \in Links : gateway[k] \in Int
      BY PlanAssumption
    <2>2. PICK v \in OtherGateways : ids' = {g \in v \cup {gateway[k] : k \in Links} : g > 0}
      BY <1>3 DEF ReserveGateways
    <2>3. v \subseteq Int
      BY PlanAssumption
    <2>4. ids' \subseteq Int
      BY <2>1, <2>2, <2>3
    <2>5. QED
      BY <1>3, <2>4 DEF ReserveGateways, pools
  <1>4. CASE ReserveStatic
    <2>1. id' \in [Nodes -> 0..MaxId]
      BY <1>4, PlanAssumption DEF ReserveStatic
    <2>2. ids' \subseteq Int
      <3>1. 0..MaxId \subseteq Int
        OBVIOUS
      <3>2. \A n \in Nodes : id'[n] \in Int
        BY <2>1, <3>1
      <3>3. ids' = ids \cup ({id'[n] : n \in Nodes} \ {0})
        BY <1>4 DEF ReserveStatic
      <3>4. QED
        BY <3>2, <3>3
    <2>3. phase' \in {"nodes", "failed"} /\ error' \in BOOLEAN
      BY <1>4 DEF ReserveStatic, Checkpoint
    <2>4. QED
      BY <1>4, <2>1, <2>2, <2>3 DEF ReserveStatic, pools
  <1>5. CASE CheckNodes \/ CheckLinks \/ CheckModules
    BY <1>5 DEF CheckNodes, CheckLinks, CheckModules, Checkpoint, identity, pools
  <1>6. ASSUME NEW n \in Nodes, TransformNode(n)
        PROVE  TypeOK'
    <2> HIDE DEF TypeOK
    <2>1. /\ ids' \subseteq Int /\ next' \in Nat /\ id' \in [Nodes -> 0..MaxId]
          /\ id'[n] \in Nat \ {0}
      BY <1>6, IdentifyType DEF TransformNode
    <2>2. NumNodes \in Nat
      BY PlanAssumption
    <2>3. todo' \in Nat /\ phase' \in {phase, "checked"}
      BY <1>6, <2>2, AdvanceType DEF TransformNode
    <2>4. <<"node", n>> \in Users
      BY UsersAre
    <2>5. PoolsOK' /\ error' \in BOOLEAN
      <3>1. ASSUME NEW p \in Pools, NthPrefix(<<"node", n>>, p, id'[n])
            PROVE  PoolsOK' /\ error' \in BOOLEAN
        BY <2>1, <2>4, <3>1, NthPrefixType
      <3>2. CASE UNCHANGED <<pools, error>>
        BY <3>2 DEF pools, TypeOK, PoolsOK
      <3>3. QED
        BY <1>6, <3>1, <3>2 DEF TransformNode
    <2>6. QED
      BY <1>6, <2>1, <2>3, <2>5 DEF TransformNode, TypeOK, PoolsOK
  <1>7. ASSUME NEW n \in Nodes, RunOutOfIds(n)
        PROVE  TypeOK'
    BY <1>7 DEF RunOutOfIds, Checkpoint, identity, pools
  <1>8. ASSUME NEW k \in Links, TransformLink(k) \/ LinkWithoutPrefix(k) \/ SkipLink(k)
        PROVE  TypeOK'
    <2> HIDE DEF TypeOK
    <2>1. NumLinks \in Nat
      BY PlanAssumption
    <2>2. todo' \in Nat /\ phase' \in {phase, "done"}
      BY <1>8, <2>1, AdvanceType DEF TransformLink, LinkWithoutPrefix, SkipLink
    <2>3. /\ UNCHANGED identity
          /\ \/ UNCHANGED pools
             \/ \E p \in Pools :
                  /\ drawn[p] < Capacity[p]
                  /\ drawn' = [drawn EXCEPT ![p] = @ + 1]
                  /\ grant' = [grant EXCEPT ![<<"link", k>>] = <<p, drawn[p] + 1>>]
                  /\ UNCHANGED cache
      BY <1>8 DEF TransformLink, LinkWithoutPrefix, SkipLink, LinkPrefix
    <2>4. PoolsOK'
      <3>1. CASE UNCHANGED pools
        BY <3>1 DEF pools, TypeOK, PoolsOK
      <3>2. ASSUME NEW p \in Pools, drawn[p] < Capacity[p],
                   drawn' = [drawn EXCEPT ![p] = @ + 1],
                   grant' = [grant EXCEPT ![<<"link", k>>] = <<p, drawn[p] + 1>>],
                   UNCHANGED cache
            PROVE  PoolsOK'
        <4>1. Capacity[p] \in Nat /\ drawn[p] \in Nat
          BY PlanAssumption DEF TypeOK
        <4>2. <<p, drawn[p] + 1>> \in Subnets
          BY <4>1
        <4>3. QED
          <5>1. /\ \A q \in Pools : drawn'[q] <= Capacity[q]
                /\ drawn' \in [Pools -> Nat]
            BY <3>2, <4>1 DEF TypeOK
          <5>2. QED
            BY <3>2, <4>2, <5>1 DEF TypeOK, PoolsOK
      <3>3. QED
        BY <2>3, <3>1, <3>2
    <2>5. error' \in BOOLEAN
      BY <1>8 DEF TransformLink, LinkWithoutPrefix, SkipLink, TypeOK
    <2>6. QED
      BY <2>2, <2>3, <2>4, <2>5 DEF identity, TypeOK, PoolsOK
  <1>9. QED
    BY <1>1, <1>2, <1>3, <1>4, <1>5, <1>6, <1>7, <1>8 DEF Next

-----------------------------------------------------------------------------
(* Identifiers *)

Late == phase \in {"nodes", "checked", "links", "done", "modules", "accepted"}

\* The gateways are reserved before any node gets its identifier, and the set holds
\* all identifiers of nodes.
IdInv ==
  /\ next > 0
  /\ phase # "gateways" => \A k \in Links : gateway[k] > 0 => gateway[k] \in ids
  /\ Late => \A n \in Nodes : id[n] # 0 => id[n] \in ids
  /\ IdsAreUnique

\* The identifiers stay as they are.
LEMMA IdStutter ==
  ASSUME TypeOK, IdInv, UNCHANGED <<gateway, ids, next, id>>,
         Late' => Late, phase' = "gateways" \/ phase # "gateways"
  PROVE  IdInv'
  BY DEF IdInv, IdsAreUnique, Late

\* Reserving identifiers keeps those of the nodes apart.
LEMMA IdReserve ==
  ASSUME TypeOK, IdInv, ReserveGateways
  PROVE  IdInv'
  <1>1. PICK v \in OtherGateways : ids' = {g \in v \cup {gateway[k] : k \in Links} : g > 0}
    BY DEF ReserveGateways
  <1>2. \A k \in Links : gateway[k] > 0 => gateway[k] \in ids'
    BY <1>1
  <1>3. phase' = "static" /\ UNCHANGED <<gateway, next>>
    BY DEF ReserveGateways
  <1>4. QED
    BY <1>2, <1>3 DEF IdInv, IdsAreUnique, Late

\* Static identifiers are checked before they are taken.
LEMMA IdStatic ==
  ASSUME TypeOK, IdInv, ReserveStatic
  PROVE  IdInv'
  <1>1. /\ \A n \in Nodes : id'[n] \in Nat
        /\ \A k \in Links : gateway[k] \in Int
        /\ \A n \in Nodes : n \in Int
    <2>1. StaticIds \subseteq Nat /\ GatewayIds \subseteq Int
      BY PlanAssumption
    <2>2. id' \in [Nodes -> StaticIds] /\ gateway \in [Links -> GatewayIds]
      BY DEF ReserveStatic, TypeOK
    <2>3. \A n \in Nodes : id'[n] \in Nat
      BY <2>1, <2>2
    <2>4. \A k \in Links : gateway[k] \in Int
      BY <2>1, <2>2
    <2>5. \A n \in Nodes : n \in Int
      OBVIOUS
    <2>6. QED
      BY <2>3, <2>4, <2>5
  <1>2. /\ ids' = ids \cup ({id'[n] : n \in Nodes} \ {0})
        /\ UNCHANGED <<gateway, next>>
        /\ phase = "static" /\ phase' \in {"nodes", "failed"}
    BY DEF ReserveStatic, Checkpoint
  <1>3. \A k \in Links : gateway[k] > 0 => gateway[k] \in ids
    BY <1>2 DEF IdInv
  <1>4. ASSUME phase' = "nodes", NEW n \in Nodes, id'[n] # 0
        PROVE  /\ \A m \in Nodes \ {n} : id'[m] # id'[n]
               /\ \A k \in Links : id'[n] # gateway'[k]
    <2>1. \A m \in Nodes : id'[m] # 0 =>
            /\ id'[m] \notin ids
            /\ \A l \in Nodes : l < m => id'[l] # id'[m]
      BY <1>4 DEF ReserveStatic, Checkpoint
    <2>2. \A m \in Nodes \ {n} : id'[m] # id'[n]
      BY <1>1, <1>4, <2>1
    <2>3. \A k \in Links : id'[n] # gateway[k]
      BY <1>1, <1>3, <1>4, <2>1
    <2>4. QED
      BY <1>2, <2>2, <2>3
  <1>5. next' > 0
    BY <1>2 DEF IdInv
  <1>6. \A k \in Links : gateway'[k] > 0 => gateway'[k] \in ids'
    BY <1>2, <1>3
  <1>7. \A n \in Nodes : id'[n] # 0 => id'[n] \in ids'
    BY <1>2
  <1>8. IdsAreUnique'
    BY <1>2, <1>4 DEF IdsAreUnique
  <1>9. QED
    BY <1>5, <1>6, <1>7, <1>8 DEF IdInv

\* A generated identifier was free.
LEMMA IdTransform ==
  ASSUME TypeOK, IdInv, NEW n \in Nodes, TransformNode(n)
  PROVE  IdInv'
  <1>1. phase = "nodes" /\ phase' \in {"nodes", "checked"} /\ UNCHANGED gateway
    BY DEF TransformNode, Advance
  <1>2. CASE id[n] # 0 /\ UNCHANGED <<ids, next, id>>
    BY <1>1, <1>2 DEF IdInv, IdsAreUnique, Late
  <1>3. CASE id[n] = 0 /\ NextId(n)
    <2>1. PICK i \in Free : next' = i /\ ids' = ids \cup {i} /\ id' = [id EXCEPT ![n] = i]
      BY <1>3 DEF NextId
    <2>2. i \notin ids /\ i > 0
      BY <2>1 DEF Free, IdInv, TypeOK
    <2>3. \A k \in Links : gateway[k] # i
      BY <1>1, <2>2 DEF IdInv
    <2>4. /\ \A m \in Nodes : id[m] # 0 =>
               /\ id[m] \in ids
               /\ \A l \in Nodes \ {m} : id[l] # id[m]
               /\ \A k \in Links : id[m] # gateway[k]
          /\ \A k \in Links : gateway[k] > 0 => gateway[k] \in ids
      BY <1>1 DEF IdInv, IdsAreUnique, Late
    <2>5. id' \in [Nodes -> 0..MaxId] /\ id'[n] = i /\ \A m \in Nodes \ {n} : id'[m] = id[m]
      BY <2>1, <1>3, IdentifyType DEF Identify, TypeOK
    <2>6. \A m \in Nodes : id'[m] # 0 => id'[m] \in ids'
      BY <2>1, <2>4, <2>5
    <2>7. \A m \in Nodes : id'[m] # 0 =>
            /\ \A l \in Nodes \ {m} : id'[l] # id'[m]
            /\ \A k \in Links : id'[m] # gateway'[k]
      BY <1>1, <2>2, <2>3, <2>4, <2>5
    <2>8. QED
      BY <1>1, <2>1, <2>2, <2>4, <2>6, <2>7 DEF IdInv, IdsAreUnique
  <1>4. QED
    BY <1>2, <1>3 DEF TransformNode, Identify

\* The invariant of the identifiers is inductive.
LEMMA IdStep ==
  ASSUME TypeOK, IdInv, [Next]_vars
  PROVE  IdInv'
  <1>1. CASE UNCHANGED vars
    BY <1>1, IdStutter DEF vars, Late
  <1>2. ASSUME NEW u \in Others, TakePrefix(u)
        PROVE  IdInv'
    BY <1>2, IdStutter DEF TakePrefix, identity, Late
  <1>3. CASE CheckNodes \/ CheckLinks \/ CheckModules
    BY <1>3, IdStutter DEF CheckNodes, CheckLinks, CheckModules, Checkpoint, identity, Late
  <1>4. ASSUME NEW n \in Nodes, RunOutOfIds(n)
        PROVE  IdInv'
    BY <1>4, IdStutter DEF RunOutOfIds, Checkpoint, identity, Late
  <1>5. ASSUME NEW k \in Links, TransformLink(k) \/ LinkWithoutPrefix(k) \/ SkipLink(k)
        PROVE  IdInv'
    BY <1>5, IdStutter DEF TransformLink, LinkWithoutPrefix, SkipLink, Advance, identity, Late
  <1>6. QED
    BY <1>1, <1>2, <1>3, <1>4, <1>5, IdReserve, IdStatic, IdTransform DEF Next

-----------------------------------------------------------------------------
(* Subnets *)

\* The cache of a pool holds different subnets that were drawn.
CacheInv ==
  \A p \in Pools :
    /\ \A i \in 1..Len(cache[p]) : cache[p][i] \in 1..drawn[p]
    /\ \A i, j \in 1..Len(cache[p]) : cache[p][i] = cache[p][j] => i = j

\* A node has the subnet its identifier names in the cache of its pool, and the others
\* have subnets that are not in the cache.
GrantInv ==
  \A u \in Users : grant[u] # None =>
    /\ grant[u][2] \in 1..drawn[grant[u][1]]
    /\ u[1] = "node" =>
         /\ id[u[2]] \in 1..Len(cache[grant[u][1]])
         /\ grant[u][2] = cache[grant[u][1]][id[u[2]]]
    /\ u[1] # "node" =>
         \A i \in 1..Len(cache[grant[u][1]]) : cache[grant[u][1]][i] # grant[u][2]

\* No subnets are granted ahead of time, and nodes with subnets differ in their
\* identifiers.
TurnInv ==
  /\ phase \in {"gateways", "static"} => \A n \in Nodes : grant[<<"node", n>>] = None
  /\ phase \in {"gateways", "static", "nodes", "checked"} =>
       \A k \in Links : grant[<<"link", k>>] = None
  /\ phase = "links" => \A k \in Links : k >= todo => grant[<<"link", k>>] = None
  /\ \A n, m \in Nodes :
       n # m /\ grant[<<"node", n>>] # None /\ grant[<<"node", m>>] # None => id[n] # id[m]

\* As long as a pool is used by number only, the cache has its subnets in their order.
OrderInv ==
  \A p \in Pools :
    (\A u \in Users : grant[u] # None /\ u[1] # "node" => grant[u][1] # p) =>
      /\ drawn[p] = Len(cache[p])
      /\ \A i \in 1..Len(cache[p]) : cache[p][i] = i

PoolInv == CacheInv /\ GrantInv /\ SubnetsAreUnique /\ OrderInv

\* A user other than a node draws the next subnet of a pool.
DrawNext(u, p) ==
  /\ u \in Users /\ u[1] # "node" /\ grant[u] = None
  /\ p \in Pools /\ drawn[p] < Capacity[p]
  /\ drawn' = [drawn EXCEPT ![p] = @ + 1]
  /\ grant' = [grant EXCEPT ![u] = <<p, drawn[p] + 1>>]
  /\ UNCHANGED cache

\* What the pools give by order is new.
LEMMA DrawKeeps ==
  ASSUME TypeOK, PoolInv, NEW u, NEW p, DrawNext(u, p),
         \A n \in Nodes : grant[<<"node", n>>] # None => id'[n] = id[n]
  PROVE  PoolInv'
  <1>1. /\ u \in Users /\ p \in Pools /\ u[1] # "node" /\ grant[u] = None
        /\ \A q \in Pools : drawn[q] \in Nat /\ Len(cache[q]) \in Nat
        /\ \A q \in Pools \ {p} : drawn'[q] = drawn[q]
        /\ drawn'[p] = drawn[p] + 1
        /\ cache' = cache
        /\ grant'[u] = <<p, drawn[p] + 1>>
        /\ \A v \in Users \ {u} : grant'[v] = grant[v]
        /\ \A v \in Users : grant[v] # None => grant[v][1] \in Pools /\ grant[v][2] \in Nat
        /\ grant'[u] # None
    BY PlanAssumption DEF DrawNext, TypeOK
  <1>2. CacheInv'
    BY <1>1 DEF CacheInv, PoolInv
  <1>3. GrantInv'
    <2> SUFFICES ASSUME NEW v \in Users, grant'[v] # None
                 PROVE  /\ grant'[v][2] \in 1..drawn'[grant'[v][1]]
                        /\ v[1] = "node" =>
                             /\ id'[v[2]] \in 1..Len(cache'[grant'[v][1]])
                             /\ grant'[v][2] = cache'[grant'[v][1]][id'[v[2]]]
                        /\ v[1] # "node" =>
                             \A i \in 1..Len(cache'[grant'[v][1]]) :
                               cache'[grant'[v][1]][i] # grant'[v][2]
      BY DEF GrantInv
    <2>1. CASE v = u
      BY <1>1, <2>1 DEF PoolInv, CacheInv
    <2>2. CASE v # u
      <3>1. v[1] = "node" => id'[v[2]] = id[v[2]]
        BY <1>1, <2>2, UserKinds
      <3>2. /\ grant'[v] = grant[v] /\ grant[v] # None /\ cache' = cache
            /\ grant[v][1] \in Pools
        BY <1>1, <2>2
      <3>3. drawn[grant[v][1]] \in Nat /\ drawn'[grant[v][1]] \in Nat
            /\ drawn[grant[v][1]] <= drawn'[grant[v][1]]
        BY <1>1, <3>2
      <3>4. /\ grant[v][2] \in 1..drawn[grant[v][1]]
            /\ v[1] = "node" =>
                 /\ id[v[2]] \in 1..Len(cache[grant[v][1]])
                 /\ grant[v][2] = cache[grant[v][1]][id[v[2]]]
            /\ v[1] # "node" =>
                 \A i \in 1..Len(cache[grant[v][1]]) : cache[grant[v][1]][i] # grant[v][2]
        BY <3>2 DEF PoolInv, GrantInv
      <3>5. grant[v][2] \in 1..drawn'[grant[v][1]]
        BY <3>3, <3>4
      <3>6. QED
        BY <3>1, <3>2, <3>4, <3>5
    <2>3. QED
      BY <2>1, <2>2
  <1>4. SubnetsAreUnique'
    BY <1>1 DEF PoolInv, GrantInv, SubnetsAreUnique
  <1>5. OrderInv'
    <2> SUFFICES ASSUME NEW q \in Pools,
                        \A v \in Users : grant'[v] # None /\ v[1] # "node" => grant'[v][1] # q
                 PROVE  /\ drawn'[q] = Len(cache'[q])
                        /\ \A i \in 1..Len(cache'[q]) : cache'[q][i] = i
      BY DEF OrderInv
    <2>1. q # p
      <3>1. grant'[u] # None /\ u[1] # "node" /\ grant'[u][1] = p
        BY <1>1
      <3>2. QED
        BY <1>1, <3>1
    <2>2. \A v \in Users : grant[v] # None /\ v[1] # "node" => grant[v][1] # q
      BY <1>1
    <2>3. QED
      BY <1>1, <2>1, <2>2 DEF PoolInv, OrderInv
  <1>6. QED
    BY <1>2, <1>3, <1>4, <1>5 DEF PoolInv

\* Nothing is drawn; identifiers may change as long as no node with a subnet is
\* concerned.
LEMMA PoolStutter ==
  ASSUME TypeOK, PoolInv, UNCHANGED <<drawn, cache, grant>>,
         \A n \in Nodes : grant[<<"node", n>>] # None => id'[n] = id[n]
  PROVE  PoolInv'
  <1>1. \A v \in Users : grant[v] # None /\ v[1] = "node" => id'[v[2]] = id[v[2]]
    BY UserKinds
  <1>2. GrantInv'
    BY <1>1 DEF PoolInv, GrantInv
  <1>3. CacheInv' /\ SubnetsAreUnique' /\ OrderInv'
    BY DEF PoolInv, CacheInv, SubnetsAreUnique, OrderInv
  <1>4. QED
    BY <1>2, <1>3 DEF PoolInv

\* What the pools give by number is in the cache, and the cache grows by new subnets.
LEMMA NthKeeps ==
  ASSUME TypeOK, PoolInv, NEW n \in Nodes, NEW p \in Pools, id'[n] \in Nat \ {0},
         NthPrefix(<<"node", n>>, p, id'[n]),
         \A m \in Nodes \ {n} : id'[m] = id[m],
         grant[<<"node", n>>] # None => id'[n] = id[n],
         \A m \in Nodes \ {n} : grant[<<"node", m>>] # None => id'[m] # id'[n]
  PROVE  PoolInv'
  <1> DEFINE old == cache[p]
             new == Extended(p, id'[n])
  <1>1. /\ Len(old) \in Nat /\ Len(new) \in Nat /\ Len(old) <= Len(new)
        /\ \A i \in 1..Len(old) : new[i] = old[i]
        /\ \A i \in 1..Len(new) : i > Len(old) => new[i] = drawn[p] + i - Len(old)
        /\ \A q \in Pools : drawn[q] \in Nat
        /\ drawn'[p] = drawn[p] + Len(new) - Len(old)
        /\ \A q \in Pools \ {p} : drawn'[q] = drawn[q] /\ cache'[q] = cache[q]
        /\ cache'[p] = new
    <2>1. /\ Len(old) \in Nat
          /\ \A q \in Pools : drawn[q] \in Nat
      BY DEF TypeOK
    <2>2. /\ Missing(p, id'[n]) \in Nat
          /\ Len(new) = Len(old) + Missing(p, id'[n])
          /\ \A i \in 1..Len(new) :
               new[i] = IF i <= Len(old) THEN old[i] ELSE drawn[p] + i - Len(old)
      BY MissingType, ExtendedType
    <2>3. /\ cache' = [cache EXCEPT ![p] = new]
          /\ drawn' = [drawn EXCEPT ![p] = @ + Missing(p, id'[n])]
      BY DEF NthPrefix
    <2>4. /\ drawn'[p] = drawn[p] + Missing(p, id'[n])
          /\ \A q \in Pools \ {p} : drawn'[q] = drawn[q] /\ cache'[q] = cache[q]
          /\ cache'[p] = new
      BY <2>3 DEF TypeOK
    <2> HIDE DEF old, new
    <2>5. QED
      BY <2>1, <2>2, <2>4
  <1> HIDE DEF old, new
  <1>2. /\ \A i \in 1..Len(old) : old[i] \in 1..drawn[p]
        /\ \A i, j \in 1..Len(old) : old[i] = old[j] => i = j
    BY DEF PoolInv, CacheInv, old
  <1>3. /\ \A i \in 1..Len(new) : new[i] \in 1..drawn'[p]
        /\ \A i, j \in 1..Len(new) : new[i] = new[j] => i = j
        /\ \A i \in 1..Len(new) : i > Len(old) => new[i] > drawn[p]
    <2>1. drawn[p] \in Nat /\ drawn'[p] \in Nat /\ drawn[p] <= drawn'[p]
      BY <1>1
    <2>2. \A i \in 1..Len(new) :
            \/ i \in 1..Len(old) /\ new[i] = old[i] /\ new[i] \in 1..drawn[p]
            \/ i > Len(old) /\ new[i] = drawn[p] + i - Len(old) /\ new[i] > drawn[p]
               /\ new[i] <= drawn'[p]
      BY <1>1, <1>2
    <2>3. \A i \in 1..Len(new) : new[i] \in 1..drawn'[p]
      BY <1>1, <2>1, <2>2
    <2>4. ASSUME NEW i \in 1..Len(new), NEW j \in 1..Len(new), new[i] = new[j]
          PROVE  i = j
      <3>1. CASE i \in 1..Len(old) /\ j \in 1..Len(old)
        BY <1>1, <1>2, <2>4, <3>1
      <3>2. CASE i > Len(old) /\ j > Len(old)
        BY <1>1, <2>1, <2>4, <3>2
      <3>3. CASE i \in 1..Len(old) /\ j > Len(old)
        <4>1. new[i] <= drawn[p] /\ new[j] > drawn[p]
          BY <1>1, <1>2, <2>1, <3>3
        <4>2. QED
          BY <1>1, <1>2, <2>1, <2>4, <3>3, <4>1
      <3>4. CASE j \in 1..Len(old) /\ i > Len(old)
        <4>1. new[j] <= drawn[p] /\ new[i] > drawn[p]
          BY <1>1, <1>2, <2>1, <3>4
        <4>2. QED
          BY <1>1, <1>2, <2>1, <2>4, <3>4, <4>1
      <3>5. QED
        BY <1>1, <3>1, <3>2, <3>3, <3>4
    <2>5. QED
      BY <1>1, <2>1, <2>2, <2>3, <2>4
  <1>3a. cache[p] = old
    BY DEF old
  <1>4. CacheInv'
    <2> SUFFICES ASSUME NEW q \in Pools
                 PROVE  /\ \A i \in 1..Len(cache'[q]) : cache'[q][i] \in 1..drawn'[q]
                        /\ \A i, j \in 1..Len(cache'[q]) : cache'[q][i] = cache'[q][j] => i = j
      BY DEF CacheInv
    <2>1. CASE q = p
      BY <1>1, <1>3, <2>1
    <2>2. CASE q # p
      <3>1. cache'[q] = cache[q] /\ drawn'[q] = drawn[q]
        BY <1>1, <2>2
      <3>2. QED
        BY <3>1 DEF PoolInv, CacheInv
    <2>3. QED
      BY <2>1, <2>2
  <1>5. /\ \A v \in Users : v # <<"node", n>> => grant'[v] = grant[v]
        /\ \/ grant'[<<"node", n>>] = grant[<<"node", n>>]
           \/ id'[n] \in 1..Len(new) /\ grant'[<<"node", n>>] = <<p, new[id'[n]]>>
    <2>1. CASE id'[n] <= Len(new) /\ grant' = [grant EXCEPT ![<<"node", n>>] = <<p, new[id'[n]]>>]
      BY <1>1, <2>1, UsersAre DEF TypeOK
    <2>2. CASE UNCHANGED grant
      BY <2>2
    <2>3. QED
      BY <2>1, <2>2 DEF NthPrefix, new
  <1>6. GrantInv'
    <2> SUFFICES ASSUME NEW v \in Users, grant'[v] # None
                 PROVE  /\ grant'[v][2] \in 1..drawn'[grant'[v][1]]
                        /\ v[1] = "node" =>
                             /\ id'[v[2]] \in 1..Len(cache'[grant'[v][1]])
                             /\ grant'[v][2] = cache'[grant'[v][1]][id'[v[2]]]
                        /\ v[1] # "node" =>
                             \A i \in 1..Len(cache'[grant'[v][1]]) :
                               cache'[grant'[v][1]][i] # grant'[v][2]
      BY DEF GrantInv
    <2>1. CASE v = <<"node", n>> /\ id'[n] \in 1..Len(new) /\ grant'[v] = <<p, new[id'[n]]>>
      BY <1>1, <1>3, <2>1
    <2>2. CASE grant'[v] = grant[v]
      <3>1. v[1] = "node" => id'[v[2]] = id[v[2]]
        BY <2>2, UserKinds
      <3>2. /\ grant[v] # None /\ grant[v][1] \in Pools /\ grant[v][2] \in Nat
        BY <2>2 DEF TypeOK
      <3>3. /\ grant[v][2] \in 1..drawn[grant[v][1]]
            /\ v[1] = "node" =>
                 /\ id[v[2]] \in 1..Len(cache[grant[v][1]])
                 /\ grant[v][2] = cache[grant[v][1]][id[v[2]]]
            /\ v[1] # "node" =>
                 \A i \in 1..Len(cache[grant[v][1]]) : cache[grant[v][1]][i] # grant[v][2]
        BY <3>2 DEF PoolInv, GrantInv
      <3>4. CASE grant[v][1] = p
        <4>1. /\ grant[v][2] \in 1..drawn[p] /\ drawn[p] \in Nat /\ drawn[p] <= drawn'[p]
              /\ v[1] = "node" => id[v[2]] \in 1..Len(old) /\ grant[v][2] = old[id[v[2]]]
              /\ v[1] # "node" => \A i \in 1..Len(old) : old[i] # grant[v][2]
          BY <1>1, <1>3a, <3>3, <3>4
        <4>2. grant[v][2] \in 1..drawn'[p]
          BY <1>1, <4>1
        <4>3. v[1] = "node" => id'[v[2]] \in 1..Len(new) /\ grant[v][2] = new[id'[v[2]]]
          BY <1>1, <3>1, <4>1
        <4>4. v[1] # "node" => \A i \in 1..Len(new) : new[i] # grant[v][2]
          BY <1>1, <1>3, <4>1
        <4>5. QED
          BY <1>1, <2>2, <3>4, <4>2, <4>3, <4>4
      <3>5. CASE grant[v][1] # p
        <4>1. cache'[grant[v][1]] = cache[grant[v][1]] /\ drawn'[grant[v][1]] = drawn[grant[v][1]]
          BY <1>1, <3>2, <3>5
        <4>2. QED
          BY <2>2, <3>1, <3>3, <4>1
      <3>6. QED
        BY <3>4, <3>5
    <2>3. QED
      BY <1>5, <2>1, <2>2
  <1>7. SubnetsAreUnique'
    <2>1. \A v \in Users : v # <<"node", n>> /\ grant[v] # None /\ v[1] = "node" =>
            id'[v[2]] # id'[n]
      BY UserKinds
    <2>2. ASSUME id'[n] \in 1..Len(new), grant'[<<"node", n>>] = <<p, new[id'[n]]>>,
                 NEW v \in Users, v # <<"node", n>>, grant'[v] # None
          PROVE  grant'[v] # grant'[<<"node", n>>]
      <3>1. grant'[v] = grant[v] /\ grant[v] # None
        BY <1>5, <2>2
      <3>2. CASE v[1] = "node"
        <4>1. id'[v[2]] # id'[n]
          BY <2>1, <2>2, <3>1, <3>2
        <4>2. id'[v[2]] \in 1..Len(cache'[grant'[v][1]]) /\ grant'[v][2] = cache'[grant'[v][1]][id'[v[2]]]
          BY <1>6, <2>2, <3>2 DEF GrantInv
        <4>3. grant'[v][1] = p => grant'[v][2] # new[id'[n]]
          BY <1>1, <1>3, <2>2, <4>1, <4>2
        <4>4. QED
          BY <2>2, <4>3
      <3>3. CASE v[1] # "node"
        <4>1. \A i \in 1..Len(cache'[grant'[v][1]]) : cache'[grant'[v][1]][i] # grant'[v][2]
          BY <1>6, <2>2, <3>3 DEF GrantInv
        <4>2. grant'[v][1] = p => grant'[v][2] # new[id'[n]]
          BY <1>1, <2>2, <4>1
        <4>3. QED
          BY <2>2, <4>2
      <3>4. QED
        BY <3>2, <3>3
    <2>3. QED
      BY <1>5, <2>2 DEF PoolInv, SubnetsAreUnique
  <1>8. OrderInv'
    <2> SUFFICES ASSUME NEW q \in Pools,
                        \A v \in Users : grant'[v] # None /\ v[1] # "node" => grant'[v][1] # q
                 PROVE  /\ drawn'[q] = Len(cache'[q])
                        /\ \A i \in 1..Len(cache'[q]) : cache'[q][i] = i
      BY DEF OrderInv
    <2>1. \A v \in Users : grant[v] # None /\ v[1] # "node" => grant[v][1] # q
      BY <1>5
    <2>2. drawn[q] = Len(cache[q]) /\ \A i \in 1..Len(cache[q]) : cache[q][i] = i
      BY <2>1 DEF PoolInv, OrderInv
    <2>3. CASE q = p
      <3>1. drawn[p] = Len(old) /\ \A i \in 1..Len(old) : old[i] = i
        BY <1>3a, <2>2, <2>3
      <3>2. drawn'[p] = Len(new)
        BY <1>1, <3>1
      <3>3. \A i \in 1..Len(new) : new[i] = i
        BY <1>1, <3>1
      <3>4. QED
        BY <1>1, <2>3, <3>2, <3>3
    <2>4. CASE q # p
      BY <1>1, <2>2, <2>4
    <2>5. QED
      BY <2>3, <2>4
  <1>9. QED
    BY <1>4, <1>6, <1>7, <1>8 DEF PoolInv

\* A node with a subnet has an identifier.
LEMMA GrantedHasId ==
  ASSUME TypeOK, PoolInv, NEW n \in Nodes, grant[<<"node", n>>] # None
  PROVE  id[n] # 0
  BY UsersAre DEF PoolInv, GrantInv

\* The invariant of the pools is inductive.
LEMMA PoolStep ==
  ASSUME TypeOK, TypeOK', IdInv, IdInv', PoolInv, TurnInv, [Next]_vars
  PROVE  PoolInv'
  <1>1. CASE UNCHANGED vars
    BY <1>1, PoolStutter DEF vars
  <1>2. ASSUME NEW u \in Others, TakePrefix(u)
        PROVE  PoolInv'
    <2>1. PICK p \in Pools : NextPrefix(<<"other", u>>, p)
      BY <1>2 DEF TakePrefix
    <2>2. UNCHANGED id /\ grant[<<"other", u>>] = None
      BY <1>2 DEF TakePrefix, identity
    <2>3. CASE drawn[p] < Capacity[p] /\ Draw(<<"other", u>>, p, drawn[p] + 1)
      <3>1. DrawNext(<<"other", u>>, p)
        BY <2>2, <2>3, UsersAre DEF Draw, DrawNext
      <3>2. QED
        BY <2>2, <3>1, DrawKeeps
    <2>4. CASE RunOut
      BY <2>2, <2>4, PoolStutter DEF RunOut, pools
    <2>5. QED
      BY <2>1, <2>3, <2>4 DEF NextPrefix
  <1>3. CASE ReserveGateways \/ CheckNodes \/ CheckLinks \/ CheckModules
    BY <1>3, PoolStutter DEF ReserveGateways, CheckNodes, CheckLinks, CheckModules, identity, pools
  <1>4. CASE ReserveStatic
    <2>1. \A n \in Nodes : grant[<<"node", n>>] = None
      BY <1>4 DEF ReserveStatic, TurnInv
    <2>2. UNCHANGED pools
      BY <1>4 DEF ReserveStatic
    <2>3. QED
      BY <2>1, <2>2, PoolStutter DEF pools
  <1>5. ASSUME NEW n \in Nodes, TransformNode(n)
        PROVE  PoolInv'
    <2>1. /\ Identify(n) /\ phase = "nodes" /\ phase' \in {"nodes", "checked"}
          /\ next > 0 /\ IdsAreUnique'
      BY <1>5 DEF TransformNode, Advance, IdInv
    <2>2. /\ id'[n] \in Nat \ {0}
          /\ \A m \in Nodes \ {n} : id'[m] = id[m]
          /\ id[n] # 0 => id' = id
      BY <2>1, IdentifyType
    <2>3. /\ grant[<<"node", n>>] # None => id'[n] = id[n]
          /\ \A m \in Nodes : grant[<<"node", m>>] # None => id'[m] = id[m]
      BY <2>2, GrantedHasId
    <2>4. \A m \in Nodes \ {n} : grant[<<"node", m>>] # None => id'[m] # id'[n]
      BY <2>1, <2>2 DEF IdsAreUnique
    <2>5. ASSUME NEW p \in Pools, NthPrefix(<<"node", n>>, p, id'[n])
          PROVE  PoolInv'
      BY <2>2, <2>3, <2>4, <2>5, NthKeeps
    <2>6. CASE UNCHANGED <<pools, error>>
      BY <2>3, <2>6, PoolStutter DEF pools
    <2>7. QED
      BY <1>5, <2>5, <2>6 DEF TransformNode
  <1>6. ASSUME NEW n \in Nodes, RunOutOfIds(n)
        PROVE  PoolInv'
    BY <1>6, PoolStutter DEF RunOutOfIds, identity, pools
  <1>7. ASSUME NEW k \in Links, TransformLink(k) \/ LinkWithoutPrefix(k) \/ SkipLink(k)
        PROVE  PoolInv'
    <2>1. /\ UNCHANGED id
          /\ phase = "links" /\ todo = k
          /\ \/ UNCHANGED pools
             \/ \E p \in Pools :
                  /\ drawn[p] < Capacity[p]
                  /\ drawn' = [drawn EXCEPT ![p] = @ + 1]
                  /\ grant' = [grant EXCEPT ![<<"link", k>>] = <<p, drawn[p] + 1>>]
                  /\ UNCHANGED cache
      BY <1>7 DEF TransformLink, LinkWithoutPrefix, SkipLink, LinkPrefix, identity
    <2>2. grant[<<"link", k>>] = None
      BY <2>1 DEF TurnInv
    <2>3. CASE UNCHANGED pools
      BY <2>1, <2>3, PoolStutter DEF pools
    <2>4. ASSUME NEW p \in Pools, drawn[p] < Capacity[p],
                 drawn' = [drawn EXCEPT ![p] = @ + 1],
                 grant' = [grant EXCEPT ![<<"link", k>>] = <<p, drawn[p] + 1>>],
                 UNCHANGED cache
          PROVE  PoolInv'
      <3>1. DrawNext(<<"link", k>>, p)
        BY <2>2, <2>4, UsersAre DEF DrawNext
      <3>2. QED
        BY <2>1, <3>1, DrawKeeps
    <2>5. QED
      BY <2>1, <2>3, <2>4
  <1>8. QED
    BY <1>1, <1>2, <1>3, <1>4, <1>5, <1>6, <1>7 DEF Next

\* Nobody gets a subnet out of turn.
LEMMA TurnStep ==
  ASSUME TypeOK, IdInv, PoolInv, TurnInv, [Next]_vars
  PROVE  TurnInv'
  <1>1. CASE UNCHANGED vars
    BY <1>1 DEF vars, TurnInv
  <1>2. ASSUME NEW u \in Others, TakePrefix(u)
        PROVE  TurnInv'
    <2>1. /\ \A n \in Nodes : grant'[<<"node", n>>] = grant[<<"node", n>>]
          /\ \A k \in Links : grant'[<<"link", k>>] = grant[<<"link", k>>]
      BY <1>2, UsersAre DEF TakePrefix, NextPrefix, Draw, RunOut, pools, TypeOK
    <2>2. UNCHANGED <<phase, todo, id>>
      BY <1>2 DEF TakePrefix, identity
    <2>3. QED
      BY <2>1, <2>2 DEF TurnInv
  <1>3. CASE ReserveGateways \/ CheckNodes \/ CheckLinks \/ CheckModules
    <2>1. UNCHANGED <<grant, id, todo>>
      BY <1>3 DEF ReserveGateways, CheckNodes, CheckLinks, CheckModules, identity, pools
    <2>2. \/ phase = "gateways" /\ phase' = "static"
          \/ phase = "checked" /\ phase' \in {"links", "failed"}
          \/ phase' \in {"modules", "accepted", "failed"}
      BY <1>3 DEF ReserveGateways, CheckNodes, CheckLinks, CheckModules, Checkpoint
    <2>3. QED
      BY <2>1, <2>2 DEF TurnInv
  <1>4. CASE ReserveStatic
    <2>1. UNCHANGED <<grant, todo>> /\ phase = "static" /\ phase' \in {"nodes", "failed"}
      BY <1>4 DEF ReserveStatic, pools, Checkpoint
    <2>2. QED
      BY <2>1 DEF TurnInv
  <1>5. ASSUME NEW n \in Nodes, TransformNode(n)
        PROVE  TurnInv'
    <2>1. /\ Identify(n) /\ phase = "nodes" /\ phase' \in {"nodes", "checked"}
          /\ next > 0
      BY <1>5 DEF TransformNode, Advance, IdInv
    <2>2. /\ id'[n] \in Nat \ {0}
          /\ \A m \in Nodes \ {n} : id'[m] = id[m]
      BY <2>1, IdentifyType
    <2>3. IdInv'
      BY <1>5, IdTransform
    <2>4. \A m, l \in Nodes : m # l /\ id'[m] # 0 => id'[m] # id'[l]
      BY <2>1, <2>3 DEF IdInv, IdsAreUnique
    <2>5. \A u \in Users : u # <<"node", n>> => grant'[u] = grant[u]
      BY <1>5 DEF TransformNode, NthPrefix, pools, TypeOK
    <2>6. \A k \in Links : grant'[<<"link", k>>] = grant[<<"link", k>>]
      BY <2>5, UsersAre
    <2>7. \A m \in Nodes : grant'[<<"node", m>>] # None => id'[m] # 0
      <3>1. ASSUME NEW m \in Nodes \ {n}, grant'[<<"node", m>>] # None
            PROVE  id'[m] # 0
        <4>1. grant[<<"node", m>>] # None
          BY <2>5, <3>1, UsersAre
        <4>2. QED
          BY <2>2, <4>1, GrantedHasId
      <3>2. QED
        BY <2>2, <3>1
    <2>8. QED
      BY <2>1, <2>4, <2>6, <2>7 DEF TurnInv
  <1>6. ASSUME NEW n \in Nodes, RunOutOfIds(n)
        PROVE  TurnInv'
    <2>1. UNCHANGED <<grant, id>> /\ phase' = "failed"
      BY <1>6 DEF RunOutOfIds, Checkpoint, identity, pools
    <2>2. QED
      BY <2>1 DEF TurnInv
  <1>7. ASSUME NEW k \in Links, TransformLink(k) \/ LinkWithoutPrefix(k) \/ SkipLink(k)
        PROVE  TurnInv'
    <2>1. /\ UNCHANGED id /\ phase = "links" /\ todo = k
          /\ \/ todo' = k + 1 /\ phase' = "links"
             \/ phase' = "done"
      BY <1>7 DEF TransformLink, LinkWithoutPrefix, SkipLink, Advance, identity
    <2>2. \A u \in Users : u # <<"link", k>> => grant'[u] = grant[u]
      BY <1>7 DEF TransformLink, LinkWithoutPrefix, SkipLink, LinkPrefix, pools, TypeOK
    <2>3. \A n \in Nodes : grant'[<<"node", n>>] = grant[<<"node", n>>]
      BY <2>2, UsersAre
    <2>4. \A j \in Links : j # k => grant'[<<"link", j>>] = grant[<<"link", j>>]
      BY <2>2, UsersAre
    <2>5. \A j \in Links : j \in Int
      OBVIOUS
    <2>6. phase' = "links" => \A j \in Links : j >= todo' => grant'[<<"link", j>>] = None
      BY <2>1, <2>4, <2>5 DEF TurnInv
    <2>7. QED
      BY <2>1, <2>3, <2>6 DEF TurnInv
  <1>8. QED
    BY <1>1, <1>2, <1>3, <1>4, <1>5, <1>6, <1>7 DEF Next

-----------------------------------------------------------------------------
(* Links *)

\* The nodes have identifiers before the first link gets addresses, and keep them.
LinkInv ==
  /\ phase \in {"gateways", "static"} => todo = 1
  /\ phase = "nodes" => \A n \in Nodes : n < todo => id[n] # 0
  /\ phase \in {"checked", "links", "done", "modules", "accepted"} => \A n \in Nodes : id[n] # 0
  /\ phase \in {"gateways", "static", "nodes"} => last = NoLink
  /\ Count(last) > 1 => Sound(last, id)

\* The elements of a sequence have its type.
LEMMA SeqElements ==
  ASSUME NEW S, NEW s \in Seq(S)
  PROVE  Len(s) \in Nat /\ \A i \in 1..Len(s) : s[i] \in S
  OBVIOUS

\* What TransformLink knows of its link.
LEMMA LinkIsSound ==
  ASSUME TypeOK, IdInv, LinkInv, NEW k \in Links, phase = "links",
         NEW size \in StaticSizes \cup {SubnetSize[p] : p \in Pools},
         NEW l \in LinkData(k, size), Count(l) > 1
  PROVE  Sound(l, id)
  <1>1. PICK nodes \in Attachments :
          l \in [nodes : {nodes}, type : LinkTypes(nodes), gateway : {gateway[k]},
                 static : [1..Len(nodes) -> StaticHosts], size : {size},
                 allocation : Allocations]
    BY DEF LinkData
  <1>2. l.nodes = nodes /\ l.type \in LinkTypes(nodes) /\ l.gateway = gateway[k] /\ l.size = size
    BY <1>1
  <1>3. nodes \in Seq(Nodes) /\ size \in Nat \ {0} /\ gateway[k] \in Int
    <2>1. nodes \in Seq(Nodes)
      BY PlanAssumption
    <2>2. size \in Nat \ {0}
      BY PlanAssumption
    <2>3. gateway[k] \in GatewayIds /\ GatewayIds \subseteq Int
      BY PlanAssumption DEF TypeOK
    <2>4. QED
      BY <2>1, <2>2, <2>3
  <1>4. Len(nodes) \in Nat /\ \A i \in 1..Len(nodes) : nodes[i] \in Nodes
    BY <1>3, SeqElements
  <1>5. l.type = "p2p" => Count(l) = 2
    BY <1>2 DEF LinkTypes, Count
  <1>6. \A n \in Nodes :
          /\ n \in Int /\ id[n] \in Nat \ {0} /\ id[n] # gateway[k]
          /\ \A m \in Nodes : m # n => id[m] # id[n]
    <2>1. \A n \in Nodes : n \in Int /\ id[n] \in Nat
      BY DEF TypeOK
    <2>2. \A n \in Nodes : id[n] # 0
      BY DEF LinkInv
    <2>3. QED
      BY <2>1, <2>2 DEF IdInv, IdsAreUnique
  <1>7. \A i \in 1..Count(l) : l.nodes[i] \in Nodes
    BY <1>2, <1>4 DEF Count
  <1>8. Count(l) \in Nat
    BY <1>2, <1>4 DEF Count
  <1>9. QED
    BY <1>2, <1>3, <1>5, <1>6, <1>7, <1>8 DEF Sound

\* The nodes of a link keep their identifiers.
LEMMA LinkStep ==
  ASSUME TypeOK, TypeOK', IdInv, LinkInv, [Next]_vars
  PROVE  LinkInv'
  <1>1. CASE UNCHANGED vars
    BY <1>1 DEF vars, LinkInv
  <1>2. ASSUME NEW u \in Others, TakePrefix(u)
        PROVE  LinkInv'
    BY <1>2 DEF TakePrefix, identity, LinkInv
  <1>3. CASE ReserveGateways
    BY <1>3 DEF ReserveGateways, LinkInv
  <1>4. CASE ReserveStatic
    <2>1. UNCHANGED <<todo, last>> /\ phase = "static" /\ phase' \in {"nodes", "failed"}
      BY <1>4 DEF ReserveStatic, Checkpoint
    <2>2. todo' = 1 /\ last' = NoLink
      BY <2>1 DEF LinkInv
    <2>3. \A n \in Nodes : ~(n < 1)
      OBVIOUS
    <2>4. Count(last') = 0
      BY <2>2 DEF Count, NoLink
    <2>5. QED
      BY <2>1, <2>2, <2>3, <2>4 DEF LinkInv, Count
  <1>5. CASE CheckNodes \/ CheckLinks \/ CheckModules
    BY <1>5 DEF CheckNodes, CheckLinks, CheckModules, Checkpoint, identity, LinkInv
  <1>6. ASSUME NEW n \in Nodes, TransformNode(n)
        PROVE  LinkInv'
    <2>1. /\ Identify(n) /\ phase = "nodes" /\ todo = n /\ next > 0 /\ last' = last
          /\ \/ todo < NumNodes /\ todo' = todo + 1 /\ phase' = "nodes"
             \/ ~(todo < NumNodes) /\ phase' = "checked"
      BY <1>6 DEF TransformNode, Advance, IdInv
    <2>2. id'[n] # 0 /\ \A m \in Nodes \ {n} : id'[m] = id[m]
      BY <2>1, IdentifyType
    <2>3. \A m \in Nodes : m < todo => id'[m] # 0
      BY <2>1, <2>2 DEF LinkInv
    <2>4. \A m \in Nodes : m \in Int /\ m <= NumNodes
      OBVIOUS
    <2>5. \A m \in Nodes : m <= todo => id'[m] # 0
      BY <2>1, <2>2, <2>3, <2>4
    <2>6. NumNodes \in Nat
      BY PlanAssumption
    <2>7. phase' = "nodes" => \A m \in Nodes : m < todo' => id'[m] # 0
      BY <2>1, <2>4, <2>5
    <2>8. phase' = "checked" => \A m \in Nodes : id'[m] # 0
      BY <2>1, <2>4, <2>5, <2>6
    <2>9. last' = NoLink /\ Count(last') = 0
      <3>1. last = NoLink
        BY <2>1 DEF LinkInv
      <3>2. Count(NoLink) = 0
        BY DEF Count, NoLink
      <3>3. QED
        BY <2>1, <3>1, <3>2 DEF Count
    <2>10. QED
      BY <2>1, <2>7, <2>8, <2>9 DEF LinkInv, Count
  <1>7. ASSUME NEW n \in Nodes, RunOutOfIds(n)
        PROVE  LinkInv'
    BY <1>7 DEF RunOutOfIds, Checkpoint, identity, LinkInv
  <1>8. ASSUME NEW k \in Links, LinkWithoutPrefix(k) \/ SkipLink(k)
        PROVE  LinkInv'
    BY <1>8 DEF LinkWithoutPrefix, SkipLink, Advance, identity, LinkInv
  <1>9. ASSUME NEW k \in Links, TransformLink(k)
        PROVE  LinkInv'
    <2>1. /\ phase = "links" /\ phase' \in {"links", "done"} /\ UNCHANGED id
      BY <1>9 DEF TransformLink, Advance, identity
    <2>2. PICK size \in StaticSizes \cup {SubnetSize[p] : p \in Pools} :
            last' \in LinkData(k, size)
      BY <1>9 DEF TransformLink
    <2>3. Count(last') > 1 => Sound(last', id)
      BY <2>1, <2>2, LinkIsSound
    <2>4. QED
      BY <2>1, <2>3 DEF LinkInv, Count
  <1>10. QED
    BY <1>1, <1>2, <1>3, <1>4, <1>5, <1>6, <1>7, <1>8, <1>9 DEF Next

-----------------------------------------------------------------------------
(* Theorems *)

\* The inductive invariant.
IInv == TypeOK /\ IdInv /\ PoolInv /\ TurnInv /\ LinkInv

\* The invariant holds in the beginning.
LEMMA Initially ==
  ASSUME Init
  PROVE  IInv
  <1>1. TypeOK
    <2>1. id \in [Nodes -> 0..MaxId]
      <3>1. 0 \in 0..MaxId
        BY PlanAssumption
      <3>2. QED
        BY <3>1 DEF Init
    <2>2. PoolsOK
      <3>1. \A p \in Pools : Capacity[p] \in Nat
        BY PlanAssumption
      <3>2. <<>> \in Seq(Nat)
        OBVIOUS
      <3>3. QED
        BY <3>1, <3>2 DEF Init, PoolsOK
    <2>3. QED
      BY <2>1, <2>2 DEF Init, TypeOK, PoolsOK
  <1>2. IdInv
    BY DEF Init, IdInv, IdsAreUnique, Late
  <1>3. \A u \in Users : grant[u] = None
    BY DEF Init
  <1>4. \A p \in Pools : drawn[p] = 0 /\ Len(cache[p]) = 0
    BY DEF Init
  <1>5. PoolInv
    BY <1>3, <1>4 DEF PoolInv, CacheInv, GrantInv, SubnetsAreUnique, OrderInv
  <1>6. TurnInv
    BY <1>3, UsersAre DEF TurnInv
  <1>7. LinkInv
    <2>1. Count(NoLink) = 0
      BY DEF Count, NoLink
    <2>2. QED
      BY <2>1 DEF Init, LinkInv
  <1>8. QED
    BY <1>1, <1>2, <1>5, <1>6, <1>7 DEF IInv

\* Identifiers, caches and grants stay consistent: the invariant that the other theorems
\* rest on.
THEOREM Invariance == Spec => []IInv
  <1>1. IInv /\ [Next]_vars => IInv'
    <2> SUFFICES ASSUME IInv, [Next]_vars
                 PROVE  IInv'
      OBVIOUS
    <2>1. TypeOK' /\ IdInv'
      BY TypeStep, IdStep DEF IInv, IdInv
    <2>2. PoolInv' /\ TurnInv'
      BY <2>1, PoolStep, TurnStep DEF IInv
    <2>3. LinkInv'
      BY <2>1, LinkStep DEF IInv
    <2>4. QED
      BY <2>1, <2>2, <2>3 DEF IInv
  <1>2. QED
    BY Initially, <1>1, PTL DEF Spec

\* All variables of the address plan keep their types, and no pool gives away more
\* subnets than it has.
THEOREM TypeCorrect == Spec => []TypeOK
  <1>1. IInv => TypeOK
    BY DEF IInv
  <1>2. QED
    BY Invariance, <1>1, PTL

\* No two nodes share an identifier, and none has that of a gateway.
THEOREM IdsStayUnique == Spec => []IdsAreUnique
  <1>1. IInv => IdsAreUnique
    BY DEF IInv, IdInv
  <1>2. QED
    BY Invariance, <1>1, PTL

\* No subnet of a pool is given to two users, whether the pool is used by order, by
\* number, or both.
THEOREM SubnetsStayUnique == Spec => []SubnetsAreUnique
  <1>1. IInv => SubnetsAreUnique
    BY DEF IInv, PoolInv
  <1>2. QED
    BY Invariance, <1>1, PTL

\* The loopback of a node is the subnet its identifier names, in a pool that serves
\* loopbacks only.
THEOREM LoopbackIsTheId == Spec => []LoopbackFollowsId
  <1>1. IInv => LoopbackFollowsId
    <2> SUFFICES ASSUME IInv, NEW n \in Nodes, grant[<<"node", n>>] # None,
                        \A u \in Users : grant[u] # None /\ u[1] # "node" =>
                          grant[u][1] # grant[<<"node", n>>][1]
                 PROVE  grant[<<"node", n>>][2] = id[n]
      BY DEF LoopbackFollowsId
    <2>1. <<"node", n>> \in Users
      BY UsersAre
    <2>2. grant[<<"node", n>>][1] \in Pools
      BY <2>1 DEF IInv, TypeOK
    <2>3. /\ id[n] \in 1..Len(cache[grant[<<"node", n>>][1]])
          /\ grant[<<"node", n>>][2] = cache[grant[<<"node", n>>][1]][id[n]]
      BY <2>1 DEF IInv, PoolInv, GrantInv
    <2>4. \A i \in 1..Len(cache[grant[<<"node", n>>][1]]) : cache[grant[<<"node", n>>][1]][i] = i
      BY <2>2 DEF IInv, PoolInv, OrderInv
    <2>5. QED
      BY <2>3, <2>4
  <1>2. QED
    BY Invariance, <1>1, PTL

\* Two or more nodes of a link get distinct usable addresses from every prefix that is
\* large enough, for all sizes of prefixes and pools, identifiers and gateways.
THEOREM SharedPrefixesAlwaysDo == Spec => []SharedPrefixesDo
  <1>1. IInv => SharedPrefixesDo
    BY FittingPrefixesDo DEF IInv, LinkInv, SharedPrefixesDo
  <1>2. QED
    BY Invariance, <1>1, PTL
=============================================================================
