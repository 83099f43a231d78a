--------------------------- MODULE Routing_proofs ---------------------------
(***************************************************************************)
(* Two ends decide on their own, at different times, and yet agree: on the  *)
(* sessions of BGP, and on the interfaces that run an interior protocol.    *)
(* For any lab.                                                            *)
(*                                                                         *)
(* Interior protocols: an interface is decided once, by the hook of its    *)
(* node, from the modules its neighbors still have; modules only disappear, *)
(* so that a neighbor which has the protocol in the end had it then.        *)
(***************************************************************************)
EXTENDS Routing, WellFoundedInduction, TLAPS

Early == {"as_list", "nodes", "roles", "post"}

\* The topology stays what it was.
LEMMA LabStays ==
  ASSUME RoutingNext
  PROVE  lab' = lab
<1>1. CASE BgpStep
  BY <1>1 DEF BgpStep, Next, ProcessAsList, NodePreTransform, EbgpRoleLink, ModulePostTransform, BuildIbgpSessions,
              BuildEbgpSession, LocalasIbgpNhsFixup, PostTransform
<1>2. CASE IgpStep
  BY <1>2 DEF IgpStep, Igp!Next, Igp!BgpImports, Igp!IgpPostTransform, Igp!NextNode
<1>3. QED
  BY <1>1, <1>2 DEF RoutingNext

LEMMA LabIsWellFormed == RoutingSpec => []WellFormed(lab)
<1>1. RoutingInit => WellFormed(lab)
  BY LabsAssumption DEF RoutingInit, Init
<1>2. WellFormed(lab) /\ [RoutingNext]_routingVars => WellFormed(lab)'
  <2> SUFFICES ASSUME WellFormed(lab), [RoutingNext]_routingVars
               PROVE  WellFormed(lab)'
    OBVIOUS
  <2>1. lab' = lab
    BY LabStays DEF routingVars, vars
  <2>2. QED
    BY <2>1
<1>3. QED
  BY <1>1, <1>2, PTL DEF RoutingSpec

\* An interface has a link and a position on it, a node of the lab and addresses.
LEMMA InterfaceFacts ==
  ASSUME WellFormed(lab), NEW q \in Interfaces
  PROVE  /\ q = <<q[1], q[2]>> /\ q[1] \in DOMAIN lab.links /\ q[2] \in DOMAIN lab.links[q[1]].intfs
         /\ q[1] \in Nat /\ q[2] \in Nat
         /\ Intf(q[1], q[2]).node \in ToSet(lab.order)
         /\ Intf(q[1], q[2]).addr \in [AF -> Kinds]
         /\ Intf(q[1], q[2]).localAs \in Nat /\ lab.links[q[1]].localAs \in Nat
<1>1. PICK l \in DOMAIN lab.links : q \in {<<l, i>> : i \in DOMAIN lab.links[l].intfs}
  BY DEF Interfaces
<1>2. PICK i \in DOMAIN lab.links[l].intfs : q = <<l, i>>
  BY <1>1
<1>3. q[1] = l /\ q[2] = i
  BY <1>2
<1>4. /\ l \in Nat /\ lab.links[l].localAs \in Nat /\ i \in Nat
      /\ lab.links[l].intfs[i].node \in ToSet(lab.order) /\ lab.links[l].intfs[i].localAs \in Nat
      /\ lab.links[l].intfs[i].addr \in [AF -> Kinds]
  BY DEF WellFormed
<1>5. QED
  BY <1>2, <1>3, <1>4 DEF Intf

-----------------------------------------------------------------------------
(* Interior protocols                                                       *)

Asks(n) == {lab.igps[n][y] : y \in DOMAIN lab.igps[n]}

\* The hook of protocol P of node n has run.
Past(n, P) ==
  \E x \in DOMAIN lab.order :
    /\ lab.order[x] = n
    /\ x < at \/ (x = at /\ \E y \in DOMAIN lab.igps[n] : y < step /\ lab.igps[n][y] = P)

\* What asks for an adjacency: the interface, and a neighbor.
Wants(q, P) == Igp!Asked(q, P) /\ role[q[1]] # "external"
Meeting(q, p, P) == P \in modules[Igp!At(p).node] /\ Igp!Spoken(p, P) \cap Igp!Spoken(q, P) # {}

\* Interface q runs P if a neighbor that has P could use it, and then it is
\* not passive by itself.
Meets(q, P) ==
  Wants(q, P) /\ (\E p \in Igp!Neighbors(q) : Meeting(q, p, P))
  => /\ <<q, P>> \in runs \cup members /\ P \in modules[Igp!At(q).node]
     /\ <<q, P>> \in passive => <<q, P>> \in DOMAIN lab.passive \/ role[q[1]] = "passive"

Turns ==
  /\ at \in Nat \ {0} /\ step \in Nat
  /\ stage \in Early => at = 1 /\ step \in {0, 1} /\ runs = {} /\ members = {}
\* A protocol leaves a node with its own hook only.
Kept ==
  /\ modules \in [ToSet(lab.order) -> SUBSET Igps]
  /\ \A n \in ToSet(lab.order) : \A P \in Asks(n) : ~Past(n, P) => P \in modules[n]
Inside == \A x \in runs \cup members : role[x[1][1]] # "external"
Decided == ~failed => \A q \in Interfaces : \A P \in Asks(Igp!At(q).node) : Past(Igp!At(q).node, P) => Meets(q, P)

Ran == \A x \in passive : Past(Igp!At(x[1]).node, x[2])

IgpInv == WellFormed(lab) /\ Turns /\ Kept /\ Inside /\ Ran /\ Decided

LEMMA IgpInit == RoutingInit => IgpInv
<1> SUFFICES ASSUME RoutingInit
             PROVE  IgpInv
  OBVIOUS
<1>1. WellFormed(lab)
  BY LabsAssumption DEF RoutingInit, Init
<1>2. Turns
  BY DEF RoutingInit, Init, Igp!Init, Igp!First, Turns, Early
<1>3. Kept
  <2>1. \A n \in ToSet(lab.order) : lab.igps[n] \in Seq(Igps)
    BY <1>1 DEF WellFormed
  <2>2. \A n \in ToSet(lab.order) : modules[n] = Asks(n) /\ Asks(n) \subseteq Igps
    BY <2>1 DEF RoutingInit, Igp!Init, ToSet, Asks, Igp!Order, Igp!ToSet
  <2>3. modules \in [ToSet(lab.order) -> SUBSET Igps]
    BY <2>2 DEF RoutingInit, Igp!Init, ToSet, Igp!Order, Igp!ToSet
  <2>4. QED
    BY <2>2, <2>3 DEF Kept
<1>4. Inside
  BY DEF RoutingInit, Igp!Init, Inside
<1>5. Decided
  <2>1. at = 1 /\ step \in {0, 1}
    BY <1>2 DEF Turns, RoutingInit, Init, Early
  <2>2. ASSUME NEW n \in ToSet(lab.order), NEW P, Past(n, P)
        PROVE  FALSE
    <3>1. lab.order \in Seq(DOMAIN lab.as) /\ lab.igps[n] \in Seq(Igps)
      BY <1>1 DEF WellFormed
    <3>2. QED
      BY <2>1, <2>2, <3>1 DEF Past
  <2>3. \A q \in Interfaces : Igp!At(q).node \in ToSet(lab.order)
    BY <1>1, InterfaceFacts DEF Igp!At, Igp!Intf, Intf
  <2>4. QED
    BY <2>2, <2>3 DEF Decided
<1>6. Ran
  BY DEF RoutingInit, Igp!Init, Ran
<1>7. QED
  BY <1>1, <1>2, <1>3, <1>4, <1>5, <1>6 DEF IgpInv

\* More interfaces, more address families.
LEMMA AfGrows ==
  ASSUME NEW n, NEW v, NEW P, NEW S, NEW T, S \subseteq T
  PROVE  Igp!Af(n, v, P, S) \subseteq Igp!Af(n, v, P, T)
BY DEF Igp!Af

LEMMA OrderFacts ==
  ASSUME IgpInv, at <= Len(lab.order)
  PROVE  at \in Nat /\ lab.order \in Seq(DOMAIN lab.as) /\ IsInjective(lab.order) /\ at \in DOMAIN lab.order
<1>1. lab.order \in Seq(DOMAIN lab.as) /\ IsInjective(lab.order)
  BY DEF IgpInv, WellFormed
<1>2. at \in Nat \ {0}
  BY DEF IgpInv, Turns
<1>3. DOMAIN lab.order = 1..Len(lab.order)
  BY <1>1
<1>4. QED
  BY <1>1, <1>2, <1>3

\* The hook that is about to run has not run before.
LEMMA NextHook ==
  ASSUME IgpInv, at <= Len(lab.order), NEW n, n = lab.order[at], step \in DOMAIN lab.igps[n],
         NEW P, P = lab.igps[n][step]
  PROVE  n \in ToSet(lab.order) /\ P \in Asks(n) /\ P \in Igps /\ ~Past(n, P) /\ P \in modules[n] /\ step \in Nat \ {0}
<1>1. lab.order \in Seq(DOMAIN lab.as) /\ IsInjective(lab.order) /\ at \in DOMAIN lab.order
  BY OrderFacts
<1>2. n \in ToSet(lab.order)
  BY <1>1 DEF ToSet
<1>3. lab.igps[n] \in Seq(Igps) /\ IsInjective(lab.igps[n])
  BY <1>2 DEF IgpInv, WellFormed
<1>4. P \in Asks(n) /\ P \in Igps /\ step \in Nat \ {0}
  BY <1>3 DEF Asks
<1>5. ~Past(n, P)
  <2>1. SUFFICES ASSUME Past(n, P) PROVE FALSE
    OBVIOUS
  <2>2. PICK x \in DOMAIN lab.order : /\ lab.order[x] = n
                                      /\ x < at \/ (x = at /\ \E y \in DOMAIN lab.igps[n] : y < step /\ lab.igps[n][y] = P)
    BY <2>1 DEF Past
  <2>3. x = at
    BY <1>1, <2>2 DEF IsInjective
  <2>4. PICK y \in DOMAIN lab.igps[n] : y < step /\ lab.igps[n][y] = P
    BY <1>1, <2>2, <2>3
  <2>5. y = step
    BY <1>3, <2>4 DEF IsInjective
  <2>6. QED
    BY <1>4, <2>4, <2>5
<1>6. QED
  BY <1>2, <1>4, <1>5 DEF IgpInv, Kept

\* What a hook leaves of what was decided: interfaces of other nodes and other
\* protocols stay as they are, and modules only disappear.
Grows ==
  /\ UNCHANGED <<lab, role>> /\ \A n \in ToSet(lab.order) : modules'[n] \subseteq modules[n]
  /\ runs \subseteq runs' /\ members \subseteq members'

LEMMA WantsStays ==
  ASSUME WellFormed(lab), Grows, NEW q \in Interfaces, NEW P
  PROVE  /\ Igp!At(q)' = Igp!At(q) /\ (Wants(q, P)' => Wants(q, P)) /\ Igp!Neighbors(q)' = Igp!Neighbors(q)
         /\ \A p \in Igp!Neighbors(q) : Meeting(q, p, P)' => Meeting(q, p, P)
<1>1. Igp!At(q)' = Igp!At(q) /\ (Wants(q, P)' => Wants(q, P)) /\ Igp!Neighbors(q)' = Igp!Neighbors(q)
  BY DEF Wants, Grows, Igp!Asked, Igp!At, Igp!Intf, Igp!VrfSays, Igp!Neighbors
<1>2. ASSUME NEW p \in Igp!Neighbors(q), Meeting(q, p, P)'
      PROVE  Meeting(q, p, P)
  <2>1. \A x : Igp!At(x)' = Igp!At(x)
    BY DEF Grows, Igp!At, Igp!Intf
  <2>2. \A x : Igp!Spoken(x, P)' = Igp!Spoken(x, P)
    BY DEF Grows, Igp!Spoken, Igp!Static, Igp!Af, Igp!Families, Igp!At, Igp!Intf
  <2>3. P \in modules'[Igp!At(p).node] /\ Igp!Spoken(p, P) \cap Igp!Spoken(q, P) # {}
    BY <1>2, <2>1, <2>2 DEF Meeting
  <2>4. p \in Interfaces
    BY InterfaceFacts DEF Igp!Neighbors, Interfaces
  <2>5. P \in modules[Igp!At(p).node]
    BY <2>3, <2>4, InterfaceFacts DEF Grows, Igp!At, Igp!Intf, Intf
  <2>6. QED
    BY <2>3, <2>5 DEF Meeting
<1>3. QED
  BY <1>1, <1>2

LEMMA MeetsStays ==
  ASSUME WellFormed(lab), Grows, NEW q \in Interfaces, NEW P, Meets(q, P),
         P \in modules[Igp!At(q).node] => P \in modules'[Igp!At(q).node],
         <<q, P>> \in passive' => <<q, P>> \in passive
  PROVE  Meets(q, P)'
<1>1. SUFFICES ASSUME Wants(q, P)', NEW p \in Igp!Neighbors(q)', Meeting(q, p, P)'
               PROVE  /\ <<q, P>> \in runs' \cup members' /\ P \in modules'[Igp!At(q)'.node]
                      /\ <<q, P>> \in passive' => <<q, P>> \in DOMAIN lab'.passive \/ role'[q[1]] = "passive"
  BY DEF Meets
<1>2. Wants(q, P) /\ Meeting(q, p, P) /\ p \in Igp!Neighbors(q) /\ Igp!At(q)' = Igp!At(q)
  BY <1>1, WantsStays
<1>3. /\ <<q, P>> \in runs \cup members /\ P \in modules[Igp!At(q).node]
      /\ <<q, P>> \in passive => <<q, P>> \in DOMAIN lab.passive \/ role[q[1]] = "passive"
  BY <1>2 DEF Meets
<1>4. QED
  BY <1>2, <1>3 DEF Grows

\* The interfaces of node n that run P outside of VRFs and in those that need it.
Outside(n, P) == {p \in Igp!Addressed(n, P) : Igp!At(p).vrf = ""}
Global(n, P) == Igp!Fitting(n, "", P, Outside(n, P))
Alive(n, P) == {v \in Igp!Vrfs(n) : P \in Igp!VrfAware /\ Igp!Active(n, v, P)}
InVrfs(n, P) == UNION {Igp!Fitting(n, v, P, Igp!InVrf(n, v, P)) : v \in Alive(n, P)}
Used(n, P) == Igp!Used(Global(n, P), InVrfs(n, P))

Chosen(n, P) ==
  /\ runs' = runs \cup {<<p, P>> : p \in Global(n, P)}
  /\ members' = members \cup {<<p, P>> : p \in InVrfs(n, P)}
  /\ passive' = passive \cup {<<p, P>> : p \in {q \in Global(n, P) \cup InVrfs(n, P) : Igp!Passive(q, P)}}
  /\ modules' = [modules EXCEPT ![n] = IF Used(n, P) THEN @ ELSE @ \ {P}]

LEMMA HookEffect ==
  ASSUME Igp!IgpPostTransform
  PROVE  LET n == lab.order[at]
             P == lab.igps[n][step]
         IN  \/ failed' = TRUE /\ UNCHANGED <<modules, runs, members, passive>>
             \/ Chosen(n, P) /\ (~failed' => ~failed)
<1> DEFINE n == lab.order[at]
           P == lab.igps[n][step]
<1>1. CASE Igp!UnnumberedError(n, P)
  BY <1>1 DEF Igp!IgpPostTransform, Igp!Order
<1>2. CASE ~Igp!UnnumberedError(n, P)
  <2>1. Chosen(n, P)
    BY <1>2 DEF Igp!IgpPostTransform, Igp!Order, Chosen, Outside, Global, Alive, InVrfs, Used
  <2>2. ~failed' => ~failed
    BY <1>2 DEF Igp!IgpPostTransform, Igp!Order
  <2>3. QED
    BY <2>1, <2>2
<1>3. QED
  BY <1>1, <1>2

LEMMA ChosenFrom ==
  ASSUME NEW n, NEW P
  PROVE  /\ Global(n, P) \cup InVrfs(n, P) \subseteq Own(n)
         /\ \A p \in Global(n, P) \cup InVrfs(n, P) : ~Igp!External(p, P)
<1>1. Igp!Addressed(n, P) \subseteq Own(n) /\ \A p \in Igp!Addressed(n, P) : ~Igp!External(p, P)
  BY DEF Igp!Addressed, Igp!Own, Own, Igp!Interfaces, Interfaces, Igp!Intf, Intf
<1>2. Global(n, P) \cup InVrfs(n, P) \subseteq Igp!Addressed(n, P)
  BY DEF Global, Outside, InVrfs, Alive, Igp!Fitting, Igp!InVrf
<1>3. QED
  BY <1>1, <1>2

LEMMA ChosenGrows ==
  ASSUME NEW n, NEW P, Chosen(n, P)
  PROVE  /\ runs \subseteq runs' /\ \A x \in runs' : x \in runs \/ \E p \in Global(n, P) : x = <<p, P>>
         /\ members \subseteq members' /\ \A x \in members' : x \in members \/ \E p \in InVrfs(n, P) : x = <<p, P>>
         /\ \A x \in passive' : x \in passive \/ \E p \in Global(n, P) \cup InVrfs(n, P) : x = <<p, P>> /\ Igp!Passive(p, P)
         /\ modules' = [modules EXCEPT ![n] = IF Used(n, P) THEN @ ELSE @ \ {P}]
<1>1. runs \subseteq runs' /\ \A x \in runs' : x \in runs \/ \E p \in Global(n, P) : x = <<p, P>>
  BY DEF Chosen
<1>2. members \subseteq members' /\ \A x \in members' : x \in members \/ \E p \in InVrfs(n, P) : x = <<p, P>>
  BY DEF Chosen
<1>3. \A x \in passive' : x \in passive \/ \E p \in Global(n, P) \cup InVrfs(n, P) : x = <<p, P>> /\ Igp!Passive(p, P)
  BY DEF Chosen
<1>4. modules' = [modules EXCEPT ![n] = IF Used(n, P) THEN @ ELSE @ \ {P}]
  BY DEF Chosen
<1>5. QED
  BY <1>1, <1>2, <1>3, <1>4

\* The hook chooses an interface that has a neighbor to meet.
LEMMA ChosenMeets ==
  ASSUME NEW n, NEW P, NEW q \in Own(n), Wants(q, P), NEW p \in Igp!Neighbors(q), Meeting(q, p, P)
  PROVE  /\ q \in Global(n, P) \cup InVrfs(n, P)
         /\ Igp!Passive(q, P) => <<q, P>> \in DOMAIN lab.passive \/ role[q[1]] = "passive"
<1>1. Igp!At(q).node = n
  BY DEF Own, Igp!At, Igp!Intf, Intf
<1>2. q \in Igp!Own(n)
  BY DEF Own, Igp!Own, Interfaces, Igp!Interfaces, Igp!Intf, Intf
<1>3. PICK af \in Igp!Static(q) : af \in Igp!Af(n, Igp!At(q).vrf, P, {q}) /\ af \in Igp!Static(p) /\ af \in Igp!Families(q)
  BY <1>1 DEF Meeting, Igp!Spoken, Igp!Families
<1>4. q \in Igp!Addressed(n, P)
  <2>1. ~Igp!External(q, P)
    BY DEF Wants, Igp!Asked, Igp!External
  <2>2. Igp!Static(q) # {} /\ Igp!Families(q) # {}
    BY <1>3
  <2>3. QED
    BY <1>2, <2>1, <2>2 DEF Igp!Addressed
<1>5. ASSUME Igp!At(q).vrf = "" PROVE q \in Global(n, P) \cup InVrfs(n, P)
  <2>1. q \in Outside(n, P)
    BY <1>4, <1>5 DEF Outside
  <2>2. Igp!Af(n, "", P, {q}) \subseteq Igp!Af(n, "", P, Outside(n, P))
    BY <2>1, AfGrows
  <2>3. Igp!Families(q) \cap Igp!Af(n, "", P, Outside(n, P)) # {}
    BY <1>3, <1>5, <2>2
  <2>4. q \in Igp!Fitting(n, "", P, Outside(n, P))
    BY <2>1, <2>3 DEF Igp!Fitting
  <2>5. QED
    BY <2>4 DEF Global
<1>6. ASSUME Igp!At(q).vrf # "" PROVE q \in Global(n, P) \cup InVrfs(n, P)
  <2> DEFINE v == Igp!At(q).vrf
  <2>1. P \in Igp!VrfAware /\ ~Igp!VrfSays(n, v, P, "off")
    BY <1>1, <1>6 DEF Wants, Igp!Asked
  <2>2. q \in Igp!InVrf(n, v, P)
    BY <1>4, <2>1 DEF Igp!InVrf
  <2>3. Igp!HasNeighbor(q, P)
    BY <1>3 DEF Igp!HasNeighbor, Meeting
  <2>4. v \in Igp!Vrfs(n)
    BY <1>2, <1>6 DEF Igp!Vrfs
  <2>5. v \in Alive(n, P)
    BY <2>1, <2>2, <2>3, <2>4 DEF Alive, Igp!Active
  <2>6. Igp!Af(n, v, P, {q}) \subseteq Igp!Af(n, v, P, Igp!InVrf(n, v, P))
    BY <2>2, AfGrows
  <2>7. Igp!Families(q) \cap Igp!Af(n, v, P, Igp!InVrf(n, v, P)) # {}
    BY <1>3, <2>6
  <2>8. q \in Igp!Fitting(n, v, P, Igp!InVrf(n, v, P))
    BY <2>2, <2>7 DEF Igp!Fitting
  <2>9. q \in InVrfs(n, P)
    BY <2>5, <2>8 DEF InVrfs
  <2>10. QED
    BY <2>9
<1>7. Igp!Passive(q, P) => <<q, P>> \in DOMAIN lab.passive \/ role[q[1]] = "passive"
  BY DEF Igp!Passive, Igp!TrueStub, Meeting
<1>8. QED
  BY <1>5, <1>6, <1>7

\* One hook: the interfaces of one node decide on one protocol.
LEMMA HookStep ==
  ASSUME IgpInv, IgpStep, Igp!IgpPostTransform, NEW n, n = lab.order[at], NEW P, P = lab.igps[n][step]
  PROVE  IgpInv'
<1>1. /\ at <= Len(lab.order) /\ step \in DOMAIN lab.igps[n]
      /\ UNCHANGED <<lab, role, at, stage>> /\ step' = step + 1 /\ stage = "ibgp"
      /\ (failed' = TRUE /\ UNCHANGED <<modules, runs, members, passive>>) \/ Chosen(n, P)
      /\ ~failed' => ~failed /\ Chosen(n, P)
  <2>1. at <= Len(lab.order) /\ step \in DOMAIN lab.igps[n] /\ UNCHANGED <<lab, role, at, stage>> /\ step' = step + 1 /\ stage = "ibgp"
    BY DEF IgpStep, IgpTurn, Igp!IgpPostTransform, Igp!Order, Igp!Advance
  <2>2. QED
    BY <2>1, HookEffect
<1>2. n \in ToSet(lab.order) /\ P \in Asks(n) /\ P \in Igps /\ ~Past(n, P) /\ P \in modules[n] /\ step \in Nat \ {0}
  BY <1>1, NextHook
<1>3. \A m, Q : Past(m, Q)' <=> Past(m, Q) \/ (m = n /\ Q = P)
  <2> SUFFICES ASSUME NEW m, NEW Q
               PROVE  Past(m, Q)' <=> Past(m, Q) \/ (m = n /\ Q = P)
    OBVIOUS
  <2>1. at \in Nat /\ lab.order \in Seq(DOMAIN lab.as) /\ IsInjective(lab.order) /\ at \in DOMAIN lab.order
    BY <1>1, OrderFacts
  <2>2. lab.igps[n] \in Seq(Igps) /\ IsInjective(lab.igps[n]) /\ step \in DOMAIN lab.igps[n]
    BY <1>1, <1>2 DEF IgpInv, WellFormed
  <2>3. Past(m, Q) => Past(m, Q)'
    <3>1. SUFFICES ASSUME Past(m, Q) PROVE Past(m, Q)'
      OBVIOUS
    <3>2. PICK x \in DOMAIN lab.order : /\ lab.order[x] = m
                                        /\ x < at \/ (x = at /\ \E y \in DOMAIN lab.igps[m] : y < step /\ lab.igps[m][y] = Q)
      BY <3>1 DEF Past
    <3>3. CASE x < at
      BY <1>1, <3>2, <3>3 DEF Past
    <3>4. CASE x = at /\ \E y \in DOMAIN lab.igps[m] : y < step /\ lab.igps[m][y] = Q
      <4>1. m = n
        BY <3>2, <3>4
      <4>2. PICK y \in DOMAIN lab.igps[n] : y < step /\ lab.igps[n][y] = Q
        BY <3>4, <4>1
      <4>3. y < step'
        BY <1>1, <1>2, <2>2, <4>2
      <4>4. QED
        BY <1>1, <3>2, <3>4, <4>1, <4>2, <4>3 DEF Past
    <3>5. QED
      BY <3>2, <3>3, <3>4
  <2>4. Past(n, P)'
    <3>1. lab'.order[at'] = n /\ at' \in DOMAIN lab'.order
      BY <1>1, <2>1
    <3>2. step \in DOMAIN lab'.igps[n] /\ step < step' /\ lab'.igps[n][step] = P
      BY <1>1, <1>2, <2>2
    <3>3. QED
      BY <1>1, <3>1, <3>2 DEF Past
  <2>5. ASSUME Past(m, Q)', ~Past(m, Q) PROVE m = n /\ Q = P
    <3>1. PICK x \in DOMAIN lab.order : /\ lab.order[x] = m
                                        /\ x < at \/ (x = at /\ \E y \in DOMAIN lab.igps[m] : y < step + 1 /\ lab.igps[m][y] = Q)
      BY <1>1, <2>5 DEF Past
    <3>2. x = at /\ \E y \in DOMAIN lab.igps[m] : y < step + 1 /\ lab.igps[m][y] = Q
      BY <2>5, <3>1 DEF Past
    <3>3. m = n
      BY <3>1, <3>2
    <3>4. PICK y \in DOMAIN lab.igps[n] : y < step + 1 /\ lab.igps[n][y] = Q
      BY <3>2, <3>3
    <3>5. y = step
      <4>1. ~(y < step)
        BY <2>5, <3>1, <3>2, <3>3, <3>4 DEF Past
      <4>2. QED
        BY <1>2, <2>2, <3>4, <4>1
    <3>6. QED
      BY <3>3, <3>4, <3>5
  <2>6. QED
    BY <2>3, <2>4, <2>5
<1>4. /\ Global(n, P) \cup InVrfs(n, P) \subseteq Own(n)
      /\ \A p \in Global(n, P) \cup InVrfs(n, P) : ~Igp!External(p, P)
  BY ChosenFrom
<1>5. Turns'
  BY <1>1, <1>2 DEF IgpInv, Turns, Early
<1>6. modules' \in [ToSet(lab.order) -> SUBSET Igps] /\ (\A m \in ToSet(lab.order) : modules'[m] \subseteq modules[m])
      /\ (\A m \in ToSet(lab.order) : \A Q : Q \in modules[m] /\ ~(m = n /\ Q = P) => Q \in modules'[m])
      /\ (Chosen(n, P) /\ Used(n, P) => P \in modules'[n])
  <2>1. modules \in [ToSet(lab.order) -> SUBSET Igps]
    BY DEF IgpInv, Kept
  <2>2. CASE modules' = modules /\ ~Chosen(n, P)
    BY <2>1, <2>2
  <2>3. CASE modules' = [modules EXCEPT ![n] = IF Used(n, P) THEN @ ELSE @ \ {P}]
    <3>1. modules'[n] = (IF Used(n, P) THEN modules[n] ELSE modules[n] \ {P}) /\ DOMAIN modules' = ToSet(lab.order)
          /\ \A m \in ToSet(lab.order) \ {n} : modules'[m] = modules[m]
      BY <1>2, <2>1, <2>3
    <3>2. modules' \in [ToSet(lab.order) -> SUBSET Igps]
      BY <1>2, <2>1, <2>3
    <3>3. QED
      BY <1>2, <2>1, <3>1, <3>2
  <2>4. QED
    BY <1>1, ChosenGrows, <2>2, <2>3
<1>7. Kept'
  <2>1. \A m : Asks(m)' = Asks(m)
    BY <1>1 DEF Asks
  <2>2. \A m \in ToSet(lab.order) : \A Q \in Asks(m) : ~Past(m, Q)' => Q \in modules'[m]
    BY <1>3, <1>6 DEF IgpInv, Kept
  <2>3. QED
    BY <1>1, <1>6, <2>1, <2>2 DEF Kept
<1>8. Inside'
  <2>1. \A x \in (runs' \cup members') \ (runs \cup members) : Chosen(n, P) /\ \E p \in Global(n, P) \cup InVrfs(n, P) : x = <<p, P>>
    BY <1>1, ChosenGrows
  <2>2. \A x \in (runs' \cup members') \ (runs \cup members) : role[x[1][1]] # "external"
    BY <1>4, <2>1 DEF Igp!External
  <2>3. QED
    BY <1>1, <2>2 DEF IgpInv, Inside
<1>9. \A x \in passive' : x \in passive \/ (Chosen(n, P) /\ \E p \in Global(n, P) \cup InVrfs(n, P) : x = <<p, P>> /\ Igp!Passive(p, P))
  BY <1>1, ChosenGrows
<1>10. Ran'
  <2>1. ASSUME NEW x \in passive' PROVE Past(Igp!At(x[1]).node, x[2])'
    <3>1. \A p : Igp!At(p)' = Igp!At(p)
      BY <1>1 DEF Igp!At, Igp!Intf
    <3>2. CASE x \in passive
      <4>1. Past(Igp!At(x[1]).node, x[2])
        BY <3>2 DEF IgpInv, Ran
      <4>2. \A m : m = Igp!At(x[1]).node => Past(m, x[2])'
        BY <1>3, <4>1
      <4>3. QED
        BY <3>1, <4>2
    <3>3. CASE Chosen(n, P) /\ \E p \in Global(n, P) \cup InVrfs(n, P) : x = <<p, P>>
      <4>1. Igp!At(x[1]).node = n /\ x[2] = P
        BY <1>4, <3>3 DEF Own, Igp!At, Igp!Intf, Intf
      <4>2. QED
        BY <1>3, <3>1, <4>1
    <3>4. QED
      BY <1>9, <2>1, <3>2, <3>3
  <2>2. QED
    BY <2>1 DEF Ran
<1>11. Decided'
  <2>1. SUFFICES ASSUME ~failed', NEW q \in Interfaces, NEW Q \in Asks(Igp!At(q).node), Past(Igp!At(q).node, Q)'
                 PROVE  Meets(q, Q)'
    <3>1. Interfaces' = Interfaces /\ \A q : Igp!At(q)' = Igp!At(q)
      BY <1>1 DEF Interfaces, Igp!At, Igp!Intf
    <3>2. \A m : Asks(m)' = Asks(m)
      BY <1>1 DEF Asks
    <3>3. QED
      BY <3>1, <3>2 DEF Decided
  <2>2. Chosen(n, P) /\ ~failed
    BY <1>1, <2>1
  <2>3. Grows
    BY <1>1, <1>6, <2>2, ChosenGrows DEF Grows
  <2>4. WellFormed(lab)
    BY DEF IgpInv
  <2>5. Igp!At(q).node \in ToSet(lab.order)
    BY <2>4, InterfaceFacts DEF Igp!At, Igp!Intf, Intf
  <2>6. \A p \in Global(n, P) \cup InVrfs(n, P) : Igp!At(p).node = n
    BY <1>4 DEF Own, Igp!At, Igp!Intf, Intf
  <2>7. CASE Past(Igp!At(q).node, Q)
    <3>1. ~(Igp!At(q).node = n /\ Q = P)
      BY <1>2, <2>7
    <3>2. Meets(q, Q)
      BY <2>2, <2>7 DEF IgpInv, Decided
    <3>3. Q \in modules[Igp!At(q).node] => Q \in modules'[Igp!At(q).node]
      BY <1>6, <2>5, <3>1
    <3>4. <<q, Q>> \in passive' => <<q, Q>> \in passive
      BY <1>9, <2>6, <3>1
    <3>5. QED
      BY <2>3, <2>4, <3>2, <3>3, <3>4, MeetsStays
  <2>8. CASE Igp!At(q).node = n /\ Q = P
    <3>1. SUFFICES ASSUME Wants(q, P)', NEW p \in Igp!Neighbors(q)', Meeting(q, p, P)'
                   PROVE  /\ <<q, P>> \in runs' \cup members' /\ P \in modules'[Igp!At(q)'.node]
                          /\ <<q, P>> \in passive' => <<q, P>> \in DOMAIN lab'.passive \/ role'[q[1]] = "passive"
      BY <2>8 DEF Meets
    <3>2. Wants(q, P) /\ Meeting(q, p, P) /\ p \in Igp!Neighbors(q) /\ Igp!At(q)' = Igp!At(q)
      BY <2>3, <2>4, <3>1, WantsStays
    <3>3. q \in Own(n)
      BY <2>8 DEF Own, Igp!At, Igp!Intf, Intf
    <3>4. /\ q \in Global(n, P) \cup InVrfs(n, P)
          /\ Igp!Passive(q, P) => <<q, P>> \in DOMAIN lab.passive \/ role[q[1]] = "passive"
      BY <3>2, <3>3, ChosenMeets
    <3>5. <<q, P>> \in runs' \cup members'
      BY <2>2, <3>4 DEF Chosen
    <3>6. Used(n, P)
      BY <3>4 DEF Used, Igp!Used
    <3>7. P \in modules'[Igp!At(q)'.node]
      BY <1>6, <2>2, <2>8, <3>2, <3>6
    <3>8. <<q, P>> \notin passive
      BY <1>2, <2>8 DEF IgpInv, Ran
    <3>9. <<q, P>> \in passive' => <<q, P>> \in DOMAIN lab'.passive \/ role'[q[1]] = "passive"
      BY <1>1, <1>9, <3>4, <3>8
    <3>10. QED
      BY <3>5, <3>7, <3>9
  <2>9. \A m : m = Igp!At(q).node => Past(m, Q)'
    BY <1>1, <2>1 DEF Igp!At, Igp!Intf
  <2>10. QED
    BY <1>3, <2>7, <2>8, <2>9
<1>12. WellFormed(lab)'
  BY <1>1 DEF IgpInv
<1>13. QED
  BY <1>5, <1>7, <1>8, <1>10, <1>11, <1>12 DEF IgpInv

\* Nothing was decided by a step that only moves on.
LEMMA SameDecisions ==
  ASSUME IgpInv, UNCHANGED <<lab, role, modules, runs, members, passive>>, ~failed' => ~failed, Turns',
         \A n \in ToSet(lab.order) : \A P : (Past(n, P) => Past(n, P)') /\ (P \in Asks(n) /\ Past(n, P)' => Past(n, P))
  PROVE  IgpInv'
<1>1. WellFormed(lab) /\ WellFormed(lab)'
  BY DEF IgpInv
<1>2. (\A m : Asks(m)' = Asks(m)) /\ Interfaces' = Interfaces /\ \A q : Igp!At(q)' = Igp!At(q)
  BY DEF Asks, Interfaces, Igp!At, Igp!Intf
<1>3. \A q \in Interfaces : Igp!At(q).node \in ToSet(lab.order)
  BY <1>1, InterfaceFacts DEF Igp!At, Igp!Intf, Intf
<1>4. Kept'
  BY <1>2 DEF IgpInv, Kept
<1>5. Inside'
  BY DEF IgpInv, Inside
<1>6. Ran'
  <2>1. ASSUME NEW x \in passive PROVE \A m : m = Igp!At(x[1]).node => Past(m, x[2])'
    <3>1. Past(Igp!At(x[1]).node, x[2])
      BY DEF IgpInv, Ran
    <3>2. \A m : Past(m, x[2]) => m \in ToSet(lab.order)
      <4>1. lab.order \in Seq(DOMAIN lab.as)
        BY <1>1 DEF WellFormed
      <4>2. QED
        BY <4>1 DEF Past, ToSet
    <3>3. QED
      BY <3>1, <3>2
  <2>2. QED
    BY <1>2, <2>1 DEF Ran
<1>7. Decided'
  <2>1. SUFFICES ASSUME ~failed', NEW q \in Interfaces, NEW P \in Asks(Igp!At(q).node), NEW m, m = Igp!At(q).node, Past(m, P)'
                 PROVE  Meets(q, P)'
    BY <1>2 DEF Decided
  <2>2. Past(m, P) /\ ~failed
    BY <1>3, <2>1
  <2>3. Meets(q, P)
    BY <2>1, <2>2 DEF IgpInv, Decided
  <2>4. Grows
    BY DEF Grows
  <2>5. P \in modules[Igp!At(q).node] => P \in modules'[Igp!At(q).node]
    OBVIOUS
  <2>6. QED
    BY <1>1, <2>3, <2>4, <2>5, MeetsStays
<1>8. QED
  BY <1>1, <1>4, <1>5, <1>6, <1>7 DEF IgpInv

LEMMA ImportsStep ==
  ASSUME IgpInv, IgpStep, Igp!BgpImports
  PROVE  IgpInv'
<1>1. /\ UNCHANGED <<lab, role, modules, runs, members, passive, at, stage>> /\ step = 0 /\ step' = 1 /\ stage = "ibgp"
      /\ ~failed' => ~failed
  <2>1. UNCHANGED <<lab, role, modules, runs, members, passive, at, stage>> /\ step = 0 /\ step' = step + 1 /\ stage = "ibgp"
    BY DEF IgpStep, IgpTurn, Igp!BgpImports, Igp!Advance
  <2>2. ~failed' => ~failed
    BY Zenon DEF IgpStep, Igp!BgpImports
  <2>3. QED
    BY <2>1, <2>2
<1>2. Turns'
  BY <1>1 DEF IgpInv, Turns, Early
<1>3. \A n \in ToSet(lab.order) : lab.igps[n] \in Seq(Igps)
  BY DEF IgpInv, WellFormed
<1>4. \A n \in ToSet(lab.order) : \A P : Past(n, P)' <=> Past(n, P)
  BY <1>1, <1>3 DEF Past
<1>5. QED
  BY <1>1, <1>2, <1>4, SameDecisions

LEMMA NextNodeStep ==
  ASSUME IgpInv, IgpStep, Igp!NextNode
  PROVE  IgpInv'
<1>1. /\ UNCHANGED <<lab, role, modules, runs, members, passive, stage, failed>> /\ stage = "ibgp"
      /\ at <= Len(lab.order) /\ at' = at + 1 /\ step > Len(lab.igps[lab.order[at]]) /\ step' \in {0, 1}
  BY DEF IgpStep, IgpTurn, Igp!NextNode, Igp!First, Igp!Order
<1>2. Turns'
  BY <1>1 DEF IgpInv, Turns, Early
<1>3. at \in Nat /\ lab.order \in Seq(DOMAIN lab.as) /\ IsInjective(lab.order) /\ at \in DOMAIN lab.order
  BY <1>1, OrderFacts
<1>4. \A n \in ToSet(lab.order) : lab.igps[n] \in Seq(Igps)
  BY DEF IgpInv, WellFormed
<1>5. step \in Nat
  BY DEF IgpInv, Turns
<1>6. ASSUME NEW n \in ToSet(lab.order), NEW P
      PROVE  (Past(n, P) => Past(n, P)') /\ (P \in Asks(n) /\ Past(n, P)' => Past(n, P))
  <2>1. Past(n, P) => Past(n, P)'
    BY <1>1, <1>3 DEF Past
  <2>2. ASSUME P \in Asks(n), Past(n, P)' PROVE Past(n, P)
    <3>1. PICK x \in DOMAIN lab.order : /\ lab.order[x] = n
                                        /\ x < at + 1 \/ (x = at + 1 /\ \E y \in DOMAIN lab.igps[n] : y < step' /\ lab.igps[n][y] = P)
      BY <1>1, <2>2 DEF Past
    <3>2. x \in Nat
      BY <1>3
    <3>3. ~\E y \in DOMAIN lab.igps[n] : y < step'
      BY <1>1, <1>4
    <3>4. x < at \/ x = at
      BY <1>3, <3>1, <3>2, <3>3
    <3>5. CASE x = at
      <4>1. n = lab.order[at]
        BY <3>1, <3>5
      <4>2. PICK y \in DOMAIN lab.igps[n] : P = lab.igps[n][y]
        BY <2>2 DEF Asks
      <4>3. y < step
        BY <1>1, <1>4, <1>5, <4>1, <4>2
      <4>4. QED
        BY <3>1, <3>5, <4>2, <4>3 DEF Past
    <3>6. CASE x < at
      BY <3>1, <3>6 DEF Past
    <3>7. QED
      BY <3>4, <3>5, <3>6
  <2>3. QED
    BY <2>1, <2>2
<1>7. QED
  BY <1>1, <1>2, <1>6, SameDecisions

\* Links get their roles before any hook of an interior protocol.
LEMMA BgpSide ==
  ASSUME IgpInv, BgpStep
  PROVE  IgpInv'
<1>1. lab' = lab /\ UNCHANGED igpVars
  BY LabStays DEF BgpStep, RoutingNext
<1>2. \A n, P : Past(n, P)' <=> Past(n, P)
  BY <1>1 DEF Past, igpVars
<1>3. CASE stage \in Early
  <2>1. at = 1 /\ step \in {0, 1} /\ runs = {} /\ members = {}
    BY <1>3 DEF IgpInv, Turns
  <2>2. Turns'
    BY <1>1, <2>1 DEF Turns, igpVars
  <2>3. \A m \in ToSet(lab.order) : \A P : ~Past(m, P)
    <3>1. \A m \in ToSet(lab.order) : lab.igps[m] \in Seq(Igps)
      BY DEF IgpInv, WellFormed
    <3>2. lab.order \in Seq(DOMAIN lab.as)
      BY DEF IgpInv, WellFormed
    <3>3. QED
      BY <2>1, <3>1, <3>2 DEF Past
  <2>4. WellFormed(lab)'
    BY <1>1 DEF IgpInv
  <2>5. \A q \in Interfaces : Igp!At(q).node \in ToSet(lab.order)
    BY InterfaceFacts DEF IgpInv, Igp!At, Igp!Intf, Intf
  <2>6. (\A m : Asks(m)' = Asks(m)) /\ Interfaces' = Interfaces /\ \A q : Igp!At(q)' = Igp!At(q)
    BY <1>1 DEF Asks, Interfaces, Igp!At, Igp!Intf
  <2>7. Kept'
    BY <1>1, <1>2, <2>6 DEF IgpInv, Kept, igpVars
  <2>8. Inside'
    BY <1>1, <2>1 DEF Inside, igpVars
  <2>9. Ran'
    <3>1. ASSUME NEW x \in passive PROVE \A m : m = Igp!At(x[1]).node => Past(m, x[2])'
      BY <1>2 DEF IgpInv, Ran
    <3>2. QED
      BY <1>1, <2>6, <3>1 DEF Ran, igpVars
  <2>10. Decided'
    <3>1. ASSUME NEW q \in Interfaces, NEW P, NEW m, m = Igp!At(q).node, Past(m, P)' PROVE FALSE
      BY <1>2, <2>3, <2>5, <3>1
    <3>2. QED
      BY <2>6, <3>1 DEF Decided
  <2>11. QED
    BY <2>2, <2>4, <2>7, <2>8, <2>9, <2>10 DEF IgpInv
<1>4. CASE stage \notin Early
  <2>1. role' = role /\ (~failed' => ~failed) /\ stage' \notin Early
    <3>1. BuildIbgpSessions \/ BuildEbgpSession \/ LocalasIbgpNhsFixup \/ PostTransform
      BY <1>4 DEF BgpStep, Next, ProcessAsList, NodePreTransform, EbgpRoleLink, ModulePostTransform, Early
    <3>2. role' = role /\ stage' \notin Early
      BY <1>4, <3>1 DEF BuildIbgpSessions, BuildEbgpSession, LocalasIbgpNhsFixup, PostTransform, Early
    <3>3. ~failed' => ~failed
      BY <3>1, Zenon DEF BuildIbgpSessions, BuildEbgpSession, LocalasIbgpNhsFixup, PostTransform
    <3>4. QED
      BY <3>2, <3>3
  <2>2. Turns'
    BY <1>1, <2>1 DEF IgpInv, Turns, igpVars
  <2>3. QED
    BY <1>1, <1>2, <2>1, <2>2, SameDecisions DEF igpVars
<1>5. QED
  BY <1>3, <1>4

\* What the interior protocols have decided stays decided.
THEOREM IgpInvariance == RoutingSpec => []IgpInv
<1>1. IgpInv /\ [RoutingNext]_routingVars => IgpInv'
  <2> SUFFICES ASSUME IgpInv, [RoutingNext]_routingVars
               PROVE  IgpInv'
    OBVIOUS
  <2>1. CASE BgpStep
    BY <2>1, BgpSide
  <2>2. CASE IgpStep
    <3>1. CASE Igp!BgpImports
      BY <2>2, <3>1, ImportsStep
    <3>2. CASE Igp!IgpPostTransform
      BY <2>2, <3>2, HookStep
    <3>3. CASE Igp!NextNode
      BY <2>2, <3>3, NextNodeStep
    <3>4. QED
      BY <2>2, <3>1, <3>2, <3>3 DEF IgpStep, Igp!Next
  <2>3. CASE UNCHANGED routingVars
    <3>1. UNCHANGED <<lab, role, modules, runs, members, passive, failed, stage, at, step>>
      BY <2>3 DEF routingVars, vars, igpVars
    <3>2. Turns'
      BY <3>1 DEF IgpInv, Turns
    <3>3. \A n, P : Past(n, P)' <=> Past(n, P)
      BY <3>1 DEF Past
    <3>4. QED
      BY <3>1, <3>2, <3>3, SameDecisions
  <2>4. QED
    BY <2>1, <2>2, <2>3 DEF RoutingNext
<1>2. QED
  BY IgpInit, <1>1, PTL DEF RoutingSpec

\* When one end of a link runs an interior protocol, every other end that was
\* asked to and shares a family runs it, too, and is not passive by itself,
\* although each end was decided by another node's hook, with the modules the
\* neighbors still had by then (igp_post_transform, _routing.py).
THEOREM AdjacenciesAreMet == RoutingSpec => []AdjacenciesMeet
<1>1. IgpInv => AdjacenciesMeet
  <2> SUFFICES ASSUME IgpInv, Igp!Done, NEW p \in Igp!Interfaces, NEW q \in Igp!Neighbors(p), NEW P \in Igp!Igps,
                      Igp!Runs(p, P), Igp!Asked(q, P), Igp!Spoken(p, P) \cap Igp!Spoken(q, P) # {}
               PROVE  Igp!Runs(q, P) /\ (<<q, P>> \in passive => <<q, P>> \in DOMAIN lab.passive \/ role[q[1]] = "passive")
    BY DEF AdjacenciesMeet, Igp!AdjacenciesMeet
  <2>1. p \in Interfaces
    BY DEF Igp!Interfaces, Igp!Intf, Interfaces, Intf
  <2>2. p = <<p[1], p[2]>> /\ p[1] \in DOMAIN lab.links /\ p[2] \in DOMAIN lab.links[p[1]].intfs
    BY <2>1, InterfaceFacts DEF IgpInv
  <2>3. PICK j \in DOMAIN lab.links[p[1]].intfs : q = <<p[1], j>>
    BY DEF Igp!Neighbors
  <2>4. q[1] = p[1] /\ q # p /\ q \in Interfaces
    BY <2>2, <2>3 DEF Igp!Neighbors, Interfaces
  <2>5. p \in Igp!Neighbors(q)
    BY <2>2, <2>4 DEF Igp!Neighbors
  <2>6. role[q[1]] # "external"
    BY <2>4 DEF IgpInv, Inside, Igp!Runs
  <2>7. P \in Asks(Igp!At(q).node)
    BY DEF Igp!Asked, Asks, ToSet, Igp!ToSet
  <2>8. Past(Igp!At(q).node, P)
    <3>1. Igp!At(q).node \in ToSet(lab.order)
      BY <2>4, InterfaceFacts DEF IgpInv, Igp!At, Igp!Intf, Intf
    <3>2. lab.order \in Seq(DOMAIN lab.as) /\ at \in Nat /\ at > Len(lab.order)
      BY DEF IgpInv, WellFormed, Turns, Igp!Done, Igp!Order
    <3>3. QED
      BY <3>1, <3>2 DEF Past, ToSet
  <2>9. Meets(q, P)
    BY <2>4, <2>7, <2>8 DEF IgpInv, Decided, Igp!Done
  <2>10. Wants(q, P) /\ Meeting(q, p, P)
    BY <2>6 DEF Wants, Meeting, Igp!Runs
  <2>11. QED
    BY <2>5, <2>9, <2>10 DEF Meets, Igp!Runs
<1>2. QED
  BY IgpInvariance, <1>1, PTL

-----------------------------------------------------------------------------
(* BGP                                                                      *)

Settled == stage \in {"ibgp", "ebgp", "done"}

\* A node has its IBGP sessions, and has looked at a neighbor.
Started(n) == (\E x \in 1..k - 1 : lab.nodes[x] = n) \/ (stage = "ebgp" /\ n = lab.nodes[k])
Looked(n, p) == Started(n) /\ p \in Neighbors(n) /\ ~(stage = "ebgp" /\ n = lab.nodes[k] /\ p \in todo)

\* What a session is without the families an unnumbered interface got later:
\* the end of an IBGP session, and the session of a neighbor on an interface.
Listed(n) ==
  IF lab.loopback[n] # {} THEN [af \in AF |-> IF af \in lab.loopback[n] THEN "number" ELSE "none"]
  ELSE IF n \in lab.daemon /\ Own(n) # {} THEN Intf(CpInterface(n)[1], CpInterface(n)[2]).addr
  ELSE NoAddress
IbgpWith(n, m, h) ==
  [peer |-> m, type |-> "ibgp", as |-> as[m], to |-> Transport(n, "ibgp", Listed(m)), client |-> IsClient(n, m),
   nhs |-> h, localAs |-> NoAs, localIf |-> FALSE, rfc8950 |-> FALSE, vrf |-> "", link |-> 0, own |-> 0, remote |-> 0]

RawLla(l, i, j) ==
  \/ Intf(l, i).addr["ipv6"] = "true" /\ Intf(l, j).addr["ipv6"] = "true"
  \/ Unnumbered(l, i, j) /\ ~(Intf(l, i).addr["ipv6"] = "number" /\ Intf(l, j).addr["ipv6"] = "number")
LocalIfs(l, i, j) ==
  {b \in BOOLEAN : /\ RawLla(l, i, j) => b
                   /\ b => RawLla(l, i, j) \/ (Intf(l, i).addr["ipv6"] = "none" /\ Intf(l, j).addr["ipv6"] = "true")}
RawMixed(l, i, j) == \E af \in AF : Intf(l, i).addr[af] = "true" /\ Intf(l, j).addr[af] # "true"
EbgpTo(l, i, j) == Transport(Intf(l, i).node, Type(l, i, j), Intf(l, j).addr)
EbgpWith(l, i, j, b) ==
  [peer |-> Intf(l, j).node, type |-> Type(l, i, j), as |-> RemoteAs(l, i, j),
   to |-> EbgpTo(l, i, j), client |-> Type(l, i, j) = "localas_ibgp",
   nhs |-> IF Type(l, i, j) = "ebgp" THEN "" ELSE "all", localAs |-> LocalAs(l, i),
   localIf |-> b, rfc8950 |-> Unnumbered(l, i, j), vrf |-> Intf(l, i).vrf, link |-> l, own |-> i, remote |-> j]

\* A daemon without a loopback has numbered interfaces: one of them is the
\* end of its IBGP sessions.
DaemonsAreNumbered ==
  \A n \in lab.daemon : lab.loopback[n] = {} => \A p \in Own(n), af \in AF : Intf(p[1], p[2]).addr[af] # "true"

Stages == Early \cup {"ibgp", "ebgp", "done", "aborted"}
Data ==
  /\ stage \in Stages /\ k \in Nat \ {0} /\ DOMAIN role = DOMAIN lab.links
  /\ as \in [DOMAIN lab.as -> Nat] /\ rr \in [DOMAIN lab.as -> {"", "yes", "no"}]
  /\ \A n \in DOMAIN lab.as \ Nodes : as[n] = NoAs
  /\ stage \notin {"as_list", "nodes", "aborted"} => \A n \in Nodes : as[n] # NoAs
Fresh == stage \in Early => k = 1 /\ lla = {} /\ sessions = [n \in Nodes |-> {}]
Roles == stage \in {"post"} \cup {"ibgp", "ebgp", "done"} => \A l \in DOMAIN lab.links : role[l] = "" => \A a, b \in LinkAs(l) : a = b
Confeds ==
  Settled => /\ ~failed => ~ConfedErrors
             /\ \A n \in DOMAIN as : confedAs[n] = IF ConfedOf(as[n]) = {} \/ "confederation" \notin lab.features[n] THEN NoAs
                                                   ELSE CHOOSE c \in ConfedOf(as[n]) : TRUE
Place ==
  /\ stage = "ebgp" => k \in DOMAIN lab.nodes /\ todo \subseteq Neighbors(lab.nodes[k])
  /\ stage = "done" => k > Len(lab.nodes) /\ ~failed
  /\ DOMAIN sessions = Nodes
\* Only an interface with an unnumbered ipv4 gets an ipv6.
Lent == lla \subseteq {p \in Interfaces : Intf(p[1], p[2]).addr["ipv4"] = "true"}
\* Every session has its reason, and what has a reason has its session.
Typed == Settled => \A n \in Nodes : \A s \in sessions[n] : "type" \in DOMAIN s
EbgpFrom ==
  Settled => \A n \in Nodes : \A s \in sessions[n] :
    s.type # "ibgp" => \E p \in Neighbors(n) : Considered(p[1], p[2], p[3]) /\ \E b \in LocalIfs(p[1], p[2], p[3]) : s = EbgpWith(p[1], p[2], p[3], b)
EbgpAll ==
  Settled /\ ~failed => \A n \in Nodes : \A p \in Neighbors(n) : Looked(n, p) /\ Considered(p[1], p[2], p[3]) =>
    /\ ~RawMixed(p[1], p[2], p[3])
    /\ EbgpTo(p[1], p[2], p[3]) # NoAddress /\ Wanted(p[1], p[2], p[3])
       => \E b \in LocalIfs(p[1], p[2], p[3]) : EbgpWith(p[1], p[2], p[3], b) \in sessions[n]
Allowed == Settled /\ ~failed => \A n \in Nodes : Started(n) => \A p \in Own(n) : ~LocalAsError(p[1], p[2])
IbgpFrom ==
  Settled /\ DaemonsAreNumbered => \A n \in Nodes : \A s \in sessions[n] :
    s.type = "ibgp" => \E m \in IbgpPeers(n), h \in {"ebgp", "all"} : s = IbgpWith(n, m, h)
IbgpAll ==
  Settled /\ DaemonsAreNumbered => \A n \in Nodes : \A m \in IbgpPeers(n) : Started(n) /\ Transport(n, "ibgp", Listed(m)) # NoAddress =>
    \E h \in {"ebgp", "all"} : IbgpWith(n, m, h) \in sessions[n]

BgpInv ==
  /\ WellFormed(lab) /\ Data /\ Fresh /\ Roles /\ Confeds /\ Place /\ Lent
  /\ Typed /\ EbgpFrom /\ EbgpAll /\ Allowed /\ IbgpFrom /\ IbgpAll

LEMMA NodesAreNodes == ASSUME WellFormed(lab) PROVE Nodes \subseteq DOMAIN lab.as /\ lab.nodes \in Seq(DOMAIN lab.as) /\ IsInjective(lab.nodes)
<1>1. lab.order \in Seq(DOMAIN lab.as) /\ lab.nodes \in Seq(ToSet(lab.order)) /\ IsInjective(lab.nodes)
  BY DEF WellFormed
<1>2. ToSet(lab.order) \subseteq DOMAIN lab.as
  BY <1>1 DEF ToSet
<1>3. QED
  BY <1>1, <1>2 DEF Nodes, ToSet

LEMMA BgpInit == RoutingInit => BgpInv
<1> SUFFICES ASSUME RoutingInit
             PROVE  BgpInv
  OBVIOUS
<1>1. WellFormed(lab)
  BY LabsAssumption DEF RoutingInit, Init
<1>2. Data
  <2>1. as = lab.as /\ rr = lab.rr /\ stage = "as_list" /\ k = 1 /\ DOMAIN role = DOMAIN lab.links
    BY DEF RoutingInit, Init
  <2>2. as \in [DOMAIN lab.as -> Nat] /\ rr \in [DOMAIN lab.as -> {"", "yes", "no"}] /\ \A n \in DOMAIN lab.as \ Nodes : as[n] = NoAs
    BY <1>1, <2>1 DEF WellFormed, Nodes, NoAs
  <2>3. stage \in Stages /\ k \in Nat \ {0} /\ stage \in {"as_list", "nodes", "aborted"}
    BY <2>1 DEF Stages, Early
  <2>4. QED
    BY <2>1, <2>2, <2>3 DEF Data
<1>3. stage \notin {"post", "ibgp", "ebgp", "done"}
  BY DEF RoutingInit, Init
<1>4. Fresh /\ Place /\ Lent
  BY DEF RoutingInit, Init, Fresh, Place, Lent
<1>5. QED
  BY <1>1, <1>2, <1>3, <1>4 DEF BgpInv, Roles, Confeds, Typed, EbgpFrom, EbgpAll, Allowed, IbgpFrom, IbgpAll, Settled

LEMMA DataStep ==
  ASSUME BgpInv, RoutingNext
  PROVE  WellFormed(lab)' /\ Data'
<1>1. lab' = lab /\ WellFormed(lab)
  BY LabStays DEF BgpInv
<1>2. Nodes \subseteq DOMAIN lab.as /\ Nodes' = Nodes /\ DOMAIN as = DOMAIN lab.as /\ DOMAIN rr = DOMAIN lab.as /\ k \in Nat \ {0}
  BY <1>1, NodesAreNodes DEF Nodes, BgpInv, Data
<1>3. CASE BgpStep /\ ProcessAsList
  <2>1. \A n \in DOMAIN as : AsOf(n) # {} => (CHOOSE a \in AsOf(n) : TRUE) \in Nat \ {0} /\ n \in Nodes
    BY <1>1 DEF AsOf, WellFormed, Nodes
  <2>2. as' \in [DOMAIN lab.as -> Nat] /\ \A n \in DOMAIN lab.as \ Nodes : as'[n] = NoAs
    BY <1>2, <1>3, <2>1 DEF ProcessAsList, BgpInv, Data
  <2>3. rr' \in [DOMAIN lab.as -> {"", "yes", "no"}]
    BY <1>2, <1>3 DEF ProcessAsList, ListedRr, BgpInv, Data
  <2>4. k' = k /\ role' = role /\ stage' \in {"nodes", "aborted"}
    BY <1>3 DEF ProcessAsList, Check
  <2>5. QED
    BY <1>1, <1>2, <2>2, <2>3, <2>4 DEF BgpInv, Data, Stages, Early
<1>4. CASE BgpStep /\ NodePreTransform
  <2>1. rr' \in [DOMAIN lab.as -> {"", "yes", "no"}]
    BY <1>2, <1>4 DEF NodePreTransform, BgpInv, Data
  <2>2. k' = k /\ role' = role /\ as' = as /\ stage' \in {"roles", "aborted"} /\ (stage' = "roles" => \A n \in Nodes : as[n] # NoAs)
    BY <1>4 DEF NodePreTransform, Check
  <2>3. QED
    BY <1>1, <1>2, <2>1, <2>2 DEF BgpInv, Data, Stages, Early
<1>5. CASE BgpStep /\ EbgpRoleLink
  BY <1>1, <1>2, <1>5 DEF EbgpRoleLink, BgpInv, Data, Stages, Early
<1>6. CASE BgpStep /\ ModulePostTransform
  BY <1>1, <1>2, <1>6 DEF ModulePostTransform, BgpInv, Data, Stages, Early
<1>7. CASE BgpStep /\ BuildIbgpSessions
  BY <1>1, <1>2, <1>7 DEF BuildIbgpSessions, BgpInv, Data, Stages, Early
<1>8. CASE BgpStep /\ BuildEbgpSession
  BY <1>1, <1>2, <1>8 DEF BuildEbgpSession, BgpInv, Data, Stages, Early
<1>9. CASE BgpStep /\ LocalasIbgpNhsFixup
  <2>1. k' = k + 1 /\ stage = "ebgp" /\ stage' = "ibgp" /\ UNCHANGED <<as, rr, role>>
    BY <1>9 DEF LocalasIbgpNhsFixup
  <2>2. stage' \in Stages /\ k' \in Nat \ {0} /\ stage \notin {"as_list", "nodes", "aborted"}
    BY <1>2, <2>1 DEF Stages
  <2>3. QED
    BY <1>1, <1>2, <2>1, <2>2 DEF BgpInv, Data
<1>10. CASE BgpStep /\ PostTransform
  BY <1>1, <1>2, <1>10 DEF PostTransform, BgpInv, Data, Stages, Early
<1>11. CASE IgpStep
  <2>1. role' = role
    BY <1>11 DEF IgpStep, Igp!Next, Igp!BgpImports, Igp!IgpPostTransform, Igp!NextNode
  <2>2. UNCHANGED <<as, rr, k, stage>>
    BY <1>11 DEF IgpStep
  <2>3. QED
    BY <1>1, <1>2, <2>1, <2>2 DEF BgpInv, Data
<1>12. QED
  BY <1>3, <1>4, <1>5, <1>6, <1>7, <1>8, <1>9, <1>10, <1>11 DEF RoutingNext, BgpStep, Next

\* Once links have roles and confederations are known, systems, reflectors
\* and roles stay, and an error is never forgotten.
LEMMA SettledStays ==
  ASSUME BgpInv, RoutingNext, Settled
  PROVE  UNCHANGED <<lab, as, rr, role, confedAs>> /\ (~failed' => ~failed) /\ stage' \notin Early
<1>1. lab' = lab
  BY LabStays
<1>2. CASE BgpStep
  <2>1. BuildIbgpSessions \/ BuildEbgpSession \/ LocalasIbgpNhsFixup \/ PostTransform
    BY <1>2 DEF Settled, BgpStep, Next, ProcessAsList, NodePreTransform, EbgpRoleLink, ModulePostTransform
  <2>2. UNCHANGED <<as, rr, role, confedAs>> /\ stage' \notin Early
    BY <2>1 DEF BuildIbgpSessions, BuildEbgpSession, LocalasIbgpNhsFixup, PostTransform, Settled, Early
  <2>3. ~failed' => ~failed
    BY <2>1, Zenon DEF BuildIbgpSessions, BuildEbgpSession, LocalasIbgpNhsFixup, PostTransform
  <2>4. QED
    BY <1>1, <2>2, <2>3
<1>3. CASE IgpStep
  <2>1. UNCHANGED <<as, rr, role, confedAs>> /\ stage' \notin Early
    BY <1>3 DEF IgpStep, Igp!Next, Igp!BgpImports, Igp!IgpPostTransform, Igp!NextNode, Settled, Early
  <2>2. ~failed' => ~failed
    <3>1. CASE Igp!BgpImports
      BY <3>1, Zenon DEF Igp!BgpImports
    <3>2. CASE Igp!NextNode
      BY <3>2 DEF Igp!NextNode
    <3>3. CASE Igp!IgpPostTransform
      BY <3>3, HookEffect
    <3>4. QED
      BY <1>3, <3>1, <3>2, <3>3 DEF IgpStep, Igp!Next
  <2>3. QED
    BY <1>1, <2>1, <2>2
<1>4. QED
  BY <1>2, <1>3 DEF RoutingNext

\* Roles and confederations.
LEMMA RolesStep ==
  ASSUME BgpInv, RoutingNext
  PROVE  Roles' /\ Confeds'
<1>1. lab' = lab
  BY LabStays
<1>2. CASE Settled
  <2>1. UNCHANGED <<lab, as, role, confedAs>> /\ (~failed' => ~failed)
    BY <1>2, SettledStays
  <2>2. \A l : LinkAs(l)' = LinkAs(l)
    BY <2>1 DEF LinkAs, Intf, InterfaceAs
  <2>3. ConfedErrors' = ConfedErrors /\ \A a : ConfedOf(a)' = ConfedOf(a)
    BY <2>1 DEF ConfedErrors, ConfedOf
  <2>4. Roles'
    BY <1>2, <2>1, <2>2 DEF BgpInv, Roles, Settled
  <2>5. Confeds'
    BY <1>2, <2>1, <2>3 DEF BgpInv, Confeds
  <2>6. QED
    BY <2>4, <2>5
<1>3. CASE ~Settled /\ EbgpRoleLink
  <2>1. lab' = lab /\ as' = as /\ stage' = "post" /\ role' = [l \in DOMAIN role |-> LinkRole(l)] /\ DOMAIN role = DOMAIN lab.links
    BY <1>1, <1>3 DEF EbgpRoleLink, BgpInv, Data
  <2>2. \A l : LinkAs(l)' = LinkAs(l)
    BY <2>1 DEF LinkAs, Intf, InterfaceAs
  <2>3. \A l \in DOMAIN lab.links : LinkRole(l) = "" => \A a, b \in LinkAs(l) : a = b
    BY DEF LinkRole, EbgpRole
  <2>4. QED
    BY <2>1, <2>2, <2>3 DEF Roles, Confeds, Settled
<1>4. CASE ~Settled /\ ModulePostTransform
  <2>1. /\ UNCHANGED <<lab, as, role>> /\ stage = "post" /\ stage' = "ibgp"
        /\ confedAs' = [n \in DOMAIN as |->
             IF ConfedOf(as[n]) = {} \/ "confederation" \notin lab.features[n] THEN NoAs ELSE CHOOSE c \in ConfedOf(as[n]) : TRUE]
    BY <1>1, <1>4 DEF ModulePostTransform
  <2>2. ~failed' => ~ConfedErrors
    BY <1>4, Zenon DEF ModulePostTransform
  <2>3. ConfedErrors' = ConfedErrors /\ \A a : ConfedOf(a)' = ConfedOf(a)
    BY <2>1 DEF ConfedErrors, ConfedOf
  <2>4. \A l : LinkAs(l)' = LinkAs(l)
    BY <2>1 DEF LinkAs, Intf, InterfaceAs
  <2>5. Roles'
    BY <2>1, <2>4 DEF BgpInv, Roles
  <2>6. Confeds'
    <3>1. \A n \in DOMAIN as : confedAs'[n] = IF ConfedOf(as[n]) = {} \/ "confederation" \notin lab.features[n] THEN NoAs
                                               ELSE CHOOSE c \in ConfedOf(as[n]) : TRUE
      BY <2>1
    <3>2. DOMAIN as' = DOMAIN as /\ \A n : as'[n] = as[n] /\ lab'.features[n] = lab.features[n]
      BY <2>1
    <3>3. QED
      BY <2>2, <2>3, <3>1, <3>2 DEF Confeds
  <2>7. QED
    BY <2>5, <2>6
<1>5. CASE ~Settled /\ ~EbgpRoleLink /\ ~ModulePostTransform
  <2>1. ProcessAsList \/ NodePreTransform
    BY <1>5 DEF RoutingNext, BgpStep, IgpStep, IgpTurn, Settled, Next, BuildIbgpSessions, BuildEbgpSession, LocalasIbgpNhsFixup, PostTransform
  <2>2. stage' \notin {"post", "ibgp", "ebgp", "done"}
    BY <2>1 DEF ProcessAsList, NodePreTransform, Check
  <2>3. QED
    BY <2>2 DEF Roles, Confeds, Settled
<1>6. QED
  BY <1>2, <1>3, <1>4, <1>5

\* Every set of numbers has a least one, and so has every set of triples.
LEMMA LeastNumber == ASSUME NEW S \in SUBSET Nat, S # {} PROVE \E x \in S : \A y \in S : x <= y
<1>1. IsWellFoundedOn(OpToRel(<, Nat), Nat)
  BY NatLessThanWellFounded
<1>2. PICK x \in S : \A y \in S : <<y, x>> \notin OpToRel(<, Nat)
  BY <1>1, WFMin
<1>3. \A y \in S : ~(y < x)
  BY <1>2 DEF OpToRel
<1>4. QED
  BY <1>3

LEMMA LeastTriple ==
  ASSUME NEW S, S # {}, NEW f, \A p \in S : f[p] = <<f[p][1], f[p][2], f[p][3]>> /\ f[p][1] \in Nat /\ f[p][2] \in Nat /\ f[p][3] \in Nat
  PROVE  \E p \in S : \A q \in S : f[q] = f[p] \/ Precedes(f[p], f[q])
<1>1. PICK a \in {f[p][1] : p \in S} : \A b \in {f[p][1] : p \in S} : a <= b
  <2>1. {f[p][1] : p \in S} \in SUBSET Nat /\ {f[p][1] : p \in S} # {}
    OBVIOUS
  <2>2. QED
    BY <2>1, LeastNumber
<1> DEFINE S1 == {p \in S : f[p][1] = a}
<1>2. PICK b \in {f[p][2] : p \in S1} : \A c \in {f[p][2] : p \in S1} : b <= c
  <2>1. {f[p][2] : p \in S1} \in SUBSET Nat /\ {f[p][2] : p \in S1} # {}
    BY <1>1
  <2>2. QED
    BY <2>1, LeastNumber
<1> DEFINE S2 == {p \in S1 : f[p][2] = b}
<1>3. PICK c \in {f[p][3] : p \in S2} : \A d \in {f[p][3] : p \in S2} : c <= d
  <2>1. {f[p][3] : p \in S2} \in SUBSET Nat /\ {f[p][3] : p \in S2} # {}
    BY <1>2
  <2>2. QED
    BY <2>1, LeastNumber
<1>4. PICK p \in S : f[p][1] = a /\ f[p][2] = b /\ f[p][3] = c
  BY <1>3
<1>5. ASSUME NEW q \in S PROVE f[q] = f[p] \/ Precedes(f[p], f[q])
  <2>1. a <= f[q][1] /\ a \in Nat /\ b \in Nat /\ c \in Nat /\ f[q][1] \in Nat /\ f[q][2] \in Nat /\ f[q][3] \in Nat
    BY <1>1, <1>4
  <2>2. f[q][1] = a => b <= f[q][2]
    BY <1>2
  <2>3. f[q][1] = a /\ f[q][2] = b => c <= f[q][3]
    BY <1>3
  <2>4. f[q] = <<f[q][1], f[q][2], f[q][3]>> /\ f[p] = <<f[p][1], f[p][2], f[p][3]>>
    OBVIOUS
  <2>5. QED
    BY <1>4, <2>1, <2>2, <2>3, <2>4 DEF Precedes
<1>6. QED
  BY <1>5

\* A node with interfaces has a best one.
LEMMA BestInterface ==
  ASSUME WellFormed(lab), NEW n, Own(n) # {}
  PROVE  /\ CpInterface(n) \in Own(n)
         /\ \A q \in Own(n) \ {CpInterface(n)} : Precedes(Ranked(CpInterface(n)), Ranked(q))
<1> DEFINE f == [p \in Own(n) |-> Ranked(p)]
<1>1. \A p \in Own(n) : p = <<p[1], p[2]>> /\ p[1] \in Nat /\ p[2] \in Nat
  BY InterfaceFacts DEF Own
<1>2. \A p \in Own(n) : f[p] = <<f[p][1], f[p][2], f[p][3]>> /\ f[p][1] \in Nat /\ f[p][2] \in Nat /\ f[p][3] \in Nat /\ f[p] = Ranked(p)
  BY <1>1 DEF Ranked, Rank
<1>3. PICK p \in Own(n) : \A q \in Own(n) : f[q] = f[p] \/ Precedes(f[p], f[q])
  <2> HIDE DEF f
  <2>1. QED
    BY <1>2, LeastTriple
<1>4. ASSUME NEW q \in Own(n), f[q] = f[p] PROVE q = p
  <2>1. Ranked(q) = Ranked(p)
    BY <1>2, <1>4
  <2>2. q[1] = p[1] /\ q[2] = p[2]
    BY <2>1 DEF Ranked
  <2>3. QED
    BY <1>1, <2>2
<1>5. \A q \in Own(n) \ {p} : Precedes(Ranked(p), Ranked(q))
  <2> HIDE DEF f
  <2>1. QED
    BY <1>2, <1>3, <1>4
<1>6. QED
  BY <1>5 DEF CpInterface

\* What the sessions are made of, as long as nothing but lists of neighbors changes.
LEMMA SameBasis ==
  ASSUME UNCHANGED <<lab, as, rr, role, confedAs>>
  PROVE  /\ Nodes' = Nodes /\ (\A n : Neighbors(n)' = Neighbors(n) /\ Own(n)' = Own(n) /\ IbgpPeers(n)' = IbgpPeers(n))
         /\ \A l, i, j : /\ Considered(l, i, j)' = Considered(l, i, j) /\ RawMixed(l, i, j)' = RawMixed(l, i, j) /\ EbgpTo(l, i, j)' = EbgpTo(l, i, j)
                         /\ Wanted(l, i, j)' = Wanted(l, i, j) /\ LocalIfs(l, i, j)' = LocalIfs(l, i, j)
                         /\ (\A b : EbgpWith(l, i, j, b)' = EbgpWith(l, i, j, b)) /\ LocalAsError(l, i)' = LocalAsError(l, i)
<1>1. Nodes' = Nodes /\ Interfaces' = Interfaces /\ (\A l, i : Intf(l, i)' = Intf(l, i))
  BY DEF Nodes, Interfaces, Intf
<1>2. ASSUME NEW n PROVE Neighbors(n)' = Neighbors(n) /\ Own(n)' = Own(n) /\ IbgpPeers(n)' = IbgpPeers(n)
  <2>1. Own(n)' = Own(n)
    BY <1>1 DEF Own
  <2>2. Neighbors(n)' = Neighbors(n)
    BY <2>1 DEF Neighbors
  <2>3. IbgpPeers(n)' = IbgpPeers(n)
    BY <1>1 DEF IbgpPeers, Rr, FindRr, KeepsMesh
  <2>4. QED
    BY <2>1, <2>2, <2>3
<1>3. ASSUME NEW l, NEW i
      PROVE  LocalAs(l, i)' = LocalAs(l, i) /\ OwnAs(l, i)' = OwnAs(l, i) /\ Usable(l, i)' = Usable(l, i) /\ LocalAsError(l, i)' = LocalAsError(l, i)
  <2>1. LocalAs(l, i)' = LocalAs(l, i)
    BY <1>1 DEF LocalAs, HasBgp
  <2>2. OwnAs(l, i)' = OwnAs(l, i) /\ Usable(l, i)' = Usable(l, i)
    BY <1>1, <2>1 DEF OwnAs, Usable
  <2>3. LocalAsError(l, i)' = LocalAsError(l, i)
    BY <1>1, <2>2 DEF LocalAsError
  <2>4. QED
    BY <2>1, <2>2, <2>3
<1>4. \A n, x : Peers(n)' = Peers(n) /\ RealAs(n, x)' = RealAs(n, x)
  BY DEF Peers, RealAs
<1>5. ASSUME NEW l, NEW i, NEW j
      PROVE  /\ Considered(l, i, j)' = Considered(l, i, j) /\ RawMixed(l, i, j)' = RawMixed(l, i, j) /\ EbgpTo(l, i, j)' = EbgpTo(l, i, j)
             /\ Wanted(l, i, j)' = Wanted(l, i, j) /\ LocalIfs(l, i, j)' = LocalIfs(l, i, j)
             /\ \A b : EbgpWith(l, i, j, b)' = EbgpWith(l, i, j, b)
  <2>1. RemoteAs(l, i, j)' = RemoteAs(l, i, j)
    BY <1>1, <1>3, <1>4 DEF RemoteAs
  <2>2. Considered(l, i, j)' = Considered(l, i, j)
    BY <1>1, <1>3, <1>4, <2>1 DEF Considered
  <2>3. Type(l, i, j)' = Type(l, i, j)
    BY <1>1, <1>3, <1>4, <2>1 DEF Type
  <2>4. EbgpTo(l, i, j)' = EbgpTo(l, i, j)
    BY <1>1, <2>3 DEF EbgpTo, Transport
  <2>5. RawMixed(l, i, j)' = RawMixed(l, i, j)
    BY <1>1 DEF RawMixed
  <2>6. Unnumbered(l, i, j)' = Unnumbered(l, i, j)
    BY <1>1 DEF Unnumbered, Both, Address
  <2>7. LocalIfs(l, i, j)' = LocalIfs(l, i, j)
    BY <1>1, <2>6 DEF LocalIfs, RawLla
  <2>8. \A b : EbgpWith(l, i, j, b)' = EbgpWith(l, i, j, b)
    BY <1>1, <1>3, <2>1, <2>3, <2>4, <2>6 DEF EbgpWith
  <2>9. Wanted(l, i, j)' = Wanted(l, i, j)
    BY <1>1 DEF Wanted
  <2>10. QED
    BY <2>2, <2>4, <2>5, <2>7, <2>8, <2>9
<1>6. QED
  BY <1>1, <1>2, <1>3, <1>5

\* The same for IBGP sessions.
LEMMA SameIbgp ==
  ASSUME UNCHANGED <<lab, as, rr, role, confedAs>>
  PROVE  /\ DaemonsAreNumbered' = DaemonsAreNumbered
         /\ \A n, m : /\ Transport(n, "ibgp", Listed(m))' = Transport(n, "ibgp", Listed(m))
                      /\ \A h : IbgpWith(n, m, h)' = IbgpWith(n, m, h)
<1>1. \A n : Own(n)' = Own(n)
  BY DEF Own, Interfaces, Intf
<1>2. DaemonsAreNumbered' = DaemonsAreNumbered
  BY <1>1 DEF DaemonsAreNumbered, Intf
<1>3. ASSUME NEW n PROVE CpInterface(n)' = CpInterface(n)
  <2>1. \A p : Ranked(p)' = Ranked(p)
    BY DEF Ranked, Rank, Intf
  <2>2. CpInterface(n)' = CHOOSE p \in Own(n) : \A q \in Own(n) \ {p} : Precedes(Ranked(p), Ranked(q))
    BY <1>1, <2>1, Zenon DEF CpInterface
  <2>3. QED
    BY <2>2 DEF CpInterface
<1>4. \A n : Listed(n)' = Listed(n)
  BY <1>1, <1>3 DEF Listed, Intf
<1>5. \A n, m : Transport(n, "ibgp", Listed(m))' = Transport(n, "ibgp", Listed(m))
  BY <1>4 DEF Transport
<1>6. \A n, m, h : IbgpWith(n, m, h)' = IbgpWith(n, m, h)
  BY <1>5 DEF IbgpWith, IsClient, Rr
<1>7. QED
  BY <1>2, <1>5, <1>6

\* Where an IBGP session ends does not change.
LEMMA EndpointIsListed ==
  ASSUME WellFormed(lab), Lent, DaemonsAreNumbered, NEW n
  PROVE  IbgpEndpoint(n) = Listed(n)
<1>1. CASE lab.loopback[n] = {} /\ n \in lab.daemon /\ Own(n) # {}
  <2> DEFINE best == CpInterface(n)
  <2>1. best \in Own(n)
    BY <1>1, BestInterface
  <2>2. \A af \in AF : Intf(best[1], best[2]).addr[af] # "true"
    BY <1>1, <2>1 DEF DaemonsAreNumbered
  <2>3. best = <<best[1], best[2]>> /\ Intf(best[1], best[2]).addr \in [AF -> Kinds]
    BY <2>1, InterfaceFacts DEF Own
  <2>4. <<best[1], best[2]>> \notin lla
    BY <2>2, <2>3 DEF Lent, AF
  <2>5. \A af \in AF : Address(best[1], best[2], af) = Intf(best[1], best[2]).addr[af]
    BY <2>4 DEF Address
  <2>6. [af \in AF |-> Address(best[1], best[2], af)] = Intf(best[1], best[2]).addr
    BY <2>3, <2>5
  <2>7. QED
    BY <1>1, <2>6 DEF IbgpEndpoint, Listed, CpEndpoint
<1>2. CASE ~(lab.loopback[n] = {} /\ n \in lab.daemon /\ Own(n) # {})
  BY <1>2 DEF IbgpEndpoint, Listed, CpEndpoint
<1>3. QED
  BY <1>1, <1>2

\* A session as a node puts it into its list.
LEMMA EbgpSessionIs ==
  ASSUME NEW l, NEW i, NEW j
  PROVE  /\ EbgpSession(l, i, j) = EbgpWith(l, i, j, OverLla(l, i, j))
         /\ OverLla(l, i, j) \in LocalIfs(l, i, j)
         /\ RawMixed(l, i, j) => Mixed(l, i, j)
<1>1. EbgpSession(l, i, j) = EbgpWith(l, i, j, OverLla(l, i, j))
  BY DEF EbgpSession, EbgpWith, EbgpTo
<1>2. OverLla(l, i, j) \in LocalIfs(l, i, j)
  <2>1. OverLla(l, i, j) \in BOOLEAN
    BY DEF OverLla, Both, Unnumbered
  <2>2. Address(l, i, "ipv6") = Intf(l, i).addr["ipv6"] \/ (Intf(l, i).addr["ipv6"] = "none" /\ Address(l, i, "ipv6") = "true")
    BY DEF Address
  <2>3. RawLla(l, i, j) => OverLla(l, i, j)
    BY <2>2 DEF OverLla, OverNumbered, RawLla, Both
  <2>4. OverLla(l, i, j) => RawLla(l, i, j) \/ (Intf(l, i).addr["ipv6"] = "none" /\ Intf(l, j).addr["ipv6"] = "true")
    BY <2>2 DEF OverLla, OverNumbered, RawLla, Both
  <2>5. QED
    BY <2>1, <2>3, <2>4 DEF LocalIfs
<1>3. RawMixed(l, i, j) => Mixed(l, i, j)
  BY DEF RawMixed, Mixed, Address
<1>4. QED
  BY <1>1, <1>2, <1>3

LEMMA PlaceStep ==
  ASSUME BgpInv, RoutingNext
  PROVE  Fresh' /\ Place' /\ Lent'
<1>1. lab' = lab /\ Nodes' = Nodes /\ k \in Nat \ {0} /\ lab.nodes \in Seq(DOMAIN lab.as)
  BY LabStays, NodesAreNodes DEF BgpInv, Data, Nodes
<1>2. (\A n : Neighbors(n)' = Neighbors(n)) /\ Interfaces' = Interfaces /\ (\A l, i : Intf(l, i)' = Intf(l, i))
  BY <1>1 DEF Neighbors, Own, Interfaces, Intf
<1>3. CASE BgpStep /\ (ProcessAsList \/ NodePreTransform \/ EbgpRoleLink \/ ModulePostTransform)
  <2>1. UNCHANGED <<k, lla, sessions>> /\ stage \in Early /\ stage' \notin {"ebgp", "done"}
    BY <1>3 DEF ProcessAsList, NodePreTransform, EbgpRoleLink, ModulePostTransform, Early, Check
  <2>2. QED
    BY <1>1, <1>2, <2>1 DEF BgpInv, Fresh, Place, Lent
<1>4. CASE BgpStep /\ BuildIbgpSessions
  <2>1. stage = "ibgp" /\ k <= Len(lab.nodes) /\ todo' = Neighbors(lab.nodes[k]) /\ stage' = "ebgp" /\ UNCHANGED <<k, lla>>
        /\ sessions' = [sessions EXCEPT ![lab.nodes[k]] = IbgpSessions(lab.nodes[k])]
    BY <1>4 DEF BuildIbgpSessions
  <2>2. k \in DOMAIN lab.nodes
    BY <1>1, <2>1
  <2>3. QED
    BY <1>1, <1>2, <2>1, <2>2 DEF BgpInv, Fresh, Place, Lent, Early
<1>5. CASE BgpStep /\ BuildEbgpSession
  <2>1. PICK p \in todo :
          /\ todo' = todo \ {p} /\ DOMAIN sessions' = DOMAIN sessions
          /\ lla' \in {lla, IF OverLla(p[1], p[2], p[3]) /\ Address(p[1], p[2], "ipv6") = "none" THEN lla \cup {<<p[1], p[2]>>} ELSE lla}
    BY <1>5 DEF BuildEbgpSession
  <2>2. stage = "ebgp" /\ UNCHANGED <<stage, k>>
    BY <1>5 DEF BuildEbgpSession
  <2>3. k \in DOMAIN lab.nodes /\ p \in Neighbors(lab.nodes[k])
    BY <2>1, <2>2 DEF BgpInv, Place
  <2>4. <<p[1], p[2]>> \in Interfaces
    <3>1. PICK q \in Own(lab.nodes[k]) : p \in {<<q[1], q[2], j>> : j \in DOMAIN lab.links[q[1]].intfs \ {q[2]}}
      BY <2>3 DEF Neighbors
    <3>2. p[1] = q[1] /\ p[2] = q[2] /\ q \in Interfaces
      BY <3>1 DEF Own
    <3>3. QED
      BY <3>2, InterfaceFacts DEF BgpInv
  <2>5. OverLla(p[1], p[2], p[3]) /\ Address(p[1], p[2], "ipv6") = "none" => Intf(p[1], p[2]).addr["ipv4"] = "true"
    BY DEF OverLla, Both, Unnumbered, Address
  <2>6. Lent'
    BY <1>2, <2>1, <2>4, <2>5 DEF BgpInv, Lent
  <2>7. QED
    BY <1>1, <1>2, <2>1, <2>2, <2>6 DEF BgpInv, Fresh, Place, Early
<1>6. CASE BgpStep /\ LocalasIbgpNhsFixup
  BY <1>1, <1>2, <1>6 DEF LocalasIbgpNhsFixup, BgpInv, Fresh, Place, Lent, Early
<1>7. CASE BgpStep /\ PostTransform
  BY <1>1, <1>2, <1>7 DEF PostTransform, BgpInv, Fresh, Place, Lent, Early
<1>8. CASE IgpStep
  <2>1. stage = "ibgp" /\ UNCHANGED <<stage, k, todo, lla, sessions>>
    BY <1>8 DEF IgpStep, IgpTurn
  <2>2. QED
    BY <1>1, <1>2, <2>1 DEF BgpInv, Fresh, Place, Lent, Early
<1>9. QED
  BY <1>3, <1>4, <1>5, <1>6, <1>7, <1>8 DEF RoutingNext, BgpStep, Next

Lists == Typed /\ EbgpFrom /\ EbgpAll /\ Allowed /\ IbgpFrom /\ IbgpAll

LEMMA IbgpHolds ==
  ASSUME UNCHANGED <<lab, as, rr, role, confedAs>>
  PROVE  /\ (Settled' /\ DaemonsAreNumbered => \A n \in Nodes : \A s \in sessions'[n] :
              s.type = "ibgp" => \E m \in IbgpPeers(n), h \in {"ebgp", "all"} : s = IbgpWith(n, m, h)) => IbgpFrom'
         /\ (Settled' /\ DaemonsAreNumbered => \A n \in Nodes : \A m \in IbgpPeers(n) :
              Started(n)' /\ Transport(n, "ibgp", Listed(m)) # NoAddress => \E h \in {"ebgp", "all"} : IbgpWith(n, m, h) \in sessions'[n]) => IbgpAll'
<1>1. ASSUME Settled' /\ DaemonsAreNumbered => \A n \in Nodes : \A s \in sessions'[n] :
               s.type = "ibgp" => \E m \in IbgpPeers(n), h \in {"ebgp", "all"} : s = IbgpWith(n, m, h)
      PROVE  IbgpFrom'
  <2>1. SUFFICES ASSUME Settled', DaemonsAreNumbered', NEW n \in Nodes', NEW s \in sessions'[n], s.type = "ibgp"
                 PROVE  \E m \in IbgpPeers(n)', h \in {"ebgp", "all"} : s = IbgpWith(n, m, h)'
    BY DEF IbgpFrom
  <2>2. n \in Nodes /\ DaemonsAreNumbered /\ IbgpPeers(n)' = IbgpPeers(n)
    BY <2>1, SameBasis, SameIbgp
  <2>3. PICK m \in IbgpPeers(n), h \in {"ebgp", "all"} : s = IbgpWith(n, m, h)
    BY <1>1, <2>1, <2>2
  <2>4. IbgpWith(n, m, h)' = IbgpWith(n, m, h)
    BY SameIbgp
  <2>5. QED
    BY <2>2, <2>3, <2>4
<1>2. ASSUME Settled' /\ DaemonsAreNumbered => \A n \in Nodes : \A m \in IbgpPeers(n) :
               Started(n)' /\ Transport(n, "ibgp", Listed(m)) # NoAddress => \E h \in {"ebgp", "all"} : IbgpWith(n, m, h) \in sessions'[n]
      PROVE  IbgpAll'
  <2>1. SUFFICES ASSUME Settled', DaemonsAreNumbered', NEW n \in Nodes', NEW m \in IbgpPeers(n)', Started(n)',
                        Transport(n, "ibgp", Listed(m))' # NoAddress'
                 PROVE  \E h \in {"ebgp", "all"} : IbgpWith(n, m, h)' \in sessions'[n]
    BY DEF IbgpAll
  <2>2. n \in Nodes /\ DaemonsAreNumbered /\ m \in IbgpPeers(n)
    BY <2>1, SameBasis, SameIbgp
  <2>3. Transport(n, "ibgp", Listed(m))' = Transport(n, "ibgp", Listed(m)) /\ NoAddress' = NoAddress
    BY SameIbgp DEF NoAddress
  <2>4. PICK h \in {"ebgp", "all"} : IbgpWith(n, m, h) \in sessions'[n]
    BY <1>2, <2>1, <2>2, <2>3
  <2>5. IbgpWith(n, m, h)' = IbgpWith(n, m, h)
    BY SameIbgp
  <2>6. QED
    BY <2>4, <2>5
<1>3. QED
  BY <1>1, <1>2

\* The lists and the nodes that have them stay.
LEMMA SameLists ==
  ASSUME BgpInv, RoutingNext, Settled, sessions' = sessions, Settled' => \A n : Started(n)' <=> Started(n),
         Settled' => \A n, p : Looked(n, p)' <=> Looked(n, p)
  PROVE  Lists'
<1>1. UNCHANGED <<lab, as, rr, role, confedAs>> /\ (~failed' => ~failed)
  BY SettledStays
<1>2. EbgpFrom'
  BY <1>1, SameBasis DEF BgpInv, EbgpFrom
<1>3. EbgpAll'
  BY <1>1, SameBasis DEF BgpInv, EbgpAll
<1>4. Allowed'
  BY <1>1, SameBasis DEF BgpInv, Allowed
<1>5. IbgpFrom'
  BY <1>1, IbgpHolds DEF BgpInv, IbgpFrom
<1>6. IbgpAll'
  BY <1>1, IbgpHolds DEF BgpInv, IbgpAll
<1>7. Typed'
  BY <1>1, SameBasis DEF BgpInv, Typed
<1>8. QED
  BY <1>2, <1>3, <1>4, <1>5, <1>6, <1>7 DEF Lists

\* Nobody has a list yet.
LEMMA ListsBegin ==
  ASSUME BgpInv, RoutingNext, ~Settled
  PROVE  Lists'
<1>1. CASE ModulePostTransform
  <2>1. stage = "post" /\ stage' = "ibgp" /\ UNCHANGED <<lab, k, sessions>>
    BY <1>1 DEF ModulePostTransform
  <2>2. k = 1 /\ \A n \in Nodes : sessions[n] = {}
    BY <2>1 DEF BgpInv, Fresh, Early
  <2>3. Nodes' = Nodes
    BY <2>1 DEF Nodes
  <2>4. \A n \in Nodes' : sessions'[n] = {}
    BY <2>1, <2>2, <2>3
  <2>5. \A n : ~Started(n)'
    BY <2>1, <2>2 DEF Started
  <2>6. QED
    BY <2>4, <2>5 DEF Lists, Typed, EbgpFrom, EbgpAll, Allowed, IbgpFrom, IbgpAll, Looked
<1>2. CASE ~ModulePostTransform
  <2>1. ProcessAsList \/ NodePreTransform \/ EbgpRoleLink
    BY <1>2 DEF RoutingNext, BgpStep, IgpStep, IgpTurn, Settled, Next, BuildIbgpSessions, BuildEbgpSession, LocalasIbgpNhsFixup, PostTransform
  <2>2. ~Settled'
    BY <2>1 DEF ProcessAsList, NodePreTransform, EbgpRoleLink, Check, Settled
  <2>3. QED
    BY <2>2 DEF Lists, Typed, EbgpFrom, EbgpAll, Allowed, IbgpFrom, IbgpAll
<1>3. QED
  BY <1>1, <1>2

\* A node starts its list with its IBGP sessions.
LEMMA ListStarts ==
  ASSUME BgpInv, RoutingNext, BgpStep, BuildIbgpSessions, NEW me, me = lab.nodes[k]
  PROVE  Lists'
<1>1. /\ stage = "ibgp" /\ k <= Len(lab.nodes) /\ todo' = Neighbors(me) /\ stage' = "ebgp" /\ UNCHANGED <<k, lla, lab, as, rr, role, confedAs>>
      /\ sessions' = [sessions EXCEPT ![me] = IbgpSessions(me)] /\ Settled
  BY DEF BuildIbgpSessions, Settled
<1>2. (~failed' => ~failed) /\ (~failed' => \A p \in Own(me) : ~LocalAsError(p[1], p[2]))
  BY Zenon DEF BuildIbgpSessions
<1>3. k \in DOMAIN lab.nodes /\ lab.nodes \in Seq(DOMAIN lab.as) /\ IsInjective(lab.nodes) /\ me \in Nodes
  <2>1. lab.nodes \in Seq(DOMAIN lab.as) /\ IsInjective(lab.nodes) /\ k \in Nat \ {0}
    BY NodesAreNodes DEF BgpInv, Data
  <2>2. k \in DOMAIN lab.nodes
    BY <1>1, <2>1
  <2>3. QED
    BY <2>1, <2>2 DEF Nodes, ToSet
<1>4. ~Started(me) /\ \A n : Started(n)' <=> Started(n) \/ n = me
  <2>1. \A x \in 1..k - 1 : lab.nodes[x] # me
    BY <1>3 DEF IsInjective
  <2>2. QED
    BY <1>1, <2>1 DEF Started
<1>5. ~Looked(me, 0)' /\ \A n, p : Looked(n, p)' => Looked(n, p) /\ n # me
  <2>1. \A n : Neighbors(n)' = Neighbors(n)
    BY <1>1 DEF Neighbors, Own, Interfaces, Intf
  <2>2. ASSUME NEW n, NEW p, Looked(n, p)' PROVE Looked(n, p) /\ n # me
    <3>1. n # me
      BY <1>1, <2>1, <2>2 DEF Looked
    <3>2. Started(n)
      BY <1>4, <2>2, <3>1 DEF Looked
    <3>3. QED
      BY <1>1, <2>1, <2>2, <3>1, <3>2 DEF Looked
  <2>3. ~Looked(me, 0)'
    BY <2>2
  <2>4. QED
    BY <2>2, <2>3
<1>6. \A n \in Nodes : sessions'[n] = IF n = me THEN IbgpSessions(me) ELSE sessions[n]
  BY <1>1, <1>3 DEF BgpInv, Place
<1>7. \A s \in IbgpSessions(me) : \E m \in IbgpPeers(me) : s = IbgpSession(me, m)
  BY DEF IbgpSessions
<1>8. EbgpFrom'
  <2>1. \A s \in IbgpSessions(me) : s.type = "ibgp"
    <3>1. \A m : IbgpSession(me, m).type = "ibgp"
      BY DEF IbgpSession
    <3>2. QED
      BY <1>7, <3>1
  <2>2. \A n \in Nodes : \A s \in sessions'[n] : s.type # "ibgp" => s \in sessions[n]
    BY <1>6, <2>1
  <2>3. QED
    BY <1>1, <2>2, SameBasis DEF BgpInv, EbgpFrom
<1>9. EbgpAll'
  <2>1. \A n \in Nodes : \A p : Looked(n, p)' => Looked(n, p) /\ sessions'[n] = sessions[n]
    BY <1>5, <1>6
  <2>2. QED
    BY <1>1, <1>2, <2>1, SameBasis DEF BgpInv, EbgpAll
<1>10. Allowed'
  BY <1>1, <1>2, <1>4, SameBasis DEF BgpInv, Allowed
<1>11. ASSUME DaemonsAreNumbered PROVE \A m : IbgpSession(me, m) = IbgpWith(me, m, "ebgp")
  <2>1. \A m : IbgpEndpoint(m) = Listed(m)
    BY <1>11, EndpointIsListed DEF BgpInv
  <2>2. QED
    BY <2>1 DEF IbgpSession, IbgpWith
<1>12. IbgpFrom'
  <2>1. ASSUME DaemonsAreNumbered, NEW n \in Nodes, NEW s \in sessions'[n], s.type = "ibgp"
        PROVE  \E m \in IbgpPeers(n), h \in {"ebgp", "all"} : s = IbgpWith(n, m, h)
    <3>1. CASE n = me
      BY <1>6, <1>7, <1>11, <2>1, <3>1
    <3>2. CASE n # me
      BY <1>1, <1>6, <2>1, <3>2 DEF BgpInv, IbgpFrom
    <3>3. QED
      BY <3>1, <3>2
  <2>2. QED
    BY <1>1, <2>1, IbgpHolds
<1>13. IbgpAll'
  <2>1. ASSUME DaemonsAreNumbered, NEW n \in Nodes, NEW m \in IbgpPeers(n), Started(n)', Transport(n, "ibgp", Listed(m)) # NoAddress
        PROVE  \E h \in {"ebgp", "all"} : IbgpWith(n, m, h) \in sessions'[n]
    <3>1. CASE n = me
      <4>1. IbgpSession(me, m) = IbgpWith(me, m, "ebgp")
        BY <1>11, <2>1
      <4>2. IbgpWith(me, m, "ebgp").to # NoAddress
        BY <2>1, <3>1 DEF IbgpWith
      <4>3. IbgpSession(me, m) \in IbgpSessions(me)
        BY <2>1, <3>1, <4>1, <4>2 DEF IbgpSessions
      <4>4. QED
        BY <1>6, <3>1, <4>1, <4>3
    <3>2. CASE n # me
      BY <1>1, <1>4, <1>6, <2>1, <3>2 DEF BgpInv, IbgpAll
    <3>3. QED
      BY <3>1, <3>2
  <2>2. QED
    BY <1>1, <2>1, IbgpHolds
<1>14. Typed'
  <2>1. \A m : "type" \in DOMAIN IbgpSession(me, m)
    BY DEF IbgpSession
  <2>2. \A n \in Nodes : \A s \in sessions'[n] : "type" \in DOMAIN s
    BY <1>1, <1>6, <1>7, <2>1 DEF BgpInv, Typed
  <2>3. QED
    BY <1>1, <2>2, SameBasis DEF Typed
<1>15. QED
  BY <1>8, <1>9, <1>10, <1>12, <1>13, <1>14 DEF Lists

\* A node looks at a neighbor on one of its interfaces.
LEMMA ListGrows ==
  ASSUME BgpInv, RoutingNext, BgpStep, BuildEbgpSession, NEW me, me = lab.nodes[k]
  PROVE  Lists'
<1>1. PICK p \in todo :
        /\ todo' = todo \ {p}
        /\ failed' = (failed \/ (Considered(p[1], p[2], p[3]) /\ (Mixed(p[1], p[2], p[3]) \/ Missing(p[1], p[2], p[3]))))
        /\ sessions' = IF /\ Considered(p[1], p[2], p[3]) /\ ~(Mixed(p[1], p[2], p[3]) \/ Missing(p[1], p[2], p[3]))
                          /\ EbgpSession(p[1], p[2], p[3]).to # NoAddress /\ Wanted(p[1], p[2], p[3])
                       THEN [sessions EXCEPT ![me] = @ \cup {EbgpSession(p[1], p[2], p[3])}] ELSE sessions
  BY DEF BuildEbgpSession
<1> DEFINE l == p[1]
           i == p[2]
           j == p[3]
           b == OverLla(l, i, j)
<1>2. stage = "ebgp" /\ UNCHANGED <<stage, k, lab, as, rr, role, confedAs>> /\ Settled
  BY DEF BuildEbgpSession, Settled
<1>3. k \in DOMAIN lab.nodes /\ me \in Nodes /\ p \in Neighbors(me) /\ DOMAIN sessions = Nodes
  BY <1>1, <1>2, NodesAreNodes DEF BgpInv, Place, Nodes, ToSet
<1>4. EbgpSession(l, i, j) = EbgpWith(l, i, j, b) /\ b \in LocalIfs(l, i, j) /\ (RawMixed(l, i, j) => Mixed(l, i, j))
      /\ EbgpWith(l, i, j, b).to = EbgpTo(l, i, j) /\ EbgpWith(l, i, j, b).type # "ibgp"
  BY EbgpSessionIs DEF EbgpWith, Type
<1>5. (~failed' => ~failed) /\ (~failed' /\ Considered(l, i, j) => ~(Mixed(l, i, j) \/ Missing(l, i, j)))
  BY <1>1, Zenon
<1>6. \A n : Started(n)' <=> Started(n)
  BY <1>2 DEF Started
<1>7. \A n, q : Looked(n, q)' => Looked(n, q) \/ (n = me /\ q = p)
  <2>1. \A n : Neighbors(n)' = Neighbors(n)
    BY <1>2 DEF Neighbors, Own, Interfaces, Intf
  <2>2. QED
    BY <1>1, <1>2, <1>6, <2>1 DEF Looked
<1> HIDE DEF b
<1>8. /\ \A n \in Nodes : sessions[n] \subseteq sessions'[n]
      /\ \A n \in Nodes : \A s \in sessions'[n] : s \in sessions[n] \/ (n = me /\ s = EbgpWith(l, i, j, b) /\ Considered(l, i, j))
      /\ Considered(l, i, j) /\ ~(Mixed(l, i, j) \/ Missing(l, i, j)) /\ EbgpTo(l, i, j) # NoAddress /\ Wanted(l, i, j)
         => EbgpWith(l, i, j, b) \in sessions'[me]
  <2>1. CASE /\ Considered(l, i, j) /\ ~(Mixed(l, i, j) \/ Missing(l, i, j)) /\ EbgpTo(l, i, j) # NoAddress /\ Wanted(l, i, j)
    <3>1. sessions' = [sessions EXCEPT ![me] = @ \cup {EbgpWith(l, i, j, b)}]
      BY <1>1, <1>4, <2>1
    <3>2. QED
      BY <1>3, <2>1, <3>1
  <2>2. CASE ~(/\ Considered(l, i, j) /\ ~(Mixed(l, i, j) \/ Missing(l, i, j)) /\ EbgpTo(l, i, j) # NoAddress /\ Wanted(l, i, j))
    <3>1. sessions' = sessions
      BY <1>1, <1>4, <2>2
    <3>2. QED
      BY <2>2, <3>1
  <2>3. QED
    BY <2>1, <2>2
<1> HIDE DEF l, i, j
<1>9. EbgpFrom'
  <2>1. ASSUME NEW n \in Nodes, NEW s \in sessions'[n], s.type # "ibgp"
        PROVE  \E q \in Neighbors(n) : Considered(q[1], q[2], q[3]) /\ \E c \in LocalIfs(q[1], q[2], q[3]) : s = EbgpWith(q[1], q[2], q[3], c)
    <3>1. CASE s \in sessions[n]
      BY <1>2, <2>1, <3>1 DEF BgpInv, EbgpFrom
    <3>2. CASE n = me /\ s = EbgpWith(l, i, j, b) /\ Considered(l, i, j)
      BY <1>3, <1>4, <3>2 DEF l, i, j
    <3>3. QED
      BY <1>8, <3>1, <3>2
  <2>2. QED
    BY <1>2, <2>1, SameBasis DEF EbgpFrom
<1>10. EbgpAll'
  <2>1. ASSUME ~failed', NEW n \in Nodes, NEW q \in Neighbors(n), Looked(n, q)', Considered(q[1], q[2], q[3])
        PROVE  /\ ~RawMixed(q[1], q[2], q[3])
               /\ EbgpTo(q[1], q[2], q[3]) # NoAddress /\ Wanted(q[1], q[2], q[3])
                  => \E c \in LocalIfs(q[1], q[2], q[3]) : EbgpWith(q[1], q[2], q[3], c) \in sessions'[n]
    <3>1. CASE Looked(n, q)
      BY <1>2, <1>5, <1>8, <2>1, <3>1 DEF BgpInv, EbgpAll
    <3>2. CASE n = me /\ q = p
      BY <1>4, <1>5, <1>8, <2>1, <3>2 DEF l, i, j
    <3>3. QED
      BY <1>7, <2>1, <3>1, <3>2
  <2>2. QED
    BY <1>2, <2>1, SameBasis DEF EbgpAll
<1>11. Allowed'
  BY <1>2, <1>5, <1>6, SameBasis DEF BgpInv, Allowed
<1>12. IbgpFrom'
  <2>1. \A n \in Nodes : \A s \in sessions'[n] : s.type = "ibgp" => s \in sessions[n]
    BY <1>4, <1>8
  <2>2. QED
    BY <1>2, <2>1, IbgpHolds DEF BgpInv, IbgpFrom
<1>13. IbgpAll'
  <2>1. ASSUME DaemonsAreNumbered, NEW n \in Nodes, NEW m \in IbgpPeers(n), Started(n)', Transport(n, "ibgp", Listed(m)) # NoAddress
        PROVE  \E h \in {"ebgp", "all"} : IbgpWith(n, m, h) \in sessions'[n]
    <3>1. PICK h \in {"ebgp", "all"} : IbgpWith(n, m, h) \in sessions[n]
      BY <1>2, <1>6, <2>1 DEF BgpInv, IbgpAll
    <3>2. QED
      BY <1>8, <3>1
  <2>2. QED
    BY <1>2, <2>1, IbgpHolds
<1>14. Typed'
  <2>1. "type" \in DOMAIN EbgpWith(l, i, j, b)
    BY DEF EbgpWith
  <2>2. \A n \in Nodes : \A s \in sessions'[n] : "type" \in DOMAIN s
    BY <1>2, <1>8, <2>1 DEF BgpInv, Typed
  <2>3. QED
    BY <1>2, <2>2, SameBasis DEF Typed
<1>15. QED
  BY <1>9, <1>10, <1>11, <1>12, <1>13, <1>14 DEF Lists

\* The fixup rewrites IBGP sessions only.
Rewritten(ss, tt) ==
  /\ \A t \in tt : "type" \in DOMAIN t
  /\ \A t \in tt : t \in ss \/ \E s \in ss : (s.type = "ibgp" /\ t.type = "ibgp" /\ t = [s EXCEPT !.nhs = "all"])
  /\ \A s \in ss : s.type # "ibgp" => s \in tt
  /\ \A s \in ss : s \in tt \/ [s EXCEPT !.nhs = "all"] \in tt

LEMMA FixupFacts ==
  ASSUME NEW ss, \A s \in ss : "type" \in DOMAIN s
  PROVE  Rewritten(ss, Fixup(ss))
<1> DEFINE g(s) == IF s.type = "ibgp" THEN [s EXCEPT !.nhs = "all"] ELSE s
<1>1. \A s \in ss : s.type = "ibgp" => [s EXCEPT !.nhs = "all"].type = "ibgp" /\ "type" \in DOMAIN [s EXCEPT !.nhs = "all"]
  OBVIOUS
<1>2. Fixup(ss) = {g(s) : s \in ss} \/ Fixup(ss) = ss
  BY DEF Fixup
<1>3. CASE Fixup(ss) = {g(s) : s \in ss}
  BY <1>1, <1>3 DEF Rewritten
<1>4. CASE Fixup(ss) = ss
  BY <1>4 DEF Rewritten
<1>5. QED
  BY <1>2, <1>3, <1>4

LEMMA IbgpRewritten ==
  ASSUME NEW n, NEW m, NEW h
  PROVE  [IbgpWith(n, m, h) EXCEPT !.nhs = "all"] = IbgpWith(n, m, "all") /\ IbgpWith(n, m, h).type = "ibgp"
<1>1. IbgpWith(n, m, h).type = "ibgp"
  BY DEF IbgpWith
<1>2. [IbgpWith(n, m, h) EXCEPT !.nhs = "all"] = IbgpWith(n, m, "all")
  <2> DEFINE fields == {"peer", "type", "as", "to", "client", "nhs", "localAs", "localIf", "rfc8950", "vrf", "link", "own", "remote"}
             r == IbgpWith(n, m, h)
             q == IbgpWith(n, m, "all")
  <2>1. r = [x \in fields |-> r[x]] /\ q = [x \in fields |-> q[x]]
    BY DEF IbgpWith
  <2>2. \A x \in fields : q[x] = IF x = "nhs" THEN "all" ELSE r[x]
    <3>1. q["nhs"] = "all" /\ q["peer"] = r["peer"] /\ q["type"] = r["type"] /\ q["as"] = r["as"] /\ q["to"] = r["to"]
      BY DEF IbgpWith
    <3>2. q["client"] = r["client"]
      BY DEF IbgpWith
    <3>3. q["localAs"] = r["localAs"] /\ q["localIf"] = r["localIf"] /\ q["rfc8950"] = r["rfc8950"] /\ q["vrf"] = r["vrf"]
      BY DEF IbgpWith
    <3>4. q["link"] = r["link"] /\ q["own"] = r["own"] /\ q["remote"] = r["remote"]
      BY DEF IbgpWith
    <3> HIDE DEF q, r
    <3>5. QED
      BY <3>1, <3>2, <3>3, <3>4
  <2> HIDE DEF r, q, fields
  <2>3. [r EXCEPT !.nhs = "all"] = [x \in fields |-> IF x = "nhs" THEN "all" ELSE r[x]]
    BY <2>1
  <2>4. QED
    BY <2>1, <2>2, <2>3 DEF r, q
<1>3. QED
  BY <1>1, <1>2

\* A node has its list.
LEMMA ListEnds ==
  ASSUME BgpInv, RoutingNext, BgpStep, LocalasIbgpNhsFixup, NEW me, me = lab.nodes[k]
  PROVE  Lists'
<1>1. /\ stage = "ebgp" /\ todo = {} /\ stage' = "ibgp" /\ k' = k + 1 /\ UNCHANGED <<lab, todo, as, rr, role, confedAs, lla, failed>>
      /\ sessions' = [sessions EXCEPT ![me] = Fixup(@)] /\ Settled
  BY DEF LocalasIbgpNhsFixup, Settled
<1>2. k \in DOMAIN lab.nodes /\ me \in Nodes /\ DOMAIN sessions = Nodes /\ k \in Nat \ {0}
  BY <1>1, NodesAreNodes DEF BgpInv, Data, Place, Nodes, ToSet
<1>3. \A n : Started(n)' <=> Started(n)
  BY <1>1, <1>2 DEF Started
<1>4. \A n, p : Looked(n, p)' => Looked(n, p)
  <2>1. \A n : Neighbors(n)' = Neighbors(n)
    BY <1>1 DEF Neighbors, Own, Interfaces, Intf
  <2>2. QED
    BY <1>1, <1>3, <2>1 DEF Looked
<1>5. \A n \in Nodes : \A s \in sessions[n] : "type" \in DOMAIN s
  BY <1>1 DEF BgpInv, Typed
<1>6. \A n \in Nodes : Rewritten(sessions[n], sessions'[n])
  <2>1. SUFFICES ASSUME NEW n \in Nodes PROVE Rewritten(sessions[n], sessions'[n])
    OBVIOUS
  <2>2. CASE n = me
    <3>1. sessions'[n] = Fixup(sessions[n])
      BY <1>1, <1>2, <2>2
    <3>2. QED
      BY <1>5, <3>1, FixupFacts
  <2>3. CASE n # me
    <3>1. sessions'[n] = sessions[n]
      BY <1>1, <1>2, <2>3
    <3>2. QED
      BY <1>5, <3>1 DEF Rewritten
  <2>4. QED
    BY <2>2, <2>3
<1>7. EbgpFrom'
  <2>1. \A n \in Nodes : \A s \in sessions'[n] : s.type # "ibgp" => s \in sessions[n]
    BY <1>6 DEF Rewritten
  <2>2. QED
    BY <1>1, <2>1, SameBasis DEF BgpInv, EbgpFrom
<1>8. EbgpAll'
  <2>1. \A l, i, j, b : EbgpWith(l, i, j, b).type # "ibgp"
    BY DEF EbgpWith, Type
  <2>2. ASSUME NEW n \in Nodes, NEW l, NEW i, NEW j, NEW b, EbgpWith(l, i, j, b) \in sessions[n]
        PROVE  EbgpWith(l, i, j, b) \in sessions'[n]
    BY <1>6, <2>1, <2>2 DEF Rewritten
  <2>3. QED
    BY <1>1, <1>4, <2>2, SameBasis DEF BgpInv, EbgpAll
<1>9. Allowed'
  BY <1>1, <1>3, SameBasis DEF BgpInv, Allowed
<1>10. IbgpFrom'
  <2>1. ASSUME DaemonsAreNumbered, NEW n \in Nodes, NEW s \in sessions'[n], s.type = "ibgp"
        PROVE  \E m \in IbgpPeers(n), h \in {"ebgp", "all"} : s = IbgpWith(n, m, h)
    <3>1. \A t \in sessions[n] : t.type = "ibgp" => \E m \in IbgpPeers(n), h \in {"ebgp", "all"} : t = IbgpWith(n, m, h)
      BY <1>1, <2>1 DEF BgpInv, IbgpFrom
    <3>2. CASE s \in sessions[n]
      BY <2>1, <3>1, <3>2
    <3>3. CASE \E t \in sessions[n] : t.type = "ibgp" /\ s = [t EXCEPT !.nhs = "all"]
      BY <3>1, <3>3, IbgpRewritten
    <3>4. QED
      BY <1>6, <2>1, <3>2, <3>3 DEF Rewritten
  <2>2. QED
    BY <1>1, <2>1, IbgpHolds
<1>11. IbgpAll'
  <2>1. ASSUME DaemonsAreNumbered, NEW n \in Nodes, NEW m \in IbgpPeers(n), Started(n)', Transport(n, "ibgp", Listed(m)) # NoAddress
        PROVE  \E h \in {"ebgp", "all"} : IbgpWith(n, m, h) \in sessions'[n]
    <3>1. PICK h \in {"ebgp", "all"} : IbgpWith(n, m, h) \in sessions[n]
      BY <1>1, <1>3, <2>1 DEF BgpInv, IbgpAll
    <3>2. QED
      BY <1>6, <3>1, IbgpRewritten DEF Rewritten
  <2>2. QED
    BY <1>1, <2>1, IbgpHolds
<1>12. Typed'
  BY <1>1, <1>6, SameBasis DEF Typed, Rewritten
<1>13. QED
  BY <1>7, <1>8, <1>9, <1>10, <1>11, <1>12 DEF Lists

\* BGP builds its lists while the interior protocols run their hooks.
THEOREM BgpInvariance == RoutingSpec => []BgpInv
<1>1. BgpInv /\ [RoutingNext]_routingVars => BgpInv'
  <2> SUFFICES ASSUME BgpInv, [RoutingNext]_routingVars
               PROVE  BgpInv'
    OBVIOUS
  <2>1. CASE UNCHANGED routingVars
    <3>1. UNCHANGED <<lab, stage, k, todo, as, rr, role, confedAs, lla, sessions, failed>>
      BY <2>1 DEF routingVars, vars
    <3>2. WellFormed(lab)' /\ Data' /\ Fresh' /\ Place' /\ Lent'
      <4>1. WellFormed(lab)' /\ Data' /\ Fresh'
        BY <3>1 DEF BgpInv, Data, Fresh, Nodes
      <4>2. Place' /\ Lent'
        BY <3>1, SameBasis DEF BgpInv, Place, Lent, Interfaces, Intf
      <4>3. QED
        BY <4>1, <4>2
    <3>3. Roles' /\ Confeds'
      <4>1. (\A l : LinkAs(l)' = LinkAs(l)) /\ ConfedErrors' = ConfedErrors /\ \A a : ConfedOf(a)' = ConfedOf(a)
        BY <3>1 DEF LinkAs, InterfaceAs, Intf, ConfedErrors, ConfedOf
      <4>2. Roles'
        BY <3>1, <4>1 DEF BgpInv, Roles
      <4>3. Confeds'
        BY <3>1, <4>1 DEF BgpInv, Confeds, Settled
      <4>4. QED
        BY <4>2, <4>3
    <3>4. (\A n : Started(n)' <=> Started(n)) /\ (\A n, p : Looked(n, p)' <=> Looked(n, p)) /\ (Settled' <=> Settled)
      BY <3>1 DEF Started, Looked, Settled, Neighbors, Own, Interfaces, Intf
    <3>5. Typed' /\ EbgpFrom' /\ EbgpAll' /\ Allowed'
      BY <3>1, <3>4, SameBasis DEF BgpInv, Typed, EbgpFrom, EbgpAll, Allowed
    <3>6. IbgpFrom' /\ IbgpAll'
      BY <3>1, <3>4, IbgpHolds DEF BgpInv, IbgpFrom, IbgpAll
    <3>7. QED
      BY <3>2, <3>3, <3>5, <3>6 DEF BgpInv
  <2>2. CASE RoutingNext
    <3>1. Lists'
      <4>1. CASE ~Settled
        BY <2>2, <4>1, ListsBegin
      <4>2. CASE Settled /\ BgpStep /\ BuildIbgpSessions
        BY <2>2, <4>2, ListStarts
      <4>3. CASE Settled /\ BgpStep /\ BuildEbgpSession
        BY <2>2, <4>3, ListGrows
      <4>4. CASE Settled /\ BgpStep /\ LocalasIbgpNhsFixup
        BY <2>2, <4>4, ListEnds
      <4>5. CASE Settled /\ BgpStep /\ PostTransform
        <5>1. stage = "ibgp" /\ stage' \in {"aborted", "done"} /\ UNCHANGED <<lab, k, todo, sessions>>
          BY <4>5 DEF PostTransform
        <5>2. (\A n : Started(n)' <=> Started(n)) /\ (\A n, p : Looked(n, p)' <=> Looked(n, p))
          BY <5>1 DEF Started, Looked, Neighbors, Own, Interfaces, Intf
        <5>3. QED
          BY <2>2, <4>5, <5>1, <5>2, SameLists
      <4>6. CASE Settled /\ IgpStep
        <5>1. lab' = lab /\ UNCHANGED <<stage, k, todo, sessions>>
          BY <2>2, <4>6, LabStays DEF IgpStep
        <5>2. (\A n : Started(n)' <=> Started(n)) /\ (\A n, p : Looked(n, p)' <=> Looked(n, p))
          BY <5>1 DEF Started, Looked, Neighbors, Own, Interfaces, Intf
        <5>3. QED
          BY <2>2, <4>6, <5>1, <5>2, SameLists
      <4>7. Settled /\ BgpStep => BuildIbgpSessions \/ BuildEbgpSession \/ LocalasIbgpNhsFixup \/ PostTransform
        BY DEF Settled, BgpStep, Next, ProcessAsList, NodePreTransform, EbgpRoleLink, ModulePostTransform
      <4>8. QED
        BY <2>2, <4>1, <4>2, <4>3, <4>4, <4>5, <4>6, <4>7 DEF RoutingNext
    <3>2. QED
      BY <2>2, <3>1, DataStep, RolesStep, PlaceStep DEF BgpInv, Lists
  <2>3. QED
    BY <2>1, <2>2
<1>2. QED
  BY BgpInit, <1>1, PTL DEF RoutingSpec

LEMMA AtDone ==
  ASSUME BgpInv, stage = "done"
  PROVE  Settled /\ ~failed /\ (\A n \in Nodes : Started(n)) /\ \A n \in Nodes : \A p \in Neighbors(n) : Looked(n, p)
<1>1. Settled /\ ~failed /\ k > Len(lab.nodes) /\ lab.nodes \in Seq(DOMAIN lab.as) /\ k \in Nat
  BY NodesAreNodes DEF BgpInv, Place, Data, Settled
<1>2. \A n \in Nodes : Started(n)
  <2>1. SUFFICES ASSUME NEW n \in Nodes PROVE Started(n)
    OBVIOUS
  <2>2. PICK x \in DOMAIN lab.nodes : lab.nodes[x] = n
    BY <1>1 DEF Nodes, ToSet
  <2>3. x \in 1..k - 1
    BY <1>1
  <2>4. QED
    BY <2>2, <2>3 DEF Started
<1>3. QED
  BY <1>1, <1>2 DEF Looked

-----------------------------------------------------------------------------
(* IBGP: reflectors, clients and the mesh                                   *)

LEMMA PeersAreMutual ==
  ASSUME NEW n \in Nodes, NEW m \in IbgpPeers(n)
  PROVE  m \in Nodes \ {n} /\ as[m] = as[n] /\ n \in IbgpPeers(m)
<1>1. m \in Nodes \ {n} /\ as[m] = as[n]
  BY DEF IbgpPeers, FindRr
<1>2. n \in IbgpPeers(m)
  BY <1>1 DEF IbgpPeers, FindRr, KeepsMesh
<1>3. QED
  BY <1>1, <1>2

\* Two peers that speak a family over IBGP have sessions for it.
LEMMA PeersTalk ==
  ASSUME BgpInv, stage = "done", DaemonsAreNumbered, NEW n \in Nodes, NEW m \in IbgpPeers(n), NEW af \in AF, Speaks(n, af), Speaks(m, af)
  PROVE  /\ Ibgp(n, m, af) /\ Ibgp(m, n, af)
         /\ \E s \in sessions[n] : s.type = "ibgp" /\ s.peer = m /\ s.client = IsClient(n, m)
<1>1. ASSUME NEW a \in Nodes, NEW b \in IbgpPeers(a), Speaks(a, af), Speaks(b, af)
      PROVE  Ibgp(a, b, af) /\ \E s \in sessions[a] : s.type = "ibgp" /\ s.peer = b /\ s.client = IsClient(a, b)
  <2>1. Listed(b)[af] # "none" /\ "ibgp" \in lab.sessions[a][af]
    BY <1>1, EndpointIsListed DEF BgpInv, Speaks
  <2>2. Transport(a, "ibgp", Listed(b))[af] # "none"
    BY <2>1 DEF Transport
  <2>3. Transport(a, "ibgp", Listed(b)) # NoAddress
    BY <2>2 DEF NoAddress
  <2>4. PICK h \in {"ebgp", "all"} : IbgpWith(a, b, h) \in sessions[a]
    BY <1>1, <2>3, AtDone DEF BgpInv, IbgpAll
  <2>5. IbgpWith(a, b, h).type = "ibgp" /\ IbgpWith(a, b, h).peer = b /\ IbgpWith(a, b, h).to[af] # "none"
    BY <2>2 DEF IbgpWith
  <2>6. IbgpWith(a, b, h).client = IsClient(a, b)
    BY DEF IbgpWith
  <2>7. QED
    BY <2>4, <2>5, <2>6 DEF Ibgp
<1>2. m \in Nodes /\ n \in IbgpPeers(m)
  BY PeersAreMutual
<1>3. QED
  BY <1>1, <1>2

\* Every route of a node reaches the other nodes of its AS, over a session or
\* a reflector, in every lab whose daemons have numbered interfaces or a
\* loopback, whatever rr, rr_list, as_list and rr_mesh say (build_ibgp_sessions, bgp.py).
THEOREM RoutesAreReached == RoutingSpec => [](DaemonsAreNumbered => RoutesReach)
<1>1. BgpInv => (DaemonsAreNumbered => RoutesReach)
  <2> SUFFICES ASSUME BgpInv, DaemonsAreNumbered, stage = "done", NEW n \in Nodes, NEW m \in Nodes, NEW af \in AF,
                      n # m, as[n] = as[m], Speaks(n, af), Speaks(m, af),
                      ~({n, m} \subseteq FindRr(as[n]) \cap lab.noMesh),
                      FindRr(as[n]) = {} \/ (~(rr[n] = "no" /\ rr[m] = "no") /\ \E r \in FindRr(as[n]) : Speaks(r, af))
               PROVE  \/ Ibgp(n, m, af) /\ Ibgp(m, n, af)
                      \/ \E r \in Nodes \ {n, m} : /\ Ibgp(n, r, af) /\ Ibgp(r, n, af) /\ Ibgp(m, r, af) /\ Ibgp(r, m, af)
                                                   /\ Reflects(r, n, m)
    BY DEF RoutesReach
  <2>1. CASE FindRr(as[n]) = {} \/ Rr(n)
    <3>1. m \in IbgpPeers(n)
      BY <2>1 DEF IbgpPeers, FindRr, KeepsMesh
    <3>2. QED
      BY <3>1, PeersTalk
  <2>2. CASE Rr(m)
    <3>1. n \in IbgpPeers(m)
      BY <2>2 DEF IbgpPeers, FindRr, KeepsMesh
    <3>2. QED
      BY <3>1, PeersTalk
  <2>3. CASE FindRr(as[n]) # {} /\ ~Rr(n) /\ ~Rr(m)
    <3>1. PICK r \in FindRr(as[n]) : Speaks(r, af)
      BY <2>3
    <3>2. r \in Nodes \ {n, m} /\ Rr(r) /\ as[r] = as[n]
      BY <2>3, <3>1 DEF FindRr
    <3>3. r \in IbgpPeers(n) /\ r \in IbgpPeers(m)
      BY <2>3, <3>1 DEF IbgpPeers
    <3>4. n \in IbgpPeers(r) /\ m \in IbgpPeers(r)
      BY <3>3, PeersAreMutual
    <3>5. Ibgp(n, r, af) /\ Ibgp(r, n, af) /\ Ibgp(m, r, af) /\ Ibgp(r, m, af)
      BY <3>1, <3>3, PeersTalk
    <3>6. PICK c \in {n, m} : rr[c] = ""
      <4>1. rr[n] \in {"", "yes", "no"} /\ rr[m] \in {"", "yes", "no"}
        BY NodesAreNodes DEF BgpInv, Data
      <4>2. QED
        BY <2>3, <4>1 DEF Rr
    <3>7. PICK s \in sessions[r] : s.type = "ibgp" /\ s.peer = c /\ s.client = IsClient(r, c)
      BY <3>1, <3>2, <3>4, PeersTalk
    <3>8. IsClient(r, c)
      BY <3>2, <3>6 DEF IsClient
    <3>9. Reflects(r, n, m)
      BY <3>7, <3>8 DEF Reflects
    <3>10. QED
      BY <3>2, <3>5, <3>9
  <2>4. QED
    BY <2>1, <2>2, <2>3
<1>2. QED
  BY BgpInvariance, <1>1, PTL

-----------------------------------------------------------------------------
(* The two ends of a session                                                *)

\* The AS a node shows to AS x: that of its confederation to those outside.
Real(C, A, confed, x) == IF C # NoAs /\ x \notin confed[C] THEN C ELSE A
\* What a node of system A knows of its confederation.
Member(A, C, confed) ==
  /\ A \in Nat \ {NoAs} /\ A \notin DOMAIN confed /\ C \in Nat
  /\ C = NoAs => \A c \in DOMAIN confed : A \notin confed[c]
  /\ C # NoAs => C \in DOMAIN confed /\ A \in confed[C] /\ \A c \in DOMAIN confed : A \in confed[c] => c = C
Outsider(L, confed) == L \in Nat /\ L \notin DOMAIN confed /\ \A c \in DOMAIN confed : L \notin confed[c]

\* What one end takes for the AS of the other, and what both agree on.
Seen(La, A, Lb, B, Cb, confed) == Or(Lb, Real(Cb, B, confed, Or(La, A)))
Agree(La, A, Ca, Lb, B, Cb, confed, Oa, Ob, Ra, Rb) ==
  /\ Rb # NoAs /\ ~(B = Real(Ca, A, confed, Ob) /\ Ob = Rb)
  /\ Ra = Oa <=> Rb = Ob
  /\ (Ca # NoAs /\ Ra \in confed[Ca] \ {A}) <=> (Cb # NoAs /\ Rb \in confed[Cb] \ {B})
  /\ Ra = IF Lb # NoAs THEN Lb ELSE Real(Cb, B, confed, Rb)
  /\ Rb = IF La # NoAs THEN La ELSE Real(Ca, A, confed, Ra)

\* Two ends of systems A and B, with local systems La and Lb: what one looks
\* at, the other does, with the same type and the right numbers.
LEMMA EndsAgree ==
  ASSUME NEW confed, NoAs \notin DOMAIN confed, \A c \in DOMAIN confed : \A a \in confed[c] : a \notin DOMAIN confed,
         NEW A, NEW Ca, Member(A, Ca, confed), NEW B, NEW Cb, Member(B, Cb, confed),
         NEW La, Outsider(La, confed), NEW Lb, Outsider(Lb, confed),
         ~(A = Real(Cb, B, confed, Or(La, A)) /\ Or(La, A) = Seen(La, A, Lb, B, Cb, confed))
  PROVE  Agree(La, A, Ca, Lb, B, Cb, confed, Or(La, A), Or(Lb, B), Seen(La, A, Lb, B, Cb, confed), Seen(Lb, B, La, A, Ca, confed))
<1> DEFINE Oa == Or(La, A)
           Ob == Or(Lb, B)
           Ra == Seen(La, A, Lb, B, Cb, confed)
           Rb == Seen(Lb, B, La, A, Ca, confed)
<1>0. /\ Oa = Or(La, A) /\ Ob = Or(Lb, B) /\ Ra = Or(Lb, Real(Cb, B, confed, Oa)) /\ Rb = Or(La, Real(Ca, A, confed, Ob))
      /\ ~(A = Real(Cb, B, confed, Oa) /\ Oa = Ra)
  BY DEF Seen
<1> HIDE DEF Oa, Ob, Ra, Rb
<1> SUFFICES Agree(La, A, Ca, Lb, B, Cb, confed, Oa, Ob, Ra, Rb)
  BY DEF Oa, Ob, Ra, Rb
<1>1. CASE La = NoAs /\ Lb = NoAs
  <2>1. Oa = A /\ Ob = B /\ Ra = Real(Cb, B, confed, A) /\ Rb = Real(Ca, A, confed, B)
    BY <1>0, <1>1 DEF Or
  <2>2. A # B
    BY <1>0, <2>1 DEF Real, Member
  <2>3. Ra \in {B, Cb} /\ Rb \in {A, Ca} /\ Ra # A /\ Rb # B /\ Rb # NoAs
    BY <1>0, <2>1, <2>2 DEF Real, Member
  <2>4. (Ca # NoAs /\ Ra \in confed[Ca] \ {A}) <=> (Ca # NoAs /\ Ca = Cb)
    BY <1>0, <2>1, <2>2 DEF Real, Member
  <2>5. (Cb # NoAs /\ Rb \in confed[Cb] \ {B}) <=> (Cb # NoAs /\ Ca = Cb)
    BY <1>0, <2>1, <2>2 DEF Real, Member
  <2>6. Ra = Real(Cb, B, confed, Rb) /\ Rb = Real(Ca, A, confed, Ra)
    BY <1>0, <2>1, <2>2 DEF Real, Member
  <2>7. QED
    BY <1>1, <2>1, <2>3, <2>4, <2>5, <2>6 DEF Agree
<1>2. CASE La # NoAs /\ Lb = NoAs
  <2>1. Oa = La /\ Ob = B /\ Ra = Real(Cb, B, confed, La) /\ Rb = La
    BY <1>0, <1>2 DEF Or
  <2>2. Ra = IF Cb # NoAs THEN Cb ELSE B
    BY <1>2, <2>1 DEF Real, Outsider, Member
  <2>3. ~(B = Real(Ca, A, confed, B) /\ B = La)
    BY <1>0, <1>2, <2>1, <2>2 DEF Real, Outsider, Member
  <2>4. Ra = La <=> La = B
    BY <1>2, <2>2 DEF Outsider, Member
  <2>5. ~(Ca # NoAs /\ Ra \in confed[Ca] \ {A}) /\ ~(Cb # NoAs /\ La \in confed[Cb] \ {B})
    BY <1>2, <2>2 DEF Outsider, Member
  <2>6. QED
    BY <1>2, <2>1, <2>3, <2>4, <2>5 DEF Agree
<1>3. CASE La = NoAs /\ Lb # NoAs
  <2>1. Oa = A /\ Ob = Lb /\ Ra = Lb /\ Rb = Real(Ca, A, confed, Lb)
    BY <1>0, <1>3 DEF Or
  <2>2. Rb = IF Ca # NoAs THEN Ca ELSE A
    BY <1>3, <2>1 DEF Real, Outsider, Member
  <2>3. ~(B = Rb /\ Lb = Rb)
    BY <1>0, <1>3, <2>1, <2>2 DEF Real, Outsider, Member
  <2>4. Rb = Lb <=> Lb = A
    BY <1>3, <2>2 DEF Outsider, Member
  <2>5. ~(Cb # NoAs /\ Rb \in confed[Cb] \ {B}) /\ ~(Ca # NoAs /\ Lb \in confed[Ca] \ {A})
    BY <1>3, <2>2 DEF Outsider, Member
  <2>6. Rb # NoAs
    BY <2>2 DEF Member
  <2>7. QED
    BY <1>3, <2>1, <2>3, <2>4, <2>5, <2>6 DEF Agree
<1>4. CASE La # NoAs /\ Lb # NoAs
  <2>1. Oa = La /\ Ob = Lb /\ Ra = Lb /\ Rb = La
    BY <1>0, <1>4 DEF Or
  <2>2. Real(Cb, B, confed, La) = (IF Cb # NoAs THEN Cb ELSE B) /\ Real(Ca, A, confed, Lb) = (IF Ca # NoAs THEN Ca ELSE A)
    BY <1>4 DEF Real, Outsider, Member
  <2>3. ~(B = Real(Ca, A, confed, Lb) /\ Lb = La)
    BY <1>0, <1>4, <2>1, <2>2 DEF Outsider, Member
  <2>4. ~(Ca # NoAs /\ Lb \in confed[Ca] \ {A}) /\ ~(Cb # NoAs /\ La \in confed[Cb] \ {B})
    BY <1>4 DEF Outsider, Member
  <2>5. QED
    BY <1>4, <2>1, <2>2, <2>3, <2>4 DEF Agree, Real
<1>5. QED
  BY <1>1, <1>2, <1>3, <1>4

\* A neighbor on an interface, seen from both ends.
LEMMA NeighborFacts ==
  ASSUME WellFormed(lab), NEW n, NEW p \in Neighbors(n)
  PROVE  LET l == p[1]
             i == p[2]
             j == p[3]
         IN  /\ p = <<l, i, j>> /\ <<l, i>> \in Interfaces /\ <<l, j>> \in Interfaces /\ i # j /\ Intf(l, i).node = n
             /\ <<l, i>> \in Own(n) /\ <<l, j>> \in Own(Intf(l, j).node) /\ <<l, j, i>> \in Neighbors(Intf(l, j).node)
             /\ l \in DOMAIN lab.links /\ i \in DOMAIN lab.links[l].intfs /\ j \in DOMAIN lab.links[l].intfs
<1>1. PICK q \in Own(n) : p \in {<<q[1], q[2], j>> : j \in DOMAIN lab.links[q[1]].intfs \ {q[2]}}
  BY DEF Neighbors
<1>2. PICK j \in DOMAIN lab.links[q[1]].intfs \ {q[2]} : p = <<q[1], q[2], j>>
  BY <1>1
<1>3. q = <<q[1], q[2]>> /\ q[1] \in DOMAIN lab.links /\ q[2] \in DOMAIN lab.links[q[1]].intfs /\ q \in Interfaces
  BY InterfaceFacts DEF Own
<1>4. Intf(q[1], q[2]).node = n
  BY DEF Own
<1>5. <<q[1], j>> \in Interfaces
  BY <1>2, <1>3 DEF Interfaces
<1>6. <<q[1], j>> \in Own(Intf(q[1], j).node)
  BY <1>5 DEF Own
<1>7. <<q[1], j, q[2]>> \in Neighbors(Intf(q[1], j).node)
  BY <1>2, <1>3, <1>6 DEF Neighbors
<1>8. QED
  BY <1>2, <1>3, <1>4, <1>5, <1>6, <1>7

LEMMA EndFacts ==
  ASSUME WellFormed(lab), NEW n, NEW l, NEW i, NEW j, <<l, i, j>> \in Neighbors(n)
  PROVE  /\ <<l, i>> \in Interfaces /\ <<l, j>> \in Interfaces /\ i # j /\ Intf(l, i).node = n
         /\ <<l, i>> \in Own(n) /\ <<l, j>> \in Own(Intf(l, j).node) /\ <<l, j, i>> \in Neighbors(Intf(l, j).node)
<1>1. PICK p \in Neighbors(n) : p = <<l, i, j>>
  OBVIOUS
<1>2. p[1] = l /\ p[2] = i /\ p[3] = j
  BY <1>1
<1>3. QED
  BY <1>2, NeighborFacts

LEMMA ConfedFacts ==
  ASSUME BgpInv, Settled, ~failed
  PROVE  /\ NoAs \notin DOMAIN lab.confed /\ \A c \in DOMAIN lab.confed : \A a \in lab.confed[c] : a \notin DOMAIN lab.confed
         /\ \A n \in Nodes : Member(as[n], confedAs[n], lab.confed)
<1>1. ~ConfedErrors /\ as \in [DOMAIN lab.as -> Nat] /\ Nodes \subseteq DOMAIN lab.as
  BY NodesAreNodes DEF BgpInv, Confeds, Data
<1>2. NoAs \notin DOMAIN lab.confed /\ DOMAIN lab.confed \subseteq Nat
  BY DEF BgpInv, WellFormed, NoAs
<1>3. \A c \in DOMAIN lab.confed : \A a \in lab.confed[c] : a \notin DOMAIN lab.confed /\ ConfedOf(a) = {c}
  BY <1>1 DEF ConfedErrors
<1>4. ASSUME NEW n \in Nodes PROVE Member(as[n], confedAs[n], lab.confed)
  <2>1. as[n] \in Nat \ {NoAs}
    BY <1>1, <1>4 DEF BgpInv, Data, Settled
  <2>2. as[n] \notin DOMAIN lab.confed /\ (ConfedOf(as[n]) # {} => "confederation" \in lab.features[n])
    BY <1>1 DEF ConfedErrors
  <2>3. confedAs[n] = IF ConfedOf(as[n]) = {} \/ "confederation" \notin lab.features[n] THEN NoAs ELSE CHOOSE c \in ConfedOf(as[n]) : TRUE
    BY <1>1, <1>4 DEF BgpInv, Confeds
  <2>4. CASE ConfedOf(as[n]) = {}
    <3>1. confedAs[n] = NoAs /\ \A c \in DOMAIN lab.confed : as[n] \notin lab.confed[c]
      BY <2>3, <2>4 DEF ConfedOf
    <3>2. confedAs[n] \in Nat
      BY <3>1 DEF NoAs
    <3>3. QED
      BY <2>1, <2>2, <3>1, <3>2 DEF Member
  <2>5. CASE ConfedOf(as[n]) # {}
    <3>1. confedAs[n] \in ConfedOf(as[n])
      BY <2>2, <2>3, <2>5
    <3>2. confedAs[n] \in DOMAIN lab.confed /\ as[n] \in lab.confed[confedAs[n]]
      BY <3>1 DEF ConfedOf
    <3>3. ConfedOf(as[n]) = {confedAs[n]}
      BY <1>3, <3>2
    <3>4. \A c \in DOMAIN lab.confed : as[n] \in lab.confed[c] => c = confedAs[n]
      BY <3>3 DEF ConfedOf
    <3>5. QED
      BY <1>2, <2>1, <2>2, <3>2, <3>4 DEF Member
  <2>6. QED
    BY <2>4, <2>5
<1>5. QED
  BY <1>2, <1>3, <1>4

\* No node, link or interface pretends to be a confederation or a member of one.
LocalAsOutside ==
  LET inside == DOMAIN lab.confed \cup UNION {lab.confed[c] : c \in DOMAIN lab.confed}
  IN  /\ \A n \in DOMAIN lab.as : lab.localAs[n] \notin inside
      /\ \A p \in Interfaces : lab.links[p[1]].localAs \notin inside /\ Intf(p[1], p[2]).localAs \notin inside

LEMMA LocalAsFacts ==
  ASSUME WellFormed(lab), NEW l, NEW i, <<l, i>> \in Interfaces
  PROVE  LocalAs(l, i) \in Nat /\ (LocalAsOutside => Outsider(LocalAs(l, i), lab.confed))
<1>1. Intf(l, i).localAs \in Nat /\ lab.links[l].localAs \in Nat /\ Intf(l, i).node \in ToSet(lab.order)
  <2>1. \A q \in Interfaces : Intf(q[1], q[2]).localAs \in Nat /\ lab.links[q[1]].localAs \in Nat /\ Intf(q[1], q[2]).node \in ToSet(lab.order)
    BY InterfaceFacts
  <2>2. QED
    BY <2>1
<1>2. Intf(l, i).node \in DOMAIN lab.as
  <2>1. lab.order \in Seq(DOMAIN lab.as)
    BY DEF WellFormed
  <2>2. QED
    BY <1>1, <2>1 DEF ToSet
<1>3. lab.localAs[Intf(l, i).node] \in Nat
  BY <1>2 DEF WellFormed
<1>4. LocalAs(l, i) \in {NoAs, Intf(l, i).localAs, lab.links[l].localAs, lab.localAs[Intf(l, i).node]}
  BY DEF LocalAs, Or
<1>5. LocalAs(l, i) \in Nat
  BY <1>1, <1>3, <1>4 DEF NoAs
<1>6. ASSUME LocalAsOutside PROVE Outsider(LocalAs(l, i), lab.confed)
  <2> DEFINE inside == DOMAIN lab.confed \cup UNION {lab.confed[c] : c \in DOMAIN lab.confed}
  <2>1. lab.localAs[Intf(l, i).node] \notin inside /\ lab.links[l].localAs \notin inside /\ Intf(l, i).localAs \notin inside
    BY <1>2, <1>6 DEF LocalAsOutside
  <2>2. NoAs \notin inside
    BY DEF WellFormed, NoAs
  <2>3. LocalAs(l, i) \notin inside
    BY <1>4, <2>1, <2>2
  <2>4. QED
    BY <1>5, <2>3 DEF Outsider
<1>7. QED
  BY <1>5, <1>6

\* The AS a node shows is that of its confederation to those who are not in it.
LEMMA RealAsIs ==
  ASSUME NEW m, Member(as[m], confedAs[m], lab.confed), NEW x
  PROVE  /\ RealAs(m, x) = Real(confedAs[m], as[m], lab.confed, x)
         /\ \A y : y \in Peers(m) <=> confedAs[m] # NoAs /\ y \in lab.confed[confedAs[m]] \ {as[m]}
<1>1. \A y : y \in Peers(m) <=> confedAs[m] # NoAs /\ y \in lab.confed[confedAs[m]] \ {as[m]}
  BY DEF Peers
<1>2. confedAs[m] # NoAs => (x \in Peers(m) \cup {as[m]} <=> x \in lab.confed[confedAs[m]])
  BY <1>1 DEF Member
<1>3. RealAs(m, x) = Real(confedAs[m], as[m], lab.confed, x)
  BY <1>2 DEF RealAs, Real
<1>4. QED
  BY <1>1, <1>3

\* The other end of a session on an interface does the same.
EndsMeet(l, i, j, n, m) ==
  /\ Considered(l, j, i) /\ Type(l, j, i) = Type(l, i, j)
  /\ RemoteAs(l, i, j) = IF LocalAs(l, j) # NoAs THEN LocalAs(l, j) ELSE Real(confedAs[m], as[m], lab.confed, RemoteAs(l, j, i))
  /\ RemoteAs(l, j, i) = IF LocalAs(l, i) # NoAs THEN LocalAs(l, i) ELSE Real(confedAs[n], as[n], lab.confed, RemoteAs(l, i, j))

LEMMA OtherEnd ==
  ASSUME BgpInv, stage = "done", LocalAsOutside, NEW n \in Nodes, NEW l, NEW i, NEW j, <<l, i, j>> \in Neighbors(n),
         Considered(l, i, j), HasBgp(l, j), NEW m, m = Intf(l, j).node
  PROVE  EndsMeet(l, i, j, n, m)
<1>1. Settled /\ ~failed /\ WellFormed(lab) /\ m \in Nodes
  BY AtDone DEF BgpInv, HasBgp
<1>2. <<l, i>> \in Interfaces /\ <<l, j>> \in Own(m) /\ <<l, j>> \in Interfaces /\ Intf(l, i).node = n
  BY <1>1, EndFacts
<1>3. Outsider(LocalAs(l, i), lab.confed) /\ Outsider(LocalAs(l, j), lab.confed)
  BY <1>1, <1>2, LocalAsFacts
<1>4. Member(as[n], confedAs[n], lab.confed) /\ Member(as[m], confedAs[m], lab.confed)
      /\ NoAs \notin DOMAIN lab.confed /\ \A c \in DOMAIN lab.confed : \A a \in lab.confed[c] : a \notin DOMAIN lab.confed
  BY <1>1, ConfedFacts
<1>5. /\ OwnAs(l, i) = Or(LocalAs(l, i), as[n]) /\ OwnAs(l, j) = Or(LocalAs(l, j), as[m])
      /\ RemoteAs(l, i, j) = Seen(LocalAs(l, i), as[n], LocalAs(l, j), as[m], confedAs[m], lab.confed)
      /\ RemoteAs(l, j, i) = Seen(LocalAs(l, j), as[m], LocalAs(l, i), as[n], confedAs[n], lab.confed)
  BY <1>2, <1>4, RealAsIs DEF OwnAs, RemoteAs, Seen
<1>6. ~(as[n] = Real(confedAs[m], as[m], lab.confed, OwnAs(l, i)) /\ OwnAs(l, i) = RemoteAs(l, i, j)) /\ Usable(l, i) /\ Usable(l, j)
  BY <1>2, <1>4, RealAsIs DEF Considered
<1>7. /\ RemoteAs(l, j, i) # NoAs /\ ~(as[m] = Real(confedAs[n], as[n], lab.confed, OwnAs(l, j)) /\ OwnAs(l, j) = RemoteAs(l, j, i))
      /\ RemoteAs(l, i, j) = OwnAs(l, i) <=> RemoteAs(l, j, i) = OwnAs(l, j)
      /\ (confedAs[n] # NoAs /\ RemoteAs(l, i, j) \in lab.confed[confedAs[n]] \ {as[n]})
         <=> (confedAs[m] # NoAs /\ RemoteAs(l, j, i) \in lab.confed[confedAs[m]] \ {as[m]})
      /\ RemoteAs(l, i, j) = IF LocalAs(l, j) # NoAs THEN LocalAs(l, j) ELSE Real(confedAs[m], as[m], lab.confed, RemoteAs(l, j, i))
      /\ RemoteAs(l, j, i) = IF LocalAs(l, i) # NoAs THEN LocalAs(l, i) ELSE Real(confedAs[n], as[n], lab.confed, RemoteAs(l, i, j))
  <2>1. Agree(LocalAs(l, i), as[n], confedAs[n], LocalAs(l, j), as[m], confedAs[m], lab.confed, OwnAs(l, i), OwnAs(l, j), RemoteAs(l, i, j), RemoteAs(l, j, i))
    BY <1>3, <1>4, <1>5, <1>6, EndsAgree
  <2>2. QED
    BY <2>1 DEF Agree
<1>8. ~LocalAsError(l, j)
  <2>1. \A p \in Own(m) : ~LocalAsError(p[1], p[2])
    BY <1>1, AtDone DEF BgpInv, Allowed
  <2>2. QED
    BY <1>2, <2>1
<1>9. Considered(l, j, i)
  <2>1. Intf(l, j).bgp
    BY DEF HasBgp, Considered
  <2>2. ~(as[m] = RealAs(n, OwnAs(l, j)) /\ OwnAs(l, j) = RemoteAs(l, j, i))
    BY <1>4, <1>7, RealAsIs
  <2>3. QED
    BY <1>2, <1>6, <1>7, <1>8, <2>1, <2>2 DEF Considered
<1>10. RemoteAs(l, i, j) \in Peers(n) <=> RemoteAs(l, j, i) \in Peers(m)
  BY <1>4, <1>7, RealAsIs
<1>11. Type(l, j, i) = Type(l, i, j)
  BY <1>2, <1>7, <1>10 DEF Type
<1>12. QED
  BY <1>7, <1>9, <1>11 DEF EndsMeet

LEMMA LocalIfsAgree ==
  ASSUME NEW l, NEW i, NEW j, ~RawMixed(l, i, j), ~RawMixed(l, j, i), NEW b \in LocalIfs(l, i, j), NEW c \in LocalIfs(l, j, i)
  PROVE  b = c /\ (\A af \in AF : Intf(l, i).addr[af] = "true" <=> Intf(l, j).addr[af] = "true") /\ (b <=> RawLla(l, i, j))
<1>1. \A af \in AF : Intf(l, i).addr[af] = "true" <=> Intf(l, j).addr[af] = "true"
  BY DEF RawMixed
<1>2. Intf(l, i).addr["ipv6"] = "true" <=> Intf(l, j).addr["ipv6"] = "true"
  BY <1>1 DEF AF
<1>3. b \in BOOLEAN /\ (b <=> RawLla(l, i, j))
  BY <1>2 DEF LocalIfs
<1>4. c \in BOOLEAN /\ (c <=> RawLla(l, j, i))
  BY <1>2 DEF LocalIfs
<1>5. RawLla(l, i, j) <=> RawLla(l, j, i)
  BY DEF RawLla, Unnumbered, Both, Address
<1>6. QED
  BY <1>1, <1>3, <1>4, <1>5

LEMMA EbgpMatches ==
  ASSUME BgpInv, stage = "done", LocalAsOutside, NEW n \in Nodes, NEW s \in sessions[n], s.type # "ibgp", Common(n, s) # {}, Runs(s)
  PROVE  \E t \in sessions[s.peer] : Matches(n, s, t)
<1>1. Settled /\ ~failed /\ WellFormed(lab) /\ \A x \in Nodes : \A p \in Neighbors(x) : Looked(x, p)
  BY AtDone DEF BgpInv
<1>2. PICK p \in Neighbors(n) : Considered(p[1], p[2], p[3]) /\ \E b \in LocalIfs(p[1], p[2], p[3]) : s = EbgpWith(p[1], p[2], p[3], b)
  BY <1>1 DEF BgpInv, EbgpFrom
<1>3. PICK l, i, j : l = p[1] /\ i = p[2] /\ j = p[3]
  OBVIOUS
<1>4. PICK b \in LocalIfs(l, i, j) : s = EbgpWith(l, i, j, b)
  BY <1>2, <1>3
<1>5. PICK m : m = Intf(l, j).node
  OBVIOUS
<1>6. /\ s.peer = m /\ s.type = Type(l, i, j) /\ s.as = RemoteAs(l, i, j) /\ s.to = EbgpTo(l, i, j) /\ s.localAs = LocalAs(l, i)
      /\ s.link = l /\ s.own = i /\ s.remote = j
  BY <1>4, <1>5 DEF EbgpWith
<1>7. s.localIf = b /\ s.rfc8950 = Unnumbered(l, i, j) /\ s.client = (Type(l, i, j) = "localas_ibgp")
  BY <1>4 DEF EbgpWith
<1>8. /\ p = <<l, i, j>> /\ Intf(l, i).node = n /\ <<l, j, i>> \in Neighbors(m) /\ HasBgp(l, j) /\ Wanted(l, j, i) /\ m \in Nodes
  <2>1. /\ p = <<l, i, j>> /\ Intf(l, i).node = n /\ <<l, j, i>> \in Neighbors(m)
    BY <1>1, <1>3, <1>5, NeighborFacts
  <2>2. HasBgp(l, j) /\ Wanted(l, j, i)
    BY <1>6 DEF Runs
  <2>3. QED
    BY <1>5, <2>1, <2>2 DEF HasBgp
<1>9. /\ Considered(l, j, i) /\ Type(l, j, i) = Type(l, i, j)
      /\ RemoteAs(l, i, j) = IF LocalAs(l, j) # NoAs THEN LocalAs(l, j) ELSE Real(confedAs[m], as[m], lab.confed, RemoteAs(l, j, i))
      /\ RemoteAs(l, j, i) = IF LocalAs(l, i) # NoAs THEN LocalAs(l, i) ELSE Real(confedAs[n], as[n], lab.confed, RemoteAs(l, i, j))
  <2>1. Considered(l, i, j) /\ <<l, i, j>> \in Neighbors(n)
    BY <1>2, <1>3, <1>8
  <2>2. EndsMeet(l, i, j, n, m)
    BY <1>5, <1>8, <2>1, OtherEnd
  <2>3. QED
    BY <2>2 DEF EndsMeet
<1>10. /\ Common(n, s) = {af \in AF : EbgpTo(l, i, j)[af] # "none" /\ Intf(l, i).addr[af] # "none" /\ Type(l, i, j) \in lab.sessions[m][af]}
  BY <1>6 DEF Common, Endpoint
<1>11. \A af \in Common(n, s) : EbgpTo(l, j, i)[af] = Intf(l, i).addr[af] /\ EbgpTo(l, i, j)[af] = Intf(l, j).addr[af] /\ Intf(l, i).addr[af] # "none"
                               /\ Intf(l, j).addr[af] # "none" /\ af \in AF
  BY <1>5, <1>8, <1>9, <1>10 DEF EbgpTo, Transport
<1>12. EbgpTo(l, j, i) # NoAddress
  BY <1>11 DEF NoAddress
<1>13. ~RawMixed(l, i, j)
  BY <1>1, <1>2, <1>3 DEF BgpInv, EbgpAll
<1>14. ~RawMixed(l, j, i) /\ \E c \in LocalIfs(l, j, i) : EbgpWith(l, j, i, c) \in sessions[m]
  <2> DEFINE q == <<l, j, i>>
  <2>1. q[1] = l /\ q[2] = j /\ q[3] = i /\ q \in Neighbors(m) /\ Looked(m, q)
    BY <1>1, <1>8
  <2> HIDE DEF q
  <2>2. QED
    BY <1>1, <1>8, <1>9, <1>12, <2>1 DEF BgpInv, EbgpAll
<1>15. PICK c \in LocalIfs(l, j, i) : EbgpWith(l, j, i, c) \in sessions[m]
  BY <1>14
<1>16. PICK t : t = EbgpWith(l, j, i, c)
  OBVIOUS
<1>17. /\ t.peer = n /\ t.type = Type(l, j, i) /\ t.as = RemoteAs(l, j, i) /\ t.to = EbgpTo(l, j, i) /\ t.localAs = LocalAs(l, j)
       /\ t.link = l /\ t.own = j /\ t.remote = i
  BY <1>8, <1>16 DEF EbgpWith
<1>18. t.localIf = c /\ t.rfc8950 = Unnumbered(l, j, i)
  BY <1>16 DEF EbgpWith
<1>19. b = c /\ (\A af \in AF : Intf(l, i).addr[af] = "true" <=> Intf(l, j).addr[af] = "true") /\ (b <=> RawLla(l, i, j))
  BY <1>13, <1>14, LocalIfsAgree
<1>20. t.localIf = s.localIf /\ t.rfc8950 = s.rfc8950
  <2>1. Unnumbered(l, j, i) = Unnumbered(l, i, j)
    BY DEF Unnumbered, Both, Address
  <2>2. QED
    BY <1>7, <1>18, <1>19, <2>1
<1>21. s.client /\ t.client => s.type = "localas_ibgp"
  BY <1>6, <1>7
<1>22. s.as = Shown(s.peer, t) /\ t.as = Shown(n, s)
  <2>1. s.type # "ibgp" /\ t.type # "ibgp"
    BY <1>17 DEF Type
  <2>2. QED
    BY <1>6, <1>9, <1>17, <2>1 DEF Shown, Real
<1>23. ASSUME NEW af \in Common(n, s) PROVE s.to[af] = t.to[af] /\ (s.to[af] = "true" => s.localIf \/ s.rfc8950)
  <2>1. Intf(l, i).addr[af] \in Kinds /\ Intf(l, j).addr[af] \in Kinds
    <3>1. <<l, i>> \in Interfaces /\ <<l, j>> \in Interfaces
      BY <1>1, <1>8, EndFacts
    <3>2. \A q \in Interfaces : Intf(q[1], q[2]).addr \in [AF -> Kinds]
      BY <1>1, InterfaceFacts
    <3>3. Intf(l, i).addr \in [AF -> Kinds] /\ Intf(l, j).addr \in [AF -> Kinds]
      BY <3>1, <3>2
    <3>4. QED
      BY <1>11, <3>3
  <2>2. Intf(l, i).addr[af] = Intf(l, j).addr[af]
    BY <1>11, <1>19, <2>1 DEF Kinds
  <2>3. s.to[af] = t.to[af] /\ s.to[af] = Intf(l, i).addr[af]
    BY <1>6, <1>11, <1>17, <2>2
  <2>4. Intf(l, i).addr[af] = "true" /\ af = "ipv4" => Unnumbered(l, i, j)
    BY <2>2 DEF Unnumbered, Both, Address
  <2>5. Intf(l, i).addr[af] = "true" /\ af = "ipv6" => b
    BY <1>19, <2>2 DEF RawLla
  <2>6. af \in {"ipv4", "ipv6"}
    BY <1>11 DEF AF
  <2>7. QED
    BY <1>7, <2>3, <2>4, <2>5, <2>6
<1>24. Matches(n, s, t)
  BY <1>6, <1>9, <1>17, <1>20, <1>21, <1>22, <1>23 DEF Matches
<1>25. QED
  BY <1>6, <1>15, <1>16, <1>24

LEMMA IbgpMatches ==
  ASSUME BgpInv, stage = "done", DaemonsAreNumbered, NEW n \in Nodes, NEW s \in sessions[n], s.type = "ibgp", Common(n, s) # {}
  PROVE  \E t \in sessions[s.peer] : Matches(n, s, t)
<1>1. Settled /\ ~failed /\ \A x \in Nodes : Started(x)
  BY AtDone
<1>2. PICK m \in IbgpPeers(n), h \in {"ebgp", "all"} : s = IbgpWith(n, m, h)
  BY <1>1 DEF BgpInv, IbgpFrom
<1>3. m \in Nodes \ {n} /\ as[m] = as[n] /\ n \in IbgpPeers(m)
  BY PeersAreMutual
<1>4. /\ s.peer = m /\ s.as = as[m] /\ s.to = Transport(n, "ibgp", Listed(m))
      /\ s.link = 0 /\ s.own = 0 /\ s.remote = 0 /\ s.localIf = FALSE /\ s.rfc8950 = FALSE
  BY <1>2 DEF IbgpWith
<1>5. s.client = IsClient(n, m)
  BY <1>2 DEF IbgpWith
<1>6. Listed(n) = IbgpEndpoint(n) /\ Listed(m) = IbgpEndpoint(m)
  BY EndpointIsListed DEF BgpInv
<1>7. \A af \in Common(n, s) : /\ af \in AF /\ "ibgp" \in lab.sessions[m][af] /\ Listed(n)[af] # "none" /\ s.to[af] # "none"
                              /\ s.to[af] = Listed(m)[af] /\ Transport(m, "ibgp", Listed(n))[af] = Listed(n)[af]
  BY <1>4, <1>6 DEF Common, Endpoint, Transport
<1>8. Transport(m, "ibgp", Listed(n)) # NoAddress
  BY <1>7 DEF NoAddress
<1>9. PICK g \in {"ebgp", "all"} : IbgpWith(m, n, g) \in sessions[m]
  BY <1>1, <1>3, <1>8 DEF BgpInv, IbgpAll
<1>10. PICK t : t = IbgpWith(m, n, g)
  OBVIOUS
<1>11. /\ t.peer = n /\ t.type = "ibgp" /\ t.as = as[n] /\ t.to = Transport(m, "ibgp", Listed(n))
       /\ t.link = 0 /\ t.own = 0 /\ t.remote = 0 /\ t.localIf = FALSE /\ t.rfc8950 = FALSE
  BY <1>10 DEF IbgpWith
<1>12. t.client = IsClient(m, n)
  BY <1>10 DEF IbgpWith
<1>13. ~(s.client /\ t.client)
  BY <1>5, <1>12 DEF IsClient, Rr
<1>14. \A x \in {n, m} : confedAs[x] # NoAs => as[n] \in lab.confed[confedAs[x]]
  BY <1>1, <1>3, ConfedFacts DEF Member
<1>15. s.as = Shown(s.peer, t) /\ t.as = Shown(n, s)
  BY <1>3, <1>4, <1>11, <1>14 DEF Shown
<1>16. \A x \in {n, m}, af \in AF : Listed(x)[af] \in {"none", "number"}
  <2>1. ASSUME NEW x \in {n, m}, NEW af \in AF PROVE Listed(x)[af] \in {"none", "number"}
    <3>1. CASE lab.loopback[x] # {}
      BY <3>1 DEF Listed
    <3>2. CASE lab.loopback[x] = {} /\ x \in lab.daemon /\ Own(x) # {}
      <4> DEFINE best == CpInterface(x)
      <4>1. best \in Own(x) /\ WellFormed(lab)
        BY <3>2, BestInterface DEF BgpInv
      <4>2. Intf(best[1], best[2]).addr[af] # "true"
        BY <3>2, <4>1 DEF DaemonsAreNumbered
      <4>3. Intf(best[1], best[2]).addr \in [AF -> Kinds]
        BY <4>1, InterfaceFacts DEF Own
      <4>4. Intf(best[1], best[2]).addr[af] \in {"none", "number"}
        BY <4>2, <4>3 DEF Kinds
      <4>5. QED
        BY <3>2, <4>4 DEF Listed
    <3>3. CASE lab.loopback[x] = {} /\ ~(x \in lab.daemon /\ Own(x) # {})
      BY <3>3 DEF Listed, NoAddress
    <3>4. QED
      BY <3>1, <3>2, <3>3
  <2>2. QED
    BY <2>1
<1>17. \A af \in Common(n, s) : s.to[af] = "number" /\ t.to[af] = "number"
  BY <1>7, <1>11, <1>16
<1>18. Matches(n, s, t)
  <2>1. t.type = s.type /\ t.link = s.link /\ t.own = s.remote /\ t.remote = s.own /\ t.localIf = s.localIf /\ t.rfc8950 = s.rfc8950
    BY <1>4, <1>11
  <2>2. \A af \in Common(n, s) : s.to[af] = t.to[af] /\ (s.to[af] = "true" => s.localIf \/ s.rfc8950)
    BY <1>17
  <2>3. QED
    BY <1>11, <1>13, <1>15, <2>1, <2>2 DEF Matches
<1>19. QED
  BY <1>4, <1>9, <1>10, <1>18

\* The two ends of every session agree on its type, its addresses and the
\* numbers of the systems, in every lab whose local systems are no members
\* of confederations and whose daemons have numbered interfaces or a
\* loopback: each node put it into its own list, in its own turn
\* (build_ibgp_sessions and build_ebgp_sessions, bgp.py).
THEOREM SessionsAreAgreed == RoutingSpec => [](DaemonsAreNumbered /\ LocalAsOutside => SessionsAgree)
<1>1. BgpInv => (DaemonsAreNumbered /\ LocalAsOutside => SessionsAgree)
  <2> SUFFICES ASSUME BgpInv, DaemonsAreNumbered, LocalAsOutside, stage = "done", NEW n \in Nodes, NEW s \in sessions[n],
                      Common(n, s) # {}, Runs(s)
               PROVE  \E t \in sessions[s.peer] : Matches(n, s, t)
    BY DEF SessionsAgree
  <2>1. CASE s.type = "ibgp"
    BY <2>1, IbgpMatches
  <2>2. CASE s.type # "ibgp"
    BY <2>2, EbgpMatches
  <2>3. QED
    BY <2>1, <2>2
<1>2. QED
  BY BgpInvariance, <1>1, PTL

\* A local AS of a link is not mixed with local systems of its interfaces nor
\* with confederations.
LinkAsIsPlain ==
  \A p \in Interfaces : lab.links[p[1]].localAs # NoAs => Intf(p[1], p[2]).localAs = NoAs /\ confedAs[Intf(p[1], p[2]).node] = NoAs

LEMMA LinkAsHolds ==
  ASSUME NEW l, NEW x \in DOMAIN lab.links[l].intfs, NEW y \in {as[Intf(l, x).node], InterfaceAs(l, x)}, y # NoAs
  PROVE  y \in LinkAs(l)
<1> DEFINE F == {{as[Intf(l, c).node], InterfaceAs(l, c)} : c \in DOMAIN lab.links[l].intfs}
<1>1. {as[Intf(l, x).node], InterfaceAs(l, x)} \in F
  OBVIOUS
<1>2. LinkAs(l) = (UNION F) \ {NoAs}
  BY DEF LinkAs
<1>3. QED
  <2> HIDE DEF F
  <2>1. y \in UNION F
    BY <1>1
  <2>2. QED
    BY <1>2, <2>1

\* A link with a session other than IBGP both ends run has its role by the time
\* IGPs ask for it: the role is set before addresses, confederations and
\* types of sessions are known, without the local AS of the link (set_ebgp_role
\* and build_ebgp_sessions, bgp.py).
THEOREM LinksAreExternal == RoutingSpec => [](LinkAsIsPlain => ExternalLinks)
<1>1. BgpInv => (LinkAsIsPlain => ExternalLinks)
  <2> SUFFICES ASSUME BgpInv, LinkAsIsPlain, stage = "done", NEW n \in Nodes, NEW s \in sessions[n],
                      s.type # "ibgp", Runs(s), role[s.link] = ""
               PROVE  FALSE
    BY DEF ExternalLinks
  <2>1. Settled /\ ~failed /\ WellFormed(lab) /\ as \in [DOMAIN lab.as -> Nat] /\ Nodes \subseteq DOMAIN lab.as
    BY AtDone, NodesAreNodes DEF BgpInv, Data
  <2>2. PICK p \in Neighbors(n) : Considered(p[1], p[2], p[3]) /\ \E b \in LocalIfs(p[1], p[2], p[3]) : s = EbgpWith(p[1], p[2], p[3], b)
    BY <2>1 DEF BgpInv, EbgpFrom
  <2>3. PICK l, i, j : l = p[1] /\ i = p[2] /\ j = p[3]
    OBVIOUS
  <2>4. PICK b \in LocalIfs(l, i, j) : s = EbgpWith(l, i, j, b)
    BY <2>2, <2>3
  <2>5. s.link = l /\ s.own = i /\ s.remote = j
    BY <2>4 DEF EbgpWith
  <2>6. PICK m : m = Intf(l, j).node
    OBVIOUS
  <2>7. /\ p = <<l, i, j>> /\ Intf(l, i).node = n /\ <<l, i>> \in Interfaces /\ <<l, j>> \in Interfaces
        /\ l \in DOMAIN lab.links /\ i \in DOMAIN lab.links[l].intfs /\ j \in DOMAIN lab.links[l].intfs
    BY <2>1, <2>3, NeighborFacts
  <2>8. Considered(l, i, j) /\ HasBgp(l, i) /\ HasBgp(l, j) /\ m \in Nodes
    BY <2>2, <2>3, <2>5, <2>6, <2>7 DEF Considered, HasBgp, Runs
  <2>9. as[n] # NoAs /\ as[m] # NoAs
    BY <2>1, <2>8 DEF BgpInv, Data, Settled
  <2>10. \A a, b_1 \in LinkAs(l) : a = b_1
    BY <2>1, <2>5, <2>7 DEF BgpInv, Roles, Settled
  <2>11. InterfaceAs(l, i) # NoAs /\ InterfaceAs(l, j) # NoAs
    BY <2>6, <2>7, <2>9 DEF InterfaceAs, Or
  <2>12. {as[n], as[m], InterfaceAs(l, i), InterfaceAs(l, j)} \subseteq LinkAs(l)
    <3>1. \A x \in DOMAIN lab.links[l].intfs : \A y \in {as[Intf(l, x).node], InterfaceAs(l, x)} : y # NoAs => y \in LinkAs(l)
      BY LinkAsHolds
    <3>2. as[n] \in LinkAs(l) /\ InterfaceAs(l, i) \in LinkAs(l)
      BY <2>7, <2>9, <2>11, <3>1
    <3>3. as[m] \in LinkAs(l) /\ InterfaceAs(l, j) \in LinkAs(l)
      BY <2>6, <2>7, <2>9, <2>11, <3>1
    <3>4. QED
      BY <3>2, <3>3
  <2>13. as[m] = as[n] /\ InterfaceAs(l, i) = as[n] /\ InterfaceAs(l, j) = as[n]
    BY <2>10, <2>12
  <2>14. CASE lab.links[l].localAs = NoAs
    <3>1. OwnAs(l, i) = InterfaceAs(l, i) /\ OwnAs(l, j) = InterfaceAs(l, j)
      BY <2>8, <2>14 DEF OwnAs, LocalAs, InterfaceAs, Or
    <3>2. RealAs(m, as[n]) = as[n]
      BY <2>13 DEF RealAs
    <3>3. RemoteAs(l, i, j) = as[n]
      BY <2>6, <2>13, <3>1, <3>2 DEF RemoteAs, OwnAs, Or
    <3>4. QED
      BY <2>6, <2>7, <2>8, <2>13, <3>1, <3>2, <3>3 DEF Considered
  <2>15. CASE lab.links[l].localAs # NoAs
    <3>1. Intf(l, i).localAs = NoAs /\ Intf(l, j).localAs = NoAs /\ confedAs[m] = NoAs
      <4>1. \A q \in Interfaces : lab.links[q[1]].localAs # NoAs => Intf(q[1], q[2]).localAs = NoAs /\ confedAs[Intf(q[1], q[2]).node] = NoAs
        BY DEF LinkAsIsPlain
      <4>2. QED
        BY <2>6, <2>7, <2>15, <4>1
    <3>2. OwnAs(l, i) = lab.links[l].localAs /\ LocalAs(l, j) = lab.links[l].localAs
      BY <2>8, <2>15, <3>1 DEF OwnAs, LocalAs, Or
    <3>3. RemoteAs(l, i, j) = lab.links[l].localAs
      BY <2>15, <3>2 DEF RemoteAs, Or
    <3>4. RealAs(m, OwnAs(l, i)) = as[n]
      BY <2>13, <3>1 DEF RealAs
    <3>5. QED
      BY <2>6, <2>7, <2>8, <3>2, <3>3, <3>4 DEF Considered
  <2>16. QED
    BY <2>14, <2>15
<1>2. QED
  BY BgpInvariance, <1>1, PTL
=============================================================================
