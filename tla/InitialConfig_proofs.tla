------------------------- MODULE InitialConfig_proofs -------------------------
(***************************************************************************)
(* Proofs about 'netlab initial', for any nodes, snippets, deployment      *)
(* methods and readiness checks: nobody is waited for long after its       *)
(* deadline, nothing is sent before the checks have passed and the devices *)
(* are normalized, and no snippet is lost without an error.                *)
(***************************************************************************)
EXTENDS InitialConfig, FiniteSetTheorems, SequenceTheorems, WellFoundedInduction, TLAPS

-----------------------------------------------------------------------------
(* Lemmas about numbers and finite sets of them *)

\* A set of numbers has a least element.
LEMMA MinFact ==
  ASSUME NEW S \in SUBSET Nat, S # {}
  PROVE  Min(S) \in S /\ \A y \in S : Min(S) <= y
  <1> DEFINE B(m) == {x \in S : x < m}
             T == {B(m) : m \in S}
  <1>0. \A x \in S : x \in Nat
    OBVIOUS
  <1>1. T \subseteq FiniteSubsetsOf(S) /\ T # {}
    <2>1. ASSUME NEW m \in S
          PROVE  IsFiniteSet(B(m))
      <3>1. m \in Nat /\ \A s \in B(m) : s \in Nat /\ s <= m
        BY <1>0
      <3>2. B(m) \in SUBSET Nat
        BY <3>1
      <3>3. QED
        BY <3>1, <3>2, FS_BoundedSetOfNaturals
    <2>2. QED
      BY <2>1 DEF FiniteSubsetsOf
  <1>2. PICK t \in T : \A u \in T : <<u, t>> \notin StrictSubsetOrdering(S)
    <2>1. IsWellFoundedOn(StrictSubsetOrdering(S), FiniteSubsetsOf(S))
      BY FS_StrictSubsetOrderingWellFounded
    <2>2. QED
      BY <1>1, <2>1, WFMin
  <1>3. PICK m \in S : t = B(m)
    BY <1>2
  <1>4. B(m) = {}
    <2>1. SUFFICES ASSUME NEW y \in B(m) PROVE FALSE
      OBVIOUS
    <2>2. B(y) \in T /\ B(y) \subseteq B(m) /\ B(y) # B(m)
      <3>1. y \in S /\ y < m /\ y \in Nat /\ m \in Nat
        BY <1>0
      <3>2. y \in B(m) /\ y \notin B(y)
        BY <3>1
      <3>3. \A x \in B(y) : x \in S /\ x < m
        BY <1>0, <3>1
      <3>4. QED
        BY <3>1, <3>2, <3>3
    <2>3. <<B(y), B(m)>> \in StrictSubsetOrdering(S)
      BY <2>2 DEF StrictSubsetOrdering
    <2>4. QED
      BY <1>2, <1>3, <2>2, <2>3
  <1>5. \A y \in S : m <= y
    BY <1>4
  <1>6. QED
    BY <1>5 DEF Min

\* The larger one of two numbers.
LEMMA MaxPair ==
  ASSUME NEW x \in Nat, NEW y \in Nat
  PROVE  Max({x, y}) \in Nat /\ Max({x, y}) \in {x, y} /\ Max({x, y}) >= x /\ Max({x, y}) >= y
  <1>1. \E z \in {x, y} : \A v \in {x, y} : z >= v
    <2>1. CASE x >= y
      BY <2>1
    <2>2. CASE ~(x >= y)
      BY <2>2
    <2>3. QED
      BY <2>1, <2>2
  <1>2. QED
    BY <1>1 DEF Max

\* The nodes of a finite set have a largest time.
LEMMA MaxTime ==
  ASSUME NEW D \in [Node -> Nat \ {0}], NEW S \in SUBSET Node, S # {}
  PROVE  /\ Max({D[n] : n \in S}) \in Nat \ {0}
         /\ \A n \in S : D[n] <= Max({D[n_1] : n_1 \in S})
  <1> DEFINE M == {D[n] : n \in S}
             A(n) == {x \in S : D[x] > D[n]}
             T == {A(n) : n \in S}
  <1>0. D \in [Node -> Nat \ {0}] /\ IsFiniteSet(S)
    BY ReadyAssumption, FS_Subset
  <1>1. T \subseteq FiniteSubsetsOf(S) /\ T # {}
    <2>1. \A n \in S : A(n) \in SUBSET S /\ IsFiniteSet(A(n))
      BY <1>0, FS_Subset
    <2>2. T \subseteq FiniteSubsetsOf(S)
      <3>1. SUFFICES ASSUME NEW u \in T PROVE u \in SUBSET S /\ IsFiniteSet(u)
        BY DEF FiniteSubsetsOf
      <3>2. PICK n \in S : u = A(n)
        OBVIOUS
      <3>3. QED
        BY <2>1, <3>2
    <2>3. PICK n \in S : TRUE
      OBVIOUS
    <2>4. A(n) \in T
      OBVIOUS
    <2>5. QED
      BY <2>2, <2>4
  <1>2. PICK t \in T : \A u \in T : <<u, t>> \notin StrictSubsetOrdering(S)
    <2>1. IsWellFoundedOn(StrictSubsetOrdering(S), FiniteSubsetsOf(S))
      BY FS_StrictSubsetOrderingWellFounded
    <2>2. QED
      BY <1>1, <2>1, WFMin
  <1>3. PICK m \in S : t = A(m)
    BY <1>2
  <1>4. A(m) = {}
    <2>1. SUFFICES ASSUME NEW y \in A(m) PROVE FALSE
      OBVIOUS
    <2>2. A(y) \in T /\ A(y) \subseteq A(m) /\ y \notin A(y)
      BY <1>0
    <2>3. <<A(y), A(m)>> \in StrictSubsetOrdering(S)
      BY <2>2 DEF StrictSubsetOrdering
    <2>4. QED
      BY <1>2, <1>3, <2>2, <2>3
  <1>5. \A n \in S : D[m] >= D[n]
    BY <1>0, <1>4
  <1>6. \E z \in M : \A v \in M : z >= v
    BY <1>5
  <1>7. Max(M) \in M /\ \A v \in M : Max(M) >= v
    BY <1>6 DEF Max
  <1>8. \A n \in S : D[n] \in M /\ D[n] \in Nat \ {0}
    BY <1>0
  <1>9. M \subseteq Nat \ {0}
    BY <1>0
  <1>10. QED
    BY <1>7, <1>8, <1>9

\* Whole batches.
LEMMA Division ==
  ASSUME NEW a \in Nat, NEW w \in Nat \ {0}
  PROVE  /\ a \div w \in Nat
         /\ (a \div w) * w <= a /\ a < ((a \div w) + 1) * w
  OBVIOUS

\* Multiplication is monotone.
LEMMA Times ==
  ASSUME NEW a \in Nat, NEW b \in Nat, NEW d \in Nat, a <= b
  PROVE  a * d <= b * d /\ a * d \in Nat /\ b * d \in Nat
  OBVIOUS

\* A quotient is compared by a product.
LEMMA Quotient ==
  ASSUME NEW a \in Nat, NEW q \in Nat, NEW w \in Nat \ {0}
  PROVE  (q * w <= a) <=> (q <= a \div w)
  <1>1. a \div w \in Nat /\ (a \div w) * w <= a /\ a < ((a \div w) + 1) * w
    BY Division
  <1>2. ASSUME q <= a \div w PROVE q * w <= a
    BY <1>1, <1>2, Times
  <1>3. ASSUME ~(q <= a \div w) PROVE ~(q * w <= a)
    <2>1. (a \div w) + 1 <= q
      BY <1>1, <1>3
    <2>2. ((a \div w) + 1) * w <= q * w /\ q * w \in Nat
      BY <1>1, <2>1, Times
    <2>3. QED
      BY <1>1, <2>2
  <1>4. QED
    BY <1>2, <1>3

-----------------------------------------------------------------------------
(* Types, and the checks that are over *)

\* A check that is over has passed on every node it has to, or an error tells
\* that it has not.
Checked(c) == errors \/ MustPass(c) \subseteq passed[c]

\* What holds of the step while its loop runs.
Looping ==
  /\ phase # "enter" =>
       step \in Steps \cap Internal /\ waitlists[step] = asked[step] /\ waitlists[step] # {}
  /\ phase = "enter" => clock = 0
  /\ flight # {} => step \in Polled /\ phase = "poll"

\* A check is waited for as it was asked for, or it is over.
ChecksKept == \A c \in Checks : waitlists[c] = asked[c] \/ (waitlists[c] = {} /\ Checked(c))

ReadyInv == /\ ReadyTypeOK /\ Looping /\ ChecksKept
            /\ step = "ready" => \A c \in Checks : Checked(c)

\* The times of a node and of a step are numbers.
LEMMA WaitTimes ==
  ASSUME ReadyTypeOK, step \in Steps
  PROVE  /\ Waitset \subseteq Node /\ NotReady \subseteq Waitset /\ IsFiniteSet(Waitset)
         /\ \A n \in Node : Wait(n) \in Nat /\ Delay[n] \in Nat \ {0}
         /\ AttemptTime \in [Node -> Nat \ {0}]
         /\ Waitset # {} => PollDelay \in Nat \ {0}
  <1>1. Waitset \subseteq Node
    BY DEF ReadyTypeOK, Waitset, Steps, Checks
  <1>2. IsFiniteSet(Waitset)
    BY <1>1, ReadyAssumption, FS_Subset
  <1>3. NotReady \subseteq Waitset
    BY DEF NotReady
  <1>4. ASSUME NEW n \in Node PROVE Wait(n) \in Nat /\ Delay[n] \in Nat \ {0}
    <2>1. Retries[n] \in Nat /\ Delay[n] \in Nat \ {0} /\ SshTimeout[n] \in Nat
      BY ReadyAssumption
    <2>2. Retries[n] * Delay[n] \in Nat
      BY <2>1, Times
    <2>3. QED
      BY <2>1, <2>2, MaxPair DEF Wait
  <1>5. AttemptTime \in [Node -> Nat \ {0}]
    <2>1. ASSUME NEW n \in Node PROVE SshOperations[n] * Delay[n] \in Nat \ {0}
      <3>1. SshOperations[n] \in Nat \ {0} /\ Delay[n] \in Nat \ {0}
        BY ReadyAssumption
      <3>2. 1 * Delay[n] <= SshOperations[n] * Delay[n] /\ SshOperations[n] * Delay[n] \in Nat
        BY <3>1, Times
      <3>3. QED
        BY <3>1, <3>2
    <2>2. QED
      BY <1>4, <2>1 DEF AttemptTime
  <1>6. ASSUME Waitset # {} PROVE PollDelay \in Nat \ {0}
    <2>1. {Delay[n] : n \in Waitset} \in SUBSET Nat /\ {Delay[n] : n \in Waitset} # {}
      BY <1>1, <1>4, <1>6
    <2>2. PollDelay \in {Delay[n] : n \in Waitset}
      BY <2>1, MinFact DEF PollDelay
    <2>3. QED
      BY <1>1, <1>4, <2>2
  <1>7. QED
    BY <1>1, <1>2, <1>3, <1>4, <1>5, <1>6

\* What a check has to find does not change.
LEMMA MustPassKept ==
  ASSUME asked' = asked, NEW c \in Checks
  PROVE  MustPass(c)' = MustPass(c)
  BY DEF MustPass

\* A step that is entered, or an end other than "ready".
LEMMA GotoKeeps ==
  ASSUME ReadyInv, NEW s \in Steps \cup {"playbook", "exit"}, Goto(s),
         UNCHANGED <<asked, waitlists, passed>>, errors' \in BOOLEAN, errors => errors'
  PROVE  ReadyInv'
  <1>1. ReadyTypeOK'
    BY DEF ReadyInv, ReadyTypeOK, Goto
  <1>2. Looping'
    BY DEF Looping, Goto
  <1>3. ChecksKept'
    BY MustPassKept DEF ReadyInv, ChecksKept, Checked
  <1>4. step' # "ready"
    BY DEF Goto, Steps
  <1>5. QED
    BY <1>1, <1>2, <1>3, <1>4 DEF ReadyInv

\* A check that is over.
LEMMA CompleteKeeps ==
  ASSUME ReadyInv, step \in Steps, NEW S \in SUBSET Node, Complete(S), asked' = asked,
         errors' \in BOOLEAN, errors => errors', errors' \/ MustPass(step) \subseteq S
  PROVE  ReadyInv'
  <1>0. After(step) \in Steps \cup {"playbook"} /\ Steps \subseteq Checks
    BY DEF After, Steps, Checks
  <1>1. ReadyTypeOK'
    BY <1>0 DEF ReadyInv, ReadyTypeOK, Goto, Complete, Pop
  <1>2. Looping'
    BY DEF Looping, Complete, Goto
  <1>3. ChecksKept'
    <2>1. ASSUME NEW c \in Checks
          PROVE  waitlists'[c] = asked'[c] \/ (waitlists'[c] = {} /\ Checked(c)')
      <3>1. CASE c = step
        BY <1>0, <3>1, MustPassKept DEF ReadyInv, ReadyTypeOK, Complete, Pop, Checked
      <3>2. CASE c # step
        <4>1. waitlists'[c] = waitlists[c] /\ passed'[c] = passed[c]
          BY <1>0, <3>2 DEF ReadyInv, ReadyTypeOK, Complete, Pop
        <4>2. QED
          BY <4>1, MustPassKept DEF ReadyInv, ChecksKept, Checked
      <3>3. QED
        BY <3>1, <3>2
    <2>2. QED
      BY <2>1 DEF ChecksKept
  <1>4. step' # "ready"
    BY <1>0 DEF Complete, Goto, Steps
  <1>5. QED
    BY <1>1, <1>2, <1>3, <1>4 DEF ReadyInv

\* A round that begins.
LEMMA StartKeeps ==
  ASSUME ReadyInv, StartLoop, asked' = asked, (\E s \in Steps : Enter(s)) \/ phase = "pause"
  PROVE  ReadyInv'
  <1>0. Steps \subseteq Checks
    BY DEF Steps, Checks
  <1>1. step \in Steps \cap Internal /\ waitlists[step] = asked[step] /\ waitlists[step] # {}
    BY <1>0 DEF ReadyInv, Looping, ChecksKept, Enter
  <1>2. flight = {} /\ NotReady \subseteq Node
    BY <1>1, WaitTimes DEF ReadyInv, Looping, Enter
  <1>3. ReadyTypeOK'
    BY <1>2 DEF ReadyInv, ReadyTypeOK, StartLoop
  <1>4. Looping'
    BY <1>1, <1>2 DEF Looping, StartLoop
  <1>5. ChecksKept' /\ step' # "ready"
    BY <1>1, MustPassKept DEF ReadyInv, ChecksKept, Checked, StartLoop, Steps
  <1>6. QED
    BY <1>3, <1>4, <1>5 DEF ReadyInv

\* Everything that happens in a loop that goes on.
LEMMA LoopKeeps ==
  ASSUME ReadyInv, phase # "enter", phase' \in {"poll", "pause"}, ReadyTypeOK',
         UNCHANGED <<asked, waitlists, step, passed, errors>>,
         flight' # {} => step \in Polled /\ phase' = "poll"
  PROVE  ReadyInv'
  <1>1. Looping'
    BY DEF ReadyInv, Looping
  <1>2. ChecksKept' /\ step' # "ready"
    BY MustPassKept DEF ReadyInv, ChecksKept, Checked, Looping, Steps
  <1>3. QED
    BY <1>1, <1>2 DEF ReadyInv

\* The invariant of the checks holds in the beginning.
LEMMA ReadyStarts == ReadyInit => ReadyInv
  <1>1. SUFFICES ASSUME ReadyInit PROVE ReadyInv
    OBVIOUS
  <1>2. ReadyTypeOK
    <2>1. asked \in [Checks -> SUBSET Node] /\ waitlists = asked
      BY <1>1, ReadyAssumption DEF ReadyInit
    <2>2. passed \in [Checks -> SUBSET Node] /\ verdict \in [Node -> {"none", "ready", "failed"}]
      BY <1>1 DEF ReadyInit
    <2>3. begun \in [Node -> Nat] /\ todo \subseteq Node /\ flight \subseteq Node \ todo
      BY <1>1 DEF ReadyInit
    <2>4. QED
      BY <1>1, <2>1, <2>2, <2>3 DEF ReadyInit, ReadyTypeOK, Steps
  <1>3. Looping /\ ChecksKept /\ step # "ready"
    BY <1>1 DEF ReadyInit, Looping, ChecksKept
  <1>4. QED
    BY <1>2, <1>3 DEF ReadyInv

\* The attempts of a round, its end and the clock.
LEMMA AttemptsKeep ==
  ASSUME ReadyInv, asked' = asked,
         \/ \E n \in Node : Attempt(n) \/ SshAttemptEnds(n) \/ CommandAttemptEnds(n)
         \/ SshRoundEnds \/ Tick \/ (CommandRoundEnds /\ NotReady # {})
  PROVE  ReadyInv'
  <1>0. ReadyTypeOK
    BY DEF ReadyInv
  <1>1. ASSUME NEW n \in Node, Attempt(n) PROVE ReadyInv'
    <2>1. phase # "enter" /\ phase' = "poll" /\ step \in Polled
      BY <1>1 DEF Attempt
    <2>2. ReadyTypeOK'
      BY <1>0, <1>1 DEF Attempt, ReadyTypeOK
    <2>3. QED
      BY <1>1, <2>1, <2>2, LoopKeeps DEF Attempt
  <1>2. ASSUME NEW n \in Node, SshAttemptEnds(n) \/ CommandAttemptEnds(n) PROVE ReadyInv'
    <2>1. Ended(n) /\ (verdict' = verdict \/ \E v \in {"ready", "failed"} : Conclude(n, v))
      BY <1>2 DEF SshAttemptEnds, CommandAttemptEnds
    <2>2. phase = "poll" /\ phase' = "poll" /\ step \in Polled
      BY <2>1 DEF Ended, ReadyInv, Looping
    <2>3. ReadyTypeOK'
      BY <1>0, <2>1 DEF Ended, Conclude, ReadyTypeOK
    <2>4. QED
      BY <2>1, <2>2, <2>3, LoopKeeps DEF Ended
  <1>3. ASSUME SshRoundEnds \/ (CommandRoundEnds /\ NotReady # {}) PROVE ReadyInv'
    <2>1. PICK u \in Nat : RoundOver /\ Pause(u)
      <3>1. CASE SshRoundEnds
        <4>1. clock + 1 \in Nat
          BY <1>0 DEF ReadyTypeOK
        <4>2. QED
          BY <3>1, <4>1 DEF SshRoundEnds
      <3>2. CASE CommandRoundEnds /\ NotReady # {}
        <4>1. PollDelay \in Nat
          BY <1>0, <3>2, WaitTimes DEF CommandRoundEnds, Steps
        <4>2. clock + 1 \in Nat /\ round + PollDelay \in Nat
          BY <1>0, <4>1 DEF ReadyTypeOK
        <4>3. Max({clock + 1, round + PollDelay}) \in Nat
          BY <4>2, MaxPair
        <4>4. QED
          BY <3>2, <4>3 DEF CommandRoundEnds
      <3>3. QED
        BY <1>3, <3>1, <3>2
    <2>2. ReadyTypeOK'
      BY <1>0, <2>1 DEF Pause, ReadyTypeOK
    <2>3. QED
      BY <2>1, <2>2, LoopKeeps DEF Pause, RoundOver
  <1>4. ASSUME Tick PROVE ReadyInv'
    <2>1. phase # "enter" /\ phase' \in {"poll", "pause"}
      BY <1>0, <1>4 DEF Tick
    <2>2. ReadyTypeOK'
      BY <1>0, <1>4 DEF Tick, ReadyTypeOK
    <2>3. QED
      BY <1>4, <2>1, <2>2, LoopKeeps DEF Tick, ReadyInv, Looping
  <1>5. QED
    BY <1>1, <1>2, <1>3, <1>4

\* A polled step that everybody has left.
LEMMA LeaveKeeps ==
  ASSUME ReadyInv, asked' = asked, Leave, step \in Polled, phase # "enter"
  PROVE  ReadyInv'
  <1>0. step \in Steps /\ step \in Internal /\ waitlists[step] = asked[step] /\ Waitset \subseteq Node
    BY WaitTimes DEF ReadyInv, Looping
  <1>1. CASE \E n \in Waitset : verdict[n] = "failed"
    BY <1>1, GotoKeeps DEF Leave, ReadyInv, ReadyTypeOK
  <1>2. CASE ~ \E n \in Waitset : verdict[n] = "failed"
    <2>1. MustPass(step) \subseteq Waitset
      BY <1>0 DEF MustPass, Waitset, Polled
    <2>2. QED
      BY <1>0, <1>2, <2>1, CompleteKeeps DEF Leave, ReadyInv, ReadyTypeOK
  <1>3. QED
    BY <1>1, <1>2

\* Steps that are entered.
LEMMA EntersKeep ==
  ASSUME ReadyInv, asked' = asked, SkipStep \/ EnterHealth \/ EnterSsh \/ EnterCommand
  PROVE  ReadyInv'
  <1>0. ReadyTypeOK
    BY DEF ReadyInv
  <1>1. CASE SkipStep
    <2>1. After(step) \in Steps \cup {"playbook", "exit"}
      BY DEF After, Steps
    <2>2. QED
      BY <1>0, <1>1, <2>1, GotoKeeps DEF SkipStep, ReadyTypeOK
  <1>2. CASE EnterHealth
    <2>1. step \in Steps /\ Enter("health")
      BY <1>2 DEF EnterHealth, Enter, Steps
    <2>2. CASE HealthTimeout = 0
      <3>1. MustPass(step) = {} /\ {} \in SUBSET Node
        BY <2>1, <2>2 DEF Enter, MustPass
      <3>2. QED
        BY <1>0, <1>2, <2>1, <2>2, <3>1, CompleteKeeps DEF EnterHealth, ReadyTypeOK
    <2>3. CASE HealthTimeout # 0
      BY <1>2, <2>1, <2>3, StartKeeps DEF EnterHealth, Steps
    <2>4. QED
      BY <2>2, <2>3
  <1>3. CASE EnterSsh
    <2>1. CASE errors \/ waitlists["ssh"] \cap NoHost # {}
      BY <1>3, <2>1, GotoKeeps DEF EnterSsh
    <2>2. CASE ~(errors \/ waitlists["ssh"] \cap NoHost # {})
      BY <1>3, <2>2, StartKeeps DEF EnterSsh, Steps
    <2>3. QED
      BY <2>1, <2>2
  <1>4. CASE EnterCommand
    <2>1. step \in Steps /\ Enter("command")
      BY <1>4 DEF EnterCommand, Enter, Steps
    <2>2. CASE Waitset = {}
      <3>1. MustPass(step) = {} /\ {} \in SUBSET Node
        <4>1. waitlists["command"] = asked["command"]
          BY <2>1 DEF ReadyInv, ChecksKept, Enter, Checks, Steps
        <4>2. QED
          BY <2>1, <2>2, <4>1 DEF Enter, MustPass, Waitset
      <3>2. QED
        BY <1>0, <1>4, <2>1, <2>2, <3>1, CompleteKeeps DEF EnterCommand, ReadyTypeOK
    <2>3. CASE Waitset # {}
      BY <1>4, <2>1, <2>3, StartKeeps DEF EnterCommand, Steps
    <2>4. QED
      BY <2>2, <2>3
  <1>5. QED
    BY <1>1, <1>2, <1>3, <1>4

\* The health check, whose timeout is an error message only.
LEMMA HealthKeeps ==
  ASSUME ReadyInv, asked' = asked, Inspect \/ HealthTimesOut
  PROVE  ReadyInv'
  <1>0. ReadyTypeOK /\ step = "health" /\ step \in Steps /\ phase = "poll"
    BY DEF ReadyInv, Inspect, HealthTimesOut, Steps
  <1>1. waitlists[step] = asked[step] /\ Waitset = asked[step] /\ Waitset \subseteq Node
    BY <1>0, WaitTimes DEF ReadyInv, Looping, Waitset
  <1>2. CASE Inspect
    <2>1. CASE Complete(Waitset) /\ UNCHANGED errors
      <3>1. MustPass(step) \subseteq Waitset
        BY <1>0, <1>1 DEF MustPass
      <3>2. QED
        BY <1>0, <1>1, <2>1, <3>1, CompleteKeeps DEF ReadyTypeOK
    <2>2. CASE /\ phase' = "pause" /\ wake' = clock + 1
               /\ UNCHANGED <<waitlists, step, clock, round, todo, flight, begun, verdict, passed, errors>>
      <3>1. ReadyTypeOK'
        BY <1>0, <2>2 DEF ReadyTypeOK
      <3>2. flight = {}
        BY <1>0 DEF ReadyInv, Looping, Polled
      <3>3. QED
        BY <1>0, <2>2, <3>1, <3>2, LoopKeeps
    <2>3. CASE Goto("exit") /\ UNCHANGED <<waitlists, passed, errors>>
      BY <1>0, <2>3, GotoKeeps DEF ReadyTypeOK
    <2>4. QED
      BY <1>2, <2>1, <2>2, <2>3 DEF Inspect
  <1>3. CASE HealthTimesOut
    BY <1>0, <1>3, CompleteKeeps DEF HealthTimesOut
  <1>4. QED
    BY <1>2, <1>3

\* What is left is checked by Ansible.
LEMMA PlaybookKeeps ==
  ASSUME ReadyInv, asked' = asked, Playbook
  PROVE  ReadyInv'
  <1>1. CASE Goto("exit") /\ UNCHANGED <<waitlists, passed, errors>>
    BY <1>1, GotoKeeps DEF ReadyInv, ReadyTypeOK
  <1>2. CASE /\ passed' = [c \in Checks |-> passed[c] \cup waitlists[c]]
             /\ Goto("ready") /\ UNCHANGED <<waitlists, errors>>
    <2>1. ReadyTypeOK'
      BY <1>2 DEF ReadyInv, ReadyTypeOK, Goto
    <2>2. Looping'
      BY <1>2 DEF Looping, Goto
    <2>3. ASSUME NEW c \in Checks PROVE Checked(c)'
      <3>1. MustPass(c)' \subseteq asked[c]
        BY MustPassKept DEF MustPass
      <3>2. QED
        BY <1>2, <2>3, <3>1, MustPassKept DEF ReadyInv, ChecksKept, Checked
    <2>4. QED
      BY <1>2, <2>1, <2>2, <2>3 DEF ReadyInv, ChecksKept
  <1>3. QED
    BY <1>1, <1>2 DEF Playbook

\* Every step of the checks keeps their invariant.
LEMMA ReadyKeeps ==
  ASSUME ReadyInv, ReadyNext
  PROVE  ReadyInv'
  <1>0. asked' = asked
    BY DEF ReadyNext
  <1>1. CASE SkipStep \/ EnterHealth \/ EnterSsh \/ EnterCommand
    BY <1>0, <1>1, EntersKeep
  <1>2. CASE Inspect \/ HealthTimesOut
    BY <1>0, <1>2, HealthKeeps
  <1>3. CASE \/ \E n \in Node : Attempt(n) \/ SshAttemptEnds(n) \/ CommandAttemptEnds(n)
             \/ SshRoundEnds \/ Tick
    BY <1>0, <1>3, AttemptsKeep
  <1>4. CASE CommandRoundEnds
    <2>1. CASE NotReady # {}
      BY <1>0, <1>4, <2>1, AttemptsKeep
    <2>2. CASE NotReady = {}
      BY <1>0, <1>4, <2>2, LeaveKeeps DEF CommandRoundEnds, RoundOver
    <2>3. QED
      BY <2>1, <2>2
  <1>5. CASE PauseEnds
    <2>1. CASE step \in Polled /\ NotReady = {}
      BY <1>0, <1>5, <2>1, LeaveKeeps DEF PauseEnds
    <2>2. CASE ~(step \in Polled /\ NotReady = {})
      BY <1>0, <1>5, <2>2, StartKeeps DEF PauseEnds
    <2>3. QED
      BY <2>1, <2>2
  <1>6. CASE Playbook
    BY <1>0, <1>6, PlaybookKeeps
  <1>7. QED
    BY <1>1, <1>2, <1>3, <1>4, <1>5, <1>6 DEF ReadyNext

-----------------------------------------------------------------------------
(* How long a round and a step last *)

Largest == Max({AttemptTime[n] : n \in Waitset})

\* How many nodes of the step have had their attempt, or need none.
Begun == Cardinality(Waitset) - Cardinality(todo)

\* The running attempts that began later than k batches can last.
Late(k) == {n \in flight : begun[n] > round + k * Largest}

\* As long as a node waits for a thread the clock is within the batches that have
\* begun, and attempts that began after k + 1 batches are behind all of their nodes.
Batches ==
  /\ todo # {} => clock <= round + (Begun \div Workers) * Largest
  /\ \A k \in Nat : Late(k) # {} => Cardinality(Late(k)) + (k + 1) * Workers <= Begun

Polling ==
  /\ Waitset # {} /\ todo \cup flight \subseteq NotReady
  /\ round <= clock /\ clock <= round + RoundTime
  /\ \A n \in flight : round <= begun[n] /\ clock <= begun[n] + AttemptTime[n]
  /\ Batches
  /\ \A n \in NotReady : /\ round <= Wait(n) + RoundTime + PauseTime
                         /\ n \notin todo \cup flight => round <= Wait(n)

Pausing ==
  /\ Waitset # {}
  /\ clock <= wake /\ wake <= round + RoundTime + PauseTime
  /\ \A n \in NotReady : round <= Wait(n)

TimeInv == step \in Polled => /\ phase = "poll" => Polling
                              /\ phase = "pause" => Pausing

\* The bounds are numbers, and enough batches for all nodes of the step.
LEMMA RoundTimes ==
  ASSUME ReadyTypeOK, step \in Steps, Waitset # {}
  PROVE  /\ Largest \in Nat \ {0} /\ \A n \in Waitset : AttemptTime[n] <= Largest
         /\ RoundTime \in Nat /\ PauseTime \in Nat \ {0}
         /\ Workers \in Nat \ {0} /\ Cardinality(Waitset) \in Nat \ {0}
         /\ \E b \in Nat \ {0} : /\ RoundTime = b * Largest
                                 /\ Cardinality(Waitset) <= b * Workers
                                 /\ \A a \in Nat : a < Cardinality(Waitset) => a \div Workers < b
  <1> DEFINE N == Cardinality(Waitset)
             b == (N + Workers - 1) \div Workers
  <1>1. /\ Waitset \in SUBSET Node /\ IsFiniteSet(Waitset) /\ PollDelay \in Nat \ {0}
        /\ AttemptTime \in [Node -> Nat \ {0}]
    BY WaitTimes
  <1>2. Largest \in Nat \ {0} /\ \A n \in Waitset : AttemptTime[n] <= Largest
    BY <1>1, MaxTime DEF Largest
  <1>3. N \in Nat \ {0} /\ Workers \in Nat \ {0}
    BY <1>1, FS_CardinalityType, FS_EmptySet, ReadyAssumption
  <1>4. N + Workers - 1 \in Nat
    BY <1>3
  <1>5. b \in Nat /\ N + Workers - 1 < (b + 1) * Workers
    BY <1>3, <1>4, Division
  <1>6. b * Workers \in Nat /\ (b + 1) * Workers = b * Workers + Workers
    BY <1>3, <1>5
  <1>7. N <= b * Workers
    BY <1>3, <1>5, <1>6
  <1>8. b # 0
    BY <1>3, <1>7
  <1>9. ASSUME NEW a \in Nat, a < N PROVE a \div Workers < b
    <2>1. a \div Workers \in Nat /\ (a \div Workers) * Workers <= a
      BY <1>3, Division
    <2>2. ASSUME b <= a \div Workers PROVE FALSE
      <3>1. b * Workers <= (a \div Workers) * Workers
        BY <1>3, <1>5, <2>1, <2>2, Times
      <3>2. (a \div Workers) * Workers \in Nat
        BY <1>3, <2>1, Times
      <3>3. QED
        BY <1>3, <1>6, <1>7, <1>9, <2>1, <3>1, <3>2
    <2>3. QED
      BY <1>5, <2>1, <2>2
  <1>10. RoundTime = b * Largest /\ RoundTime \in Nat
    BY <1>2, <1>5, Times DEF RoundTime, Largest
  <1>11. PauseTime \in Nat \ {0}
    BY <1>1 DEF PauseTime
  <1>12. QED
    BY <1>2, <1>3, <1>5, <1>7, <1>8, <1>9, <1>10, <1>11

\* They do not change while the step does not.
LEMMA BoundsKept ==
  ASSUME UNCHANGED <<step, waitlists>>
  PROVE  /\ Waitset' = Waitset /\ \A n \in Node : Wait(n)' = Wait(n)
         /\ Largest' = Largest /\ RoundTime' = RoundTime /\ PauseTime' = PauseTime
         /\ AttemptTime' = AttemptTime
  BY DEF Waitset, Wait, AttemptTime, Largest, RoundTime, PauseTime, PollDelay

\* The nodes of the step that have begun are counted in numbers.
LEMMA BegunType ==
  ASSUME ReadyTypeOK, step \in Steps, todo \subseteq Waitset
  PROVE  /\ Begun \in Nat /\ Cardinality(todo) \in Nat /\ IsFiniteSet(todo)
         /\ todo # {} => Cardinality(todo) >= 1 /\ Begun < Cardinality(Waitset)
         /\ todo = {} => Begun = Cardinality(Waitset)
         /\ flight \subseteq Waitset => IsFiniteSet(flight) /\ Cardinality(flight) <= Begun
  <1>1. IsFiniteSet(Waitset) /\ Cardinality(Waitset) \in Nat
    BY WaitTimes, FS_CardinalityType
  <1>2. IsFiniteSet(todo) /\ Cardinality(todo) <= Cardinality(Waitset) /\ Cardinality(todo) \in Nat
    BY <1>1, FS_Subset, FS_CardinalityType
  <1>3. Cardinality(todo) = 0 <=> todo = {}
    BY <1>2, FS_EmptySet
  <1>4. ASSUME flight \subseteq Waitset PROVE IsFiniteSet(flight) /\ Cardinality(flight) <= Begun
    <2>1. IsFiniteSet(flight) /\ Cardinality(flight) \in Nat
      BY <1>1, <1>4, FS_Subset, FS_CardinalityType
    <2>2. flight \cap todo = {}
      BY DEF ReadyTypeOK
    <2>3. Cardinality(flight \cup todo) = Cardinality(flight) + Cardinality(todo) - 0
      BY <1>2, <2>1, <2>2, FS_Union, FS_EmptySet
    <2>4. Cardinality(flight \cup todo) <= Cardinality(Waitset)
      BY <1>1, <1>4, FS_Subset
    <2>5. QED
      BY <1>1, <1>2, <2>1, <2>3, <2>4 DEF Begun
  <1>5. QED
    BY <1>1, <1>2, <1>3, <1>4 DEF Begun

\* A round that begins is within its bounds.
LEMMA StartsInTime ==
  ASSUME ReadyInv, StartLoop, step \in Polled, Waitset # {},
         phase = "enter" \/ (phase = "pause" /\ Pausing)
  PROVE  Polling'
  <1>1. ReadyTypeOK /\ step \in Steps
    BY DEF ReadyInv, Polled, Steps
  <1>2. /\ Waitset' = Waitset /\ RoundTime' = RoundTime /\ PauseTime' = PauseTime
        /\ \A n \in Node : Wait(n)' = Wait(n)
    BY BoundsKept DEF StartLoop
  <1>3. NotReady' = NotReady /\ NotReady \subseteq Node /\ NotReady \subseteq Waitset
    BY <1>1, <1>2, WaitTimes DEF NotReady, StartLoop
  <1>4. flight' = {} /\ todo' = NotReady /\ round' = clock /\ clock' = clock /\ clock \in Nat
    BY <1>1 DEF StartLoop, ReadyInv, Looping, ReadyTypeOK
  <1>5. RoundTime \in Nat /\ PauseTime \in Nat /\ Largest \in Nat
    BY <1>1, RoundTimes
  <1>6. \A n \in NotReady : clock <= Wait(n) + RoundTime + PauseTime
    <2>1. SUFFICES ASSUME NEW n \in NotReady PROVE clock <= Wait(n) + RoundTime + PauseTime
      OBVIOUS
    <2>2. Wait(n) \in Nat /\ round \in Nat /\ wake \in Nat
      BY <1>1, <1>3, WaitTimes DEF ReadyTypeOK
    <2>3. CASE phase = "enter"
      BY <1>5, <2>2, <2>3 DEF ReadyInv, Looping
    <2>4. CASE phase = "pause" /\ Pausing
      BY <1>4, <1>5, <2>2, <2>4 DEF Pausing
    <2>5. QED
      BY <2>3, <2>4
  <1>7. Batches'
    <2>1. \A k \in Nat : Late(k)' = {}
      BY <1>4 DEF Late
    <2>2. (Begun' \div Workers) * Largest \in Nat
      <3>1. Begun' \in Nat
        <4>1. IsFiniteSet(Waitset) /\ Cardinality(Waitset) \in Nat
          BY <1>1, WaitTimes, FS_CardinalityType
        <4>2. Cardinality(NotReady) \in Nat /\ Cardinality(NotReady) <= Cardinality(Waitset)
          BY <1>3, <4>1, FS_Subset, FS_CardinalityType
        <4>3. QED
          BY <1>2, <1>4, <4>1, <4>2 DEF Begun
      <3>2. Begun' \div Workers \in Nat
        BY <3>1, Division, ReadyAssumption
      <3>3. QED
        BY <1>5, <3>2, Times
    <2>3. Largest' = Largest
      BY BoundsKept DEF StartLoop
    <2>4. clock' <= round' + (Begun' \div Workers) * Largest'
      BY <1>4, <2>2, <2>3
    <2>5. QED
      BY <2>1, <2>4 DEF Batches
  <1>8. QED
    BY <1>2, <1>3, <1>4, <1>5, <1>6, <1>7 DEF Polling

\* What is known of the numbers of a round.
LEMMA PollingFacts ==
  ASSUME ReadyInv, step \in Polled, phase = "poll", Polling
  PROVE  /\ ReadyTypeOK /\ step \in Steps /\ Waitset # {}
         /\ NotReady \subseteq Waitset /\ Waitset \subseteq Node /\ todo \cup flight \subseteq Waitset
         /\ clock \in Nat /\ round \in Nat /\ \A n \in Node : begun[n] \in Nat
         /\ Largest \in Nat \ {0} /\ Workers \in Nat \ {0} /\ RoundTime \in Nat /\ PauseTime \in Nat \ {0}
         /\ \A n \in Node : Wait(n) \in Nat /\ AttemptTime[n] \in Nat \ {0}
         /\ \A n \in Waitset : AttemptTime[n] <= Largest
         /\ Begun \in Nat /\ Begun \div Workers \in Nat
         /\ IsFiniteSet(todo) /\ IsFiniteSet(flight)
         /\ Cardinality(todo) \in Nat /\ Cardinality(flight) \in Nat /\ Cardinality(flight) <= Begun
  <1>1. ReadyTypeOK /\ step \in Steps /\ Waitset # {} /\ todo \cup flight \subseteq NotReady
    BY DEF ReadyInv, Polling, Polled, Steps
  <1>2. NotReady \subseteq Waitset /\ Waitset \subseteq Node
    BY <1>1, WaitTimes
  <1>3. Begun \in Nat /\ IsFiniteSet(todo) /\ Cardinality(todo) \in Nat
    BY <1>1, <1>2, BegunType
  <1>4. IsFiniteSet(flight) /\ Cardinality(flight) <= Begun /\ Cardinality(flight) \in Nat
    BY <1>1, <1>2, BegunType, FS_CardinalityType
  <1>5. Workers \in Nat \ {0} /\ Begun \div Workers \in Nat
    BY <1>3, ReadyAssumption, Division
  <1>6. clock \in Nat /\ round \in Nat /\ \A n \in Node : begun[n] \in Nat
    BY <1>1 DEF ReadyTypeOK
  <1>7. QED
    BY <1>1, <1>2, <1>3, <1>4, <1>5, <1>6, WaitTimes, RoundTimes

\* A set of late attempts is a finite part of the running ones.
LEMMA LateType ==
  ASSUME ReadyInv, step \in Polled, phase = "poll", Polling, NEW k \in Nat
  PROVE  IsFiniteSet(Late(k)) /\ Cardinality(Late(k)) \in Nat /\ k * Largest \in Nat
         /\ (k + 1) * Workers \in Nat
  <1>1. Late(k) \in SUBSET flight /\ IsFiniteSet(flight)
    BY PollingFacts DEF Late
  <1>2. IsFiniteSet(Late(k)) /\ Cardinality(Late(k)) \in Nat
    BY <1>1, FS_Subset, FS_CardinalityType
  <1>3. Largest \in Nat /\ Workers \in Nat
    BY PollingFacts
  <1>4. k * Largest \in Nat /\ (k + 1) * Workers \in Nat
    BY <1>3, Times
  <1>5. QED
    BY <1>2, <1>4

\* An attempt that begins later than k batches can last has k + 1 batches before it.
LEMMA AttemptInTime ==
  ASSUME ReadyInv, phase = "poll", Polling, NEW m \in Node, Attempt(m)
  PROVE  Polling'
  <1>0. step \in Polled /\ m \in todo /\ m \notin flight
    BY DEF Attempt, ReadyInv, ReadyTypeOK
  <1>1. /\ Waitset' = Waitset /\ RoundTime' = RoundTime /\ PauseTime' = PauseTime /\ Largest' = Largest
        /\ AttemptTime' = AttemptTime /\ \A n \in Node : Wait(n)' = Wait(n)
    BY BoundsKept DEF Attempt
  <1>2. NotReady' = NotReady
    BY <1>1 DEF NotReady, Attempt
  <1>3. begun' = [begun EXCEPT ![m] = clock] /\ begun \in [Node -> Nat] /\ round' = round /\ clock' = clock
    BY DEF Attempt, ReadyInv, ReadyTypeOK
  <1>4. todo' = todo \ {m} /\ flight' = flight \cup {m}
    BY DEF Attempt
  <1>5. Begun' = Begun + 1
    <2>1. Cardinality(todo') = Cardinality(todo) - 1
      BY <1>0, <1>4, PollingFacts, FS_RemoveElement
    <2>2. Cardinality(Waitset) \in Nat /\ Cardinality(todo) \in Nat
      BY <1>0, PollingFacts, RoundTimes
    <2>3. QED
      BY <1>1, <2>1, <2>2 DEF Begun
  <1>6. clock <= round + (Begun \div Workers) * Largest
    BY <1>0 DEF Polling, Batches
  <1>7. Batches'
    <2>0. /\ Begun \in Nat /\ Begun + 1 \in Nat /\ Workers \in Nat \ {0} /\ Largest \in Nat
          /\ Begun \div Workers \in Nat /\ clock \in Nat /\ round \in Nat
      BY <1>0, PollingFacts
    <2>1. clock' <= round' + (Begun' \div Workers) * Largest'
      <3>1. Begun \div Workers <= (Begun + 1) \div Workers /\ (Begun + 1) \div Workers \in Nat
        <4>1. (Begun \div Workers) * Workers <= Begun /\ (Begun \div Workers) * Workers \in Nat
          BY <2>0, Division, Times
        <4>2. (Begun \div Workers) * Workers <= Begun + 1
          BY <2>0, <4>1
        <4>3. QED
          BY <2>0, <4>2, Quotient, Division
      <3>2. /\ (Begun \div Workers) * Largest <= ((Begun + 1) \div Workers) * Largest
            /\ (Begun \div Workers) * Largest \in Nat /\ ((Begun + 1) \div Workers) * Largest \in Nat
        BY <2>0, <3>1, Times
      <3>3. QED
        BY <1>1, <1>3, <1>5, <1>6, <2>0, <3>2
    <2>2. ASSUME NEW k \in Nat, Late(k)' # {}
          PROVE  Cardinality(Late(k)') + (k + 1) * Workers <= Begun'
      <3>1. /\ IsFiniteSet(Late(k)) /\ Cardinality(Late(k)) \in Nat /\ k * Largest \in Nat
            /\ (k + 1) * Workers \in Nat
        BY <1>0, LateType
      <3>2. \A n \in flight : begun'[n] = begun[n]
        BY <1>0, <1>3, <1>4, PollingFacts
      <3>3. CASE clock > round + k * Largest
        <4>1. Late(k)' = Late(k) \cup {m} /\ m \notin Late(k)
          BY <1>0, <1>1, <1>3, <1>4, <3>2, <3>3 DEF Late
        <4>2. Cardinality(Late(k)') = Cardinality(Late(k)) + 1
          BY <3>1, <4>1, FS_AddElement
        <4>3. (k + 1) * Workers <= Begun
          <5>1. ASSUME Begun \div Workers <= k PROVE FALSE
            <6>1. (Begun \div Workers) * Largest <= k * Largest /\ (Begun \div Workers) * Largest \in Nat
              BY <2>0, <5>1, Times
            <6>2. QED
              BY <1>6, <2>0, <3>1, <3>3, <6>1
          <5>2. k + 1 <= Begun \div Workers /\ k + 1 \in Nat
            BY <2>0, <5>1
          <5>3. QED
            BY <2>0, <5>2, Quotient
        <4>4. CASE Late(k) = {}
          BY <2>0, <3>1, <4>2, <4>3, <4>4, <1>5, FS_EmptySet
        <4>5. CASE Late(k) # {}
          <5>1. Cardinality(Late(k)) + (k + 1) * Workers <= Begun
            BY <4>5 DEF Polling, Batches
          <5>2. QED
            BY <2>0, <3>1, <4>2, <5>1, <1>5
        <4>6. QED
          BY <4>4, <4>5
      <3>4. CASE ~(clock > round + k * Largest)
        <4>1. Late(k)' = Late(k)
          BY <1>0, <1>1, <1>3, <1>4, <3>2, <3>4 DEF Late
        <4>2. Cardinality(Late(k)) + (k + 1) * Workers <= Begun
          BY <2>2, <4>1 DEF Polling, Batches
        <4>3. QED
          BY <1>5, <2>0, <3>1, <4>1, <4>2
      <3>5. QED
        BY <3>3, <3>4
    <2>3. QED
      BY <2>1, <2>2 DEF Batches
  <1>8. \A n \in flight' : round' <= begun'[n] /\ clock' <= begun'[n] + AttemptTime[n]
    <2>1. ASSUME NEW n \in flight' PROVE round' <= begun'[n] /\ clock' <= begun'[n] + AttemptTime[n]
      <3>1. CASE n = m
        <4>1. begun'[m] = clock /\ clock \in Nat /\ AttemptTime[m] \in Nat /\ round <= clock
          BY <1>0, <1>3, PollingFacts DEF Polling
        <4>2. QED
          BY <1>3, <3>1, <4>1
      <3>2. CASE n # m
        <4>1. begun'[n] = begun[n] /\ n \in flight
          BY <1>3, <1>4, <2>1, <3>2
        <4>2. QED
          BY <1>3, <4>1 DEF Polling
      <3>3. QED
        BY <3>1, <3>2
    <2>2. QED
      BY <2>1
  <1>9. todo' \cup flight' = todo \cup flight
    BY <1>0, <1>4
  <1>10. /\ Waitset' # {} /\ todo' \cup flight' \subseteq NotReady'
         /\ round' <= clock' /\ clock' <= round' + RoundTime'
    BY <1>1, <1>2, <1>3, <1>9 DEF Polling
  <1>11. ASSUME NEW n \in NotReady
         PROVE  /\ round' <= Wait(n)' + RoundTime' + PauseTime'
                /\ n \notin todo' \cup flight' => round' <= Wait(n)'
    <2>1. n \in Node
      BY <1>0, PollingFacts
    <2>2. QED
      BY <1>1, <1>3, <1>9, <2>1 DEF Polling
  <1>12. QED
    BY <1>1, <1>2, <1>7, <1>8, <1>10, <1>11 DEF Polling

\* An attempt that ends without a verdict has looked at the clock in this round.
LEMMA AttemptEndInTime ==
  ASSUME ReadyInv, phase = "poll", Polling, NEW m \in Node, SshAttemptEnds(m) \/ CommandAttemptEnds(m)
  PROVE  Polling'
  <1>0. Ended(m) /\ step \in Polled /\ m \in flight
    BY DEF SshAttemptEnds, CommandAttemptEnds, Ended
  <1>1. /\ Waitset' = Waitset /\ RoundTime' = RoundTime /\ PauseTime' = PauseTime /\ Largest' = Largest
        /\ AttemptTime' = AttemptTime /\ \A n \in Node : Wait(n)' = Wait(n)
    BY <1>0, BoundsKept DEF Ended
  <1>2. /\ begun' = [begun EXCEPT ![m] = 0] /\ begun \in [Node -> Nat] /\ round' = round /\ clock' = clock
        /\ todo' = todo /\ flight' = flight \ {m} /\ verdict \in [Node -> {"none", "ready", "failed"}]
    BY <1>0 DEF Ended, ReadyInv, ReadyTypeOK
  <1>3. verdict' = verdict \/ \E v \in {"ready", "failed"} : verdict' = [verdict EXCEPT ![m] = v]
    BY DEF SshAttemptEnds, CommandAttemptEnds, Conclude
  <1>4. NotReady' \subseteq NotReady /\ NotReady \ {m} \subseteq NotReady'
    <2>1. Waitset \subseteq Node
      BY <1>0, PollingFacts
    <2>2. CASE verdict' = verdict
      BY <1>1, <2>2 DEF NotReady
    <2>3. ASSUME NEW v \in {"ready", "failed"}, verdict' = [verdict EXCEPT ![m] = v]
          PROVE  NotReady' \subseteq NotReady /\ NotReady \ {m} \subseteq NotReady'
      BY <1>1, <1>2, <2>1, <2>3 DEF NotReady
    <2>4. QED
      BY <1>3, <2>2, <2>3
  <1>5. todo' \cup flight' \subseteq NotReady'
    <2>1. m \notin todo
      BY <1>0 DEF ReadyInv, ReadyTypeOK
    <2>2. QED
      BY <1>2, <1>4, <2>1 DEF Polling
  <1>6. \A n \in flight' : n \in flight /\ begun'[n] = begun[n]
    BY <1>0, <1>2, PollingFacts
  <1>7. Batches'
    <2>1. Begun' = Begun
      BY <1>1, <1>2 DEF Begun
    <2>2. ASSUME NEW k \in Nat, Late(k)' # {}
          PROVE  Cardinality(Late(k)') + (k + 1) * Workers <= Begun'
      <3>1. Late(k)' \in SUBSET Late(k)
        BY <1>1, <1>2, <1>6 DEF Late
      <3>2. /\ IsFiniteSet(Late(k)) /\ Cardinality(Late(k)) \in Nat
            /\ (k + 1) * Workers \in Nat /\ Begun \in Nat
        BY <1>0, LateType, PollingFacts
      <3>3. Cardinality(Late(k)') <= Cardinality(Late(k)) /\ Cardinality(Late(k)') \in Nat
        BY <3>1, <3>2, FS_Subset, FS_CardinalityType
      <3>4. Cardinality(Late(k)) + (k + 1) * Workers <= Begun
        BY <2>2, <3>1 DEF Polling, Batches
      <3>5. QED
        BY <2>1, <3>2, <3>3, <3>4
    <2>3. todo' # {} => clock' <= round' + (Begun' \div Workers) * Largest'
      BY <1>1, <1>2, <2>1 DEF Polling, Batches
    <2>4. QED
      BY <2>2, <2>3 DEF Batches
  <1>8. ASSUME NEW n \in NotReady', n \notin todo' \cup flight'
        PROVE  round <= Wait(n)
    <2>1. CASE n = m
      <3>1. verdict'[m] = "none"
        BY <2>1 DEF NotReady
      <3>2. /\ round <= begun[m] /\ round <= clock /\ round \in Nat /\ clock \in Nat
            /\ begun[m] \in Nat /\ Wait(m) \in Nat
        BY <1>0, PollingFacts DEF Polling
      <3>3. CASE SshAttemptEnds(m)
        <4>1. ~(clock > Wait(m))
          BY <1>2, <3>1, <3>3 DEF SshAttemptEnds, Conclude
        <4>2. QED
          BY <2>1, <3>2, <4>1
      <3>4. CASE CommandAttemptEnds(m)
        <4>1. PICK quarters \in {1, 4} : ~(4 * begun[m] > quarters * Wait(m))
          BY <1>2, <3>1, <3>4 DEF CommandAttemptEnds, Conclude
        <4>2. begun[m] <= Wait(m)
          BY <3>2, <4>1
        <4>3. QED
          BY <2>1, <3>2, <4>2
      <3>5. QED
        BY <3>3, <3>4
    <2>2. CASE n # m
      <3>1. n \in NotReady /\ n \notin todo \cup flight
        BY <1>2, <1>4, <1>8, <2>2
      <3>2. QED
        BY <3>1 DEF Polling
    <2>3. QED
      BY <2>1, <2>2
  <1>9. \A n \in NotReady' : n \in Node /\ n \in NotReady
    BY <1>0, <1>4, PollingFacts
  <1>10. QED
    BY <1>1, <1>2, <1>5, <1>6, <1>7, <1>8, <1>9 DEF Polling

\* A second of a round: the thread that has worked longest is within its batch.
LEMMA TickInTime ==
  ASSUME ReadyInv, phase = "poll", Polling, Tick
  PROVE  Polling'
  <1>0. /\ step \in Polled /\ flight # {} /\ \A n \in flight : clock < begun[n] + AttemptTime[n]
        /\ todo = {} \/ Cardinality(flight) = Workers
        /\ clock' = clock + 1 /\ UNCHANGED <<todo, flight, begun, round, verdict, step, waitlists>>
    BY DEF Tick
  <1>1. /\ Waitset' = Waitset /\ RoundTime' = RoundTime /\ PauseTime' = PauseTime /\ Largest' = Largest
        /\ AttemptTime' = AttemptTime /\ \A n \in Node : Wait(n)' = Wait(n)
    BY <1>0, BoundsKept
  <1>2. NotReady' = NotReady /\ Begun' = Begun /\ \A k \in Nat : Late(k)' = Late(k)
    BY <1>0, <1>1 DEF NotReady, Begun, Late
  <1>3. /\ clock \in Nat /\ round \in Nat /\ Workers \in Nat \ {0} /\ Largest \in Nat \ {0}
        /\ Begun \in Nat /\ Cardinality(flight) \in Nat /\ Cardinality(flight) <= Begun
        /\ Begun \div Workers \in Nat /\ IsFiniteSet(flight)
        /\ \A n \in flight : n \in Node /\ begun[n] \in Nat /\ AttemptTime[n] \in Nat /\ AttemptTime[n] <= Largest
    BY <1>0, PollingFacts
  <1>4. ASSUME NEW q \in Nat \ {0}, Late(q - 1) = {} \/ \E n \in flight : n \notin Late(q - 1)
        PROVE  clock + 1 <= round + q * Largest
    <2>1. PICK n \in flight : n \notin Late(q - 1)
      BY <1>0, <1>4
    <2>2. (q - 1) * Largest \in Nat /\ q * Largest = (q - 1) * Largest + Largest
      BY <1>3, Times
    <2>3. begun[n] <= round + (q - 1) * Largest
      BY <1>3, <2>1, <2>2 DEF Late
    <2>4. clock < begun[n] + AttemptTime[n] /\ AttemptTime[n] <= Largest
      BY <1>0, <1>3
    <2>5. QED
      BY <1>3, <2>2, <2>3, <2>4
  <1>5. ASSUME todo # {} PROVE clock + 1 <= round + (Begun \div Workers) * Largest
    <2>1. Cardinality(flight) = Workers
      BY <1>0, <1>5
    <2>2. Begun \div Workers \in Nat \ {0}
      <3>1. 1 * Workers <= Begun
        BY <1>3, <2>1
      <3>2. QED
        BY <1>3, <3>1, Quotient
    <2>3. ASSUME \A n \in flight : n \in Late((Begun \div Workers) - 1) PROVE FALSE
      <3>1. Late((Begun \div Workers) - 1) = flight
        BY <2>3 DEF Late
      <3>2. Workers + (Begun \div Workers) * Workers <= Begun
        <4>1. (Begun \div Workers) - 1 \in Nat /\ ((Begun \div Workers) - 1) + 1 = Begun \div Workers
          BY <2>2
        <4>2. Cardinality(Late((Begun \div Workers) - 1)) + (((Begun \div Workers) - 1) + 1) * Workers <= Begun
          BY <1>0, <3>1, <4>1 DEF Polling, Batches
        <4>3. QED
          BY <2>1, <3>1, <4>1, <4>2
      <3>3. Begun < ((Begun \div Workers) + 1) * Workers
        BY <1>3, Division
      <3>4. ((Begun \div Workers) + 1) * Workers = Workers + (Begun \div Workers) * Workers
        BY <1>3
      <3>5. (Begun \div Workers) * Workers \in Nat
        BY <1>3, Times
      <3>6. QED
        BY <1>3, <3>2, <3>3, <3>4, <3>5
    <2>4. QED
      BY <1>4, <2>2, <2>3
  <1>6. clock + 1 <= round + RoundTime
    <2>1. PICK b \in Nat \ {0} : /\ RoundTime = b * Largest
                                 /\ Cardinality(Waitset) <= b * Workers
                                 /\ \A a \in Nat : a < Cardinality(Waitset) => a \div Workers < b
      BY <1>0, PollingFacts, RoundTimes
    <2>2. CASE todo # {}
      <3>1. Begun < Cardinality(Waitset)
        BY <1>0, <2>2, PollingFacts, BegunType
      <3>2. Begun \div Workers <= b
        BY <1>3, <2>1, <3>1
      <3>3. /\ (Begun \div Workers) * Largest <= b * Largest
            /\ (Begun \div Workers) * Largest \in Nat /\ b * Largest \in Nat
        BY <1>3, <2>1, <3>2, Times
      <3>4. QED
        BY <1>3, <1>5, <2>1, <2>2, <3>3
    <2>3. CASE todo = {}
      <3>1. Begun = Cardinality(Waitset)
        BY <1>0, <2>3, PollingFacts, BegunType
      <3>2. ASSUME Late(b - 1) # {} PROVE FALSE
        <4>1. b - 1 \in Nat /\ (b - 1) + 1 = b
          BY <2>1
        <4>2. Cardinality(Late(b - 1)) + ((b - 1) + 1) * Workers <= Begun
          BY <3>2, <4>1 DEF Polling, Batches
        <4>3. IsFiniteSet(Late(b - 1)) /\ Cardinality(Late(b - 1)) \in Nat /\ Cardinality(Late(b - 1)) # 0
          BY <1>0, <3>2, <4>1, LateType, FS_EmptySet
        <4>4. Cardinality(Late(b - 1)) + b * Workers <= Begun
          BY <4>1, <4>2
        <4>5. b * Workers \in Nat /\ Begun <= b * Workers
          BY <1>3, <2>1, <3>1, Times
        <4>6. QED
          BY <1>3, <4>3, <4>4, <4>5
      <3>3. QED
        BY <1>4, <2>1, <3>2
    <2>4. QED
      BY <2>2, <2>3
  <1>7. Batches'
    BY <1>0, <1>1, <1>2, <1>5 DEF Polling, Batches
  <1>8. \A n \in flight' : round' <= begun'[n] /\ clock' <= begun'[n] + AttemptTime[n]
    BY <1>0, <1>3 DEF Polling
  <1>9. round' <= clock' /\ clock' <= round' + RoundTime'
    BY <1>0, <1>1, <1>3, <1>6 DEF Polling
  <1>10. \A n \in NotReady' : n \in Node
    BY <1>0, <1>2, PollingFacts
  <1>11. QED
    BY <1>0, <1>1, <1>2, <1>7, <1>8, <1>9, <1>10 DEF Polling

\* A round that is over is followed by a pause, whose end is known.
LEMMA RoundEndsInTime ==
  ASSUME ReadyInv, phase = "poll", Polling, SshRoundEnds \/ (CommandRoundEnds /\ NotReady # {})
  PROVE  Pausing'
  <1>0. step \in Polled /\ todo = {} /\ flight = {}
    BY DEF SshRoundEnds, CommandRoundEnds, RoundOver
  <1>1. PICK u \in {clock + 1, round + PollDelay} :
          Pause(u) /\ clock <= u /\ u <= round + RoundTime + PauseTime
    <2>1. /\ clock \in Nat /\ round \in Nat /\ RoundTime \in Nat /\ PauseTime \in Nat \ {0}
          /\ clock <= round + RoundTime
      BY <1>0, PollingFacts DEF Polling
    <2>2. CASE SshRoundEnds
      BY <2>1, <2>2 DEF SshRoundEnds
    <2>3. CASE CommandRoundEnds /\ NotReady # {}
      <3>1. PauseTime = PollDelay
        BY <2>3 DEF CommandRoundEnds, PauseTime
      <3>2. PollDelay \in Nat
        BY <2>1, <3>1
      <3>3. /\ Max({clock + 1, round + PollDelay}) \in {clock + 1, round + PollDelay}
            /\ Max({clock + 1, round + PollDelay}) >= clock + 1
        BY <2>1, <3>2, MaxPair
      <3>4. Pause(Max({clock + 1, round + PollDelay}))
        BY <2>3 DEF CommandRoundEnds
      <3>5. /\ clock + 1 <= round + RoundTime + PauseTime
            /\ round + PollDelay <= round + RoundTime + PauseTime
        BY <2>1, <3>1
      <3>6. QED
        BY <2>1, <3>2, <3>3, <3>4, <3>5
    <2>4. QED
      BY <2>2, <2>3
  <1>2. /\ Waitset' = Waitset /\ RoundTime' = RoundTime /\ PauseTime' = PauseTime
        /\ \A n \in Node : Wait(n)' = Wait(n)
    BY <1>1, BoundsKept DEF Pause
  <1>3. NotReady' = NotReady /\ clock' = clock /\ round' = round /\ wake' = u
    BY <1>1, <1>2 DEF NotReady, Pause
  <1>4. \A n \in NotReady : round <= Wait(n) /\ n \in Node
    BY <1>0, PollingFacts DEF Polling
  <1>5. QED
    BY <1>1, <1>2, <1>3, <1>4 DEF Pausing, Polling

\* A second of a pause.
LEMMA PauseTickInTime ==
  ASSUME ReadyInv, phase = "pause", Pausing, Tick, step \in Polled
  PROVE  Pausing'
  <1>1. clock' = clock + 1 /\ clock < wake /\ UNCHANGED <<wake, round, step, waitlists, verdict>>
    BY DEF Tick
  <1>2. /\ Waitset' = Waitset /\ RoundTime' = RoundTime /\ PauseTime' = PauseTime
        /\ \A n \in Node : Wait(n)' = Wait(n)
    BY <1>1, BoundsKept
  <1>3. NotReady' = NotReady /\ clock \in Nat /\ wake \in Nat /\ NotReady \subseteq Node
    BY <1>1, <1>2, WaitTimes DEF NotReady, ReadyInv, ReadyTypeOK, Polled, Steps
  <1>4. QED
    BY <1>1, <1>2, <1>3 DEF Pausing

\* Every step of the checks keeps the bounds.
LEMMA StepInTime ==
  ASSUME ReadyInv, TimeInv, ReadyNext
  PROVE  TimeInv'
  <1>1. CASE phase' = "enter"
    BY <1>1 DEF TimeInv
  <1>2. CASE step' \notin Polled
    BY <1>2 DEF TimeInv
  <1>3. CASE phase' # "enter" /\ step' \in Polled
    <2>0. ~ \E s : Goto(s)
      BY <1>3 DEF Goto
    <2>1. CASE SkipStep \/ EnterHealth \/ Inspect \/ HealthTimesOut \/ Playbook
      BY <1>3, <2>0, <2>1 DEF SkipStep, EnterHealth, Enter, Inspect, HealthTimesOut, Playbook, Complete, StartLoop, Polled
    <2>2. CASE EnterSsh \/ EnterCommand
      <3>1. StartLoop /\ phase = "enter" /\ step \in Polled
        BY <2>0, <2>2 DEF EnterSsh, EnterCommand, Enter, Complete, Polled
      <3>2. Waitset # {}
        BY <2>0, <2>2 DEF EnterSsh, EnterCommand, Enter, Complete, Waitset
      <3>3. Polling' /\ phase' = "poll"
        BY <3>1, <3>2, StartsInTime DEF StartLoop
      <3>4. QED
        BY <3>3 DEF TimeInv
    <2>3. ASSUME NEW n \in Node, Attempt(n) PROVE TimeInv'
      <3>1. phase = "poll" /\ Polling /\ phase' = "poll"
        BY <2>3 DEF Attempt, TimeInv
      <3>2. QED
        BY <2>3, <3>1, AttemptInTime DEF TimeInv
    <2>4. ASSUME NEW n \in Node, SshAttemptEnds(n) \/ CommandAttemptEnds(n) PROVE TimeInv'
      <3>1. phase = "poll" /\ Polling /\ phase' = "poll"
        BY <2>4 DEF SshAttemptEnds, CommandAttemptEnds, Ended, TimeInv, ReadyInv, Looping
      <3>2. QED
        BY <2>4, <3>1, AttemptEndInTime DEF TimeInv
    <2>5. CASE SshRoundEnds \/ CommandRoundEnds
      <3>1. SshRoundEnds \/ (CommandRoundEnds /\ NotReady # {})
        BY <2>0, <2>5 DEF CommandRoundEnds, Leave, Complete
      <3>2. phase = "poll" /\ Polling /\ phase' = "pause"
        BY <3>1 DEF SshRoundEnds, CommandRoundEnds, RoundOver, Pause, TimeInv
      <3>3. QED
        BY <3>1, <3>2, RoundEndsInTime DEF TimeInv
    <2>6. CASE PauseEnds
      <3>1. StartLoop /\ step \in Polled
        BY <1>3, <2>0, <2>6 DEF PauseEnds, Leave, Complete, StartLoop
      <3>2. phase = "pause" /\ Pausing /\ Waitset # {} /\ phase' = "poll"
        BY <2>6, <3>1 DEF PauseEnds, TimeInv, Pausing, StartLoop
      <3>3. QED
        BY <3>1, <3>2, StartsInTime DEF TimeInv
    <2>7. CASE Tick
      <3>1. step \in Polled /\ phase' = phase
        BY <1>3, <2>7 DEF Tick
      <3>2. CASE phase = "poll"
        BY <2>7, <3>1, <3>2, TickInTime DEF TimeInv
      <3>3. CASE phase = "pause"
        BY <2>7, <3>1, <3>3, PauseTickInTime DEF TimeInv
      <3>4. QED
        BY <2>7, <3>2, <3>3 DEF Tick
    <2>8. QED
      BY <2>1, <2>2, <2>3, <2>4, <2>5, <2>6, <2>7 DEF ReadyNext
  <1>4. QED
    BY <1>1, <1>2, <1>3

\* The bounds of the rounds bound the time of a node.
LEMMA InTimeHolds ==
  ASSUME ReadyInv, TimeInv
  PROVE  InTime
  <1>1. SUFFICES ASSUME step \in Polled, NEW n \in NotReady
                 PROVE  clock <= Wait(n) + 2 * RoundTime + PauseTime
    BY DEF InTime
  <1>2. ReadyTypeOK /\ step \in Steps /\ Waitset # {} /\ n \in Node
    BY <1>1, WaitTimes DEF ReadyInv, Polled, Steps
  <1>3. /\ Wait(n) \in Nat /\ RoundTime \in Nat /\ PauseTime \in Nat
        /\ clock \in Nat /\ round \in Nat /\ wake \in Nat
    BY <1>2, WaitTimes, RoundTimes DEF ReadyTypeOK
  <1>4. CASE phase = "enter"
    BY <1>3, <1>4 DEF ReadyInv, Looping
  <1>5. CASE phase = "poll"
    <2>1. clock <= round + RoundTime /\ round <= Wait(n) + RoundTime + PauseTime
      BY <1>1, <1>5 DEF TimeInv, Polling
    <2>2. QED
      BY <1>3, <2>1
  <1>6. CASE phase = "pause"
    <2>1. clock <= wake /\ wake <= round + RoundTime + PauseTime /\ round <= Wait(n)
      BY <1>1, <1>6 DEF TimeInv, Pausing
    <2>2. QED
      BY <1>3, <2>1
  <1>7. QED
    BY <1>2, <1>4, <1>5, <1>6 DEF ReadyTypeOK

\* No time has passed in the beginning.
LEMMA TimeStarts == ReadyInit => TimeInv
  BY DEF ReadyInit, TimeInv

-----------------------------------------------------------------------------
(* The inductive invariant *)

AllPassed == \A c \in Checks : MustPass(c) \subseteq passed[c]

\* No device has been touched.
Fresh == \A n \in Node :
  /\ thread[n] = "new" /\ pos[n] = 1
  /\ sent[n] = <<>> /\ failed[n] = {} /\ startup[n] = {} /\ played[n] = {}

Touched(n) == Done(n) \cup failed[n]
Normalized(m) == Normalize \in Done(m) \/ Method[m][Normalize] = "file" \/ errors

StageInv ==
  /\ stage \in {"create", "wait"} => Fresh
  /\ stage \in Threaded => AllPassed
  /\ stage = "normalize" => \A n \in Node : Touched(n) \subseteq {Normalize}
  /\ stage = "deploy" => \A m \in Normalizes : Normalized(m)

\* The mechanisms do not share snippets.
MethodsFit(n) ==
  /\ \A i \in Range(sent[n]) : Method[n][i] \in {"netmiko", "ns", "sh", "cp_sh"}
  /\ \A i \in startup[n] : Method[n][i] = "startup"
  /\ \A i \in played[n] : Method[n][i] = "ansible"

\* What the thread has yet to send was not sent before.
Ahead(n) ==
  /\ thread[n] \in {"new", "connect"} => Range(List(n)) \cap Range(sent[n]) = {}
  /\ thread[n] = "connect" => List(n) # <<>>
  /\ thread[n] = "netmiko" =>
       /\ IsInjective(List(n)) => \A j \in DOMAIN List(n) : j >= pos[n] => List(n)[j] \notin Range(sent[n])
       /\ \A i \in Range(List(n)) \cap Range(sent[n]) : Method[n][i] = "netmiko"
  /\ thread[n] = "scripts" =>
       \A k \in Rest(n) : Executes(n, Templates[n][k]) => Templates[n][k] \notin Range(sent[n])

\* The snippet follows one with another method.
Behind(n, i) == \E j \in 1..Len(List(n)) :
  Method[n][List(n)[j]] # "netmiko" /\ i \in Range(SubSeq(List(n), j, Len(List(n))))

Kept(n, i) == errors \/ i \in Range(sent[n]) \cup startup[n]

\* What the thread has passed was sent, or an error was logged.
Past(n) ==
  /\ pos[n] >= 1
  /\ thread[n] = "netmiko" =>
       \A j \in 1..(pos[n] - 1) : j <= Len(List(n)) /\ Kept(n, List(n)[j])
  /\ thread[n] \in {"scripts", "done"} =>
       \A i \in Range(List(n)) : Method[n][i] = "netmiko" => Kept(n, i) \/ Behind(n, i)
  /\ thread[n] = "scripts" =>
       \A k \in 1..(pos[n] - 1) :
         k <= Len(Templates[n]) /\ (Executes(n, Templates[n][k]) => Kept(n, Templates[n][k]))
  /\ thread[n] = "done" => \A i \in Range(List(n)) : Executes(n, i) => Kept(n, i)

NodeInv(n) ==
  /\ MethodsFit(n)
  /\ IsInjective(Deploy[n]) => IsInjective(sent[n])
  /\ stage \in Threaded => Ahead(n) /\ Past(n)

\* A deployment that is complete.
Delivered(n) ==
  /\ failed[n] = {}
  /\ ~errors => \A i \in Range(Deploy[n]) : i \in Done(n) \/ Method[n][i] = "file" \/ Cut(n, i)

CompleteInv == stage = "complete" /\ command = "initial" => \A n \in Node : Delivered(n)

IInv == /\ TypeOK /\ ReadyInv /\ TimeInv /\ StageInv
        /\ SentInOrder /\ CompleteInv
        /\ \A n \in Node : NodeInv(n)

-----------------------------------------------------------------------------
(* Lemmas about sequences and lists *)

\* What Append adds to the elements of a sequence.
LEMMA AppendElements ==
  ASSUME NEW S, NEW s \in Seq(S), NEW e \in S
  PROVE  /\ Append(s, e) \in Seq(S) /\ Range(Append(s, e)) = Range(s) \cup {e}
         /\ IsInjective(s) /\ e \notin Range(s) => IsInjective(Append(s, e))
  <1> DEFINE t == Append(s, e)
  <1>1. /\ t \in Seq(S) /\ Len(t) = Len(s) + 1 /\ Len(s) \in Nat
        /\ \A i \in 1..Len(s) : t[i] = s[i]
        /\ t[Len(s) + 1] = e
    OBVIOUS
  <1>2. DOMAIN s = 1..Len(s) /\ DOMAIN t = 1..(Len(s) + 1)
    BY <1>1, LenProperties
  <1>3. Range(t) = Range(s) \cup {e}
    <2>1. \A i \in 1..(Len(s) + 1) : i \in 1..Len(s) \/ i = Len(s) + 1
      BY <1>1
    <2>2. 1..Len(s) \subseteq 1..(Len(s) + 1) /\ Len(s) + 1 \in 1..(Len(s) + 1)
      BY <1>1
    <2>3. QED
      BY <1>1, <1>2, <2>1, <2>2 DEF Range
  <1>4. ASSUME IsInjective(s), e \notin Range(s) PROVE IsInjective(t)
    <2>1. SUFFICES ASSUME NEW i \in 1..(Len(s) + 1), NEW j \in 1..(Len(s) + 1), t[i] = t[j]
                   PROVE  i = j
      BY <1>2 DEF IsInjective
    <2>2. \A k \in 1..Len(s) : t[k] = s[k] /\ s[k] # e
      BY <1>1, <1>2, <1>4 DEF Range
    <2>3. CASE i \in 1..Len(s) /\ j \in 1..Len(s)
      BY <1>2, <1>4, <2>1, <2>2, <2>3 DEF IsInjective
    <2>4. CASE i = Len(s) + 1 \/ j = Len(s) + 1
      BY <1>1, <2>1, <2>2, <2>4
    <2>5. QED
      BY <1>1, <2>3, <2>4
  <1>5. QED
    BY <1>1, <1>3, <1>4

\* The list of a stage is a list of snippets.
LEMMA ListType ==
  ASSUME NEW n \in Node
  PROVE  /\ List(n) \in Seq(Item) /\ Range(List(n)) \subseteq Item
         /\ DOMAIN List(n) = 1..Len(List(n)) /\ Len(List(n)) \in Nat
         /\ IsInjective(Deploy[n]) => IsInjective(List(n))
         /\ stage # "deploy" => Range(List(n)) \subseteq {Normalize}
         /\ stage = "deploy" => List(n) = Deploy[n]
         /\ stage # "deploy" /\ n \in Normalizes => List(n) = <<Normalize>>
  <1>1. Deploy[n] \in Seq(Item \ {Normalize}) /\ Normalize \in Item
    BY ConfigAssumption
  <1>2. Deploy[n] \in Seq(Item)
    BY <1>1, SeqMonotonic
  <1>3. /\ <<>> \in Seq(Item) /\ <<Normalize>> \in Seq(Item)
        /\ Range(<<Normalize>>) = {Normalize} /\ Range(<<>>) = {}
        /\ IsInjective(<<>>) /\ IsInjective(<<Normalize>>)
    BY <1>1 DEF Range, IsInjective
  <1>4. List(n) \in Seq(Item) /\ (IsInjective(Deploy[n]) => IsInjective(List(n)))
    BY <1>2, <1>3 DEF List
  <1>5. DOMAIN List(n) = 1..Len(List(n)) /\ Len(List(n)) \in Nat /\ Range(List(n)) \subseteq Item
    <2>1. DOMAIN List(n) = 1..Len(List(n)) /\ Len(List(n)) \in Nat
      BY <1>4, LenProperties
    <2>2. \A j \in 1..Len(List(n)) : List(n)[j] \in Item
      BY <1>4, ElementOfSeq
    <2>3. QED
      BY <2>1, <2>2 DEF Range
  <1>6. stage # "deploy" => Range(List(n)) \subseteq {Normalize}
    BY <1>3 DEF List
  <1>7. /\ stage = "deploy" => List(n) = Deploy[n]
        /\ stage # "deploy" /\ n \in Normalizes => List(n) = <<Normalize>>
    BY DEF List
  <1>8. QED
    BY <1>4, <1>5, <1>6, <1>7

\* The templates of a node.
LEMMA TemplateType ==
  ASSUME NEW n \in Node
  PROVE  /\ DOMAIN Templates[n] = 1..Len(Templates[n]) /\ Len(Templates[n]) \in Nat
         /\ IsInjective(Templates[n])
         /\ \A k \in 1..Len(Templates[n]) : Templates[n][k] \in Item
  <1>1. Templates[n] \in Seq(Item)
    BY ConfigAssumption
  <1>2. QED
    BY <1>1, ConfigAssumption, LenProperties, ElementOfSeq

\* A provider executes the scripts it knows, and they are among its templates.
LEMMA ScriptFacts ==
  ASSUME NEW n \in Node, NEW i \in Item, Executes(n, i)
  PROVE  /\ i \in Range(List(n)) /\ i \in Range(Templates[n])
         /\ Method[n][i] \in {"ns", "sh", "cp_sh", "startup"}
         /\ Provider[n] = "libvirt" => Method[n][i] \in {"sh", "cp_sh"}
  <1>1. Provider[n] \in {"clab", "libvirt"} /\ Method[n][i] \in Scripts[Provider[n]]
    BY ConfigAssumption DEF Executes
  <1>2. i \in Range(Templates[n])
    BY <1>1, ConfigAssumption
  <1>3. QED
    BY <1>1, <1>2 DEF Executes, Scripts

-----------------------------------------------------------------------------
(* The thread of a node *)

\* What a step of the thread of another node leaves alone.
LEMMA OtherNode ==
  ASSUME NEW m \in Node, NodeInv(m), UNCHANGED stage, errors => errors', errors' \in BOOLEAN,
         thread'[m] = thread[m], pos'[m] = pos[m], sent'[m] = sent[m],
         startup'[m] = startup[m], played'[m] = played[m]
  PROVE  NodeInv(m)'
  <1>1. List(m)' = List(m) /\ Rest(m)' = Rest(m)
    BY DEF List, Rest
  <1>2. \A i : Executes(m, i)' = Executes(m, i) /\ Behind(m, i)' = Behind(m, i) /\ (Kept(m, i) => Kept(m, i)')
    BY <1>1 DEF Executes, Behind, Kept
  <1>3. MethodsFit(m)' /\ (IsInjective(Deploy[m]) => IsInjective(sent'[m]))
    BY DEF NodeInv, MethodsFit
  <1>4. ASSUME stage \in Threaded PROVE Ahead(m)'
    BY <1>1, <1>2, <1>4 DEF NodeInv, Ahead
  <1>5. ASSUME stage \in Threaded PROVE Past(m)'
    BY <1>1, <1>2, <1>5 DEF NodeInv, Past
  <1>6. QED
    BY <1>3, <1>4, <1>5 DEF NodeInv

\* The list and what the provider executes of it change with the stage only.
LEMMA ListKept ==
  ASSUME UNCHANGED stage, NEW n \in Node
  PROVE  /\ List(n)' = List(n)
         /\ \A i : Executes(n, i)' = Executes(n, i) /\ Behind(n, i)' = Behind(n, i)
  <1>1. List(n)' = List(n)
    BY DEF List
  <1>2. QED
    BY <1>1 DEF Executes, Behind

\* The thread begins, or is connected.
LEMMA EarlyKeeps ==
  ASSUME TypeOK, NEW n \in Node, NodeInv(n), stage \in Threaded, UNCHANGED <<stage, sent, startup, played>>,
         errors' = errors, NEW t,
         \/ thread[n] = "new" /\ t = "connect" /\ List(n) # <<>>
         \/ thread[n] = "connect" /\ t = "netmiko"
         \/ thread[n] = "new" /\ t = "done" /\ List(n) = <<>>,
         Move(n, t)
  PROVE  NodeInv(n)'
  <1>1. thread'[n] = t /\ pos'[n] = 1
    BY DEF Move, TypeOK
  <1>2. /\ List(n)' = List(n) /\ \A i : Executes(n, i)' = Executes(n, i)
        /\ DOMAIN List(n) = 1..Len(List(n))
    BY ListKept, ListType
  <1>3. Range(List(n)) \cap Range(sent[n]) = {}
    BY DEF NodeInv, Ahead
  <1>4. MethodsFit(n)' /\ (IsInjective(Deploy[n]) => IsInjective(sent'[n]))
    BY DEF NodeInv, MethodsFit
  <1>5. Ahead(n)'
    BY <1>1, <1>2, <1>3 DEF Ahead, Range
  <1>6. Past(n)'
    <2>1. t = "done" => Range(List(n)) = {}
      BY <1>2 DEF Range
    <2>2. QED
      BY <1>1, <1>2, <2>1 DEF Past
  <1>7. QED
    BY <1>4, <1>5, <1>6 DEF NodeInv

\* The scripts follow what netmiko has sent.
LEMMA ToScriptsKeeps ==
  ASSUME TypeOK, NEW n \in Node, NodeInv(n), stage \in Threaded, UNCHANGED <<stage, sent, startup, played>>,
         thread[n] \in {"new", "connect", "netmiko"}, Move(n, "scripts"),
         \A i \in Range(List(n)) : Method[n][i] = "netmiko" => errors' \/ i \in Range(sent[n]) \/ Behind(n, i)
  PROVE  NodeInv(n)'
  <1>1. thread'[n] = "scripts" /\ pos'[n] = 1
    BY DEF Move, TypeOK
  <1>2. /\ List(n)' = List(n) /\ Range(List(n)) \subseteq Item
        /\ \A i : Executes(n, i)' = Executes(n, i) /\ Behind(n, i)' = Behind(n, i)
    BY ListKept, ListType
  <1>3. MethodsFit(n)' /\ (IsInjective(Deploy[n]) => IsInjective(sent'[n]))
    BY DEF NodeInv, MethodsFit
  <1>4. ASSUME NEW i \in Item, Executes(n, i) PROVE i \notin Range(sent[n])
    <2>1. i \in Range(List(n)) /\ Method[n][i] # "netmiko"
      BY <1>4, ScriptFacts
    <2>2. QED
      BY <2>1 DEF NodeInv, Ahead
  <1>5. Ahead(n)'
    <2>1. ASSUME NEW k \in Rest(n)' PROVE Templates[n][k] \in Item
      BY <1>1, <2>1, TemplateType DEF Rest
    <2>2. QED
      BY <1>1, <1>2, <1>4, <2>1 DEF Ahead
  <1>6. Past(n)'
    BY <1>1, <1>2 DEF Past, Kept
  <1>7. QED
    BY <1>3, <1>5, <1>6 DEF NodeInv

\* A thread that ends with an error.
LEMMA GivesUpKeeps ==
  ASSUME TypeOK, NEW n \in Node, NodeInv(n), UNCHANGED <<stage, sent, startup, played>>,
         Move(n, "done"), errors' = TRUE
  PROVE  NodeInv(n)'
  <1>1. thread'[n] = "done" /\ pos'[n] = 1
    BY DEF Move, TypeOK
  <1>2. MethodsFit(n)' /\ (IsInjective(Deploy[n]) => IsInjective(sent'[n]))
    BY DEF NodeInv, MethodsFit
  <1>3. Ahead(n)' /\ Past(n)'
    BY <1>1 DEF Ahead, Past, Kept
  <1>4. QED
    BY <1>2, <1>3 DEF NodeInv

\* netmiko goes on: the snippet is sent, or there is an error.
LEMMA NetmikoNextKeeps ==
  ASSUME TypeOK, NEW n \in Node, NodeInv(n), stage \in Threaded, UNCHANGED <<stage, startup, played>>,
         errors => errors', errors' \in BOOLEAN,
         thread[n] = "netmiko", NextItem(n, pos[n]), pos[n] <= Len(List(n)),
         Method[n][List(n)[pos[n]]] = "netmiko",
         Succeeds(n, List(n)[pos[n]]) \/ (errors' = TRUE /\ UNCHANGED sent)
  PROVE  NodeInv(n)'
  <1> DEFINE i == List(n)[pos[n]]
  <1>1. thread'[n] = "netmiko" /\ pos'[n] = pos[n] + 1 /\ pos[n] \in Nat /\ pos[n] >= 1
    BY DEF NextItem, TypeOK, NodeInv, Past
  <1>2. /\ List(n)' = List(n) /\ Range(List(n)) \subseteq Item /\ Len(List(n)) \in Nat
        /\ DOMAIN List(n) = 1..Len(List(n)) /\ List(n) \in Seq(Item)
        /\ IsInjective(Deploy[n]) => IsInjective(List(n))
    BY ListKept, ListType
  <1>3. pos[n] \in DOMAIN List(n) /\ i \in Range(List(n)) /\ i \in Item
    BY <1>1, <1>2 DEF Range
  <1>4. sent[n] \in Seq(Item)
    BY DEF TypeOK
  <1>5. /\ Range(sent'[n]) \subseteq Range(sent[n]) \cup {i} /\ Range(sent[n]) \subseteq Range(sent'[n])
        /\ errors' \/ i \in Range(sent'[n])
    <2>1. CASE Succeeds(n, i)
      <3>1. sent'[n] = Append(sent[n], i)
        BY <2>1 DEF Succeeds, TypeOK
      <3>2. QED
        BY <1>3, <1>4, <3>1, AppendElements
    <2>2. CASE errors' = TRUE /\ UNCHANGED sent
      BY <2>2
    <2>3. QED
      BY <2>1, <2>2
  <1>6. ASSUME IsInjective(Deploy[n]) PROVE IsInjective(sent'[n])
    <2>1. i \notin Range(sent[n])
      BY <1>1, <1>2, <1>3, <1>6 DEF NodeInv, Ahead
    <2>2. CASE Succeeds(n, i)
      <3>1. sent'[n] = Append(sent[n], i)
        BY <2>2 DEF Succeeds, TypeOK
      <3>2. QED
        BY <1>3, <1>4, <1>6, <2>1, <3>1, AppendElements DEF NodeInv
    <2>3. CASE errors' = TRUE /\ UNCHANGED sent
      BY <1>6, <2>3 DEF NodeInv
    <2>4. QED
      BY <2>2, <2>3
  <1>7. MethodsFit(n)'
    BY <1>5 DEF NodeInv, MethodsFit
  <1>8. Ahead(n)'
    <2>1. ASSUME IsInjective(List(n)), NEW j \in DOMAIN List(n), j >= pos[n] + 1
          PROVE  List(n)[j] \notin Range(sent'[n])
      <3>1. List(n)[j] # i
        BY <1>1, <1>2, <1>3, <2>1 DEF IsInjective
      <3>2. List(n)[j] \notin Range(sent[n])
        BY <1>1, <1>2, <2>1 DEF NodeInv, Ahead
      <3>3. QED
        BY <1>5, <3>1, <3>2
    <2>2. \A x \in Range(List(n)) \cap Range(sent'[n]) : Method[n][x] = "netmiko"
      BY <1>5 DEF NodeInv, Ahead
    <2>3. QED
      BY <1>1, <1>2, <2>1, <2>2 DEF Ahead
  <1>9. Past(n)'
    <2>1. ASSUME NEW j \in 1..pos[n]
          PROVE  j <= Len(List(n)) /\ Kept(n, List(n)[j])'
      <3>1. CASE j = pos[n]
        BY <1>2, <1>5, <3>1 DEF Kept
      <3>2. CASE j # pos[n]
        <4>1. j \in 1..(pos[n] - 1)
          BY <1>1, <3>2
        <4>2. j <= Len(List(n)) /\ Kept(n, List(n)[j])
          BY <4>1 DEF NodeInv, Past
        <4>3. QED
          BY <1>2, <1>5, <4>2 DEF Kept
      <3>3. QED
        BY <3>1, <3>2
    <2>2. pos'[n] - 1 = pos[n] /\ pos'[n] >= 1
      BY <1>1
    <2>3. QED
      BY <1>1, <1>2, <2>1, <2>2 DEF Past
  <1>10. QED
    BY <1>6, <1>7, <1>8, <1>9 DEF NodeInv

\* The provider goes on: the snippet is sent, or part of the startup configuration,
\* or there is an error.
LEMMA ScriptNextKeeps ==
  ASSUME TypeOK, NEW n \in Node, NodeInv(n), stage \in Threaded, UNCHANGED <<stage, played>>,
         errors => errors', errors' \in BOOLEAN,
         NEW k \in Rest(n), NEW p, Script(n, k, p), NextItem(n, k),
         \/ /\ Succeeds(n, Templates[n][k]) /\ UNCHANGED startup
            /\ Method[n][Templates[n][k]] \in {"ns", "sh", "cp_sh"}
         \/ /\ startup' = [startup EXCEPT ![n] = @ \cup {Templates[n][k]}] /\ UNCHANGED sent
            /\ Method[n][Templates[n][k]] = "startup"
         \/ errors' = TRUE /\ UNCHANGED <<sent, startup>>
  PROVE  NodeInv(n)'
  <1> DEFINE i == Templates[n][k]
  <1>1. /\ thread[n] = "scripts" /\ thread'[n] = "scripts" /\ pos'[n] = k + 1
        /\ pos[n] \in Nat /\ pos[n] >= 1 /\ Executes(n, i)
    BY DEF Script, Run, NextItem, TypeOK, NodeInv, Past
  <1>2. /\ List(n)' = List(n) /\ Range(List(n)) \subseteq Item
        /\ \A x : Executes(n, x)' = Executes(n, x) /\ Behind(n, x)' = Behind(n, x)
    BY ListKept, ListType
  <1>3. /\ DOMAIN Templates[n] = 1..Len(Templates[n]) /\ Len(Templates[n]) \in Nat
        /\ IsInjective(Templates[n]) /\ \A j \in 1..Len(Templates[n]) : Templates[n][j] \in Item
    BY TemplateType
  <1>4. k \in Nat /\ k >= pos[n] /\ k <= Len(Templates[n]) /\ i \in Item
    BY <1>1, <1>3 DEF Rest
  <1>5. /\ sent[n] \in Seq(Item) /\ sent' \in [Node -> Seq(Item)]
        /\ Range(sent'[n]) \subseteq Range(sent[n]) \cup {i} /\ Range(sent[n]) \subseteq Range(sent'[n])
        /\ startup[n] \subseteq startup'[n]
        /\ errors' \/ i \in Range(sent'[n]) \cup startup'[n]
        /\ IsInjective(Deploy[n]) => IsInjective(sent'[n])
    <2>0. sent \in [Node -> Seq(Item)] /\ startup \in [Node -> SUBSET Item]
      BY DEF TypeOK
    <2>1. CASE Succeeds(n, i) /\ UNCHANGED startup
      <3>1. sent'[n] = Append(sent[n], i) /\ sent[n] \in Seq(Item)
        BY <2>0, <2>1 DEF Succeeds
      <3>2. i \notin Range(sent[n])
        BY <1>1 DEF NodeInv, Ahead
      <3>3. Append(sent[n], i) \in Seq(Item)
        BY <1>4, <3>1, AppendElements
      <3>4. sent' \in [Node -> Seq(Item)]
        BY <2>0, <2>1, <3>3 DEF Succeeds
      <3>5. QED
        BY <1>4, <2>1, <3>1, <3>2, <3>4, AppendElements DEF NodeInv
    <2>2. CASE startup' = [startup EXCEPT ![n] = @ \cup {i}] /\ UNCHANGED sent
      BY <2>0, <2>2 DEF NodeInv
    <2>3. CASE errors' = TRUE /\ UNCHANGED <<sent, startup>>
      BY <2>0, <2>3 DEF NodeInv
    <2>4. QED
      BY <2>1, <2>2, <2>3
  <1>6. MethodsFit(n)'
    <2>0. MethodsFit(n) /\ sent \in [Node -> Seq(Item)] /\ startup \in [Node -> SUBSET Item]
      BY DEF NodeInv, TypeOK
    <2>1. CASE Succeeds(n, i) /\ UNCHANGED startup /\ Method[n][i] \in {"ns", "sh", "cp_sh"}
      BY <1>5, <2>0, <2>1 DEF MethodsFit
    <2>2. CASE startup' = [startup EXCEPT ![n] = @ \cup {i}] /\ UNCHANGED sent /\ Method[n][i] = "startup"
      BY <2>0, <2>2 DEF MethodsFit
    <2>3. CASE errors' = TRUE /\ UNCHANGED <<sent, startup>>
      BY <2>0, <2>3 DEF MethodsFit
    <2>4. QED
      BY <2>1, <2>2, <2>3
  <1>7. Ahead(n)'
    <2>1. ASSUME NEW j \in (k + 1)..Len(Templates[n]), Executes(n, Templates[n][j])
          PROVE  Templates[n][j] \notin Range(sent'[n])
      <3>1. j \in Rest(n) /\ j \in 1..Len(Templates[n]) /\ j # k /\ k \in 1..Len(Templates[n])
        BY <1>1, <1>3, <1>4 DEF Rest
      <3>2. Templates[n][j] # i
        BY <1>3, <3>1 DEF IsInjective
      <3>3. Templates[n][j] \notin Range(sent[n])
        BY <1>1, <2>1, <3>1 DEF NodeInv, Ahead
      <3>4. QED
        BY <1>5, <3>2, <3>3
    <2>2. QED
      BY <1>1, <1>2, <2>1 DEF Ahead, Rest
  <1>8. \A x : Kept(n, x) => Kept(n, x)'
    BY <1>5 DEF Kept
  <1>9. Past(n)'
    <2>1. ASSUME NEW j \in 1..k
          PROVE  j <= Len(Templates[n]) /\ (Executes(n, Templates[n][j]) => Kept(n, Templates[n][j])')
      <3>1. CASE j = k
        BY <1>4, <1>5, <3>1 DEF Kept
      <3>2. CASE j < pos[n]
        <4>1. j \in 1..(pos[n] - 1)
          BY <1>1, <3>2
        <4>2. QED
          BY <1>1, <1>8, <4>1 DEF NodeInv, Past
      <3>3. CASE pos[n] <= j /\ j < k
        <4>1. j \in Rest(n) /\ j <= Len(Templates[n])
          BY <1>1, <1>3, <1>4, <3>3 DEF Rest
        <4>2. ~Executes(n, Templates[n][j])
          BY <3>3, <4>1 DEF Script
        <4>3. QED
          BY <4>1, <4>2
      <3>4. QED
        BY <1>1, <1>4, <3>1, <3>2, <3>3
    <2>2. pos'[n] - 1 = k /\ pos'[n] >= 1
      BY <1>1, <1>4
    <2>3. \A x \in Range(List(n)) : Method[n][x] = "netmiko" => Kept(n, x)' \/ Behind(n, x)'
      BY <1>1, <1>2, <1>8 DEF NodeInv, Past
    <2>4. QED
      BY <1>1, <1>2, <2>1, <2>2, <2>3 DEF Past
  <1>10. QED
    BY <1>5, <1>6, <1>7, <1>9 DEF NodeInv

\* The provider is done with all of its templates.
LEMMA ScriptsDoneKeeps ==
  ASSUME TypeOK, NEW n \in Node, NodeInv(n), ScriptsDone(n)
  PROVE  NodeInv(n)'
  <1>1. /\ thread[n] = "scripts" /\ thread'[n] = "done" /\ pos'[n] = 1 /\ stage \in Threaded
        /\ pos[n] \in Nat /\ UNCHANGED <<stage, sent, startup, played, errors>>
    BY DEF ScriptsDone, Run, Move, Same, TypeOK
  <1>2. /\ List(n)' = List(n) /\ Range(List(n)) \subseteq Item
        /\ \A x : Executes(n, x)' = Executes(n, x) /\ Behind(n, x)' = Behind(n, x)
    BY <1>1, ListKept, ListType
  <1>3. MethodsFit(n)' /\ (IsInjective(Deploy[n]) => IsInjective(sent'[n])) /\ Ahead(n)'
    BY <1>1 DEF NodeInv, MethodsFit, Ahead
  <1>4. ASSUME NEW i \in Range(List(n)), Executes(n, i) PROVE Kept(n, i)
    <2>1. i \in Range(Templates[n]) /\ DOMAIN Templates[n] = 1..Len(Templates[n]) /\ Len(Templates[n]) \in Nat
      BY <1>2, <1>4, ScriptFacts, TemplateType
    <2>2. PICK k \in 1..Len(Templates[n]) : i = Templates[n][k]
      BY <2>1 DEF Range
    <2>3. k \notin Rest(n)
      BY <1>4, <2>2 DEF ScriptsDone
    <2>4. k \in 1..(pos[n] - 1)
      BY <1>1, <2>1, <2>3 DEF Rest
    <2>5. QED
      BY <1>1, <1>4, <2>2, <2>4 DEF NodeInv, Past
  <1>5. Past(n)'
    <2>1. \A i : Kept(n, i)' = Kept(n, i)
      BY <1>1 DEF Kept
    <2>2. QED
      BY <1>1, <1>2, <1>4, <2>1 DEF NodeInv, Past
  <1>6. QED
    BY <1>3, <1>5 DEF NodeInv

ThreadStep(n) ==
  \/ BeginThread(n) \/ Connect(n) \/ NetmikoDone(n) \/ NetmikoItem(n)
  \/ ScriptsDone(n) \/ ClabItem(n) \/ LibvirtItem(n)

\* What a provider does with a snippet it executes.
ScriptStep(n, k) ==
  /\ \E p \in {"clab", "libvirt"} : Script(n, k, p)
  /\ errors => errors'
  /\ errors' \in BOOLEAN
  /\ \/ /\ NextItem(n, k)
        /\ \/ /\ Succeeds(n, Templates[n][k]) /\ UNCHANGED <<startup, failed>>
              /\ Method[n][Templates[n][k]] \in {"ns", "sh", "cp_sh"}
           \/ /\ startup' = [startup EXCEPT ![n] = @ \cup {Templates[n][k]}] /\ UNCHANGED <<sent, failed>>
              /\ Method[n][Templates[n][k]] = "startup"
           \/ errors' = TRUE /\ UNCHANGED <<sent, startup, failed>>
     \/ /\ Move(n, "done") /\ errors' = TRUE /\ UNCHANGED <<sent, startup>>
        /\ UNCHANGED failed \/ Fails(n, Templates[n][k])

\* Both providers do the same kinds of things with a snippet.
LEMMA ScriptSteps ==
  ASSUME TypeOK, NEW n \in Node, NodeInv(n), ClabItem(n) \/ LibvirtItem(n)
  PROVE  \E k \in Rest(n) : ScriptStep(n, k)
  <1>0. errors \in BOOLEAN /\ pos[n] \in Nat
    BY DEF TypeOK, ReadyTypeOK
  <1>1. CASE ClabItem(n)
    <2>1. PICK k \in Rest(n) :
            /\ Script(n, k, "clab")
            /\ LET i == Templates[n][k]
                   m == Method[n][i] IN
               \/ /\ m = "startup"
                  /\ startup' = [startup EXCEPT ![n] = @ \cup {i}]
                  /\ NextItem(n, k) /\ UNCHANGED <<errors, sent, failed>>
               \/ /\ errors' = TRUE
                  /\ Move(n, "done") /\ UNCHANGED <<sent, failed, startup>>
               \/ /\ errors' = TRUE
                  /\ NextItem(n, k) /\ UNCHANGED <<sent, failed, startup>>
               \/ /\ m \in {"ns", "sh", "cp_sh"}
                  /\ \/ NextItem(n, k) /\ Succeeds(n, i) /\ UNCHANGED <<errors, failed>>
                     \/ Move(n, "done") /\ Fails(n, i) /\ UNCHANGED sent
                  /\ UNCHANGED startup
      BY <1>1 DEF ClabItem
    <2> DEFINE i == Templates[n][k]
               m == Method[n][i]
    <2>2. CASE m = "startup" /\ startup' = [startup EXCEPT ![n] = @ \cup {i}]
               /\ NextItem(n, k) /\ UNCHANGED <<errors, sent, failed>>
      BY <1>0, <2>1, <2>2 DEF ScriptStep
    <2>3. CASE errors' = TRUE /\ Move(n, "done") /\ UNCHANGED <<sent, failed, startup>>
      BY <2>1, <2>3 DEF ScriptStep
    <2>4. CASE errors' = TRUE /\ NextItem(n, k) /\ UNCHANGED <<sent, failed, startup>>
      BY <2>1, <2>4 DEF ScriptStep
    <2>5. CASE m \in {"ns", "sh", "cp_sh"} /\ NextItem(n, k) /\ Succeeds(n, i) /\ UNCHANGED <<errors, failed, startup>>
      BY <1>0, <2>1, <2>5 DEF ScriptStep
    <2>6. CASE Move(n, "done") /\ Fails(n, i) /\ UNCHANGED <<sent, startup>>
      BY <2>1, <2>6 DEF ScriptStep, Fails
    <2>7. QED
      BY <2>1, <2>2, <2>3, <2>4, <2>5, <2>6
  <1>2. CASE LibvirtItem(n)
    <2>1. PICK k \in Rest(n) :
            /\ Script(n, k, "libvirt")
            /\ LET i == Templates[n][k] IN
               \/ NextItem(n, k) /\ Succeeds(n, i) /\ UNCHANGED <<errors, failed>>
               \/ Move(n, "done") /\ Fails(n, i) /\ UNCHANGED sent
               \/ Move(n, "done") /\ errors' = TRUE /\ UNCHANGED <<sent, failed>>
            /\ UNCHANGED startup
      BY <1>2 DEF LibvirtItem
    <2>2. Templates[n][k] \in Item
      <3>1. pos[n] >= 1
        BY <2>1 DEF Script, Run, NodeInv, Past
      <3>2. k \in 1..Len(Templates[n])
        BY <1>0, <3>1, TemplateType DEF Rest
      <3>3. QED
        BY <3>2, TemplateType
    <2>3. Method[n][Templates[n][k]] \in {"ns", "sh", "cp_sh"}
      BY <2>1, <2>2, ScriptFacts DEF Script
    <2>4. CASE NextItem(n, k) /\ Succeeds(n, Templates[n][k]) /\ UNCHANGED <<errors, failed, startup>>
      BY <1>0, <2>1, <2>3, <2>4 DEF ScriptStep
    <2>5. CASE Move(n, "done") /\ Fails(n, Templates[n][k]) /\ UNCHANGED <<sent, startup>>
      BY <2>1, <2>5 DEF ScriptStep, Fails
    <2>6. CASE Move(n, "done") /\ errors' = TRUE /\ UNCHANGED <<sent, failed, startup>>
      BY <2>1, <2>6 DEF ScriptStep
    <2>7. QED
      BY <2>1, <2>4, <2>5, <2>6
  <1>3. QED
    BY <1>1, <1>2

\* Every step of the thread keeps what is known of its node.
LEMMA ThreadKeeps ==
  ASSUME TypeOK, NEW n \in Node, NodeInv(n), ThreadStep(n)
  PROVE  NodeInv(n)'
  <1>0. stage \in Threaded /\ UNCHANGED <<stage, played>> /\ errors \in BOOLEAN /\ pos[n] \in Nat
    BY DEF ThreadStep, BeginThread, Connect, NetmikoDone, NetmikoItem, ScriptsDone, ClabItem, LibvirtItem,
           Script, Run, Same, TypeOK, ReadyTypeOK
  <1>1. CASE BeginThread(n)
    <2>1. \A i \in Range(List(n)) : i \in Item
      BY ListType
    <2>2. CASE List(n) = <<>>
      BY <1>0, <1>1, <2>2, EarlyKeeps DEF BeginThread, Run
    <2>3. CASE List(n) # <<>> /\ Netmiko(n)
      BY <1>0, <1>1, <2>3, EarlyKeeps DEF BeginThread, Run
    <2>4. CASE List(n) # <<>> /\ ~Netmiko(n)
      BY <1>0, <1>1, <2>1, <2>4, ToScriptsKeeps DEF BeginThread, Run, Netmiko
    <2>5. QED
      BY <2>2, <2>3, <2>4
  <1>2. CASE Connect(n)
    <2>1. CASE Move(n, "netmiko") /\ UNCHANGED <<errors, failed>>
      BY <1>0, <1>2, <2>1, EarlyKeeps DEF Connect, Run
    <2>2. CASE Move(n, "scripts") /\ Fails(n, Head(List(n)))
      BY <1>0, <1>2, <2>2, ToScriptsKeeps DEF Connect, Run, Fails
    <2>3. QED
      BY <1>2, <2>1, <2>2 DEF Connect
  <1>3. CASE NetmikoDone(n)
    <2>0. /\ List(n) \in Seq(Item) /\ DOMAIN List(n) = 1..Len(List(n)) /\ Len(List(n)) \in Nat
          /\ pos[n] \in Nat /\ pos[n] >= 1 /\ thread[n] = "netmiko"
      BY <1>0, <1>3, ListType DEF NetmikoDone, Run, NodeInv, Past
    <2>1. ASSUME NEW i \in Range(List(n)), Method[n][i] = "netmiko"
          PROVE  errors' \/ i \in Range(sent[n]) \/ Behind(n, i)
      <3>1. PICK j \in 1..Len(List(n)) : i = List(n)[j]
        BY <2>0 DEF Range
      <3>2. CASE j < pos[n]
        <4>1. j \in 1..(pos[n] - 1)
          BY <2>0, <3>2
        <4>2. Kept(n, i) /\ i \notin startup[n]
          BY <1>0, <2>0, <2>1, <3>1, <4>1 DEF NodeInv, Past, MethodsFit
        <4>3. QED
          BY <1>3, <4>2 DEF Kept, NetmikoDone
      <3>3. CASE pos[n] <= j
        <4>1. pos[n] \in 1..Len(List(n)) /\ Method[n][List(n)[pos[n]]] # "netmiko"
          BY <1>3, <2>0, <3>3 DEF NetmikoDone
        <4>2. i \in Range(SubSeq(List(n), pos[n], Len(List(n))))
          <5>1. /\ DOMAIN SubSeq(List(n), pos[n], Len(List(n))) = 1..(Len(List(n)) - pos[n] + 1)
                /\ \A x \in 1..(Len(List(n)) - pos[n] + 1) :
                     SubSeq(List(n), pos[n], Len(List(n)))[x] = List(n)[pos[n] + x - 1]
            BY <2>0, <4>1
          <5>2. j - pos[n] + 1 \in 1..(Len(List(n)) - pos[n] + 1) /\ pos[n] + (j - pos[n] + 1) - 1 = j
            BY <2>0, <3>3
          <5>3. QED
            BY <3>1, <5>1, <5>2 DEF Range
        <4>3. QED
          BY <4>1, <4>2 DEF Behind
      <3>4. QED
        BY <2>0, <3>2, <3>3
    <2>2. QED
      BY <1>0, <1>3, <2>0, <2>1, ToScriptsKeeps DEF NetmikoDone
  <1>4. CASE NetmikoItem(n)
    <2> DEFINE i == List(n)[pos[n]]
    <2>0. thread[n] = "netmiko" /\ pos[n] <= Len(List(n)) /\ Method[n][i] = "netmiko" /\ UNCHANGED startup
      BY <1>4 DEF NetmikoItem, Run
    <2>1. CASE NextItem(n, pos[n]) /\ Succeeds(n, i) /\ UNCHANGED <<errors, failed>>
      BY <1>0, <2>0, <2>1, NetmikoNextKeeps
    <2>2. CASE NextItem(n, pos[n]) /\ Fails(n, i) /\ UNCHANGED sent
      BY <1>0, <2>0, <2>2, NetmikoNextKeeps DEF Fails
    <2>3. CASE Move(n, "scripts") /\ Fails(n, i) /\ UNCHANGED sent
      BY <1>0, <2>0, <2>3, ToScriptsKeeps DEF Fails
    <2>4. QED
      BY <1>4, <2>1, <2>2, <2>3 DEF NetmikoItem
  <1>5. CASE ScriptsDone(n)
    BY <1>5, ScriptsDoneKeeps
  <1>6. CASE ClabItem(n) \/ LibvirtItem(n)
    <2>1. PICK k \in Rest(n) : ScriptStep(n, k)
      BY <1>6, ScriptSteps
    <2>2. PICK p \in {"clab", "libvirt"} : Script(n, k, p)
      BY <2>1 DEF ScriptStep
    <2>3. CASE /\ NextItem(n, k)
               /\ \/ /\ Succeeds(n, Templates[n][k]) /\ UNCHANGED <<startup, failed>>
                     /\ Method[n][Templates[n][k]] \in {"ns", "sh", "cp_sh"}
                  \/ /\ startup' = [startup EXCEPT ![n] = @ \cup {Templates[n][k]}] /\ UNCHANGED <<sent, failed>>
                     /\ Method[n][Templates[n][k]] = "startup"
                  \/ errors' = TRUE /\ UNCHANGED <<sent, startup, failed>>
      <3>1. (errors => errors') /\ errors' \in BOOLEAN
        BY <2>1 DEF ScriptStep
      <3>2. QED
        BY <1>0, <2>2, <2>3, <3>1, ScriptNextKeeps
    <2>4. CASE Move(n, "done") /\ errors' = TRUE /\ UNCHANGED <<sent, startup>>
      BY <1>0, <2>4, GivesUpKeeps
    <2>5. QED
      BY <2>1, <2>3, <2>4 DEF ScriptStep
  <1>7. QED
    BY <1>1, <1>2, <1>3, <1>4, <1>5, <1>6 DEF ThreadStep

-----------------------------------------------------------------------------
(* Steps of the threads and the invariant *)

\* A thread changes its place and what is known of one snippet of its list.
Moves(n) == \E t \in {"new", "connect", "netmiko", "scripts", "done"}, k \in Nat :
  thread' = [thread EXCEPT ![n] = t] /\ pos' = [pos EXCEPT ![n] = k]

Sends(n) ==
  \/ UNCHANGED <<sent, failed, startup>>
  \/ \E i \in Range(List(n)) :
       \/ Succeeds(n, i) /\ UNCHANGED <<failed, startup>>
       \/ failed' = [failed EXCEPT ![n] = @ \cup {i}] /\ UNCHANGED <<sent, startup>>
       \/ startup' = [startup EXCEPT ![n] = @ \cup {i}] /\ UNCHANGED <<sent, failed>>

\* The ways a thread goes on.
LEMMA MoveMoves ==
  ASSUME TypeOK, NEW n \in Node
  PROVE  /\ \A t \in {"new", "connect", "netmiko", "scripts", "done"} : Move(n, t) => Moves(n)
         /\ \A k \in Nat : NextItem(n, k) => Moves(n)
  <1>1. ASSUME NEW t \in {"new", "connect", "netmiko", "scripts", "done"}, Move(n, t) PROVE Moves(n)
    BY <1>1 DEF Move, Moves
  <1>2. ASSUME NEW k \in Nat, NextItem(n, k) PROVE Moves(n)
    <2>1. k + 1 \in Nat /\ pos' = [pos EXCEPT ![n] = k + 1] /\ thread' = thread
      BY <1>2 DEF NextItem
    <2>2. thread[n] \in {"new", "connect", "netmiko", "scripts", "done"} /\ thread' = [thread EXCEPT ![n] = thread[n]]
      BY <2>1 DEF TypeOK
    <2>3. QED
      BY <2>1, <2>2 DEF Moves
  <1>3. QED
    BY <1>1, <1>2

\* Every step of a thread is of that kind.
LEMMA ThreadActs ==
  ASSUME TypeOK, NEW n \in Node, NodeInv(n), ThreadStep(n)
  PROVE  /\ Moves(n) /\ Sends(n) /\ Same /\ stage \in Threaded
         /\ errors => errors'
         /\ errors' \in BOOLEAN
  <1>0. /\ stage \in Threaded /\ Same /\ errors \in BOOLEAN /\ pos[n] \in Nat
        /\ List(n) \in Seq(Item) /\ DOMAIN List(n) = 1..Len(List(n)) /\ Len(List(n)) \in Nat
    BY ListType DEF ThreadStep, BeginThread, Connect, NetmikoDone, NetmikoItem, ScriptsDone, ClabItem, LibvirtItem,
           Script, Run, TypeOK, ReadyTypeOK
  <1>1. CASE BeginThread(n)
    <2>1. Moves(n)
      BY <1>1, MoveMoves DEF BeginThread
    <2>2. QED
      BY <1>0, <1>1, <2>1 DEF BeginThread, Sends
  <1>2. CASE Connect(n)
    <2>1. Moves(n)
      BY <1>2, MoveMoves DEF Connect
    <2>2. List(n) # <<>>
      BY <1>0, <1>2 DEF Connect, Run, NodeInv, Ahead
    <2>3. Head(List(n)) \in Range(List(n))
      <3>1. Head(List(n)) = List(n)[1] /\ 1 \in 1..Len(List(n))
        BY <1>0, <2>2
      <3>2. QED
        BY <1>0, <3>1 DEF Range
    <2>4. CASE UNCHANGED <<errors, failed>>
      BY <1>0, <1>2, <2>1, <2>4 DEF Connect, Sends
    <2>5. CASE Fails(n, Head(List(n)))
      BY <1>0, <1>2, <2>1, <2>3, <2>5 DEF Connect, Sends, Fails
    <2>6. QED
      BY <1>2, <2>4, <2>5 DEF Connect
  <1>3. CASE NetmikoDone(n)
    <2>1. Moves(n)
      BY <1>3, MoveMoves DEF NetmikoDone
    <2>2. QED
      BY <1>0, <1>3, <2>1 DEF NetmikoDone, Sends
  <1>4. CASE NetmikoItem(n)
    <2> DEFINE i == List(n)[pos[n]]
    <2>1. Moves(n)
      BY <1>0, <1>4, MoveMoves DEF NetmikoItem
    <2>2. i \in Range(List(n)) /\ UNCHANGED startup
      <3>1. pos[n] >= 1 /\ pos[n] <= Len(List(n)) /\ UNCHANGED startup
        BY <1>0, <1>4 DEF NetmikoItem, NodeInv, Past
      <3>2. pos[n] \in 1..Len(List(n))
        BY <1>0, <3>1
      <3>3. QED
        BY <1>0, <3>1, <3>2 DEF Range
    <2>3. CASE Succeeds(n, i) /\ UNCHANGED <<errors, failed>>
      BY <1>0, <2>1, <2>2, <2>3 DEF Sends
    <2>4. CASE Fails(n, i) /\ UNCHANGED sent
      BY <1>0, <2>1, <2>2, <2>4 DEF Sends, Fails
    <2>5. QED
      BY <1>4, <2>3, <2>4 DEF NetmikoItem
  <1>5. CASE ScriptsDone(n)
    <2>1. Moves(n)
      BY <1>5, MoveMoves DEF ScriptsDone
    <2>2. QED
      BY <1>0, <1>5, <2>1 DEF ScriptsDone, Sends
  <1>6. CASE ClabItem(n) \/ LibvirtItem(n)
    <2>1. PICK k \in Rest(n) : ScriptStep(n, k)
      BY <1>6, ScriptSteps
    <2> DEFINE i == Templates[n][k]
    <2>2. i \in Range(List(n))
      BY <2>1 DEF ScriptStep, Script, Executes
    <2>3. k \in Nat
      <3>1. Len(Templates[n]) \in Nat
        BY TemplateType
      <3>2. QED
        BY <1>0, <3>1 DEF Rest
    <2>4. Moves(n)
      BY <2>1, <2>3, MoveMoves DEF ScriptStep
    <2>5. (errors => errors') /\ errors' \in BOOLEAN
      BY <2>1 DEF ScriptStep
    <2>6. Sends(n)
      <3>1. CASE Succeeds(n, i) /\ UNCHANGED <<startup, failed>>
        BY <2>2, <3>1 DEF Sends
      <3>2. CASE startup' = [startup EXCEPT ![n] = @ \cup {i}] /\ UNCHANGED <<sent, failed>>
        BY <2>2, <3>2 DEF Sends
      <3>3. CASE UNCHANGED <<sent, startup, failed>>
        BY <3>3 DEF Sends
      <3>4. CASE Fails(n, i) /\ UNCHANGED <<sent, startup>>
        BY <2>2, <3>4 DEF Sends, Fails
      <3>5. QED
        BY <2>1, <3>1, <3>2, <3>3, <3>4 DEF ScriptStep
    <2>7. QED
      BY <1>0, <2>4, <2>5, <2>6
  <1>7. QED
    BY <1>1, <1>2, <1>3, <1>4, <1>5, <1>6 DEF ThreadStep

\* A thread adds snippets of its list to what is known of its own node.
LEMMA SendsFacts ==
  ASSUME TypeOK, NEW n \in Node, Moves(n), Sends(n), Same, errors' \in BOOLEAN
  PROVE  /\ TypeOK'
         /\ \A m \in Node : /\ Done(m) \subseteq Done(m)'
                            /\ Touched(m)' \subseteq Touched(m) \cup Range(List(m))
         /\ \A m \in Node \ {n} : /\ thread'[m] = thread[m] /\ pos'[m] = pos[m]
                                  /\ sent'[m] = sent[m] /\ startup'[m] = startup[m]
  <1>1. /\ sent \in [Node -> Seq(Item)] /\ failed \in [Node -> SUBSET Item] /\ startup \in [Node -> SUBSET Item]
        /\ thread \in [Node -> {"new", "connect", "netmiko", "scripts", "done"}] /\ pos \in [Node -> Nat]
        /\ UNCHANGED played
    BY DEF TypeOK, Same
  <1>2. /\ thread' \in [Node -> {"new", "connect", "netmiko", "scripts", "done"}] /\ pos' \in [Node -> Nat]
        /\ \A m \in Node \ {n} : thread'[m] = thread[m] /\ pos'[m] = pos[m]
    BY <1>1 DEF Moves
  <1> DEFINE Types == sent' \in [Node -> Seq(Item)] /\ failed' \in [Node -> SUBSET Item] /\ startup' \in [Node -> SUBSET Item]
             Grows(m) == /\ Range(sent[m]) \subseteq Range(sent'[m]) /\ startup[m] \subseteq startup'[m]
                         /\ Range(sent'[m]) \subseteq Range(sent[m]) \cup Range(List(m))
                         /\ startup'[m] \subseteq startup[m] \cup Range(List(m))
                         /\ failed'[m] \subseteq failed[m] \cup Range(List(m))
             Others == \A m \in Node \ {n} : sent'[m] = sent[m] /\ startup'[m] = startup[m]
  <1>3. Types /\ Others /\ \A m \in Node : Grows(m)
    <2>1. CASE UNCHANGED <<sent, failed, startup>>
      BY <1>1, <2>1
    <2>2. ASSUME NEW i \in Range(List(n)), Succeeds(n, i), UNCHANGED <<failed, startup>>
          PROVE  Types /\ Others /\ \A m \in Node : Grows(m)
      <3>1. i \in Item /\ sent[n] \in Seq(Item)
        BY <1>1, ListType
      <3>2. Append(sent[n], i) \in Seq(Item) /\ Range(Append(sent[n], i)) = Range(sent[n]) \cup {i}
        BY <3>1, AppendElements
      <3>3. sent' = [sent EXCEPT ![n] = Append(sent[n], i)]
        BY <2>2 DEF Succeeds
      <3>4. QED
        BY <1>1, <2>2, <3>2, <3>3
    <2>3. ASSUME NEW i \in Range(List(n)), UNCHANGED <<sent, startup>>,
                 failed' = [failed EXCEPT ![n] = @ \cup {i}]
          PROVE  Types /\ Others /\ \A m \in Node : Grows(m)
      <3>1. i \in Item
        BY ListType
      <3>2. QED
        BY <1>1, <2>3, <3>1
    <2>4. ASSUME NEW i \in Range(List(n)), UNCHANGED <<sent, failed>>,
                 startup' = [startup EXCEPT ![n] = @ \cup {i}]
          PROVE  Types /\ Others /\ \A m \in Node : Grows(m)
      <3>1. i \in Item
        BY ListType
      <3>2. QED
        BY <1>1, <2>4, <3>1
    <2>5. QED
      BY <2>1, <2>2, <2>3, <2>4 DEF Sends
  <1>4. TypeOK'
    BY <1>2, <1>3 DEF TypeOK, ReadyTypeOK, Same, loop
  <1>5. QED
    BY <1>1, <1>2, <1>3, <1>4 DEF Done, Touched

\* What is waited for does not change, while errors may be logged.
LEMMA ErrorsKeep ==
  ASSUME ReadyInv, TimeInv, UNCHANGED <<asked, waitlists, step, loop, passed>>,
         errors' \in BOOLEAN, errors => errors'
  PROVE  ReadyInv' /\ TimeInv'
  <1>1. ReadyTypeOK' /\ Looping'
    BY DEF ReadyInv, ReadyTypeOK, Looping, loop
  <1>2. \A c \in Checks : Checked(c) => Checked(c)'
    BY MustPassKept DEF Checked
  <1>3. ReadyInv'
    BY <1>1, <1>2 DEF ReadyInv, ChecksKept
  <1>4. /\ Waitset' = Waitset /\ (\A n \in Node : Wait(n)' = Wait(n))
        /\ Largest' = Largest /\ RoundTime' = RoundTime /\ PauseTime' = PauseTime
        /\ AttemptTime' = AttemptTime /\ UNCHANGED <<phase, clock, wake, round, todo, flight, begun, verdict, step>>
    BY BoundsKept DEF loop
  <1>5. NotReady' = NotReady /\ Begun' = Begun /\ \A k \in Nat : Late(k)' = Late(k)
    BY <1>4 DEF NotReady, Begun, Late
  <1>6. Batches' = Batches
    BY <1>4, <1>5 DEF Batches
  <1>7. NotReady \subseteq Node \/ step \notin Polled
    BY WaitTimes DEF ReadyInv, Polled, Steps
  <1>8. TimeInv'
    BY <1>4, <1>5, <1>6, <1>7 DEF TimeInv, Polling, Pausing
  <1>9. QED
    BY <1>3, <1>8

\* Checks that have passed are not taken back.
LEMMA AllPassedKept ==
  ASSUME UNCHANGED <<asked, passed>>, AllPassed
  PROVE  AllPassed'
  BY MustPassKept DEF AllPassed

\* The parts of the invariant about the order of things follow from the stage.
LEMMA OrderFollows ==
  ASSUME StageInv, stage \in Threaded
  PROVE  SentInOrder
  BY DEF StageInv, SentInOrder, Threaded, AllPassed, Touched, Normalized

\* Nothing is out of order while no device is touched.
LEMMA FreshOrder ==
  ASSUME Fresh
  PROVE  SentInOrder
  <1>1. ASSUME NEW n \in Node PROVE Done(n) \cup failed[n] = {}
    <2>1. sent[n] = <<>> /\ Range(<<>>) = {}
      BY DEF Fresh, Range
    <2>2. QED
      BY <2>1 DEF Fresh, Done
  <1>2. QED
    BY <1>1 DEF SentInOrder

\* A node at rest.
LEMMA RestKeeps ==
  ASSUME NEW n \in Node, NodeInv(n), UNCHANGED <<sent, startup, played>>, stage' \notin Threaded
  PROVE  NodeInv(n)'
  BY DEF NodeInv, MethodsFit, Threaded

\* A thread that has not begun has nothing behind it, and everything ahead.
LEMMA FreshThreads ==
  ASSUME TypeOK', NEW n \in Node, MethodsFit(n)', IsInjective(Deploy[n]) => IsInjective(sent'[n]),
         thread'[n] = "new", pos'[n] = 1, Range(List(n)') \cap Range(sent'[n]) = {}
  PROVE  NodeInv(n)'
  BY DEF NodeInv, Ahead, Past

\* A step of a thread.
LEMMA ThreadStepKeeps ==
  ASSUME IInv, NEW n \in Node, ThreadStep(n)
  PROVE  IInv'
  <1>1. TypeOK /\ NodeInv(n)
    BY DEF IInv
  <1>2. /\ Moves(n) /\ Sends(n) /\ Same /\ stage \in Threaded /\ stage' = stage
        /\ errors => errors'
        /\ errors' \in BOOLEAN
    BY <1>1, ThreadActs DEF Same
  <1>3. /\ TypeOK'
        /\ \A m \in Node : /\ Done(m) \subseteq Done(m)'
                           /\ Touched(m)' \subseteq Touched(m) \cup Range(List(m))
        /\ \A m \in Node \ {n} : /\ thread'[m] = thread[m] /\ pos'[m] = pos[m]
                                 /\ sent'[m] = sent[m] /\ startup'[m] = startup[m]
    BY <1>1, <1>2, SendsFacts
  <1>4. ReadyInv' /\ TimeInv'
    BY <1>2, ErrorsKeep DEF IInv, Same
  <1>5. StageInv'
    <2>1. AllPassed'
      BY <1>2, AllPassedKept DEF IInv, StageInv, Same
    <2>2. ASSUME stage = "normalize", NEW m \in Node PROVE Touched(m)' \subseteq {Normalize}
      BY <1>3, <2>2, ListType DEF IInv, StageInv
    <2>3. ASSUME stage = "deploy", NEW m \in Normalizes PROVE Normalized(m)'
      <3>1. m \in Node /\ Normalized(m)
        BY <2>3, ConfigAssumption DEF IInv, StageInv
      <3>2. QED
        BY <1>2, <1>3, <3>1 DEF Normalized
    <2>4. stage' \notin {"create", "wait"}
      BY <1>2 DEF Threaded
    <2>5. QED
      BY <1>2, <2>1, <2>2, <2>3, <2>4 DEF StageInv
  <1>6. SentInOrder'
    <2>1. stage' \in Threaded
      BY <1>2
    <2>2. QED
      BY <1>5, <2>1, OrderFollows DEF StageInv, SentInOrder, Threaded, AllPassed, Touched, Normalized
  <1>7. CompleteInv'
    BY <1>2 DEF CompleteInv, Threaded
  <1>8. ASSUME NEW m \in Node PROVE NodeInv(m)'
    <2>1. CASE m = n
      BY <1>1, <2>1, ThreadKeeps
    <2>2. CASE m # n
      <3>1. NodeInv(m) /\ played'[m] = played[m]
        BY <1>2 DEF IInv, Same
      <3>2. QED
        BY <1>2, <1>3, <2>2, <3>1, OtherNode
    <2>3. QED
      BY <2>1, <2>2
  <1>9. QED
    BY <1>3, <1>4, <1>5, <1>6, <1>7, <1>8 DEF IInv

\* What comes before a device is touched.
LEMMA EarlySteps ==
  ASSUME IInv, CreateConfigs \/ WaitForDevices \/ DevicesReady \/ NotReadyExit
  PROVE  IInv'
  <1>0. /\ stage \in {"create", "wait"} /\ Fresh /\ UNCHANGED <<command, deploy>>
        /\ stage' # "create"
        /\ TypeOK /\ ReadyInv /\ TimeInv
    BY DEF IInv, StageInv, CreateConfigs, WaitForDevices, DevicesReady, NotReadyExit, FirstStage
  <1>1. UNCHANGED <<thread, pos, sent, failed, startup, played>>
    BY <1>0 DEF deploy
  <1>2. Fresh' /\ SentInOrder'
    <2>1. Fresh'
      BY <1>0, <1>1 DEF Fresh
    <2>2. \A n \in Node : Done(n)' \cup failed'[n] = {}
      <3>1. Range(<<>>) = {}
        BY DEF Range
      <3>2. QED
        BY <2>1, <3>1 DEF Fresh, Done
    <2>3. QED
      BY <2>1, <2>2 DEF SentInOrder
  <1>3. ReadyInv' /\ TimeInv'
    <2>1. CASE CreateConfigs
      <3>1. UNCHANGED <<asked, waitlists, step, loop, passed>> /\ errors' \in BOOLEAN /\ (errors => errors')
        BY <1>0, <2>1 DEF CreateConfigs, TypeOK, ReadyTypeOK
      <3>2. QED
        BY <1>0, <3>1, ErrorsKeep
    <2>2. CASE WaitForDevices
      BY <1>0, <2>2, ReadyKeeps, StepInTime DEF WaitForDevices
    <2>3. CASE DevicesReady \/ NotReadyExit
      <3>1. UNCHANGED readyVars /\ errors \in BOOLEAN
        BY <1>0, <2>3 DEF DevicesReady, NotReadyExit, TypeOK, ReadyTypeOK
      <3>2. UNCHANGED <<asked, waitlists, step, loop, passed>> /\ errors' \in BOOLEAN /\ (errors => errors')
        BY <3>1 DEF readyVars
      <3>3. QED
        BY <1>0, <3>2, ErrorsKeep
    <2>4. QED
      BY <2>1, <2>2, <2>3
  <1>4. stage' \in {"wait", "normalize", "deploy", "complete", "exit"}
    BY <1>0 DEF CreateConfigs, WaitForDevices, DevicesReady, NotReadyExit, FirstStage
  <1>5. TypeOK'
    <2>1. ReadyTypeOK'
      BY <1>3 DEF ReadyInv
    <2>2. QED
      BY <1>0, <1>1, <1>4, <2>1 DEF TypeOK
  <1>6. ASSUME stage' \in {"normalize", "deploy", "complete"}
        PROVE  /\ DevicesReady
               /\ command # "ready" => /\ AllPassed'
                                       /\ stage' = FirstStage
               /\ stage' = "complete" => command # "initial"
    <2>1. DevicesReady
      BY <1>0, <1>6 DEF CreateConfigs, WaitForDevices, DevicesReady, NotReadyExit
    <2>2. command # "ready" => AllPassed
      BY <1>0, <1>6, <2>1 DEF DevicesReady, ReadyInv, Checked, AllPassed
    <2>3. UNCHANGED <<asked, passed>>
      BY <2>1 DEF DevicesReady, readyVars
    <2>4. QED
      BY <1>0, <1>6, <2>1, <2>2, <2>3, AllPassedKept DEF DevicesReady, FirstStage, TypeOK
  <1>7. stage' \in Threaded => command # "ready" /\ AllPassed'
    BY <1>6 DEF Threaded, DevicesReady
  <1>8. StageInv'
    <2>1. \A n \in Node : Touched(n)' = {}
      <3>1. Range(<<>>) = {}
        BY DEF Range
      <3>2. QED
        BY <1>2, <3>1 DEF Fresh, Touched, Done
    <2>2. stage' = "deploy" => Normalizes = {}
      BY <1>6, <1>7 DEF FirstStage, Threaded
    <2>3. QED
      BY <1>2, <1>7, <2>1, <2>2 DEF StageInv
  <1>9. CompleteInv'
    BY <1>0, <1>6 DEF CompleteInv
  <1>10. ASSUME NEW n \in Node PROVE NodeInv(n)'
    <2>1. MethodsFit(n)' /\ (IsInjective(Deploy[n]) => IsInjective(sent'[n]))
      BY <1>1 DEF IInv, NodeInv, MethodsFit
    <2>2. thread'[n] = "new" /\ pos'[n] = 1 /\ sent'[n] = <<>>
      BY <1>2 DEF Fresh
    <2>3. Range(List(n)') \cap Range(sent'[n]) = {}
      BY <2>2 DEF Range
    <2>4. QED
      BY <1>5, <2>1, <2>2, <2>3, FreshThreads DEF NodeInv, Ahead, Past
  <1>11. QED
    BY <1>2, <1>3, <1>5, <1>8, <1>9, <1>10 DEF IInv

\* A snippet of a node whose thread is done is on the device or in the node's
\* files, follows one netmiko does not deploy, is left to Ansible, or there was an
\* error.
LEMMA DoneFacts ==
  ASSUME NEW n \in Node, NodeInv(n), stage \in Threaded, thread[n] = "done",
         NEW i \in Range(List(n))
  PROVE  \/ Kept(n, i) \/ Method[n][i] = "file" \/ i \in AnsibleItems(n)
         \/ Method[n][i] = "netmiko" /\ Behind(n, i)
  <1>1. i \in Item /\ Range(List(n)) \subseteq Item
    BY ListType
  <1>2. Method[n][i] \in Scripts[Provider[n]] \cup {"netmiko", "file", "ansible"}
    BY <1>1, ConfigAssumption
  <1>3. CASE Method[n][i] = "netmiko"
    BY <1>3 DEF NodeInv, Past
  <1>4. CASE Method[n][i] = "ansible"
    BY <1>4 DEF AnsibleItems
  <1>5. CASE Method[n][i] \in Scripts[Provider[n]]
    BY <1>5 DEF NodeInv, Past, Executes
  <1>6. QED
    BY <1>2, <1>3, <1>4, <1>5

\* The playbook ends a stage.
LEMMA PlaybookEnds ==
  ASSUME IInv, RunPlaybook
  PROVE  IInv'
  <1>0. /\ stage \in Threaded /\ (\A n \in Node : thread[n] = "done") /\ NewThreads
        /\ UNCHANGED <<asked, waitlists, step, loop, passed, errors, command, sent, failed, startup>>
        /\ TypeOK /\ errors \in BOOLEAN /\ Threaded = {"normalize", "deploy"}
    BY DEF RunPlaybook, readyVars, IInv, TypeOK, ReadyTypeOK, Threaded
  <1>1. \/ /\ played' = [n \in Node |-> played[n] \cup AnsibleItems(n)]
           /\ \/ stage' = "exit"
              \/ stage = "normalize" /\ command = "initial" /\ stage' = "deploy"
              \/ /\ ~(stage = "normalize" /\ command = "initial") /\ stage' = "complete"
                 /\ \A n \in Node : failed[n] = {}
        \/ stage' = "exit" /\ UNCHANGED played
    BY DEF RunPlaybook
  <1>2. stage' \in {"deploy", "complete", "exit"}
    BY <1>1
  <1>3. played \in [Node -> SUBSET Item] /\ \A n \in Node : Range(List(n)) \subseteq Item
    BY <1>0, ListType DEF TypeOK
  <1>4. /\ played' \in [Node -> SUBSET Item]
        /\ \A n \in Node : played[n] \subseteq played'[n] /\ played'[n] \subseteq played[n] \cup AnsibleItems(n)
    BY <1>1, <1>3 DEF AnsibleItems
  <1>5. ReadyInv' /\ TimeInv'
    BY <1>0, ErrorsKeep DEF IInv
  <1>6. TypeOK'
    <2>1. ReadyTypeOK'
      BY <1>5 DEF ReadyInv
    <2>2. QED
      BY <1>0, <1>2, <1>4, <2>1 DEF TypeOK, NewThreads
  <1>7. /\ \A n \in Node : Done(n) \subseteq Done(n)' /\ Touched(n)' \subseteq Touched(n) \cup Range(List(n))
        /\ AllPassed'
    <2>1. AllPassed'
      BY <1>0, AllPassedKept DEF IInv, StageInv
    <2>2. QED
      BY <1>0, <1>4, <2>1 DEF Done, Touched, AnsibleItems
  <1>8. ASSUME stage = "normalize", stage' = "deploy", NEW m \in Normalizes PROVE Normalized(m)'
    <2>1. /\ m \in Node /\ NodeInv(m) /\ thread[m] = "done" /\ List(m) = <<Normalize>>
          /\ Normalize \in Range(List(m)) /\ Normalize \in Item
      <3>1. m \in Node /\ List(m) = <<Normalize>>
        BY <1>8, ConfigAssumption, ListType
      <3>2. Normalize \in Range(<<Normalize>>)
        BY DEF Range
      <3>3. QED
        BY <1>0, <3>1, <3>2, ConfigAssumption DEF IInv
    <2>2. CASE Kept(m, Normalize)
      BY <1>0, <1>7, <2>1, <2>2 DEF Kept, Done, Normalized
    <2>3. CASE Method[m][Normalize] = "file"
      BY <2>3 DEF Normalized
    <2>4. CASE Normalize \in AnsibleItems(m)
      BY <1>1, <1>8, <2>1, <2>4 DEF Normalized, Done
    <2>5. ~(Method[m][Normalize] = "netmiko" /\ Behind(m, Normalize))
      BY <2>1 DEF Behind
    <2>6. QED
      BY <1>0, <2>1, <2>2, <2>3, <2>4, <2>5, DoneFacts
  <1>9. StageInv'
    BY <1>0, <1>1, <1>7, <1>8 DEF StageInv
  <1>10. SentInOrder'
    <2>1. ASSUME NEW n \in Node PROVE Touched(n)' \subseteq {Normalize} \/ stage = "deploy"
      BY <1>0, <1>7, ListType DEF IInv, StageInv
    <2>2. ASSUME stage = "deploy", NEW m \in Normalizes PROVE Normalized(m)'
      BY <1>0, <1>7, <2>2, ConfigAssumption DEF IInv, StageInv, Normalized
    <2>3. QED
      BY <1>7, <2>1, <2>2 DEF SentInOrder, AllPassed, Touched, Normalized
  <1>11. CompleteInv'
    <2>1. SUFFICES ASSUME stage' = "complete", command' = "initial", NEW n \in Node
                   PROVE  Delivered(n)'
      BY DEF CompleteInv
    <2>2. /\ stage = "deploy" /\ (\A m \in Node : failed[m] = {}) /\ List(n) = Deploy[n]
          /\ played' = [m \in Node |-> played[m] \cup AnsibleItems(m)]
      BY <1>0, <1>1, <2>1, ListType
    <2>3. ASSUME ~errors', NEW i \in Range(Deploy[n])
          PROVE  i \in Done(n)' \/ Method[n][i] = "file" \/ Cut(n, i)
      <3>1. \/ Kept(n, i) \/ Method[n][i] = "file" \/ i \in AnsibleItems(n)
            \/ Method[n][i] = "netmiko" /\ Behind(n, i)
        BY <1>0, <2>2, <2>3, DoneFacts DEF IInv
      <3>2. Kept(n, i) => i \in Done(n)'
        BY <1>0, <1>7, <2>3 DEF Kept, Done
      <3>3. i \in AnsibleItems(n) => i \in Done(n)'
        BY <2>2 DEF Done
      <3>4. Method[n][i] = "netmiko" /\ Behind(n, i) => Cut(n, i)
        BY <2>2 DEF Behind, Cut
      <3>5. QED
        BY <3>1, <3>2, <3>3, <3>4
    <2>4. QED
      BY <1>0, <2>2, <2>3 DEF Delivered, Cut
  <1>12. ASSUME NEW n \in Node PROVE NodeInv(n)'
    <2>1. /\ MethodsFit(n) /\ (IsInjective(Deploy[n]) => IsInjective(sent[n]))
          /\ Range(List(n)) \subseteq Item
      BY ListType DEF IInv, NodeInv
    <2>2. MethodsFit(n)' /\ (IsInjective(Deploy[n]) => IsInjective(sent'[n]))
      BY <1>0, <1>4, <2>1 DEF MethodsFit, AnsibleItems
    <2>3. CASE stage' \notin Threaded
      BY <2>2, <2>3 DEF NodeInv, Threaded
    <2>4. CASE stage' \in Threaded
      <3>1. stage = "normalize" /\ stage' = "deploy"
        BY <1>0, <1>1, <2>4
      <3>2. Range(sent'[n]) \subseteq {Normalize}
        BY <1>0, <3>1 DEF IInv, StageInv, Touched, Done
      <3>3. Range(List(n)') \subseteq Item \ {Normalize}
        <4>1. List(n)' = Deploy[n] /\ Deploy[n] \in Seq(Item \ {Normalize})
          BY <3>1, ConfigAssumption DEF List
        <4>2. DOMAIN Deploy[n] = 1..Len(Deploy[n]) /\ \A j \in 1..Len(Deploy[n]) : Deploy[n][j] \in Item \ {Normalize}
          BY <4>1, LenProperties, ElementOfSeq
        <4>3. QED
          BY <4>1, <4>2 DEF Range
      <3>4. thread'[n] = "new" /\ pos'[n] = 1 /\ Range(List(n)') \cap Range(sent'[n]) = {}
        BY <1>0, <3>2, <3>3 DEF NewThreads
      <3>5. QED
        BY <2>2, <3>4 DEF NodeInv, Ahead, Past
    <2>5. QED
      BY <2>3, <2>4
  <1>13. QED
    BY <1>5, <1>6, <1>9, <1>10, <1>11, <1>12 DEF IInv

\* The invariant holds in the beginning.
LEMMA ConfigStarts == Init => IInv
  <1>1. SUFFICES ASSUME Init PROVE IInv
    OBVIOUS
  <1>2. ReadyInv /\ TimeInv
    BY <1>1, ReadyStarts, TimeStarts DEF Init
  <1>3. stage \in {"wait", "create"} /\ Fresh
    BY <1>1 DEF Init, Fresh
  <1>4. TypeOK
    <2>1. <<>> \in Seq(Item) /\ ReadyTypeOK
      BY <1>2 DEF ReadyInv
    <2>2. QED
      BY <1>1, <2>1 DEF Init, TypeOK
  <1>5. StageInv /\ CompleteInv
    BY <1>3 DEF StageInv, CompleteInv, Threaded
  <1>6. SentInOrder
    BY <1>3, FreshOrder
  <1>7. ASSUME NEW n \in Node PROVE NodeInv(n)
    <2>1. IsInjective(<<>>) /\ Range(<<>>) = {}
      BY DEF IsInjective, Range
    <2>2. QED
      BY <1>3, <2>1 DEF Fresh, NodeInv, MethodsFit, Threaded
  <1>8. QED
    BY <1>2, <1>4, <1>5, <1>6, <1>7 DEF IInv

-----------------------------------------------------------------------------
(* The theorems *)

\* The invariant holds at all times.
THEOREM Invariance == Spec => []IInv
  <1>1. IInv /\ [Next]_vars => IInv'
    <2>1. SUFFICES ASSUME IInv, [Next]_vars PROVE IInv'
      OBVIOUS
    <2>2. CASE UNCHANGED vars
      <3>1. /\ UNCHANGED <<asked, waitlists, step, loop, passed, errors, command, stage>>
            /\ UNCHANGED <<thread, pos, sent, failed, startup, played>>
        BY <2>2 DEF vars, readyVars, deploy
      <3>2. ReadyInv' /\ TimeInv' /\ errors \in BOOLEAN
        BY <2>1, <3>1, ErrorsKeep DEF IInv, TypeOK, ReadyTypeOK
      <3>3. ASSUME NEW n \in Node PROVE NodeInv(n)'
        BY <2>1, <3>1, <3>2, OtherNode DEF IInv
      <3>4. TypeOK'
        BY <2>1, <3>1, <3>2 DEF IInv, TypeOK, ReadyInv
      <3>5. AllPassed' = AllPassed /\ \A n \in Node : Done(n)' = Done(n) /\ Touched(n)' = Touched(n)
        BY <3>1, MustPassKept DEF AllPassed, Done, Touched
      <3>6. Fresh' = Fresh /\ \A n \in Node : Delivered(n)' = Delivered(n) /\ Normalized(n)' = Normalized(n)
        BY <3>1, <3>5 DEF Fresh, Delivered, Normalized, Cut
      <3>7. StageInv'
        BY <2>1, <3>1, <3>5, <3>6, ConfigAssumption DEF IInv, StageInv
      <3>8. SentInOrder' /\ CompleteInv'
        <4>1. \A c \in Checks : MustPass(c)' = MustPass(c)
          BY <3>1, MustPassKept
        <4>2. QED
          BY <2>1, <3>1, <3>5, <3>6, <4>1, ConfigAssumption DEF IInv, SentInOrder, CompleteInv, Normalized
      <3>9. QED
        BY <3>2, <3>3, <3>4, <3>7, <3>8 DEF IInv
    <2>3. CASE CreateConfigs \/ WaitForDevices \/ DevicesReady \/ NotReadyExit
      BY <2>1, <2>3, EarlySteps
    <2>4. CASE RunPlaybook
      BY <2>1, <2>4, PlaybookEnds
    <2>5. ASSUME NEW n \in Node, ThreadStep(n) PROVE IInv'
      BY <2>1, <2>5, ThreadStepKeeps
    <2>6. QED
      BY <2>1, <2>2, <2>3, <2>4, <2>5 DEF Next, ThreadStep
  <1>2. QED
    BY <1>1, ConfigStarts, PTL DEF Spec

\* The variables keep their types.
THEOREM TypeCorrect == Spec => []TypeOK
  <1>1. IInv => TypeOK
    BY DEF IInv
  <1>2. QED
    BY <1>1, Invariance, PTL

\* A node is ready or given up at the latest two rounds and a pause after its own
\* wait time, for any number of nodes and threads, any delays and any slow nodes.
THEOREM WaitsInTime == Spec => []InTime
  <1>1. IInv => InTime
    BY InTimeHolds DEF IInv
  <1>2. QED
    BY <1>1, Invariance, PTL

\* No device is touched before every check has passed, and no snippet comes before
\* the nodes that need it are normalized.
THEOREM OrderHolds == Spec => []SentInOrder
  <1>1. IInv => SentInOrder
    BY DEF IInv
  <1>2. QED
    BY <1>1, Invariance, PTL

\* A deployment that is complete has lost no snippet without an error except those
\* behind one netmiko does not deploy, and sent none twice.
THEOREM AllAccounted == Spec => []Accounted
  <1>1. ASSUME IInv PROVE Accounted
    <2>1. ASSUME NEW n \in Node
          PROVE  /\ Range(sent[n]) \cap (startup[n] \cup played[n]) = {}
                 /\ startup[n] \cap played[n] = {}
                 /\ IsInjective(Deploy[n]) => IsInjective(sent[n])
      BY <1>1 DEF IInv, NodeInv, MethodsFit
    <2>2. QED
      BY <1>1, <2>1 DEF IInv, CompleteInv, Delivered, Accounted
  <1>2. QED
    BY <1>1, Invariance, PTL
=============================================================================
