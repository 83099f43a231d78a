----------------------------- MODULE DeviceReady -----------------------------
(***************************************************************************)
(* The readiness checks of 'netlab initial': the steps of READY_ACTIONS in *)
(* their order, every one of them a polling loop with a deadline.  The ssh *)
(* and command loops run in rounds: an attempt per undecided node in a     *)
(* pool of threads, then a pause.  Time is counted in seconds from the     *)
(* start of the step.                                                      *)
(***************************************************************************)
EXTENDS Naturals, FiniteSets, FiniteSetsExt

CONSTANTS
  Node,
  Delay,          \* netlab_check_delay: the timeout of one operation
  SshOperations,  \* operations in a row of an ssh attempt: 1 for the command of
                  \* probe_ssh, several for netmiko (connection, banner,
                  \* authentication, session preparation, enable, show)
  Retries,        \* netlab_check_retries
  SshTimeout,     \* ssh_timeout of the provider of the node, or 0
  HealthTimeout,  \* healthy_timeout of containerlab, 0 disables the check
  NoHost,         \* nodes without a management address
  Exempt,         \* nodes whose command.ready.when does not hold
  Internal,       \* the steps defaults.netlab.initial.ready gives to this code
  Waitlists,      \* what get_waitlists may return
  Workers         \* threads of the executor that make attempts

Polled == {"ssh", "command"}
Steps == {"health", "ssh", "command"}
Checks == Steps \cup {"ansible"}

ASSUME ReadyAssumption ==
  /\ IsFiniteSet(Node)
  /\ {Delay, SshOperations} \subseteq [Node -> Nat \ {0}] /\ Retries \in [Node -> Nat]
  /\ SshTimeout \in [Node -> Nat] /\ HealthTimeout \in Nat
  /\ NoHost \subseteq Node /\ Exempt \subseteq Node /\ Internal \subseteq Steps
  /\ Waitlists \subseteq [Checks -> SUBSET Node]
  /\ Workers \in Nat \ {0}

VARIABLES
  asked,      \* [Checks -> SUBSET Node]: what get_waitlists returned
  waitlists,  \* what is left of it
  step,       \* the check being executed, "playbook", and how it ended
  phase,      \* "enter" a step, "poll", "pause"
  clock,      \* seconds since the start of the step
  wake,       \* when the pause ends
  round,      \* when the round began
  todo,       \* nodes of this round whose attempt has not begun
  flight,     \* nodes whose attempt is running
  begun,      \* when it began
  verdict,    \* what the step knows about every node
  passed,     \* [Checks -> SUBSET Node]: history, the checks that succeeded
  errors      \* has log.error been called?

loop == <<phase, clock, wake, round, todo, flight, begun, verdict>>
readyVars == <<asked, waitlists, step, loop, passed, errors>>

\* The nodes the loop of the step waits for.
Waitset == IF step = "command" THEN waitlists[step] \ Exempt ELSE waitlists[step]

\* The wait time of set_timeouts; the ssh step extends it.
Wait(n) == IF step = "ssh" THEN Max({Retries[n] * Delay[n], SshTimeout[n]})
                           ELSE Retries[n] * Delay[n]

\* The longest an attempt may last: every operation has the delay as its timeout.
AttemptTime == [n \in Node |-> IF step = "ssh" THEN SshOperations[n] * Delay[n] ELSE Delay[n]]

PollDelay == Min({Delay[n] : n \in Waitset})

\* devices_not_ready
NotReady == {n \in Waitset : verdict[n] = "none"}

ReadyInit ==
  /\ asked \in Waitlists /\ waitlists = asked
  /\ step = "health" /\ phase = "enter"
  /\ clock = 0 /\ wake = 0 /\ round = 0
  /\ todo = {} /\ flight = {} /\ begun = [n \in Node |-> 0]
  /\ verdict = [n \in Node |-> "none"]
  /\ passed = [c \in Checks |-> {}]
  /\ errors = FALSE

Goto(s) ==
  /\ step' = s
  /\ phase' = "enter"
  /\ clock' = 0 /\ wake' = 0 /\ round' = 0
  /\ todo' = {} /\ flight' = {} /\ begun' = [n \in Node |-> 0]
  /\ verdict' = [n \in Node |-> "none"]

After(s) == CASE s = "health" -> "ssh" [] s = "ssh" -> "command" [] OTHER -> "playbook"

-----------------------------------------------------------------------------
(* internal_device_ready *)

\* Nobody asked for the step, or it belongs to the playbook.
SkipStep ==
  /\ step \in Steps /\ phase = "enter"
  /\ waitlists[step] = {} \/ step \notin Internal
  /\ Goto(After(step))
  /\ UNCHANGED <<waitlists, passed, errors>>

Pop(s) == waitlists' = [waitlists EXCEPT ![s] = {}]

\* The step is over and leaves the waitlists.
Complete(S) ==
  /\ Goto(After(step))
  /\ Pop(step)
  /\ passed' = [passed EXCEPT ![step] = S]

StartLoop ==
  /\ phase' = "poll"
  /\ todo' = NotReady /\ round' = clock
  /\ UNCHANGED <<waitlists, step, clock, wake, flight, begun, verdict, passed, errors>>

Enter(s) == step = s /\ phase = "enter" /\ s \in Internal /\ waitlists[s] # {}

-----------------------------------------------------------------------------
(* health: the containers are inspected once a second *)

EnterHealth ==
  /\ Enter("health")
  /\ IF HealthTimeout = 0 THEN Complete({}) /\ UNCHANGED errors ELSE StartLoop

Inspect ==
  /\ step = "health" /\ phase = "poll" /\ clock < HealthTimeout
  /\ \/ Complete(Waitset) /\ UNCHANGED errors
     \/ /\ phase' = "pause" /\ wake' = clock + 1
        /\ UNCHANGED <<waitlists, step, clock, round, todo, flight, begun, verdict, passed, errors>>
     \/ \* a container has crashed
        Goto("exit") /\ UNCHANGED <<waitlists, passed, errors>>

\* A bug: the last second is waited for twice.
HealthTimesOutLate ==
  /\ step = "health" /\ phase = "poll" /\ clock > HealthTimeout
  /\ errors' = TRUE
  /\ Complete({})

\* The timeout is an error message, not an exit.
HealthTimesOut ==
  /\ step = "health" /\ phase = "poll" /\ clock >= HealthTimeout
  /\ errors' = TRUE
  /\ Complete({})

-----------------------------------------------------------------------------
(* ssh and command *)

\* The parameters of the nodes are prepared; a node that cannot be reached, or
\* an error logged before, ends the command.
EnterSsh ==
  /\ Enter("ssh")
  /\ IF errors \/ waitlists["ssh"] \cap NoHost # {}
     THEN /\ errors' = TRUE
          /\ Goto("exit") /\ UNCHANGED <<waitlists, passed>>
     ELSE StartLoop

EnterCommand ==
  /\ Enter("command")
  /\ IF Waitset = {} THEN Complete({}) /\ UNCHANGED errors ELSE StartLoop

Attempt(n) ==
  /\ step \in Polled /\ phase = "poll"
  /\ n \in todo /\ Cardinality(flight) < Workers
  /\ todo' = todo \ {n}
  /\ flight' = flight \cup {n}
  /\ begun' = [begun EXCEPT ![n] = clock]
  /\ UNCHANGED <<waitlists, step, phase, clock, wake, round, verdict, passed, errors>>

Ended(n) ==
  /\ step \in Polled /\ n \in flight
  /\ flight' = flight \ {n}
  /\ begun' = [begun EXCEPT ![n] = 0]
  /\ UNCHANGED <<waitlists, step, phase, clock, wake, round, todo, passed, errors>>

Conclude(n, v) == verdict' = [verdict EXCEPT ![n] = v]

\* A bug: an attempt that fails never looks at the clock.
FailNever(n) ==
  /\ step = "ssh" /\ Ended(n)
  /\ UNCHANGED verdict

\* wait_for_ssh: the clock is read after the attempt.
SshAttemptEnds(n) ==
  /\ step = "ssh" /\ Ended(n)
  /\ \/ Conclude(n, "ready")
     \/ IF clock > Wait(n) THEN Conclude(n, "failed") ELSE UNCHANGED verdict

\* wait_for_command: the clock is read before the attempt, and an exception
\* leaves the node a quarter of its wait time.
CommandAttemptEnds(n) ==
  /\ step = "command" /\ Ended(n)
  /\ \/ Conclude(n, "ready")
     \/ \E quarters \in {1, 4} :
          IF 4 * begun[n] > quarters * Wait(n) THEN Conclude(n, "failed") ELSE UNCHANGED verdict

RoundOver == step \in Polled /\ phase = "poll" /\ todo = {} /\ flight = {}

Leave ==
  IF \E n \in Waitset : verdict[n] = "failed"
  THEN Goto("exit") /\ UNCHANGED <<waitlists, passed, errors>>
  ELSE Complete(Waitset) /\ UNCHANGED errors

Pause(until) ==
  /\ phase' = "pause" /\ wake' = until
  /\ UNCHANGED <<waitlists, step, clock, round, todo, flight, begun, verdict, passed, errors>>

\* The ssh loop pauses after every round, the last one too.
SshRoundEnds == RoundOver /\ step = "ssh" /\ Pause(clock + 1)

CommandRoundEnds ==
  /\ RoundOver /\ step = "command"
  /\ IF NotReady = {} THEN Leave ELSE Pause(Max({clock + 1, round + PollDelay}))

PauseEnds ==
  /\ phase = "pause" /\ clock >= wake
  /\ IF step \in Polled /\ NotReady = {} THEN Leave ELSE StartLoop

-----------------------------------------------------------------------------
(* The rest of ready.run *)

\* What is left goes to Ansible, whose failure is fatal.
Playbook ==
  /\ step = "playbook"
  /\ \/ /\ passed' = [c \in Checks |-> passed[c] \cup waitlists[c]]
        /\ Goto("ready") /\ UNCHANGED <<waitlists, errors>>
     \/ /\ \E c \in Checks : waitlists[c] # {}
        /\ Goto("exit") /\ UNCHANGED <<waitlists, passed, errors>>

\* A second passes.  No attempt outlives its timeouts, and no thread stays idle
\* while a node waits for one.
Tick ==
  /\ \/ phase = "pause" /\ clock < wake
     \/ /\ step \in Polled /\ phase = "poll" /\ flight # {}
        /\ todo = {} \/ Cardinality(flight) = Workers
        /\ \A n \in flight : clock < begun[n] + AttemptTime[n]
  /\ clock' = clock + 1
  /\ UNCHANGED <<waitlists, step, phase, wake, round, todo, flight, begun, verdict, passed, errors>>

ReadyNext ==
  /\ UNCHANGED asked
  /\ \/ SkipStep \/ EnterHealth \/ Inspect \/ HealthTimesOut \/ EnterSsh \/ EnterCommand
     \/ \E n \in Node : Attempt(n) \/ SshAttemptEnds(n) \/ CommandAttemptEnds(n)
     \/ SshRoundEnds \/ CommandRoundEnds \/ PauseEnds \/ Playbook \/ Tick

-----------------------------------------------------------------------------
ReadyTypeOK ==
  /\ {asked, waitlists} \subseteq [Checks -> SUBSET Node]
  /\ step \in Steps \cup {"playbook", "ready", "exit"}
  /\ phase \in {"enter", "poll", "pause"}
  /\ clock \in Nat /\ wake \in Nat /\ round \in Nat
  /\ todo \subseteq Node /\ flight \subseteq Node \ todo
  /\ begun \in [Node -> Nat]
  /\ verdict \in [Node -> {"none", "ready", "failed"}]
  /\ passed \in [Checks -> SUBSET Node]
  /\ errors \in BOOLEAN

\* What the checks the user asked for have to find.
MustPass(c) == CASE c = "health" /\ "health" \in Internal /\ HealthTimeout = 0 -> {}
                 [] c = "command" /\ "command" \in Internal -> asked[c] \ Exempt
                 [] OTHER -> asked[c]

\* The longest a round may last: the executor works in batches.
RoundTime == ((Cardinality(Waitset) + Workers - 1) \div Workers)
             * Max({AttemptTime[n] : n \in Waitset})

PauseTime == IF step = "ssh" THEN 1 ELSE PollDelay

\* A node is ready or given up at the latest two rounds and a pause after its
\* own wait time, however slow the other nodes of the step are and whenever
\* their attempts began (wait_for_ssh reads the clock after the attempt,
\* wait_for_command before it, and a round waits for its slowest node).
InTime ==
  step \in Polled => \A n \in NotReady : clock <= Wait(n) + 2 * RoundTime + PauseTime
=============================================================================
