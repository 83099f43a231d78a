---------------------------- MODULE ValidateTests ----------------------------
(***************************************************************************)
(* 'netlab validate': the tests of a topology, one after the other, each   *)
(* on its nodes in rounds until a node passes, cannot be asked, or the     *)
(* wait time of the test is over.  The counters decide the exit status,    *)
(* and the messages of the tests are collected for the JSON document.      *)
(***************************************************************************)
EXTENDS Integers, Sequences, FiniteSets, SequencesExt

CONSTANTS
  Node,
  Suites,   \* sets of tests to execute in their order
  Delay,    \* the largest initial.delay of a device in the lab
  Never     \* the wait time of a test without one

\* What a test asks a node, and how it judges the answer: with an expression
\* (that may not be defined for the device), with a plugin, or not at all.
Actions == {"show", "ansible", "exec", "suzieq", "config", "wait", "none"}
Judges == {"valid", "undefined", "plugin", "nothing"}

Test == [nodes : Seq(Node), wait : Nat \cup {Never}, device_wait : Nat,
         action : [Node -> Actions], judge : Judges,
         pass : BOOLEAN,          \* is there a message for success
         wait_msg : BOOLEAN,      \* and one for waiting?
         warning : BOOLEAN,       \* the level of the test
         stop_on_error : BOOLEAN, expect_fail : BOOLEAN,
         any : BOOLEAN,           \* suzieq: one good record is enough
         empty : BOOLEAN]         \* suzieq: no records are expected

Whole == "whole"   \* the key of the result of a whole test

ASSUME ValidateAssumption ==
  /\ IsFiniteSet(Node) /\ Whole \notin Node
  /\ Never \in Int \ Nat /\ Delay \in Nat
  /\ \A s \in Suites : s \in Seq(Test)
  /\ \A s \in Suites : \A i \in DOMAIN s : \A n \in Node :
       s[i].action[n] = "wait" => s[i].judge = "nothing"

VARIABLES
  suite,
  t,          \* the test being executed
  phase,      \* "begin", "round", "end" of a test; "exit"
  queue,      \* places in the list of nodes still to be asked in this round
  remaining,  \* places of the nodes in n_remaining
  ret_value,  \* "none", "true", "false"
  clock, stop_time, start_time,
  TEST_COUNT,
  results,    \* RESULTS: the result of a test and of its nodes
  exit,       \* the exit status
  verdicts,   \* history: how the tests ended
  last        \* history: what the last attempt at a node has shown

times == <<clock, stop_time, start_time>>
book == <<TEST_COUNT, results>>
vars == <<suite, t, phase, queue, remaining, ret_value, times, book, exit, verdicts, last>>

test == suite[t]
HasWait(v) == v.wait # Never \/ v.device_wait > 0

\* extend_first_wait_time and extend_device_wait_time
Wait(i) ==
  LET delayed == suite[i].wait > 0 /\ \A j \in 1..(i - 1) : suite[j].wait <= 0
      own == IF delayed THEN suite[i].wait + Delay ELSE IF suite[i].wait = Never THEN 0 ELSE suite[i].wait
  IN  IF own > suite[i].device_wait THEN own ELSE suite[i].device_wait

Init ==
  /\ suite \in Suites
  /\ t = 1 /\ phase = "begin"
  /\ queue = {} /\ remaining = {} /\ ret_value = "none"
  /\ clock = 0 /\ stop_time = 0 /\ start_time = 0
  /\ TEST_COUNT = [passed |-> 0, failed |-> 0, warning |-> 0, count |-> 0, skip |-> 0]
  /\ results = [i \in DOMAIN suite |-> [k \in Node \cup {Whole} |-> "none"]]
  /\ exit = Never
  /\ verdicts = <<>>
  /\ last = [i \in DOMAIN suite |-> [n \in Node |-> "none"]]

-----------------------------------------------------------------------------
(* report.py.  A book is a pair of counters and results; the operators map *)
(* the book before a message to the one after it.                          *)

\* The last message wins, unless there was an error.
Record(b, k, r) == [b EXCEPT !.results[t][k] = IF @ = "error" THEN @ ELSE r]

Skip(b, k) == [Record(b, k, "skip") EXCEPT !.count.skip = @ + 1]

\* increase_fail_count, increase_pass_count
Failed(b) ==
  IF test.warning THEN [b EXCEPT !.count.count = @ + 1, !.count.warning = @ + 1]
                  ELSE [b EXCEPT !.count.count = @ + 1, !.count.failed = @ + 1]
Passed(b) == [b EXCEPT !.count.count = @ + 1, !.count.passed = @ + 1]

\* p_test_fail, log_progress
TestFail(b, k) == Record(b, k, IF test.warning THEN "warning" ELSE "fail")
Fail(b, k) == Failed(TestFail(b, k))
Pass(b, k) == Passed(Record(b, k, "pass"))
Error(b, k) == Failed(Record(Record(b, k, "fail"), k, "error"))

Book == [count |-> TEST_COUNT, results |-> results]
Write(b) == TEST_COUNT' = b.count /\ results' = b.results

-----------------------------------------------------------------------------
(* execute_node_validation.  An outcome is what the attempt writes, whether *)
(* the node is processed, its result, and what it has shown.               *)

Outcome(b, proc, ok, seen) == [book |-> b, proc |-> proc, ok |-> ok, seen |-> seen]

\* A bug: a failure is final although there is time left.
RejectedEarly(b, report) == Outcome(b, TRUE, "false", "bad")

\* A check that fails: the node has another chance until the deadline.
Rejected(b, report) ==
  IF report THEN Outcome(b, TRUE, "false", "bad") ELSE Outcome(b, FALSE, "none", "bad")

\* execute_validation_expression
Expression(n, b, report) ==
  {Outcome(Pass(b, n), TRUE, "true", "good"), Rejected(IF report THEN Fail(b, n) ELSE b, report)}

\* execute_validation of suzieq, for a list with a good record, a bad one, or
\* both: the bad record is counted, and then the node.
Records(n, b, report) ==
  IF test.judge = "undefined" THEN {Rejected(IF report THEN Fail(Skip(b, n), n) ELSE Skip(b, n), report)}
  ELSE {LET good == IF test.any THEN "good" \in r ELSE "bad" \notin r
            counted == IF report /\ "bad" \in r THEN Fail(b, n) ELSE b
        IN  IF good THEN Outcome(Pass(counted, n), TRUE, "true", "good")
                    ELSE Rejected(IF report THEN Fail(counted, n) ELSE counted, report)
        : r \in {{"good"}, {"bad"}, {"good", "bad"}}}

\* execute_validation_plugin.  Without a result the test is skipped, or there
\* is no such function; an exception is an error unless the plugin raises it.
Plugin(n, b, report) ==
  LET bad == TestFail(b, n)
      fails == {Failed(bad), Failed(Record(bad, n, "error"))}
  IN  {Outcome(b, TRUE, "none", "none"), Outcome(Skip(b, n), TRUE, "none", "none"),
       Outcome(Pass(b, n), TRUE, "true", "good")}
      \cup {Rejected(c, report) : c \in IF ~report THEN {b} ELSE IF test.expect_fail THEN {bad} ELSE fails}

\* What becomes of an answer; without a check it passes unseen.
Judge(n, b, report, seen) ==
  CASE test.judge = "valid" -> Expression(n, b, report)
    [] test.judge = "undefined" -> {Outcome(Skip(b, n), TRUE, "none", "none")}
    [] test.judge = "plugin" -> Plugin(n, b, report)
    [] OTHER -> {Outcome(IF test.pass THEN Record(b, n, "pass") ELSE b, TRUE, "none", seen)}

\* A command that cannot be executed, or whose answer cannot be parsed, is an
\* error at once.
Show(n, b, report) == {Outcome(Error(b, n), TRUE, "false", "bad")} \cup Judge(n, b, report, "good")

\* A command that fails is an error after the deadline only; before, its
\* absent answer is judged.  A plugin that cannot tell the command leaves an
\* error in the results.
Exec(n, b, report) ==
  LET failing == {b} \cup IF test.judge = "plugin" THEN {Record(b, n, "error")} ELSE {}
  IN  Judge(n, b, report, "good") \cup
      UNION {IF report THEN {Outcome(Error(c, n), TRUE, "false", "bad")}
                       ELSE Judge(n, c, report, "bad") : c \in failing}

\* Suzieq answers with records, with none, or with an error, which is taken for
\* data.
Suzieq(n, b, report) ==
  LET Unexpected(c) == Rejected(IF report THEN Fail(c, n) ELSE c, report)
      Expected(c, seen) == Outcome(IF test.pass THEN Record(c, n, "pass") ELSE c, TRUE, "true", seen)
      failed == Record(b, n, "fail")
      data == IF test.empty THEN {Unexpected(b), Unexpected(failed)}
              ELSE IF test.judge = "nothing" THEN {Expected(b, "good"), Expected(failed, "bad")}
              ELSE Records(n, b, report)
                   \cup {Rejected(IF report THEN Fail(Fail(failed, n), n) ELSE failed, report)}
  IN  data \cup {IF ~test.empty THEN Unexpected(b)
                  ELSE IF test.judge = "nothing" THEN Expected(b, "good")
                  ELSE Outcome(b, TRUE, "none", "good")}

Execute(n, b, report) ==
  CASE test.action[n] \in {"show", "ansible"} -> Show(n, b, report)
    [] test.action[n] = "exec" -> Exec(n, b, report)
    [] test.action[n] = "suzieq" -> Suzieq(n, b, report)
    [] test.action[n] = "wait" -> {Outcome(b, TRUE, "true", "none")}
    [] OTHER -> {Outcome(Skip(b, n), TRUE, "none", "none")}

-----------------------------------------------------------------------------
(* execute_validation_test *)

End(ret) == phase' = "end" /\ ret_value' = ret /\ UNCHANGED <<suite, t, queue, remaining, stop_time, start_time, exit, verdicts, last>>
Abort(code) == phase' = "exit" /\ exit' = code

Begins == phase = "begin" /\ t <= Len(suite)

\* A test without nodes waits, and is where errors so far end the command.
PureWait ==
  /\ Begins /\ HasWait(test) /\ test.nodes = <<>>
  /\ \/ /\ test.stop_on_error /\ TEST_COUNT.failed > 0
        /\ Abort(1)
        /\ UNCHANGED <<suite, t, queue, remaining, ret_value, times, book, verdicts, last>>
     \/ /\ ~test.stop_on_error \/ TEST_COUNT.failed = 0
        /\ IF test.warning
           THEN Write(Fail(Book, Whole)) /\ End("false") /\ UNCHANGED clock
           ELSE /\ clock' = IF clock > start_time + Wait(t) THEN clock ELSE start_time + Wait(t)
                /\ End("none") /\ UNCHANGED book

NoNodes ==
  /\ Begins /\ ~HasWait(test) /\ test.nodes = <<>>
  /\ Write(Skip(Book, Whole))
  /\ End("none") /\ UNCHANGED clock

IsConfig == \E n \in Range(test.nodes) : test.action[n] = "config"

ExecuteNetlabConfig ==
  /\ Begins /\ test.nodes # <<>> /\ IsConfig
  /\ \/ Write(Pass(Book, Whole)) /\ End("true")
     \/ Write(Failed(Record(Book, Whole, "fail"))) /\ End("false")
  /\ UNCHANGED clock

StartTest ==
  /\ Begins /\ test.nodes # <<>> /\ ~IsConfig
  /\ phase' = "round"
  /\ queue' = DOMAIN test.nodes /\ remaining' = DOMAIN test.nodes
  /\ ret_value' = "none"
  /\ stop_time' = clock + Wait(t)
  /\ UNCHANGED <<suite, t, clock, start_time, book, exit, verdicts, last>>

\* The nodes of a round are asked in their order; the clock is read before the
\* attempt.
Attempt ==
  /\ phase = "round"
  /\ \E i \in queue :
       /\ \A j \in queue : i <= j
       /\ queue' = queue \ {i}
       /\ LET n == test.nodes[i] IN
          \E o \in Execute(n, Book, clock >= stop_time) :
            /\ Write(o.book)
            /\ remaining' = IF o.proc THEN {j \in remaining : test.nodes[j] # n} ELSE remaining
            /\ ret_value' = IF o.ok = "false" \/ (o.ok = "true" /\ ret_value = "none") THEN o.ok ELSE ret_value
            /\ last' = [last EXCEPT ![t][n] = o.seen]
  /\ UNCHANGED <<suite, t, phase, times, exit, verdicts>>

\* A bug: the last round is the one in which the time runs out.
NextRoundInTime ==
  /\ phase = "round" /\ queue = {} /\ remaining # {} /\ clock <= stop_time
  /\ queue' = remaining
  /\ clock' = IF ret_value # "false" /\ test.wait_msg THEN clock + 1 ELSE clock
  /\ UNCHANGED <<suite, t, phase, remaining, ret_value, stop_time, start_time, book, exit, verdicts, last>>

\* The loop sleeps only with a message, and while no node has failed.
NextRound ==
  /\ phase = "round" /\ queue = {} /\ remaining # {}
  /\ queue' = remaining
  /\ clock' = IF ret_value # "false" /\ test.wait_msg THEN clock + 1 ELSE clock
  /\ UNCHANGED <<suite, t, phase, remaining, ret_value, stop_time, start_time, book, exit, verdicts, last>>

\* A bug: a test that passed is counted, and so are its nodes.
FinishTestCounted ==
  /\ phase = "round" /\ queue = {} /\ remaining = {}
  /\ Write(IF ret_value = "true" THEN Pass(Book, Whole) ELSE Book)
  /\ End(ret_value) /\ UNCHANGED clock

FinishTest ==
  /\ phase = "round" /\ queue = {} /\ remaining = {}
  /\ IF test.expect_fail
     THEN CASE ret_value = "true" -> Write(Failed(Record(Book, Whole, "fail"))) /\ End("false")
            [] ret_value = "false" -> Write(Pass(Book, Whole)) /\ End("true")
            [] OTHER -> End("none") /\ UNCHANGED book
     ELSE /\ Write(IF ret_value = "true" THEN Record(Book, Whole, "pass") ELSE Book)
          /\ End(ret_value)
  /\ UNCHANGED clock

-----------------------------------------------------------------------------
(* run_validation *)

NextTest ==
  /\ phase = "end"
  /\ verdicts' = Append(verdicts, ret_value)
  /\ IF ret_value = "false" /\ test.stop_on_error
     THEN Abort(1) /\ UNCHANGED <<t, start_time>>
     ELSE /\ phase' = "begin" /\ t' = t + 1
          /\ start_time' = IF HasWait(test) THEN clock ELSE start_time
          /\ UNCHANGED exit
  /\ UNCHANGED <<suite, queue, remaining, ret_value, clock, stop_time, book, last>>

\* A bug: warnings are not looked at unless a test has failed.
FinishQuietly ==
  /\ phase = "begin" /\ t > Len(suite)
  /\ Abort(IF TEST_COUNT.failed > 0 THEN 1 ELSE 0)
  /\ UNCHANGED <<suite, t, queue, remaining, ret_value, times, book, verdicts, last>>

Finish ==
  /\ phase = "begin" /\ t > Len(suite)
  /\ Abort(IF TEST_COUNT.failed > 0 THEN 1 ELSE IF TEST_COUNT.warning > 0 THEN 3 ELSE 0)
  /\ UNCHANGED <<suite, t, queue, remaining, ret_value, times, book, verdicts, last>>

\* Time passes while nodes are asked.  Nothing looks at it after the deadline.
Tick ==
  /\ phase = "round" /\ clock <= stop_time
  /\ clock' = clock + 1
  /\ UNCHANGED <<suite, t, phase, queue, remaining, ret_value, stop_time, start_time, book, exit, verdicts, last>>

Next == \/ PureWait \/ NoNodes \/ ExecuteNetlabConfig \/ StartTest \/ Attempt \/ NextRound
        \/ FinishTest \/ NextTest \/ Finish \/ Tick

\* The clock advances although the loop may not sleep; commands are assumed to
\* return.
Spec == Init /\ [][Next]_vars /\ WF_vars(Next) /\ WF_vars(Tick)

-----------------------------------------------------------------------------
(* json_results *)

\* The entries that are counted: those of the nodes, or that of the test.
Entries(i) ==
  LET nodes == {n \in Node : results[i][n] # "none"}
  IN  IF nodes = {} THEN {Whole} ELSE nodes

Results(r) == {e \in UNION {{i} \X Entries(i) : i \in DOMAIN suite} : results[e[1]][e[2]] = r}

Errors(level) == Cardinality({e \in Results("error") : suite[e[1]].warning = level})

Summary == [passed |-> TEST_COUNT.passed, failed |-> TEST_COUNT.failed - Errors(FALSE),
            warning |-> TEST_COUNT.warning - Errors(TRUE), skip |-> TEST_COUNT.skip,
            error |-> Errors(TRUE) + Errors(FALSE)]

-----------------------------------------------------------------------------
TypeOK ==
  /\ suite \in Suites /\ t \in 1..(Len(suite) + 1)
  /\ phase \in {"begin", "round", "end", "exit"}
  /\ queue \cup remaining \subseteq IF t <= Len(suite) THEN DOMAIN test.nodes ELSE {}
  /\ ret_value \in {"none", "true", "false"}
  /\ {clock, stop_time, start_time} \subseteq Nat /\ start_time <= clock
  /\ TEST_COUNT \in [{"passed", "failed", "warning", "count", "skip"} -> Nat]
  /\ TEST_COUNT.count = TEST_COUNT.passed + TEST_COUNT.failed + TEST_COUNT.warning
  /\ results \in [DOMAIN suite -> [Node \cup {Whole} ->
                    {"none", "pass", "skip", "warning", "fail", "error"}]]
  /\ exit \in {Never, 0, 1, 3}
  /\ verdicts \in Seq({"none", "true", "false"}) /\ Len(verdicts) <= t
  /\ last \in [DOMAIN suite -> [Node -> {"none", "good", "bad"}]]

Asks(v, a) == \E n \in Range(v.nodes) : v.action[n] = a

\* Nobody removes the duplicates of a list of nodes: one that is listed twice is
\* asked twice in a round, whatever has come out of the first attempt.
Distinct(v) == IsInjective(v.nodes)

\* Tests whose counters and results are written by the same calls.
Plain(v) == /\ Distinct(v)
            /\ ~Asks(v, "suzieq") /\ ~v.expect_fail
            /\ ~(Asks(v, "exec") /\ v.judge = "plugin")
            /\ ~(Asks(v, "config") /\ v.warning)

\* A test that looks at answers or deploys a configuration.  Only its results
\* "pass" come with an increase_pass_count: what is recorded for an answer nobody
\* looks at, and for the test it belongs to (tests.py:177, :290), is not counted.
Judged(v) == Asks(v, "config") \/ v.judge # "nothing"

\* The summary of the JSON document is the number of its results of each kind,
\* although the counters and the results are written by different calls, errors
\* are moved between counters when the document is made, and nodes are asked many
\* times.  docs/netlab/validate.md:66 says so of all results; the code does it for
\* errors, failures, warnings and skipped results, and for the "pass" of tests
\* that are Judged, but not for the "pass" of others: the document shows those, and
\* the summary does not count them.  Nor is it so for suzieq, for tests that are
\* expected to fail, for plugins that cannot tell the command, and for configurations
\* at the level of warnings, whose failures are recorded as such.
SummaryIsTheResults ==
  (\A v \in Range(suite) : Plain(v)) =>
    /\ Summary.error = Cardinality(Results("error"))
    /\ Summary.failed = Cardinality(Results("fail"))
    /\ Summary.warning = Cardinality(Results("warning"))
    /\ Summary.skip = Cardinality(Results("skip"))
    /\ Summary.passed = Cardinality({e \in Results("pass") : Judged(suite[e[1]])})

\* Nobody looks at what the node has answered.
Unseen(v) ==
  v.judge = "nothing" /\ (Asks(v, "suzieq") \/ (Asks(v, "exec") /\ (v.wait > 0 \/ v.device_wait > 0)))

\* With exit status 0 the last answer of every node of every test was a good
\* one, although it is found out in calls that may be repeated, skipped or
\* ended by the failure of another node, and status 1 has a reason.
FailuresShow ==
  /\ exit = 0 => \A i \in DOMAIN suite : \A n \in Node :
       /\ Distinct(suite[i]) /\ ~suite[i].expect_fail /\ ~Unseen(suite[i]) => last[i][n] # "bad"
       /\ Plain(suite[i]) => results[i][n] \notin {"fail", "warning", "error"}
  /\ exit = 1 /\ (\A v \in Range(suite) : Plain(v)) => "false" \in Range(verdicts)

\* A node that answers is not given up before the wait time of the test is
\* over, whatever happens to the other nodes of the test meanwhile.
LastChance ==
  phase = "round" /\ Distinct(test) /\ ~Unseen(test) =>
    \A i \in DOMAIN test.nodes \ remaining :
      LET n == test.nodes[i] IN
      last[t][n] = "bad" /\ results[t][n] # "error" => clock >= stop_time

\* The command ends: every node is decided when the time of its test is over.
Ends == <>(phase = "exit")

=============================================================================
