--------------------------- MODULE MCValidateTests ---------------------------
(***************************************************************************)
(* Single tests of every kind on two nodes, and series of tests that stop, *)
(* wait, warn or configure.  A wait time is at most two seconds long.      *)
(***************************************************************************)
EXTENDS ValidateTests, TLC

CONSTANTS a, b

Plainly == [nodes |-> <<a, b>>, wait |-> Never, device_wait |-> 0,
            action |-> a :> "show" @@ b :> "show", judge |-> "valid",
            pass |-> FALSE, wait_msg |-> FALSE, warning |-> FALSE, stop_on_error |-> FALSE,
            expect_fail |-> FALSE, any |-> TRUE, empty |-> FALSE]

MCNever == -1

All(x) == [n \in {a, b} |-> x]

\* Commands, their judges, and the time they are given.
Asking ==
  {[Plainly EXCEPT !.action = x, !.judge = j, !.wait = w, !.wait_msg = m, !.warning = l, !.pass = l,
                   !.expect_fail = e] :
     x \in {All("show"), All("exec"), a :> "ansible" @@ b :> "none", a :> "exec" @@ b :> "show"},
     j \in Judges, w \in {Never, 0, 2}, m \in BOOLEAN, l \in BOOLEAN, e \in BOOLEAN}

Observing ==
  {[Plainly EXCEPT !.action = All("suzieq"), !.judge = j, !.any = y, !.empty = z, !.wait = w,
                   !.wait_msg = TRUE, !.pass = y] :
     j \in {"valid", "nothing"}, y \in BOOLEAN, z \in BOOLEAN, w \in {Never, 1}}
  \cup {[Plainly EXCEPT !.action = All("suzieq"), !.judge = "undefined"]}

Pause == [Plainly EXCEPT !.nodes = <<>>, !.wait = 2]
Config == [Plainly EXCEPT !.action = All("config")]
OneNode(w, l) == [Plainly EXCEPT !.nodes = <<a>>, !.wait = w, !.warning = l]

\* Series of tests.
Series ==
  {<<OneNode(w, l), [Pause EXCEPT !.stop_on_error = e, !.warning = p], x>> :
     w \in {Never, 1}, l \in BOOLEAN, e \in BOOLEAN, p \in BOOLEAN,
     x \in {Config, [OneNode(1, FALSE) EXCEPT !.device_wait = 2]}}
  \cup {<<[x EXCEPT !.stop_on_error = TRUE], [Plainly EXCEPT !.nodes = <<>>], OneNode(Never, FALSE)>> :
          x \in {Config, Plainly, [OneNode(1, FALSE) EXCEPT !.expect_fail = TRUE]}}
  \cup {<<[Plainly EXCEPT !.action = All("wait"), !.judge = "nothing", !.wait = 1]>>}
  \cup {<<[Config EXCEPT !.warning = TRUE]>>}
  \cup {<<[Plainly EXCEPT !.nodes = <<a, a, b>>, !.wait = w, !.warning = l]>> : w \in {Never, 1}, l \in BOOLEAN}
  \cup {<<[Plainly EXCEPT !.action = All("exec"), !.judge = "nothing", !.device_wait = 1]>>}

MCSuites == {<<x>> : x \in Asking \cup Observing} \cup Series
=============================================================================
