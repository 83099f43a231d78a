------------------------------- MODULE ApiJobs -------------------------------
(***************************************************************************)
(* The job runner of 'netlab api': an HTTP server that runs the CLI        *)
(* commands inside its own process.  Every job is a thread; RUN_LOCK lets  *)
(* one of them run its command at a time, in its own working directory,    *)
(* with the standard output redirected to a buffer.  Every request is a    *)
(* thread, too, and status requests run a CLI command without RUN_LOCK.    *)
(* The working directory, the standard output and the error log of the     *)
(* process are shared by all of them.                                      *)
(***************************************************************************)
CONSTANTS
  Jobs,        \* the jobs clients post
  Clients,     \* clients that send GET requests
  Home,        \* the working directory of the server
  Workdir,     \* the working directory in the payload of a job, or Default
  Default,     \* the payload has no working directory
  LabDir,      \* the directory of the lab shown by GET /status/instance
  Bad,         \* jobs whose topology has errors
  Server,      \* the standard output of the server itself
  Unlocked     \* RUN_LOCK is free

Threads == Jobs \cup Clients

Dirs == {Home, LabDir} \cup ({Workdir[j] : j \in Jobs} \ {Default})

ASSUME ApiAssumption ==
  /\ Jobs \cap Clients = {}
  /\ Server \notin Threads
  /\ Unlocked \notin Jobs
  /\ Default \notin {Home, LabDir}
  /\ Bad \subseteq Jobs

VARIABLES
  doing,     \* what a thread does next
  state,     \* the state in the job record; "" before the job is posted
  finished,  \* finishedAt is set
  result,    \* how the command of a job ended
  runLock,   \* RUN_LOCK
  cwd,       \* working directory of the process
  rundir,    \* the directory a job is about to enter
  prev,      \* the directory to return to
  stdout,    \* where the standard output of the process goes
  old,       \* where it went when a thread redirected it
  errors,    \* jobs with entries in the error log of the process
  asked      \* history: has a GET request been served?

apiVars == <<doing, state, finished, result, runLock, cwd, rundir, prev, stdout, old,
             errors, asked>>

record == <<state, finished>>
place == <<runLock, cwd, rundir, prev>>
output == <<stdout, old>>
work == <<result, errors, asked>>

States == {"", "queued", "running", "success", "failed", "canceled"}

Final == {"success", "failed", "canceled"}

Activities == {"idle", "start", "workdir", "lock", "resolve", "enter", "redirect", "transform",
        "check", "write", "unwind", "restore", "settle", "end",
        "get_redirect", "get_show", "get_restore"}

ApiInit ==
  /\ doing = [t \in Threads |-> "idle"]
  /\ state = [j \in Jobs |-> ""]
  /\ finished = [j \in Jobs |-> FALSE]
  /\ result = [j \in Jobs |-> "ok"]
  /\ runLock = Unlocked
  /\ cwd = Home
  /\ rundir = [j \in Jobs |-> Home]
  /\ prev = [j \in Jobs |-> Home]
  /\ stdout = Server
  /\ old = [t \in Threads |-> Server]
  /\ errors = {}
  /\ asked = FALSE

Proceed(t, from, to) == doing[t] = from /\ doing' = [doing EXCEPT ![t] = to]

\* workspace_dir: without a directory in the payload, the current one.
WorkspaceDir(j) == IF Workdir[j] = Default THEN cwd ELSE Workdir[j]

-----------------------------------------------------------------------------
(* Requests that change a job record *)

StartJob(j) ==
  /\ Proceed(j, "idle", "start")
  /\ state' = [state EXCEPT ![j] = "queued"]
  /\ UNCHANGED <<finished, place, output, work>>

\* Only a queued job is canceled; other requests are answered with a conflict.
Cancel(j) ==
  /\ state[j] = "queued"
  /\ state' = [state EXCEPT ![j] = "canceled"]
  /\ finished' = [finished EXCEPT ![j] = TRUE]
  /\ UNCHANGED <<doing, place, output, work>>

-----------------------------------------------------------------------------
(* The thread of a job *)

\* A bug: the thread does not ask whether its job was canceled.
BeginAnyway(j) ==
  /\ Proceed(j, "start", "workdir")
  /\ state' = [state EXCEPT ![j] = "running"]
  /\ UNCHANGED <<finished, place, output, work>>

Begin(j) ==
  /\ \/ /\ state[j] = "canceled"
        /\ Proceed(j, "start", "end")
        /\ UNCHANGED state
     \/ /\ state[j] # "canceled"
        /\ Proceed(j, "start", "workdir")
        /\ state' = [state EXCEPT ![j] = "running"]
  /\ UNCHANGED <<finished, place, output, work>>

\* The directory that goes into the job record; it may not be a valid path.
ReportWorkdir(j) ==
  /\ \/ Proceed(j, "workdir", "lock") /\ UNCHANGED result
     \/ Proceed(j, "workdir", "settle") /\ result' = [result EXCEPT ![j] = "exception"]
  /\ UNCHANGED <<record, place, output, errors, asked>>

\* A bug: jobs do not wait for each other.
TakeNoLock(j) ==
  /\ Proceed(j, "lock", "resolve")
  /\ runLock' = j
  /\ UNCHANGED <<record, cwd, rundir, prev, output, work>>

TakeRunLock(j) ==
  /\ runLock = Unlocked
  /\ Proceed(j, "lock", "resolve")
  /\ runLock' = j
  /\ UNCHANGED <<record, cwd, rundir, prev, output, work>>

\* run_netlab_action resolves the directory again, and enters it.
Resolve(j) ==
  /\ Proceed(j, "resolve", "enter")
  /\ rundir' = [rundir EXCEPT ![j] = WorkspaceDir(j)]
  /\ UNCHANGED <<record, runLock, cwd, prev, output, work>>

\* The directory may not exist, and the payload may not make a command.
EnterDir(j) ==
  /\ \/ /\ Proceed(j, "enter", "redirect")
        /\ cwd' = rundir[j]
        /\ UNCHANGED result
     \/ /\ Proceed(j, "enter", "restore")
        /\ cwd' \in {cwd, rundir[j]}
        /\ result' = [result EXCEPT ![j] = "exception"]
  /\ prev' = [prev EXCEPT ![j] = cwd]
  /\ UNCHANGED <<record, runLock, rundir, output, errors, asked>>

Redirect(j) ==
  /\ Proceed(j, "redirect", "transform")
  /\ old' = [old EXCEPT ![j] = stdout]
  /\ stdout' = j
  /\ UNCHANGED <<record, place, work>>

\* The command reads the topology and prints and collects its errors.
Transform(j) ==
  /\ Proceed(j, "transform", "check")
  /\ errors' = errors \cup (Bad \cap {j})
  /\ UNCHANGED <<record, place, output, result, asked>>

\* A bug: the errors are not checked before files are created.
CheckNothing(j) ==
  /\ Proceed(j, "check", "write")
  /\ UNCHANGED <<record, place, output, work>>

\* exit_on_error: any entry of the error log ends the command.
CheckErrors(j) ==
  /\ \/ /\ errors = {}
        /\ Proceed(j, "check", "write")
        /\ UNCHANGED result
     \/ /\ errors # {}
        /\ Proceed(j, "check", "unwind")
        /\ result' = [result EXCEPT ![j] = "exit"]
  /\ UNCHANGED <<record, place, output, errors, asked>>

\* The rest of the command creates files and prints.  It may end early with an
\* exception, or with sys.exit after an error, which stays in the error log.
Work(j) ==
  /\ Proceed(j, "write", "unwind")
  /\ \/ UNCHANGED <<result, errors>>
     \/ result' = [result EXCEPT ![j] = "exception"] /\ UNCHANGED errors
     \/ result' = [result EXCEPT ![j] = "exit"] /\ errors' = errors \cup {j}
  /\ UNCHANGED <<record, place, output, asked>>

\* The output is put back; what it was redirected to goes to the log file, but
\* only when the command returned.
Unwind(j) ==
  /\ Proceed(j, "unwind", "restore")
  /\ stdout' = old[j]
  /\ old' = [old EXCEPT ![j] = Server]
  /\ UNCHANGED <<record, place, work>>

Restore(j) ==
  /\ Proceed(j, "restore", "settle")
  /\ cwd' = prev[j]
  /\ runLock' = Unlocked
  /\ prev' = [prev EXCEPT ![j] = Home]
  /\ rundir' = [rundir EXCEPT ![j] = Home]
  /\ UNCHANGED <<record, output, work>>

\* A bug: the runner forgets what happens after an exception.
SettleIfOK(j) ==
  /\ result[j] = "ok"
  /\ Proceed(j, "settle", "end")
  /\ state' = [state EXCEPT ![j] = "success"]
  /\ finished' = [finished EXCEPT ![j] = TRUE]
  /\ UNCHANGED <<place, output, work>>

\* 'except Exception' does not catch the SystemExit of sys.exit.
Settle(j) ==
  /\ Proceed(j, "settle", "end")
  /\ state' = [state EXCEPT ![j] = CASE result[j] = "ok" -> "success"
                                     [] result[j] = "exception" -> "failed"
                                     [] OTHER -> @]
  /\ finished' = [finished EXCEPT ![j] = TRUE]
  /\ result' = [result EXCEPT ![j] = "ok"]
  /\ UNCHANGED <<place, output, errors, asked>>

-----------------------------------------------------------------------------
(* GET requests: all of them reset the error log *)

Get(c) ==
  /\ Proceed(c, "idle", "get_redirect") \/ Proceed(c, "idle", "idle")
  /\ errors' = {}
  /\ asked' = TRUE
  /\ UNCHANGED <<record, place, output, result>>

GetRedirect(c) ==
  /\ Proceed(c, "get_redirect", "get_show")
  /\ old' = [old EXCEPT ![c] = stdout]
  /\ stdout' = c
  /\ UNCHANGED <<record, place, work>>

\* GET /status prints; GET /status/instance enters the directory of the lab.
GetShow(c) ==
  /\ Proceed(c, "get_show", "get_restore")
  /\ cwd' \in {cwd, LabDir}
  /\ UNCHANGED <<record, runLock, rundir, prev, output, work>>

GetRestore(c) ==
  /\ Proceed(c, "get_restore", "idle")
  /\ stdout' = old[c]
  /\ old' = [old EXCEPT ![c] = Server]
  /\ UNCHANGED <<record, place, work>>

-----------------------------------------------------------------------------
Run(j) ==
  \/ Begin(j) \/ ReportWorkdir(j) \/ TakeRunLock(j) \/ Resolve(j) \/ EnterDir(j)
  \/ Redirect(j) \/ Transform(j) \/ CheckErrors(j) \/ Work(j) \/ Unwind(j)
  \/ Restore(j) \/ Settle(j)

Request(c) == Get(c) \/ GetRedirect(c) \/ GetShow(c) \/ GetRestore(c)

ApiNext ==
  \/ \E j \in Jobs : StartJob(j) \/ Cancel(j) \/ Run(j)
  \/ \E c \in Clients : Request(c)

\* The threads of the jobs run, and their commands end.  Nothing is assumed of
\* the clients, nor of the order in which threads get RUN_LOCK.
ApiSpec ==
  /\ ApiInit /\ [][ApiNext]_apiVars
  /\ \A j \in Jobs : WF_apiVars(Run(j))

-----------------------------------------------------------------------------
(* Properties *)

\* The types of the variables.
ApiTypeOK ==
  /\ doing \in [Threads -> Activities]
  /\ state \in [Jobs -> States]
  /\ finished \in [Jobs -> BOOLEAN]
  /\ result \in [Jobs -> {"ok", "exception", "exit"}]
  /\ runLock \in Jobs \cup {Unlocked}
  /\ cwd \in Dirs
  /\ rundir \in [Jobs -> Dirs]
  /\ prev \in [Jobs -> Dirs]
  /\ stdout \in Threads \cup {Server}
  /\ old \in [Threads -> Threads \cup {Server}]
  /\ errors \subseteq Jobs
  /\ asked \in BOOLEAN

Wanted(j) == IF Workdir[j] = Default THEN Home ELSE Workdir[j]

\* Until a GET request is served, a job creates its files in the directory of
\* its payload, or in that of the server, while it prints to its own buffer, and
\* none whose topology has errors gets that far: the directory, the output and
\* the error log of the process are those of the job although all threads share
\* them (run_netlab_action, _run_with_output, exit_on_error).
WorksInPlace ==
  asked \/ \A j \in Jobs : doing[j] = "write" => cwd = Wanted(j) /\ stdout = j /\ j \notin Bad

\* Until a GET request is served, what a job prints goes to its own buffer.
PrintsToItself ==
  asked \/ \A j \in Jobs : doing[j] \in {"transform", "check", "write"} => stdout = j

\* Between two commands the process is as the server started it, until a GET
\* request is served.
Restored ==
  ~asked /\ runLock = Unlocked => cwd = Home /\ stdout = Server

\* A job that was canceled or came to an end stays so, although requests and
\* the thread of the job change its record at any time (the comparison with
\* "canceled" in _runner, the one with "queued" in do_POST).
FinalStays == [][\A j \in Jobs : state[j] \in Final => state'[j] = state[j]]_apiVars

\* Every posted job comes to an end, also when commands fail.
JobsFinish == \A j \in Jobs : state[j] = "queued" ~> finished[j]

=============================================================================
