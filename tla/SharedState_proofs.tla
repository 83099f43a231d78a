------------------------- MODULE SharedState_proofs -------------------------
(***************************************************************************)
(* Two pieces of state that several threads of control share, each behind a*)
(* lock: the status file of a user, and the process of the API server.     *)
(*                                                                         *)
(* The status file is an atomic status until somebody resets it, for       *)
(* any number of processes and lab instances.  The argument: whoever is    *)
(* between reading and releasing holds the lock, so that the copy it made  *)
(* stays the current status with one entry changed until it is written.    *)
(*                                                                         *)
(* RUN_LOCK does what it is for, for any number of jobs: until a GET       *)
(* request interferes, the job that holds it is the only one to touch the  *)
(* working directory and the standard output of the process, and leaves    *)
(* them as it found them.                                                  *)
(***************************************************************************)
EXTENDS StatusFile, ApiJobs, TLAPS

-----------------------------------------------------------------------------
(* The status file                                                          *)

\* Whoever works on the file holds the lock.
Mutex == \A p \in Procs : pc[p] \in Holding => lock = p

Intact == "reset" \notin harm

\* What is about to be written is the current status with one entry changed.
Fresh == Intact => \A p \in Procs : pc[p] = "truncate" => copy[p] \in Changed(Status)

\* The file being written is still there.
InPlace == Intact => \A p \in Procs : pc[p] = "write" => file = Torn

IInv == TypeOK /\ Mutex /\ Fresh /\ InPlace

Step(p) ==
  \/ ChangeStatus(p) \/ Leave(p) \/ ReadAndChange(p) \/ Truncate(p)
  \/ Write(p) \/ Fail(p) \/ Release(p) \/ Kill(p)
  \/ ReadStatus(p) \/ UseStatus(p) \/ Reset(p)

\* A changed status is a status.
LEMMA ChangedType ==
  ASSUME NEW s \in Statuses
  PROVE  Changed(s) \subseteq Statuses
  BY DEF Changed, Statuses

\* The empty status is a status.
LEMMA NoStatusType == NoStatus \in Statuses
  BY DEF NoStatus, Statuses

\* What can be read is a status or an error.
LEMMA ReadingsType ==
  ASSUME TypeOK
  PROVE  Readings \subseteq Statuses \cup {Error}
  BY NoStatusType DEF Readings, TypeOK

\* The status behind the file is a status.
LEMMA StatusType ==
  ASSUME TypeOK
  PROVE  Status \in Statuses
  BY NoStatusType, StatusAssumption DEF Status, TypeOK, Writing

\* Without the lock in the way, what is read is the status.
LEMMA ReadingIsStatus ==
  ASSUME \A p \in Procs : ~Writing(p), NEW s \in Readings, s # Error
  PROVE  s = Status
  BY DEF Readings, Status

\* Every step keeps the types.
LEMMA TypeStep ==
  ASSUME TypeOK, NEW p \in Procs, Step(p)
  PROVE  TypeOK'
<1> USE DEF PCs, Goto
<1>1. CASE ChangeStatus(p)
  BY <1>1 DEF ChangeStatus, TypeOK
<1>2. CASE Leave(p)
  BY <1>2 DEF Leave, Acquire, Timeout, TypeOK
<1>3. CASE ReadAndChange(p)
  <2>1. ASSUME NEW s \in Readings \ {Error}, NEW t \in Changed(s)
        PROVE  t \in Statuses
    BY ReadingsType, ChangedType
  <2>. QED
    BY <1>3, <2>1 DEF ReadAndChange, TypeOK
<1>4. CASE Truncate(p)
  BY <1>4 DEF Truncate, TypeOK
<1>5. CASE Write(p)
  BY <1>5 DEF Write, TypeOK
<1>6. CASE Fail(p)
  BY <1>6 DEF Fail, TypeOK
<1>7. CASE Release(p)
  BY <1>7, NoStatusType DEF Release, TypeOK
<1>8. CASE Kill(p)
  BY <1>8, NoStatusType DEF Kill, TypeOK
<1>9. CASE ReadStatus(p)
  BY <1>9, ReadingsType DEF ReadStatus, TypeOK
<1>10. CASE UseStatus(p)
  BY <1>10, NoStatusType DEF UseStatus, TypeOK
<1>11. CASE Reset(p)
  BY <1>11 DEF Reset, TypeOK
<1>. QED
  BY <1>1, <1>2, <1>3, <1>4, <1>5, <1>6, <1>7, <1>8, <1>9, <1>10, <1>11 DEF Step

\* All variables keep their types.
THEOREM TypeCorrect == Spec => []TypeOK
<1>1. Init => TypeOK
  BY NoStatusType DEF Init, TypeOK, PCs
<1>2. TypeOK /\ [Next]_vars => TypeOK'
  <2>1. CASE UNCHANGED vars
    BY <2>1 DEF vars, TypeOK
  <2>2. CASE Next
    BY <2>2, TypeStep DEF Next, Step
  <2>. QED
    BY <2>1, <2>2
<1>. QED
  BY <1>1, <1>2, PTL DEF Spec

-----------------------------------------------------------------------------
(* The effect of a step on the status *)

\* The status changes with the file and its writer only.
LEMMA StatusFrame ==
  ASSUME file' = file, \A q \in Procs : Writing(q)' <=> Writing(q),
         \A q \in Procs : Writing(q) => lock' = lock /\ copy'[q] = copy[q]
  PROVE  Status' = Status
<1>1. CASE \E q \in Procs : Writing(q)
  BY <1>1 DEF Status, Writing
<1>2. CASE ~\E q \in Procs : Writing(q)
  BY <1>2 DEF Status
<1>. QED
  BY <1>1, <1>2

\* Only Truncate changes the status, unless a process dies while it writes.
Effect(p) ==
  \/ Status' = Status
  \/ Truncate(p) /\ Status' = copy[p]
  \/ "death" \in harm' /\ pc[p] \in Holding /\ Status' = NoStatus

\* A step changes the status as the abstract one may.
LEMMA EffectOfStep ==
  ASSUME IInv, NEW p \in Procs, Step(p), Intact'
  PROVE  Effect(p)
<1> USE DEF Goto
<1>0. Intact
  BY DEF Intact, Step, Leave, ChangeStatus, Acquire, Timeout, ReadAndChange, Truncate, Write,
     Fail, Release, Kill, ReadStatus, UseStatus, Reset
<1>1. CASE ChangeStatus(p) \/ Timeout(p)
  <2>1. Status' = Status
    BY <1>1, StatusFrame DEF ChangeStatus, Timeout, IInv, TypeOK, Writing
  <2>. QED
    BY <2>1 DEF Effect
<1>2. CASE Acquire(p)
  <2>1. Status' = Status
    BY <1>2, StatusFrame, StatusAssumption DEF Acquire, IInv, TypeOK, Writing
  <2>. QED
    BY <2>1 DEF Effect
<1>3. CASE ReadAndChange(p)
  <2>1. /\ pc[p] = "read" /\ pc' \in {[pc EXCEPT ![p] = "truncate"], [pc EXCEPT ![p] = "release"]}
        /\ lock = p /\ UNCHANGED <<file, lock>>
    BY <1>3 DEF ReadAndChange, IInv, Mutex, Holding
  <2>2. \A q \in Procs : ~Writing(q) /\ ~Writing(q)'
    BY <2>1 DEF IInv, TypeOK, Writing
  <2>3. Status' = Status
    BY <2>1, <2>2, StatusFrame
  <2>. QED
    BY <2>3 DEF Effect
<1>4. CASE Truncate(p)
  <2>1. Writing(p)' /\ lock' = p /\ copy' = copy /\ file' = Torn
    BY <1>4 DEF Truncate, IInv, TypeOK, Mutex, Holding, Writing
  <2>2. Status' = copy[p]
    BY <2>1, StatusAssumption DEF Status
  <2>. QED
    BY <1>4, <2>2 DEF Effect
<1>5. CASE Write(p)
  <2>1. Writing(p) /\ lock = p /\ file = Torn
    BY <1>0, <1>5 DEF Write, IInv, Mutex, InPlace, Holding, Writing
  <2>2. Status = copy[p]
    BY <2>1, StatusAssumption DEF Status
  <2>3. file' = copy[p] /\ file' # Torn /\ file' # Missing
    BY <1>5, <2>1, StatusAssumption DEF Write, IInv, TypeOK
  <2>4. Status' = copy[p]
    BY <2>3 DEF Status
  <2>. QED
    BY <2>2, <2>4 DEF Effect
<1>6. CASE Fail(p) \/ Kill(p)
  <2>1. "death" \in harm' /\ file' = file /\ pc'[p] \in {"idle", "release"}
    BY <1>6 DEF Fail, Kill, IInv, TypeOK
  <2>2. CASE Writing(p)
    <3>1. file' = Torn /\ \A q \in Procs : ~Writing(q)'
      BY <1>0, <1>6, <2>1, <2>2 DEF Fail, Kill, IInv, TypeOK, Mutex, InPlace, Holding, Writing
    <3>2. Status' = NoStatus
      BY <3>1, StatusAssumption DEF Status
    <3>. QED
      BY <2>1, <2>2, <3>2 DEF Effect, Writing, Holding
  <2>3. CASE ~Writing(p)
    <3>1. Status' = Status
      BY <1>6, <2>1, <2>3, StatusFrame, StatusAssumption
      DEF Fail, Kill, IInv, TypeOK, Mutex, Holding, Writing
    <3>. QED
      BY <3>1 DEF Effect
  <2>. QED
    BY <2>2, <2>3
<1>7. CASE Release(p)
  <2>1. pc[p] = "release" /\ lock = p /\ lock' = Nobody /\ file' = file
    BY <1>7 DEF Release, IInv, Mutex, Holding
  <2>2. \A q \in Procs : ~Writing(q) /\ ~Writing(q)'
    BY <2>1, StatusAssumption DEF Writing
  <2>3. Status' = Status
    BY <2>1, <2>2, StatusFrame
  <2>. QED
    BY <2>3 DEF Effect
<1>8. CASE ReadStatus(p) \/ UseStatus(p)
  <2>1. Status' = Status
    BY <1>8, StatusFrame DEF ReadStatus, UseStatus, IInv, TypeOK, Writing
  <2>. QED
    BY <2>1 DEF Effect
<1>9. ~Reset(p)
  BY DEF Reset, Intact
<1>. QED
  BY <1>1, <1>2, <1>3, <1>4, <1>5, <1>6, <1>7, <1>8, <1>9 DEF Step, Leave

-----------------------------------------------------------------------------
(* The inductive invariant *)

\* Every step keeps the invariant.
LEMMA InvStep ==
  ASSUME IInv, NEW p \in Procs, Step(p)
  PROVE  IInv'
<1> USE DEF Goto, Holding
<1>0. Intact' => Intact
  BY DEF Intact, Step, Leave, ChangeStatus, Acquire, Timeout, ReadAndChange, Truncate, Write,
     Fail, Release, Kill, ReadStatus, UseStatus, Reset
<1>1. TypeOK'
  BY TypeStep DEF IInv
<1>2. \A q \in Procs : q # p => pc'[q] = pc[q] /\ copy'[q] = copy[q]
  BY DEF Step, Leave, ChangeStatus, Acquire, Timeout, ReadAndChange, Truncate, Write, Fail,
     Release, Kill, ReadStatus, UseStatus, Reset, IInv, TypeOK
<1>3. Mutex'
  BY StatusAssumption DEF Step, Leave, ChangeStatus, Acquire, Timeout, ReadAndChange, Truncate,
     Write, Fail, Release, Kill, ReadStatus, UseStatus, Reset, IInv, TypeOK, Mutex
<1>4. ASSUME Intact', NEW q \in Procs, q # p, pc'[q] = "truncate"
      PROVE  copy'[q] \in Changed(Status)'
  <2>1. pc[q] = "truncate" /\ lock = q /\ pc[p] \notin Holding
    BY <1>2, <1>4 DEF IInv, Mutex
  <2>2. Status' = Status
    BY <1>4, <2>1, EffectOfStep DEF Effect, Truncate
  <2>. QED
    BY <1>0, <1>2, <1>4, <2>1, <2>2 DEF IInv, Fresh, Changed
<1>5. ASSUME Intact', pc'[p] = "truncate" PROVE copy'[p] \in Changed(Status)'
  <2>1. ReadAndChange(p) /\ pc[p] = "read"
    BY <1>5 DEF Step, Leave, ChangeStatus, Acquire, Timeout, ReadAndChange, Truncate, Write,
       Fail, Release, Kill, ReadStatus, UseStatus, Reset, IInv, TypeOK
  <2>2. \A q \in Procs : ~Writing(q)
    BY <2>1 DEF IInv, Mutex, Writing
  <2>3. PICK s \in Readings \ {Error} : copy'[p] \in Changed(s)
    BY <1>5, <2>1 DEF ReadAndChange, IInv, TypeOK
  <2>4. s = Status
    BY <2>2, <2>3, ReadingIsStatus
  <2>5. Status' = Status
    BY <1>5, <2>1, EffectOfStep, StatusFrame DEF Effect, ReadAndChange, Writing, IInv, TypeOK
  <2>. QED
    BY <2>3, <2>4, <2>5 DEF Changed
<1>6. Fresh'
  BY <1>4, <1>5 DEF Fresh, Changed
<1>7. InPlace'
  BY <1>0, <1>2 DEF Step, Leave, ChangeStatus, Acquire, Timeout, ReadAndChange, Truncate,
     Write, Fail, Release, Kill, ReadStatus, UseStatus, Reset, IInv, TypeOK, Mutex, InPlace,
     Intact
<1>. QED
  BY <1>1, <1>3, <1>6, <1>7 DEF IInv

\* The inductive invariant holds at all times.
THEOREM Invariance == Spec => []IInv
<1>1. Init => IInv
  BY NoStatusType DEF Init, IInv, TypeOK, PCs, Mutex, Fresh, InPlace, Holding
<1>2. IInv /\ [Next]_vars => IInv'
  <2>1. CASE UNCHANGED vars
    BY <2>1 DEF vars, IInv, TypeOK, Mutex, Fresh, InPlace, Status, Writing, Changed, Intact
  <2>2. CASE Next
    BY <2>2, InvStep DEF Next, Step
  <2>. QED
    BY <2>1, <2>2
<1>. QED
  BY <1>1, <1>2, PTL DEF Spec

\* No update of the status file loses that of another process, as long as
\* nobody resets the file.
THEOREM UpdatesAreKept == Spec => []NoLostUpdate
<1>1. IInv => NoLostUpdate
  BY DEF IInv, Mutex, Fresh, NoLostUpdate, Intact
<1>. QED
  BY <1>1, Invariance, PTL

\* The status file is an atomic status until it is reset, and it is lost only
\* when a process dies while it writes.
THEOREM Refinement == Spec => ImplementsAtomicStatus
<1> DEFINE S == IF "reset" \in harm THEN NoStatus ELSE Status
<1>1. Init => Atomic!Init
  BY DEF Init, Atomic!Init, Status, NoStatus, Atomic!NoStatus
<1>2. IInv /\ [Next]_vars => [Atomic!Next]_<<S, harm # {}>>
  <2> SUFFICES ASSUME IInv, [Next]_vars PROVE [Atomic!Next]_<<S, harm # {}>>
    OBVIOUS
  <2>1. CASE UNCHANGED vars
    BY <2>1 DEF vars, Status, Writing
  <2>2. ASSUME NEW p \in Procs, Step(p) PROVE [Atomic!Next]_<<S, harm # {}>>
    <3>1. CASE "reset" \in harm'
      <4>1. "reset" \in harm \/ Reset(p)
        BY <2>2, <3>1 DEF Step, Leave, ChangeStatus, Acquire, Timeout, ReadAndChange, Truncate,
           Write, Fail, Release, Kill, ReadStatus, UseStatus
      <4>2. S' = NoStatus /\ (harm # {})' = TRUE
        BY <3>1 DEF NoStatus
      <4>3. Atomic!Lose
        BY <4>2 DEF Atomic!Lose, NoStatus, Atomic!NoStatus
      <4>. QED
        BY <4>3 DEF Atomic!Next
    <3>2. CASE "reset" \notin harm'
      <4>1. Effect(p) /\ "reset" \notin harm
        BY <2>2, <3>2, EffectOfStep DEF Intact, Step, Leave, ChangeStatus, Acquire, Timeout,
           ReadAndChange, Truncate, Write, Fail, Release, Kill, ReadStatus, UseStatus, Reset
      <4>2. S = Status /\ S' = Status'
        BY <3>2, <4>1
      <4>3. harm' = harm \/ harm' = harm \cup {"death"}
        BY <2>2, <3>2 DEF Step, Leave, ChangeStatus, Acquire, Timeout,
           ReadAndChange, Truncate, Write, Fail, Release, Kill, ReadStatus, UseStatus, Reset
      <4>4. CASE Truncate(p) /\ Status' = copy[p]
        <5>1. copy[p] \in Changed(Status)
          BY <4>1, <4>4 DEF Truncate, Goto, IInv, Fresh, Intact
        <5>q. Status' \in Changed(Status)
          BY <4>4, <5>1
        <5>2. PICK l \in Labs, v \in Values \cup {NoEntry} :
                Status' = [Status EXCEPT ![l] = v]
          BY <5>q DEF Changed
        <5>3. S' = [S EXCEPT ![l] = v]
          BY <4>2, <5>2
        <5>4. UNCHANGED harm
          BY <4>4 DEF Truncate
        <5>5. UNCHANGED (harm # {})
          BY <5>4
        <5>6. Atomic!Update(l, v)
          BY <5>3, <5>5 DEF Atomic!Update
        <5>. QED
          BY <5>6 DEF Atomic!Next
      <4>5. CASE Status' = Status
        <5>1. S' = S
          BY <4>2, <4>5
        <5>2. CASE harm' = harm
          BY <5>1, <5>2
        <5>3. CASE harm' = harm \cup {"death"}
          <6>1. (harm # {})' = TRUE
            BY <5>3
          <6>2. Atomic!Lose
            BY <5>1, <6>1 DEF Atomic!Lose
          <6>. QED
            BY <6>2 DEF Atomic!Next
        <5>. QED
          BY <4>3, <5>2, <5>3
      <4>6. CASE "death" \in harm' /\ Status' = NoStatus
        <5>1. (harm # {})' = TRUE /\ S' = NoStatus
          BY <4>2, <4>6
        <5>2. Atomic!Lose
          BY <5>1 DEF Atomic!Lose, NoStatus, Atomic!NoStatus
        <5>. QED
          BY <5>2 DEF Atomic!Next
      <4>. QED
        BY <4>1, <4>4, <4>5, <4>6 DEF Effect
    <3>. QED
      BY <3>1, <3>2
  <2>. QED
    BY <2>1, <2>2 DEF Next, Step
<1>. QED
  BY <1>1, <1>2, Invariance, PTL DEF Spec, ImplementsAtomicStatus, Atomic!Spec

-----------------------------------------------------------------------------
(* The process of the API server                                            *)

Locked == {"resolve", "enter", "redirect", "transform", "check", "write", "unwind", "restore"}

InDir == {"redirect", "transform", "check", "write", "unwind"}

Redirected == {"transform", "check", "write", "unwind"}

\* The job between taking RUN_LOCK and giving it up is the one that holds it.
HeldOnce == \A j \in Jobs : doing[j] \in Locked <=> runLock = j

\* What the holder of RUN_LOCK has changed, and what it will restore.
Place ==
  \A j \in Jobs :
    /\ doing[j] \in {"resolve", "enter"} => cwd = Home
    /\ doing[j] = "enter" => rundir[j] = Wanted(j)
    /\ doing[j] \in InDir => cwd = Wanted(j)
    /\ doing[j] \in InDir \cup {"restore"} => prev[j] = Home
    /\ doing[j] \in Locked \ Redirected => stdout = Server
    /\ doing[j] \in Redirected => stdout = j /\ old[j] = Server

\* A bad topology never gets past the check of the error log.
Checked ==
  \A j \in Bad : /\ doing[j] = "check" => j \in errors
                 /\ doing[j] # "write"

\* No request is being served.
Quiet == \A c \in Clients : doing[c] = "idle"

ApiInv ==
  /\ ApiTypeOK /\ HeldOnce
  /\ ~asked => Place /\ Checked /\ Restored /\ Quiet

\* A job asks for a directory.
LEMMA WantedType == \A j \in Jobs : Wanted(j) \in Dirs
  BY DEF Wanted, Dirs

\* The directory a job runs in is a directory.
LEMMA WorkspaceType ==
  ASSUME ApiTypeOK, NEW j \in Jobs
  PROVE  WorkspaceDir(j) \in Dirs
  BY DEF WorkspaceDir, Dirs, ApiTypeOK

JobAction(j) == StartJob(j) \/ Cancel(j) \/ Run(j)

\* A thread that goes on has a place in the program.
LEMMA GotoType ==
  ASSUME ApiTypeOK, NEW t \in Threads, NEW from, NEW to \in Activities, Proceed(t, from, to)
  PROVE  doing' \in [Threads -> Activities]
  BY DEF ApiTypeOK, Proceed

\* Steps of the jobs keep the types.
LEMMA JobTypes ==
  ASSUME ApiTypeOK, NEW j \in Jobs, JobAction(j)
  PROVE  ApiTypeOK'
<1> USE DEF record, place, output, work
<1>t. j \in Threads
  BY DEF Threads
<1>w. WorkspaceDir(j) \in Dirs /\ Home \in Dirs
  BY WorkspaceType DEF Dirs
<1>1. CASE StartJob(j)
  <2>1. doing' \in [Threads -> Activities]
    BY <1>1, <1>t, GotoType DEF StartJob, Activities
  <2>. QED
    BY <1>1, <1>t, <1>w, <2>1 DEF StartJob, ApiTypeOK, States
<1>2. CASE Cancel(j)
  BY <1>2 DEF Cancel, ApiTypeOK, States
<1>3. CASE Begin(j)
  <2>1. doing' \in [Threads -> Activities]
    BY <1>3, <1>t, GotoType DEF Begin, Activities
  <2>. QED
    BY <1>3, <1>t, <1>w, <2>1 DEF Begin, ApiTypeOK, States
<1>4. CASE Settle(j)
  <2>1. doing' \in [Threads -> Activities]
    BY <1>4, <1>t, GotoType DEF Settle, Activities
  <2>. QED
    BY <1>4, <1>t, <1>w, <2>1 DEF Settle, ApiTypeOK, States
<1>5. CASE ReportWorkdir(j)
  <2>1. doing' \in [Threads -> Activities]
    BY <1>5, <1>t, GotoType DEF ReportWorkdir, Activities
  <2>. QED
    BY <1>5, <1>t, <1>w, <2>1 DEF ReportWorkdir, ApiTypeOK, States
<1>6. CASE Resolve(j)
  <2>1. doing' \in [Threads -> Activities]
    BY <1>6, <1>t, GotoType DEF Resolve, Activities
  <2>. QED
    BY <1>6, <1>t, <1>w, <2>1 DEF Resolve, ApiTypeOK, States
<1>7. CASE TakeRunLock(j)
  <2>1. doing' \in [Threads -> Activities]
    BY <1>7, <1>t, GotoType DEF TakeRunLock, Activities
  <2>. QED
    BY <1>7, <1>t, <1>w, <2>1 DEF TakeRunLock, ApiTypeOK, States
<1>8. CASE EnterDir(j)
  <2>1. doing' \in [Threads -> Activities]
    BY <1>8, <1>t, GotoType DEF EnterDir, Activities
  <2>2. cwd \in Dirs /\ rundir[j] \in Dirs
    BY DEF ApiTypeOK
  <2>3. cwd' \in Dirs /\ result' \in [Jobs -> {"ok", "exception", "exit"}]
    BY <1>8, <2>2 DEF EnterDir, ApiTypeOK
  <2>. QED
    BY <1>8, <2>1, <2>2, <2>3 DEF EnterDir, ApiTypeOK
<1>9. CASE Redirect(j)
  <2>1. doing' \in [Threads -> Activities]
    BY <1>9, <1>t, GotoType DEF Redirect, Activities
  <2>. QED
    BY <1>9, <1>t, <1>w, <2>1 DEF Redirect, ApiTypeOK, States
<1>10. CASE Transform(j)
  <2>1. doing' \in [Threads -> Activities]
    BY <1>10, <1>t, GotoType DEF Transform, Activities
  <2>. QED
    BY <1>10, <2>1 DEF Transform, ApiTypeOK
<1>11. CASE CheckErrors(j)
  <2>1. doing' \in [Threads -> Activities]
    BY <1>11, <1>t, GotoType DEF CheckErrors, Activities
  <2>. QED
    BY <1>11, <2>1 DEF CheckErrors, ApiTypeOK
<1>12. CASE Work(j)
  <2>1. doing' \in [Threads -> Activities]
    BY <1>12, <1>t, GotoType DEF Work, Activities
  <2>. QED
    BY <1>12, <2>1 DEF Work, ApiTypeOK
<1>13. CASE Unwind(j)
  <2>1. doing' \in [Threads -> Activities]
    BY <1>13, <1>t, GotoType DEF Unwind, Activities
  <2>. QED
    BY <1>13, <1>t, <1>w, <2>1 DEF Unwind, ApiTypeOK, States
<1>14. CASE Restore(j)
  <2>1. doing' \in [Threads -> Activities]
    BY <1>14, <1>t, GotoType DEF Restore, Activities
  <2>. QED
    BY <1>14, <1>t, <1>w, <2>1 DEF Restore, ApiTypeOK, States
<1>. QED
  BY <1>1, <1>2, <1>3, <1>4, <1>5, <1>6, <1>7, <1>8, <1>9, <1>10, <1>11, <1>12, <1>13, <1>14 DEF JobAction, Run

\* Requests of the clients keep the types.
LEMMA RequestTypes ==
  ASSUME ApiTypeOK, NEW c \in Clients, Request(c)
  PROVE  ApiTypeOK'
<1> USE DEF record, place, output, work
<1>t. c \in Threads
  BY DEF Threads
<1>1. doing' \in [Threads -> Activities]
  BY <1>t, GotoType DEF Request, Get, GetRedirect, GetShow, GetRestore, Activities
<1>2. CASE Get(c)
  BY <1>1, <1>2 DEF Get, ApiTypeOK
<1>3. CASE GetRedirect(c)
  BY <1>t, <1>1, <1>3 DEF GetRedirect, ApiTypeOK
<1>4. CASE GetShow(c)
  BY <1>t, <1>1, <1>4 DEF GetShow, ApiTypeOK, Dirs
<1>5. CASE GetRestore(c)
  BY <1>t, <1>1, <1>5 DEF GetRestore, ApiTypeOK
<1>. QED
  BY <1>2, <1>3, <1>4, <1>5 DEF Request

\* Every step keeps the types.
LEMMA ApiTypeStep ==
  ASSUME ApiTypeOK, [ApiNext]_apiVars
  PROVE  ApiTypeOK'
<1>1. CASE UNCHANGED apiVars
  BY <1>1 DEF apiVars, ApiTypeOK
<1>2. CASE ApiNext
  BY <1>2, JobTypes, RequestTypes DEF ApiNext, JobAction
<1>. QED
  BY <1>1, <1>2

\* The variables have their types in the beginning.
LEMMA ApiInitType == ApiInit => ApiTypeOK
  BY DEF ApiInit, ApiTypeOK, Threads, States, Activities, Dirs

\* All variables keep their types, with any mix of jobs and requests.
THEOREM ApiTypeCorrect == ApiSpec => []ApiTypeOK
  BY ApiInitType, ApiTypeStep, PTL DEF ApiSpec

-----------------------------------------------------------------------------
(* The steps of a job *)

\* Steps of a job keep the invariant.
LEMMA JobStep ==
  ASSUME ApiInv, NEW j \in Jobs, JobAction(j)
  PROVE  HeldOnce' /\ (~asked' => Place' /\ Checked' /\ Restored' /\ Quiet')
<1> USE DEF ApiInv, ApiTypeOK, Proceed, record, place, output, work, Threads, Locked, InDir, Redirected
<1>threads. Jobs \subseteq Threads /\ Server \notin Threads /\ Unlocked \notin Jobs
  BY ApiAssumption
<1>q. asked' = asked /\ (Quiet => Quiet')
  BY ApiAssumption DEF Quiet, JobAction, Run, StartJob, Cancel, Begin, ReportWorkdir, TakeRunLock, Resolve,
     EnterDir, Redirect, Transform, CheckErrors, Work, Unwind, Restore, Settle
<1>m. HeldOnce'
  BY <1>threads DEF HeldOnce, JobAction, Run, StartJob, Cancel, Begin, ReportWorkdir, TakeRunLock,
     Resolve, EnterDir, Redirect, Transform, CheckErrors, Work, Unwind, Restore, Settle
<1> SUFFICES ASSUME ~asked PROVE Place' /\ Checked' /\ Restored'
  BY <1>q, <1>m
<1>1. ASSUME StartJob(j) \/ Begin(j) \/ ReportWorkdir(j) \/ Settle(j)
      PROVE  /\ doing[j] \notin Locked /\ doing'[j] \notin Locked
             /\ \A i \in Jobs : i # j => doing'[i] = doing[i]
             /\ UNCHANGED <<place, output, errors, asked>>
  <2>1. CASE StartJob(j)
    BY <1>threads, <2>1 DEF StartJob
  <2>2. CASE Begin(j)
    BY <1>threads, <2>2 DEF Begin
  <2>3. CASE ReportWorkdir(j)
    BY <1>threads, <2>3 DEF ReportWorkdir
  <2>4. CASE Settle(j)
    BY <1>threads, <2>4 DEF Settle
  <2>. QED
    BY <1>1, <2>1, <2>2, <2>3, <2>4
<1>12. CASE Cancel(j)
  BY <1>12 DEF Cancel, HeldOnce, Place, Checked, Restored
<1>2. CASE StartJob(j) \/ Begin(j) \/ ReportWorkdir(j) \/ Settle(j)
  BY <1>1, <1>2, ApiAssumption DEF HeldOnce, Place, Checked, Restored
<1>3. CASE TakeRunLock(j)
  BY <1>3, <1>threads, ApiAssumption DEF TakeRunLock, HeldOnce, Place, Checked, Restored
<1>4. CASE Resolve(j)
  <2>1. WorkspaceDir(j) = Wanted(j)
    BY <1>4 DEF Resolve, Place, WorkspaceDir, Wanted
  <2>. QED
    BY <1>4, <2>1, ApiAssumption DEF Resolve, HeldOnce, Place, Checked, Restored
<1>5. CASE EnterDir(j)
  BY <1>5, <1>threads, ApiAssumption DEF EnterDir, HeldOnce, Place, Checked, Restored
<1>6. CASE Redirect(j)
  BY <1>6, <1>threads, ApiAssumption DEF Redirect, HeldOnce, Place, Checked, Restored
<1>7. CASE Transform(j)
  BY <1>7, <1>threads, ApiAssumption DEF Transform, HeldOnce, Place, Checked, Restored
<1>8. CASE CheckErrors(j)
  BY <1>8, <1>threads, ApiAssumption DEF CheckErrors, HeldOnce, Place, Checked, Restored
<1>9. CASE Work(j)
  <2>1. Place' /\ Restored'
    BY <1>9, <1>threads DEF Work, HeldOnce, Place, Restored
  <2>2. Checked'
    BY <1>9, ApiAssumption DEF Work, Checked
  <2>. QED
    BY <2>1, <2>2
<1>10. CASE Unwind(j)
  BY <1>10, <1>threads, ApiAssumption DEF Unwind, HeldOnce, Place, Checked, Restored
<1>11. CASE Restore(j)
  BY <1>11, <1>threads, ApiAssumption DEF Restore, HeldOnce, Place, Checked, Restored
<1>. QED
  BY <1>2, <1>3, <1>4, <1>5, <1>6, <1>7, <1>8, <1>9, <1>10, <1>11, <1>12 DEF JobAction, Run

\* A request never touches RUN_LOCK, and the first one ends the promise.
LEMMA RequestStep ==
  ASSUME ApiInv, NEW c \in Clients, Request(c)
  PROVE  HeldOnce' /\ asked'
<1> USE DEF ApiInv, ApiTypeOK, Proceed, record, place, output, work, Threads
<1>1. runLock' = runLock /\ \A j \in Jobs : doing'[j] = doing[j]
  BY ApiAssumption DEF Request, Get, GetRedirect, GetShow, GetRestore
<1>2. CASE Get(c)
  BY <1>1, <1>2 DEF Get, HeldOnce
<1>3. CASE GetRedirect(c) \/ GetShow(c) \/ GetRestore(c)
  BY <1>1, <1>3 DEF GetRedirect, GetShow, GetRestore, HeldOnce, Quiet
<1>. QED
  BY <1>2, <1>3 DEF Request

\* The inductive invariant holds at all times.
THEOREM ApiInvariance == ApiSpec => []ApiInv
<1>1. ApiInit => ApiInv
  <2> SUFFICES ASSUME ApiInit PROVE ApiInv
    OBVIOUS
  <2>1. /\ \A t \in Threads : doing[t] = "idle"
        /\ \A j \in Jobs : j # Unlocked
    BY ApiAssumption DEF ApiInit
  <2>2. HeldOnce /\ Place /\ Checked /\ Quiet
    BY <2>1, ApiAssumption DEF ApiInit, HeldOnce, Place, Checked, Quiet, Locked, InDir, Redirected, Threads
  <2>3. Restored
    BY DEF ApiInit, Restored
  <2>. QED
    BY <2>2, <2>3, ApiInitType DEF ApiInv
<1>2. ApiInv /\ [ApiNext]_apiVars => ApiInv'
  <2> SUFFICES ASSUME ApiInv, [ApiNext]_apiVars PROVE ApiInv'
    OBVIOUS
  <2>1. ApiTypeOK'
    BY ApiTypeStep DEF ApiInv
  <2>2. CASE UNCHANGED apiVars
    BY <2>1, <2>2 DEF apiVars, ApiInv, HeldOnce, Place, Checked, Restored, Quiet
  <2>3. ASSUME NEW j \in Jobs, JobAction(j) PROVE ApiInv'
    BY <2>1, <2>3, JobStep DEF ApiInv
  <2>4. ASSUME NEW c \in Clients, Request(c) PROVE ApiInv'
    BY <2>1, <2>4, RequestStep DEF ApiInv
  <2>. QED
    BY <2>2, <2>3, <2>4 DEF ApiNext, JobAction
<1>. QED
  BY <1>1, <1>2, PTL DEF ApiSpec

\* Until a GET request is served every job works in its own directory, prints to
\* its own buffer and stops at the errors of its topology, and the process is as
\* before when no command runs.
THEOREM JobsAreIsolated ==
  ApiSpec => [](WorksInPlace /\ PrintsToItself /\ Restored)
<1>1. ApiInv => WorksInPlace /\ PrintsToItself /\ Restored
  BY DEF ApiInv, Place, Checked, WorksInPlace, PrintsToItself, Restored, InDir, Redirected
<1>. QED
  BY <1>1, ApiInvariance, PTL

-----------------------------------------------------------------------------
(* Final states, with GET requests too *)

\* The state of a job is what its thread last made of it, or "canceled" as long
\* as the thread has not begun.
Recorded ==
  \A j \in Jobs :
    /\ doing[j] = "idle" => state[j] = ""
    /\ doing[j] = "start" => state[j] \in {"queued", "canceled"}
    /\ doing[j] \notin {"idle", "start", "end"} => state[j] = "running"

\* What a step does to the record of a job that has an end already.
Stays == \A j \in Jobs : state[j] \in Final => state'[j] = state[j]

\* Steps of a job record what they have done.
LEMMA StepRecords ==
  ASSUME ApiTypeOK, Recorded, NEW j \in Jobs, JobAction(j)
  PROVE  Recorded' /\ Stays
<1> USE DEF Recorded, Stays, Final, ApiTypeOK, Proceed, Threads
<1>1. CASE StartJob(j)
  BY <1>1 DEF StartJob
<1>2. CASE Cancel(j)
  BY <1>2 DEF Cancel
<1>3. CASE Begin(j)
  BY <1>3 DEF Begin
<1>4. CASE Settle(j)
  BY <1>4 DEF Settle
<1>5. ASSUME Run(j), ~Begin(j), ~Settle(j) PROVE Recorded' /\ Stays
  <2>1. state' = state
    BY <1>5 DEF Run, ReportWorkdir, TakeRunLock, Resolve, EnterDir, Redirect, Transform, CheckErrors,
       Work, Unwind, Restore, record
  <2>2. PICK to \in Activities \ {"idle", "start", "end"} :
          doing[j] \notin {"idle", "start", "end"} /\ doing' = [doing EXCEPT ![j] = to]
    BY <1>5 DEF Run, ReportWorkdir, TakeRunLock, Resolve, EnterDir, Redirect, Transform, CheckErrors,
       Work, Unwind, Restore, Activities
  <2>. QED
    BY <2>1, <2>2
<1>. QED
  BY <1>1, <1>2, <1>3, <1>4, <1>5 DEF JobAction, Run

\* Requests leave the records alone.
LEMMA RequestRecords ==
  ASSUME ApiTypeOK, Recorded, NEW c \in Clients, Request(c)
  PROVE  Recorded' /\ Stays
<1>1. state' = state
  BY DEF Request, Get, GetRedirect, GetShow, GetRestore, record
<1>2. \A j \in Jobs : doing'[j] = doing[j]
  BY ApiAssumption DEF Request, Get, GetRedirect, GetShow, GetRestore, Proceed, ApiTypeOK, Threads
<1>. QED
  BY <1>1, <1>2 DEF Recorded, Stays

\* A job that was canceled or came to an end stays so.
THEOREM CanceledStays == ApiSpec => FinalStays
<1>1. ApiInit => Recorded
  BY DEF ApiInit, Recorded, Threads
<1>2. ApiTypeOK /\ Recorded /\ [ApiNext]_apiVars => Recorded' /\ Stays
  <2> SUFFICES ASSUME ApiTypeOK, Recorded, [ApiNext]_apiVars PROVE Recorded' /\ Stays
    OBVIOUS
  <2>1. CASE UNCHANGED apiVars
    BY <2>1 DEF apiVars, Recorded, Stays
  <2>2. CASE ApiNext
    BY <2>2, StepRecords, RequestRecords DEF ApiNext, JobAction
  <2>. QED
    BY <2>1, <2>2
<1>. QED
  BY <1>1, <1>2, ApiTypeCorrect, PTL DEF ApiSpec, FinalStays, Stays
=============================================================================
