----------------------------- MODULE StatusFile -----------------------------
(***************************************************************************)
(* The status file of a user (~/.netlab/status.yaml), shared by all netlab *)
(* processes: change_status reads, changes and rewrites the whole file     *)
(* under a file lock with a timeout; read_status takes no lock; 'netlab    *)
(* status --reset' removes the file without it.  Writing truncates the     *)
(* file first, so that it is empty until the new content is there.         *)
(***************************************************************************)
CONSTANTS
  Procs,      \* netlab processes of the user
  Labs,       \* lab instance identifiers
  Values,     \* what an entry may hold
  NoEntry,    \* the instance has no entry
  Nobody,     \* the lock is free
  Missing,    \* there is no status file
  Torn,       \* the status file is empty
  Error       \* the status file cannot be read

Statuses == [Labs -> Values \cup {NoEntry}]

NoStatus == [l \in Labs |-> NoEntry]

ASSUME StatusAssumption ==
  /\ NoEntry \notin Values
  /\ Nobody \notin Procs
  /\ {Missing, Torn, Error} \cap Statuses = {}
  /\ Torn # Missing

VARIABLES
  file,   \* the content of the file: a status, Torn or Missing
  lock,   \* the process that holds the file lock
  pc,     \* what a process does next
  copy,   \* change_status: the status to write
  seen,   \* read_status: the result
  harm    \* history: has a writer died, has the file been reset?

vars == <<file, lock, pc, copy, seen, harm>>

PCs == {"idle", "acquire", "read", "truncate", "write", "release", "use"}

Holding == {"read", "truncate", "write", "release"}

Init ==
  /\ file = Missing
  /\ lock = Nobody
  /\ pc = [p \in Procs |-> "idle"]
  /\ copy = [p \in Procs |-> NoStatus]
  /\ seen = [p \in Procs |-> NoStatus]
  /\ harm = {}

Goto(p, from, to) == pc[p] = from /\ pc' = [pc EXCEPT ![p] = to]

\* What the YAML library makes of the file: it refuses an empty document or
\* returns an empty dictionary.
Readings == CASE file = Missing -> {NoStatus}
              [] file = Torn    -> {NoStatus, Error}
              [] OTHER          -> {file}

\* A bug: an update starts from an empty status.
ChangedFresh(s) == {[NoStatus EXCEPT ![l] = v] : l \in Labs, v \in Values \cup {NoEntry}}

\* The callbacks of change_status set or remove one entry.
Changed(s) == {[s EXCEPT ![l] = v] : l \in Labs, v \in Values \cup {NoEntry}}

-----------------------------------------------------------------------------
(* change_status *)

ChangeStatus(p) ==
  /\ Goto(p, "idle", "acquire")
  /\ UNCHANGED <<file, lock, copy, seen, harm>>

\* A bug: nobody waits for the file lock.
AcquireNothing(p) ==
  /\ Goto(p, "acquire", "read")
  /\ lock' = p
  /\ UNCHANGED <<file, copy, seen, harm>>

Acquire(p) ==
  /\ lock = Nobody
  /\ Goto(p, "acquire", "read")
  /\ lock' = p
  /\ UNCHANGED <<file, copy, seen, harm>>

\* A bug: no timeout is given to the file lock.
TimeoutNever(p) == FALSE /\ UNCHANGED vars

\* Three seconds without the lock end the command with a fatal error.
Timeout(p) ==
  /\ lock # Nobody
  /\ Goto(p, "acquire", "idle")
  /\ UNCHANGED <<file, lock, copy, seen, harm>>

\* The file is read and the callback applied.  The command ends when the file
\* cannot be read, or is removed between the test and the read.
ReadAndChange(p) ==
  /\ \/ /\ \E s \in Readings \ {Error} :
             \E t \in Changed(s) : copy' = [copy EXCEPT ![p] = t]
        /\ Goto(p, "read", "truncate")
     \/ /\ Error \in Readings \/ "reset" \in harm
        /\ Goto(p, "read", "release")
        /\ UNCHANGED copy
  /\ UNCHANGED <<file, lock, seen, harm>>

\* The file is opened for writing.
Truncate(p) ==
  /\ Goto(p, "truncate", "write")
  /\ file' = Torn
  /\ UNCHANGED <<lock, copy, seen, harm>>

\* The content goes to the opened file, which may have lost its name.
Write(p) ==
  /\ Goto(p, "write", "release")
  /\ file' = IF file = Missing THEN Missing ELSE copy[p]
  /\ UNCHANGED <<lock, copy, seen, harm>>

\* An exception while the status is written.
Fail(p) ==
  /\ Goto(p, "truncate", "release") \/ Goto(p, "write", "release")
  /\ harm' = harm \cup {"death"}
  /\ UNCHANGED <<file, lock, copy, seen>>

Release(p) ==
  /\ Goto(p, "release", "idle")
  /\ lock' = Nobody
  /\ copy' = [copy EXCEPT ![p] = NoStatus]
  /\ UNCHANGED <<file, seen, harm>>

\* The operating system gives up the lock of a dead process.
Kill(p) ==
  /\ pc[p] # "idle"
  /\ pc' = [pc EXCEPT ![p] = "idle"]
  /\ lock' = IF lock = p THEN Nobody ELSE lock
  /\ copy' = [copy EXCEPT ![p] = NoStatus]
  /\ seen' = [seen EXCEPT ![p] = NoStatus]
  /\ harm' = harm \cup {"death"}
  /\ UNCHANGED file

-----------------------------------------------------------------------------
(* read_status, and netlab status --reset *)

ReadStatus(p) ==
  /\ Goto(p, "idle", "use")
  /\ \E s \in Readings : seen' = [seen EXCEPT ![p] = s]
  /\ UNCHANGED <<file, lock, copy, harm>>

UseStatus(p) ==
  /\ Goto(p, "use", "idle")
  /\ seen' = [seen EXCEPT ![p] = NoStatus]
  /\ UNCHANGED <<file, lock, copy, harm>>

Reset(p) ==
  /\ pc[p] = "idle"
  /\ file # Missing
  /\ file' = Missing
  /\ harm' = harm \cup {"reset"}
  /\ UNCHANGED <<lock, pc, copy, seen>>

-----------------------------------------------------------------------------
Leave(p) == Acquire(p) \/ Timeout(p)

Next ==
  \E p \in Procs :
    \/ ChangeStatus(p) \/ Leave(p) \/ ReadAndChange(p) \/ Truncate(p)
    \/ Write(p) \/ Fail(p) \/ Release(p) \/ Kill(p)
    \/ ReadStatus(p) \/ UseStatus(p) \/ Reset(p)

\* FileLock polls until it has the lock or its time is over.  Nothing is assumed
\* of the process that holds the lock.
Spec == Init /\ [][Next]_vars /\ \A p \in Procs : WF_vars(Leave(p))

-----------------------------------------------------------------------------
(* Properties *)

\* The types of the variables.
TypeOK ==
  /\ file \in Statuses \cup {Torn, Missing}
  /\ lock \in Procs \cup {Nobody}
  /\ pc \in [Procs -> PCs]
  /\ copy \in [Procs -> Statuses]
  /\ seen \in [Procs -> Statuses \cup {Error}]
  /\ harm \subseteq {"death", "reset"}

\* The process that is writing the file.
Writing(p) == lock = p /\ pc[p] = "write"

\* The status the file stands for: an update counts from the moment the old
\* content is gone.
Status ==
  IF file = Missing THEN NoStatus
  ELSE IF file # Torn THEN file
  ELSE IF \E p \in Procs : Writing(p) THEN copy[lock]
  ELSE NoStatus

\* Only one process works on the file, and what it is about to write is the
\* current status with one entry changed: no update of another lab gets lost,
\* whoever is killed where.  A reset is not safe in this sense.
NoLostUpdate ==
  \A p \in Procs :
    /\ pc[p] \in Holding => lock = p
    /\ pc[p] = "truncate" /\ "reset" \notin harm => copy[p] \in Changed(Status)

\* A process waiting for the lock does not wait for ever, even if the process
\* that holds it is stuck.
WaitersLeave ==
  \A p \in Procs : pc[p] = "acquire" ~> pc[p] # "acquire"

\* The file is an atomic status, lost as a whole at worst.  After a reset,
\* which takes no lock, no entry is promised any more.
Atomic ==
  INSTANCE AtomicStatus WITH
    status <- IF "reset" \in harm THEN NoStatus ELSE Status,
    lossy <- harm # {}

ImplementsAtomicStatus == Atomic!Spec
=============================================================================
