---------------------------- MODULE LabLifecycle ----------------------------
(***************************************************************************)
(* The lifecycle of a lab: 'netlab create', 'netlab up' (also --snapshot   *)
(* and --dry-run), 'netlab down' and 'netlab restart', run by several      *)
(* processes in several directories.                                       *)
(*                                                                         *)
(* The commands coordinate through three things that outlive them: the     *)
(* netlab.lock file of a directory, the entry of the lab instance in the   *)
(* status file of the user, and the files netlab create leaves in the      *)
(* directory.  None of them is held over a whole command: each step below  *)
(* is one access to one of them, and other processes run in between.       *)
(*                                                                         *)
(* A status update is one atomic step here; module StatusFile justifies    *)
(* that, and shows that a read without the lock may find the file empty    *)
(* (TornReads).  A status update that fails, any fatal error and a killed  *)
(* process all end the command where it is: that is action Exit.           *)
(***************************************************************************)
EXTENDS Naturals, FiniteSets

CONSTANTS
  Procs,      \* shells in which users run netlab commands
  Dirs,       \* lab directories
  DirOf,      \* the directory every shell works in
  Labs,       \* lab instance identifiers
  LabOf,      \* the lab instance of the topology in a directory
  NoDir,      \* owner of an instance missing from the status file
  Providers,  \* the providers of a topology
  Primary,    \* the primary one: started first, stopped last
  Commands,   \* the command lines users enter
  DirRaces,   \* sets of kinds that may overlap in one directory
  LabRaces,   \* sets of kinds that may overlap on one lab instance
  TornReads   \* unlocked reads of the status file may hit an update

Kinds == {"create", "up", "down", "restart"}

CommandType ==
  [kind : Kinds, snapshot : BOOLEAN, cleanup : BOOLEAN, force : 0..2,
   dry : BOOLEAN, unlock : BOOLEAN]

NoCommand == [kind |-> "create", snapshot |-> FALSE, cleanup |-> FALSE,
              force |-> 0, dry |-> FALSE, unlock |-> FALSE]

ASSUME LifecycleAssumption ==
  /\ DirOf \in [Procs -> Dirs]
  /\ LabOf \in [Dirs -> Labs]
  /\ NoDir \notin Dirs
  /\ Primary \in Providers
  /\ Commands \subseteq CommandType
  /\ DirRaces \subseteq SUBSET Kinds
  /\ LabRaces \subseteq SUBSET Kinds
  /\ TornReads \in BOOLEAN

VARIABLES
  pc,        \* what a process does next; "idle" between two commands
  cmd,       \* the command it runs
  todo,      \* providers it has still to start or stop
  mismatch,  \* netlab down: the instance is registered elsewhere
  lock,      \* directories with a netlab.lock file
  owner,     \* status file: the directory of every lab instance
  phase,     \* status file: the status of every lab instance
  files,     \* what netlab create left in a directory
  workload   \* providers with running VMs or containers, per directory

proc == <<pc, cmd, todo, mismatch>>
vars == <<pc, cmd, todo, mismatch, lock, owner, phase, files, workload>>

Files == {"provider", "snapshot"}

Phases == {"", "conflict", "starting", "restarting", "provider", "workload",
           "configuring", "started", "shutdown", "stopping"}

CreatePCs == {"provider_check", "provider_write", "pickle_check", "pickle_write"}

UpPCs == CreatePCs \cup
  {"check", "snapshot", "instance", "probes", "start", "lock", "provider",
   "launch", "launched", "configure", "started", "touch_check", "touch"}

DownPCs == {"load", "mismatch", "request", "down_probes", "stopping", "stop",
            "stopped", "cleanup_files", "cleanup_snapshot", "remove", "unlock"}

PCs == UpPCs \cup DownPCs \cup {"idle", "unlock_create", "failed"}

-----------------------------------------------------------------------------
(* Helpers *)

dir(p) == DirOf[p]

lab(p) == LabOf[dir(p)]

Dry(p) == cmd[p].dry

\* The process moves on; nothing of a command survives its end.
GotoWith(p, from, to, T, m) ==
  LET done == to = "idle" IN
  /\ pc[p] = from
  /\ pc' = [pc EXCEPT ![p] = to]
  /\ cmd' = [cmd EXCEPT ![p] = IF done THEN NoCommand ELSE @]
  /\ todo' = [todo EXCEPT ![p] = IF done THEN {} ELSE T]
  /\ mismatch' = [mismatch EXCEPT ![p] = IF done THEN FALSE ELSE m]

Goto(p, from, to) == GotoWith(p, from, to, todo[p], mismatch[p])

\* A bug: the last writer takes over the lab entry.
TouchedLastWriter(l, d) == [owner EXCEPT ![l] = d]

\* A lab entry is created for the current directory when it is missing.
Touched(l, d) == [owner EXCEPT ![l] = IF @ = NoDir THEN d ELSE @]

\* lab_status_log and log_command: a log line in the lab entry.
LogStatus(p) ==
  IF Dry(p) THEN UNCHANGED <<owner, phase>>
  ELSE /\ owner' = Touched(lab(p), dir(p))
       /\ UNCHANGED phase

\* lab_status_change: a new status in the lab entry.
SetStatus(p, s) ==
  IF Dry(p) THEN UNCHANGED <<owner, phase>>
  ELSE /\ owner' = Touched(lab(p), dir(p))
       /\ phase' = [phase EXCEPT ![lab(p)] = s]

\* read_status: no lock is taken, so the file may be empty.
SeenOwners(p) == {owner[lab(p)]} \cup {o \in {NoDir} : TornReads}

\* Start order: the primary provider, then the others.
NextUp(S) == IF Primary \in S THEN {Primary} ELSE S

\* Stop order: the secondary providers, then the primary one.
NextDown(S) == IF S \ {Primary} # {} THEN S \ {Primary} ELSE S

\* What follows get_topology: a dry run does not check the lab instance.
AfterTopology(p) == IF Dry(p) THEN "probes" ELSE "instance"

\* What follows the shutdown part of a command: netlab restart goes on.
AfterDown(p) == IF cmd[p].kind = "restart" THEN "check" ELSE "idle"

AfterStop(p) == IF cmd[p].cleanup THEN "cleanup_files" ELSE "remove"

-----------------------------------------------------------------------------
Init ==
  /\ pc = [p \in Procs |-> "idle"]
  /\ cmd = [p \in Procs |-> NoCommand]
  /\ todo = [p \in Procs |-> {}]
  /\ mismatch = [p \in Procs |-> FALSE]
  /\ lock = {}
  /\ owner = [l \in Labs |-> NoDir]
  /\ phase = [l \in Labs |-> ""]
  /\ files = [d \in Dirs |-> {}]
  /\ workload = [d \in Dirs |-> {}]

(* A user enters command c.  Commands overlap on a directory or an instance  *)
(* only where DirRaces and LabRaces say so.                                  *)
MayOverlap(p, c) ==
  \A q \in Procs \ {p} : pc[q] # "idle" /\ lab(q) = lab(p) =>
    {cmd[q].kind, c.kind} \in IF dir(q) = dir(p) THEN DirRaces ELSE LabRaces

FirstPC(c) ==
  CASE c.kind = "create" -> IF c.unlock THEN "unlock_create" ELSE "provider_check"
    [] c.kind = "up"     -> IF c.snapshot THEN "snapshot" 
                            ELSE IF c.dry THEN "provider_check" ELSE "check"
    [] OTHER             -> "load"

Enter(p, c) ==
  /\ pc[p] = "idle"
  /\ MayOverlap(p, c)
  /\ pc' = [pc EXCEPT ![p] = FirstPC(c)]
  /\ cmd' = [cmd EXCEPT ![p] = c]
  /\ UNCHANGED <<todo, mismatch>>
  /\ UNCHANGED <<lock, owner, phase, files, workload>>

\* A fatal error, a failed status update or a killed process.
Exit(p) ==
  /\ pc[p] # "idle"
  /\ Goto(p, pc[p], "idle")
  /\ UNCHANGED <<lock, owner, phase, files, workload>>

\* Ctrl-C during 'netlab up' logs the interrupt in the status file.
Interrupt(p) ==
  /\ cmd[p].kind \in {"up", "restart"}
  /\ pc[p] \in UpPCs \ {"check", "snapshot"}
  /\ Goto(p, pc[p], "idle")
  /\ LogStatus(p)
  /\ UNCHANGED <<lock, files, workload>>

\* The log line of a command that failed, written on the way out.
LogFailure(p) ==
  /\ Goto(p, "failed", "idle")
  /\ LogStatus(p)
  /\ UNCHANGED <<lock, files, workload>>

-----------------------------------------------------------------------------
(* netlab create *)

\* create --unlock removes the lock, then notes that in the status file.
CreateUnlock(p) ==
  /\ Goto(p, "unlock_create", "provider_check")
  /\ lock' = lock \ {dir(p)}
  /\ IF dir(p) \in lock THEN LogStatus(p) ELSE UNCHANGED <<owner, phase>>
  /\ UNCHANGED <<files, workload>>

\* check_writeable, before every output module writes.
CheckWriteable(p) ==
  /\ \/ Goto(p, "provider_check", IF dir(p) \in lock THEN "idle" ELSE "provider_write")
     \/ Goto(p, "pickle_check", IF dir(p) \in lock THEN "idle" ELSE "pickle_write")
  /\ UNCHANGED <<lock, owner, phase, files, workload>>

WriteProviderFiles(p) ==
  /\ Goto(p, "provider_write", "pickle_check")
  /\ files' = [files EXCEPT ![dir(p)] = @ \cup {"provider"}]
  /\ UNCHANGED <<lock, owner, phase, workload>>

WritePickle(p) ==
  /\ Goto(p, "pickle_write", IF cmd[p].kind = "create" THEN "idle" ELSE AfterTopology(p))
  /\ files' = [files EXCEPT ![dir(p)] = @ \cup {"snapshot"}]
  /\ UNCHANGED <<lock, owner, phase, workload>>

-----------------------------------------------------------------------------
(* netlab up *)

CheckExistingLab(p) ==
  /\ Goto(p, "check", IF dir(p) \in lock THEN "idle" ELSE "provider_check")
  /\ UNCHANGED <<lock, owner, phase, files, workload>>

UpSnapshot(p) ==
  /\ Goto(p, "snapshot", IF "snapshot" \in files[dir(p)] THEN AfterTopology(p) ELSE "idle")
  /\ UNCHANGED <<lock, owner, phase, files, workload>>

\* The status file is read here without its lock, and written much later.
CheckLabInstance(p) ==
  /\ \E o \in SeenOwners(p) :
       Goto(p, "instance", IF o \in {NoDir, dir(p)} THEN "probes" ELSE "idle")
  /\ UNCHANGED <<lock, owner, phase, files, workload>>

\* Every probe command is logged in the lab entry, a failed one too.
ProviderProbes(p) ==
  /\ Goto(p, "probes", "start") \/ (~Dry(p) /\ Goto(p, "probes", "idle"))
  /\ LogStatus(p)
  /\ UNCHANGED <<lock, files, workload>>

\* A bug: the claim relies on the earlier, unlocked check_lab_instance.
StatusStartUnchecked(p) ==
  /\ Goto(p, "start", IF Dry(p) THEN "idle" ELSE "lock")
  /\ SetStatus(p, IF owner[lab(p)] = NoDir THEN "starting" ELSE "restarting")
  /\ UNCHANGED <<lock, files, workload>>

\* lab_status_start: claim the instance, or report the conflict and give up.
\* The rest of a dry run only prints commands.
StatusStartLab(p) ==
  /\ \/ /\ owner[lab(p)] \notin {NoDir, dir(p)}
        /\ Goto(p, "start", "idle")
        /\ SetStatus(p, "conflict")
     \/ /\ owner[lab(p)] \in {NoDir, dir(p)}
        /\ Goto(p, "start", IF Dry(p) THEN "idle" ELSE "lock")
        /\ SetStatus(p, IF owner[lab(p)] = NoDir THEN "starting" ELSE "restarting")
  /\ UNCHANGED <<lock, files, workload>>

LockDirectory(p) ==
  /\ GotoWith(p, "lock", "provider", Providers, FALSE)
  /\ lock' = lock \cup {dir(p)}
  /\ UNCHANGED <<owner, phase, files, workload>>

StatusStartProvider(p) ==
  /\ Goto(p, "provider", "launch")
  /\ SetStatus(p, "provider")
  /\ UNCHANGED <<lock, files, workload>>

\* The start command of a provider needs the provider configuration file; a
\* failed one may leave some of the workload behind.
StartProviderLab(p) ==
  /\ \E v \in NextUp(todo[p]), result \in {"launched", "failed"} :
       /\ GotoWith(p, "launch", result, todo[p] \ {v}, FALSE)
       /\ \/ /\ "provider" \in files[dir(p)]
             /\ workload' = [workload EXCEPT ![dir(p)] = @ \cup {v}]
          \/ /\ result = "failed"
             /\ UNCHANGED workload
  /\ UNCHANGED <<lock, owner, phase, files>>

\* A bug: netlab up forgets the secondary providers.
WorkloadStartedEarly(p) ==
  /\ Goto(p, "launched", "configure")
  /\ SetStatus(p, "workload")
  /\ UNCHANGED <<lock, files, workload>>

WorkloadStarted(p) ==
  /\ Goto(p, "launched", IF todo[p] = {} THEN "configure" ELSE "provider")
  /\ SetStatus(p, "workload")
  /\ UNCHANGED <<lock, files, workload>>

\* Initial configuration or reload, and external tools: status updates only.
DeployInitialConfig(p) ==
  /\ Goto(p, "configure", "started")
  /\ SetStatus(p, "configuring")
  /\ UNCHANGED <<lock, files, workload>>

LabStarted(p) ==
  /\ Goto(p, "started", "touch_check")
  /\ SetStatus(p, "started")
  /\ UNCHANGED <<lock, files, workload>>

\* The lock file is touched, and created again if it disappeared in between.
TouchLock(p) ==
  /\ \/ /\ Goto(p, "touch_check", IF dir(p) \in lock THEN "touch" ELSE "idle")
        /\ UNCHANGED lock
     \/ /\ Goto(p, "touch", "idle")
        /\ lock' = lock \cup {dir(p)}
  /\ UNCHANGED <<owner, phase, files, workload>>

-----------------------------------------------------------------------------
(* netlab down *)

LoadSnapshot(p) ==
  /\ Goto(p, "load", IF "snapshot" \in files[dir(p)] THEN "mismatch" ELSE "idle")
  /\ UNCHANGED <<lock, owner, phase, files, workload>>

\* The answer is used when the command ends.  On a mismatch the user confirms
\* or aborts; --force given twice does not ask.
LabDirMismatch(p) ==
  /\ \E o \in SeenOwners(p) :
       \/ GotoWith(p, "mismatch", "request", {}, o \notin {NoDir, dir(p)})
       \/ /\ o \notin {NoDir, dir(p)}
          /\ cmd[p].force < 2
          /\ Goto(p, "mismatch", "idle")
  /\ UNCHANGED <<lock, owner, phase, files, workload>>

ShutdownRequested(p) ==
  /\ Goto(p, "request", "down_probes")
  /\ SetStatus(p, "shutdown")
  /\ UNCHANGED <<lock, files, workload>>

\* After a failed probe the command returns, or with --force goes on without
\* stopping anything.
DownProbes(p) ==
  /\ \/ GotoWith(p, "down_probes", "stopping", Providers, mismatch[p])
     \/ /\ ~Dry(p)
        /\ Goto(p, "down_probes", IF cmd[p].force = 0 THEN AfterDown(p) ELSE AfterStop(p))
  /\ LogStatus(p)
  /\ UNCHANGED <<lock, files, workload>>

StoppingProvider(p) ==
  /\ Goto(p, "stopping", "stop")
  /\ SetStatus(p, "stopping")
  /\ UNCHANGED <<lock, files, workload>>

\* A bug: the result of the stop command is not checked.
StopUnchecked(p) ==
  /\ \E v \in NextDown(todo[p]), OK \in BOOLEAN :
       /\ GotoWith(p, "stop", "stopped", todo[p] \ {v}, mismatch[p])
       /\ workload' = IF Dry(p) \/ ~OK THEN workload
                      ELSE [workload EXCEPT ![dir(p)] = @ \ {v}]
  /\ UNCHANGED <<lock, owner, phase, files>>

\* With --force a failed stop command is as good as a successful one.
StopProviderLab(p) ==
  /\ \E v \in NextDown(todo[p]), OK \in BOOLEAN :
       /\ Dry(p) => OK
       /\ GotoWith(p, "stop", IF OK \/ cmd[p].force > 0 THEN "stopped" ELSE "failed",
                   todo[p] \ {v}, mismatch[p])
       /\ workload' = IF Dry(p) \/ ~OK THEN workload
                      ELSE [workload EXCEPT ![dir(p)] = @ \ {v}]
  /\ UNCHANGED <<lock, owner, phase, files>>

\* A bug: only the first provider in the stop order is stopped.
StoppedEarly(p) ==
  /\ Goto(p, "stopped", AfterStop(p))
  /\ LogStatus(p)
  /\ UNCHANGED <<lock, files, workload>>

ProviderStopped(p) ==
  /\ Goto(p, "stopped", IF todo[p] = {} THEN AfterStop(p) ELSE "stopping")
  /\ LogStatus(p)
  /\ UNCHANGED <<lock, files, workload>>

\* down --cleanup removes the snapshot last.
DownCleanup(p) ==
  /\ \E f \in Files :
       /\ Goto(p, IF f = "provider" THEN "cleanup_files" ELSE "cleanup_snapshot",
                  IF f = "provider" THEN "cleanup_snapshot" ELSE "remove")
       /\ files' = IF Dry(p) THEN files ELSE [files EXCEPT ![dir(p)] = @ \ {f}]
  /\ UNCHANGED <<lock, owner, phase, workload>>

\* remove_lab_status does not ask whether this is a dry run.
RemoveLabStatus(p) ==
  /\ Goto(p, "remove", "unlock")
  /\ \/ mismatch[p] /\ UNCHANGED <<owner, phase>>
     \/ /\ ~mismatch[p]
        /\ owner' = [owner EXCEPT ![lab(p)] = NoDir]
        /\ phase' = [phase EXCEPT ![lab(p)] = ""]
  /\ UNCHANGED <<lock, files, workload>>

UnlockDirectory(p) ==
  /\ Goto(p, "unlock", AfterDown(p))
  /\ lock' = IF Dry(p) THEN lock ELSE lock \ {dir(p)}
  /\ UNCHANGED <<owner, phase, files, workload>>

-----------------------------------------------------------------------------
CreateStep(p) ==
  CreateUnlock(p) \/ CheckWriteable(p) \/ WriteProviderFiles(p) \/ WritePickle(p)

UpStep(p) ==
  \/ CheckExistingLab(p) \/ UpSnapshot(p) \/ CheckLabInstance(p)
  \/ ProviderProbes(p) \/ StatusStartLab(p) \/ LockDirectory(p)
  \/ StatusStartProvider(p) \/ StartProviderLab(p) \/ WorkloadStarted(p)
  \/ DeployInitialConfig(p) \/ LabStarted(p) \/ TouchLock(p)

DownStep(p) ==
  \/ LoadSnapshot(p) \/ LabDirMismatch(p) \/ ShutdownRequested(p)
  \/ DownProbes(p) \/ StoppingProvider(p) \/ StopProviderLab(p)
  \/ ProviderStopped(p) \/ DownCleanup(p) \/ RemoveLabStatus(p)
  \/ UnlockDirectory(p)

Next ==
  \E p \in Procs :
    \/ \E c \in Commands : Enter(p, c)
    \/ Exit(p) \/ Interrupt(p) \/ LogFailure(p)
    \/ CreateStep(p) \/ UpStep(p) \/ DownStep(p)

Spec == Init /\ [][Next]_vars

-----------------------------------------------------------------------------
(* Properties *)

\* The types of the variables.
TypeOK ==
  /\ pc \in [Procs -> PCs]
  /\ cmd \in [Procs -> Commands \cup {NoCommand}]
  /\ todo \in [Procs -> SUBSET Providers]
  /\ mismatch \in [Procs -> BOOLEAN]
  /\ lock \subseteq Dirs
  /\ owner \in [Labs -> Dirs \cup {NoDir}]
  /\ phase \in [Labs -> Phases]
  /\ files \in [Dirs -> SUBSET Files]
  /\ workload \in [Dirs -> SUBSET Providers]

Running == {d \in Dirs : workload[d] # {}}

\* Normal use: no --force, no --unlock, no dry run but that of netlab up, and
\* only netlab up and netlab create overlap on an instance or a directory, and
\* no command reads the status file in the middle of an update.
SafeUse ==
  /\ ~TornReads
  /\ \A c \in Commands : c.force = 0 /\ ~c.unlock /\ (c.dry => c.kind = "up")
  /\ \A R \in DirRaces \cup LabRaces : R \subseteq {"up", "create"}

\* You cannot start two copies of a lab instance, in different directories
\* either: no two directories with the same instance run workloads.
OneInstance ==
  \A d, e \in Running : LabOf[d] = LabOf[e] => d = e

RunningIsRegistered ==
  \A d \in Running : owner[LabOf[d]] = d

RunningIsLocked ==
  Running \subseteq lock

RunningIsRecoverable ==
  \A d \in Running : files[d] = Files

\* Whatever runs is in the status file, under the directory it runs in: netlab
\* status shows it, and netlab up elsewhere sees the conflict.  Its directory
\* holds netlab.lock, so that netlab create refuses to touch the provider files
\* the lab was started from, and it can be shut down: the snapshot netlab down
\* needs and the provider files the stop command needs are still there.
RunningIsManaged ==
  RunningIsRegistered /\ RunningIsLocked /\ RunningIsRecoverable

\* netlab status says 'started' only of a lab with all its workloads up.
StartedIsComplete ==
  \A l \in Labs : phase[l] = "started" => 
    owner[l] # NoDir /\ workload[owner[l]] = Providers

\* When netlab down reaches its last step, removing the lock file, nothing of
\* the lab runs and the status file no longer names this directory.
DownLeavesNothing ==
  \A p \in Procs : pc[p] = "unlock" =>
    dir(p) \notin Running /\ owner[lab(p)] # dir(p)

\* The lifecycle keeps the promise of LabRegistry.
Registry == INSTANCE LabRegistry WITH running <- Running

ImplementsRegistry == Registry!Spec
=============================================================================
