---------------------------- MODULE LabRegistry ----------------------------
(***************************************************************************)
(* What netlab promises about lab instances (docs/netlab/up.md, "Conflict  *)
(* Resolution"): a lab instance belongs to at most one directory, only the *)
(* owning directory may run its workload, and the instance is given up     *)
(* only when nothing of it runs any more.  LabLifecycle implements this    *)
(* specification when the commands of one instance do not overlap.         *)
(***************************************************************************)
CONSTANTS
  Labs,     \* lab instance identifiers (defaults.multilab.id)
  Dirs,     \* directories from which netlab commands are started
  LabOf,    \* the lab instance of the topology kept in a directory
  NoDir     \* "no directory": the instance is not in the status file

VARIABLES
  owner,    \* the directory registered for every lab instance
  running   \* the directories with provider workloads

vars == <<owner, running>>

Init ==
  /\ owner = [l \in Labs |-> NoDir]
  /\ running = {}

\* A free instance becomes the property of one directory.
Claim(d) ==
  /\ owner[LabOf[d]] = NoDir
  /\ owner' = [owner EXCEPT ![LabOf[d]] = d]
  /\ UNCHANGED running

\* Workloads start only in the directory that owns the instance.
Start(d) ==
  /\ owner[LabOf[d]] = d
  /\ running' = running \cup {d}
  /\ UNCHANGED owner

Stop(d) ==
  /\ running' = running \ {d}
  /\ UNCHANGED owner

\* An instance is released only after the workload of its owner is gone.
Release(l) ==
  /\ owner[l] \notin running
  /\ owner' = [owner EXCEPT ![l] = NoDir]
  /\ UNCHANGED running

Next ==
  \/ \E d \in Dirs : Claim(d) \/ Start(d) \/ Stop(d)
  \/ \E l \in Labs : Release(l)

Spec == Init /\ [][Next]_vars
=============================================================================
