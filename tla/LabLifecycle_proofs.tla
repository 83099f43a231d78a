------------------------- MODULE LabLifecycle_proofs -------------------------
(***************************************************************************)
(* Safety of the lab lifecycle for any number of shells, directories,      *)
(* instances and providers.                                                *)
(*                                                                         *)
(* TypeOK is inductive on its own.  The other invariants need to know what *)
(* a command in the middle of its work has established: netlab up owns the *)
(* instance and the lock from lab_status_start on (UpInv), the answer of   *)
(* lab_dir_mismatch stays true until netlab down uses it (DownOwner), what *)
(* netlab down has still to stop covers what runs (DownWorkload).  All of  *)
(* it rests on netlab down being alone on its instance (Alone).            *)
(***************************************************************************)
EXTENDS LabLifecycle, TLAPS

\* The three parts of TypeOK: control state, status file, directories.
ControlOK ==
  /\ pc \in [Procs -> PCs]
  /\ cmd \in [Procs -> Commands \cup {NoCommand}]
  /\ todo \in [Procs -> SUBSET Providers]
  /\ mismatch \in [Procs -> BOOLEAN]

StatusOK ==
  /\ owner \in [Labs -> Dirs \cup {NoDir}]
  /\ phase \in [Labs -> Phases]

SharedOK ==
  /\ lock \subseteq Dirs
  /\ files \in [Dirs -> SUBSET Files]
  /\ workload \in [Dirs -> SUBSET Providers]

-----------------------------------------------------------------------------
(* Types *)

\* A command that goes on has a place, and providers to go through.
LEMMA GotoWithType ==
  ASSUME ControlOK, NEW p \in Procs, NEW from, NEW to \in PCs,
         NEW T \in SUBSET Providers, NEW m \in BOOLEAN, GotoWith(p, from, to, T, m)
  PROVE  ControlOK'
  BY DEF GotoWith, ControlOK

\* A command that goes on has a place.
LEMMA GotoType ==
  ASSUME ControlOK, NEW p \in Procs, NEW from, NEW to \in PCs, Goto(p, from, to)
  PROVE  ControlOK'
<1>1. todo[p] \in SUBSET Providers /\ mismatch[p] \in BOOLEAN
  BY DEF ControlOK
<1>2. GotoWith(p, from, to, todo[p], mismatch[p])
  BY DEF Goto
<1>. QED
  BY <1>1, <1>2, GotoWithType

\* A log entry keeps the types of the status file.
LEMMA LogType ==
  ASSUME StatusOK, NEW p \in Procs, LogStatus(p)
  PROVE  StatusOK'
  BY LifecycleAssumption DEF StatusOK, LogStatus, Touched, lab, dir

\* A new phase of a lab keeps the types of the status file.
LEMMA SetType ==
  ASSUME StatusOK, NEW p \in Procs, NEW s \in Phases, SetStatus(p, s)
  PROVE  StatusOK'
  BY LifecycleAssumption DEF StatusOK, SetStatus, Touched, lab, dir

\* How commands begin to fail and end keeps the types.
LEMMA EndingTypes ==
  ASSUME ControlOK, StatusOK, SharedOK, NEW p \in Procs, Exit(p) \/ Interrupt(p) \/ LogFailure(p)
  PROVE  ControlOK' /\ StatusOK' /\ SharedOK'
<1> USE DEF PCs, UpPCs, DownPCs, CreatePCs
<1>dir. dir(p) \in Dirs /\ lab(p) \in Labs
  BY LifecycleAssumption DEF dir, lab
<1>1. ASSUME Exit(p) PROVE ControlOK' /\ StatusOK' /\ SharedOK'
  <2>1. ControlOK'
    BY <1>1, GotoType, GotoWithType DEF Exit, AfterTopology, AfterDown, AfterStop, ControlOK
  <2>2. StatusOK'
    BY <1>dir, <1>1, LogType, SetType DEF Exit, StatusOK, Phases
  <2>3. SharedOK'
    BY <1>dir, <1>1, LifecycleAssumption DEF Exit, SharedOK, Files, NextUp, NextDown
  <2>. QED
    BY <2>1, <2>2, <2>3
<1>2. ASSUME Interrupt(p) PROVE ControlOK' /\ StatusOK' /\ SharedOK'
  <2>1. ControlOK'
    BY <1>2, GotoType, GotoWithType DEF Interrupt, AfterTopology, AfterDown, AfterStop, ControlOK
  <2>2. StatusOK'
    BY <1>dir, <1>2, LogType, SetType DEF Interrupt, StatusOK, Phases
  <2>3. SharedOK'
    BY <1>dir, <1>2, LifecycleAssumption DEF Interrupt, SharedOK, Files, NextUp, NextDown
  <2>. QED
    BY <2>1, <2>2, <2>3
<1>3. ASSUME LogFailure(p) PROVE ControlOK' /\ StatusOK' /\ SharedOK'
  <2>1. ControlOK'
    BY <1>3, GotoType, GotoWithType DEF LogFailure, AfterTopology, AfterDown, AfterStop, ControlOK
  <2>2. StatusOK'
    BY <1>dir, <1>3, LogType, SetType DEF LogFailure, StatusOK, Phases
  <2>3. SharedOK'
    BY <1>dir, <1>3, LifecycleAssumption DEF LogFailure, SharedOK, Files, NextUp, NextDown
  <2>. QED
    BY <2>1, <2>2, <2>3
<1>. QED
  BY <1>1, <1>2, <1>3

\* The steps of netlab create keep the types.
LEMMA CreateTypes ==
  ASSUME ControlOK, StatusOK, SharedOK, NEW p \in Procs, CreateStep(p)
  PROVE  ControlOK' /\ StatusOK' /\ SharedOK'
<1> USE DEF PCs, UpPCs, DownPCs, CreatePCs
<1>dir. dir(p) \in Dirs /\ lab(p) \in Labs
  BY LifecycleAssumption DEF dir, lab
<1>1. ASSUME CreateUnlock(p) PROVE ControlOK' /\ StatusOK' /\ SharedOK'
  <2>1. ControlOK'
    BY <1>1, GotoType, GotoWithType DEF CreateUnlock, AfterTopology, AfterDown, AfterStop,
       ControlOK
  <2>2. StatusOK'
    BY <1>dir, <1>1, LogType, SetType DEF CreateUnlock, StatusOK, Phases
  <2>3. SharedOK'
    BY <1>dir, <1>1, LifecycleAssumption DEF CreateUnlock, SharedOK, Files, NextUp, NextDown
  <2>. QED
    BY <2>1, <2>2, <2>3
<1>2. ASSUME CheckWriteable(p) PROVE ControlOK' /\ StatusOK' /\ SharedOK'
  <2>1. ControlOK'
    BY <1>2, GotoType, GotoWithType DEF CheckWriteable, AfterTopology, AfterDown, AfterStop,
       ControlOK
  <2>2. StatusOK'
    BY <1>dir, <1>2, LogType, SetType DEF CheckWriteable, StatusOK, Phases
  <2>3. SharedOK'
    BY <1>dir, <1>2, LifecycleAssumption DEF CheckWriteable, SharedOK, Files, NextUp, NextDown
  <2>. QED
    BY <2>1, <2>2, <2>3
<1>3. ASSUME WriteProviderFiles(p) PROVE ControlOK' /\ StatusOK' /\ SharedOK'
  <2>1. ControlOK'
    BY <1>3, GotoType, GotoWithType DEF WriteProviderFiles, AfterTopology, AfterDown,
       AfterStop, ControlOK
  <2>2. StatusOK'
    BY <1>dir, <1>3, LogType, SetType DEF WriteProviderFiles, StatusOK, Phases
  <2>3. SharedOK'
    BY <1>dir, <1>3, LifecycleAssumption DEF WriteProviderFiles, SharedOK, Files, NextUp, NextDown
  <2>. QED
    BY <2>1, <2>2, <2>3
<1>4. ASSUME WritePickle(p) PROVE ControlOK' /\ StatusOK' /\ SharedOK'
  <2>1. ControlOK'
    BY <1>4, GotoType, GotoWithType DEF WritePickle, AfterTopology, AfterDown, AfterStop,
       ControlOK
  <2>2. StatusOK'
    BY <1>dir, <1>4, LogType, SetType DEF WritePickle, StatusOK, Phases
  <2>3. SharedOK'
    BY <1>dir, <1>4, LifecycleAssumption DEF WritePickle, SharedOK, Files, NextUp, NextDown
  <2>. QED
    BY <2>1, <2>2, <2>3
<1>. QED
  BY <1>1, <1>2, <1>3, <1>4 DEF CreateStep

\* The steps of netlab up keep the types.
LEMMA UpTypes ==
  ASSUME ControlOK, StatusOK, SharedOK, NEW p \in Procs, UpStep(p)
  PROVE  ControlOK' /\ StatusOK' /\ SharedOK'
<1> USE DEF PCs, UpPCs, DownPCs, CreatePCs
<1>dir. dir(p) \in Dirs /\ lab(p) \in Labs
  BY LifecycleAssumption DEF dir, lab
<1>1. ASSUME CheckExistingLab(p) PROVE ControlOK' /\ StatusOK' /\ SharedOK'
  <2>1. ControlOK'
    BY <1>1, GotoType, GotoWithType DEF CheckExistingLab, AfterTopology, AfterDown, AfterStop,
       ControlOK
  <2>2. StatusOK'
    BY <1>dir, <1>1, LogType, SetType DEF CheckExistingLab, StatusOK, Phases
  <2>3. SharedOK'
    BY <1>dir, <1>1, LifecycleAssumption DEF CheckExistingLab, SharedOK, Files, NextUp, NextDown
  <2>. QED
    BY <2>1, <2>2, <2>3
<1>2. ASSUME UpSnapshot(p) PROVE ControlOK' /\ StatusOK' /\ SharedOK'
  <2>1. ControlOK'
    BY <1>2, GotoType, GotoWithType DEF UpSnapshot, AfterTopology, AfterDown, AfterStop, ControlOK
  <2>2. StatusOK'
    BY <1>dir, <1>2, LogType, SetType DEF UpSnapshot, StatusOK, Phases
  <2>3. SharedOK'
    BY <1>dir, <1>2, LifecycleAssumption DEF UpSnapshot, SharedOK, Files, NextUp, NextDown
  <2>. QED
    BY <2>1, <2>2, <2>3
<1>3. ASSUME CheckLabInstance(p) PROVE ControlOK' /\ StatusOK' /\ SharedOK'
  <2>1. ControlOK'
    BY <1>3, GotoType, GotoWithType DEF CheckLabInstance, AfterTopology, AfterDown, AfterStop,
       ControlOK
  <2>2. StatusOK'
    BY <1>dir, <1>3, LogType, SetType DEF CheckLabInstance, StatusOK, Phases
  <2>3. SharedOK'
    BY <1>dir, <1>3, LifecycleAssumption DEF CheckLabInstance, SharedOK, Files, NextUp, NextDown
  <2>. QED
    BY <2>1, <2>2, <2>3
<1>4. ASSUME ProviderProbes(p) PROVE ControlOK' /\ StatusOK' /\ SharedOK'
  <2>1. ControlOK'
    BY <1>4, GotoType, GotoWithType DEF ProviderProbes, AfterTopology, AfterDown, AfterStop,
       ControlOK
  <2>2. StatusOK'
    BY <1>dir, <1>4, LogType, SetType DEF ProviderProbes, StatusOK, Phases
  <2>3. SharedOK'
    BY <1>dir, <1>4, LifecycleAssumption DEF ProviderProbes, SharedOK, Files, NextUp, NextDown
  <2>. QED
    BY <2>1, <2>2, <2>3
<1>5. ASSUME StatusStartLab(p) PROVE ControlOK' /\ StatusOK' /\ SharedOK'
  <2>1. ControlOK'
    BY <1>5, GotoType, GotoWithType DEF StatusStartLab, AfterTopology, AfterDown, AfterStop,
       ControlOK
  <2>2. StatusOK'
    BY <1>dir, <1>5, LogType, SetType DEF StatusStartLab, StatusOK, Phases
  <2>3. SharedOK'
    BY <1>dir, <1>5, LifecycleAssumption DEF StatusStartLab, SharedOK, Files, NextUp, NextDown
  <2>. QED
    BY <2>1, <2>2, <2>3
<1>6. ASSUME LockDirectory(p) PROVE ControlOK' /\ StatusOK' /\ SharedOK'
  <2>1. ControlOK'
    BY <1>6 DEF LockDirectory, Goto, GotoWith, AfterDown, AfterStop, ControlOK
  <2>2. StatusOK'
    BY <1>dir, <1>6, LogType, SetType DEF LockDirectory, StatusOK, Phases
  <2>3. SharedOK'
    BY <1>dir, <1>6, LifecycleAssumption DEF LockDirectory, SharedOK, Files, NextUp, NextDown
  <2>. QED
    BY <2>1, <2>2, <2>3
<1>7. ASSUME StatusStartProvider(p) PROVE ControlOK' /\ StatusOK' /\ SharedOK'
  <2>1. ControlOK'
    BY <1>7, GotoType, GotoWithType DEF StatusStartProvider, AfterTopology, AfterDown,
       AfterStop, ControlOK
  <2>2. StatusOK'
    BY <1>dir, <1>7, LogType, SetType DEF StatusStartProvider, StatusOK, Phases
  <2>3. SharedOK'
    BY <1>dir, <1>7, LifecycleAssumption DEF StatusStartProvider, SharedOK, Files, NextUp,
       NextDown
  <2>. QED
    BY <2>1, <2>2, <2>3
<1>8. ASSUME StartProviderLab(p) PROVE ControlOK' /\ StatusOK' /\ SharedOK'
  <2>1. ControlOK'
    BY <1>8, GotoType, GotoWithType DEF StartProviderLab, AfterTopology, AfterDown, AfterStop,
       ControlOK
  <2>2. StatusOK'
    BY <1>dir, <1>8, LogType, SetType DEF StartProviderLab, StatusOK, Phases
  <2>3. SharedOK'
    <3>1. PICK v \in NextUp(todo[p]) :
            workload' = workload \/ workload' = [workload EXCEPT ![dir(p)] = @ \cup {v}]
      BY <1>8 DEF StartProviderLab
    <3>2. v \in Providers
      BY LifecycleAssumption DEF NextUp, ControlOK
    <3>3. lock' = lock /\ files' = files
      BY <1>8 DEF StartProviderLab
    <3>4. workload' \in [Dirs -> SUBSET Providers]
      BY <1>dir, <3>1, <3>2 DEF SharedOK
    <3>. QED
      BY <3>3, <3>4 DEF SharedOK
  <2>. QED
    BY <2>1, <2>2, <2>3
<1>9. ASSUME WorkloadStarted(p) PROVE ControlOK' /\ StatusOK' /\ SharedOK'
  <2>1. ControlOK'
    BY <1>9, GotoType, GotoWithType DEF WorkloadStarted, AfterTopology, AfterDown, AfterStop,
       ControlOK
  <2>2. StatusOK'
    BY <1>dir, <1>9, LogType, SetType DEF WorkloadStarted, StatusOK, Phases
  <2>3. SharedOK'
    BY <1>dir, <1>9, LifecycleAssumption DEF WorkloadStarted, SharedOK, Files, NextUp, NextDown
  <2>. QED
    BY <2>1, <2>2, <2>3
<1>10. ASSUME DeployInitialConfig(p) PROVE ControlOK' /\ StatusOK' /\ SharedOK'
  <2>1. ControlOK'
    BY <1>10, GotoType, GotoWithType DEF DeployInitialConfig, AfterTopology, AfterDown,
       AfterStop, ControlOK
  <2>2. StatusOK'
    BY <1>dir, <1>10, LogType, SetType DEF DeployInitialConfig, StatusOK, Phases
  <2>3. SharedOK'
    BY <1>dir, <1>10, LifecycleAssumption DEF DeployInitialConfig, SharedOK, Files, NextUp,
       NextDown
  <2>. QED
    BY <2>1, <2>2, <2>3
<1>11. ASSUME LabStarted(p) PROVE ControlOK' /\ StatusOK' /\ SharedOK'
  <2>1. ControlOK'
    BY <1>11, GotoType, GotoWithType DEF LabStarted, AfterTopology, AfterDown, AfterStop,
       ControlOK
  <2>2. StatusOK'
    BY <1>dir, <1>11, LogType, SetType DEF LabStarted, StatusOK, Phases
  <2>3. SharedOK'
    BY <1>dir, <1>11, LifecycleAssumption DEF LabStarted, SharedOK, Files, NextUp, NextDown
  <2>. QED
    BY <2>1, <2>2, <2>3
<1>12. ASSUME TouchLock(p) PROVE ControlOK' /\ StatusOK' /\ SharedOK'
  <2>1. ControlOK'
    BY <1>12, GotoType, GotoWithType DEF TouchLock, AfterTopology, AfterDown, AfterStop, ControlOK
  <2>2. StatusOK'
    BY <1>dir, <1>12, LogType, SetType DEF TouchLock, StatusOK, Phases
  <2>3. SharedOK'
    BY <1>dir, <1>12, LifecycleAssumption DEF TouchLock, SharedOK, Files, NextUp, NextDown
  <2>. QED
    BY <2>1, <2>2, <2>3
<1>. QED
  BY <1>1, <1>2, <1>3, <1>4, <1>5, <1>6, <1>7, <1>8, <1>9, <1>10, <1>11, <1>12 DEF UpStep

\* The steps of netlab down keep the types.
LEMMA DownTypes ==
  ASSUME ControlOK, StatusOK, SharedOK, NEW p \in Procs, DownStep(p)
  PROVE  ControlOK' /\ StatusOK' /\ SharedOK'
<1> USE DEF PCs, UpPCs, DownPCs, CreatePCs
<1>dir. dir(p) \in Dirs /\ lab(p) \in Labs
  BY LifecycleAssumption DEF dir, lab
<1>1. ASSUME LoadSnapshot(p) PROVE ControlOK' /\ StatusOK' /\ SharedOK'
  <2>1. ControlOK'
    BY <1>1, GotoType, GotoWithType DEF LoadSnapshot, AfterTopology, AfterDown, AfterStop,
       ControlOK
  <2>2. StatusOK'
    BY <1>dir, <1>1, LogType, SetType DEF LoadSnapshot, StatusOK, Phases
  <2>3. SharedOK'
    BY <1>dir, <1>1, LifecycleAssumption DEF LoadSnapshot, SharedOK, Files, NextUp, NextDown
  <2>. QED
    BY <2>1, <2>2, <2>3
<1>2. ASSUME LabDirMismatch(p) PROVE ControlOK' /\ StatusOK' /\ SharedOK'
  <2>1. ControlOK'
    BY <1>2, GotoType, GotoWithType DEF LabDirMismatch, AfterTopology, AfterDown, AfterStop,
       ControlOK
  <2>2. StatusOK'
    BY <1>dir, <1>2, LogType, SetType DEF LabDirMismatch, StatusOK, Phases
  <2>3. SharedOK'
    BY <1>dir, <1>2, LifecycleAssumption DEF LabDirMismatch, SharedOK, Files, NextUp, NextDown
  <2>. QED
    BY <2>1, <2>2, <2>3
<1>3. ASSUME ShutdownRequested(p) PROVE ControlOK' /\ StatusOK' /\ SharedOK'
  <2>1. ControlOK'
    BY <1>3, GotoType, GotoWithType DEF ShutdownRequested, AfterTopology, AfterDown, AfterStop,
       ControlOK
  <2>2. StatusOK'
    BY <1>dir, <1>3, LogType, SetType DEF ShutdownRequested, StatusOK, Phases
  <2>3. SharedOK'
    BY <1>dir, <1>3, LifecycleAssumption DEF ShutdownRequested, SharedOK, Files, NextUp, NextDown
  <2>. QED
    BY <2>1, <2>2, <2>3
<1>4. ASSUME DownProbes(p) PROVE ControlOK' /\ StatusOK' /\ SharedOK'
  <2>1. ControlOK'
    <3>1. mismatch[p] \in BOOLEAN /\ Providers \in SUBSET Providers
      BY DEF ControlOK
    <3>2. CASE GotoWith(p, "down_probes", "stopping", Providers, mismatch[p])
      BY <3>1, <3>2, GotoWithType
    <3>3. CASE Goto(p, "down_probes", IF cmd[p].force = 0 THEN AfterDown(p) ELSE AfterStop(p))
      <4>1. (IF cmd[p].force = 0 THEN AfterDown(p) ELSE AfterStop(p)) \in PCs
        BY DEF AfterDown, AfterStop
      <4>. QED
        BY <3>3, <4>1, GotoType
    <3>. QED
      BY <1>4, <3>2, <3>3 DEF DownProbes
  <2>2. StatusOK'
    BY <1>dir, <1>4, LogType, SetType DEF DownProbes, StatusOK, Phases
  <2>3. SharedOK'
    BY <1>dir, <1>4, LifecycleAssumption DEF DownProbes, SharedOK, Files, NextUp, NextDown
  <2>. QED
    BY <2>1, <2>2, <2>3
<1>5. ASSUME StoppingProvider(p) PROVE ControlOK' /\ StatusOK' /\ SharedOK'
  <2>1. ControlOK'
    BY <1>5, GotoType, GotoWithType DEF StoppingProvider, AfterTopology, AfterDown, AfterStop,
       ControlOK
  <2>2. StatusOK'
    BY <1>dir, <1>5, LogType, SetType DEF StoppingProvider, StatusOK, Phases
  <2>3. SharedOK'
    BY <1>dir, <1>5, LifecycleAssumption DEF StoppingProvider, SharedOK, Files, NextUp, NextDown
  <2>. QED
    BY <2>1, <2>2, <2>3
<1>6. ASSUME StopProviderLab(p) PROVE ControlOK' /\ StatusOK' /\ SharedOK'
  <2>1. ControlOK'
    BY <1>6 DEF StopProviderLab, Goto, GotoWith, AfterDown, AfterStop, ControlOK
  <2>2. StatusOK'
    BY <1>dir, <1>6, LogType, SetType DEF StopProviderLab, StatusOK, Phases
  <2>3. SharedOK'
    BY <1>dir, <1>6, LifecycleAssumption DEF StopProviderLab, SharedOK, Files, NextUp, NextDown
  <2>. QED
    BY <2>1, <2>2, <2>3
<1>7. ASSUME ProviderStopped(p) PROVE ControlOK' /\ StatusOK' /\ SharedOK'
  <2>1. ControlOK'
    BY <1>7, GotoType, GotoWithType DEF ProviderStopped, AfterTopology, AfterDown, AfterStop,
       ControlOK
  <2>2. StatusOK'
    BY <1>dir, <1>7, LogType, SetType DEF ProviderStopped, StatusOK, Phases
  <2>3. SharedOK'
    BY <1>dir, <1>7, LifecycleAssumption DEF ProviderStopped, SharedOK, Files, NextUp, NextDown
  <2>. QED
    BY <2>1, <2>2, <2>3
<1>8. ASSUME DownCleanup(p) PROVE ControlOK' /\ StatusOK' /\ SharedOK'
  <2>1. ControlOK'
    BY <1>8, GotoType, GotoWithType DEF DownCleanup, AfterTopology, AfterDown, AfterStop,
       ControlOK
  <2>2. StatusOK'
    BY <1>dir, <1>8, LogType, SetType DEF DownCleanup, StatusOK, Phases
  <2>3. SharedOK'
    BY <1>dir, <1>8, LifecycleAssumption DEF DownCleanup, SharedOK, Files, NextUp, NextDown
  <2>. QED
    BY <2>1, <2>2, <2>3
<1>9. ASSUME RemoveLabStatus(p) PROVE ControlOK' /\ StatusOK' /\ SharedOK'
  <2>1. ControlOK'
    BY <1>9, GotoType, GotoWithType DEF RemoveLabStatus, AfterTopology, AfterDown, AfterStop,
       ControlOK
  <2>2. StatusOK'
    BY <1>dir, <1>9, LogType, SetType DEF RemoveLabStatus, StatusOK, Phases
  <2>3. SharedOK'
    BY <1>dir, <1>9, LifecycleAssumption DEF RemoveLabStatus, SharedOK, Files, NextUp, NextDown
  <2>. QED
    BY <2>1, <2>2, <2>3
<1>10. ASSUME UnlockDirectory(p) PROVE ControlOK' /\ StatusOK' /\ SharedOK'
  <2>1. ControlOK'
    BY <1>10, GotoType, GotoWithType DEF UnlockDirectory, AfterTopology, AfterDown, AfterStop,
       ControlOK
  <2>2. StatusOK'
    BY <1>dir, <1>10, LogType, SetType DEF UnlockDirectory, StatusOK, Phases
  <2>3. SharedOK'
    BY <1>dir, <1>10, LifecycleAssumption DEF UnlockDirectory, SharedOK, Files, NextUp, NextDown
  <2>. QED
    BY <2>1, <2>2, <2>3
<1>. QED
  BY <1>1, <1>2, <1>3, <1>4, <1>5, <1>6, <1>7, <1>8, <1>9, <1>10 DEF DownStep

\* A command that is entered keeps the types.
LEMMA EnterTypes ==
  ASSUME ControlOK, StatusOK, SharedOK, NEW p \in Procs, NEW c \in Commands, Enter(p, c)
  PROVE  ControlOK' /\ StatusOK' /\ SharedOK'
<1>1. FirstPC(c) \in PCs
  BY DEF FirstPC, PCs, UpPCs, DownPCs, CreatePCs
<1>. QED
  BY <1>1 DEF Enter, ControlOK, StatusOK, SharedOK

\* The type invariant in three parts.
LEMMA TypeParts == TypeOK <=> ControlOK /\ StatusOK /\ SharedOK
  BY DEF TypeOK, ControlOK, StatusOK, SharedOK

\* Every step keeps the types of the variables.
LEMMA TypeStep == TypeOK /\ [Next]_vars => TypeOK'
<1> SUFFICES ASSUME ControlOK, StatusOK, SharedOK, [Next]_vars
             PROVE  ControlOK' /\ StatusOK' /\ SharedOK'
  BY TypeParts DEF TypeOK, ControlOK, StatusOK, SharedOK
<1>1. CASE UNCHANGED vars
  BY <1>1 DEF vars, ControlOK, StatusOK, SharedOK
<1>2. CASE Next
  BY <1>2, EnterTypes, EndingTypes, CreateTypes, UpTypes, DownTypes DEF Next
<1>. QED
  BY <1>1, <1>2

\* All variables keep their types, whatever commands users enter and however
\* they overlap.
THEOREM TypeCorrect == Spec => []TypeOK
<1>1. Init => TypeOK
  BY DEF Init, TypeOK, PCs, Phases
<1>. QED
  BY <1>1, TypeStep, PTL DEF Spec

-----------------------------------------------------------------------------
(* The inductive invariant *)

\* Which command is where, and no flag outside of normal use.
PCKind ==
  \A p \in Procs :
    /\ pc[p] \in DownPCs => cmd[p].kind \in {"down", "restart"}
    /\ pc[p] \in CreatePCs => cmd[p].kind \in {"create", "up", "restart"}
    /\ pc[p] \in UpPCs \ CreatePCs => cmd[p].kind \in {"up", "restart"}
    /\ pc[p] # "unlock_create"
    /\ cmd[p].force = 0
    /\ cmd[p].dry => cmd[p].kind = "up"

\* While a process shuts an instance down, no other process works on it.
Alone ==
  \A p, q \in Procs :
    p # q /\ lab(p) = lab(q) /\ pc[p] \in DownPCs => pc[q] = "idle"

RunInv == RunningIsRegistered /\ RunningIsLocked /\ RunningIsRecoverable

\* netlab up past lab_status_start without a conflict.
UpRun == {"lock", "provider", "launch", "launched", "configure", "started",
          "touch_check", "touch"}

\* netlab up owns the instance, then the lock; its snapshot stays in place.
UpInv ==
  \A p \in Procs :
    /\ pc[p] \in UpRun => owner[lab(p)] = dir(p)
    /\ pc[p] \in UpRun \ {"lock"} => dir(p) \in lock
    /\ pc[p] \in UpRun \cup {"instance", "probes", "start"} => "snapshot" \in files[dir(p)]

\* netlab down past lab_dir_mismatch.
DownWork == DownPCs \ {"load", "mismatch"}

\* What lab_dir_mismatch found is still true when netlab down uses it.
DownOwner ==
  \A p \in Procs : pc[p] \in DownWork =>
    /\ mismatch[p] => owner[lab(p)] # NoDir /\ owner[lab(p)] # dir(p)
    /\ ~mismatch[p] => owner[lab(p)] = NoDir \/ (owner[lab(p)] = dir(p) /\ pc[p] # "unlock")

\* What runs is still to be stopped, and nothing runs after the last stop.
DownWorkload ==
  \A p \in Procs :
    /\ pc[p] \in {"stopping", "stop", "stopped"} => workload[dir(p)] \subseteq todo[p]
    /\ pc[p] \in {"cleanup_files", "cleanup_snapshot", "remove", "unlock"}
         => workload[dir(p)] = {}

IInv ==
  /\ ControlOK /\ StatusOK /\ SharedOK
  /\ PCKind /\ Alone /\ RunInv /\ UpInv /\ DownOwner /\ DownWorkload

-----------------------------------------------------------------------------
(* What a step leaves alone *)

Others(p) ==
  \A q \in Procs : q # p =>
    pc'[q] = pc[q] /\ cmd'[q] = cmd[q] /\ todo'[q] = todo[q] /\ mismatch'[q] = mismatch[q]

\* Going on concerns one command.
LEMMA GotoFrame ==
  ASSUME ControlOK, NEW p \in Procs, NEW from, NEW to, Goto(p, from, to)
  PROVE  /\ pc[p] = from /\ pc'[p] = to
         /\ Others(p)
         /\ to # "idle" => cmd'[p] = cmd[p] /\ todo'[p] = todo[p] /\ mismatch'[p] = mismatch[p]
         /\ cmd'[p] \in {cmd[p], NoCommand}
  BY DEF Goto, GotoWith, ControlOK, Others

\* A log entry concerns one lab, and does not take it from its owner.
LEMMA LogFrame ==
  ASSUME StatusOK, NEW p \in Procs, LogStatus(p)
  PROVE  /\ \A l \in Labs : owner[l] # NoDir \/ l # lab(p) => owner'[l] = owner[l]
         /\ owner'[lab(p)] \in {owner[lab(p)], dir(p)}
         /\ owner[lab(p)] = NoDir /\ ~Dry(p) => owner'[lab(p)] = dir(p)
  BY LifecycleAssumption DEF StatusOK, LogStatus, Touched, lab, dir

\* A new phase does not take a lab from its owner.
LEMMA SetFrame ==
  ASSUME StatusOK, NEW p \in Procs, NEW s, SetStatus(p, s)
  PROVE  /\ \A l \in Labs : owner[l] # NoDir \/ l # lab(p) => owner'[l] = owner[l]
         /\ owner'[lab(p)] \in {owner[lab(p)], dir(p)}
         /\ owner[lab(p)] = NoDir /\ ~Dry(p) => owner'[lab(p)] = dir(p)
  BY LifecycleAssumption DEF StatusOK, SetStatus, Touched, lab, dir

-----------------------------------------------------------------------------
(* Every step preserves the invariant *)

\* Log lines, statuses and a new lock do not disturb what runs.
LEMMA RunFrame ==
  ASSUME RunInv,
         \A l \in Labs : owner[l] # NoDir => owner'[l] = owner[l],
         lock \subseteq lock', files' = files, workload' = workload
  PROVE  RunInv'
<1>1. Running' = Running
  BY DEF Running
<1>2. \A d \in Running : LabOf[d] \in Labs /\ d # NoDir
  BY LifecycleAssumption DEF Running
<1>. QED
  BY <1>1, <1>2 DEF RunInv, RunningIsRegistered, RunningIsLocked, RunningIsRecoverable

\* What is logged does not take a lab from its owner.
LEMMA LogKeeps ==
  ASSUME StatusOK, NEW p \in Procs, LogStatus(p) \/ \E s \in Phases : SetStatus(p, s)
  PROVE  \A l \in Labs : owner[l] # NoDir => owner'[l] = owner[l]
  BY LogFrame, SetFrame

\* The ends of a command preserve the invariant.
LEMMA EndingPreserves ==
  ASSUME SafeUse, IInv, NEW p \in Procs, Exit(p) \/ Interrupt(p) \/ LogFailure(p)
  PROVE  PCKind' /\ Alone' /\ RunInv' /\ UpInv' /\ DownOwner' /\ DownWorkload'
<1> USE DEF IInv
<1> USE DEF PCs, UpPCs, DownPCs, CreatePCs
<1>dir. \A q \in Procs : dir(q) \in Dirs /\ lab(q) \in Labs /\ lab(q) = LabOf[dir(q)]
  BY LifecycleAssumption DEF dir, lab
<1>alone. \A q \in Procs : q # p /\ lab(q) = lab(p) =>
            (pc[q] \in DownPCs => pc[p] = "idle") /\ (pc[p] \in DownPCs => pc[q] = "idle")
  BY DEF Alone
<1>1. ASSUME Exit(p) PROVE PCKind' /\ Alone' /\ RunInv' /\ UpInv' /\ DownOwner' /\ DownWorkload'
  <2>1. PCKind'
    BY <1>1, GotoFrame DEF Exit, AfterDown, AfterStop, PCKind, NoCommand, Dry, Others
  <2>2. Alone'
    BY <1>1, <1>alone, GotoFrame DEF Exit, AfterDown, AfterStop, Alone, PCKind, dir, lab, Others
  <2>3. RunInv'
    BY <1>1, RunFrame DEF Exit
  <2>4. UpInv'
    BY <1>dir, <1>alone, <1>1, GotoFrame, LifecycleAssumption DEF Exit, AfterDown, AfterStop,
       UpRun, UpInv, PCKind, SharedOK, StatusOK, Others, Files
  <2>5. DownOwner'
    BY <1>dir, <1>alone, <1>1, GotoFrame, LifecycleAssumption DEF Exit, AfterDown, AfterStop,
       DownWork, DownOwner, PCKind, StatusOK, ControlOK, Others
  <2>6. DownWorkload'
    BY <1>dir, <1>alone, <1>1, GotoFrame DEF Exit, AfterDown, AfterStop, DownWork,
       DownWorkload, SharedOK, Others
  <2>. QED
    BY <2>1, <2>2, <2>3, <2>4, <2>5, <2>6
<1>2. ASSUME Interrupt(p) PROVE PCKind' /\ Alone' /\ RunInv' /\ UpInv' /\ DownOwner' /\ DownWorkload'
  <2>1. PCKind'
    BY <1>2, GotoFrame DEF Interrupt, AfterDown, AfterStop, PCKind, NoCommand, Dry, Others
  <2>2. Alone'
    BY <1>2, <1>alone, GotoFrame DEF Interrupt, AfterDown, AfterStop, Alone, PCKind, dir, lab,
       Others
  <2>3. RunInv'
    <3>1. LogStatus(p) \/ \E s \in Phases : SetStatus(p, s)
      BY <1>2 DEF Interrupt, Phases
    <3>2. lock' = lock /\ files' = files /\ workload' = workload
      BY <1>2 DEF Interrupt
    <3>. QED
      BY <3>1, <3>2, LogKeeps, RunFrame
  <2>4. UpInv'
    BY <1>dir, <1>alone, <1>2, GotoFrame, LogFrame, SetFrame, LifecycleAssumption DEF
       Interrupt, AfterDown, AfterStop, UpRun, UpInv, PCKind, SharedOK, StatusOK, Others, Files
  <2>5. DownOwner'
    BY <1>dir, <1>alone, <1>2, GotoFrame, LogFrame, SetFrame, LifecycleAssumption DEF
       Interrupt, AfterDown, AfterStop, DownWork, DownOwner, PCKind, StatusOK, ControlOK,
       Others
  <2>6. DownWorkload'
    BY <1>dir, <1>alone, <1>2, GotoFrame DEF Interrupt, AfterDown, AfterStop, DownWork,
       DownWorkload, SharedOK, Others
  <2>. QED
    BY <2>1, <2>2, <2>3, <2>4, <2>5, <2>6
<1>3. ASSUME LogFailure(p) PROVE PCKind' /\ Alone' /\ RunInv' /\ UpInv' /\ DownOwner' /\ DownWorkload'
  <2>1. PCKind'
    BY <1>3, GotoFrame DEF LogFailure, AfterDown, AfterStop, PCKind, NoCommand, Dry, Others
  <2>2. Alone'
    BY <1>3, <1>alone, GotoFrame DEF LogFailure, AfterDown, AfterStop, Alone, PCKind, dir, lab,
       Others
  <2>3. RunInv'
    <3>1. LogStatus(p) \/ \E s \in Phases : SetStatus(p, s)
      BY <1>3 DEF LogFailure, Phases
    <3>2. lock' = lock /\ files' = files /\ workload' = workload
      BY <1>3 DEF LogFailure
    <3>. QED
      BY <3>1, <3>2, LogKeeps, RunFrame
  <2>4. UpInv'
    BY <1>dir, <1>alone, <1>3, GotoFrame, LogFrame, SetFrame, LifecycleAssumption DEF
       LogFailure, AfterDown, AfterStop, UpRun, UpInv, PCKind, SharedOK, StatusOK, Others,
       Files
  <2>5. DownOwner'
    BY <1>dir, <1>alone, <1>3, GotoFrame, LogFrame, SetFrame, LifecycleAssumption DEF
       LogFailure, AfterDown, AfterStop, DownWork, DownOwner, PCKind, StatusOK, ControlOK,
       Others
  <2>6. DownWorkload'
    BY <1>dir, <1>alone, <1>3, GotoFrame DEF LogFailure, AfterDown, AfterStop, DownWork,
       DownWorkload, SharedOK, Others
  <2>. QED
    BY <2>1, <2>2, <2>3, <2>4, <2>5, <2>6
<1>. QED
  BY <1>1, <1>2, <1>3

\* The steps of netlab create preserve the invariant.
LEMMA CreatePreserves ==
  ASSUME SafeUse, IInv, NEW p \in Procs, CreateStep(p), ~CreateUnlock(p)
  PROVE  PCKind' /\ Alone' /\ RunInv' /\ UpInv' /\ DownOwner' /\ DownWorkload'
<1> USE DEF IInv
<1> USE DEF PCs, UpPCs, DownPCs, CreatePCs
<1>dir. \A q \in Procs : dir(q) \in Dirs /\ lab(q) \in Labs /\ lab(q) = LabOf[dir(q)]
  BY LifecycleAssumption DEF dir, lab
<1>alone. \A q \in Procs : q # p /\ lab(q) = lab(p) =>
            (pc[q] \in DownPCs => pc[p] = "idle") /\ (pc[p] \in DownPCs => pc[q] = "idle")
  BY DEF Alone
<1>1. ASSUME CheckWriteable(p) PROVE PCKind' /\ Alone' /\ RunInv' /\ UpInv' /\ DownOwner' /\ DownWorkload'
  <2>1. PCKind'
    BY <1>1, GotoFrame DEF CheckWriteable, AfterDown, AfterStop, PCKind, NoCommand, Dry, Others
  <2>2. Alone'
    BY <1>1, <1>alone, GotoFrame DEF CheckWriteable, AfterDown, AfterStop, Alone, PCKind, dir,
       lab, Others
  <2>3. RunInv'
    BY <1>1, RunFrame DEF CheckWriteable
  <2>4. UpInv'
    BY <1>dir, <1>alone, <1>1, GotoFrame, LifecycleAssumption DEF CheckWriteable, AfterDown,
       AfterStop, UpRun, UpInv, PCKind, SharedOK, StatusOK, Others, Files
  <2>5. DownOwner'
    BY <1>dir, <1>alone, <1>1, GotoFrame, LifecycleAssumption DEF CheckWriteable, AfterDown,
       AfterStop, DownWork, DownOwner, PCKind, StatusOK, ControlOK, Others
  <2>6. DownWorkload'
    BY <1>dir, <1>alone, <1>1, GotoFrame DEF CheckWriteable, AfterDown, AfterStop, DownWork,
       DownWorkload, SharedOK, Others
  <2>. QED
    BY <2>1, <2>2, <2>3, <2>4, <2>5, <2>6
<1>2. ASSUME WriteProviderFiles(p) PROVE PCKind' /\ Alone' /\ RunInv' /\ UpInv' /\ DownOwner' /\ DownWorkload'
  <2>1. PCKind'
    BY <1>2, GotoFrame DEF WriteProviderFiles, AfterDown, AfterStop, PCKind, NoCommand, Dry,
       Others
  <2>2. Alone'
    BY <1>2, <1>alone, GotoFrame DEF WriteProviderFiles, AfterDown, AfterStop, Alone, PCKind,
       dir, lab, Others
  <2>3. RunInv'
    BY <1>dir, <1>2, GotoFrame, LifecycleAssumption DEF WriteProviderFiles, AfterDown,
       AfterStop, RunInv, UpRun, UpInv, DownOwner, DownWorkload, DownWork, PCKind, Dry,
       SharedOK, StatusOK, Running, RunningIsRegistered, RunningIsLocked, RunningIsRecoverable,
       Files, NextUp
  <2>4. UpInv'
    BY <1>dir, <1>alone, <1>2, GotoFrame, LifecycleAssumption DEF WriteProviderFiles,
       AfterDown, AfterStop, UpRun, UpInv, PCKind, SharedOK, StatusOK, Others, Files
  <2>5. DownOwner'
    BY <1>dir, <1>alone, <1>2, GotoFrame, LifecycleAssumption DEF WriteProviderFiles,
       AfterDown, AfterStop, DownWork, DownOwner, PCKind, StatusOK, ControlOK, Others
  <2>6. DownWorkload'
    BY <1>dir, <1>alone, <1>2, GotoFrame DEF WriteProviderFiles, AfterDown, AfterStop,
       DownWork, DownWorkload, SharedOK, Others
  <2>. QED
    BY <2>1, <2>2, <2>3, <2>4, <2>5, <2>6
<1>3. ASSUME WritePickle(p) PROVE PCKind' /\ Alone' /\ RunInv' /\ UpInv' /\ DownOwner' /\ DownWorkload'
  <2>0. /\ Others(p)
        /\ pc[p] = "pickle_write"
        /\ \/ pc'[p] = "idle" /\ cmd'[p] \in {cmd[p], NoCommand}
           \/ pc'[p] \in {"probes", "instance"} /\ cmd'[p] = cmd[p] /\ cmd[p].kind # "create"
    BY <1>3, LifecycleAssumption DEF WritePickle, Goto, GotoWith, ControlOK, StatusOK, Others,
       AfterTopology, AfterDown, AfterStop, PCKind, Dry
  <2>1. PCKind'
    BY <1>3, <2>0 DEF PCKind, NoCommand, Dry, Others
  <2>2. Alone'
    BY <1>3, <1>alone, <2>0 DEF Alone, PCKind, dir, lab, Others
  <2>3. RunInv'
    BY <1>dir, <1>3, <2>0, LifecycleAssumption DEF WritePickle, RunInv, UpRun, UpInv,
       DownOwner, DownWorkload, DownWork, PCKind, Dry, SharedOK, StatusOK, Running,
       RunningIsRegistered, RunningIsLocked, RunningIsRecoverable, Files, NextUp
  <2>4. UpInv'
    BY <1>dir, <1>alone, <1>3, <2>0, LifecycleAssumption DEF WritePickle, UpRun, UpInv, PCKind,
       SharedOK, StatusOK, Others, Files
  <2>5. DownOwner'
    BY <1>dir, <1>alone, <1>3, <2>0, LifecycleAssumption DEF WritePickle, DownWork, DownOwner,
       PCKind, StatusOK, ControlOK, Others
  <2>6. DownWorkload'
    BY <1>dir, <1>alone, <1>3, <2>0 DEF WritePickle, DownWork, DownWorkload, SharedOK, Others
  <2>. QED
    BY <2>1, <2>2, <2>3, <2>4, <2>5, <2>6
<1>. QED
  BY <1>1, <1>2, <1>3 DEF CreateStep

\* The steps of netlab up preserve the invariant.
LEMMA UpPreserves ==
  ASSUME SafeUse, IInv, NEW p \in Procs, UpStep(p)
  PROVE  PCKind' /\ Alone' /\ RunInv' /\ UpInv' /\ DownOwner' /\ DownWorkload'
<1> USE DEF IInv
<1> USE DEF PCs, UpPCs, DownPCs, CreatePCs
<1>dir. \A q \in Procs : dir(q) \in Dirs /\ lab(q) \in Labs /\ lab(q) = LabOf[dir(q)]
  BY LifecycleAssumption DEF dir, lab
<1>alone. \A q \in Procs : q # p /\ lab(q) = lab(p) =>
            (pc[q] \in DownPCs => pc[p] = "idle") /\ (pc[p] \in DownPCs => pc[q] = "idle")
  BY DEF Alone
<1>1. ASSUME CheckExistingLab(p) PROVE PCKind' /\ Alone' /\ RunInv' /\ UpInv' /\ DownOwner' /\ DownWorkload'
  <2>1. PCKind'
    BY <1>1, GotoFrame DEF CheckExistingLab, AfterDown, AfterStop, PCKind, NoCommand, Dry, Others
  <2>2. Alone'
    BY <1>1, <1>alone, GotoFrame DEF CheckExistingLab, AfterDown, AfterStop, Alone, PCKind,
       dir, lab, Others
  <2>3. RunInv'
    BY <1>1, RunFrame DEF CheckExistingLab
  <2>4. UpInv'
    BY <1>dir, <1>alone, <1>1, GotoFrame, LifecycleAssumption DEF CheckExistingLab, AfterDown,
       AfterStop, UpRun, UpInv, PCKind, SharedOK, StatusOK, Others, Files
  <2>5. DownOwner'
    BY <1>dir, <1>alone, <1>1, GotoFrame, LifecycleAssumption DEF CheckExistingLab, AfterDown,
       AfterStop, DownWork, DownOwner, PCKind, StatusOK, ControlOK, Others
  <2>6. DownWorkload'
    BY <1>dir, <1>alone, <1>1, GotoFrame DEF CheckExistingLab, AfterDown, AfterStop, DownWork,
       DownWorkload, SharedOK, Others
  <2>. QED
    BY <2>1, <2>2, <2>3, <2>4, <2>5, <2>6
<1>2. ASSUME UpSnapshot(p) PROVE PCKind' /\ Alone' /\ RunInv' /\ UpInv' /\ DownOwner' /\ DownWorkload'
  <2>0. /\ Others(p)
        /\ pc[p] = "snapshot"
        /\ \/ pc'[p] = "idle" /\ cmd'[p] \in {cmd[p], NoCommand}
           \/ pc'[p] \in {"probes", "instance"} /\ cmd'[p] = cmd[p] /\ "snapshot" \in files[dir(p)]
    BY <1>2, LifecycleAssumption DEF UpSnapshot, Goto, GotoWith, ControlOK, StatusOK, Others,
       AfterTopology, AfterDown, AfterStop, PCKind, Dry
  <2>1. PCKind'
    BY <1>2, <2>0 DEF PCKind, NoCommand, Dry, Others
  <2>2. Alone'
    BY <1>2, <1>alone, <2>0 DEF Alone, PCKind, dir, lab, Others
  <2>3. RunInv'
    BY <1>2, RunFrame DEF UpSnapshot
  <2>4. UpInv'
    BY <1>dir, <1>alone, <1>2, <2>0, LifecycleAssumption DEF UpSnapshot, UpRun, UpInv, PCKind,
       SharedOK, StatusOK, Others, Files
  <2>5. DownOwner'
    BY <1>dir, <1>alone, <1>2, <2>0, LifecycleAssumption DEF UpSnapshot, DownWork, DownOwner,
       PCKind, StatusOK, ControlOK, Others
  <2>6. DownWorkload'
    BY <1>dir, <1>alone, <1>2, <2>0 DEF UpSnapshot, DownWork, DownWorkload, SharedOK, Others
  <2>. QED
    BY <2>1, <2>2, <2>3, <2>4, <2>5, <2>6
<1>3. ASSUME CheckLabInstance(p) PROVE PCKind' /\ Alone' /\ RunInv' /\ UpInv' /\ DownOwner' /\ DownWorkload'
  <2>1. PCKind'
    BY <1>3, GotoFrame DEF CheckLabInstance, AfterDown, AfterStop, PCKind, NoCommand, Dry, Others
  <2>2. Alone'
    BY <1>3, <1>alone, GotoFrame DEF CheckLabInstance, AfterDown, AfterStop, Alone, PCKind,
       dir, lab, Others
  <2>3. RunInv'
    BY <1>3, RunFrame DEF CheckLabInstance
  <2>4. UpInv'
    BY <1>dir, <1>alone, <1>3, GotoFrame, LifecycleAssumption DEF CheckLabInstance, AfterDown,
       AfterStop, UpRun, UpInv, PCKind, SharedOK, StatusOK, Others, Files
  <2>5. DownOwner'
    BY <1>dir, <1>alone, <1>3, GotoFrame, LifecycleAssumption DEF CheckLabInstance, AfterDown,
       AfterStop, DownWork, DownOwner, PCKind, StatusOK, ControlOK, Others
  <2>6. DownWorkload'
    BY <1>dir, <1>alone, <1>3, GotoFrame DEF CheckLabInstance, AfterDown, AfterStop, DownWork,
       DownWorkload, SharedOK, Others
  <2>. QED
    BY <2>1, <2>2, <2>3, <2>4, <2>5, <2>6
<1>4. ASSUME ProviderProbes(p) PROVE PCKind' /\ Alone' /\ RunInv' /\ UpInv' /\ DownOwner' /\ DownWorkload'
  <2>1. PCKind'
    BY <1>4, GotoFrame DEF ProviderProbes, AfterDown, AfterStop, PCKind, NoCommand, Dry, Others
  <2>2. Alone'
    BY <1>4, <1>alone, GotoFrame DEF ProviderProbes, AfterDown, AfterStop, Alone, PCKind, dir,
       lab, Others
  <2>3. RunInv'
    <3>1. LogStatus(p) \/ \E s \in Phases : SetStatus(p, s)
      BY <1>4 DEF ProviderProbes, Phases
    <3>2. lock' = lock /\ files' = files /\ workload' = workload
      BY <1>4 DEF ProviderProbes
    <3>. QED
      BY <3>1, <3>2, LogKeeps, RunFrame
  <2>4. UpInv'
    BY <1>dir, <1>alone, <1>4, GotoFrame, LogFrame, SetFrame, LifecycleAssumption DEF
       ProviderProbes, AfterDown, AfterStop, UpRun, UpInv, PCKind, SharedOK, StatusOK, Others,
       Files
  <2>5. DownOwner'
    BY <1>dir, <1>alone, <1>4, GotoFrame, LogFrame, SetFrame, LifecycleAssumption DEF
       ProviderProbes, AfterDown, AfterStop, DownWork, DownOwner, PCKind, StatusOK, ControlOK,
       Others
  <2>6. DownWorkload'
    BY <1>dir, <1>alone, <1>4, GotoFrame DEF ProviderProbes, AfterDown, AfterStop, DownWork,
       DownWorkload, SharedOK, Others
  <2>. QED
    BY <2>1, <2>2, <2>3, <2>4, <2>5, <2>6
<1>5. ASSUME StatusStartLab(p) PROVE PCKind' /\ Alone' /\ RunInv' /\ UpInv' /\ DownOwner' /\ DownWorkload'
  <2>1. PCKind'
    BY <1>5, GotoFrame DEF StatusStartLab, AfterDown, AfterStop, PCKind, NoCommand, Dry, Others
  <2>2. Alone'
    BY <1>5, <1>alone, GotoFrame DEF StatusStartLab, AfterDown, AfterStop, Alone, PCKind, dir,
       lab, Others
  <2>3. RunInv'
    <3>1. LogStatus(p) \/ \E s \in Phases : SetStatus(p, s)
      BY <1>5 DEF StatusStartLab, Phases
    <3>2. lock' = lock /\ files' = files /\ workload' = workload
      BY <1>5 DEF StatusStartLab
    <3>. QED
      BY <3>1, <3>2, LogKeeps, RunFrame
  <2>4. UpInv'
    BY <1>dir, <1>alone, <1>5, GotoFrame, LogFrame, SetFrame, LifecycleAssumption DEF
       StatusStartLab, AfterDown, AfterStop, UpRun, UpInv, PCKind, SharedOK, StatusOK, Others,
       Files
  <2>5. DownOwner'
    BY <1>dir, <1>alone, <1>5, GotoFrame, LogFrame, SetFrame, LifecycleAssumption DEF
       StatusStartLab, AfterDown, AfterStop, DownWork, DownOwner, PCKind, StatusOK, ControlOK,
       Others
  <2>6. DownWorkload'
    BY <1>dir, <1>alone, <1>5, GotoFrame DEF StatusStartLab, AfterDown, AfterStop, DownWork,
       DownWorkload, SharedOK, Others
  <2>. QED
    BY <2>1, <2>2, <2>3, <2>4, <2>5, <2>6
<1>6. ASSUME LockDirectory(p) PROVE PCKind' /\ Alone' /\ RunInv' /\ UpInv' /\ DownOwner' /\ DownWorkload'
  <2>0. /\ Others(p)
        /\ pc[p] = "lock" /\ pc'[p] = "provider"
        /\ cmd'[p] = cmd[p] /\ todo'[p] = Providers
    BY <1>6, LifecycleAssumption DEF LockDirectory, Goto, GotoWith, ControlOK, StatusOK,
       Others, AfterTopology, AfterDown, AfterStop, PCKind, Dry
  <2>1. PCKind'
    BY <1>6, <2>0 DEF PCKind, NoCommand, Dry, Others
  <2>2. Alone'
    BY <1>6, <1>alone, <2>0 DEF Alone, PCKind, dir, lab, Others
  <2>3. RunInv'
    BY <1>6, RunFrame DEF LockDirectory
  <2>4. UpInv'
    BY <1>dir, <1>alone, <1>6, <2>0, LifecycleAssumption DEF LockDirectory, UpRun, UpInv,
       PCKind, SharedOK, StatusOK, Others, Files
  <2>5. DownOwner'
    BY <1>dir, <1>alone, <1>6, <2>0, LifecycleAssumption DEF LockDirectory, DownWork,
       DownOwner, PCKind, StatusOK, ControlOK, Others
  <2>6. DownWorkload'
    BY <1>dir, <1>alone, <1>6, <2>0 DEF LockDirectory, DownWork, DownWorkload, SharedOK, Others
  <2>. QED
    BY <2>1, <2>2, <2>3, <2>4, <2>5, <2>6
<1>7. ASSUME StatusStartProvider(p) PROVE PCKind' /\ Alone' /\ RunInv' /\ UpInv' /\ DownOwner' /\ DownWorkload'
  <2>1. PCKind'
    BY <1>7, GotoFrame DEF StatusStartProvider, AfterDown, AfterStop, PCKind, NoCommand, Dry,
       Others
  <2>2. Alone'
    BY <1>7, <1>alone, GotoFrame DEF StatusStartProvider, AfterDown, AfterStop, Alone, PCKind,
       dir, lab, Others
  <2>3. RunInv'
    <3>1. LogStatus(p) \/ \E s \in Phases : SetStatus(p, s)
      BY <1>7 DEF StatusStartProvider, Phases
    <3>2. lock' = lock /\ files' = files /\ workload' = workload
      BY <1>7 DEF StatusStartProvider
    <3>. QED
      BY <3>1, <3>2, LogKeeps, RunFrame
  <2>4. UpInv'
    BY <1>dir, <1>alone, <1>7, GotoFrame, LogFrame, SetFrame, LifecycleAssumption DEF
       StatusStartProvider, AfterDown, AfterStop, UpRun, UpInv, PCKind, SharedOK, StatusOK,
       Others, Files
  <2>5. DownOwner'
    BY <1>dir, <1>alone, <1>7, GotoFrame, LogFrame, SetFrame, LifecycleAssumption DEF
       StatusStartProvider, AfterDown, AfterStop, DownWork, DownOwner, PCKind, StatusOK,
       ControlOK, Others
  <2>6. DownWorkload'
    BY <1>dir, <1>alone, <1>7, GotoFrame DEF StatusStartProvider, AfterDown, AfterStop,
       DownWork, DownWorkload, SharedOK, Others
  <2>. QED
    BY <2>1, <2>2, <2>3, <2>4, <2>5, <2>6
<1>8. ASSUME StartProviderLab(p) PROVE PCKind' /\ Alone' /\ RunInv' /\ UpInv' /\ DownOwner' /\ DownWorkload'
  <2>0. /\ Others(p)
        /\ pc[p] = "launch" /\ pc'[p] \in {"launched", "failed"} /\ cmd'[p] = cmd[p]
    BY <1>8, LifecycleAssumption DEF StartProviderLab, Goto, GotoWith, ControlOK, StatusOK,
       Others, AfterTopology, AfterDown, AfterStop, PCKind, Dry
  <2>1. PCKind'
    BY <1>8, <2>0 DEF PCKind, NoCommand, Dry, Others
  <2>2. Alone'
    BY <1>8, <1>alone, <2>0 DEF Alone, PCKind, dir, lab, Others
  <2>3. RunInv'
    BY <1>dir, <1>8, <2>0, LifecycleAssumption DEF StartProviderLab, RunInv, UpRun, UpInv,
       DownOwner, DownWorkload, DownWork, PCKind, Dry, SharedOK, StatusOK, Running,
       RunningIsRegistered, RunningIsLocked, RunningIsRecoverable, Files, NextUp
  <2>4. UpInv'
    BY <1>dir, <1>alone, <1>8, <2>0, LifecycleAssumption DEF StartProviderLab, UpRun, UpInv,
       PCKind, SharedOK, StatusOK, Others, Files
  <2>5. DownOwner'
    BY <1>dir, <1>alone, <1>8, <2>0, LifecycleAssumption DEF StartProviderLab, DownWork,
       DownOwner, PCKind, StatusOK, ControlOK, Others
  <2>6. DownWorkload'
    BY <1>dir, <1>alone, <1>8, <2>0 DEF StartProviderLab, DownWork, DownWorkload, SharedOK, Others
  <2>. QED
    BY <2>1, <2>2, <2>3, <2>4, <2>5, <2>6
<1>9. ASSUME WorkloadStarted(p) PROVE PCKind' /\ Alone' /\ RunInv' /\ UpInv' /\ DownOwner' /\ DownWorkload'
  <2>1. PCKind'
    BY <1>9, GotoFrame DEF WorkloadStarted, AfterDown, AfterStop, PCKind, NoCommand, Dry, Others
  <2>2. Alone'
    BY <1>9, <1>alone, GotoFrame DEF WorkloadStarted, AfterDown, AfterStop, Alone, PCKind, dir,
       lab, Others
  <2>3. RunInv'
    <3>1. LogStatus(p) \/ \E s \in Phases : SetStatus(p, s)
      BY <1>9 DEF WorkloadStarted, Phases
    <3>2. lock' = lock /\ files' = files /\ workload' = workload
      BY <1>9 DEF WorkloadStarted
    <3>. QED
      BY <3>1, <3>2, LogKeeps, RunFrame
  <2>4. UpInv'
    BY <1>dir, <1>alone, <1>9, GotoFrame, LogFrame, SetFrame, LifecycleAssumption DEF
       WorkloadStarted, AfterDown, AfterStop, UpRun, UpInv, PCKind, SharedOK, StatusOK, Others,
       Files
  <2>5. DownOwner'
    BY <1>dir, <1>alone, <1>9, GotoFrame, LogFrame, SetFrame, LifecycleAssumption DEF
       WorkloadStarted, AfterDown, AfterStop, DownWork, DownOwner, PCKind, StatusOK, ControlOK,
       Others
  <2>6. DownWorkload'
    BY <1>dir, <1>alone, <1>9, GotoFrame DEF WorkloadStarted, AfterDown, AfterStop, DownWork,
       DownWorkload, SharedOK, Others
  <2>. QED
    BY <2>1, <2>2, <2>3, <2>4, <2>5, <2>6
<1>10. ASSUME DeployInitialConfig(p) PROVE PCKind' /\ Alone' /\ RunInv' /\ UpInv' /\ DownOwner' /\ DownWorkload'
  <2>1. PCKind'
    BY <1>10, GotoFrame DEF DeployInitialConfig, AfterDown, AfterStop, PCKind, NoCommand, Dry,
       Others
  <2>2. Alone'
    BY <1>10, <1>alone, GotoFrame DEF DeployInitialConfig, AfterDown, AfterStop, Alone, PCKind,
       dir, lab, Others
  <2>3. RunInv'
    <3>1. LogStatus(p) \/ \E s \in Phases : SetStatus(p, s)
      BY <1>10 DEF DeployInitialConfig, Phases
    <3>2. lock' = lock /\ files' = files /\ workload' = workload
      BY <1>10 DEF DeployInitialConfig
    <3>. QED
      BY <3>1, <3>2, LogKeeps, RunFrame
  <2>4. UpInv'
    BY <1>dir, <1>alone, <1>10, GotoFrame, LogFrame, SetFrame, LifecycleAssumption DEF
       DeployInitialConfig, AfterDown, AfterStop, UpRun, UpInv, PCKind, SharedOK, StatusOK,
       Others, Files
  <2>5. DownOwner'
    BY <1>dir, <1>alone, <1>10, GotoFrame, LogFrame, SetFrame, LifecycleAssumption DEF
       DeployInitialConfig, AfterDown, AfterStop, DownWork, DownOwner, PCKind, StatusOK,
       ControlOK, Others
  <2>6. DownWorkload'
    BY <1>dir, <1>alone, <1>10, GotoFrame DEF DeployInitialConfig, AfterDown, AfterStop,
       DownWork, DownWorkload, SharedOK, Others
  <2>. QED
    BY <2>1, <2>2, <2>3, <2>4, <2>5, <2>6
<1>11. ASSUME LabStarted(p) PROVE PCKind' /\ Alone' /\ RunInv' /\ UpInv' /\ DownOwner' /\ DownWorkload'
  <2>1. PCKind'
    BY <1>11, GotoFrame DEF LabStarted, AfterDown, AfterStop, PCKind, NoCommand, Dry, Others
  <2>2. Alone'
    BY <1>11, <1>alone, GotoFrame DEF LabStarted, AfterDown, AfterStop, Alone, PCKind, dir,
       lab, Others
  <2>3. RunInv'
    <3>1. LogStatus(p) \/ \E s \in Phases : SetStatus(p, s)
      BY <1>11 DEF LabStarted, Phases
    <3>2. lock' = lock /\ files' = files /\ workload' = workload
      BY <1>11 DEF LabStarted
    <3>. QED
      BY <3>1, <3>2, LogKeeps, RunFrame
  <2>4. UpInv'
    BY <1>dir, <1>alone, <1>11, GotoFrame, LogFrame, SetFrame, LifecycleAssumption DEF
       LabStarted, AfterDown, AfterStop, UpRun, UpInv, PCKind, SharedOK, StatusOK, Others,
       Files
  <2>5. DownOwner'
    BY <1>dir, <1>alone, <1>11, GotoFrame, LogFrame, SetFrame, LifecycleAssumption DEF
       LabStarted, AfterDown, AfterStop, DownWork, DownOwner, PCKind, StatusOK, ControlOK,
       Others
  <2>6. DownWorkload'
    BY <1>dir, <1>alone, <1>11, GotoFrame DEF LabStarted, AfterDown, AfterStop, DownWork,
       DownWorkload, SharedOK, Others
  <2>. QED
    BY <2>1, <2>2, <2>3, <2>4, <2>5, <2>6
<1>12. ASSUME TouchLock(p) PROVE PCKind' /\ Alone' /\ RunInv' /\ UpInv' /\ DownOwner' /\ DownWorkload'
  <2>1. PCKind'
    BY <1>12, GotoFrame DEF TouchLock, AfterDown, AfterStop, PCKind, NoCommand, Dry, Others
  <2>2. Alone'
    BY <1>12, <1>alone, GotoFrame DEF TouchLock, AfterDown, AfterStop, Alone, PCKind, dir, lab,
       Others
  <2>3. RunInv'
    BY <1>12, RunFrame DEF TouchLock
  <2>4. UpInv'
    BY <1>dir, <1>alone, <1>12, GotoFrame, LifecycleAssumption DEF TouchLock, AfterDown,
       AfterStop, UpRun, UpInv, PCKind, SharedOK, StatusOK, Others, Files
  <2>5. DownOwner'
    BY <1>dir, <1>alone, <1>12, GotoFrame, LifecycleAssumption DEF TouchLock, AfterDown,
       AfterStop, DownWork, DownOwner, PCKind, StatusOK, ControlOK, Others
  <2>6. DownWorkload'
    BY <1>dir, <1>alone, <1>12, GotoFrame DEF TouchLock, AfterDown, AfterStop, DownWork,
       DownWorkload, SharedOK, Others
  <2>. QED
    BY <2>1, <2>2, <2>3, <2>4, <2>5, <2>6
<1>. QED
  BY <1>1, <1>2, <1>3, <1>4, <1>5, <1>6, <1>7, <1>8, <1>9, <1>10, <1>11, <1>12 DEF UpStep

\* The steps of netlab down preserve the invariant.
LEMMA DownPreserves ==
  ASSUME SafeUse, IInv, NEW p \in Procs, DownStep(p)
  PROVE  PCKind' /\ Alone' /\ RunInv' /\ UpInv' /\ DownOwner' /\ DownWorkload'
<1> USE DEF IInv
<1> USE DEF PCs, UpPCs, DownPCs, CreatePCs
<1>dir. \A q \in Procs : dir(q) \in Dirs /\ lab(q) \in Labs /\ lab(q) = LabOf[dir(q)]
  BY LifecycleAssumption DEF dir, lab
<1>alone. \A q \in Procs : q # p /\ lab(q) = lab(p) =>
            (pc[q] \in DownPCs => pc[p] = "idle") /\ (pc[p] \in DownPCs => pc[q] = "idle")
  BY DEF Alone
<1>sane. pc[p] \in DownPCs => cmd[p].force = 0 /\ ~Dry(p)
  BY DEF PCKind, Dry
<1>1. ASSUME LoadSnapshot(p) PROVE PCKind' /\ Alone' /\ RunInv' /\ UpInv' /\ DownOwner' /\ DownWorkload'
  <2>1. PCKind'
    BY <1>1, GotoFrame DEF LoadSnapshot, AfterDown, AfterStop, PCKind, NoCommand, Dry, Others
  <2>2. Alone'
    BY <1>1, <1>alone, GotoFrame DEF LoadSnapshot, AfterDown, AfterStop, Alone, PCKind, dir,
       lab, Others
  <2>3. RunInv'
    BY <1>1, RunFrame DEF LoadSnapshot
  <2>4. UpInv'
    BY <1>dir, <1>alone, <1>1, GotoFrame, LifecycleAssumption DEF LoadSnapshot, AfterDown,
       AfterStop, UpRun, UpInv, PCKind, SharedOK, StatusOK, Others, Files
  <2>5. DownOwner'
    BY <1>dir, <1>alone, <1>1, GotoFrame, LifecycleAssumption DEF LoadSnapshot, AfterDown,
       AfterStop, DownWork, DownOwner, PCKind, StatusOK, ControlOK, Others
  <2>6. DownWorkload'
    BY <1>dir, <1>alone, <1>1, GotoFrame DEF LoadSnapshot, AfterDown, AfterStop, DownWork,
       DownWorkload, SharedOK, Others
  <2>. QED
    BY <2>1, <2>2, <2>3, <2>4, <2>5, <2>6
<1>2. ASSUME LabDirMismatch(p) PROVE PCKind' /\ Alone' /\ RunInv' /\ UpInv' /\ DownOwner' /\ DownWorkload'
  <2>a. SeenOwners(p) = {owner[lab(p)]}
    BY DEF SafeUse, SeenOwners
  <2>b. UNCHANGED <<lock, owner, phase, files, workload>>
    BY <1>2 DEF LabDirMismatch
  <2>0. /\ Others(p)
        /\ pc[p] = "mismatch"
        /\ \/ pc'[p] = "idle" /\ cmd'[p] \in {cmd[p], NoCommand}
           \/ /\ pc'[p] = "request" /\ cmd'[p] = cmd[p]
              /\ mismatch'[p] = (owner[lab(p)] \notin {NoDir, dir(p)})
    <3>1. CASE GotoWith(p, "mismatch", "request", {}, owner[lab(p)] \notin {NoDir, dir(p)})
      BY <3>1 DEF GotoWith, ControlOK, Others
    <3>2. CASE Goto(p, "mismatch", "idle")
      BY <3>2, GotoFrame
    <3>. QED
      BY <1>2, <2>a, <3>1, <3>2, Zenon DEF LabDirMismatch
  <2>1. PCKind'
    BY <2>0 DEF PCKind, NoCommand, Others
  <2>2. Alone'
    BY <1>alone, <2>0 DEF Alone, PCKind, dir, lab, Others
  <2>3. RunInv'
    BY <2>b DEF RunInv, Running, RunningIsRegistered, RunningIsLocked, RunningIsRecoverable
  <2>4. UpInv'
    BY <1>dir, <2>0, <2>b DEF UpRun, UpInv, Others
  <2>5. DownOwner'
    <3>1. \A q \in Procs : q # p /\ pc'[q] \in DownWork =>
            /\ mismatch'[q] => owner'[lab(q)] # NoDir /\ owner'[lab(q)] # dir(q)
            /\ ~mismatch'[q] => owner'[lab(q)] = NoDir \/ (owner'[lab(q)] = dir(q) /\ pc'[q] # "unlock")
      BY <2>0, <2>b, Zenon DEF DownOwner, Others
    <3>2. pc'[p] \in DownWork =>
            /\ mismatch'[p] => owner'[lab(p)] # NoDir /\ owner'[lab(p)] # dir(p)
            /\ ~mismatch'[p] => owner'[lab(p)] = NoDir \/ (owner'[lab(p)] = dir(p) /\ pc'[p] # "unlock")
      BY <2>0, <2>b DEF DownWork
    <3>. QED
      BY <3>1, <3>2, Zenon DEF DownOwner, DownWork, dir, lab
  <2>6. DownWorkload'
    BY <2>0, <2>b DEF DownWorkload, Others, dir
  <2>. QED
    BY <2>1, <2>2, <2>3, <2>4, <2>5, <2>6
<1>3. ASSUME ShutdownRequested(p) PROVE PCKind' /\ Alone' /\ RunInv' /\ UpInv' /\ DownOwner' /\ DownWorkload'
  <2>1. PCKind'
    BY <1>3, GotoFrame DEF ShutdownRequested, AfterDown, AfterStop, PCKind, NoCommand, Dry, Others
  <2>2. Alone'
    BY <1>3, <1>alone, GotoFrame DEF ShutdownRequested, AfterDown, AfterStop, Alone, PCKind,
       dir, lab, Others
  <2>3. RunInv'
    <3>1. LogStatus(p) \/ \E s \in Phases : SetStatus(p, s)
      BY <1>3 DEF ShutdownRequested, Phases
    <3>2. lock' = lock /\ files' = files /\ workload' = workload
      BY <1>3 DEF ShutdownRequested
    <3>. QED
      BY <3>1, <3>2, LogKeeps, RunFrame
  <2>4. UpInv'
    BY <1>dir, <1>alone, <1>3, GotoFrame, LogFrame, SetFrame, LifecycleAssumption DEF
       ShutdownRequested, AfterDown, AfterStop, UpRun, UpInv, PCKind, SharedOK, StatusOK,
       Others, Files
  <2>5. DownOwner'
    BY <1>dir, <1>alone, <1>3, GotoFrame, LogFrame, SetFrame, LifecycleAssumption DEF
       ShutdownRequested, AfterDown, AfterStop, DownWork, DownOwner, PCKind, StatusOK,
       ControlOK, Others
  <2>6. DownWorkload'
    BY <1>dir, <1>alone, <1>3, GotoFrame DEF ShutdownRequested, AfterDown, AfterStop, DownWork,
       DownWorkload, SharedOK, Others
  <2>. QED
    BY <2>1, <2>2, <2>3, <2>4, <2>5, <2>6
<1>4. ASSUME DownProbes(p) PROVE PCKind' /\ Alone' /\ RunInv' /\ UpInv' /\ DownOwner' /\ DownWorkload'
  <2>0. /\ Others(p)
        /\ pc[p] = "down_probes" /\ mismatch'[p] \in {mismatch[p], FALSE}
        /\ cmd'[p] \in {cmd[p], NoCommand}
        /\ \/ /\ pc'[p] = "stopping" /\ todo'[p] = Providers
              /\ mismatch'[p] = mismatch[p] /\ cmd'[p] = cmd[p]
           \/ pc'[p] = "idle"
           \/ pc'[p] = "check" /\ cmd'[p] = cmd[p] /\ cmd[p].kind = "restart"
    BY <1>4, LifecycleAssumption DEF DownProbes, Goto, GotoWith, ControlOK, StatusOK, Others,
       AfterTopology, AfterDown, AfterStop, PCKind, Dry
  <2>1. PCKind'
    BY <1>4, <2>0 DEF PCKind, NoCommand, Dry, Others
  <2>2. Alone'
    BY <1>4, <1>alone, <2>0 DEF Alone, PCKind, dir, lab, Others
  <2>3. RunInv'
    <3>1. LogStatus(p) \/ \E s \in Phases : SetStatus(p, s)
      BY <1>4 DEF DownProbes, Phases
    <3>2. lock' = lock /\ files' = files /\ workload' = workload
      BY <1>4 DEF DownProbes
    <3>. QED
      BY <3>1, <3>2, LogKeeps, RunFrame
  <2>4. UpInv'
    BY <1>dir, <1>alone, <1>4, <2>0, LogFrame, SetFrame, LifecycleAssumption DEF DownProbes,
       UpRun, UpInv, PCKind, SharedOK, StatusOK, Others, Files
  <2>5. DownOwner'
    BY <1>dir, <1>alone, <1>4, <2>0, LogFrame, SetFrame, LifecycleAssumption DEF DownProbes,
       DownWork, DownOwner, PCKind, StatusOK, ControlOK, Others
  <2>6. DownWorkload'
    BY <1>dir, <1>alone, <1>4, <2>0 DEF DownProbes, DownWork, DownWorkload, SharedOK, Others
  <2>. QED
    BY <2>1, <2>2, <2>3, <2>4, <2>5, <2>6
<1>5. ASSUME StoppingProvider(p) PROVE PCKind' /\ Alone' /\ RunInv' /\ UpInv' /\ DownOwner' /\ DownWorkload'
  <2>1. PCKind'
    BY <1>5, GotoFrame DEF StoppingProvider, AfterDown, AfterStop, PCKind, NoCommand, Dry, Others
  <2>2. Alone'
    BY <1>5, <1>alone, GotoFrame DEF StoppingProvider, AfterDown, AfterStop, Alone, PCKind,
       dir, lab, Others
  <2>3. RunInv'
    <3>1. LogStatus(p) \/ \E s \in Phases : SetStatus(p, s)
      BY <1>5 DEF StoppingProvider, Phases
    <3>2. lock' = lock /\ files' = files /\ workload' = workload
      BY <1>5 DEF StoppingProvider
    <3>. QED
      BY <3>1, <3>2, LogKeeps, RunFrame
  <2>4. UpInv'
    BY <1>dir, <1>alone, <1>5, GotoFrame, LogFrame, SetFrame, LifecycleAssumption DEF
       StoppingProvider, AfterDown, AfterStop, UpRun, UpInv, PCKind, SharedOK, StatusOK,
       Others, Files
  <2>5. DownOwner'
    BY <1>dir, <1>alone, <1>5, GotoFrame, LogFrame, SetFrame, LifecycleAssumption DEF
       StoppingProvider, AfterDown, AfterStop, DownWork, DownOwner, PCKind, StatusOK,
       ControlOK, Others
  <2>6. DownWorkload'
    BY <1>dir, <1>alone, <1>5, GotoFrame DEF StoppingProvider, AfterDown, AfterStop, DownWork,
       DownWorkload, SharedOK, Others
  <2>. QED
    BY <2>1, <2>2, <2>3, <2>4, <2>5, <2>6
<1>6. ASSUME StopProviderLab(p) PROVE PCKind' /\ Alone' /\ RunInv' /\ UpInv' /\ DownOwner' /\ DownWorkload'
  <2>a. PICK v \in NextDown(todo[p]), OK \in BOOLEAN :
          /\ GotoWith(p, "stop", IF OK \/ cmd[p].force > 0 THEN "stopped" ELSE "failed",
                      todo[p] \ {v}, mismatch[p])
          /\ workload' = IF Dry(p) \/ ~OK THEN workload
                         ELSE [workload EXCEPT ![dir(p)] = @ \ {v}]
    BY <1>6, Zenon DEF StopProviderLab
  <2>b. cmd[p].force = 0 /\ ~Dry(p)
    BY <1>sane, <2>a DEF GotoWith
  <2>0. /\ GotoWith(p, "stop", IF OK THEN "stopped" ELSE "failed", todo[p] \ {v}, mismatch[p])
        /\ workload' = IF OK THEN [workload EXCEPT ![dir(p)] = @ \ {v}] ELSE workload
    <3>1. ~(cmd[p].force > 0)
      BY <2>b
    <3>. QED
      BY <2>a, <2>b, <3>1, Zenon
  <2>1. /\ Others(p) /\ pc[p] = "stop" /\ cmd'[p] = cmd[p]
        /\ mismatch'[p] = mismatch[p] /\ todo'[p] = todo[p] \ {v}
        /\ pc'[p] = IF OK THEN "stopped" ELSE "failed"
    BY <2>0 DEF GotoWith, ControlOK, Others
  <2>2. PCKind'
    BY <2>1 DEF PCKind, Others
  <2>3. Alone'
    BY <1>alone, <2>1 DEF Alone, PCKind, dir, lab, Others
  <2>4. RunInv'
    BY <1>dir, <1>6, <2>0, <2>1 DEF StopProviderLab, RunInv, SharedOK, StatusOK, Running,
       RunningIsRegistered, RunningIsLocked, RunningIsRecoverable
  <2>5. UpInv'
    BY <1>alone, <1>6, <2>1 DEF StopProviderLab, UpRun, UpInv, Others
  <2>6. DownOwner'
    BY <1>alone, <1>6, <2>1 DEF StopProviderLab, DownWork, DownOwner, Others
  <2>7. DownWorkload'
    BY <1>dir, <1>alone, <2>0, <2>1 DEF DownWorkload, SharedOK, Others
  <2>. QED
    BY <2>2, <2>3, <2>4, <2>5, <2>6, <2>7
<1>7. ASSUME ProviderStopped(p) PROVE PCKind' /\ Alone' /\ RunInv' /\ UpInv' /\ DownOwner' /\ DownWorkload'
  <2>1. PCKind'
    BY <1>7, GotoFrame DEF ProviderStopped, AfterDown, AfterStop, PCKind, NoCommand, Dry, Others
  <2>2. Alone'
    BY <1>7, <1>alone, GotoFrame DEF ProviderStopped, AfterDown, AfterStop, Alone, PCKind, dir,
       lab, Others
  <2>3. RunInv'
    <3>1. LogStatus(p) \/ \E s \in Phases : SetStatus(p, s)
      BY <1>7 DEF ProviderStopped, Phases
    <3>2. lock' = lock /\ files' = files /\ workload' = workload
      BY <1>7 DEF ProviderStopped
    <3>. QED
      BY <3>1, <3>2, LogKeeps, RunFrame
  <2>4. UpInv'
    BY <1>dir, <1>alone, <1>7, GotoFrame, LogFrame, SetFrame, LifecycleAssumption DEF
       ProviderStopped, AfterDown, AfterStop, UpRun, UpInv, PCKind, SharedOK, StatusOK, Others,
       Files
  <2>5. DownOwner'
    BY <1>dir, <1>alone, <1>7, GotoFrame, LogFrame, SetFrame, LifecycleAssumption DEF
       ProviderStopped, AfterDown, AfterStop, DownWork, DownOwner, PCKind, StatusOK, ControlOK,
       Others
  <2>6. DownWorkload'
    BY <1>dir, <1>alone, <1>7, GotoFrame DEF ProviderStopped, AfterDown, AfterStop, DownWork,
       DownWorkload, SharedOK, Others
  <2>. QED
    BY <2>1, <2>2, <2>3, <2>4, <2>5, <2>6
<1>8. ASSUME DownCleanup(p) PROVE PCKind' /\ Alone' /\ RunInv' /\ UpInv' /\ DownOwner' /\ DownWorkload'
  <2>1. PCKind'
    BY <1>8, GotoFrame DEF DownCleanup, AfterDown, AfterStop, PCKind, NoCommand, Dry, Others
  <2>2. Alone'
    BY <1>8, <1>alone, GotoFrame DEF DownCleanup, AfterDown, AfterStop, Alone, PCKind, dir,
       lab, Others
  <2>3. RunInv'
    <3>1. lock' = lock /\ owner' = owner /\ workload' = workload
      BY <1>8 DEF DownCleanup
    <3>2. workload[dir(p)] = {}
      BY <1>8 DEF DownCleanup, Goto, GotoWith, DownWorkload
    <3>3. \A d \in Dirs : d # dir(p) => files'[d] = files[d]
      BY <1>8 DEF DownCleanup, SharedOK
    <3>. QED
      BY <3>1, <3>2, <3>3 DEF RunInv, Running, RunningIsRegistered, RunningIsLocked,
         RunningIsRecoverable
  <2>4. UpInv'
    BY <1>dir, <1>alone, <1>8, GotoFrame, LifecycleAssumption DEF DownCleanup, AfterDown,
       AfterStop, UpRun, UpInv, PCKind, SharedOK, StatusOK, Others, Files
  <2>5. DownOwner'
    BY <1>dir, <1>alone, <1>8, GotoFrame, LifecycleAssumption DEF DownCleanup, AfterDown,
       AfterStop, DownWork, DownOwner, PCKind, StatusOK, ControlOK, Others
  <2>6. DownWorkload'
    BY <1>dir, <1>alone, <1>8, GotoFrame DEF DownCleanup, AfterDown, AfterStop, DownWork,
       DownWorkload, SharedOK, Others
  <2>. QED
    BY <2>1, <2>2, <2>3, <2>4, <2>5, <2>6
<1>9. ASSUME RemoveLabStatus(p) PROVE PCKind' /\ Alone' /\ RunInv' /\ UpInv' /\ DownOwner' /\ DownWorkload'
  <2>1. /\ Others(p)
        /\ pc[p] = "remove" /\ pc'[p] = "unlock"
        /\ cmd'[p] = cmd[p] /\ todo'[p] = todo[p] /\ mismatch'[p] = mismatch[p]
        /\ lock' = lock /\ files' = files /\ workload' = workload
    <3>1. Goto(p, "remove", "unlock") /\ UNCHANGED <<lock, files, workload>>
      BY <1>9, Zenon DEF RemoveLabStatus
    <3>. QED
      BY <3>1, GotoFrame
  <2>2. \A l \in Labs : l # lab(p) => owner'[l] = owner[l]
    BY <1>9 DEF RemoveLabStatus, StatusOK
  <2>3. /\ owner'[lab(p)] # dir(p)
        /\ mismatch[p] => owner'[lab(p)] = owner[lab(p)]
        /\ ~mismatch[p] => owner'[lab(p)] = NoDir
    <3>1. CASE mismatch[p]
      <4>1. owner' = owner
        BY <1>9, <3>1 DEF RemoveLabStatus
      <4>. QED
        BY <2>1, <3>1, <4>1 DEF DownOwner, DownWork
    <3>2. CASE ~mismatch[p]
      <4>1. owner' = [owner EXCEPT ![lab(p)] = NoDir]
        BY <1>9, <3>2 DEF RemoveLabStatus
      <4>. QED
        BY <1>dir, <3>2, <4>1, LifecycleAssumption DEF StatusOK
    <3>. QED
      BY <3>1, <3>2
  <2>4. PCKind'
    BY <2>1 DEF PCKind, Others
  <2>5. Alone'
    BY <1>alone, <2>1 DEF Alone, PCKind, dir, lab, Others
  <2>6. RunInv'
    <3>1. workload[dir(p)] = {}
      BY <2>1 DEF DownWorkload
    <3>2. mismatch[p] => owner[lab(p)] # dir(p)
      BY <2>1 DEF DownOwner, DownWork
    <3>3. ~mismatch[p] => owner[lab(p)] \in {NoDir, dir(p)}
      BY <2>1 DEF DownOwner, DownWork
    <3>4. ASSUME NEW d \in Dirs, workload[d] # {} PROVE owner'[LabOf[d]] = d
      <4>1. owner[LabOf[d]] = d
        BY <3>4 DEF RunInv, RunningIsRegistered, Running
      <4>2. LabOf[d] \in Labs
        BY LifecycleAssumption
      <4>3. d # dir(p) /\ d # NoDir
        BY <3>1, <3>4, LifecycleAssumption
      <4>4. mismatch[p] \in BOOLEAN
        BY DEF ControlOK
      <4>5. LabOf[d] = lab(p) => mismatch[p]
        BY <3>3, <4>1, <4>3
      <4>. QED
        BY <2>2, <2>3, <4>1, <4>2, <4>5
    <3>. QED
      BY <2>1, <3>4 DEF RunInv, Running, RunningIsRegistered, RunningIsLocked,
         RunningIsRecoverable
  <2>7. UpInv'
    BY <1>dir, <1>alone, <2>1, <2>2 DEF UpRun, UpInv, Others
  <2>8. DownOwner'
    <3>1. \A q \in Procs : q # p /\ pc[q] \in DownWork => lab(q) # lab(p)
      BY <1>alone, <2>1 DEF DownWork
    <3>2. \A q \in Procs : q # p /\ pc'[q] \in DownWork =>
            /\ mismatch'[q] => owner'[lab(q)] # NoDir /\ owner'[lab(q)] # dir(q)
            /\ ~mismatch'[q] => owner'[lab(q)] = NoDir \/ (owner'[lab(q)] = dir(q) /\ pc'[q] # "unlock")
      <4> SUFFICES ASSUME NEW q \in Procs, q # p, pc'[q] \in DownWork
                   PROVE  /\ mismatch'[q] => owner'[lab(q)] # NoDir /\ owner'[lab(q)] # dir(q)
                          /\ ~mismatch'[q] => owner'[lab(q)] = NoDir \/ (owner'[lab(q)] = dir(q) /\ pc'[q] # "unlock")
        OBVIOUS
      <4>1. pc'[q] = pc[q] /\ mismatch'[q] = mismatch[q]
        BY <2>1 DEF Others
      <4>2. owner'[lab(q)] = owner[lab(q)]
        BY <1>dir, <2>2, <3>1, <4>1
      <4>. QED
        BY <4>1, <4>2, Zenon DEF DownOwner
    <3>3. mismatch[p] => owner[lab(p)] # NoDir /\ owner[lab(p)] # dir(p)
      BY <2>1 DEF DownOwner, DownWork
    <3>4. /\ mismatch'[p] => owner'[lab(p)] # NoDir /\ owner'[lab(p)] # dir(p)
          /\ ~mismatch'[p] => owner'[lab(p)] = NoDir
      BY <2>1, <2>3, <3>3, Zenon
    <3>. QED
      BY <3>2, <3>4, Zenon DEF DownOwner, DownWork, dir, lab
  <2>9. DownWorkload'
    BY <1>dir, <1>alone, <2>1 DEF DownWorkload, SharedOK, Others, dir, lab
  <2>. QED
    BY <2>4, <2>5, <2>6, <2>7, <2>8, <2>9
<1>10. ASSUME UnlockDirectory(p) PROVE PCKind' /\ Alone' /\ RunInv' /\ UpInv' /\ DownOwner' /\ DownWorkload'
  <2>1. PCKind'
    BY <1>10, GotoFrame DEF UnlockDirectory, AfterDown, AfterStop, PCKind, NoCommand, Dry, Others
  <2>2. Alone'
    BY <1>10, <1>alone, GotoFrame DEF UnlockDirectory, AfterDown, AfterStop, Alone, PCKind,
       dir, lab, Others
  <2>3. RunInv'
    BY <1>dir, <1>10, GotoFrame, LifecycleAssumption DEF UnlockDirectory, AfterDown, AfterStop,
       RunInv, UpRun, UpInv, DownOwner, DownWorkload, DownWork, PCKind, Dry, SharedOK,
       StatusOK, Running, RunningIsRegistered, RunningIsLocked, RunningIsRecoverable, Files,
       NextUp
  <2>4. UpInv'
    BY <1>dir, <1>alone, <1>10, GotoFrame, LifecycleAssumption DEF UnlockDirectory, AfterDown,
       AfterStop, UpRun, UpInv, PCKind, SharedOK, StatusOK, Others, Files
  <2>5. DownOwner'
    BY <1>dir, <1>alone, <1>10, GotoFrame, LifecycleAssumption DEF UnlockDirectory, AfterDown,
       AfterStop, DownWork, DownOwner, PCKind, StatusOK, ControlOK, Others
  <2>6. DownWorkload'
    BY <1>dir, <1>alone, <1>10, GotoFrame DEF UnlockDirectory, AfterDown, AfterStop, DownWork,
       DownWorkload, SharedOK, Others
  <2>. QED
    BY <2>1, <2>2, <2>3, <2>4, <2>5, <2>6
<1>. QED
  BY <1>1, <1>2, <1>3, <1>4, <1>5, <1>6, <1>7, <1>8, <1>9, <1>10 DEF DownStep

\* A command is entered only where no netlab down or restart is at work.
LEMMA EnterPreserves ==
  ASSUME SafeUse, IInv, NEW p \in Procs, NEW c \in Commands, Enter(p, c)
  PROVE  PCKind' /\ Alone' /\ RunInv' /\ UpInv' /\ DownOwner' /\ DownWorkload'
<1> USE DEF PCs, UpPCs, DownPCs, CreatePCs
<1>1. /\ pc[p] = "idle" /\ pc'[p] = FirstPC(c) /\ cmd'[p] = c
      /\ \A q \in Procs : q # p => pc'[q] = pc[q] /\ cmd'[q] = cmd[q]
      /\ UNCHANGED <<todo, mismatch, lock, owner, phase, files, workload>>
  BY DEF Enter, IInv, ControlOK
<1>2. c.kind \in Kinds /\ c.force = 0 /\ ~c.unlock /\ (c.dry => c.kind = "up")
  BY LifecycleAssumption DEF SafeUse, CommandType
<1>3. FirstPC(c) \in {"provider_check", "snapshot", "check", "load"}
  BY <1>2 DEF FirstPC
<1>4. FirstPC(c) = "load" => c.kind \in {"down", "restart"}
  BY <1>2 DEF FirstPC, Kinds
<1>5. FirstPC(c) \in {"snapshot", "check"} => c.kind = "up"
  BY <1>2 DEF FirstPC, Kinds
<1>6. FirstPC(c) = "provider_check" => c.kind \in {"create", "up"}
  BY <1>2 DEF FirstPC, Kinds
<1>7. \A q \in Procs : q # p /\ pc[q] # "idle" /\ lab(q) = lab(p)
        => cmd[q].kind \in {"up", "create"} /\ c.kind \in {"up", "create"}
  <2> SUFFICES ASSUME NEW q \in Procs, q # p, pc[q] # "idle", lab(q) = lab(p)
               PROVE  cmd[q].kind \in {"up", "create"} /\ c.kind \in {"up", "create"}
    OBVIOUS
  <2>1. {cmd[q].kind, c.kind} \in IF dir(q) = dir(p) THEN DirRaces ELSE LabRaces
    BY Zenon DEF Enter, MayOverlap
  <2>2. {cmd[q].kind, c.kind} \in DirRaces \cup LabRaces
    BY <2>1
  <2>3. {cmd[q].kind, c.kind} \subseteq {"up", "create"}
    BY <2>2 DEF SafeUse
  <2>. QED
    BY <2>3
<1>8. PCKind'
  BY <1>1, <1>2, <1>3, <1>4, <1>5, <1>6 DEF IInv, PCKind
<1>9. Alone'
  BY <1>1, <1>3, <1>4, <1>7 DEF IInv, Alone, PCKind, lab, dir
<1>10. RunInv'
  BY <1>1 DEF IInv, RunInv, RunningIsRegistered, RunningIsLocked, RunningIsRecoverable, Running
<1>11. UpInv'
  BY <1>1, <1>3 DEF IInv, UpInv, UpRun, lab, dir
<1>12. DownOwner' /\ DownWorkload'
  BY <1>1, <1>3 DEF IInv, DownOwner, DownWorkload, DownWork, lab, dir
<1>. QED
  BY <1>8, <1>9, <1>10, <1>11, <1>12

\* Every step of normal use keeps the invariant.
LEMMA InvStep ==
  ASSUME SafeUse, IInv, [Next]_vars
  PROVE  IInv'
<1>1. ControlOK' /\ StatusOK' /\ SharedOK'
  BY TypeStep, TypeParts DEF IInv, TypeOK, ControlOK, StatusOK, SharedOK
<1>2. CASE UNCHANGED vars
  BY <1>2 DEF vars, IInv, ControlOK, StatusOK, SharedOK, PCKind, Alone, RunInv, UpInv,
     DownOwner, DownWorkload, RunningIsRegistered, RunningIsLocked, RunningIsRecoverable,
     Running, lab, dir
<1>3. CASE Next
  <2>1. ASSUME NEW p \in Procs, CreateUnlock(p) PROVE FALSE
    BY <2>1 DEF CreateUnlock, Goto, GotoWith, IInv, PCKind
  <2>. QED
    BY <1>1, <1>3, <2>1, EnterPreserves, EndingPreserves, CreatePreserves, UpPreserves,
       DownPreserves DEF Next, IInv
<1>. QED
  BY <1>2, <1>3

\* The invariant holds in the beginning.
LEMMA InvInit == Init => IInv
<1> SUFFICES ASSUME Init PROVE IInv
  OBVIOUS
<1>1. ControlOK /\ StatusOK /\ SharedOK
  BY DEF Init, ControlOK, StatusOK, SharedOK, PCs, Phases
<1>2. \A p \in Procs : pc[p] = "idle" /\ cmd[p] = NoCommand
  BY DEF Init
<1>3. Running = {}
  BY DEF Init, Running
<1>. QED
  BY <1>1, <1>2, <1>3 DEF IInv, PCKind, Alone, RunInv, UpInv, UpRun, DownOwner, DownWorkload,
     DownWork, RunningIsRegistered, RunningIsLocked, RunningIsRecoverable, UpPCs, DownPCs,
     CreatePCs, NoCommand

\* In normal use the inductive invariant holds at all times.
THEOREM Invariance == SafeUse => (Spec => []IInv)
<1> SUFFICES ASSUME SafeUse PROVE Spec => []IInv
  OBVIOUS
<1>1. IInv /\ [Next]_vars => IInv'
  BY InvStep
<1>. QED
  BY <1>1, InvInit, PTL DEF Spec

\* In normal use whatever runs is registered under its directory, locked, and
\* can be shut down with the files that are still there.
THEOREM RunningIsSafe ==
  SafeUse => (Spec => []RunningIsManaged)
<1>1. IInv => RunningIsManaged
  BY DEF IInv, RunInv, RunningIsManaged
<1>. QED
  BY <1>1, Invariance, PTL

\* In normal use two directories never run the same lab instance.
THEOREM InstanceIsUnique == SafeUse => (Spec => []OneInstance)
<1>1. IInv => OneInstance
  BY DEF IInv, RunInv, RunningIsRegistered, OneInstance
<1>. QED
  BY <1>1, Invariance, PTL

\* In normal use netlab down reaches its last step only when nothing is left.
THEOREM DownIsComplete == SafeUse => (Spec => []DownLeavesNothing)
<1>1. IInv => DownLeavesNothing
  <2> SUFFICES ASSUME IInv, NEW p \in Procs, pc[p] = "unlock"
               PROVE  dir(p) \notin Running /\ owner[lab(p)] # dir(p)
    BY DEF DownLeavesNothing
  <2>1. workload[dir(p)] = {}
    BY DEF IInv, DownWorkload
  <2>2. owner[lab(p)] = NoDir \/ owner[lab(p)] # dir(p)
    BY DEF IInv, DownOwner, DownWork, DownPCs
  <2>. QED
    BY <2>1, <2>2, LifecycleAssumption DEF Running, dir
<1>. QED
  BY <1>1, Invariance, PTL

-----------------------------------------------------------------------------
(* The lifecycle implements LabRegistry *)

Registers(p) == owner' \in {owner, Touched(lab(p), dir(p))} /\ workload' = workload

\* A log line or a status claims a free instance, or changes nothing there.
LEMMA RegistersRefines ==
  ASSUME StatusOK, NEW p \in Procs, Registers(p)
  PROVE  [Registry!Next]_(Registry!vars)
<1>1. dir(p) \in Dirs /\ lab(p) = LabOf[dir(p)] /\ lab(p) \in Labs
  BY LifecycleAssumption DEF dir, lab
<1>2. UNCHANGED Running
  BY DEF Registers, Running
<1>3. CASE owner[lab(p)] = NoDir /\ owner' = Touched(lab(p), dir(p))
  <2>1. owner' = [owner EXCEPT ![LabOf[dir(p)]] = dir(p)]
    BY <1>1, <1>3 DEF Touched
  <2>2. Registry!Claim(dir(p))
    BY <1>1, <1>2, <1>3, <2>1 DEF Registry!Claim
  <2>. QED
    BY <1>1, <2>2 DEF Registry!Next
<1>4. CASE owner' = owner \/ owner[lab(p)] # NoDir
  <2>1. owner' = owner
    BY <1>1, <1>4 DEF Registers, Touched, StatusOK
  <2>. QED
    BY <1>2, <2>1 DEF Registry!vars
<1>. QED
  BY <1>3, <1>4 DEF Registers

\* A provider starts in the directory that owns the instance.
LEMMA StartRefines ==
  ASSUME IInv, NEW p \in Procs, StartProviderLab(p)
  PROVE  [Registry!Next]_(Registry!vars)
<1>1. dir(p) \in Dirs /\ lab(p) = LabOf[dir(p)]
  BY LifecycleAssumption DEF dir, lab
<1>2. owner' = owner /\ pc[p] = "launch"
  BY DEF StartProviderLab, GotoWith
<1>3. owner[LabOf[dir(p)]] = dir(p)
  BY <1>1, <1>2 DEF IInv, UpInv, UpRun
<1>4. PICK v : workload' = workload \/ workload' = [workload EXCEPT ![dir(p)] = @ \cup {v}]
  BY DEF StartProviderLab
<1>5. Running' = Running \/ Running' = Running \cup {dir(p)}
  BY <1>1, <1>4 DEF Running, IInv, SharedOK
<1>6. CASE Running' = Running \cup {dir(p)}
  BY <1>1, <1>2, <1>3, <1>6 DEF Registry!Next, Registry!Start
<1>7. CASE Running' = Running
  BY <1>2, <1>7 DEF Registry!vars
<1>. QED
  BY <1>5, <1>6, <1>7

\* What a shutdown stops is stopped in the registry.
LEMMA StopRefines ==
  ASSUME IInv, NEW p \in Procs, StopProviderLab(p)
  PROVE  [Registry!Next]_(Registry!vars)
<1>1. dir(p) \in Dirs /\ owner' = owner
  BY LifecycleAssumption DEF dir, StopProviderLab
<1>2. PICK v : workload' = workload \/ workload' = [workload EXCEPT ![dir(p)] = @ \ {v}]
  BY DEF StopProviderLab
<1>3. Running' = Running \/ Running' = Running \ {dir(p)}
  BY <1>1, <1>2 DEF Running, IInv, SharedOK
<1>4. CASE Running' = Running \ {dir(p)}
  BY <1>1, <1>4 DEF Registry!Next, Registry!Stop
<1>5. CASE Running' = Running
  BY <1>1, <1>5 DEF Registry!vars
<1>. QED
  BY <1>3, <1>4, <1>5

\* netlab down gives the instance up after the last workload is gone.
LEMMA RemoveRefines ==
  ASSUME IInv, NEW p \in Procs, RemoveLabStatus(p)
  PROVE  [Registry!Next]_(Registry!vars)
<1>1. dir(p) \in Dirs /\ lab(p) \in Labs
  BY LifecycleAssumption DEF dir, lab
<1>2. pc[p] = "remove" /\ workload' = workload
  BY DEF RemoveLabStatus, Goto, GotoWith
<1>3. Running' = Running
  BY <1>2 DEF Running
<1>4. workload[dir(p)] = {}
  BY <1>2 DEF IInv, DownWorkload
<1>5. CASE mismatch[p]
  <2>1. owner' = owner
    BY <1>5 DEF RemoveLabStatus
  <2>. QED
    BY <1>3, <2>1 DEF Registry!vars
<1>6. CASE ~mismatch[p]
  <2>1. owner' = [owner EXCEPT ![lab(p)] = NoDir]
    BY <1>6 DEF RemoveLabStatus
  <2>2. owner[lab(p)] \in {NoDir, dir(p)}
    BY <1>2, <1>6 DEF IInv, DownOwner, DownWork, DownPCs
  <2>3. owner[lab(p)] \notin Running
    BY <1>4, <2>2, LifecycleAssumption DEF Running
  <2>4. Registry!Release(lab(p))
    BY <1>3, <2>1, <2>3 DEF Registry!Release
  <2>. QED
    BY <1>1, <2>4 DEF Registry!Next
<1>. QED
  BY <1>5, <1>6

\* Every step starts, stops or removes something, or registers a lab at the most.
LEMMA OtherStepsRegister ==
  ASSUME NEW p \in Procs,
         \/ \E c \in Commands : Enter(p, c)
         \/ Exit(p) \/ Interrupt(p) \/ LogFailure(p)
         \/ CreateStep(p) \/ UpStep(p) \/ DownStep(p)
  PROVE  Registers(p) \/ StartProviderLab(p) \/ StopProviderLab(p) \/ RemoveLabStatus(p)
<1>1. ASSUME LogStatus(p) \/ \E s \in Phases : SetStatus(p, s)
      PROVE  owner' \in {owner, Touched(lab(p), dir(p))}
  BY <1>1 DEF LogStatus, SetStatus
<1>2. CASE \E c \in Commands : Enter(p, c)
  BY <1>2 DEF Enter, Registers
<1>3. CASE Exit(p) \/ Interrupt(p) \/ LogFailure(p)
  BY <1>1, <1>3 DEF Exit, Interrupt, LogFailure, Registers
<1>4. CASE CreateStep(p)
  BY <1>1, <1>4 DEF CreateStep, CreateUnlock, CheckWriteable, WriteProviderFiles, WritePickle,
     Registers
<1>5. CASE UpStep(p)
  BY <1>1, <1>5 DEF UpStep, CheckExistingLab, UpSnapshot, CheckLabInstance, ProviderProbes,
     StatusStartLab, LockDirectory, StatusStartProvider, WorkloadStarted, DeployInitialConfig,
     LabStarted, TouchLock, Registers, Phases
<1>6. CASE DownStep(p)
  BY <1>1, <1>6 DEF DownStep, LoadSnapshot, LabDirMismatch, ShutdownRequested, DownProbes,
     StoppingProvider, ProviderStopped, DownCleanup, UnlockDirectory, Registers, Phases
<1>. QED
  BY <1>2, <1>3, <1>4, <1>5, <1>6

\* In normal use the four commands implement the registry of lab instances:
\* one directory claims an instance, runs it, and gives it up when it is down.
THEOREM Refinement == SafeUse => (Spec => ImplementsRegistry)
<1> SUFFICES ASSUME SafeUse PROVE Spec => ImplementsRegistry
  OBVIOUS
<1>1. Init => Registry!Init
  BY DEF Init, Registry!Init, Running
<1>2. IInv /\ [Next]_vars => [Registry!Next]_(Registry!vars)
  <2> SUFFICES ASSUME IInv, [Next]_vars PROVE [Registry!Next]_(Registry!vars)
    OBVIOUS
  <2>1. CASE UNCHANGED vars
    BY <2>1 DEF vars, Registry!vars, Running
  <2>2. CASE Next
    <3>1. PICK p \in Procs :
            Registers(p) \/ StartProviderLab(p) \/ StopProviderLab(p) \/ RemoveLabStatus(p)
      BY <2>2, OtherStepsRegister DEF Next
    <3>. QED
      BY <3>1, RegistersRefines, StartRefines, StopRefines, RemoveRefines DEF IInv
  <2>. QED
    BY <2>1, <2>2
<1>. QED
  BY <1>1, <1>2, Invariance, PTL DEF Spec, ImplementsRegistry, Registry!Spec
-----------------------------------------------------------------------------
(* Started labs are complete.  No flag is excluded here: --force, --unlock,   *)
(* dry runs and torn reads may happen.  All that is asked of the users is     *)
(* that netlab down and netlab restart are alone on their instance.           *)

OnlyUpsOverlap == \A R \in DirRaces \cup LabRaces : R \subseteq {"up", "create"}

DownKind == \A p \in Procs : pc[p] \in DownPCs => cmd[p].kind \in {"down", "restart"}

\* The lab instance of a directory is the one of its topology.
OwnersMatch == \A l \in Labs : owner[l] # NoDir => LabOf[owner[l]] = l

Launching == {"provider", "launch", "launched"}
Launched == {"configure", "started", "touch_check", "touch"}

\* netlab up owns the instance, and what it has not to start any more runs.
Launches ==
  \A p \in Procs :
    /\ pc[p] \in UpRun => owner[lab(p)] = dir(p) /\ ~Dry(p)
    /\ pc[p] \in Launching \cup Launched => Providers \ todo[p] \subseteq workload[dir(p)]
    /\ pc[p] \in Launched => todo[p] = {}

\* A workload is stopped only after the status has told so.
StopsAreTold ==
  \A p \in Procs : pc[p] = "stop" /\ ~Dry(p) => phase[lab(p)] # "started"

CompleteInv ==
  /\ ControlOK /\ StatusOK /\ SharedOK
  /\ DownKind /\ Alone /\ OwnersMatch /\ Launches /\ StopsAreTold /\ StartedIsComplete

\* What a step of a command does to the things the invariant is about.
StepFacts(p) ==
  /\ Others(p) /\ pc[p] # "idle"
  /\ cmd'[p] = cmd[p] \/ pc'[p] = "idle"
  /\ pc'[p] \in DownPCs => pc[p] \in DownPCs
  /\ pc'[p] \in UpRun => \/ pc[p] \in UpRun
                         \/ pc'[p] = "lock" /\ owner'[lab(p)] = dir(p) /\ ~Dry(p)
  /\ pc'[p] \in Launching \cup Launched =>
       \/ pc[p] \in Launching \cup Launched /\ todo'[p] = todo[p]
       \/ Providers \ todo'[p] \subseteq (Providers \ todo[p]) \cup workload'[dir(p)]
          /\ pc[p] = "launch"
       \/ pc[p] = "lock" /\ todo'[p] = Providers
  /\ pc'[p] \in Launched => todo'[p] = {} \/ (pc[p] \in Launched /\ todo'[p] = todo[p])
  /\ pc'[p] = "stop" => phase'[lab(p)] = "stopping" \/ Dry(p)

\* What it does to the status and to the workload.
StatusFacts(p) ==
  /\ \A l \in Labs : l # lab(p) => owner'[l] = owner[l] /\ phase'[l] = phase[l]
  /\ \/ owner'[lab(p)] = owner[lab(p)]
     \/ owner[lab(p)] = NoDir /\ owner'[lab(p)] = dir(p)
     \/ pc[p] = "remove" /\ owner'[lab(p)] = NoDir /\ phase'[lab(p)] = ""
  /\ phase'[lab(p)] = "started" => phase[lab(p)] = "started" \/ pc[p] = "started"

WorkloadFacts(p) ==
  /\ \A d \in Dirs : d # dir(p) => workload'[d] = workload[d]
  /\ workload[dir(p)] \subseteq workload'[dir(p)] \/ (pc[p] = "stop" /\ ~Dry(p))

\* A command that ends here changes nothing but its own control state and the log.
LEMMA EndingFacts ==
  ASSUME ControlOK, StatusOK, SharedOK, NEW p \in Procs, Exit(p) \/ Interrupt(p) \/ LogFailure(p)
  PROVE  StepFacts(p) /\ StatusFacts(p) /\ WorkloadFacts(p)
<1> USE DEF PCs, UpPCs, DownPCs, CreatePCs
<1>dir. dir(p) \in Dirs /\ lab(p) \in Labs
  BY LifecycleAssumption DEF dir, lab
<1>1. ASSUME Exit(p) PROVE StepFacts(p) /\ StatusFacts(p) /\ WorkloadFacts(p)
  <2>1. StepFacts(p)
    BY <1>dir, <1>1 DEF Exit, Goto, GotoWith, ControlOK, StatusOK, StepFacts, Others, Dry,
       UpRun, Launching, Launched
  <2>2. StatusFacts(p)
    BY <1>dir, <1>1 DEF Exit, Goto, GotoWith, StatusOK, StatusFacts, Dry
  <2>3. WorkloadFacts(p)
    BY <1>dir, <1>1 DEF Exit, SharedOK, WorkloadFacts
  <2>. QED
    BY <2>1, <2>2, <2>3
<1>2. ASSUME Interrupt(p) PROVE StepFacts(p) /\ StatusFacts(p) /\ WorkloadFacts(p)
  <2>1. StepFacts(p)
    BY <1>dir, <1>2 DEF Interrupt, Goto, GotoWith, ControlOK, StatusOK, StepFacts, Others,
       LogStatus, Touched, Dry, UpRun, Launching, Launched
  <2>2. StatusFacts(p)
    BY <1>dir, <1>2 DEF Interrupt, Goto, GotoWith, StatusOK, StatusFacts, LogStatus,
       Touched, Dry
  <2>3. WorkloadFacts(p)
    BY <1>dir, <1>2 DEF Interrupt, SharedOK, WorkloadFacts
  <2>. QED
    BY <2>1, <2>2, <2>3
<1>3. ASSUME LogFailure(p) PROVE StepFacts(p) /\ StatusFacts(p) /\ WorkloadFacts(p)
  <2>1. StepFacts(p)
    BY <1>dir, <1>3 DEF LogFailure, Goto, GotoWith, ControlOK, StatusOK, StepFacts, Others,
       LogStatus, Touched, Dry, UpRun, Launching, Launched
  <2>2. StatusFacts(p)
    BY <1>dir, <1>3 DEF LogFailure, Goto, GotoWith, StatusOK, StatusFacts, LogStatus,
       Touched, Dry
  <2>3. WorkloadFacts(p)
    BY <1>dir, <1>3 DEF LogFailure, SharedOK, WorkloadFacts
  <2>. QED
    BY <2>1, <2>2, <2>3
<1>. QED
  BY <1>1, <1>2, <1>3

\* netlab create changes no status and no workload.
LEMMA CreateFacts ==
  ASSUME ControlOK, StatusOK, SharedOK, NEW p \in Procs, CreateStep(p)
  PROVE  StepFacts(p) /\ StatusFacts(p) /\ WorkloadFacts(p)
<1> USE DEF PCs, UpPCs, DownPCs, CreatePCs
<1>dir. dir(p) \in Dirs /\ lab(p) \in Labs
  BY LifecycleAssumption DEF dir, lab
<1>1. ASSUME CreateUnlock(p) PROVE StepFacts(p) /\ StatusFacts(p) /\ WorkloadFacts(p)
  <2>1. StepFacts(p)
    BY <1>dir, <1>1 DEF CreateUnlock, Goto, GotoWith, ControlOK, StatusOK, StepFacts,
       Others, LogStatus, Touched, Dry, UpRun, Launching, Launched
  <2>2. StatusFacts(p)
    BY <1>dir, <1>1 DEF CreateUnlock, Goto, GotoWith, StatusOK, StatusFacts, LogStatus,
       Touched, Dry
  <2>3. WorkloadFacts(p)
    BY <1>dir, <1>1 DEF CreateUnlock, SharedOK, WorkloadFacts
  <2>. QED
    BY <2>1, <2>2, <2>3
<1>2. ASSUME CheckWriteable(p) PROVE StepFacts(p) /\ StatusFacts(p) /\ WorkloadFacts(p)
  <2>1. StepFacts(p)
    BY <1>dir, <1>2 DEF CheckWriteable, Goto, GotoWith, ControlOK, StatusOK, StepFacts,
       Others, Dry, UpRun, Launching, Launched
  <2>2. StatusFacts(p)
    BY <1>dir, <1>2 DEF CheckWriteable, Goto, GotoWith, StatusOK, StatusFacts, Dry
  <2>3. WorkloadFacts(p)
    BY <1>dir, <1>2 DEF CheckWriteable, SharedOK, WorkloadFacts
  <2>. QED
    BY <2>1, <2>2, <2>3
<1>3. ASSUME WriteProviderFiles(p) PROVE StepFacts(p) /\ StatusFacts(p) /\ WorkloadFacts(p)
  <2>1. StepFacts(p)
    BY <1>dir, <1>3 DEF WriteProviderFiles, Goto, GotoWith, ControlOK, StatusOK, StepFacts,
       Others, Dry, UpRun, Launching, Launched
  <2>2. StatusFacts(p)
    BY <1>dir, <1>3 DEF WriteProviderFiles, Goto, GotoWith, StatusOK, StatusFacts, Dry
  <2>3. WorkloadFacts(p)
    BY <1>dir, <1>3 DEF WriteProviderFiles, SharedOK, WorkloadFacts
  <2>. QED
    BY <2>1, <2>2, <2>3
<1>4. ASSUME WritePickle(p) PROVE StepFacts(p) /\ StatusFacts(p) /\ WorkloadFacts(p)
  <2>1. StepFacts(p)
    BY <1>dir, <1>4 DEF WritePickle, Goto, GotoWith, ControlOK, StatusOK, StepFacts, Others,
       Dry, UpRun, Launching, Launched, AfterTopology
  <2>2. StatusFacts(p)
    BY <1>dir, <1>4 DEF WritePickle, Goto, GotoWith, StatusOK, StatusFacts, Dry
  <2>3. WorkloadFacts(p)
    BY <1>dir, <1>4 DEF WritePickle, SharedOK, WorkloadFacts
  <2>. QED
    BY <2>1, <2>2, <2>3
<1>. QED
  BY <1>1, <1>2, <1>3, <1>4 DEF CreateStep

\* netlab up and the second half of netlab restart.
LEMMA UpFacts ==
  ASSUME ControlOK, StatusOK, SharedOK, NEW p \in Procs, UpStep(p)
  PROVE  StepFacts(p) /\ StatusFacts(p) /\ WorkloadFacts(p)
<1> USE DEF PCs, UpPCs, DownPCs, CreatePCs
<1>dir. dir(p) \in Dirs /\ lab(p) \in Labs
  BY LifecycleAssumption DEF dir, lab
<1>1. ASSUME CheckExistingLab(p) PROVE StepFacts(p) /\ StatusFacts(p) /\ WorkloadFacts(p)
  <2>1. StepFacts(p)
    BY <1>dir, <1>1 DEF CheckExistingLab, Goto, GotoWith, ControlOK, StatusOK, StepFacts,
       Others, Dry, UpRun, Launching, Launched
  <2>2. StatusFacts(p)
    BY <1>dir, <1>1 DEF CheckExistingLab, Goto, GotoWith, StatusOK, StatusFacts, Dry
  <2>3. WorkloadFacts(p)
    BY <1>dir, <1>1 DEF CheckExistingLab, SharedOK, WorkloadFacts
  <2>. QED
    BY <2>1, <2>2, <2>3
<1>2. ASSUME UpSnapshot(p) PROVE StepFacts(p) /\ StatusFacts(p) /\ WorkloadFacts(p)
  <2>1. StepFacts(p)
    BY <1>dir, <1>2 DEF UpSnapshot, Goto, GotoWith, ControlOK, StatusOK, StepFacts, Others,
       Dry, UpRun, Launching, Launched, AfterTopology
  <2>2. StatusFacts(p)
    BY <1>dir, <1>2 DEF UpSnapshot, Goto, GotoWith, StatusOK, StatusFacts, Dry
  <2>3. WorkloadFacts(p)
    BY <1>dir, <1>2 DEF UpSnapshot, SharedOK, WorkloadFacts
  <2>. QED
    BY <2>1, <2>2, <2>3
<1>3. ASSUME CheckLabInstance(p) PROVE StepFacts(p) /\ StatusFacts(p) /\ WorkloadFacts(p)
  <2>1. StepFacts(p)
    BY <1>dir, <1>3 DEF CheckLabInstance, Goto, GotoWith, ControlOK, StatusOK, StepFacts,
       Others, Dry, UpRun, Launching, Launched
  <2>2. StatusFacts(p)
    BY <1>dir, <1>3 DEF CheckLabInstance, Goto, GotoWith, StatusOK, StatusFacts, Dry
  <2>3. WorkloadFacts(p)
    BY <1>dir, <1>3 DEF CheckLabInstance, SharedOK, WorkloadFacts
  <2>. QED
    BY <2>1, <2>2, <2>3
<1>4. ASSUME ProviderProbes(p) PROVE StepFacts(p) /\ StatusFacts(p) /\ WorkloadFacts(p)
  <2>1. StepFacts(p)
    BY <1>dir, <1>4 DEF ProviderProbes, Goto, GotoWith, ControlOK, StatusOK, StepFacts,
       Others, LogStatus, Touched, Dry, UpRun, Launching, Launched
  <2>2. StatusFacts(p)
    BY <1>dir, <1>4 DEF ProviderProbes, Goto, GotoWith, StatusOK, StatusFacts, LogStatus,
       Touched, Dry
  <2>3. WorkloadFacts(p)
    BY <1>dir, <1>4 DEF ProviderProbes, SharedOK, WorkloadFacts
  <2>. QED
    BY <2>1, <2>2, <2>3
<1>5. ASSUME StatusStartLab(p) PROVE StepFacts(p) /\ StatusFacts(p) /\ WorkloadFacts(p)
  <2>1. ASSUME owner[lab(p)] \notin {NoDir, dir(p)} PROVE StepFacts(p)
    <3>1. Goto(p, "start", "idle")
      BY <1>5, <2>1 DEF StatusStartLab
    <3>. QED
      BY <3>1, GotoFrame DEF StepFacts, UpRun, Launching, Launched
  <2>2. ASSUME owner[lab(p)] \in {NoDir, dir(p)} PROVE StepFacts(p)
    <3>1. Goto(p, "start", IF Dry(p) THEN "idle" ELSE "lock")
      BY <1>5, <2>2 DEF StatusStartLab
    <3>2. ~Dry(p) => owner'[lab(p)] = dir(p)
      BY <1>dir, <1>5, <2>2 DEF StatusStartLab, SetStatus, Touched, StatusOK
    <3>. QED
      BY <3>1, <3>2, GotoFrame DEF StepFacts, UpRun, Launching, Launched
  <2>3. StatusFacts(p)
    BY <1>dir, <1>5 DEF StatusStartLab, Goto, GotoWith, StatusOK, StatusFacts, LogStatus,
       SetStatus, Touched, Dry
  <2>4. WorkloadFacts(p)
    BY <1>dir, <1>5 DEF StatusStartLab, Goto, GotoWith, SharedOK, WorkloadFacts, Dry
  <2>. QED
    BY <2>1, <2>2, <2>3, <2>4
<1>6. ASSUME LockDirectory(p) PROVE StepFacts(p) /\ StatusFacts(p) /\ WorkloadFacts(p)
  <2>1. StepFacts(p)
    BY <1>dir, <1>6 DEF LockDirectory, GotoWith, ControlOK, StatusOK, StepFacts, Others,
       Dry, UpRun, Launching, Launched
  <2>2. StatusFacts(p)
    BY <1>dir, <1>6 DEF LockDirectory, GotoWith, StatusOK, StatusFacts, Dry
  <2>3. WorkloadFacts(p)
    BY <1>dir, <1>6 DEF LockDirectory, SharedOK, WorkloadFacts
  <2>. QED
    BY <2>1, <2>2, <2>3
<1>7. ASSUME StatusStartProvider(p) PROVE StepFacts(p) /\ StatusFacts(p) /\ WorkloadFacts(p)
  <2>1. StepFacts(p)
    BY <1>dir, <1>7 DEF StatusStartProvider, Goto, GotoWith, ControlOK, StatusOK, StepFacts,
       Others, SetStatus, Touched, Dry, UpRun, Launching, Launched
  <2>2. StatusFacts(p)
    BY <1>dir, <1>7 DEF StatusStartProvider, Goto, GotoWith, StatusOK, StatusFacts,
       SetStatus, Touched, Dry
  <2>3. WorkloadFacts(p)
    BY <1>dir, <1>7 DEF StatusStartProvider, SharedOK, WorkloadFacts
  <2>. QED
    BY <2>1, <2>2, <2>3
<1>8. ASSUME StartProviderLab(p) PROVE StepFacts(p) /\ StatusFacts(p) /\ WorkloadFacts(p)
  <2>1. StepFacts(p)
    BY <1>dir, <1>8 DEF StartProviderLab, GotoWith, ControlOK, StatusOK, SharedOK,
       StepFacts, Others, Dry, UpRun, Launching, Launched
  <2>2. StatusFacts(p)
    BY <1>dir, <1>8 DEF StartProviderLab, GotoWith, StatusOK, StatusFacts, Dry
  <2>3. WorkloadFacts(p)
    BY <1>dir, <1>8 DEF StartProviderLab, SharedOK, WorkloadFacts
  <2>. QED
    BY <2>1, <2>2, <2>3
<1>9. ASSUME WorkloadStarted(p) PROVE StepFacts(p) /\ StatusFacts(p) /\ WorkloadFacts(p)
  <2>1. StepFacts(p)
    BY <1>dir, <1>9 DEF WorkloadStarted, Goto, GotoWith, ControlOK, StatusOK, StepFacts,
       Others, SetStatus, Touched, Dry, UpRun, Launching, Launched
  <2>2. StatusFacts(p)
    BY <1>dir, <1>9 DEF WorkloadStarted, Goto, GotoWith, StatusOK, StatusFacts, SetStatus,
       Touched, Dry
  <2>3. WorkloadFacts(p)
    BY <1>dir, <1>9 DEF WorkloadStarted, SharedOK, WorkloadFacts
  <2>. QED
    BY <2>1, <2>2, <2>3
<1>10. ASSUME DeployInitialConfig(p) PROVE StepFacts(p) /\ StatusFacts(p) /\ WorkloadFacts(p)
  <2>1. StepFacts(p)
    BY <1>dir, <1>10 DEF DeployInitialConfig, Goto, GotoWith, ControlOK, StatusOK,
       StepFacts, Others, SetStatus, Touched, Dry, UpRun, Launching, Launched
  <2>2. StatusFacts(p)
    BY <1>dir, <1>10 DEF DeployInitialConfig, Goto, GotoWith, StatusOK, StatusFacts,
       SetStatus, Touched, Dry
  <2>3. WorkloadFacts(p)
    BY <1>dir, <1>10 DEF DeployInitialConfig, SharedOK, WorkloadFacts
  <2>. QED
    BY <2>1, <2>2, <2>3
<1>11. ASSUME LabStarted(p) PROVE StepFacts(p) /\ StatusFacts(p) /\ WorkloadFacts(p)
  <2>1. StepFacts(p)
    BY <1>dir, <1>11 DEF LabStarted, Goto, GotoWith, ControlOK, StatusOK, StepFacts, Others,
       SetStatus, Touched, Dry, UpRun, Launching, Launched
  <2>2. StatusFacts(p)
    BY <1>dir, <1>11 DEF LabStarted, Goto, GotoWith, StatusOK, StatusFacts, SetStatus,
       Touched, Dry
  <2>3. WorkloadFacts(p)
    BY <1>dir, <1>11 DEF LabStarted, SharedOK, WorkloadFacts
  <2>. QED
    BY <2>1, <2>2, <2>3
<1>12. ASSUME TouchLock(p) PROVE StepFacts(p) /\ StatusFacts(p) /\ WorkloadFacts(p)
  <2>1. StepFacts(p)
    BY <1>dir, <1>12 DEF TouchLock, Goto, GotoWith, ControlOK, StatusOK, StepFacts, Others,
       Dry, UpRun, Launching, Launched
  <2>2. StatusFacts(p)
    BY <1>dir, <1>12 DEF TouchLock, Goto, GotoWith, StatusOK, StatusFacts, Dry
  <2>3. WorkloadFacts(p)
    BY <1>dir, <1>12 DEF TouchLock, SharedOK, WorkloadFacts
  <2>. QED
    BY <2>1, <2>2, <2>3
<1>. QED
  BY <1>1, <1>2, <1>3, <1>4, <1>5, <1>6, <1>7, <1>8, <1>9, <1>10, <1>11, <1>12 DEF UpStep

\* netlab down and the first half of netlab restart.
LEMMA DownFacts ==
  ASSUME ControlOK, StatusOK, SharedOK, NEW p \in Procs, DownStep(p)
  PROVE  StepFacts(p) /\ StatusFacts(p) /\ WorkloadFacts(p)
<1> USE DEF PCs, UpPCs, DownPCs, CreatePCs
<1>dir. dir(p) \in Dirs /\ lab(p) \in Labs
  BY LifecycleAssumption DEF dir, lab
<1>1. ASSUME LoadSnapshot(p) PROVE StepFacts(p) /\ StatusFacts(p) /\ WorkloadFacts(p)
  <2>1. StepFacts(p)
    BY <1>dir, <1>1 DEF LoadSnapshot, Goto, GotoWith, ControlOK, StatusOK, StepFacts,
       Others, Dry, UpRun, Launching, Launched
  <2>2. StatusFacts(p)
    BY <1>dir, <1>1 DEF LoadSnapshot, Goto, GotoWith, StatusOK, StatusFacts, Dry
  <2>3. WorkloadFacts(p)
    BY <1>dir, <1>1 DEF LoadSnapshot, SharedOK, WorkloadFacts
  <2>. QED
    BY <2>1, <2>2, <2>3
<1>2. ASSUME LabDirMismatch(p) PROVE StepFacts(p) /\ StatusFacts(p) /\ WorkloadFacts(p)
  <2>1. StepFacts(p)
    BY <1>dir, <1>2 DEF LabDirMismatch, Goto, GotoWith, ControlOK, StatusOK, StepFacts,
       Others, Dry, UpRun, Launching, Launched
  <2>2. StatusFacts(p)
    BY <1>dir, <1>2 DEF LabDirMismatch, Goto, GotoWith, StatusOK, StatusFacts, Dry
  <2>3. WorkloadFacts(p)
    BY <1>dir, <1>2 DEF LabDirMismatch, SharedOK, WorkloadFacts
  <2>. QED
    BY <2>1, <2>2, <2>3
<1>3. ASSUME ShutdownRequested(p) PROVE StepFacts(p) /\ StatusFacts(p) /\ WorkloadFacts(p)
  <2>1. StepFacts(p)
    BY <1>dir, <1>3 DEF ShutdownRequested, Goto, GotoWith, ControlOK, StatusOK, StepFacts,
       Others, SetStatus, Touched, Dry, UpRun, Launching, Launched
  <2>2. StatusFacts(p)
    BY <1>dir, <1>3 DEF ShutdownRequested, Goto, GotoWith, StatusOK, StatusFacts, SetStatus,
       Touched, Dry
  <2>3. WorkloadFacts(p)
    BY <1>dir, <1>3 DEF ShutdownRequested, SharedOK, WorkloadFacts
  <2>. QED
    BY <2>1, <2>2, <2>3
<1>4. ASSUME DownProbes(p) PROVE StepFacts(p) /\ StatusFacts(p) /\ WorkloadFacts(p)
  <2>1. StepFacts(p)
    BY <1>dir, <1>4 DEF DownProbes, Goto, GotoWith, ControlOK, StatusOK, StepFacts, Others,
       LogStatus, Touched, Dry, UpRun, Launching, Launched, AfterDown, AfterStop
  <2>2. StatusFacts(p)
    BY <1>dir, <1>4 DEF DownProbes, Goto, GotoWith, StatusOK, StatusFacts, LogStatus,
       Touched, Dry
  <2>3. WorkloadFacts(p)
    BY <1>dir, <1>4 DEF DownProbes, SharedOK, WorkloadFacts
  <2>. QED
    BY <2>1, <2>2, <2>3
<1>5. ASSUME StoppingProvider(p) PROVE StepFacts(p) /\ StatusFacts(p) /\ WorkloadFacts(p)
  <2>1. StepFacts(p)
    BY <1>dir, <1>5 DEF StoppingProvider, Goto, GotoWith, ControlOK, StatusOK, StepFacts,
       Others, SetStatus, Touched, Dry, UpRun, Launching, Launched
  <2>2. StatusFacts(p)
    BY <1>dir, <1>5 DEF StoppingProvider, Goto, GotoWith, StatusOK, StatusFacts, SetStatus,
       Touched, Dry
  <2>3. WorkloadFacts(p)
    BY <1>dir, <1>5 DEF StoppingProvider, SharedOK, WorkloadFacts
  <2>. QED
    BY <2>1, <2>2, <2>3
<1>6. ASSUME StopProviderLab(p) PROVE StepFacts(p) /\ StatusFacts(p) /\ WorkloadFacts(p)
  <2>1. StepFacts(p)
    BY <1>dir, <1>6 DEF StopProviderLab, GotoWith, ControlOK, StatusOK, StepFacts, Others,
       Dry, UpRun, Launching, Launched
  <2>2. StatusFacts(p)
    BY <1>dir, <1>6 DEF StopProviderLab, GotoWith, StatusOK, StatusFacts, Dry
  <2>3. WorkloadFacts(p)
    BY <1>dir, <1>6 DEF StopProviderLab, Goto, GotoWith, SharedOK, WorkloadFacts, Dry
  <2>. QED
    BY <2>1, <2>2, <2>3
<1>7. ASSUME ProviderStopped(p) PROVE StepFacts(p) /\ StatusFacts(p) /\ WorkloadFacts(p)
  <2>1. StepFacts(p)
    BY <1>dir, <1>7 DEF ProviderStopped, Goto, GotoWith, ControlOK, StatusOK, StepFacts,
       Others, LogStatus, Touched, Dry, UpRun, Launching, Launched, AfterStop
  <2>2. StatusFacts(p)
    BY <1>dir, <1>7 DEF ProviderStopped, Goto, GotoWith, StatusOK, StatusFacts, LogStatus,
       Touched, Dry
  <2>3. WorkloadFacts(p)
    BY <1>dir, <1>7 DEF ProviderStopped, SharedOK, WorkloadFacts
  <2>. QED
    BY <2>1, <2>2, <2>3
<1>8. ASSUME DownCleanup(p) PROVE StepFacts(p) /\ StatusFacts(p) /\ WorkloadFacts(p)
  <2>1. StepFacts(p)
    BY <1>dir, <1>8 DEF DownCleanup, Goto, GotoWith, ControlOK, StatusOK, StepFacts, Others,
       Dry, UpRun, Launching, Launched
  <2>2. StatusFacts(p)
    BY <1>dir, <1>8 DEF DownCleanup, Goto, GotoWith, StatusOK, StatusFacts, Dry
  <2>3. WorkloadFacts(p)
    BY <1>dir, <1>8 DEF DownCleanup, SharedOK, WorkloadFacts
  <2>. QED
    BY <2>1, <2>2, <2>3
<1>9. ASSUME RemoveLabStatus(p) PROVE StepFacts(p) /\ StatusFacts(p) /\ WorkloadFacts(p)
  <2>1. StepFacts(p)
    BY <1>dir, <1>9 DEF RemoveLabStatus, Goto, GotoWith, ControlOK, StatusOK, StepFacts,
       Others, Dry, UpRun, Launching, Launched
  <2>2. StatusFacts(p)
    BY <1>dir, <1>9 DEF RemoveLabStatus, Goto, GotoWith, StatusOK, StatusFacts, Dry
  <2>3. WorkloadFacts(p)
    BY <1>dir, <1>9 DEF RemoveLabStatus, SharedOK, WorkloadFacts
  <2>. QED
    BY <2>1, <2>2, <2>3
<1>10. ASSUME UnlockDirectory(p) PROVE StepFacts(p) /\ StatusFacts(p) /\ WorkloadFacts(p)
  <2>1. StepFacts(p)
    BY <1>dir, <1>10 DEF UnlockDirectory, Goto, GotoWith, ControlOK, StatusOK, StepFacts,
       Others, Dry, UpRun, Launching, Launched, AfterDown
  <2>2. StatusFacts(p)
    BY <1>dir, <1>10 DEF UnlockDirectory, Goto, GotoWith, StatusOK, StatusFacts, Dry
  <2>3. WorkloadFacts(p)
    BY <1>dir, <1>10 DEF UnlockDirectory, SharedOK, WorkloadFacts
  <2>. QED
    BY <2>1, <2>2, <2>3
<1>. QED
  BY <1>1, <1>2, <1>3, <1>4, <1>5, <1>6, <1>7, <1>8, <1>9, <1>10 DEF DownStep

\* A step of a command keeps the labs complete.
LEMMA StepCompletes ==
  ASSUME CompleteInv, NEW p \in Procs, StepFacts(p), StatusFacts(p), WorkloadFacts(p),
         ControlOK', StatusOK', SharedOK'
  PROVE  CompleteInv'
<1> USE DEF CompleteInv
<1>dir. \A q \in Procs : dir(q) \in Dirs /\ lab(q) \in Labs /\ lab(q) = LabOf[dir(q)] /\ dir(q) # NoDir
  BY LifecycleAssumption DEF dir, lab
<1>alone. \A q \in Procs : q # p /\ lab(q) = lab(p) =>
            (pc[q] \in DownPCs => pc[p] = "idle") /\ (pc[p] \in DownPCs => pc[q] = "idle")
  BY DEF Alone
<1>1. DownKind'
  BY DEF DownKind, StepFacts, Others, DownPCs
<1>2. Alone'
  BY <1>alone DEF Alone, StepFacts, Others, dir, lab
<1>3. OwnersMatch'
  BY <1>dir, LifecycleAssumption DEF OwnersMatch, StatusFacts, StatusOK
<1>4. Launches'
  <2>1. ASSUME NEW q \in Procs, q # p
        PROVE  /\ pc'[q] \in UpRun => owner'[lab(q)] = dir(q) /\ ~Dry(q)'
               /\ pc'[q] \in Launching \cup Launched => Providers \ todo'[q] \subseteq workload'[dir(q)]
               /\ pc'[q] \in Launched => todo'[q] = {}
    <3>1. /\ pc'[q] = pc[q] /\ todo'[q] = todo[q] /\ Dry(q)' = Dry(q)
          /\ pc[q] \in UpRun => lab(q) # lab(p) \/ pc[p] \notin DownPCs
      BY <1>alone, <2>1 DEF StepFacts, Others, UpRun, Dry
    <3>2. pc[q] \in UpRun => owner'[lab(q)] = owner[lab(q)]
      BY <1>dir, <3>1 DEF StatusFacts, Launches, DownPCs
    <3>3. pc[q] \in UpRun => workload[dir(q)] \subseteq workload'[dir(q)]
      <4>1. CASE dir(q) = dir(p)
        BY <3>1, <4>1 DEF WorkloadFacts, DownPCs, lab
      <4>2. CASE dir(q) # dir(p)
        BY <1>dir, <4>2 DEF WorkloadFacts
      <4>. QED
        BY <4>1, <4>2
    <3>. QED
      BY <3>1, <3>2, <3>3 DEF Launches, UpRun, Launching, Launched
  <2>2. /\ pc'[p] \in UpRun => owner'[lab(p)] = dir(p) /\ ~Dry(p)'
        /\ pc'[p] \in Launching \cup Launched => Providers \ todo'[p] \subseteq workload'[dir(p)]
        /\ pc'[p] \in Launched => todo'[p] = {}
    <3>1. pc[p] \in UpRun => /\ pc[p] \notin {"stop", "remove"}
                             /\ owner[lab(p)] = dir(p) /\ ~Dry(p)
      BY DEF UpRun, Launches
    <3>2. pc[p] \in UpRun => owner'[lab(p)] = dir(p) /\ workload[dir(p)] \subseteq workload'[dir(p)]
      BY <1>dir, <3>1 DEF StatusFacts, WorkloadFacts
    <3>3. pc'[p] \in UpRun => cmd'[p] = cmd[p]
      BY DEF StepFacts, UpRun
    <3>4. pc'[p] \in UpRun => owner'[lab(p)] = dir(p) /\ ~Dry(p)'
      BY <3>1, <3>2, <3>3 DEF StepFacts, Dry
    <3>5. pc'[p] \in Launching \cup Launched => Providers \ todo'[p] \subseteq workload'[dir(p)]
      BY <3>2 DEF StepFacts, Launches, Launching, Launched, UpRun
    <3>6. pc'[p] \in Launched => todo'[p] = {}
      BY DEF StepFacts, Launches
    <3>. QED
      BY <3>4, <3>5, <3>6
  <2>. QED
    BY <2>1, <2>2, Zenon DEF Launches, lab, dir
<1>5. StopsAreTold'
  <2>1. ASSUME NEW q \in Procs, q # p, pc'[q] = "stop", ~Dry(q)'
        PROVE  phase'[lab(q)] # "started"
    <3>1. pc[q] = "stop" /\ ~Dry(q)
      BY <2>1 DEF StepFacts, Others, Dry
    <3>2. lab(q) # lab(p)
      BY <1>alone, <2>1, <3>1 DEF DownPCs, StepFacts
    <3>. QED
      BY <1>dir, <3>1, <3>2 DEF StatusFacts, StopsAreTold
  <2>2. pc'[p] = "stop" /\ ~Dry(p)' => phase'[lab(p)] # "started"
    <3>1. pc'[p] = "stop" => cmd'[p] = cmd[p]
      BY DEF StepFacts
    <3>. QED
      BY <3>1 DEF StepFacts, Dry
  <2>. QED
    BY <2>1, <2>2, Zenon DEF StopsAreTold, lab, dir
<1>6. StartedIsComplete'
  <2> SUFFICES ASSUME NEW l \in Labs, phase'[l] = "started"
               PROVE  owner'[l] # NoDir /\ workload'[owner'[l]] = Providers
    BY DEF StartedIsComplete
  <2>types. \A d \in Dirs : workload[d] \subseteq Providers /\ workload'[d] \subseteq Providers
    BY DEF SharedOK
  <2>1. CASE l = lab(p) /\ phase[l] # "started"
    <3>1. pc[p] = "started"
      BY <2>1 DEF StatusFacts
    <3>2. owner[l] = dir(p) /\ Providers \subseteq workload[dir(p)]
      BY <2>1, <3>1 DEF Launches, UpRun, Launching, Launched
    <3>3. owner'[l] = dir(p) /\ workload[dir(p)] \subseteq workload'[dir(p)]
      BY <1>dir, <2>1, <3>1, <3>2 DEF StatusFacts, WorkloadFacts
    <3>. QED
      BY <1>dir, <2>types, <3>2, <3>3
  <2>2. CASE phase[l] = "started"
    <3>1. owner[l] \in Dirs /\ workload[owner[l]] = Providers /\ LabOf[owner[l]] = l
      BY <2>2 DEF StartedIsComplete, StatusOK, OwnersMatch
    <3>2. owner'[l] = owner[l]
      BY <3>1, LifecycleAssumption DEF StatusFacts
    <3>3. workload[owner[l]] \subseteq workload'[owner[l]]
      BY <1>dir, <2>2, <3>1 DEF WorkloadFacts, StopsAreTold
    <3>. QED
      BY <2>types, <3>1, <3>2, <3>3, LifecycleAssumption
  <2>3. CASE l # lab(p) /\ phase[l] # "started"
    BY <2>3 DEF StatusFacts
  <2>. QED
    BY <2>1, <2>2, <2>3
<1>. QED
  BY <1>1, <1>2, <1>3, <1>4, <1>5, <1>6

\* So does a new command.
LEMMA EnterCompletes ==
  ASSUME OnlyUpsOverlap, CompleteInv, NEW p \in Procs, NEW c \in Commands, Enter(p, c),
         ControlOK', StatusOK', SharedOK'
  PROVE  CompleteInv'
<1> USE DEF CompleteInv
<1>1. /\ pc[p] = "idle" /\ pc'[p] = FirstPC(c) /\ cmd'[p] = c
      /\ \A q \in Procs : q # p => pc'[q] = pc[q] /\ cmd'[q] = cmd[q]
      /\ UNCHANGED <<todo, mismatch, lock, owner, phase, files, workload>>
  BY DEF Enter, ControlOK
<1>2. c.kind \in Kinds
  BY LifecycleAssumption DEF CommandType
<1>3. /\ FirstPC(c) \in {"unlock_create", "provider_check", "snapshot", "check", "load"}
      /\ FirstPC(c) = "load" => c.kind \in {"down", "restart"}
  BY <1>2 DEF FirstPC, Kinds
<1>4. ASSUME NEW q \in Procs, q # p, pc[q] # "idle", lab(q) = lab(p)
      PROVE  cmd[q].kind \in {"up", "create"} /\ c.kind \in {"up", "create"}
  <2>1. {cmd[q].kind, c.kind} \in IF dir(q) = dir(p) THEN DirRaces ELSE LabRaces
    BY <1>4, Zenon DEF Enter, MayOverlap
  <2>2. {cmd[q].kind, c.kind} \in DirRaces \cup LabRaces
    BY <2>1
  <2>3. {cmd[q].kind, c.kind} \subseteq {"up", "create"}
    BY <2>2 DEF OnlyUpsOverlap
  <2>. QED
    BY <2>3
<1>5. DownKind'
  BY <1>1, <1>3 DEF DownKind, DownPCs
<1>6. Alone'
  BY <1>1, <1>3, <1>4 DEF Alone, DownKind, DownPCs, lab, dir
<1>7. OwnersMatch' /\ StartedIsComplete'
  BY <1>1 DEF OwnersMatch, StartedIsComplete
<1>8. Launches' /\ StopsAreTold'
  BY <1>1, <1>3 DEF Launches, StopsAreTold, UpRun, Launching, Launched, lab, dir, Dry
<1>. QED
  BY <1>5, <1>6, <1>7, <1>8

\* If netlab down and netlab restart are alone on their instance, a lab with
\* status 'started' has all its workloads, whatever flags the commands have.
THEOREM StartedStaysComplete == OnlyUpsOverlap => (Spec => []StartedIsComplete)
<1> SUFFICES ASSUME OnlyUpsOverlap PROVE Spec => []StartedIsComplete
  OBVIOUS
<1>1. Init => CompleteInv
  <2> SUFFICES ASSUME Init PROVE CompleteInv
    OBVIOUS
  <2>1. ControlOK /\ StatusOK /\ SharedOK
    BY DEF Init, ControlOK, StatusOK, SharedOK, PCs, Phases
  <2>2. (\A p \in Procs : pc[p] = "idle") /\ (\A l \in Labs : owner[l] = NoDir /\ phase[l] = "")
    BY DEF Init
  <2>. QED
    BY <2>1, <2>2 DEF CompleteInv, DownKind, Alone, OwnersMatch, Launches, StopsAreTold,
       StartedIsComplete, UpRun, Launching, Launched, DownPCs
<1>2. ASSUME CompleteInv, [Next]_vars PROVE CompleteInv'
  <2>1. ControlOK' /\ StatusOK' /\ SharedOK'
    BY <1>2, TypeStep, TypeParts DEF CompleteInv, TypeOK, ControlOK, StatusOK, SharedOK
  <2>2. CASE UNCHANGED vars
    BY <1>2, <2>2 DEF vars, CompleteInv, ControlOK, StatusOK, SharedOK, DownKind, Alone,
       OwnersMatch, Launches, StopsAreTold, StartedIsComplete, lab, dir, Dry
  <2>3. ASSUME NEW p \in Procs, NEW c \in Commands, Enter(p, c) PROVE CompleteInv'
    BY <1>2, <2>1, <2>3, EnterCompletes
  <2>4. ASSUME NEW p \in Procs,
               Exit(p) \/ Interrupt(p) \/ LogFailure(p) \/ CreateStep(p) \/ UpStep(p) \/ DownStep(p)
        PROVE  CompleteInv'
    <3>1. StepFacts(p) /\ StatusFacts(p) /\ WorkloadFacts(p)
      BY <1>2, <2>4, EndingFacts, CreateFacts, UpFacts, DownFacts DEF CompleteInv
    <3>. QED
      BY <1>2, <2>1, <3>1, StepCompletes
  <2>. QED
    BY <1>2, <2>2, <2>3, <2>4 DEF Next
<1>3. CompleteInv => StartedIsComplete
  BY DEF CompleteInv
<1>. QED
  BY <1>1, <1>2, <1>3, PTL DEF Spec

=============================================================================
