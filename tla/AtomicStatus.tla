---------------------------- MODULE AtomicStatus ----------------------------
(***************************************************************************)
(* What the callers of change_status rely on: the status of the labs is    *)
(* one value, every update changes the current one, and no entry but the   *)
(* updated one changes.  When a writer dies, or somebody removes the file, *)
(* the whole status may be lost, but never part of it.                     *)
(***************************************************************************)
CONSTANTS
  Labs,      \* lab instance identifiers
  Values,    \* what an entry may hold
  NoEntry    \* the instance has no entry

VARIABLES
  status,    \* the entries of the labs
  lossy      \* a writer has died, or the file has been removed

NoStatus == [l \in Labs |-> NoEntry]

Init == status = NoStatus /\ lossy = FALSE

Update(l, v) == status' = [status EXCEPT ![l] = v] /\ UNCHANGED lossy

Lose == lossy' = TRUE /\ status' \in {status, NoStatus}

Next == Lose \/ \E l \in Labs, v \in Values \cup {NoEntry} : Update(l, v)

Spec == Init /\ [][Next]_<<status, lossy>>
=============================================================================
