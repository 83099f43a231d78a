---------------------------- MODULE MCStatusFile ----------------------------
(***************************************************************************)
(* Three processes and two lab instances: one updates, one waits for the   *)
(* lock, one reads; an entry is absent or holds one of two values.         *)
(***************************************************************************)
EXTENDS StatusFile

CONSTANTS p1, p2, p3, lab1, lab2, started, stopping

MCProcs == {p1, p2, p3}
MCLabs == {lab1, lab2}
MCValues == {started, stopping}
=============================================================================
