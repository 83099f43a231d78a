------------------------------ MODULE MCApiJobs ------------------------------
(***************************************************************************)
(* Two jobs, one with a working directory, the other one without it and    *)
(* with errors in its topology; one client sends GET requests.             *)
(***************************************************************************)
EXTENDS ApiJobs

CONSTANTS j1, j2, c1, wd

MCJobs == {j1, j2}
MCClients == {c1}
MCBad == {j2}
MCWorkdir == [j \in Jobs |-> IF j = j1 THEN wd ELSE Default]
=============================================================================
