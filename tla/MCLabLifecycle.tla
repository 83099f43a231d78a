--------------------------- MODULE MCLabLifecycle ---------------------------
(***************************************************************************)
(* Small instances of LabLifecycle: two or three shells in two directories *)
(* whose topologies use the same (default) lab instance.                   *)
(***************************************************************************)
EXTENDS LabLifecycle

CONSTANTS d1, d2, p1, p2, p3

MCDirs == {d1, d2}

\* Two shells, one per directory; and two shells in d1 with a third in d2.
MCTwoShells == {p1, p2}
MCTwoShellsDir == [p \in MCTwoShells |-> IF p = p1 THEN d1 ELSE d2]
MCThreeShells == {p1, p2, p3}
MCThreeShellsDir == [p \in MCThreeShells |-> IF p = p3 THEN d2 ELSE d1]

MCLabs == {"default"}
MCLabOf == [d \in MCDirs |-> "default"]
MCProviders == {"libvirt", "clab"}

Create == NoCommand
Up == [NoCommand EXCEPT !.kind = "up"]
UpSnap == [Up EXCEPT !.snapshot = TRUE]
Down == [NoCommand EXCEPT !.kind = "down"]
DownClean == [Down EXCEPT !.cleanup = TRUE]
DownDry == [Down EXCEPT !.dry = TRUE]
Restart == [NoCommand EXCEPT !.kind = "restart"]
Unlock == [Create EXCEPT !.unlock = TRUE]
DownForce2 == [DownClean EXCEPT !.force = 2]

\* Every kind of command line, the "at your own risk" flags included.
AllCommands == {Create, UpSnap, DownClean, DownDry, Restart, Unlock, DownForce2}
UpDown == {Create, Up, Down}
StartStop == {Up, UpSnap, Down, DownClean}

NoRaces == {}
UpRaces == {{"up"}, {"up", "create"}, {"create"}}
AllRaces == {{a, b} : a, b \in Kinds}
=============================================================================
