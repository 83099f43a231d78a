--------------------------- MODULE MCInitialConfig ---------------------------
(***************************************************************************)
(* Three nodes: a is a container configured by netmiko, with a script      *)
(* among its snippets; b is a virtual machine configured by scripts and    *)
(* Ansible; c is a container with every other kind of script.  The         *)
(* readiness checks are asked for by a, by a and b, or by nobody, and the  *)
(* ssh check by c, which has no management address.                        *)
(***************************************************************************)
EXTENDS InitialConfig, TLC

CONSTANTS a, b, c, initial, ospf, custom, normalize

MCNode == {a, b, c}
MCItem == {normalize, initial, ospf, custom}
MCDelay == a :> 1 @@ b :> 2 @@ c :> 1
\* A probe with netmiko makes three operations in a row.
MCSshOperations == a :> 3 @@ b :> 1 @@ c :> 1
MCRetries == a :> 2 @@ b :> 1 @@ c :> 1
MCSshTimeout == a :> 3 @@ b :> 0 @@ c :> 0
MCWaitlists ==
  {w \in [Checks -> {{}, {a}, {a, b}}] : w["health"] # {} => w["ansible"] = {}} \cup
  {[w \in Checks |-> IF w \in Polled THEN {c} ELSE {}],
   [w \in Checks |-> IF w = "command" THEN {c} ELSE {}]}
MCProvider == a :> "clab" @@ b :> "libvirt" @@ c :> "clab"
MCDeploy == a :> <<initial, ospf, custom>> @@ b :> <<initial, ospf, custom>>
         @@ c :> <<initial, ospf, custom>>
MCTemplates == a :> <<initial, ospf, custom, normalize>> @@ b :> <<normalize, ospf, initial>>
            @@ c :> <<initial, ospf, custom>>
MCMethod ==
  a :> (normalize :> "netmiko" @@ initial :> "netmiko" @@ ospf :> "ns" @@ custom :> "netmiko") @@
  b :> (normalize :> "sh" @@ initial :> "cp_sh" @@ ospf :> "sh" @@ custom :> "ansible") @@
  c :> (normalize :> "file" @@ initial :> "startup" @@ ospf :> "cp_sh" @@ custom :> "sh")
=============================================================================
