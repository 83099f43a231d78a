---------------------------- MODULE InitialConfig ----------------------------
(***************************************************************************)
(* 'netlab initial': waits for the devices (DeviceReady), normalizes the   *)
(* ones that need it, and deploys their configuration snippets: a thread   *)
(* per node sends its netmiko snippets, then executes the scripts of its   *)
(* provider; Ansible configures what no internal mechanism does.           *)
(***************************************************************************)
EXTENDS DeviceReady, Sequences, SequencesExt

CONSTANTS
  Item,        \* configuration snippets: initial, modules, custom templates
  Normalize,   \* the normalize snippet
  Provider,    \* [Node -> {"clab", "libvirt"}]
  Deploy,      \* node_deploy_list
  Templates,   \* the snippets with a mode, in the order of the provider
  Method,      \* how a snippet is deployed; "file": mapped into the node, or left
               \* out with skip_config, and never executed
  Normalizes   \* nodes with the initial.normalize feature

Scripts == [clab |-> {"ns", "sh", "cp_sh", "startup"}, libvirt |-> {"sh", "cp_sh"}]
Methods == {"netmiko", "ns", "sh", "cp_sh", "startup", "file", "ansible"}

ASSUME ConfigAssumption ==
  /\ Normalize \in Item
  /\ Provider \in [Node -> {"clab", "libvirt"}]
  /\ Deploy \in [Node -> Seq(Item \ {Normalize})] /\ Templates \in [Node -> Seq(Item)]
  /\ Method \in [Node -> [Item -> Methods]]
  /\ \A n \in Node :
       /\ IsInjective(Templates[n])    \* made of the keys of dictionaries
       /\ \A i \in Item : /\ Method[n][i] \in Scripts[Provider[n]] \cup {"netmiko", "file", "ansible"}
                          /\ Method[n][i] \in Scripts[Provider[n]] => i \in Range(Templates[n])
  /\ Normalizes \subseteq Node

VARIABLES
  command,  \* "initial", or an option: "ready", "normalize"
  stage,    \* what the command is doing
  thread,   \* what the thread of a node does next
  pos,      \* and with which snippet
  sent,     \* [Node -> Seq(Item)]: _deploy.success
  failed,   \* [Node -> SUBSET Item]: _deploy.failed
  startup,  \* [Node -> SUBSET Item]: _deploy.startup
  played    \* [Node -> SUBSET Item]: configured by Ansible

deploy == <<thread, pos, sent, failed, startup, played>>
vars == <<readyVars, command, stage, deploy>>

Init ==
  /\ ReadyInit
  /\ command \in {"initial", "ready", "normalize"}
  /\ stage = IF command = "ready" THEN "wait" ELSE "create"
  /\ thread = [n \in Node |-> "new"] /\ pos = [n \in Node |-> 1]
  /\ sent = [n \in Node |-> <<>>]
  /\ failed = [n \in Node |-> {}]
  /\ startup = [n \in Node |-> {}]
  /\ played = [n \in Node |-> {}]

Threaded == {"normalize", "deploy"}

\* node_deploy_list for the stage; normalizing is a run of its own.
List(n) == IF stage = "deploy" THEN Deploy[n] ELSE IF n \in Normalizes THEN <<Normalize>> ELSE <<>>

\* The snippets the provider executes; it skips its other templates.
Executes(n, i) == i \in Range(List(n)) /\ Method[n][i] \in Scripts[Provider[n]]

-----------------------------------------------------------------------------
(* run *)

\* The snippets are created in node_files; an error ends the command.
CreateConfigs ==
  /\ stage = "create"
  /\ \/ stage' = "wait" /\ UNCHANGED errors
     \/ stage' = "exit" /\ errors' = TRUE
  /\ UNCHANGED <<asked, waitlists, step, loop, passed, command, deploy>>

WaitForDevices ==
  /\ stage = "wait"
  /\ ReadyNext
  /\ UNCHANGED <<command, stage, deploy>>

NewThreads == thread' = [n \in Node |-> "new"] /\ pos' = [n \in Node |-> 1]

\* What is done with the devices first.
FirstStage == IF Normalizes # {} THEN "normalize"
              ELSE IF command = "normalize" THEN "complete" ELSE "deploy"

\* A bug: the errors of the readiness checks are not looked at.
DevicesReadyAnyway ==
  /\ stage = "wait" /\ step = "ready"
  /\ stage' = IF command = "ready" THEN "complete" ELSE FirstStage
  /\ UNCHANGED <<readyVars, command, deploy>>

\* Only the --ready option does not look at the errors of the checks.
DevicesReady ==
  /\ stage = "wait" /\ step = "ready"
  /\ stage' = IF command = "ready" THEN "complete" ELSE IF errors THEN "exit" ELSE FirstStage
  /\ UNCHANGED <<readyVars, command, deploy>>

NotReadyExit ==
  /\ stage = "wait" /\ step = "exit"
  /\ stage' = "exit"
  /\ UNCHANGED <<readyVars, command, deploy>>

-----------------------------------------------------------------------------
(* deploy_internal_config: the thread of a node *)

Run(n, from) == stage \in Threaded /\ thread[n] = from
Move(n, t) == thread' = [thread EXCEPT ![n] = t] /\ pos' = [pos EXCEPT ![n] = 1]
NextItem(n, k) == pos' = [pos EXCEPT ![n] = k + 1] /\ UNCHANGED thread

Fails(n, i) == failed' = [failed EXCEPT ![n] = @ \cup {i}] /\ errors' = TRUE
Succeeds(n, i) == sent' = [sent EXCEPT ![n] = Append(@, i)]
Same == UNCHANGED <<asked, waitlists, step, loop, passed, command, stage, played>>

\* The configuration mode of the node.
Netmiko(n) == \E i \in Item : Method[n][i] = "netmiko"

BeginThread(n) ==
  /\ Run(n, "new")
  /\ Move(n, IF List(n) = <<>> THEN "done" ELSE IF Netmiko(n) THEN "connect" ELSE "scripts")
  /\ UNCHANGED <<errors, sent, failed, startup>> /\ Same

\* Without a connection the first snippet has failed.
Connect(n) ==
  /\ Run(n, "connect")
  /\ \/ Move(n, "netmiko") /\ UNCHANGED <<errors, failed>>
     \/ Move(n, "scripts") /\ Fails(n, Head(List(n)))
  /\ UNCHANGED <<sent, startup>> /\ Same

\* The list ends, or the next snippet has another method.
NetmikoDone(n) ==
  /\ Run(n, "netmiko")
  /\ pos[n] <= Len(List(n)) => Method[n][List(n)[pos[n]]] # "netmiko"
  /\ Move(n, "scripts")
  /\ UNCHANGED <<errors, sent, failed, startup>> /\ Same

NetmikoItem(n) ==
  /\ Run(n, "netmiko")
  /\ pos[n] <= Len(List(n)) /\ Method[n][List(n)[pos[n]]] = "netmiko"
  /\ LET i == List(n)[pos[n]] IN
     \/ NextItem(n, pos[n]) /\ Succeeds(n, i) /\ UNCHANGED <<errors, failed>>
     \/ \* there is no file with the snippet
        NextItem(n, pos[n]) /\ Fails(n, i) /\ UNCHANGED sent
     \/ \* the device reports an error
        Move(n, "scripts") /\ Fails(n, i) /\ UNCHANGED sent
  /\ UNCHANGED startup /\ Same

-----------------------------------------------------------------------------
(* deploy_node_config of the provider *)

\* The templates the provider has not come to.
Rest(n) == pos[n]..Len(Templates[n])

ScriptsDone(n) ==
  /\ Run(n, "scripts") /\ \A k \in Rest(n) : ~Executes(n, Templates[n][k])
  /\ Move(n, "done")
  /\ UNCHANGED <<errors, sent, failed, startup>> /\ Same

\* Common to the actions that deal with the next script of a node.
Script(n, k, provider) ==
  /\ Run(n, "scripts") /\ Provider[n] = provider
  /\ Executes(n, Templates[n][k])
  /\ \A j \in Rest(n) : j < k => ~Executes(n, Templates[n][j])

\* deploy_container_config: a script that cannot be copied is skipped, one
\* without a target or with a failure is the last one.
ClabItem(n) == \E k \in Rest(n) :
  /\ Script(n, k, "clab")
  /\ LET i == Templates[n][k]
         m == Method[n][i] IN
     \/ /\ m = "startup"
        /\ startup' = [startup EXCEPT ![n] = @ \cup {i}]
        /\ NextItem(n, k) /\ UNCHANGED <<errors, sent, failed>>
     \/ \* the script of a daemon without a target file
        /\ m \in {"sh", "cp_sh"}
        /\ errors' = TRUE
        /\ Move(n, "done") /\ UNCHANGED <<sent, failed, startup>>
     \/ /\ m = "cp_sh"
        /\ errors' = TRUE
        /\ NextItem(n, k) /\ UNCHANGED <<sent, failed, startup>>
     \/ /\ m \in {"ns", "sh", "cp_sh"}
        /\ \/ NextItem(n, k) /\ Succeeds(n, i) /\ UNCHANGED <<errors, failed>>
           \/ Move(n, "done") /\ Fails(n, i) /\ UNCHANGED sent
        /\ UNCHANGED startup
  /\ Same

\* A bug: the exception that ends the thread is not logged.
LibvirtItemQuiet(n) == \E k \in Rest(n) :
  /\ Script(n, k, "libvirt")
  /\ Move(n, "done")
  /\ UNCHANGED <<errors, sent, failed, startup>> /\ Same

\* deploy_config: no connection, no copy or a failure ends the scripts of the
\* node; an exception of send_command is only logged.
LibvirtItem(n) == \E k \in Rest(n) :
  /\ Script(n, k, "libvirt")
  /\ LET i == Templates[n][k] IN
     \/ NextItem(n, k) /\ Succeeds(n, i) /\ UNCHANGED <<errors, failed>>
     \/ Move(n, "done") /\ Fails(n, i) /\ UNCHANGED sent
     \/ Move(n, "done") /\ errors' = TRUE /\ UNCHANGED <<sent, failed>>
  /\ UNCHANGED startup /\ Same

-----------------------------------------------------------------------------
(* deploy_ansible_playbook, after the threads have ended *)

\* The snippets that are not in netlab_ansible_skip_module.
AnsibleItems(n) == {i \in Range(List(n)) : Method[n][i] = "ansible"}

\* The playbook skips the nodes that need nothing from it; it runs whatever
\* the threads have reported, and a failure of either ends the command.
RunPlaybook ==
  /\ stage \in Threaded /\ \A n \in Node : thread[n] = "done"
  /\ LET internal == \A n \in Node : failed[n] = {}
         next == IF stage = "normalize" /\ command = "initial" THEN "deploy" ELSE "complete" IN
     \/ /\ played' = [n \in Node |-> played[n] \cup AnsibleItems(n)]
        /\ stage' = IF internal THEN next ELSE "exit"
     \/ /\ \E n \in Node : AnsibleItems(n) # {}
        /\ stage' = "exit" /\ UNCHANGED played
  /\ NewThreads
  /\ UNCHANGED <<readyVars, command, sent, failed, startup>>

Next ==
  \/ CreateConfigs \/ WaitForDevices \/ DevicesReady \/ NotReadyExit \/ RunPlaybook
  \/ \E n \in Node : \/ BeginThread(n) \/ Connect(n) \/ NetmikoDone(n) \/ NetmikoItem(n)
                     \/ ScriptsDone(n) \/ ClabItem(n) \/ LibvirtItem(n)

\* Attempts have timeouts; the commands that configure a device are assumed to
\* return.
Spec == Init /\ [][Next]_vars /\ WF_vars(Next)

-----------------------------------------------------------------------------
TypeOK ==
  /\ ReadyTypeOK
  /\ command \in {"initial", "ready", "normalize"}
  /\ stage \in {"create", "wait", "normalize", "deploy", "complete", "exit"}
  /\ thread \in [Node -> {"new", "connect", "netmiko", "scripts", "done"}]
  /\ pos \in [Node -> Nat]
  /\ sent \in [Node -> Seq(Item)]
  /\ {failed, startup, played} \subseteq [Node -> SUBSET Item]

Done(n) == Range(sent[n]) \cup startup[n] \cup played[n]

\* Nothing reaches any device before every check has passed on every node that
\* asks for it, although a failed health check is an error message only (the
\* exit_on_error calls of deploy.run and device_ssh_ready), and no other snippet
\* before the nodes that need it are normalized, or an error tells they are not.
SentInOrder == \A n \in Node :
  /\ Done(n) \cup failed[n] # {} => \A c \in Checks : MustPass(c) \subseteq passed[c]
  /\ (Done(n) \cup failed[n]) \ {Normalize} # {} =>
        \A m \in Normalizes : Normalize \in Done(m) \/ Method[m][Normalize] = "file" \/ errors

\* netmiko.deploy ends at the first snippet with another method.
Cut(n, i) == /\ Method[n][i] = "netmiko"
             /\ \E j \in 1..Len(Deploy[n]) : /\ Method[n][Deploy[n][j]] # "netmiko"
                                             /\ i \in Range(SubSeq(Deploy[n], j, Len(Deploy[n])))

\* The command says that the deployment is complete although snippets are
\* missing on a device: when an error was logged (an exception of a thread, a
\* script that could not be copied), or without any trace behind a snippet
\* netmiko does not deploy.  There is no other way to lose one.  And none is
\* deployed twice to a node, by one mechanism or by two of them, unless it is
\* listed twice: the thread of a node runs netmiko and then its provider, and
\* Ansible follows.
Accounted ==
  /\ stage = "complete" /\ command = "initial" =>
       \A n \in Node :
         /\ failed[n] = {}
         /\ ~errors => \A i \in Range(Deploy[n]) :
                         i \in Done(n) \/ Method[n][i] = "file" \/ Cut(n, i)
  /\ \A n \in Node :
       /\ IsInjective(Deploy[n]) => IsInjective(sent[n])
       /\ Range(sent[n]) \cap (startup[n] \cup played[n]) = {} /\ startup[n] \cap played[n] = {}

\* The command ends: a device that never answers, a container that never gets
\* healthy and a failure in a thread all come to an exit.
Ends == <>(stage \in {"complete", "exit"})

=============================================================================
