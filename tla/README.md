# A TLA+ verification of netlab

netlab turns a topology file into provider configurations, starts the virtual
lab with one or more providers (libvirt, containerlab), configures its devices
and takes it down again. This directory models the parts of it whose
correctness depends on the order of steps, on several processes or threads, or
on arithmetic at the edge of a range. Paths are relative to `src/netsim/`, those
of documents (`docs/`) to `src/`.

Everything is written in TLA+: the state of a component as variables, one
action per step of the code that other processes can observe, TLC
configurations for small instances, and proofs of the main results for every
value of the constants.

## 1. The system

### Components and their state

| Component | Code | State it keeps | Operations |
|---|---|---|---|
| Lab lifecycle | `cli/up.py`, `down.py`, `restart.py`, `create.py`, `external_commands.py` | per directory: `netlab.lock`, the snapshot, the provider files; running workloads; per process: its progress | create, up (also from a snapshot, dry run), down (with cleanup, force), restart |
| Status file | `utils/status.py`, `cli/status.py` | `~/.netlab/status.yaml`, its `.lock` | read, change under a lock with a timeout, remove an entry, reset |
| API server | `cli/api.py` | job records, `RUN_LOCK`; of the process: working directory, standard output, error log | post, run, cancel, list; status requests |
| Readiness, deployment | `cli/initial/`, `providers/` (checks and scripts) | per node: what was sent, what failed; wait lists; threads | poll with deadlines, normalize, send with netmiko, run scripts, call Ansible |
| Lab validation | `cli/validate/` | counters, results of tests and nodes, the clock of a test | tests with retries, plugins, Suzieq, configuration steps; summary and exit status |
| Addressing | `augment/addressing.py`, `augment/nodes.py`, `augment/links.py`, `modules/_dataplane.py`, `modules/gateway.py` | pools (generators and caches), the set of node identifiers and its counter, addresses of interfaces | set up pools, reserve, take the next free one, draw by order or by number, assign the addresses of a link |
| Groups | `augment/groups.py`, parts of `augment/nodes.py`, `modules/__init__.py` | members of groups; devices, modules, attributes, templates of nodes | complete groups from defaults and nodes, check, copy to nodes |
| VLANs | `modules/vlan.py`, `augment/links.py` | VLANs of topology and nodes, their ids, links and VLAN members, interfaces, neighbors | transformation hooks, one node after the other |
| VRFs, VXLAN, EVPN | `modules/vrf.py`, `vxlan.py`, `evpn.py`, `_dataplane.py` | id sets and counters; numbers, targets, VTEPs and flood lists | transformation hooks |
| BGP | `modules/bgp.py` | AS numbers, route reflectors, roles of links, neighbors of nodes | transformation hooks |
| Interior protocols | `modules/_routing.py`, `ospf.py`, `isis.py`, `eigrp.py`, `ripv2.py` | interfaces and instances of protocols, imports | transformation hooks |
| Transformation pipeline | `augment/main.py`, `modules/__init__.py`, `augment/plugin.py` | the topology, the error log | hooks of modules, plugins and providers in order; checkpoints |
| Other modules | `modules/lag.py`, `routing/`, `dhcp.py`, `mpls.py`, ... | node and interface attributes | transformation hooks |
| Data model | `data/`, `defaults/` | none | validation |
| Providers, outputs, templates | `providers/`, `outputs/`, `templates/`, `ansible/` | files | render |
| Usage statistics | `utils/stats.py` | a JSON file and its lock | count, average, clear |

`PROJECT.json` lists them with the modules that model them, those left out too.

### How they interact

* **Commands** of one user meet in three things that outlive them: the lock file
  of a directory, the entry of the lab instance in the status file, and the
  files of `netlab create`. Nothing is held over a whole command. A command
  may end at any point: a fatal error, `sys.exit`, Ctrl-C, a kill.
* **The status file** is rewritten as a whole under a file lock
  (`change_status`); it is read without the lock (`read_status`) by
  `check_lab_instance` and `lab_dir_mismatch`.
* **The API server** runs the same commands in its own process, in a thread for
  each job, one at a time (`RUN_LOCK`). Requests are threads, too, and some run
  a command without that lock.
* **netlab up** starts `netlab initial` when the workloads run. It waits for the
  devices, in pools of threads, and deploys configurations, a thread per node.
  **netlab validate** looks at the running lab later.
* **The transformation** calls the hooks of modules in a fixed order: for the
  topology, for each node, for each link, and again after links are expanded.
  They have no interface but the topology they all change. Errors are collected,
  and end the program only at checkpoints (`exit_on_error`): code between two
  checkpoints goes on with half of the data. A node is transformed with what its
  neighbors are at that moment: those before it in the dictionary are finished,
  those after it are not.

### What is hard, and what makes it correct

| Component | Hard | Correct when |
|---|---|---|
| Lifecycle | commands overlap; failure or kill between any two steps; decisions from stale reads | an instance runs once; what runs is registered, locked, and can be shut down; down leaves nothing behind |
| Status file | writers die while the file is truncated; lock timeouts; reads without the lock | no update is lost; the file is as good as one atomic value |
| API server | process-wide directory, output and error log | a job behaves as the command it stands for; every job comes to an end |
| Readiness, deployment | polling loops with deadlines and pauses around attempts that take time; five ways to deploy a snippet, each with its own idea of failure | nobody is waited for long after its deadline; nothing is sent before the checks; every snippet is accounted for; the command ends |
| Validation | rounds until a deadline; a last attempt; counters and results kept apart | the summary is that of the results; a failure shows in the exit status; nobody is given up early |
| Addressing | two ways to draw from one pool; identifiers reserved too late; host bits and reserved addresses at the boundaries of the prefix sizes | identifiers and subnets are unique; a prefix that is large enough always does |
| Groups | hierarchies, defaults and automatic groups; values settled by the order of groups | the innermost group wins; templates are in order; AS groups are exact |
| VLANs | modes from five places, routed against bridged at each end, native VLANs, neighbors in lists all nodes share | who can exchange frames shares a subnet and is a neighbor; tags are known at both ends |
| VRFs, VXLAN, EVPN | numbers given, generated, inherited, registered too late; lists built from the numbers of others | no two things share a number; routes and frames go exactly where the lab says |
| BGP | both ends of a session are built apart; route reflectors from three places | the ends agree; routes reach every node of an AS |
| Interior protocols | decided from neighbors that may lose the protocol later; circular imports | both ends of a link run the protocol; imports resolve |

The `hazards` of `PROJECT.json` name each difficulty at its line, with the
property that covers it or the reason why none does yet.

## 2. The modules

| Module | Stands for |
|---|---|
| `LabRegistry` | abstract: what the documentation promises of lab instances |
| `LabLifecycle` | the four commands, by several shells in several directories |
| `AtomicStatus` | abstract: a status changed one entry at a time |
| `StatusFile` | the status file, its lock, its readers and resets |
| `ApiJobs` | the job runner of the API server and the GET requests |
| `DeviceReady` | the readiness checks, a step after the other |
| `InitialConfig` | `netlab initial`: `DeviceReady`, then the deployment |
| `ValidateTests` | `netlab validate` |
| `LinkAddresses` | pure: which addresses a link gets from a prefix |
| `AddressPlan` | identifiers, pools, prefixes and the links of a topology; uses `LinkAddresses` |
| `Groups` | from groups to the devices, modules, attributes and templates of nodes |
| `VlanAttributes` | pure: the mode that wins, the VLAN a link is used for |
| `Vlans` | the hooks of the VLAN module; uses `VlanAttributes` |
| `RoutingLab` | the lab record `BgpSessions` and `IgpInstances` share |
| `BgpSessions` | AS numbers, route reflectors, roles of links, neighbors |
| `IgpInstances` | which interfaces and VRFs run which protocol, imports |
| `Routing` | the two together, as `node_transform` interleaves them |
| `VpnIds` | identifiers of VRFs, VLAN VNIs, transit VNIs |
| `Overlay` | VTEPs, flood lists, EVPN services; composes with `VpnIds` |
| `MC...` | small instances of these |
| `..._proofs` | theorems and proofs about the module they are named after; `SharedState_proofs` about `StatusFile` and `ApiJobs`, what processes and threads share |

### LabLifecycle

`pc[p]` is the step a shell is at: the names of the values are those of the
functions or of the files it is about to touch. `cmd[p]` is its command line,
`todo[p]` the providers it has still to start or stop, `mismatch[p]` the answer
of `lab_dir_mismatch`. `lock`, `files`, `workload` are per directory; `owner`
and `phase` are the `dir` and `status` of the entries of the status file. A
status update is one step here, `StatusFile` says why that is right; with
`TornReads`, a read without the lock may meet an empty file.

Actions are named after functions (`CheckLabInstance`, `StatusStartLab`,
`LabDirMismatch`, `RemoveLabStatus`, ...). `Exit` ends a command where the code
may fail or is killed, `Interrupt` is Ctrl-C, `LogFailure` the log entry of a
failed command. A workload is the set of providers with running machines:
what happens inside a provider is not modelled, only that its command may fail
before or after it had an effect. The configuration of devices is one step.

`DirRaces` and `LabRaces` say which kinds of commands may overlap in one
directory and on one instance: the runs and the theorems choose them to tell
what netlab guarantees in normal use from what it does not.

### StatusFile

`file` is a status, `Torn` (truncated, not yet written) or `Missing`. A process
that changes it acquires the lock or times out, reads, truncates, writes and
releases; it may fail or be killed at each of these. `harm` is a history
variable: did a writer die, was the file reset? An empty file is read as no
entries or as an error: the YAML library is external, both are allowed.

### ApiJobs

One thread for each job and each client. `cwd`, `stdout` and `errors` are those
of the process, shared by all threads. A command is transform, check, write:
its errors are noticed in `exit_on_error`, and it may raise an exception or call
`sys.exit` anywhere. Contents of logs and job records are left out; `asked` is a
history variable, true from the first GET request on.

### LinkAddresses and AddressPlan

A prefix is its size; an address is a host number in it; a subnet of a pool is
its position in the generator of the pool. `LinkAddresses` translates
`get_prefix_IPAM_policy`, the allocation policies, the assignment of interface
addresses, and the checks for host bits and duplicates. `AddressPlan` runs the
transformation: gateways reserve identifiers, static nodes theirs, other nodes
take the next free one; nodes draw loopbacks by number; VLANs, named prefixes
and links draw by order or by number as the code does; every link gets a
prefix and addresses. `error` is the error log and `Checkpoint` is
`exit_on_error`.

Abstractions: one address family; nodes are numbered in the order of their
names; management and MAC addresses, unnumbered links, static prefixes that
overlap pools (the code does not look for them), VLAN gateways of single nodes,
router IDs drawn after the links, SRv6 locators, interface indexes, DHCP and
router advertisements are left out.

### DeviceReady and InitialConfig

`waitlists[c]` are the nodes check `c` still waits for, `clock` the seconds since
the step began. The containerlab check polls alone, the SSH and command checks
in rounds: an attempt for each undecided node in a pool of `Threads`, then a
pause; an attempt takes time, and a verdict counts only with the deadline as the
code tests it (after the attempt). `InitialConfig` then normalizes nodes and
deploys: the thread of a node sends the netmiko snippets, then its provider
executes the scripts; what is left is for Ansible. `sent`, `failed`, `startup`
and `played` are the node data the summary is computed from. An attempt, a
command or a file copy succeeds or fails; a thread may raise an exception. What
a snippet says is left out.

### ValidateTests

`suite` is a list of tests; `queue` and `remaining` are places in the list of
nodes of a test, since a node may be listed twice; `ret_value` is the local
variable, `TEST_COUNT` and `results` the counters and the
JSON document. A node answers well, badly, not at all, or the command fails;
plugins, Suzieq records, expected failures, levels, `stop_on_error`, waits and
configuration steps are those of the code. `verdicts` and `last` are history
variables. What a test checks is left out.

### Groups

A lab is a record of nodes, groups and default groups. The actions are the
functions of `init_groups` in their order, one group at a time where the order
of groups matters; `find_node_device` and `augment_node_module` come after them
because they settle what groups had to guess. Attributes stand for one of an
optional module, two of BGP and the role of a node.

### VlanAttributes and Vlans

`links` grows VLAN members, `intfs` are the interfaces of nodes by type (`lan`,
`vlan_member`, `svi`), `ngb` are the neighbor lists, one object for all nodes
where the code shares it. A prefix is named by its owner, so that two nodes
share a subnet when they have the same one. The hooks run one after the other,
those of nodes one node after the other, and `links.py` between them.

Labs: one mode of a VLAN per node; a VLAN of a node is not on a link with
another node that has one of that name. Left out: links of a node with itself,
explicit prefixes, attributes per VLAN in trunks, `links` lists of VLANs,
attributes of other modules, checks for duplicate addresses, MTUs.

### RoutingLab, BgpSessions, IgpInstances, Routing

`BgpSessions` translates the hooks that set AS numbers, route reflectors and
roles, and the two functions that build neighbors: `todo` walks over the
interfaces of a node. An address is the interface or loopback it belongs to and
its family. `IgpInstances` has one action for the hook of a protocol on a node,
with the calls of `_routing.py` in their order; `modules` shrinks when a
protocol is not needed. `Routing` runs, for each node, the BGP hooks and then
those of the interior protocols, as `config_after` sorts them.

`SessionsAgree` does not count sessions to an interface or VRF with `bgp: False`
at one end, nor ends without a common address family; two route reflectors that
both refuse a mesh are not expected to exchange routes. Cluster identifiers,
communities, activated families, prefixes, VLAN roles, areas, metrics, timers,
network types, router ids, BFD, default routes and route policies are left out.
Labs import only BGP, static and connected routes into protocols of nodes,
state address families of VRF instances only without BGP, force `active` only
where there are interfaces, and give protocol data of VRFs only to nodes with
the module: section 5 says what happens otherwise.

### VpnIds and Overlay

`vrf` has the ids, route distinguishers and targets of the VRFs of topology and
nodes, `vlanVni` and `transit` the VNIs, `ids`, `rds`, `vnis` the sets of
`_dataplane.py`. A node generates, inherits or keeps numbers, VRF after VRF.
`Overlay` adds what VXLAN and EVPN do between these hooks: `turn` says which of
theirs is next, `OverlayTurn` when it is. `service` and `evi` are EVPN data of
VLANs and VRFs, `flood` the `vtep_list` of VLANs, `spoken` the BGP sessions with
EVPN, `instances` what gets a local route distinguisher.

What labs must respect is said by predicates in the properties: `NumbersClear`
(different VRFs get different numbers, given numbers exist only when some VRF is
global, and an rd without a value does not make a given one), `TargetsClear`
(given targets are not those netlab would generate) and `VnisClear` (the VNIs of
VLANs stay below those of VRFs, none of which is given the first generated one).
Section 5 says why; given EVIs are not those netlab generates. Left out:
ranges, loopbacks and links of VRFs (`addressed` says which VRFs have addresses in
a node), MPLS transport, given distinguishers of services, the removal of EBGP
sessions over EVPN VLANs, and VRFs whose name is a part of another one.
Errors are modelled where numbers without an AS meet a lab without one, and local
route distinguishers also for VLANs with EVPN data outside `evpn.vlans`.

## 3. The runs

Bounds are in the `MC` modules, with every constant named.

| Run | Instance | States | What it shows |
|---|---|---|---|
| `lifecycle_ups` | 3 shells, 2 directories, 1 instance, 2 providers | 570 613 | in normal use, with `netlab up` racing `netlab up`: at most one copy runs, it is registered, locked, recoverable; down is complete; implements `LabRegistry` |
| `lifecycle_all` | 2 shells, all command lines, torn reads | 1 074 456 | status *started* means all workloads run, whatever flags are used |
| `lifecycle_race` | 2 shells | violation | down against up of the same instance elsewhere |
| `status_file` | 3 processes, 2 labs, 2 values | 229 529 | no lost update, implements `AtomicStatus`, waiting ends |
| `api_jobs` | 2 jobs, 1 client | 33 874 | isolation of jobs until the first GET request; final states stay, jobs end |
| `initial` | 3 nodes, 1 thread, all deployment methods | 248 211 | deadlines, order, every snippet accounted for, the command ends |
| `validate` | 443 lists of tests, 2 nodes | 66 406 | counters, results and exit status agree; last attempts; the command ends |
| `address_plan` | 3 nodes, 1 link, pools of 3 and 2 subnets, identifiers up to 7 | 728 605 | unique identifiers and subnets, loopbacks follow identifiers, shared prefixes do |
| `groups` | 16 584 labs | 399 622 | innermost groups win, templates in order, AS groups exact |
| `vlans` | 5856 labs, 4 nodes | 120 296 | subnets, neighbors and tags meet |
| `routing` | 23 948 labs, 3 or 4 nodes | 476 154 | sessions agree, routes reach, roles of links, adjacencies, imports |
| `vpn_ids` | 7008 labs, 2 or 3 nodes | 150 702 | unique numbers; routes, frames and services go where the lab says |

Why these bounds are enough to see the interesting cases:

* *Lifecycle.* A race needs two shells, and a third one lets two of them share a
  directory while the other works on the same instance elsewhere. Two providers
  are the least with a lab half started or half stopped. A second instance would
  not share any state with the first; the theorems cover any number. There are
  no counters.
* *Status file.* One process writes, one waits, one reads or resets. Two
  entries are the least with a lost update of another lab.
* *Deployment.* The three nodes are a container with netmiko and a namespace
  script, a virtual machine with scripts and Ansible, and a container with every
  other kind of script; one thread makes nodes wait for each other, more would
  only add interleavings of independent nodes. Times are one to three seconds:
  attempts that end before, at and after the deadline, with and without a pause.
  An SSH attempt is one operation (`probe_ssh`) or three (`probe_netmiko`, which
  gives each of its timeouts the delay), so one attempt may outlast the wait time.
* *Validation.* Every kind of test alone on two nodes, and lists of tests that
  stop, wait, warn or configure before another one; waits of up to two seconds
  give attempts before, at and after the deadline. A test looks at another one
  only through the counters, the stop flag and the clock.
* *API.* Two jobs compete for the lock, one of them with a bad topology and
  without a directory of its own. One client is enough to disturb both; two
  would only add to the same disturbances.
* *Addresses.* The pool of loopbacks is as long as the list of nodes, the other
  pool runs out; identifier 7 fits into no pool and no prefix, the VLAN may
  reserve all small ones. Prefixes of 2, 4 and 8 addresses are a /31, a /30 and a
  /29: the first is the one without network and broadcast address, the second
  the one where the gateway leaves a single host. Links have one, two and three
  nodes. The proofs remove these bounds.

* *Groups.* Three groups are the least with a group between two others: chains in
  both orders of names, groups that overlap, groups that share one, and loops as
  an error; attributes, modules, devices and templates at every combination of
  levels, with the groups of all nodes, of a device and of an AS.
* *VLANs.* Two switches, a router and a host on a trunk, a second link and
  access links; two VLANs in a trunk, of which each may be native, routed at
  either end, or missing. Devices differ in what they support.
* *Routing.* Three nodes are the least with a route reflector between clients, a
  neighbor transformed before and one after a node; four are used for two
  reflectors. Labs vary one or two of the features at a time.
* *VPNs.* VRF ids end at 4, so that given numbers are in the way of generated ones
  and the range runs out. Three VRFs are the least with a generated number
  between two given ones; two nodes with two VLANs, each missing somewhere, and a
  third node that shares a VTEP, is in another domain, or is a route reflector.

`TypeOK` of the modules with proofs is part of the invariants proved; that of
`Vlans` is stated for the proofs to come.

Runs with `CHECK_DEADLOCK FALSE` are those of programs that end: all jobs are
done, the command has ended, or the topology is transformed. The lifecycle and the status file are
checked for deadlocks.

### Fairness

* `LabLifecycle` has none: nothing obliges users to run commands, and commands may
  fail at any step. `AddressPlan`, `Groups`, `Vlans`, `Routing` and `VpnIds` are
  sequential programs without loops that wait; their properties are about the
  end of the transformation.
* `InitialConfig` has weak fairness of the whole next-state relation: some
  thread runs, attempts return (they have timeouts of their own), commands end.
  Nothing is assumed of the devices.
* `ValidateTests` has the same, and weak fairness of `Tick`: time goes on.
* `StatusFile` has weak fairness of `Leave` of each process: `FileLock.acquire`
  polls and ends after its three seconds, with the lock or without it. Nothing is
  assumed of the process that holds the lock, so `WaitersLeave` also holds if
  it hangs.
* `ApiJobs` has weak fairness of each job's thread: the operating system runs
  threads, and their commands end. Nothing is assumed of clients, and nothing of
  the order in which threads get `RUN_LOCK` (a `threading.Lock` has none). With a
  finite number of jobs, each gets it in the end.

## 4. The theorems

Checked by TLAPS for all values of the constants that satisfy the assumptions of
the modules.

| Module | Theorem | Says |
|---|---|---|
| `LabLifecycle_proofs` | `TypeCorrect` | types, whatever commands overlap |
| | `Invariance` | `SafeUse => (Spec => []IInv)` |
| | `RunningIsSafe`, `InstanceIsUnique`, `DownIsComplete` | the invariants of `lifecycle_ups` (`RunningIsManaged`, `OneInstance`, `DownLeavesNothing`) |
| | `Refinement` | `SafeUse => (Spec => ImplementsRegistry)` |
| | `StartedStaysComplete` | `OnlyUpsOverlap => (Spec => []StartedIsComplete)`, the invariant of `lifecycle_all` |
| `SharedState_proofs` | `TypeCorrect`, `Invariance`, `UpdatesAreKept`, `Refinement` | `StatusFile`: the safety part of `status_file` |
| | `ApiTypeCorrect`, `ApiInvariance`, `JobsAreIsolated`, `CanceledStays` | `ApiJobs`: the isolation of jobs; final states stay, GET requests or not |
| `AddressPlan_proofs` | `TypeCorrect`, `Invariance`, `IdsStayUnique`, `SubnetsStayUnique`, `LoopbackIsTheId`, `SharedPrefixesAlwaysDo` | all of `address_plan` |
| | `FittingPrefixesDo` | the assignment of addresses to a link, as a function |
| `InitialConfig_proofs` | `TypeCorrect`, `Invariance`, `WaitsInTime`, `OrderHolds`, `AllAccounted` | the safety part of `initial`; its first half is about `DeviceReady`: what a poll, a round and a pause do to lists and clock |
| `ValidateTests_proofs` | `TypeCorrect`, `Invariance`, `NobodyIsGivenUp`, `StatusIsRight`, `SummaryIsRight` | the safety part of `validate` |
| `VpnIds_proofs` | `TypesHold`, `VrfsStayApart`, `RoutesGo`, `VnisStayApart` | numbers, route targets and VNIs of `vpn_ids` (all of `VpnIds`), of every step of `OverlaySpec` |
| | `FloodsReach`, `IrbWorks` | flood lists and routing between VLANs of `vpn_ids` (`Overlay`) |
| | `ServicesWork` | `NumbersClear /\ TargetsClear /\ ServicesClear => ServicesMeet` |
| `Routing_proofs` | `IgpInvariance`, `AdjacenciesAreMet` | `AdjacenciesMeet` of `routing`, without further conditions |
| | `BgpInvariance` | what every list of neighbors is made of, for `RoutingSpec` |
| | `RoutesAreReached` | `DaemonsAreNumbered => RoutesReach` |
| | `SessionsAreAgreed` | `DaemonsAreNumbered /\ LocalAsOutside => SessionsAgree` |
| | `LinksAreExternal` | `LinkAsIsPlain => ExternalLinks` |
| `Groups_proofs` | `GroupsInvariance`, `AsGroupsHold` | `AsGroupsAreExact` of `groups`, for any hierarchy of groups |

**Assumptions.** `SafeUse` of `LabLifecycle` is normal use: no `--force`, no
`--unlock`, no dry run but that of `netlab up`, only `netlab up` and
`netlab create` overlap on one directory or instance, and no read of the status
file meets an update. It is a condition on constants, and
`lifecycle_ups` is an instance of it. `lifecycle_race` drops a conjunct, the one
about races, and finds a violation. `OnlyUpsOverlap`, which
`StartedStaysComplete` needs, is the part of it about races: the instance of
`lifecycle_all` has every flag and torn reads. The other modules
have assumptions on constants only (`StatusAssumption`, `ApiAssumption`,
`PlanAssumption`, `NoAddress`, `ReadyAssumption`, `ConfigAssumption`,
`ValidateAssumption`, `BoundsAssumption`, `LabsAssumption` of `VpnIds` and of `BgpSessions`, `FabricAssumption`,
`DevicesAssumption`, `NamesAssumption`, `FieldsAssumption`, `AsGroupsAssumption`),
which TLC evaluates in the runs. Six of them say more than types:

* `ConfigAssumption`: the templates of a node are the keys of a dictionary
  (`providers/binds.py:26-46`), so none is listed twice; a method that makes a
  script belongs to the provider of the node and to a snippet with a template,
  since only the provider adds such methods (`providers/__init__.py:449-489`);
  *normalize* is not in the deployment list, it has a stage of its own.
* `ValidateAssumption`: a test that waits has nothing to judge
  (`cli/validate/utils.py:119-127`, `augment/validate.py`: the action *wait* is
  what remains when there is no other), and the key of a test's own result is not the name of a node.
* `LabsAssumption` of `BgpSessions`: lists of nodes and of modules list nothing
  twice (they are dictionaries and checked lists), and nodes without the BGP
  module have no AS number, real or local, and are in no AS list.
* `LabsAssumption` of `VpnIds`: the nodes of a lab are the keys of a dictionary, none is
  named like the topology, and a VRF that takes the VNI of another VRF
  (`evpn.transit_vni: name`) has no number in the same attribute.
* `FabricAssumption`: nodes with VXLAN or EVPN are nodes of the lab, and the VLANs
  of a node are global ones or, under other names, its own. This is how the
  labs of `VpnIds` are written: a VLAN that is defined in a node and in the
  topology counts as the global one (`modules/vlan.py:480-498`). A bundle is asked
  of a global VRF only (`evpn.py:215`). The AS number of the topology's VRFs is its
  `bgp.as`, or else `vrf.as`, and VRFs with addresses in a node are used in it.
* `AsGroupsAssumption`: the group of an AS does not give its members another AS,
  or the role *host*. Nothing in the code forbids it; such a lab leaves nodes in
  the group of an AS they are not in, because the group is filled before its
  data are copied (`augment/groups.py:741-742`).

`ServicesClear` of `Overlay` is a condition on labs, like `NumbersClear` and
`TargetsClear` of `VpnIds`: EVIs of VLANs and given EVIs are distinct, above the ids of VRFs and
at most 5000, targets made of them are given to nobody, a node has the VRFs of its
bundles on interfaces, and BGP neighbors list each other. The default ranges satisfy it
(VLAN ids from 1000, ids of VRFs from 1, EVIs of VRFs above 5000), and so do many labs
with EVPN of `vpn_ids`, but not all; the run checks `ServicesMeet` on all of them, and
keeps VLAN ids out of the ids of VRFs with EVPN data and no transit VNI (section 5).

**Why the invariants have to be strengthened.**

* *Lifecycle.* "What runs is registered" is not inductive: `netlab up` starts
  workloads long after it registered the instance. `IInv` adds `Alone` (commands
  that must not overlap do not), `UpInv` (between `lab_status_start` and the end,
  `netlab up` owns the instance, then the lock, and its snapshot stays in place),
  `DownOwner` (the answer of `lab_dir_mismatch` is still true when it is used)
  and `DownWorkload` (what runs is still in the list of providers to stop).
  `DownOwner` is what `lifecycle_race` breaks. "Started is complete" needs
  `Launches` (`netlab up` owns the instance, and what it has not to start any
  more runs) and `StopsAreTold` (nothing is stopped before the status says so).
* *Status file.* `Mutex` (who works on the file holds the lock), `Fresh` (until
  a reset, the copy about to be written is the current status with one entry
  changed) and `InPlace` (the file a writer truncated is still there).
* *API.* `HeldOnce` (the holder of `RUN_LOCK` is the job between taking it and
  giving it up), and, until the first GET request, `Place`, `Checked` and
  `Quiet`: the directory, the error log and the output are what the progress of
  that job says. `Recorded` (a job's state is *running* from its start to its
  end) makes final states stay.
* *Addresses.* `IdInv` (all identifiers given, and all positive gateways, are
  in the set), `PoolInv` (subnets in a cache were drawn, each once; the subnet
  of a node is the entry of its identifier in the cache, those of others are in
  no cache; the cache is the identity while nobody takes subnets by order),
  `TurnInv` (nobody gets something before its turn) and `LinkInv` (all
  identifiers are given before the first link, whose data are sound).
* *Deployment.* `InTime` bounds a wait by two rounds and a pause, but a round has
  more attempts than threads, and an attempt takes as many delays as it has
  operations (`SshOperations`, any positive number: the delay is the timeout of
  the ssh command, and of each operation of netmiko). `Batches` counts: whoever has not ended after
  `k + 1` batches began late enough that `(k + 1) * Workers` nodes began before
  it; so `n` nodes take at most one batch for every `Workers` of them. `ChecksKept`
  (a check waits for all it was asked for, or it is over) and `StageInv` give the
  order. For the snippets, `Ahead` (what the thread has yet to send was not sent
  before), `Past` (what it has passed was sent, or an error was logged) and
  `MethodsFit` (netmiko, scripts, startup files and Ansible do not share
  snippets) follow the position of each thread.
* *Validation.* `Clean` (without a failure or a warning every node has answered
  well or is asked again), `Blamed` (a failure has made its test fail), `Empty`
  (what is written next is still empty), `Owners` (a test and its nodes do not
  both have the result that counts) and `Tally` (each counter is the number of
  results that belong to it). One lemma says what any outcome of an attempt does
  to counters and results (`Sound`), and the steps of a test follow from it.

* *VPNs.* That numbers differ at the end needs where they come from. `Progress`
  tells which VRFs have numbers (those of owners whose turn is over, and those
  taken from the list of the current one) and which still have what the lab
  gave them. `IdInv` keeps `Registered` (the sets hold every number in use),
  `Apart` (two VRFs have none in common), `Origins` (a given route distinguisher
  belongs to the VRF it was given to) and `GlobalIds` (a node has the id of the
  global VRF or none). For the routes, `MadeInv` says that a VRF others can name
  has the route distinguisher of the lab, or a generated one that nobody gives,
  and `TargetsInv` that the targets of each VRF whose turn is over are the names
  and numbers the lab asks for, with a route distinguisher in place of each name
  (`Settled`). Different names stand for different route distinguishers by
  `Apart`, and a number of the lab for none that is generated, so lists of
  targets meet exactly if what the lab wrote does. `VniInv` follows the VNIs of VLANs, whose counter only
  passes numbers of the set (`VlansLow`), and of VRFs, whose counter passes
  the given ones (`TransitDuring`, `TransitAfter`); both counters are one variable.
  `NextVni` and `Free` are minima of sets: `MinFact` shows that they exist.
  `FabricInv` adds what VXLAN and EVPN did so far: no given VNI is replaced
  (`GivenKeptVnis`), a node with a segment has a VTEP or there was an error
  (`VtepsSet`), the lists are those of the numbers of now, which do not change
  any more (`FloodsSet`). With `SegmentsDiffer`, equal VNIs are one segment.
  `ServiceInv` adds the services: the EVI of a VRF is given, its id, or made of its
  id, which does not change any more (`Listing`), each service has the number of
  its VLAN or bundle (`Serving`), and the ids in use are given, or were counted
  (`IdsLow`). `ServicesMeet` then compares what the lab asks for with the numbers
  that stand for it: `RealApart` says that different names, VLANs and given targets
  have different ones, `InstanceFact` what every EVI of a node is the number of.

* *Groups.* The groups of AS are filled from what a node will run: its modules, or
  those of the topology unless its device, given or by default, or its role is
  that of a host. `Exact` says so from then on, and each later function has to
  leave it: the second copy of group data, which only takes groups of an AS
  (`NobodyLeaves`), the default device, and the modules of the topology, after
  which what a node would run is what it runs (`Settled`). Neither the order of
  the groups nor who is inside whom matters, so no recursion is unfolded.

* *Interior protocols.* An end of a link is decided in the turn of its node, from
  the modules its neighbors have then; they may lose some later. `Kept` says who
  may: a module leaves a node in its own hook only, so a neighbor whose turn has
  not come still has all it asked for, and one that has it in the end had it
  always. `Decided` says of each hook that is over that its interfaces run the
  protocol with whatever neighbor could use it (`Meets`), which a module's
  disappearance elsewhere can only weaken. `Inside` (no interface on an external
  link) and `Ran` (nobody is passive before its turn) are what that rests on.
* *BGP.* The two ends of a session are built by two nodes, of which the first has
  finished when the second begins; neither looks at what the other wrote. So the
  invariant makes the list of each node whose turn is over a function of what
  does not change any more: `IbgpFrom` and `EbgpFrom` say what an entry was made
  from, `IbgpAll` and `EbgpAll` that none is missing, `Allowed` which error would
  have ended the transformation, `Lent` who was given a link-local address, `Confeds`, `Roles` and `Data` what AS numbers, confederations and roles are
  once they are settled. At the end both functions are compared: `EndsAgree` is the
  arithmetic of AS numbers, local ones and confederations included, `PeersTalk`
  and `PeersAreMutual` that of meshes and reflectors. `BestInterface` shows that
  a node without a loopback has one best interface (a least triple).

`TypeCorrect`, `Invariance` and the like state no property of a run; the others name one.

Only model-checked so far:

* liveness, which is beyond TLAPS: `WaitersLeave`, `JobsFinish`, `Ends` of
  deployment and of validation;
* `InnermostWins` and `TemplatesInOrder` of `Groups`: both rest on the order
  `ReverseTopsort` returns and on the closure `Inside`, recursive functions over a
  fold, and the induction over them is out of the provers' reach;
* all of `Vlans` (`OneSubnet`, `NeighborsMatch`, `TagsMeet`), whose steps are folds
  over the VLANs and the interfaces of a node, for the same reason;
* `ImportsResolve` of `Routing`, which is not true of every lab: it is about those
  section 2 describes (imports of a node that its VRF inherits are left where the
  protocol is removed).

Some of these say less than their names:

* `Accounted` does not count the snippets of a node after the first one the
  netmiko loop cannot send, nor those of the method *file*; "sent once" is about
  lists without duplicates, since the netmiko loop sends a snippet as often as it
  is listed.
* `SummaryIsTheResults` is about tests without Suzieq, expected failures, a
  command together with a plugin, a configuration step at the level of warnings,
  and a node that is listed twice: it is asked twice, and counted twice
  (`cli/validate/tests.py:243-248`). Of the results *pass* it counts those of tests
  that are `Judged`; the others are not in the summary, contrary to the
  documentation (section 5). `LastChance` and `FailuresShow` leave out nodes
  that are listed twice, too.
* `ImportsResolve` leaves out RIPv2, whose imports are not found by name.

## 5. Where the code and its documentation disagree

`lifecycle_race` finds a counterexample (`findings` of `PROJECT.json` quotes the
lines): down decides from a read at its start which entry to remove at its end;
an instance started elsewhere in between loses its entry, and can be started
again.

Seen in the code while modelling; the modules do what the code does, and where a
property would not hold, the instances or the property leave the case out:

**Commands**

* Two `netlab up` of one directory overwrite each other's files: the lock file is
  tested before, and created after the files are written
  (`outputs/provider.py:24`, `cli/up.py:384`). `netlab down --dry-run` removes the
  status entry (`cli/down.py:221`). A failed probe leaves the entry its log line
  created (`cli/up.py:369`).
* The status file is read without its lock, also while it is truncated
  (`utils/status.py:75`).
* A command of an API job that calls `sys.exit` leaves the job *running*
  (`cli/api.py:267`); GET requests clear the error log and change the directory
  of the process (`cli/api.py:411`, `cli/status.py:292`); errors of an earlier job
  stay in the log (`utils/log.py:426`).
* `netlab initial --ready` reports nodes as ready although the health check timed
  out (`docs/dev/ready.md:47`). The netmiko loop ends at the first snippet with
  another method, and later ones are not sent (`cli/initial/netmiko.py:47`,
  `docs/dev/config/netmiko.md:184`). A script that cannot be copied is neither
  failed nor deployed (`providers/clab/configs.py:94`).
* Suzieq records that are not valid count as failures
  (`cli/validate/suzieq.py:79`, `docs/netlab/validate.md:40`), a Suzieq command
  that fails as data. A test without a check records *pass* for its nodes and for
  itself, and increases no counter (`cli/validate/tests.py:176`, `:289`), although
  the summary is documented as the number of results (`docs/netlab/validate.md:66`). An error in a plugin's command is in the JSON document
  but in no counter; a failed *exec* without a check is ignored before the deadline.
* `write_stats` returns without unlocking when statistics are disabled
  (`utils/stats.py:97`); the average is an integer first and tested for a float
  (`:135`).

**Addresses**

* A link with one node, a /30 and a default gateway is refused: a size less the
  reserved addresses is compared with the size of a /32 (`augment/links.py:596`).
* A positive `gateway.id` may be the broadcast address of the prefix
  (`augment/addressing.py:414`); a static identifier 2 does not fit a /31 link
  with one node.

**Groups**

* Default members are documented to be copied when a group has none
  (`docs/groups.md:78`), but every group of the topology has a list of members by
  then (`augment/groups.py:249`, `:724`). Names of topology groups among the
  members of default groups are pruned.
* `all` and the device groups have no members and come early, so that their data
  win over those of other groups, and their templates come late.
* What a device group says reaches only nodes whose device is given by the node
  or a group: the default device is applied later (`augment/nodes.py:348`).
* A group whose only member is an AS group gives its templates to nodes, but not
  its data. A group named in a node may have the name of a node.
* The data of the group of an AS may take its own members out of the AS
  (`AsGroupsAssumption`), though it is documented to hold all nodes of the AS
  (`docs/groups.md:281`).

**VLANs**

* The checks after `vlan.py:277` cannot be reached (`docs/module/vlan.md:348`).
* The access VLAN of a link is taken out of a Python set (`vlan.py:450`); a VLAN
  is looked for by name in any neighbor (`:769`).
* Two routed subinterfaces of a node in one VLAN share one neighbor entry; a VLAN
  link with one node becomes a loopback link on some devices
  (`augment/links.py:993`); different ids or native VLANs at two ends end in an
  internal error.

**VRFs, VXLAN and EVPN**

* With VRFs of nodes only, given numbers are not registered (`vrf.py:480`). An
  empty `rd` becomes `asn:id` without a look at the used ones in a node
  (`:246`), and stays empty in a global VRF (`:224`). Given route targets are not
  reserved.
* `transit_vni: True` before a given VNI equal to `start_transit_vni` gets the same
  one; VNIs of VLANs are not looked at (`docs/module/evpn.md:185`). A VRF that
  takes its VNI from one that takes its own depends on their order.
* Two VLANs with `vni: False` are in each other's flood lists (`vxlan.py:158`).
* The EVI of a VRF with EVPN data but without a transit VNI, and its route
  target, are made of the VRF id, those of a VLAN of the VLAN id: they differ
  with the default ranges, not with small VLAN ids (`evpn.py:401`, `:164`).
  Nobody compares EVIs, or the targets made of them with given ones:
  `ServicesClear` is what `ServicesWork` needs the user to keep apart.
* Targets of VLANs are made of `evpn.as`, else `vrf.as`, which has a default, else
  `bgp.as` (`evpn.py:136-138`, `modules/vrf.yml:6`): not of `bgp.as` first, as
  `docs/module/evpn.md:141` says, and not of the AS of the VRFs' distinguishers
  (`vrf.py:59`).
* Asymmetric IRB tests whether one VRF name is a part of another
  (`evpn.py:454`). An empty `evpn.vlans` of the topology is the same as none
  (`_dataplane.py`), that of a node is not.

**BGP**

* A node with `bgp.rr: False` is not marked as a client of reflectors
  (`bgp.py:127`, `docs/module/bgp.md:355`). Three IPv4-unnumbered nodes on a link
  always fail (`bgp.py:323`). A cluster id is the least router id as a string
  (`bgp.py:451`).
* A `bgp.local_as` of a link with `bgp: False` on one interface makes a session
  one end only has; a node without loopback has IBGP sessions nobody answers.
* `DaemonsAreNumbered`: a daemon without a loopback uses its best interface as the
  end of its IBGP sessions, also when that is unnumbered.
* `LocalAsOutside`: with a local AS that is a confederation, or one of its members,
  the two ends do not agree on the AS numbers (`bgp.py`, `build_ebgp_sessions`).
* `LinkAsIsPlain`: the local AS of a link is merged into its interfaces after
  roles are set. If it makes a session external, the link has no role: with a
  local AS of an interface that is the real one, or inside a confederation.

**Interior protocols**

* Imports of a node's protocol are merged into its VRF instances
  (`_routing.py:342`), which import protocols that may not run there.
* An explicit import is `True` where a later hook expects a dictionary
  (`_routing.py:754`). Imports of RIPv2 are stored as *rip* and removed as *ripv2*
  (`:720`, `:752`). An import of a protocol that is removed as unused remains in
  BGP (`:415`).
* Data of a protocol instance that fits no interface of its VRF stay. A VRF
  instance stays active for a neighbor that loses the protocol later.
* IS-IS drops interfaces with DHCP clients, the other protocols keep them.

**Not modelled, but read**

* A static route whose next hop is connected in one family only loses the
  prefixes of the other one without an error (`routing/static.py:444`).
* Global routing objects are shared by nodes (`routing/normalize.py:118`), and the
  first node with a device that needs it rewrites them for all
  (`routing/clist.py:20`). Filters of policies are expanded before links have
  prefixes.
* Two MAC formulas differ (`augment/nodes.py:143`); plugins may ask for opposite
  orders (`augment/plugin.py:249`).

## 6. Not modelled, and why

* Providers, virtual machines, containers, Ansible: external programs. They
  succeed, or fail before or after they had an effect.
* Templates, outputs, reports, graphs, other commands: formatting.
* Data validation and defaults: a pure function whose properties are those of
  its tables.
* Devices and quirks, node roles: tables of features and rewriting of one node.
  Where a feature decides something, it is a field of the labs.
* Routing policies, static routes, LAG, MPLS, SRv6, DHCP, components, plugins:
  each rewrites the data of a node from its own and the topology's, mostly
  without meeting another component; what crosses nodes is listed in section 5.
* Usage statistics: a counter in a file under the lock `StatusFile` models.
* Of each modelled component, what its paragraph in section 2 leaves out.

## 7. Plan

The modules of the first plan are there, but for `StatsFile`, `HookOrder` (the
dependency sort of modules and plugins), `LinkInterfaces` and the routing
policies. What is left, in the order of importance:

1. **Proofs.** For the other two properties of `Groups`, the work list is a
   permutation in which groups come before those that contain them, but it is
   the result of folds, whose induction is out of reach. For `Vlans`, type
   invariants first; its ids are a fold, which only TLC can evaluate.
2. **Models.** Static routes (the missing family), policies shared by nodes, the
   dependency sort against a reference definition, LAG members and link indexes.
   Each needs a place among the runs: a property that a theorem has settled
   gives way to a new question.
