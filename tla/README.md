# Dynamic Torque, specified in TLA+

Dynamic Torque grows and shrinks a Torque/Maui cluster with OpenStack servers.
This directory holds a TLA+ model of its daemon, TLC runs that check the model
on small instances, and TLAPS proofs of theorems that hold for instances of any
size. All file names below `dynamictorque/` and `*.py` are those of the
repository; line numbers are in `PROJECT.json`, which maps every definition
that models code to its lines.

1. [The system](#1-the-system)
2. [Modules and their correspondence to the code](#2-modules-and-their-correspondence-to-the-code)
3. [Runs](#3-runs)
4. [Fairness](#4-fairness)
5. [What is proved](#5-what-is-proved)
6. [Disagreements between the code and its documents](#6-disagreements-between-the-code-and-its-documents)
7. [What TLC showed on the way](#7-what-tlc-showed-on-the-way)
8. [Abstractions and bounds](#8-abstractions-and-bounds)
9. [Not modelled](#9-not-modelled)
10. [Plan](#10-plan)

## 1. The system

### Threads

    dynamictorque.py (main) --- starts ---> JobPoller    (cluster_management.py)
          |                                 CloudPoller  (cloud_management.py)
          | forceoff, stop, join            InfoServer   (info_server.py)
          v                                     |
     ResourceCenter (res_management.py): lists of VMs, flags, one write_lock
          |                                     |
     OpenStackCloud (openstack_cloud.py)    Torque (local_commands.py)

The three threads and the main thread share one `ResourceCenter`. There is one
lock, `write_lock`; most reads, many tests that precede a write, and all calls
to the cloud and to Torque are made outside it.

### Inventory

| component | state | operations | hard part | correct when |
|---|---|---|---|---|
| **ResourceCenter**, shared data (`res_management.py`, `cloud_tools.py`) | `existing_instances`, `starting_instances`, `deleting_instances`, `provision_waiting_list`, `provisioning`, `sleep_mode`, `worker_nodes`, cores available per resource, static slots (`StaticVMs`), the persistent file, the fields of each `VM` | helpers used by all threads: `update_available_cores`, `need_vm`, `dump_nodes_to_persistent_file`, VM lookup | several threads move VMs between lists in two steps | no running server is in no list, none is in two; static slots are conserved |
| **CloudPoller** (`update_provision_status`, `launch_instances`, `check_cleanup`) | local lists `ready_to_use`, `to_delete`, `vm_deleted`, `vm_executing`, loop positions | look at starting VMs, join them to Torque, give up failed ones and queue a replacement; launch; look at VMs being deleted, remove, destroy, bury, bring back | answers are stale when acted on; calls fail half-way; lists change under the loops | cleanup never costs a job, ends only for servers that are gone; every VM leaves the transient lists |
| **JobPoller** (`collect_cluster_information`, `check_existing_worker_nodes`, `determine_required_instances_numbers`) | node list of the round, VM being removed, number of new instances | query jobs and nodes, hold nodes of an old image, shut idle nodes down, swap static and dynamic nodes, retire drained or dead nodes, ask for new ones | tests outside the lock, `list.remove` that raises, `provisioning` written by two threads | no thread dies, the node limit holds, requests are not stranded |
| **Job scheduler and priorities** (`job_scheduler.py`, `prioritise_jobs`) | idle jobs, Maui's list, requirement lists per resource | merge the two lists, sort, pack jobs on new nodes, choose flavors | index arithmetic, exceptions on odd job data, the totals of three loops must agree | jobs get Maui's priority, parts of a job are on nodes of their own, the chosen flavor holds the node, the round fits into the cores left |
| **InfoServer, admin requests, main** (`info_server.py`, `kill_vm`, `forceoff`, `toggle_sleep_mode`, `dynamictorque.py`) | request in progress, main thread's state | kill a node, force everything off, toggle sleep mode; wait for a signal or a dead thread, forceoff, stop and join | runs beside both pollers, forceoff twice at once | nothing is lost track of, the process exits |
| **Cloud and Torque drivers** (`openstack_cloud.py`, `local_commands.py`) | none of their own | `vm_start`, `vm_check`, `vm_destroy`; `add_node_to_torque`, `hold_vm_in_torque`, `release_vm_in_torque`, `remove_node_from_torque`, `check_node`, `get_wn_in_torque`, `query_wn` | errors are turned into ordinary answers | an error is not mistaken for a fact |
| **Start-up reconciliation** (`_load_existing_worker_nodes`) | local lists `to_delete`, `wn_to_delete`, `existing_instances_of_resource` | match running servers with Torque's nodes and the persistent file, join again, destroy, remove orphan nodes, trim to the limit | a crash at any point of the previous process, answers that get older while nodes are destroyed one by one, exceptions in a constructor | every server is listed once or being destroyed, no node with jobs is taken, the start ends |
| **Configuration**, **clients** (`config.py`, `admin.py`, `dt_info.py`), **scripts**, **utilities** | none that changes | parsing, printing, one remote call each | none | |

### What is hard to test here

Every hazard is listed in `PROJECT.json` with the line where it bites and the
properties that cover it. In short: VMs are moved between three lists by four
threads in several steps; `list.remove` raises if somebody else was faster, and
an exception ends a polling thread for good; `provisioning` is a hand-made
lock between the pollers; answers of `pbsnodes` and `checknode` are acted on
later; the retry of failed starts and failed deletions hangs on time fields
that are sometimes `None` or negative; shutdown runs while the pollers go on;
and the scheduler's loops keep three sums that must agree.

## 2. Modules and their correspondence to the code

    Cluster <- ResourceCenter <- CloudPoller, JobPoller, Control <- Daemon
    Cluster <- ResourceCenter <- StartUp
    Daemon, StartUp <- Recovery
    Daemon <- MCDaemon <- DocClaims      Recovery, MCDaemon <- MCRecovery
    JobScheduler <- MCJobScheduler
    Daemon ~~> VmLifecycle               (Daemon implements it: INSTANCE ... WITH)

    Daemon <- TypeProofs <- SafetyProofs, OwnerProofs
    SafetyProofs, OwnerProofs <- LifecycleProofs, RecordProofs
    Recovery, SafetyProofs, OwnerProofs <- RecoveryProofs
    VmLifecycle <- VmLifecycleProofs     JobScheduler <- SchedulerProofs

(`A <- B`: B extends A.)

**`Cluster`** is everything outside the daemon, as its code sees it. `cloud[v]`
is the state of a server (`build`, `init`: active but the batch daemon does not
answer, `ready`, `error`, `deleting`, `gone`), `inTorque`, `offline` and `jobs`
what Torque knows. `Environment(v)` are the things that happen without the
daemon. The operators `VmCheck`, `View`, `NodeWord`, `CheckNode` are the answers
of the drivers (`vm_check`, `pbsnodes -x`, `check_node`), `Hold`, `Release`,
`Create`, `AddNode`, `TakeAway` their effects. A call named in `Faults` may
fail; the model then goes on with what the driver's error path answers
(`vm_check` answers 3 when `servers.get` raises, `check_node` answers nothing,
and so on). Some calls are outside every `try`: `flavors.get` in `vm_check`,
which is called for a server that is active, and the opening of `/etc/hosts` and
of the persistent file. With `raise` in `Faults` they raise, and the exception
ends the thread (`CpRaise`, `JpRaise`). A server vanishes, goes to ERROR, takes
too long or loses its batch daemon only if `Faults` allows it.

**`ResourceCenter`** declares the shared lists and flags, the record of a VM
object and the helpers. A Python list of VM objects is a sequence of ids;
`list.remove` is `RemoveFirst`, and every action that calls it has the branch in
which the element is not there. `write_lock` is a variable for the locked
sections of the cloud poller that consist of several steps; the locked sections
of the other threads are single steps and wait for `~write_lock`. `main` belongs
here because the threads' stop flags follow from it. The persistent file
(`persistent_nodes`) is written as the code does it, by a loop over the live
`existing_instances` without the lock: `DumpBegin`, `DumpNext` for each node
(`content` has those read, `dumpAt` is the loop's position) and `DumpWrite`, for
the cloud poller and, at its end, the job poller. Every removal from the list is
`TakeOut`, which lets a loop that has passed the node skip the one that moves up
and notes that in the history variable `torn`; `NewExisting` puts another list
in its place. Three more history variables serve the properties: `asked`
(servers `vm_destroy` was called for), `cleaned` (VMs `check_cleanup` has
finished with) and `lost` (nodes that `check_cleanup` took away while a job ran
on them).

**`CloudPoller`**: one variable `cp` says where the thread is.

| actions | code |
|---|---|
| `CpPoll`, `CpStop` | `CloudPoller.run` |
| `CheckBuilding`, `JoinOk`, `JoinFail`, `CheckJoined`, `ScanEnd` | the loop of `update_provision_status` over `starting_instances`; nobody else changes that list object (`forceoff` replaces it by a new one), so `cpTodo` is what is left of it |
| `Settle` | the locked section that moves a ready VM to `existing_instances` and hands it a static slot (`need_vm`) |
| `Reap`, `ReapMove` | VMs that are given up: the retry entry, `vm_destroy`, the move |
| `ReapEnd`, `Wrap`, `ProvOff` | `update_available_cores`, the test of what is left, clearing `provisioning` |
| `CpDumpNext`, `CpDumpEnd` | `dump_nodes_to_persistent_file`, in both halves of the round |
| `LaunchBegin`, `Launch`, `LaunchEnd` | `launch_instances` |
| `CleanupBegin`, `DelRead`, `DelAct`, `DelEnd` | the loop of `check_cleanup` over the live `deleting_instances`: read the answers, then act on them |
| `Bury`, `Back`, `ReleaseNode`, `CleanupEnd`, `WrapDel`, `Relaunch` | its locked section and what follows |
| `CpRaise` | an exception of a call that is outside every `try`; `CloudPoller.run` logs it and ends |

**`JobPoller`**: `JpPoll`, `JpDecide` are `collect_cluster_information`,
`JpRaise` the exceptions that `JobScheduler` derives (and that of the persistent
file); `JpStop`, `JpDumpNext`, `JpDumpEnd` are the end of the thread; `Inspect`
is one pass of the loop of `check_existing_worker_nodes` up to the first change
of a list; `IdleKill`, `IdleUnlist`, `IdleRemove`, `IdleWrap` and `Retire` are
the steps that follow it; `JpScanEnd`, `Determine`, `Extend` decide about new
instances.

**`Control`**: `KillBegin`, `KillHold`, `KillMove` (`kill_vm`), the five
`Forceoff...` actions for the two callers of `forceoff`, `ToggleSleepMode`,
`MainQuit` and `MainExit` (`dynamictorque.py`). `forceoff` iterates over the live
lists, which the pollers change under it (`foNext` is the position), and at the
end of each loop replaces the list by a new one; a second `forceoff` that is
still in the same loop goes on over the old list object (`foOld`).

**`Daemon`** composes them: each thread's step leaves the other threads' locals
alone, and `Next` interleaves the two pollers, the info server, `forceoff` by
either caller, the main thread and the environment. It states the properties.

**`VmLifecycle`** says what all this is for, without threads, lists, locks and
calls: a machine is ordered, comes into use, leaves, perhaps comes back, and is
let go, which never happens to a machine whose server exists unless somebody
asked for its destruction. `Daemon!Life` instantiates it. The refinement mapping
reads a VM's phase off the lists: in `existing_instances` it is in use, else in
`starting_instances` it is starting, else in `deleting_instances` it is leaving;
in none, it is unborn or out. `alive` are the servers the cloud still has and
`condemned` is `asked`. `LifecycleRespected` is the abstract specification as a
property of the concrete one: every step of a poller is one orderly step of one
machine's life, or is not seen from outside.

**`StartUp`** is `_load_existing_worker_nodes`. `ListServers` is the query of the
cloud, `QueryNodes` the query of Torque with the verdict on every server,
`RemoveOrphan`, `Dismiss` and `Trim` the calls that take a node away, one by one,
`PassOver` and `PopFails` what else the loop over too many nodes does, `Statics`
the choice of static nodes and `Finish` the rest; `launch_instances` at the end of
the constructor is the cloud poller's, which starts there (`cp = "launchBegin"`).
An exception ends the process (`su = "failed"`).

**`Recovery`** composes `StartUp` and `Daemon` with crashes. `Restart` may happen
in any state, of the running daemon and of the start-up: everything in memory is
lost, the servers, Torque and its jobs, and the persistent file remain; the file
is left empty by a crash between its opening and its writing. While the daemon
starts, jobs and servers go on (`Outside`). `RecoveryInit` is a start after an
earlier process has left any set of servers, more than the limit included.

**`DocClaims`** adds sentences of the documents that the code does not keep
(section 6). **`MCDaemon`** adds the symmetry set, **`MCRecovery`** joins it to
`Recovery`.

**`JobScheduler`** models one round of sizing as a state machine, one step per
job. `MergeJob`, `MergeEnd`, `SortJobs` are `prioritise_jobs`; `PassJob`,
`FailJob`, `SizeJob`, `SizeEnd` the loop of `calculate_new_instances` with
`_get_vcpu_requirement`, `have_enough_cores` and `add_new_requirement_to_list`;
`Convert` is `convert_req_list_to_flavor`. Exceptions (`KeyError`,
`ValueError`, `IndexError`) are values of `phase`. `Daemon` abstracts it by a
choice: `Determine` picks any number that `RequestsBounded` permits, and
`JpRaise` stands for the exceptions. **`MCJobScheduler`** fixes an instance.

The modules named `...Proofs` hold the theorems (section 5).

Definitions commented as mutated forms are wrong on purpose: each one replaces
the definition next to it to show that a property notices (the `mutants` of
`PROJECT.json`). Nothing in the specifications uses them.

## 3. Runs

The violations that the last four runs expect are explained in section 6.

| run | instance | question | properties |
|---|---|---|---|
| `provisioning` | 2 ids, 1 dynamic node, no static ones; slow, vanishing and flapping servers, failing launches and joins; sleep mode | does the flag `provisioning` keep the two pollers in step, and do they implement the abstract life of a VM? | `TypeOK`, `WithinLimit`, `StartingPolled`, `LifecycleRespected` |
| `statics` | 2 ids, 1 static and 1 dynamic node; servers vanish or fail, joins fail; starts in the constructor | are static slots conserved, does each VM have one owner? | `StaticsConserved`, `PollersSurvive`, `OneOwner` |
| `persistence` | 2 nodes in use that go idle, down and back | is the file right, though it is written by a loop over a list that changes? | `NodesPersisted` |
| `recovery` | 2 ids, 1 dynamic node; up to 2 servers left by an earlier process, one of them with an old image, the limit lowered; a crash in any state, again and again | does a restart put the pieces together? | `ServersAdopted`, `OneOwnerAgain`, `CleanupSparesJobs`, `RestartSparesJobs` |
| `operator` | 1 id; kill and forceoff at any point; the job poller may die of bad job data, the cloud poller of `flavors.get` or a local file, both of what the operator does; main reacts | is anything lost track of? | `NoVmForgotten`, `CleanedIsGone` |
| `live_deleting` | 1 loaded node, kill, deletions that fail | does the deletion list drain? | `DeletingDrains` |
| `live_exit` | 1 id, slow cloud, SIGTERM | do starts end, does the job poller get its turn, does the process exit? | `StartingResolved`, `ProvisioningCleared`, `ShutdownEnds` |
| `scheduler` | up to 3 jobs of 8 kinds, 3 numbers, every list of Maui, 2 resources with 1 and 2 flavors, 2 locations | is sizing right? | `SchedulerTypeOK`, `PrioritiesMatch`, `JobsPlaced`, `NodesFit`, `RequestsBounded` |
| `doc_destroyed`, `doc_stuck`, `doc_crash`, `doc_restart` | the smallest that shows it | is the quoted sentence true? | one each, violated |

What the properties say:

* `NoVmForgotten`: a server that exists and was not asked to be destroyed is in
  one of the three lists, at every step of every thread, even if threads die.
* `CleanedIsGone`: `check_cleanup` closes the books on a VM only when the server
  is gone and Torque does not know the node any more, and this stays so.
* `OneOwner`: undisturbed, no VM is listed twice. `Undisturbed` means: without
  kill, forceoff and stop requests (sleep mode is allowed), with job data that the
  scheduler understands, and without exceptions of the calls that are outside
  every `try`.
* `LifecycleRespected`: `Daemon` implements `VmLifecycle`, without kill and
  forceoff requests and while both threads live. A kill request that is under
  way when the job poller lets the VM go puts it back into `deleting_instances`,
  out of order.
* `ServersAdopted`, `OneOwnerAgain`: the first two promises once more, for a
  process that follows one that crashed at any moment, for instance between the
  two halves of a move, or inside the start-up. The history `asked` is cleared
  by the crash, so what the dead process had asked for is no excuse.
* `RestartSparesJobs`: the start-up, which destroys nodes one by one while its
  answer from Torque gets older, destroys no node that the answer showed running
  a job, unless the node was being drained or was down at the time of the answer
  and has come back. Section 7 tells what it does to the others.
* `StartUpCompletes` (violated, section 6): the start-up ends.
* `PollersSurvive`: undisturbed, no `list.remove` raises, so no thread ends. It
  does not say that no exception can end one: the calls outside every `try` can,
  which `Undisturbed` rules out and `operator` lets happen (section 7).
* `WithinLimit`: for worker nodes with one core and without static nodes, which
  are not part of the limit, servers in use plus launches
  on order never exceed `number_of_dynamic_worker_nodes`, though the code does
  not subtract starting VMs. With more cores it is false (section 6, item 4),
  and so it is when `servers.get` fails: a server that still runs is then given
  up for another one.
* `StartingPolled`: *without static nodes*, when the cloud poller is about to
  begin a round while something is starting or waiting, it finds `provisioning`
  set. With static nodes it is false (section 7, "A replacement nobody looks
  at").
* `StaticsConserved`: undisturbed, missing static slots plus static VMs in any
  list is the configured number, through promotion, swap, loss and replacement.
* `NodesPersisted`: between rounds the persistent file covers the nodes in use,
  *unless* a node left the list from behind the position of the loop that last
  wrote the file (`torn`): then it may miss one (section 7, "The file skips a
  node"). `persistence` has such states, and without the exception it fails.
* `CleanupSparesJobs`: `check_cleanup`, acting on an old answer, takes no node
  from a running job, if holds work, nodes do not go down and come back, Torque
  forgets nodes that failed to join and no operator kills nodes. Section 7 tells
  why each condition is there. `recovery` checks it where it matters: a node of
  an old image with a job is loaded, held, drained and retired beside a second
  node, and after a crash jobs are found on nodes that the start-up itself has
  sent away. It is so after a restart if the cloud carries out what it is asked.
* `DeletingDrains`, `StartingResolved`, `ProvisioningCleared`, `ShutdownEnds`:
  liveness, section 4. `ProvisioningCleared` says that the job poller is not kept
  out for ever, unless launches wait for servers that the cloud does not have (in
  the run, ids).
* `PrioritiesMatch`: after the merge every job has Maui's priority for its
  number; the sort raises `KeyError` only if a job is not listed by Maui or
  shares its number with another one.
* `JobsPlaced`: a job of n parts that is served gets n different nodes, all in
  one resource, and later jobs do not change that.
* `NodesFit`: every packed node is requested, in order, from a flavor with room
  for all that is on it.
* `RequestsBounded`: the nodes of a round take no more cores of a resource than
  are left. Hence there are no more instances than cores left, which is what
  `Daemon` relies on; the second half needs that every part of a job has a core
  (`PartsHaveCores`), because `ncpus=0` fits into a resource that is full.

Why the bounds are enough. Ids are given to servers once and never reused, so
`VMs` bounds the number of launches. Two ids let one VM be given up, lost or
retired while its replacement starts, which is what provisioning, swapping and
replacement are about; the threads' interference on one VM needs one id only,
hence the operator runs with one id but with every request. Both nodes of
`persistence` are in use at the start; the file is written when one of them,
which was down, is found to have jobs again, while the other may be shut down.
In `recovery` the ids bound the number of launches of all processes together,
not the number of restarts: crashes may follow one another without end. `Batch =
1` and `NumDynamic = 1` or `2` put the limits where two VMs reach them. The
times `MaxIdle = MaxDown = 0` let idle and down nodes act on the second poll
that sees them so; `MaxInaccessible = 1` is greater than the only value a
starting VM's `state_time` ever has (none), so the comparison is the code's.
`ListBound` stops the operator from killing the same node without end: `kill_vm`
appends a VM again each time, and with the bound it can still be listed twice.

The scheduler instance has jobs of one and two nodes, jobs with the cores of a
small, a large and no flavor, tenants with resources of their own, texts where
numbers belong, numbers repeated (sub-jobs) or missing in Maui's list. Three
jobs are enough for one that fills a node, one that shares it and one that is
refused or overruns. All parts of these jobs have cores, so both halves of
`RequestsBounded` are checked.

`CHECK_DEADLOCK FALSE` is given where the daemon may come to a stop: after it
has exited (`operator`, `live_*`, `doc_crash`), and after the end of a round
(`scheduler`). In the other runs the daemon polls for ever and TLC
also checks that no state is without successor.

## 4. Fairness

`Fairness` in `Daemon` asks for no more than the scheduling of the code gives:

* *weak fairness of each polling thread*: Python threads that are runnable are
  scheduled; every step that waits for the lock is one whose holder is the
  cloud poller inside a section of finitely many steps;
* *strong fairness of a kill request or a `forceoff` in progress*: it needs the
  lock, which is taken and released again and again, so being enabled
  infinitely often is what can be assumed. Starting a request is not fair: no
  operator has to ask for anything;
* *weak fairness of the main thread after a thread's death and at its exit*; it
  is a loop with `sleep(1)`. The signal itself is not fair;
* *weak fairness of the cloud's progress and of the end of jobs* (`Progress`,
  `JobEnd`): a server boots in the end, a deletion that was accepted ends, and
  jobs have a wall time. Starting a job is not fair.

`RetryFairness` (only for `DeletingDrains`) adds: when the deletion of a server
can be tried again and again it is tried again and again, and one of the tries
succeeds. The first half is an assumption on the clock: the code's retry
condition compares `(delete_time - now).seconds`, which for a negative
difference is a day minus the time since, so a retry happens at once for most of
the day and not for an interval before it comes round again; the model makes it
a free choice and the assumption rules out that the choice is unlucky for ever.
The second half says that the cloud does not refuse for ever.

The liveness properties exempt runs in which main has left its waiting state or
a thread has died: then the pollers stop and nothing is promised.

## 5. What is proved

TLAPS checks every proof to the last leaf. The theorems about `Daemon` and
`Recovery` are for *every* set of VMs, number of cores, fault, operator and
setting that the named assumptions of `Cluster` and `ResourceCenter` allow; those
about `JobScheduler` for every number of jobs, every finite set of resources with
any flavors and cores left, and any kinds of jobs and priorities that its
assumptions allow.

| theorem | states |
|---|---|
| `TypeProofs!TypeCorrect` | `Spec => []TypeOK` |
| `TypeProofs!PositionsCorrect` | `Spec => []TypeInv` |
| `SafetyProofs!NothingForgotten` | `Spec => []NoVmForgotten` |
| `SafetyProofs!GravesClosed` | `Spec => []CleanedIsGone` |
| `OwnerProofs!OneOwnerAlways` | `Spec => []OneOwner` |
| `OwnerProofs!PollersAlwaysSurvive` | `Spec => []PollersSurvive` |
| `LifecycleProofs!LifecycleImplemented` | `Daemon` implements `VmLifecycle`, if it is undisturbed and `servers.get` does not fail |
| `VmLifecycleProofs!AlwaysAccounted` | `VmLifecycle!Spec => []Accounted` |
| `OwnerProofs!NoJobLost` | `Spec => []CleanupSparesJobs` |
| `RecordProofs!FileCoversNodes` | `Spec => []NodesPersisted` |
| `RecordProofs!OrdersArePolled` | `Spec => []StartingPolled` |
| `RecordProofs!StaticsNeverLost` | `Spec => []StaticsConserved` |
| `RecordProofs!LimitKept` | `Spec => []WithinLimit` |
| `RecoveryProofs!ServersAlwaysAdopted` | `RecoverySpec => []ServersAdopted` |
| `RecoveryProofs!OneOwnerAfterRestart` | `RecoverySpec => []OneOwnerAgain` |
| `RecoveryProofs!JobsAlwaysSparedAgain` | `RecoverySpec => []CleanupSparesJobs`, if deletions do not fail |
| `RecoveryProofs!RestartAlwaysSparesJobs` | `RecoverySpec => RestartSparesJobs` |
| `SchedulerProofs!SchedulerTyped` | `Spec => []SchedulerTypeOK` |
| `SchedulerProofs!PrioritiesAlwaysMatch` | `Spec => []PrioritiesMatch` |
| `SchedulerProofs!NodesAlwaysFit` | `Spec => []NodesFit` |
| `SchedulerProofs!RequestsAlwaysBounded` | `Spec => []RequestsBounded` |
| `SchedulerProofs!JobsAlwaysPlaced` | `Spec => []JobsPlaced` |

So every invariant that a passing run checks, and every action property, is
proved for all instances. Each proof has the same shape: an inductive invariant,
which TLC has checked as an invariant of small instances first, one lemma for
each thread with one case per action, frame lemmas for the steps that do not
touch what a conjunct is about, and a last step that combines them.

**Type correctness.** `TypeOK` alone is not inductive: many steps take
the head of a list, or the element at a position, and must know that it is
there. `TypeInv` adds `Positioned`: the thread's location implies that the list
it takes its next VM from is not empty (`join`, `settle`, `reapMove`,
`release`), and that `check_cleanup`'s cursor is inside `deleting_instances`
between reading and acting. The latter is a fact about the other threads: they
only ever append to that list, so a position stays valid. The code depends on
it as well, it iterates over the list while others change it. There is one lemma
per thread (`CloudPollerTypes`, `JobPollerTypes`, ...) with one step per action.

**Safety.** `NoVmForgotten` and `CleanedIsGone` say nothing about what threads
hold in their hands between two steps, so they are not inductive. `SafetyInv`
adds, for runs in which `servers.get` does not fail:

* `Born`: a VM that is listed, or held by a thread that may list it, exists.
  Without it a launch could produce a server whose id is already in a list;
* `Graves`: VMs in `vm_deleted` and in `cleaned` are gone and not in Torque, and
  the VM being joined is not one of them. The point is the time between the
  answers `check_cleanup` reads and the burial: nobody adds the node to Torque
  again, because only a starting VM whose server is found ready is joined;
* `Remembered`: `NoVmForgotten`, and that the VM the job poller is about to
  unlist has been asked to be destroyed.

Frame lemmas (`BornFrame`, `GravesFrame`, `RememberedFrame`) reduce most steps
to "the cloud only decays": no server comes back and none appears. Only
`Launch` and `JoinOk` are different. The lemmas at the head of `TypeProofs` say
what `append`, `extend`, `remove` and a move between two lists do to membership.

**Ownership** (`OwnerInv`). "A VM is in one list" says nothing about the VMs a
thread holds between two of its steps, and it is exactly those that would be
removed twice. `Owned` says who holds what: the cloud poller's `cpTodo`, `ready`
and `doomed` share out VMs that are still in `starting_instances`
(`StartingHeld`); `gone` and `executing` share out VMs that `check_cleanup` has
passed in `deleting_instances`, or that are still in it (`DeletingHeld`); the VM
the job poller has decided about is in `existing_instances` (`NodeHeld`). The
three lists are apart, hence so are the two threads' hands, and no `list.remove`
can raise. That no thread is dead is part of the invariant, and it is here that
`Undisturbed` is needed. The delicate point is the loop over the live
`deleting_instances`: `Passed` says that what is held was met at an earlier
position, so the loop does not meet it again although the job poller appends to
the list meanwhile.

**Refinement** (`LifeInv`). Ownership gives each VM one phase, `SafetyInv` says
that a VM that leaves the lists is condemned or gone. One fact has to be added: a
VM the cloud poller is about to move from starting to leaving was destroyed
before. With it every action is one action of `VmLifecycle` or a stutter.

**Jobs** (`JobInv`). `check_cleanup` acts on old answers of `pbsnodes`. No
statement about the answer can be inductive, so the invariant is about the
nodes: a VM on its way out has failed, or it has no job and can get none, because
it is held or not in Torque (`Spent`, `Departing`); this is stable however late
the answer is used. It needs to know that a VM that is given up before it was in
use was unknown to Torque or has been destroyed by then (`Newcomers`), that a node
that an answer shows as down is lost for good (`Answers`), and where jobs can be
(`Placed`). The parts about VMs that have failed with jobs on them and about
starting VMs that Torque knows are there for the daemon after a restart, where
both happen.

**Records.** `NodesPersisted` speaks about the moment between two rounds, while
a node comes into use in the middle of one: `DumpPending` says that from then on
until the file is being written `dump` is set, and `FileTold` that the loop
which writes it has read all it has passed (`PassedRead`), and so the file names
all, unless the loop is torn or the daemon stops. `StartingPolled` speaks about
the moment before a round; `FlagInv` says that, without static nodes,
`provisioning` is set whenever something is on order, that the job poller is
past its test of the flag only while it is not set, and the cloud poller among
the starting VMs only while it is: neither write to the flag can come at the
wrong time. `StaticsConserved` is a sum over records that several actions change
in pairs; for it to be inductive `StaticsInv` must know that a VM becomes static
only when it comes into use, that its location is known by then (or its loss
would queue no replacement), and that what is shut down when idle is dynamic.

**The limit** (`LimitInv`). `update_available_cores` counts VMs in use and being
deleted; in between a node passes through a number (`available_number_of_nodes`,
then the scheduler's result `jpCount`), a request in the waiting list, a launch,
`starting_instances` and the cloud poller's local lists, and it may be replaced
by another request on the way. `Counted` is the set of VMs that use up the limit
in any of these places; a VM given up stops counting when its replacement is
ordered. `Limited` says that there is room for the requests not yet launched
(`Pending`), and at `determine` and `extend` for what the job poller is about to
order. What makes it inductive is `FlagInv`: while the job poller is between its
count and its order `provisioning` is not set, so nothing is on order and nobody
launches or replaces, and by `Remembered` every server that counts is in one of
the two lists the count subtracts (`AvailableIsRoom`). `HandsApart` says that the
cloud poller has a VM in its hands once only, or a VM given up could still count.

**Recovery** (`RecoveryInv`, `NodesInv`). The theorems about the daemon start
from `Init`, where nothing is under way. A process that follows a crash starts
from whatever servers, nodes and file the crash left, so its invariant has two
halves. While the start-up works no thread exists (`AtRest`) and the lists are
what it has made of them so far (`Reconciling`): after the list of servers is
there, every live server is in one of the lists and in one only, and what is
going to be destroyed is still where it was found. When it is done, `SafetyInv`
and `OwnerInv` hold of its result (lemma `HandedOver`), though it is no state of
`Init`; from there the lemmas that prove the running daemon carry on, and a crash
at any step leads back to the first half, for which nothing of the lists has to
be known. For `RestartSparesJobs` the point is again that the answer of Torque
gets older: `Condemned` is about the nodes and not the answer. A node that the
answer shows with a job and that is nevertheless to be destroyed can get no job
any more, because it is offline, unknown to Torque or failed (`Unusable`). This
is where nodes must not go down and come back. For `CleanupSparesJobs` the
invariant of the running daemon (`JobsKept`) is shown to hold of the lists from
the first step of the start-up on (`SparingInv`), so that there is nothing to
hand over: no VM has been polled yet (`Unpolled`), and what is sent away has been
destroyed. This needs a cloud that carries out what it is asked.

**The scheduler.** Its operators are folds, choices and loops over lists of any
length, and the proofs need to know what they return. These are inductions. The
induction rules of the library take an operator as a parameter, which the provers
cannot instantiate; lemma `Least` (a set of naturals has a least member) needs no
such parameter, and applied to a set of counterexamples it is induction over
the naturals and over the subsets of a finite set (`Upward`, `Grown`). From it
come: the stable sort permutes its list (`DescendingMoves`); sums add up
(`SumRaised`, `SumJoined`), do not depend on the order (`SumMoved`) and are at
least the number of their positive terms (`SumAtLeast`); the joined lists follow
one another and nothing is between them (`Flattened`). `AddIs` describes one
packing by these: the old nodes in another order, one part more on some of them,
new nodes for the other parts (`Packed`).

* *Priorities* (`MergeInv`). The merge reads two sorted lists with one index. The
  jobs before `next` are settled; every entry of Maui's list before `idx` is of no
  use to the jobs from `next` on, because its number is smaller or belongs to a
  job that was passed (`Used`). So a job that finds no entry is not listed or
  shares its number, also where the loop ends early at the end of Maui's list.
* *Requests* (`Sizing`, `Requested`). Packing a job of k parts adds k times the
  cores of a part to the resource (`PackedCores`), the number that
  `have_enough_cores` has tested; no node exceeds the largest flavor, since a
  part goes only onto a node with room and `have_enough_cores` has compared one
  part with the flavor. All parts of a job are equal, so one is enough. The
  requests to a resource are one stretch of the result, node by node.
* *Jobs* (`Placing`). A job's parts are on nodes of one resource, one on each, as
  many as it asks for; the next packing moves these nodes, one to one, and adds
  parts of another job only (`PackedOn`).

**Only model-checked.** The liveness properties: ENABLED and fairness are out of
the proof system's reach.

## 6. Disagreements between the code and its documents

1. `doc_destroyed`: `vm_check` documents its answer 3 as "destroyed", but any
   exception of `servers.get` gives it. One failing call of the cloud's API
   while a VM is in `deleting_instances` and not in Torque makes
   `check_cleanup` drop the VM for good: the server runs on unnoticed. The run
   starts with a node that Torque knows, and there it takes two such calls: after
   the first `check_cleanup` only removes the node from Torque.
2. `doc_stuck`: the configuration file promises that a VM that is not useful
   after `max_inaccessible_time` is destroyed. After a VM was joined to Torque
   the timeout compares `state_time`, which is `None` for every VM that is
   starting and smaller than any number. If the server disappears then, it stays
   in `starting_instances` for ever, `provisioning` is never cleared and the
   job poller never looks at a node again.
3. `doc_crash`: a kill request for a node that the job poller is about to
   remove or retire makes the second `list.remove` raise; the job poller ends,
   the main thread sees it and switches everything off, which it reports as
   "Whoops. Wasn't expecting to exit."
4. `doc_restart`: "check if we overused, if yes, kill some" says the start-up,
   and pops nodes off a list until few enough are left, passing over those with
   jobs. If these alone are more than the limit, it pops from an empty list and
   the exception ends the constructor. The run gets there without any change of
   the configuration: the limit is kept in cores, so with two cores per node two
   jobs can ask for two nodes where `number_of_dynamic_worker_nodes` allows one;
   both get jobs, the daemon crashes and does not start again before jobs end.

## 7. What TLC showed on the way

Behaviours that surprised us and that no document contradicts. They explain the
conditions in the properties.

* *A replacement nobody looks at.* The job poller tests `provisioning`, finds it
  clear and begins the idle shutdown of a node. Meanwhile `check_cleanup` buries a
  static VM that was lost, launches its replacement and sets `provisioning`. At
  its end the idle shutdown clears it (`res_management.py:364`). The cloud poller
  does not look at the replacement, which may be overdue or ready, until
  something else is ordered. TLC finds this with three ids, one static and one
  dynamic node; hence `StartingPolled` is for a daemon without static nodes, where
  the flag is set already when `check_cleanup` launches.
* *The file skips a node.* The loop that collects the nodes for the persistent
  file runs over the live list without the lock (`local_commands.py:419`). With
  two nodes in use the loop passes the first, the job poller removes it, the
  second moves up and the loop ends: the file is empty, and stays so until the
  cloud poller writes it again. A daemon that crashes in this state, and then
  finds Torque not answering, destroys the node. Hence the exception in
  `NodesPersisted`.
* *An error the cloud poller does not survive.* `vm_check` calls `flavors.get`
  outside its `try`, for any server that is active (`openstack_cloud.py:143`,
  `157`). If the cloud's API fails there, the exception ends the cloud poller,
  main sees it and switches everything off. The same goes for `/etc/hosts` and
  the persistent file if they cannot be opened. `operator` shows that no server
  is lost track of in such an end; `PollersSurvive` excludes it.
* *Sizing reads past a list.* The loop of `add_new_requirement_to_list` goes on
  after the last part of a job is placed and reads past the end of the
  requirement. A job of two nodes followed by one of one core in the same
  location is enough (`IndexError` in `JobScheduler`); it ends the job poller.
* *Kill races release.* `check_cleanup` brings a node that has jobs back to
  `existing_instances` and then calls `release_vm_in_torque`. A kill request
  between the two holds the node; the release undoes the hold; a job may then
  start on a node that is going to be destroyed. `CleanupSparesJobs` therefore
  excludes kill requests. It excludes `forceoff` because `forceoff` does not
  wait for jobs at all, by design.
* *Holds that do not work, nodes that come back.* A hold that fails is not
  noticed; a node that is "down" for too long is retired and may come up and get
  a job before it is removed; a node that failed to join and could not be
  removed from Torque is in the same situation. Hence the faults excluded.
* *Idle is not idle.* The idle shutdown uses the node list of the start of the
  round and a checknode word that is "free" also for a partly filled node; a
  job that starts between the answer and `remove_node_from_torque` is lost. No
  property excludes this, because it is false.
* *The idle shutdown is a short cut.* It destroys the server and drops the VM
  without `deleting_instances`; a `vm_destroy` that fails there is never
  retried, and the `post_vm_destroy` and `post_remove` scripts are not run.
* *Sleep mode* stops the job poller from looking at nodes, the ones to be
  deleted included, though `README.md:57` says that existing nodes can be deleted
  in it; requests made before are still launched by the cloud poller.
* *Forceoff does not wait.* `README.md:59` and the help of `admin.py` say that
  nodes with jobs are set offline and shut down when the jobs have finished;
  `forceoff` removes them from Torque and destroys them at once.
* *A restart is rougher than a run.* If Torque does not answer at start-up,
  every server that is not in the persistent file is destroyed, with its jobs;
  one that is in the file is to be added to Torque again, and if Torque turns
  that down because it knows the node, the cloud poller destroys it. A drained
  node that still runs a job is destroyed, because it is offline; so is a node
  that was down when Torque was asked and has come back and got a job since. A
  node that was idle at the time of the answer and has an old image, or is one
  too many, is destroyed even if a job has started meanwhile. Nodes of Torque
  that are offline or down and are no servers of the cloud, physical ones
  included, are removed from Torque: the comment speaks of a prefix, the code
  has no such test. A node whose destruction fails at start-up goes on the
  deletion list with the others, but it was never held: Torque gives it jobs,
  and `check_cleanup`, which may have read before that it has none, destroys it
  with them. Hence `JobsAlwaysSparedAgain` assumes that
  deletions do not fail, and `recovery` has none that do. If the list of servers
  cannot be had, `vm_list` answers with an empty one, and all servers run on
  unnoticed (`Faults` is empty in `recovery`, since `ServersAdopted` is false
  otherwise).
* *Static nodes and a restart.* With static slots to fill and one node to look
  at, the start-up reads `worker_node_flavor`, which a `CloudResource` does not
  have (it has `worker_node_flavors`): the daemon does not start. Hence
  `StaticAssumption` in `ResourceCenter` and no static nodes in `recovery`.
* *The persistent file after a restart* is not written before something in the
  lists changes, so it names nodes that have long gone.
* *Zones.* `vm_check` overwrites the zone of a VM with the default zone, so a
  static VM that is lost outside the default zone is counted as lost in it.
* *Exit leaves servers.* On shutdown `forceoff` moves everything to
  `deleting_instances`, then the pollers are stopped; a deletion that failed or
  a launch that happened meanwhile is not seen to again.
* *Retry needs a zone.* A VM that fails before it was ever ACTIVE has no
  availability zone, and no replacement is queued. A dynamic node is asked for
  again by its job; for a static node the slot stays open (`num_of_vm` still
  counts it, so `StaticsConserved` holds) and is filled by the next dynamic VM
  that becomes ready.
* *Priorities.* An idle job that Maui does not list, any idle job when Maui's
  list is empty, and sub-jobs of an array (which share a number) have no
  priority; the sort raises `KeyError` and the job poller ends.
* *Jobs without cores.* `ncpus=0` is a number, and such a job passes
  `have_enough_cores` in a resource that is full; it shares nodes in its location
  and gets instances without cores where there are none. `RequestsBounded` bounds
  the cores for such jobs too, but not the number of instances.
* *Resource lists.* `nodes=1:ppn=2` without `ncpus` makes `int()` raise
  `ValueError`, with the same end.

## 8. Abstractions and bounds

* One cloud resource, one flavor, one location in `Daemon` (several in
  `JobScheduler`). With one resource `update_available_cores` is a subtraction.
* A driver call and the reading of its answer are one step; `vm_check` and
  `get_wn_in_torque` of one VM in `check_cleanup` are read in one step and acted
  on in a later one; `remove_node_from_torque` and `vm_destroy` of one VM are one
  step in which either may fail. `JoinOk` is the whole joining of a node.
* Looking a node up in the live `existing_instances` (`find_vm_from_wn`, the
  search in `kill_vm`) and the sums of `update_available_cores` are one step
  each; an entry removed during them is not modelled. The loops of `forceoff`,
  of `check_cleanup` and of the persistent file over live lists are step by step.
* Opening the persistent file is one step with its writing, which follows the
  loop; a crash in between leaves it empty (`Restart`).
* A round of the job poller whose `qstat` fails does nothing.
* `state_time` counts polls and saturates at `TimeCap`, beyond both limits. The
  age of a server is the single bit `overdue`.
* Which busy dynamic node is swapped with an idle static one, which id the cloud
  gives to a server and in which order `pbsnodes` lists nodes are choices.
* A server's `gone` is final. `Daemon` begins with what a start-up left in use
  (`Loaded`, in any order); `Recovery` begins before it.
* The start-up's queries and each of its calls that takes a node away are steps;
  what it computes between them is part of them.
* `Determine` chooses any number of requests up to the bound that
  `RequestsBounded` checks.
* In `JobScheduler` names of flavors and zones are left out; each entry of
  `vcpu_list` also carries the job it is for, which only `JobsPlaced` reads;
  the order in which Python iterates over the dictionary of resources is a
  choice. `Ids`, `JobKinds`, `Priorities`, `MaxJobs` are bounds.
* Firewall rules, node properties, reservations and the post scripts change no
  state that the properties look at; the running of the latter is `cleaned`.

## 9. Not modelled

* *`config.py`*: parsing; the settings that matter are constants here. One query
  of the cloud while the daemon starts belongs to it: without flavors, there is
  nothing to order and `convert_req_list_to_flavor` has no flavor to choose.
* *`admin.py`, `dt_info.py`*: one remote call each and formatting.
* *`scripts/`, `nagios/`, `ganglia/`, `logrotate/`*: shell around other programs.
* *`utilities.py`*: log levels and unique names.
* *Several cloud resources* in `Daemon`: each has its own limit and static slots,
  and the code treats them alike and one after the other, under the same flag and
  the same lock; sizing, where they compete for jobs, is modelled with two.
* In the drivers: command lines, parsing, security groups, and the loop of
  `_open_connection`, which retries for ever (the cloud is assumed to
  authenticate in the end).

## 10. Plan

The order follows importance: first the shared lists and the threads over them
(`Cluster`, `ResourceCenter`, `CloudPoller`, `JobPoller`, `Control`, `Daemon`),
then the scheduler, whose results the daemon trusts, then what happens before
and after a run of the daemon (`StartUp`, `Recovery`), what it all amounts to
(`VmLifecycle`), and the proofs.

Done: the modules of section 2, the runs of section 3, the theorems of section 5.

To come:

1. Several cloud resources, and static nodes with locations, in `Daemon`.
2. `JobScheduler` composed with `JobPoller` in place of the choice of
   `Determine`.
3. A limit for the daemon that `Recovery` starts, where the nodes left by an
   earlier process may be more than `number_of_dynamic_worker_nodes`.
