----------------------------- MODULE CloudPoller -----------------------------
(***************************************************************************)
(* The cloud polling thread (cloud_management.CloudPoller): one round is   *)
(* update_provision_status when provisioning is set, then check_cleanup.   *)
(* Every call to the cloud or to Torque is a step of its own, so the other *)
(* threads act between any two of them; a section under write_lock is kept *)
(* from the other locked sections only.  An exception ends the thread      *)
(* (cp = "dead").                                                          *)
(***************************************************************************)
EXTENDS ResourceCenter

VARIABLES
    cp,         \* where the thread is
    cpTodo,     \* starting_instances still to look at
    ready,      \* ready_to_use
    doomed,     \* to_delete
    dump,       \* dump_nodes
    budget,     \* vm_number of launch_instances
    taken,      \* entries of provision_waiting_list launched
    after,      \* where launch_instances returns to
    cursor,     \* position in deleting_instances
    todoDel,    \* what check_cleanup decided to do to the VM at the cursor
    gone,       \* vm_deleted
    executing   \* vm_executing

cpVars == <<cp, cpTodo, ready, doomed, dump, budget, taken, after, cursor, todoDel, gone, executing>>
scanLocals   == <<cpTodo, ready, doomed>>
launchLocals == <<budget, taken, after>>
delLocals    == <<cursor, todoDel, gone, executing>>

CpStates ==
    {"poll", "scan", "join", "settle", "reap", "reapMove", "dump", "wrap", "provOff",
     "launchBegin", "launch", "cleanup", "delRead", "delAct", "bury", "back", "release",
     "wrapDel", "dumpDel", "relaunch", "dead", "stopped"}

CpTypeOK ==
    /\ cp \in CpStates
    /\ cpTodo \in Seq(VMs)
    /\ ready \in Seq(VMs)
    /\ doomed \in Seq(VMs)
    /\ dump \in BOOLEAN
    /\ budget \in Nat
    /\ taken \in Nat
    /\ after \in {"cleanup", "poll"}
    /\ cursor \in Nat
    /\ todoDel \in {"none", "destroy", "remove", "both"}
    /\ gone \in Seq(VMs)
    /\ executing \in Seq(VMs)

(* The constructor's last call, launch_instances, comes first.             *)
CpInit ==
    /\ cp = "launchBegin"
    /\ cpTodo = <<>>
    /\ ready = <<>>
    /\ doomed = <<>>
    /\ dump = FALSE
    /\ budget = 0
    /\ taken = 0
    /\ after = "poll"
    /\ cursor = 0
    /\ todoDel = "none"
    /\ gone = <<>>
    /\ executing = <<>>

(* An uncaught exception; locks are released on the way out.               *)
CpDie == cp' = "dead" /\ write_lock' = FALSE

rcButLock == <<provisioning, sleep_mode, worker_nodes, available_number_of_nodes,
               num_of_vm, fileVars, main>>

-----------------------------------------------------------------------------
(* CloudPoller.run                                                         *)

CpPoll ==
    /\ cp = "poll" /\ Booted /\ ~Quit
    /\ IF provisioning
       THEN cp' = "scan" /\ cpTodo' = starting_instances
       ELSE cp' = "cleanup" /\ UNCHANGED cpTodo
    /\ UNCHANGED <<clusterVars, centerVars, ready, doomed, dump, launchLocals, delLocals>>

CpStop ==
    /\ cp = "poll" /\ Quit
    /\ cp' = "stopped"
    /\ UNCHANGED <<clusterVars, centerVars, scanLocals, dump, launchLocals, delLocals>>

-----------------------------------------------------------------------------
(* update_provision_status                                                 *)

(* A VM that is not ready in the cloud yet: vm_check, and what follows     *)
(* from its answer; a ready one is joined to the cluster next.             *)
CheckBuilding ==
    /\ cp = "scan" /\ cpTodo # <<>>
    /\ LET v == Head(cpTodo) IN
       /\ ~vm[v].cloud_ready
       /\ \E s \in VmCheck(v) :
            /\ vm' = [vm EXCEPT ![v] = [Checked(@, s) EXCEPT !.cloud_ready = (s = 0)]]
            /\ cp' = IF s = 0 THEN "join" ELSE "scan"
            /\ cpTodo' = IF s = 0 THEN cpTodo ELSE Tail(cpTodo)
            /\ doomed' = IF s \in {3, 4} \/ (s \in {1, 2} /\ v \in overdue)
                         THEN Append(doomed, v) ELSE doomed
    /\ UNCHANGED <<clusterVars, listVars, provision_waiting_list, flagVars, historyVars,
                   ready, dump, launchLocals, delLocals>>

(* add_node_to_torque, check that the node shows up, refresh the node      *)
(* list, set the node up and online.  Torque refuses a node it has.        *)
JoinOk ==
    /\ cp = "join"
    /\ Head(cpTodo) \notin inTorque
    /\ AddNode(Head(cpTodo))
    /\ \E up \in Outcomes("query") :
          worker_nodes' = IF up THEN Snapshot(inTorque \cup {Head(cpTodo)}) ELSE NoNodes
    /\ cpTodo' = Tail(cpTodo)
    /\ cp' = "scan"
    /\ UNCHANGED <<vm, listVars, provision_waiting_list, provisioning, sleep_mode,
                   available_number_of_nodes, num_of_vm, fileVars, write_lock, main,
                   historyVars, ready, doomed, dump, launchLocals, delLocals>>

(* Mutated form: the first "continue" after to_delete.append is missing,   *)
(* so a node that could not be added is looked for too, and given up twice.*)
JoinFailTwice ==
    /\ cp = "join"
    /\ "add" \in Faults
    /\ \E added \in BOOLEAN, removed \in Outcomes("remove") :
          /\ inTorque' = IF added /\ ~removed THEN inTorque \cup {Head(cpTodo)} ELSE inTorque
          /\ doomed' = doomed \o Copies(IF added THEN 1 ELSE 2, Head(cpTodo))
    /\ cpTodo' = Tail(cpTodo)
    /\ cp' = "scan"
    /\ UNCHANGED <<cloud, offline, jobs, overdue, centerVars, ready, dump,
                   launchLocals, delLocals>>

(* The node cannot be added, or is added and does not show up: it is       *)
(* taken out of Torque again (in the second case) and the VM given up.     *)
JoinFail ==
    /\ cp = "join"
    /\ "add" \in Faults \/ Head(cpTodo) \in inTorque
    /\ \E added \in BOOLEAN, removed \in Outcomes("remove") :
          /\ added => Head(cpTodo) \notin inTorque
          /\ inTorque' = IF added /\ ~removed THEN inTorque \cup {Head(cpTodo)} ELSE inTorque
    /\ doomed' = Append(doomed, Head(cpTodo))
    /\ cpTodo' = Tail(cpTodo)
    /\ cp' = "scan"
    /\ UNCHANGED <<cloud, offline, jobs, overdue, centerVars, ready, dump,
                   launchLocals, delLocals>>

(* A VM that is in the cluster: in use once Torque says it is up, given up *)
(* when its state_time says that it has been something else for too long.  *)
CheckJoined ==
    /\ cp = "scan" /\ cpTodo # <<>>
    /\ LET v == Head(cpTodo) IN
       /\ vm[v].cloud_ready
       /\ \E seen \in Outcomes("query") :
            /\ ready' = IF seen /\ Up(v) THEN Append(ready, v) ELSE ready
            /\ doomed' = IF seen /\ v \in inTorque /\ ~Up(v) /\ vm[v].state_time > MaxInaccessible
                         THEN Append(doomed, v) ELSE doomed
       /\ cpTodo' = Tail(cpTodo)
    /\ UNCHANGED <<clusterVars, centerVars, cp, dump, launchLocals, delLocals>>

ScanEnd ==
    /\ cp = "scan" /\ cpTodo = <<>>
    /\ dump' = (ready # <<>>)
    /\ cp' = IF ready = <<>> THEN "reap" ELSE "settle"
    /\ write_lock' = (ready # <<>>)
    /\ UNCHANGED <<clusterVars, vm, listVars, provision_waiting_list, rcButLock, historyVars,
                   scanLocals, launchLocals, delLocals>>

(* Under the lock: a VM that is ready becomes a worker node, a static one  *)
(* if one is missing (StaticVMs.need_vm).                                  *)
Settle ==
    /\ cp = "settle"
    /\ LET v == Head(ready) IN
       IF In(v, starting_instances)
       THEN /\ starting_instances' = RemoveFirst(starting_instances, v)
            /\ existing_instances' = Append(existing_instances, v)
            /\ vm' = IF NeedVm THEN [vm EXCEPT ![v].dynamic = FALSE] ELSE vm
            /\ num_of_vm' = IF NeedVm THEN num_of_vm - 1 ELSE num_of_vm
            /\ ready' = Tail(ready)
            /\ cp' = IF Len(ready) = 1 THEN "reap" ELSE "settle"
            /\ write_lock' = (Len(ready) # 1)
       ELSE /\ CpDie
            /\ UNCHANGED <<vm, existing_instances, starting_instances, num_of_vm, ready>>
    /\ UNCHANGED <<clusterVars, deleting_instances, provision_waiting_list, provisioning,
                   sleep_mode, worker_nodes, available_number_of_nodes, fileVars, main,
                   historyVars, cpTodo, doomed, dump, launchLocals, delLocals>>

(* A VM that is given up: queue another one in its place if its zone is    *)
(* known, and destroy it.                                                  *)
Reap ==
    /\ cp = "reap" /\ doomed # <<>>
    /\ LET v == Head(doomed) IN
       \E ok \in Outcomes("destroy") :
         /\ provision_waiting_list' =
              IF vm[v].zone
              THEN Append(provision_waiting_list, IF vm[v].dynamic THEN "dynamic" ELSE "static")
              ELSE provision_waiting_list
         /\ TakeAway(v, FALSE, ok)
         /\ vm' = [vm EXCEPT ![v].delete_time = @ \/ ok]
         /\ asked' = asked \cup {v}
    /\ cp' = "reapMove"
    /\ UNCHANGED <<listVars, flagVars, cleaned, lost, scanLocals, dump, launchLocals, delLocals>>

ReapMove ==
    /\ cp = "reapMove" /\ ~write_lock
    /\ LET v == Head(doomed) IN
       IF In(v, starting_instances)
       THEN /\ starting_instances' = RemoveFirst(starting_instances, v)
            /\ deleting_instances' = Append(deleting_instances, v)
            /\ doomed' = Tail(doomed)
            /\ cp' = "reap"
            /\ UNCHANGED write_lock
       ELSE CpDie /\ UNCHANGED <<starting_instances, deleting_instances, doomed>>
    /\ UNCHANGED <<clusterVars, vm, existing_instances, provision_waiting_list, rcButLock,
                   historyVars, cpTodo, ready, dump, launchLocals, delLocals>>

(* Mutated forms: the VMs that are still starting are forgotten; the nodes *)
(* in use are looked at, too.                                              *)
NothingWaiting == provision_waiting_list = <<>>
NothingAtAll   == NothingWaiting /\ starting_instances = <<>> /\ existing_instances = <<>>

NothingToProvision == starting_instances = <<>> /\ provision_waiting_list = <<>>

(* All are seen to: update_available_cores, and the file if nodes came     *)
(* into use.                                                               *)
ReapEnd ==
    /\ cp = "reap" /\ doomed = <<>>
    /\ available_number_of_nodes' = AvailableNodes
    /\ dump' = FALSE
    /\ IF dump
       THEN cp' = "dump" /\ DumpBegin("cloud")
       ELSE cp' = "wrap" /\ UNCHANGED fileVars
    /\ UNCHANGED <<clusterVars, vm, listVars, provision_waiting_list, provisioning, sleep_mode,
                   worker_nodes, num_of_vm, write_lock, main, historyVars, scanLocals,
                   launchLocals, delLocals>>

(* The round's end: nothing left to provision, or launch some more.        *)
Wrap ==
    /\ cp = "wrap"
    /\ IF NothingToProvision
       THEN cp' = "provOff" /\ UNCHANGED after
       ELSE cp' = "launchBegin" /\ after' = "cleanup"
    /\ UNCHANGED <<clusterVars, centerVars, scanLocals, dump, budget, taken, delLocals>>

ProvOff ==
    /\ cp = "provOff"
    /\ provisioning' = FALSE
    /\ cp' = "cleanup"
    /\ UNCHANGED <<clusterVars, vm, listVars, provision_waiting_list, sleep_mode, worker_nodes,
                   available_number_of_nodes, num_of_vm, fileVars, write_lock, main,
                   historyVars, scanLocals, dump, launchLocals, delLocals>>

-----------------------------------------------------------------------------
(* The persistent file, written by both halves of the round.               *)

fileKeep == <<clusterVars, vm, listVars, provision_waiting_list, provisioning, sleep_mode,
              worker_nodes, available_number_of_nodes, num_of_vm, write_lock, main, historyVars,
              scanLocals, dump, launchLocals, delLocals>>

CpDumpNext ==
    /\ cp \in {"dump", "dumpDel"}
    /\ DumpNext("cloud")
    /\ UNCHANGED <<fileKeep, cp>>

CpDumpEnd ==
    /\ cp \in {"dump", "dumpDel"}
    /\ DumpWrite("cloud")
    /\ cp' = IF cp = "dump" THEN "wrap" ELSE "relaunch"
    /\ UNCHANGED fileKeep

-----------------------------------------------------------------------------
(* launch_instances, called by both halves of the round and, before the    *)
(* threads start, by the constructor.                                      *)

LaunchBegin ==
    /\ cp = "launchBegin"
    /\ IF provision_waiting_list # <<>> /\ Len(starting_instances) < Batch
       THEN /\ provisioning' = TRUE
            /\ budget' = Batch - Len(starting_instances)
            /\ cp' = "launch"
            /\ UNCHANGED main
       ELSE /\ cp' = after
            /\ main' = IF main = "boot" THEN "run" ELSE main
            /\ UNCHANGED <<provisioning, budget>>
    /\ taken' = 0
    /\ UNCHANGED <<clusterVars, vm, listVars, provision_waiting_list, sleep_mode, worker_nodes,
                   available_number_of_nodes, num_of_vm, fileVars, write_lock,
                   historyVars, scanLocals, dump, after, delLocals>>

(* vm_start for the next entry; which id the cloud gives does not matter.  *)
Launch(v) ==
    /\ cp = "launch"
    /\ budget > 0 /\ taken < Len(provision_waiting_list)
    /\ v \in Unborn
    /\ Create(v)
    /\ starting_instances' = Append(starting_instances, v)
    /\ taken' = taken + 1
    /\ budget' = budget - 1
    /\ UNCHANGED <<vm, existing_instances, deleting_instances, provision_waiting_list, flagVars,
                   historyVars, cp, scanLocals, dump, after, delLocals>>

StaticsIn(s) == Copies(Cardinality({i \in 1 .. Len(s) : s[i] = "static"}), "static")

(* The loop ends: out of entries, out of budget (the rest is dropped but   *)
(* for the static ones), or the cloud refused.  Entries that were launched *)
(* leave the list.                                                         *)
LaunchEnd ==
    /\ cp = "launch"
    /\ \/ budget = 0
       \/ taken = Len(provision_waiting_list)
       \/ "start" \in Faults
       \/ Unborn = {}
    /\ LET rest == SubSeq(provision_waiting_list, taken + 1, Len(provision_waiting_list))
       IN  provision_waiting_list' = IF budget = 0 THEN StaticsIn(rest) ELSE rest
    /\ cp' = after
    /\ main' = IF main = "boot" THEN "run" ELSE main
    /\ budget' = 0
    /\ taken' = 0
    /\ UNCHANGED <<clusterVars, vm, listVars, provisioning, sleep_mode, worker_nodes,
                   available_number_of_nodes, num_of_vm, fileVars, write_lock,
                   historyVars, scanLocals, dump, after, delLocals>>

-----------------------------------------------------------------------------
(* check_cleanup                                                           *)

CleanupBegin ==
    /\ cp = "cleanup"
    /\ IF deleting_instances = <<>>
       THEN cp' = "poll" /\ UNCHANGED cursor
       ELSE cp' = "delRead" /\ cursor' = 1
    /\ UNCHANGED <<clusterVars, centerVars, scanLocals, dump, launchLocals, todoDel, gone, executing>>

(* Mutated forms: a VM that Torque does not know counts as deleted         *)
(* whatever the cloud says; a deletion that failed is not tried again.     *)
ChoiceWithoutCloud(v, s, view, again) ==
    IF view = "absent" THEN "gone"
    ELSE IF s = 3 THEN "remove"
    ELSE IF view # "busy" THEN "both"
    ELSE IF vm[v].force_off THEN "none" ELSE "executing"

ChoiceWithoutRetry(v, s, view, again) ==
    IF view = "absent" THEN (IF s = 3 THEN "gone" ELSE "none")
    ELSE IF s = 3 THEN "remove"
    ELSE IF view # "busy" THEN "both"
    ELSE IF vm[v].force_off THEN "none" ELSE "executing"

(* What is to be done with VM v given the answers s of vm_check and view   *)
(* of get_wn_in_torque; again: whether the deletion is tried again.        *)
CleanupChoice(v, s, view, again) ==
    IF view = "absent" THEN (IF s = 3 THEN "gone" ELSE IF again THEN "destroy" ELSE "none")
    ELSE IF s = 3 THEN "remove"
    ELSE IF view # "busy" THEN "both"
    ELSE IF vm[v].force_off THEN "none" ELSE "executing"

(* The loop looks at the VM at the cursor of the list as it is now: other  *)
(* threads append to it meanwhile.  (delete_time - now).seconds is that of *)
(* a negative duration, so once delete_time is set the retry condition is  *)
(* a matter of the time of day.                                            *)
DelRead ==
    /\ cp = "delRead" /\ cursor <= Len(deleting_instances)
    /\ LET v == deleting_instances[cursor] IN
       \E s \in VmCheck(v), seen \in Outcomes("query"),
          again \in (IF vm[v].delete_time THEN BOOLEAN ELSE {TRUE}) :
         LET choice == IF seen THEN CleanupChoice(v, s, View(v), again) ELSE "none" IN
         /\ vm' = [vm EXCEPT ![v] = Checked(@, s)]
         /\ gone' = IF choice = "gone" THEN Append(gone, v) ELSE gone
         /\ executing' = IF choice = "executing" THEN Append(executing, v) ELSE executing
         /\ IF choice \in {"destroy", "remove", "both"}
            THEN cp' = "delAct" /\ todoDel' = choice /\ UNCHANGED cursor
            ELSE cursor' = cursor + 1 /\ UNCHANGED <<cp, todoDel>>
    /\ UNCHANGED <<clusterVars, listVars, provision_waiting_list, flagVars, historyVars,
                   scanLocals, dump, launchLocals>>

(* ... and acts on what it read.                                           *)
DelAct ==
    /\ cp = "delAct"
    /\ LET v == deleting_instances[cursor] IN
       \E removed \in Outcomes("remove"), ok \in Outcomes("destroy") :
         /\ TakeAway(v, removed /\ todoDel # "destroy", ok /\ todoDel # "remove")
         /\ lost' = IF jobs[v] > 0 /\ cloud[v] = "ready" /\ (inTorque' # inTorque \/ cloud' # cloud)
                    THEN lost \cup {v} ELSE lost
         /\ vm' = [vm EXCEPT ![v].delete_time =
                     @ \/ todoDel = "both" \/ (ok /\ todoDel = "destroy")]
         /\ asked' = IF todoDel = "remove" THEN asked ELSE asked \cup {v}
    /\ cursor' = cursor + 1
    /\ todoDel' = "none"
    /\ cp' = "delRead"
    /\ UNCHANGED <<listVars, provision_waiting_list, flagVars, cleaned, scanLocals, dump,
                   launchLocals, gone, executing>>

DelEnd ==
    /\ cp = "delRead" /\ cursor > Len(deleting_instances)
    /\ cursor' = 0
    /\ dump' = (gone # <<>> \/ executing # <<>>)
    /\ cp' = "bury"
    /\ write_lock' = TRUE
    /\ UNCHANGED <<clusterVars, vm, listVars, provision_waiting_list, rcButLock, historyVars,
                   scanLocals, launchLocals, todoDel, gone, executing>>

(* Mutated form: the test of vm.dynamic is the wrong way round.            *)
ReplacesDynamic(v) == vm[v].dynamic /\ vm[v].zone

(* A static VM is to be replaced; its location is found by its zone.       *)
Replaced(v) == ~vm[v].dynamic /\ vm[v].zone

(* Under the lock: a VM that is gone leaves the list, its scripts are run, *)
(* and a static one is asked for again.                                    *)
Bury ==
    /\ cp = "bury" /\ gone # <<>>
    /\ LET v == Head(gone) IN
       IF In(v, deleting_instances)
       THEN /\ deleting_instances' = RemoveFirst(deleting_instances, v)
            /\ cleaned' = cleaned \cup {v}
            /\ num_of_vm' = IF Replaced(v) THEN num_of_vm + 1 ELSE num_of_vm
            /\ provision_waiting_list' =
                 IF Replaced(v) THEN Append(provision_waiting_list, "static")
                 ELSE provision_waiting_list
            /\ gone' = Tail(gone)
            /\ UNCHANGED <<cp, write_lock>>
       ELSE /\ CpDie
            /\ UNCHANGED <<deleting_instances, cleaned, num_of_vm, provision_waiting_list, gone>>
    /\ UNCHANGED <<clusterVars, vm, existing_instances, starting_instances, provisioning,
                   sleep_mode, worker_nodes, available_number_of_nodes, fileVars, main,
                   asked, lost, scanLocals, dump, launchLocals, cursor, todoDel, executing>>

(* A node that has jobs again goes back into use ...                       *)
Back ==
    /\ cp = "bury" /\ gone = <<>> /\ executing # <<>>
    /\ LET v == Head(executing) IN
       /\ existing_instances' = Append(existing_instances, v)
       /\ IF In(v, deleting_instances)
          THEN /\ deleting_instances' = RemoveFirst(deleting_instances, v)
               /\ cp' = "release"
               /\ UNCHANGED write_lock
          ELSE CpDie /\ UNCHANGED deleting_instances
    /\ UNCHANGED <<clusterVars, vm, starting_instances, provision_waiting_list, rcButLock,
                   historyVars, scanLocals, dump, launchLocals, delLocals>>

(* ... and is released in Torque, still under the lock.                    *)
ReleaseNode ==
    /\ cp = "release"
    /\ \E ok \in Outcomes("hold") : Release(Head(executing), ok)
    /\ executing' = Tail(executing)
    /\ cp' = "bury"
    /\ UNCHANGED <<centerVars, scanLocals, dump, launchLocals, cursor, todoDel, gone>>

CleanupEnd ==
    /\ cp = "bury" /\ gone = <<>> /\ executing = <<>>
    /\ write_lock' = FALSE
    /\ cp' = "wrapDel"
    /\ UNCHANGED <<clusterVars, vm, listVars, provision_waiting_list, rcButLock, historyVars,
                   scanLocals, dump, launchLocals, delLocals>>

WrapDel ==
    /\ cp = "wrapDel"
    /\ available_number_of_nodes' = AvailableNodes
    /\ dump' = FALSE
    /\ IF dump
       THEN cp' = "dumpDel" /\ DumpBegin("cloud")
       ELSE cp' = "relaunch" /\ UNCHANGED fileVars
    /\ UNCHANGED <<clusterVars, vm, listVars, provision_waiting_list, provisioning, sleep_mode,
                   worker_nodes, num_of_vm, write_lock, main, historyVars, scanLocals,
                   launchLocals, delLocals>>

Relaunch ==
    /\ cp = "relaunch"
    /\ IF provision_waiting_list # <<>> /\ ~provisioning
       THEN cp' = "launchBegin" /\ after' = "poll"
       ELSE cp' = "poll" /\ UNCHANGED after
    /\ UNCHANGED <<clusterVars, centerVars, scanLocals, dump, budget, taken, delLocals>>

-----------------------------------------------------------------------------
(* Exceptions                                                              *)

(* The VM vm_check is being called for.                                    *)
Checking ==
    {v \in VMs :
        \/ cp = "scan" /\ cpTodo # <<>> /\ v = Head(cpTodo) /\ ~vm[v].cloud_ready
        \/ cp = "delRead" /\ cursor <= Len(deleting_instances) /\ v = deleting_instances[cursor]}

(* flavors.get raises in vm_check of a server that is active, which has    *)
(* set the VM's fields by then; /etc/hosts cannot be opened for a node to  *)
(* be joined, or the persistent file for writing.  Nobody catches these    *)
(* but CloudPoller.run, and that is the end of the thread.                 *)
CpRaise ==
    /\ "raise" \in Faults
    /\ \/ \E v \in Checking :
            cloud[v] \in {"init", "ready"} /\ vm' = [vm EXCEPT ![v] = Checked(@, 1)]
       \/ cp = "join" /\ UNCHANGED vm
       \/ cp \in {"dump", "dumpDel"} /\ dumpAt["cloud"] = 0 /\ UNCHANGED vm
    /\ CpDie
    /\ UNCHANGED <<clusterVars, listVars, provision_waiting_list, rcButLock, historyVars,
                   scanLocals, dump, launchLocals, delLocals>>

CpStep ==
    \/ CpPoll \/ CpStop
    \/ CheckBuilding \/ JoinOk \/ JoinFail \/ CheckJoined \/ ScanEnd
    \/ Settle \/ Reap \/ ReapMove \/ ReapEnd \/ Wrap \/ ProvOff
    \/ CpDumpNext \/ CpDumpEnd \/ CpRaise
    \/ LaunchBegin \/ (\E v \in VMs : Launch(v)) \/ LaunchEnd
    \/ CleanupBegin \/ DelRead \/ DelAct \/ DelEnd \/ Bury \/ Back \/ ReleaseNode
    \/ CleanupEnd \/ WrapDel \/ Relaunch
=============================================================================
