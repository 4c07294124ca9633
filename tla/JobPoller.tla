------------------------------ MODULE JobPoller ------------------------------
(***************************************************************************)
(* The job polling thread (cluster_management.JobPoller): one round is     *)
(* collect_cluster_information, that is: query the queue and the nodes,    *)
(* look at every worker node (check_existing_worker_nodes) and ask for new *)
(* instances (determine_required_instances_numbers).                       *)
(***************************************************************************)
EXTENDS ResourceCenter

VARIABLES
    jp,         \* where the thread is
    jpTodo,     \* worker nodes still to look at
    jpNodes,    \* the node list the loop runs over
    jpVm,       \* the VM being removed (a set with at most one element)
    jpCount     \* number of new instances the scheduler asked for

jpVars == <<jp, jpTodo, jpNodes, jpVm, jpCount>>

JpStates == {"poll", "decide", "scan", "idleKill", "idleUnlist", "idleRemove", "idleWrap",
             "retire", "determine", "extend", "dump", "dead", "stopped"}

JpTypeOK ==
    /\ jp \in JpStates
    /\ jpTodo \subseteq VMs
    /\ jpNodes \in [VMs -> Views]
    /\ jpVm \subseteq VMs
    /\ jpCount \in Nat

JpInit ==
    /\ jp = "poll"
    /\ jpTodo = {}
    /\ jpNodes = NoNodes
    /\ jpVm = {}
    /\ jpCount = 0

jpKeep == <<vm, listVars, provision_waiting_list, provisioning, sleep_mode, num_of_vm,
            fileVars, write_lock, main, historyVars>>

-----------------------------------------------------------------------------
(* JobPoller.run and collect_cluster_information                           *)

(* qstat answers (a round in which it fails does nothing), the idle jobs   *)
(* are given priorities and the nodes are queried.                         *)
JpPoll ==
    /\ jp = "poll" /\ Booted /\ ~Quit
    /\ \E up \in Outcomes("query") :
         /\ worker_nodes' = IF up THEN Snapshot(inTorque) ELSE NoNodes
         /\ jp' = IF up THEN "decide" ELSE "poll"
    /\ UNCHANGED <<clusterVars, jpKeep, available_number_of_nodes, jpTodo, jpNodes, jpVm, jpCount>>

(* The idle jobs make prioritise_jobs or the scheduler raise (how they do  *)
(* is in JobScheduler: KeyError, ValueError, IndexError); or the           *)
(* persistent file cannot be opened.                                       *)
JpRaise ==
    /\ \/ "jobdata" \in Faults /\ (jp = "determine" \/ (jp = "poll" /\ Booted /\ ~Quit))
       \/ "raise" \in Faults /\ jp = "dump" /\ dumpAt["job"] = 0
    /\ jp' = "dead"
    /\ UNCHANGED <<clusterVars, centerVars, jpTodo, jpNodes, jpVm, jpCount>>

JpDecide ==
    /\ jp = "decide"
    /\ \E maui_server_up \in Outcomes("query") :
       IF sleep_mode \/ ~maui_server_up \/ provisioning
       THEN jp' = "poll" /\ UNCHANGED <<jpTodo, jpNodes>>
       ELSE /\ jp' = "scan"
            /\ jpNodes' = worker_nodes
            /\ jpTodo' = {v \in VMs : worker_nodes[v] # "absent"}
    /\ UNCHANGED <<clusterVars, centerVars, jpVm, jpCount>>

(* The end of the thread: the persistent file is written once more.        *)
jpFileKeep == <<clusterVars, vm, listVars, provision_waiting_list, provisioning, sleep_mode,
                worker_nodes, available_number_of_nodes, num_of_vm, write_lock, main,
                historyVars, jpTodo, jpNodes, jpVm, jpCount>>

JpStop ==
    /\ jp = "poll" /\ Quit
    /\ DumpBegin("job")
    /\ jp' = "dump"
    /\ UNCHANGED jpFileKeep

JpDumpNext ==
    /\ jp = "dump"
    /\ DumpNext("job")
    /\ UNCHANGED <<jpFileKeep, jp>>

JpDumpEnd ==
    /\ jp = "dump"
    /\ DumpWrite("job")
    /\ jp' = "stopped"
    /\ UNCHANGED jpFileKeep

-----------------------------------------------------------------------------
(* check_existing_worker_nodes                                             *)

(* A node of the list that is no worker node (any more).                   *)
SkipNode(v) ==
    /\ jp = "scan" /\ v \in jpTodo
    /\ ~In(v, existing_instances)
    /\ jpTodo' = jpTodo \ {v}
    /\ UNCHANGED <<clusterVars, centerVars, jp, jpNodes, jpVm, jpCount>>

(* state and state_time after another poll that saw the given word.        *)
Polled(v, word) ==
    LET r == vm[v]
        same == r.state = word
    IN  [r EXCEPT !.state = word,
                  !.state_time = IF ~same THEN 0 ELSE IF @ < TimeCap THEN @ + 1 ELSE @]

(* Dynamic nodes with jobs that can stay in the place of an idle static    *)
(* one.                                                                    *)
SwapPartners(v) ==
    {u \in VMs \ {v} : /\ worker_nodes[u] = "busy"
                       /\ In(u, existing_instances)
                       /\ vm[u].dynamic}

(* The loop's verdicts on node v, whose VM record is now r: idle for too   *)
(* long; drained, or down for too long.                                    *)
Idle(v, r) == jpNodes[v] # "busy" /\ r.state = "free" /\ r.state_time > MaxIdle
(* (mutated form: a free node is retired like a drained one)               *)
FinishedOrFree(v, r) ==
    /\ jpNodes[v] # "busy" /\ ~Idle(v, r)
    /\ \/ r.state \in {"drained", "free"}
       \/ jpNodes[v] = "down" /\ r.state = "down" /\ r.state_time > MaxDown
Finished(v, r) ==
    /\ jpNodes[v] # "busy" /\ ~Idle(v, r)
    /\ \/ r.state = "drained"
       \/ jpNodes[v] = "down" /\ r.state = "down" /\ r.state_time > MaxDown

(* checknode, the new state_time, holding a node of another image; then    *)
(* the verdict on the node.  An idle static node is swapped with a busy    *)
(* dynamic one if the queue has running jobs.                              *)
Inspect(v) ==
    /\ jp = "scan" /\ v \in jpTodo
    /\ In(v, existing_instances)
    /\ \E word \in CheckNode(v), held \in Outcomes("hold") :
       LET r == Polled(v, word) IN
       /\ Hold(v, v \in OldImage /\ held)
       /\ \/ /\ Idle(v, r) /\ r.dynamic
             /\ vm' = [vm EXCEPT ![v] = r]
             /\ jp' = "idleKill" /\ jpVm' = {v}
          \/ /\ Idle(v, r) /\ ~r.dynamic
             /\ \E u \in SwapPartners(v) :
                  vm' = [vm EXCEPT ![v] = [r EXCEPT !.dynamic = TRUE], ![u].dynamic = FALSE]
             /\ jp' = "idleKill" /\ jpVm' = {v}
          \/ /\ Finished(v, r)
             /\ vm' = [vm EXCEPT ![v] = r]
             /\ jp' = "retire" /\ jpVm' = {v}
          \/ /\ ~Finished(v, r) /\ (Idle(v, r) => ~r.dynamic)
             /\ vm' = [vm EXCEPT ![v] = r]
             /\ UNCHANGED <<jp, jpVm>>
    /\ jpTodo' = jpTodo \ {v}
    /\ UNCHANGED <<listVars, provision_waiting_list, flagVars, historyVars, jpNodes, jpCount>>

(* An idle node is taken out of Torque and destroyed at once ...           *)
IdleKill(v) ==
    /\ jp = "idleKill" /\ v \in jpVm
    /\ \E removed \in Outcomes("remove"), ok \in Outcomes("destroy") :
         /\ TakeAway(v, removed, ok)
         /\ vm' = [vm EXCEPT ![v].force_off = TRUE, ![v].delete_time = @ \/ ok]
    /\ asked' = asked \cup {v}
    /\ jp' = "idleUnlist"
    /\ UNCHANGED <<listVars, provision_waiting_list, flagVars, cleaned, lost,
                   jpTodo, jpNodes, jpVm, jpCount>>

(* ... the test outside the lock ...                                       *)
IdleUnlist(v) ==
    /\ jp = "idleUnlist" /\ v \in jpVm
    /\ jp' = IF In(v, existing_instances) THEN "idleRemove" ELSE "idleWrap"
    /\ UNCHANGED <<clusterVars, centerVars, jpTodo, jpNodes, jpVm, jpCount>>

(* ... the removal inside it: list.remove raises if the VM is not there.   *)
IdleRemove(v) ==
    /\ jp = "idleRemove" /\ v \in jpVm /\ ~write_lock
    /\ IF In(v, existing_instances)
       THEN TakeOut(v) /\ jp' = "idleWrap"
       ELSE jp' = "dead" /\ UNCHANGED <<existing_instances, fileVars>>
    /\ UNCHANGED <<clusterVars, vm, starting_instances, deleting_instances, provision_waiting_list,
                   flagsButFile, historyVars, jpTodo, jpNodes, jpVm, jpCount>>

IdleWrap ==
    /\ jp = "idleWrap" /\ ~write_lock
    /\ available_number_of_nodes' = AvailableNodes
    /\ provisioning' = FALSE
    /\ jp' = "scan"
    /\ jpVm' = {}
    /\ UNCHANGED <<clusterVars, vm, listVars, provision_waiting_list, sleep_mode, worker_nodes,
                   num_of_vm, fileVars, write_lock, main, historyVars,
                   jpTodo, jpNodes, jpCount>>

(* Mutated form: the node stays in existing_instances.                     *)
RetireWithoutRemove(v) ==
    /\ jp = "retire" /\ v \in jpVm /\ ~write_lock
    /\ deleting_instances' = Append(deleting_instances, v)
    /\ jp' = "scan"
    /\ jpVm' = {}
    /\ UNCHANGED <<clusterVars, vm, existing_instances, starting_instances,
                   provision_waiting_list, flagVars, historyVars, jpTodo, jpNodes, jpCount>>

(* A drained node, or one that has been down for too long, is handed to    *)
(* check_cleanup.                                                          *)
Retire(v) ==
    /\ jp = "retire" /\ v \in jpVm /\ ~write_lock
    /\ deleting_instances' = Append(deleting_instances, v)
    /\ IF In(v, existing_instances)
       THEN TakeOut(v) /\ jp' = "scan"
       ELSE jp' = "dead" /\ UNCHANGED <<existing_instances, fileVars>>
    /\ jpVm' = {}
    /\ UNCHANGED <<clusterVars, vm, starting_instances, provision_waiting_list, flagsButFile,
                   historyVars, jpTodo, jpNodes, jpCount>>

(* update_available_cores; has_available_cores.                            *)
JpScanEnd ==
    /\ jp = "scan" /\ jpTodo = {} /\ ~write_lock
    /\ available_number_of_nodes' = AvailableNodes
    /\ jp' = IF AvailableNodes > 0 THEN "determine" ELSE "poll"
    /\ jpNodes' = NoNodes
    /\ UNCHANGED <<clusterVars, jpKeep, worker_nodes, jpTodo, jpVm, jpCount>>

-----------------------------------------------------------------------------
(* determine_required_instances_numbers                                    *)

(* calculate_new_instances gives at most one instance per core that is     *)
(* available: RequestsBounded of JobScheduler, which models it in full.    *)
(* The result is used if nothing is being provisioned at this moment.      *)
Determine ==
    /\ jp = "determine"
    /\ \E n \in 0 .. NumDynamic * Np :
         /\ n <= available_number_of_nodes * Np \/ n = 0
         /\ IF n > 0 /\ ~provisioning
            THEN jp' = "extend" /\ jpCount' = n
            ELSE jp' = "poll" /\ jpCount' = 0
    /\ UNCHANGED <<clusterVars, centerVars, jpTodo, jpNodes, jpVm>>

(* Mutated form: provisioning is not set.                                  *)
ExtendOnly ==
    /\ jp = "extend" /\ ~write_lock
    /\ provision_waiting_list' = provision_waiting_list \o Copies(jpCount, "dynamic")
    /\ jp' = "poll"
    /\ jpCount' = 0
    /\ UNCHANGED <<clusterVars, vm, listVars, flagVars, historyVars, jpTodo, jpNodes, jpVm>>

Extend ==
    /\ jp = "extend" /\ ~write_lock
    /\ provision_waiting_list' = provision_waiting_list \o Copies(jpCount, "dynamic")
    /\ provisioning' = TRUE
    /\ jp' = "poll"
    /\ jpCount' = 0
    /\ UNCHANGED <<clusterVars, vm, listVars, sleep_mode, worker_nodes, available_number_of_nodes,
                   num_of_vm, fileVars, write_lock, main, historyVars,
                   jpTodo, jpNodes, jpVm>>

JpStep ==
    \/ JpPoll \/ JpRaise \/ JpDecide \/ JpStop \/ JpDumpNext \/ JpDumpEnd
    \/ \E v \in VMs : SkipNode(v) \/ Inspect(v) \/ IdleKill(v) \/ IdleUnlist(v)
                      \/ IdleRemove(v) \/ Retire(v)
    \/ IdleWrap \/ JpScanEnd \/ Determine \/ Extend
=============================================================================
