------------------------------ MODULE Recovery -------------------------------
(***************************************************************************)
(* The daemon with crashes: at any moment the process may end (killed, or  *)
(* by itself after a failed start or a regular exit) and be started again. *)
(* Everything it holds in memory is lost; the servers, Torque with its     *)
(* jobs and the persistent file remain, and StartUp puts the pieces        *)
(* together while the cluster goes on.                                     *)
(***************************************************************************)
EXTENDS Daemon, StartUp

recoveryVars == <<vars, suVars>>

(* A start of the daemon.  An earlier one has left any servers, perhaps    *)
(* more than the limit, which may have been lowered since; meanwhile some  *)
(* have been deleted, and Torque may have lost some of the nodes.          *)
RecoveryInit ==
    \E known, left \in SUBSET VMs :
        /\ left \subseteq known
        /\ cloud = [v \in VMs |-> IF v \in left THEN "ready"
                                 ELSE IF v \in known THEN "gone" ELSE "none"]
        /\ inTorque \in SUBSET known
        /\ jobs \in [VMs -> 0 .. Np] /\ \A v \in VMs \ (inTorque \cap left) : jobs[v] = 0
        /\ persistent_nodes = known
        /\ content = [t \in Writers |-> {}] /\ dumpAt = [t \in Writers |-> 0] /\ torn = {}
        /\ offline = {} /\ overdue = {}
        /\ vm = [v \in VMs |-> NewVM]
        /\ existing_instances = <<>> /\ starting_instances = <<>> /\ deleting_instances = <<>>
        /\ provision_waiting_list = <<>>
        /\ provisioning = FALSE /\ sleep_mode = FALSE /\ write_lock = FALSE
        /\ worker_nodes = NoNodes
        /\ available_number_of_nodes = NumDynamic
        /\ num_of_vm = StaticWanted
        /\ main = "boot"
        /\ asked = {} /\ cleaned = {} /\ lost = {}
        /\ CpInit /\ JpInit /\ ControlInit
        /\ su = "list" /\ to_delete = <<>> /\ orphans = {} /\ pool = <<>>

(* A thread is about to write the persistent file.                         *)
AboutToDump ==
    \/ cp \in {"dump", "dumpDel"} /\ dumpAt["cloud"] = 0
    \/ jp = "dump" /\ dumpAt["job"] = 0

(* A crash and the next start.  Opening the persistent file for writing    *)
(* empties it, so a crash before the write leaves nothing in it.  The      *)
(* history starts anew as well: what a process asked for before it died    *)
(* excuses nothing.                                                        *)
Restart ==
    /\ su' = "list" /\ to_delete' = <<>> /\ orphans' = {} /\ pool' = <<>>
    /\ \/ UNCHANGED persistent_nodes
       \/ AboutToDump /\ persistent_nodes' = {}
    /\ content' = [t \in Writers |-> {}] /\ dumpAt' = [t \in Writers |-> 0] /\ torn' = {}
    /\ vm' = [v \in VMs |-> NewVM]
    /\ existing_instances' = <<>> /\ starting_instances' = <<>> /\ deleting_instances' = <<>>
    /\ provision_waiting_list' = <<>>
    /\ provisioning' = FALSE /\ sleep_mode' = FALSE /\ write_lock' = FALSE
    /\ worker_nodes' = NoNodes
    /\ available_number_of_nodes' = NumDynamic
    /\ num_of_vm' = StaticWanted
    /\ main' = "boot"
    /\ asked' = {} /\ cleaned' = {} /\ lost' = {}
    /\ cp' = "launchBegin" /\ after' = "poll"
    /\ cpTodo' = <<>> /\ ready' = <<>> /\ doomed' = <<>> /\ dump' = FALSE
    /\ budget' = 0 /\ taken' = 0
    /\ cursor' = 0 /\ todoDel' = "none" /\ gone' = <<>> /\ executing' = <<>>
    /\ jp' = "poll" /\ jpTodo' = {} /\ jpNodes' = NoNodes /\ jpVm' = {} /\ jpCount' = 0
    /\ killing' = {}
    /\ fo' = [c \in Callers |-> "idle"]
    /\ foNext' = [c \in Callers |-> 0]
    /\ foOld' = [c \in Callers |-> <<>>]
    /\ UNCHANGED clusterVars

Loading == StartUpStep /\ UNCHANGED <<cpVars, jpVars, controlVars>>
Running == su = "done" /\ Next /\ UNCHANGED suVars
Outside == su # "done" /\ (\E v \in VMs : ClusterStep(v)) /\ UNCHANGED suVars

RecoveryNext == Loading \/ Running \/ Outside \/ Restart

RecoverySpec == RecoveryInit /\ [][RecoveryNext]_recoveryVars

(* The same from the very first start, on an empty cloud.                  *)
FirstStartSpec ==
    /\ RecoveryInit /\ cloud = [v \in VMs |-> "none"]
    /\ [][RecoveryNext]_recoveryVars

-----------------------------------------------------------------------------
(* Whatever the moment of the crash, once the start-up is through every    *)
(* server that exists is in a list of the new process, or the new process  *)
(* has asked for its destruction: none runs on unnoticed.                  *)
ServersAdopted == su = "done" => NoVmForgotten

(* No VM gets two owners by a restart: a server that was in the middle of  *)
(* a move between two lists, or queued twice, is listed once again.        *)
OneOwnerAgain == su = "done" => OneOwner

(* The start-up takes no node that Torque shows running a job, although it *)
(* acts on the nodes one by one and on an answer that gets older, unless   *)
(* the node was being drained, or was down when Torque was asked and has   *)
(* come back since.                                                        *)
SparesJobs ==
    "down" \notin Faults =>
        \A v \in VMs :
            su \in {"orphans", "trim"} /\ Up(v) /\ jobs[v] > 0 /\ cloud'[v] = "deleting"
            => worker_nodes[v] # "busy"

RestartSparesJobs == [][SparesJobs]_recoveryVars

(* res_management.py 234, "check if we overused, if yes, kill some": a     *)
(* start-up that finds too many nodes kills some and goes on.              *)
StartUpCompletes == su # "failed"
=============================================================================
