------------------------------ MODULE Cluster ------------------------------
(***************************************************************************)
(* The two systems Dynamic Torque drives, as its code sees them: the       *)
(* OpenStack cloud (openstack_cloud.py) and the Torque/Maui batch system   *)
(* (the commands of local_commands.py).  Everything here happens outside   *)
(* the daemon: a VM boots, fails, disappears; a job starts or ends.  The   *)
(* operators are the effects and the answers of the calls the daemon makes *)
(* on them; a call in Faults may fail, and the code then goes on with the  *)
(* answer its error path returns.                                          *)
(***************************************************************************)
EXTENDS Integers, FiniteSets

CONSTANTS
    VMs,        \* server ids; each is given to at most one server, so VMs bounds the launches
    Np,         \* cores (slots for jobs) of a worker node
    HeldWord,   \* what check_node_command says of a node that is offline and empty
    Faults      \* the calls and machines that may fail

FaultKinds ==
    { "api",        \* servers.get raises in vm_check although the server exists
      "destroy",    \* servers.get or servers.delete raises in vm_destroy
      "start",      \* servers.create raises
      "hold",       \* pbsnodes -o / -c does nothing
      "remove",     \* qmgr delete node does nothing
      "add",        \* qmgr create node fails, or the node does not show up
      "query",      \* qstat, pbsnodes -x, checknode or showq fails
      "error",      \* a server goes to ERROR
      "vanish",     \* a server is deleted by somebody else
      "down",       \* the batch daemon (port 15002) of a node stops for a while
      "slow",       \* a server takes longer than max_inaccessible_time
      "raise",      \* a call outside every "try" raises: flavors.get, open of a local file
      "jobdata" }   \* the job data makes prioritise_jobs or the scheduler raise

ASSUME VMsAssumption    == IsFiniteSet(VMs)
ASSUME NpAssumption     == Np \in Nat \ {0}
ASSUME HeldAssumption   == HeldWord \in {"drained", "offline"}
ASSUME FaultsAssumption == Faults \subseteq FaultKinds

VARIABLES
    cloud,      \* state of each server
    inTorque,   \* nodes known to pbs_server
    offline,    \* nodes held with pbsnodes -o
    jobs,       \* number of jobs running on each node
    overdue     \* servers created more than max_inaccessible_time ago

clusterVars == <<cloud, inTorque, offline, jobs, overdue>>

CloudStates == {"none", "build", "init", "ready", "error", "deleting", "gone"}
Live        == {"build", "init", "ready", "error"}
Views       == {"absent", "idle", "busy", "down"}
Words       == {"none", "free", "job-exclusive", "draining", "drained", "offline", "down"}

ClusterTypeOK ==
    /\ cloud \in [VMs -> CloudStates]
    /\ inTorque \subseteq VMs
    /\ offline \subseteq VMs
    /\ jobs \in [VMs -> 0 .. Np]
    /\ overdue \subseteq VMs

(* The results a call may have: it succeeds, or fails if it is one that may. *)
Outcomes(call) == IF call \in Faults THEN BOOLEAN ELSE {TRUE}

-----------------------------------------------------------------------------
(* Answers.                                                                *)

(* What OpenStackCloud.vm_check returns: 0 ready, 1 configuring, 2 being   *)
(* built (or with a task pending), 3 servers.get raised, 4 error.  When    *)
(* flavors.get raises it does not return (CpRaise in CloudPoller).         *)
VmCheck(v) ==
    (CASE cloud[v] = "ready"                     -> {0}
       [] cloud[v] = "init"                      -> {1}
       [] cloud[v] \in {"build", "deleting"}     -> {2}
       [] cloud[v] = "error"                     -> {4}
       [] OTHER                                  -> {3})
    \cup (IF "api" \in Faults THEN {3} ELSE {})

(* A node's entry in the answer of pbsnodes -x: is it there, does it have  *)
(* a "jobs" element, does its state say "down".                            *)
ViewIn(v, nodes) ==
    IF v \notin nodes THEN "absent"
    ELSE IF jobs[v] > 0 THEN "busy"
    ELSE IF cloud[v] = "ready" THEN "idle" ELSE "down"

View(v) == ViewIn(v, inTorque)

(* The whole answer, when Torque knows the given nodes; no answer.         *)
Snapshot(nodes) == [v \in VMs |-> ViewIn(v, nodes)]
NoNodes         == [v \in VMs |-> "absent"]

(* pbsnodes says "free" or "job-exclusive".                                *)
Up(v) == v \in inTorque /\ cloud[v] = "ready" /\ v \notin offline

(* What check_node reads after "state = "; a node with some jobs and a     *)
(* free slot is "free".                                                    *)
NodeWord(v) ==
    IF v \notin inTorque THEN "none"
    ELSE IF cloud[v] # "ready" THEN "down"
    ELSE IF v \in offline THEN (IF jobs[v] = 0 THEN HeldWord ELSE "draining")
    ELSE IF jobs[v] = Np THEN "job-exclusive" ELSE "free"

CheckNode(v) == {NodeWord(v)} \cup (IF "query" \in Faults THEN {"none"} ELSE {})

-----------------------------------------------------------------------------
(* Effects of calls.                                                       *)

(* remove_node_from_torque(v) and vm_destroy(v); removed and destroyed say *)
(* whether the calls are made and succeed.                                 *)
TakeAway(v, removed, destroyed) ==
    /\ inTorque' = IF removed THEN inTorque \ {v} ELSE inTorque
    /\ offline' = IF removed THEN offline \ {v} ELSE offline
    /\ jobs' = IF removed THEN [jobs EXCEPT ![v] = 0] ELSE jobs
    /\ cloud' = IF destroyed /\ cloud[v] \in Live
                THEN [cloud EXCEPT ![v] = "deleting"] ELSE cloud
    /\ UNCHANGED overdue

(* pbsnodes -o v, for a node that Torque knows.                            *)
Hold(v, ok) ==
    /\ offline' = IF ok /\ v \in inTorque THEN offline \cup {v} ELSE offline
    /\ UNCHANGED <<cloud, inTorque, jobs, overdue>>

(* pbsnodes -c v.                                                          *)
Release(v, ok) ==
    /\ offline' = IF ok THEN offline \ {v} ELSE offline
    /\ UNCHANGED <<cloud, inTorque, jobs, overdue>>

(* servers.create answers with the new server v.                           *)
Create(v) ==
    /\ cloud' = [cloud EXCEPT ![v] = "build"]
    /\ UNCHANGED <<inTorque, offline, jobs, overdue>>

(* qmgr create node v, then state = free.                                  *)
AddNode(v) ==
    /\ inTorque' = inTorque \cup {v}
    /\ offline' = offline \ {v}
    /\ UNCHANGED <<cloud, jobs, overdue>>

-----------------------------------------------------------------------------
(* What happens by itself.                                                 *)

MoveServer(v, from, to) ==
    /\ cloud[v] \in from
    /\ cloud' = [cloud EXCEPT ![v] = to]
    /\ UNCHANGED <<inTorque, offline, jobs, overdue>>

(* A server boots; cloud-init starts the batch daemon; a deletion ends.    *)
Progress(v) ==
    \/ MoveServer(v, {"build"}, "init")
    \/ MoveServer(v, {"init"}, "ready")
    \/ MoveServer(v, {"deleting"}, "gone")

Fail(v)   == "error" \in Faults /\ MoveServer(v, {"build", "init", "ready"}, "error")
Vanish(v) == "vanish" \in Faults /\ MoveServer(v, Live, "gone")
GoDown(v) == "down" \in Faults /\ MoveServer(v, {"ready"}, "init")

TimePasses(v) ==
    /\ "slow" \in Faults
    /\ cloud[v] \in {"build", "init"}
    /\ v \notin overdue
    /\ overdue' = overdue \cup {v}
    /\ UNCHANGED <<cloud, inTorque, offline, jobs>>

(* The scheduler puts a job on a node that is up and has a free slot.      *)
JobStart(v) ==
    /\ Up(v)
    /\ jobs[v] < Np
    /\ jobs' = [jobs EXCEPT ![v] = @ + 1]
    /\ UNCHANGED <<cloud, inTorque, offline, overdue>>

JobEnd(v) ==
    /\ jobs[v] > 0
    /\ jobs' = [jobs EXCEPT ![v] = @ - 1]
    /\ UNCHANGED <<cloud, inTorque, offline, overdue>>

Environment(v) ==
    Progress(v) \/ Fail(v) \/ Vanish(v) \/ GoDown(v) \/ TimePasses(v) \/ JobStart(v) \/ JobEnd(v)
=============================================================================
