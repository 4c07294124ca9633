--------------------------- MODULE ResourceCenter ---------------------------
(***************************************************************************)
(* The object the daemon's threads share (res_management.ResourceCenter):  *)
(* its lists of VMs, the list of VMs to launch, its flags, and the helpers *)
(* several threads use.  One cloud resource with one flavor and one        *)
(* location is modelled.  The threads' steps are in CloudPoller, JobPoller *)
(* and Control; Daemon composes them.                                      *)
(***************************************************************************)
EXTENDS Cluster, SequencesExt

CONSTANTS
    NumDynamic,     \* number_of_dynamic_worker_nodes
    StaticWanted,   \* static worker nodes asked for in the configuration
    Batch,          \* vm_creation_batch_number
    MaxIdle,        \* max_idle_time, in job polls
    MaxDown,        \* max_down_time, in job polls
    MaxInaccessible,\* max_inaccessible_time, in job polls
    Loaded,         \* worker nodes found running when the daemon starts
    OldImage,       \* those of them launched from another image
    Admin,          \* what the operator may ask for
    ListBound       \* no new kill request when this many VMs are listed

ASSUME NumDynamicAssumption == NumDynamic \in Nat
ASSUME StaticAssumption     == StaticWanted \in Nat /\ (StaticWanted > 0 => Loaded = {})
ASSUME BatchAssumption      == Batch \in Nat \ {0}
ASSUME TimesAssumption      == MaxIdle \in Nat /\ MaxDown \in Nat /\ MaxInaccessible \in Nat
ASSUME LoadedAssumption     ==
    Loaded \subseteq VMs /\ OldImage \subseteq Loaded /\ Cardinality(Loaded) <= NumDynamic
ASSUME AdminAssumption      == Admin \subseteq {"kill", "forceoff", "sleep", "term"}
ASSUME ListBoundAssumption  == ListBound \in Nat

VARIABLES
    vm,                         \* the fields of each VM object
    existing_instances,         \* worker nodes in use
    starting_instances,         \* VMs launched and not yet in use
    deleting_instances,         \* VMs on their way out
    provision_waiting_list,     \* ProvisionVM objects to launch, told apart by their static field
    provisioning,
    sleep_mode,
    worker_nodes,               \* last answer of pbsnodes -x
    available_number_of_nodes,  \* of the cloud resource
    num_of_vm,                  \* of static_vms_to_start: static nodes still missing
    persistent_nodes,           \* contents of persistent_file_location
    content,                    \* what a thread that writes the file has read so far
    dumpAt,                     \* its position in existing_instances (0: it is in no loop)
    torn,                       \* history: threads from behind whose position a node left
    write_lock,                 \* TRUE while the cloud poller is inside "with self.write_lock"
    main,                       \* state of the main thread
    asked,                      \* history: VMs vm_destroy was called for
    cleaned,                    \* history: VMs check_cleanup finished with (post_* scripts run)
    lost                        \* history: nodes check_cleanup took away from a running job

listVars   == <<existing_instances, starting_instances, deleting_instances>>
fileVars   == <<persistent_nodes, content, dumpAt, torn>>
flagVars   == <<provisioning, sleep_mode, worker_nodes, available_number_of_nodes,
                num_of_vm, fileVars, write_lock, main>>
flagsButFile == <<provisioning, sleep_mode, worker_nodes, available_number_of_nodes,
                  num_of_vm, write_lock, main>>
historyVars == <<asked, cleaned, lost>>
centerVars == <<vm, listVars, provision_waiting_list, flagVars, historyVars>>

NoTime == -1                        \* state_time is None, smaller than any number in Python 2
TimeCap == MaxIdle + MaxDown + 1    \* beyond both limits nothing changes

VMRecords ==
    [dynamic : BOOLEAN, force_off : BOOLEAN, cloud_ready : BOOLEAN,
     zone : BOOLEAN,                    \* availability_zone is not None
     delete_time : BOOLEAN,             \* delete_time is not None
     state : Words \cup {"cloud"},      \* last checknode word, or a server status
     state_time : NoTime .. TimeCap]

Requests == {"static", "dynamic"}
Writers  == {"cloud", "job"}        \* the pollers write the persistent file

RCTypeOK ==
    /\ ClusterTypeOK
    /\ vm \in [VMs -> VMRecords]
    /\ existing_instances \in Seq(VMs)
    /\ starting_instances \in Seq(VMs)
    /\ deleting_instances \in Seq(VMs)
    /\ provision_waiting_list \in Seq(Requests)
    /\ provisioning \in BOOLEAN
    /\ sleep_mode \in BOOLEAN
    /\ worker_nodes \in [VMs -> Views]
    /\ available_number_of_nodes \in Int
    /\ num_of_vm \in Nat
    /\ persistent_nodes \subseteq VMs
    /\ content \in [Writers -> SUBSET VMs]
    /\ dumpAt \in [Writers -> Nat]
    /\ torn \subseteq Writers
    /\ write_lock \in BOOLEAN
    /\ main \in {"boot", "run", "forceoff", "join", "exited"}
    /\ asked \subseteq VMs
    /\ cleaned \subseteq VMs
    /\ lost \subseteq VMs

-----------------------------------------------------------------------------

(* VM.__init__, and what vm_list fills in for a server found at start-up.  *)
NewVM ==
    [dynamic |-> TRUE, force_off |-> FALSE, cloud_ready |-> FALSE, zone |-> FALSE,
     delete_time |-> FALSE, state |-> "cloud", state_time |-> NoTime]

LoadedVM == [NewVM EXCEPT !.zone = TRUE]

(* The fields vm_check sets on its way: the status, and the zone once the  *)
(* server is active (results 0 and 1).                                     *)
Checked(r, s) ==
    [r EXCEPT !.state = IF s = 3 THEN @ ELSE "cloud",
              !.zone = @ \/ s \in {0, 1}]

In(v, list) == \E i \in 1 .. Len(list) : list[i] = v

Listed(v) == In(v, existing_instances) \/ In(v, starting_instances) \/ In(v, deleting_instances)

(* The dynamic VMs of a list, counted with repetitions.                    *)
DynamicIn(list) == Cardinality({i \in 1 .. Len(list) : vm[list[i]].dynamic})

(* Mutated forms: update_available_cores forgets the VMs being deleted;    *)
(* need_vm does not look at the number left; thread.stop() comes after the *)
(* join.                                                                   *)
AvailableWithoutDeleting == NumDynamic - DynamicIn(existing_instances)
NeedVmAlways  == TRUE
QuitAfterJoin == main = "exited"

(* What update_available_cores computes.                                   *)
AvailableNodes ==
    NumDynamic - (DynamicIn(existing_instances) + DynamicIn(deleting_instances))

(***************************************************************************)
(* dump_nodes_to_persistent_file(existing_instances) by thread t: a loop   *)
(* over the live list, without the lock, and then the file.  The others    *)
(* may take a node out of the list meanwhile.  If it was behind the loop's *)
(* position, those after it move up and the loop passes over one.          *)
(***************************************************************************)
DumpBegin(t) ==
    /\ content' = [content EXCEPT ![t] = {}]
    /\ dumpAt' = [dumpAt EXCEPT ![t] = 1]
    /\ torn' = torn \ {t}
    /\ UNCHANGED persistent_nodes

(* Mutated form: the loop ends one too early.                              *)
LoopOverEarly(t) == dumpAt[t] >= Len(existing_instances)

LoopOver(t) == dumpAt[t] > Len(existing_instances)

DumpNext(t) ==
    /\ dumpAt[t] # 0
    /\ IF LoopOver(t)
       THEN dumpAt' = [dumpAt EXCEPT ![t] = 0] /\ UNCHANGED content
       ELSE /\ dumpAt' = [dumpAt EXCEPT ![t] = @ + 1]
            /\ content' = [content EXCEPT ![t] = @ \cup {existing_instances[dumpAt[t]]}]
    /\ UNCHANGED <<persistent_nodes, torn>>

DumpWrite(t) ==
    /\ dumpAt[t] = 0
    /\ persistent_nodes' = content[t]
    /\ content' = [content EXCEPT ![t] = {}]
    /\ UNCHANGED <<dumpAt, torn>>

(* existing_instances.remove(v), for a v that is in the list.              *)
TakeOut(v) ==
    /\ existing_instances' = RemoveFirst(existing_instances, v)
    /\ torn' = torn \cup {t \in Writers :
                   /\ ~LoopOver(t)
                   /\ \E i \in 1 .. dumpAt[t] - 1 : existing_instances[i] = v}
    /\ UNCHANGED <<persistent_nodes, content, dumpAt>>

(* A new list in the place of existing_instances: a loop that is on its    *)
(* way goes on over the old one, which nobody changes any more.            *)
NewExisting ==
    /\ existing_instances' = <<>>
    /\ content' = [t \in Writers |->
                      content[t] \cup {existing_instances[i] : i \in
                          {j \in 1 .. Len(existing_instances) : 0 < dumpAt[t] /\ dumpAt[t] <= j}}]
    /\ dumpAt' = [t \in Writers |-> 0]
    /\ UNCHANGED <<persistent_nodes, torn>>

(* StaticVMs.need_vm: a static node is missing.                            *)
NeedVm == num_of_vm > 0

Copies(n, x) == [i \in 1 .. n |-> x]

Unborn == {v \in VMs : cloud[v] = "none"}

Quit   == main \in {"join", "exited"}       \* thread.stop() has been called
Booted == main # "boot"                     \* the constructor has returned

(***************************************************************************)
(* A state _load_existing_worker_nodes (StartUp) leaves, up to its last    *)
(* call, launch_instances: the nodes it keeps are running worker nodes, of *)
(* another image only if they run a job, and the static nodes that are     *)
(* missing are in the waiting list.                                        *)
(***************************************************************************)
RCInit ==
    /\ cloud = [v \in VMs |-> IF v \in Loaded THEN "ready" ELSE "none"]
    /\ inTorque = Loaded
    /\ offline = {}
    /\ jobs = [v \in VMs |-> IF v \in OldImage THEN 1 ELSE 0]
    /\ overdue = {}
    /\ vm = [v \in VMs |-> IF v \in Loaded THEN LoadedVM ELSE NewVM]
    /\ existing_instances \in SetToSeqs(Loaded)
    /\ starting_instances = <<>>
    /\ deleting_instances = <<>>
    /\ provision_waiting_list = Copies(StaticWanted, "static")
    /\ provisioning = FALSE
    /\ sleep_mode = FALSE
    /\ worker_nodes = Snapshot(Loaded)
    /\ available_number_of_nodes = NumDynamic - Cardinality(Loaded)
    /\ num_of_vm = StaticWanted
    /\ persistent_nodes = Loaded
    /\ content = [t \in Writers |-> {}]
    /\ dumpAt = [t \in Writers |-> 0]
    /\ torn = {}
    /\ write_lock = FALSE
    /\ main = "boot"
    /\ asked = {}
    /\ cleaned = {}
    /\ lost = {}
=============================================================================
