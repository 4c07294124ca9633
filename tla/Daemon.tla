------------------------------- MODULE Daemon --------------------------------
(***************************************************************************)
(* Dynamic Torque: the job poller, the cloud poller, the info server and   *)
(* the main thread over one ResourceCenter, with the cloud and Torque      *)
(* going their own way.                                                    *)
(***************************************************************************)
EXTENDS CloudPoller, JobPoller, Control

vars == <<clusterVars, centerVars, cpVars, jpVars, controlVars>>

Init == RCInit /\ CpInit /\ JpInit /\ ControlInit

Died   == jp = "dead" \/ cp = "dead"
Joined == jp \in {"dead", "stopped"} /\ cp \in {"dead", "stopped"}

CloudPollerStep == CpStep /\ UNCHANGED <<jpVars, controlVars>>
JobPollerStep   == JpStep /\ UNCHANGED <<cpVars, controlVars>>
InfoServerStep  == InfoStep /\ UNCHANGED <<cpVars, jpVars>>
ForceoffBy(c)   == ForceoffStep(c) /\ UNCHANGED <<cpVars, jpVars>>
MainStep        == (MainQuit(Died) \/ MainExit(Joined)) /\ UNCHANGED <<cpVars, jpVars>>
ClusterStep(v)  == Environment(v) /\ UNCHANGED <<centerVars, cpVars, jpVars, controlVars>>

Next ==
    \/ CloudPollerStep
    \/ JobPollerStep
    \/ InfoServerStep
    \/ \E c \in Callers : ForceoffBy(c)
    \/ MainStep
    \/ \E v \in VMs : ClusterStep(v)

Spec == Init /\ [][Next]_vars

-----------------------------------------------------------------------------
(* Every variable keeps its type: in particular the lists hold VM objects  *)
(* only, and no counter leaves its range.                                  *)
TypeOK == RCTypeOK /\ CpTypeOK /\ JpTypeOK /\ ControlTypeOK

(* A server that exists and that nobody has asked the cloud to destroy is  *)
(* in one of the three lists: moving VMs between the lists (settle, retire,*)
(* kill, cleanup, forceoff), in any interleaving and even when a thread    *)
(* dies half-way, never loses track of a running server.  This is so if    *)
(* vm_check answers 3 only for servers that do not exist.                  *)
NoVmForgotten ==
    "api" \notin Faults =>
        \A v \in VMs : cloud[v] \in Live => Listed(v) \/ v \in asked

(* check_cleanup closes the books on a VM (post_vm_destroy, post_remove    *)
(* scripts, firewall) only when the server is gone and Torque has          *)
(* forgotten the node, so no node is left behind in Torque.                *)
CleanedIsGone ==
    "api" \notin Faults =>
        \A v \in cleaned : cloud[v] = "gone" /\ v \notin inTorque

(* Nobody kills nodes or stops the daemon, the job data is well-formed, and*)
(* the calls that are outside every "try" (flavors.get in vm_check, local  *)
(* files) do not raise.                                                    *)
Undisturbed == Admin \subseteq {"sleep"} /\ Faults \cap {"jobdata", "raise"} = {}

(* Undisturbed, no list.remove raises: the two polling threads never pull  *)
(* a VM from under each other, whatever the answers of the calls that are  *)
(* caught.  That leaves no exception to end a thread.                      *)
PollersSurvive == Undisturbed => ~Died

(* Occurrences of a VM in a list, and in the three lists together.         *)
Occurrences(v, list) == Cardinality({i \in 1 .. Len(list) : list[i] = v})
TimesListed(v) == Occurrences(v, existing_instances) + Occurrences(v, starting_instances)
                  + Occurrences(v, deleting_instances)

(* Undisturbed, a VM has one owner: it is in at most one list and there    *)
(* once, although the two pollers move VMs between the lists in separate   *)
(* locked sections.                                                        *)
OneOwner == Undisturbed => \A v \in VMs : TimesListed(v) <= 1

(* The life of a VM as the lists show it.                                  *)
Phase(v) ==
    IF In(v, existing_instances) THEN "inUse"
    ELSE IF In(v, starting_instances) THEN "starting"
    ELSE IF In(v, deleting_instances) THEN "leaving"
    ELSE IF cloud[v] = "none" THEN "unborn" ELSE "out"

Life == INSTANCE VmLifecycle WITH
            phase     <- [v \in VMs |-> Phase(v)],
            alive     <- {v \in VMs : cloud[v] \in Live \cup {"deleting"}},
            condemned <- asked

(* The daemon implements VmLifecycle: the sections in which the pollers    *)
(* move a VM from list to list, read stale answers and raise are, seen     *)
(* from outside, the steps of an orderly life.  A kill request can put a   *)
(* VM that was let go back into deleting_instances, and forceoff moves     *)
(* whole lists, so this is so without them.                                *)
LifecycleRespected == Life!Spec

(* Servers that exist and that nobody has given up, and launches that are  *)
(* still to come.                                                          *)
Kept    == {v \in VMs : cloud[v] \in Live /\ v \notin asked}
Pending == Len(provision_waiting_list) - taken

(* number_of_dynamic_worker_nodes is never exceeded by the VMs in use and  *)
(* on order, although neither starting VMs nor waiting requests are        *)
(* subtracted in update_available_cores: provisioning keeps the job poller *)
(* from asking twice.  For worker nodes with one core and jobs that ask for*)
(* cores, where the scheduler asks for at most one node per core; without  *)
(* static nodes, which are not part of the limit; and without a failing    *)
(* servers.get, after which a server that still runs is given up.          *)
WithinLimit ==
    Np = 1 /\ StaticWanted = 0 /\ "api" \notin Faults
        => Cardinality(Kept) + Pending <= NumDynamic

(* While a VM is starting or a launch is waiting, a cloud poller that is   *)
(* about to begin a round finds provisioning set, so it will look at them: *)
(* the two pollers' writes to the flag never strand them.  This needs that *)
(* no static nodes are configured: check_cleanup replaces a static node and*)
(* sets the flag while the job poller is in the idle shutdown of another   *)
(* node, at whose end it clears it.                                        *)
StartingPolled ==
    StaticWanted = 0 /\ main = "run" /\ cp = "poll"
        /\ (starting_instances # <<>> \/ provision_waiting_list # <<>>)
    => provisioning

(* Undisturbed, static nodes are conserved: those in use or being deleted  *)
(* and those still missing add up to the number configured, through        *)
(* promotion, swapping with a busy dynamic node, loss and replacement.     *)
StaticsConserved ==
    Undisturbed =>
        num_of_vm + Cardinality({v \in VMs : ~vm[v].dynamic /\ Listed(v)}) = StaticWanted

(* Between two rounds of the cloud poller the persistent file names every  *)
(* worker node in use, so a daemon restarted after a crash finds them.     *)
(* Except when another thread took a node out of the list from behind the  *)
(* position of the loop that last wrote the file: it may have passed over  *)
(* one that stays in use.  On the way out the job poller writes the file   *)
(* too, over lists that forceoff has emptied.                              *)
NodesPersisted ==
    cp = "poll" /\ ~Quit /\ "cloud" \notin torn
        => \A v \in VMs : In(v, existing_instances) => v \in persistent_nodes

(* check_cleanup destroys no node that runs a job, although it acts on an  *)
(* answer of pbsnodes that may be outdated: the nodes it gets were held    *)
(* first (drained nodes of an old image).  This needs a hold that works,   *)
(* nodes that do not go down and come back, nodes that Torque forgets when *)
(* joining them fails, and no operator who kills nodes or forces them off. *)
CleanupSparesJobs ==
    Faults \cap {"hold", "down", "add"} = {} /\ Admin \cap {"kill", "forceoff"} = {} /\ main = "run"
        => lost = {}

-----------------------------------------------------------------------------
(* Fairness.  Threads that are not finished are scheduled again; a request *)
(* that has begun goes on (strongly: it gets a lock that is released again *)
(* and again); the cloud finishes what it is doing; jobs end.              *)
(* Nobody has to send a request or a signal, and no job has to start.      *)
KillStep == \E v \in VMs : KillHold(v) \/ KillMove(v)

Fairness ==
    /\ WF_vars(CloudPollerStep)
    /\ WF_vars(JobPollerStep)
    /\ SF_vars(KillStep /\ UNCHANGED <<cpVars, jpVars>>)
    /\ \A c \in Callers : SF_vars(ForceoffBy(c))
    /\ WF_vars(Died /\ MainStep)
    /\ WF_vars(MainExit(Joined) /\ UNCHANGED <<cpVars, jpVars>>)
    /\ \A v \in VMs : /\ WF_vars(Progress(v) /\ UNCHANGED <<centerVars, cpVars, jpVars, controlVars>>)
                      /\ WF_vars(JobEnd(v) /\ UNCHANGED <<centerVars, cpVars, jpVars, controlVars>>)

(* A deletion that can be tried again and again is tried again, and does   *)
(* not fail for ever.                                                      *)
RetryFairness ==
    /\ SF_vars(CloudPollerStep /\ DelRead /\ cp' = "delAct")
    /\ \A v \in VMs : SF_vars(CloudPollerStep /\ DelAct /\ cloud[v] # "deleting" /\ cloud'[v] = "deleting")

FairSpec      == Spec /\ Fairness
RetryFairSpec == FairSpec /\ RetryFairness

(* Every VM handed to check_cleanup leaves deleting_instances again, gone  *)
(* or back in use, even if the cloud refuses the deletion now and then.    *)
DeletingDrains ==
    \A v \in VMs : In(v, deleting_instances) ~> ~In(v, deleting_instances) \/ main # "run" \/ Died

(* Every VM that is started comes into use or is given up, if the cloud    *)
(* is only slow: a boot that takes too long does not block provisioning.   *)
StartingResolved ==
    \A v \in VMs : In(v, starting_instances) ~> ~In(v, starting_instances) \/ main # "run" \/ Died

(* The job poller is not kept out for ever: provisioning is cleared again, *)
(* unless launches wait and the cloud has no server left to give.          *)
ProvisioningCleared ==
    provisioning ~> \/ ~provisioning
                    \/ Unborn = {} /\ provision_waiting_list # <<>>
                    \/ main # "run" \/ Died

(* Once the main thread begins to shut down, the process exits: forceoff   *)
(* ends although the pollers change the lists under it, and the pollers    *)
(* reach the end of their round.                                           *)
ShutdownEnds == main = "forceoff" ~> main = "exited"
=============================================================================
