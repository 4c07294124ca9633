------------------------------- MODULE StartUp -------------------------------
(***************************************************************************)
(* The start of the daemon: ResourceCenter._load_existing_worker_nodes     *)
(* matches the servers the cloud lists with the nodes Torque knows and     *)
(* with the persistent file.  It runs in the constructor, before any other *)
(* thread exists, but jobs and servers do not wait for it; the queries, and*)
(* every call that takes a node away, are steps of their own.  An exception*)
(* (su = "failed") ends the process.                                       *)
(***************************************************************************)
EXTENDS ResourceCenter

VARIABLES
    su,         \* where _load_existing_worker_nodes is
    to_delete,  \* servers it is going to destroy
    orphans,    \* nodes without a server it is going to remove from Torque
    pool        \* existing_instances_of_resource

suVars   == <<su, to_delete, orphans, pool>>
SuStates == {"list", "query", "orphans", "trim", "done", "failed"}

SuTypeOK ==
    /\ su \in SuStates
    /\ to_delete \in Seq(VMs)
    /\ orphans \subseteq VMs
    /\ pool \in Seq(VMs)

suKeep == <<sleep_mode, num_of_vm, fileVars, write_lock, main, cleaned, lost>>

-----------------------------------------------------------------------------

(* load_all_existing_worker_nodes: an active server has an address and a   *)
(* zone, one that is being built or deleted has none; no list if the call  *)
(* fails.                                                                  *)
ListServers ==
    /\ su = "list"
    /\ \E ok \in Outcomes("api") :
         LET found == {v \in VMs : ok /\ cloud[v] \in Live \cup {"deleting"}} IN
         /\ existing_instances' \in SetToSeqs(found)
         /\ vm' = [v \in VMs |-> IF v \in found /\ cloud[v] \in {"init", "ready"}
                                 THEN LoadedVM ELSE NewVM]
    /\ su' = "query"
    /\ UNCHANGED <<clusterVars, starting_instances, deleting_instances, provision_waiting_list,
                   provisioning, worker_nodes, available_number_of_nodes, suKeep, asked,
                   to_delete, orphans, pool>>

(* pbsnodes -x says "offline" or "down" of a node.                         *)
Halted(v) == v \in offline \/ cloud[v] # "ready"

(* What becomes of server v, when Torque answers with the given nodes: one *)
(* that the file names is joined again if Torque does not know it, ...     *)
Rejoins(v, nodes) == vm[v].zone /\ v \notin nodes /\ v \in persistent_nodes

(* ... and these are destroyed.                                            *)
Rejected(v, nodes) ==
    \/ ~vm[v].zone
    \/ v \notin nodes /\ v \notin persistent_nodes
    \/ v \in nodes /\ (Halted(v) \/ (jobs[v] = 0 /\ v \in OldImage))

(* The servers of a set that are in the list, as a list; the order of the  *)
(* cloud's answer means nothing.                                           *)
InList(S) == SetToSeqs({v \in S : In(v, existing_instances)})

(* Mutated form: a node that the file names is not put in the other list.  *)
QueryForgetsRejoined ==
    /\ su = "query"
    /\ \E up \in Outcomes("query") :
         LET nodes == IF up THEN inTorque ELSE {} IN
         /\ worker_nodes' = Snapshot(nodes)
         /\ to_delete' \in InList({v \in VMs : Rejected(v, nodes)})
         /\ existing_instances' \in InList({v \in VMs : ~Rejoins(v, nodes)})
         /\ orphans' = {v \in nodes : Halted(v) /\ ~In(v, existing_instances)}
    /\ su' = "orphans"
    /\ UNCHANGED <<clusterVars, vm, starting_instances, deleting_instances,
                   provision_waiting_list, provisioning, available_number_of_nodes, suKeep,
                   asked, pool>>

(* wn_query, the verdict on every server, the nodes without a server, and  *)
(* the move of the nodes to be joined again: nothing but wn_query is a     *)
(* call.                                                                   *)
QueryNodes ==
    /\ su = "query"
    /\ \E up \in Outcomes("query") :
         LET nodes == IF up THEN inTorque ELSE {} IN
         /\ worker_nodes' = Snapshot(nodes)
         /\ to_delete' \in InList({v \in VMs : Rejected(v, nodes)})
         /\ starting_instances' \in InList({v \in VMs : Rejoins(v, nodes)})
         /\ existing_instances' \in InList({v \in VMs : ~Rejoins(v, nodes)})
         /\ orphans' = {v \in nodes : Halted(v) /\ ~In(v, existing_instances)}
    /\ su' = "orphans"
    /\ UNCHANGED <<clusterVars, vm, deleting_instances, provision_waiting_list, provisioning,
                   available_number_of_nodes, suKeep, asked, pool>>

RemoveOrphan(v) ==
    /\ su = "orphans" /\ v \in orphans
    /\ \E removed \in Outcomes("remove") : TakeAway(v, removed, FALSE)
    /\ worker_nodes' = [worker_nodes EXCEPT ![v] = "absent"]
    /\ orphans' = orphans \ {v}
    /\ UNCHANGED <<vm, listVars, provision_waiting_list, provisioning, available_number_of_nodes,
                   suKeep, asked, su, to_delete, pool>>

(* vm_destroy and the move to deleting_instances.                          *)
Destroy(v) ==
    /\ \E ok \in Outcomes("destroy") :
         /\ TakeAway(v, FALSE, ok)
         /\ vm' = [vm EXCEPT ![v].delete_time = @ \/ ok]
    /\ asked' = asked \cup {v}
    /\ existing_instances' = RemoveFirst(existing_instances, v)
    /\ deleting_instances' = Append(deleting_instances, v)

Dismiss ==
    /\ su = "orphans" /\ orphans = {} /\ to_delete # <<>>
    /\ Destroy(Head(to_delete))
    /\ to_delete' = Tail(to_delete)
    /\ UNCHANGED <<starting_instances, provision_waiting_list, provisioning, worker_nodes,
                   available_number_of_nodes, suKeep, su, orphans, pool>>

(* With static nodes wanted and a node to look at, the test reads the      *)
(* attribute worker_node_flavor, which a CloudResource does not have.      *)
Statics ==
    /\ su = "orphans" /\ orphans = {} /\ to_delete = <<>>
    /\ su' = IF NeedVm /\ existing_instances # <<>> THEN "failed" ELSE "trim"
    /\ pool' = existing_instances
    /\ UNCHANGED <<clusterVars, vm, listVars, provision_waiting_list, provisioning, worker_nodes,
                   available_number_of_nodes, suKeep, asked, to_delete, orphans>>

Overused == DynamicIn(existing_instances) > NumDynamic

(* Mutated form: the jobs are not looked at.                               *)
TrimsAny(v) == vm[v].dynamic

(* The loop passes over static nodes and nodes that were running jobs.     *)
Trims(v) == vm[v].dynamic /\ worker_nodes[v] # "busy"

PassOver ==
    /\ su = "trim" /\ Overused /\ pool # <<>>
    /\ ~Trims(Last(pool))
    /\ pool' = Front(pool)
    /\ UNCHANGED <<clusterVars, centerVars, su, to_delete, orphans>>

Trim ==
    /\ su = "trim" /\ Overused /\ pool # <<>>
    /\ Trims(Last(pool))
    /\ Destroy(Last(pool))
    /\ pool' = Front(pool)
    /\ UNCHANGED <<starting_instances, provision_waiting_list, provisioning, worker_nodes,
                   available_number_of_nodes, suKeep, su, to_delete, orphans>>

(* pop from an empty list.                                                 *)
PopFails ==
    /\ su = "trim" /\ Overused /\ pool = <<>>
    /\ su' = "failed"
    /\ UNCHANGED <<clusterVars, centerVars, to_delete, orphans, pool>>

(* What is left but launch_instances, where the cloud poller's module      *)
(* takes over.                                                             *)
Finish ==
    /\ su = "trim" /\ ~Overused
    /\ available_number_of_nodes' = NumDynamic - DynamicIn(existing_instances)
    /\ provision_waiting_list' = Copies(num_of_vm, "static")
    /\ provisioning' = (starting_instances # <<>>)
    /\ su' = "done"
    /\ pool' = <<>>
    /\ UNCHANGED <<clusterVars, vm, listVars, worker_nodes, suKeep, asked, to_delete, orphans>>

StartUpStep ==
    \/ ListServers \/ QueryNodes \/ (\E v \in VMs : RemoveOrphan(v)) \/ Dismiss \/ Statics
    \/ PassOver \/ Trim \/ PopFails \/ Finish
=============================================================================
