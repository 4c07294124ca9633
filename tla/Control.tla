------------------------------- MODULE Control -------------------------------
(***************************************************************************)
(* What people ask of the daemon: the requests of admin.py, served one at  *)
(* a time by the InfoServer thread (kill, forceoff, toggle_sleep_mode),    *)
(* and the main thread, which waits for a dead service thread or SIGTERM,  *)
(* runs forceoff, stops the threads and exits.                             *)
(***************************************************************************)
EXTENDS ResourceCenter

VARIABLES
    killing,    \* kill_vm in progress: the VM and the next step
    fo,         \* forceoff in progress, by the info server and by the main thread
    foNext,     \* position of forceoff in the list it runs over
    foOld       \* that list, if self.existing_instances or starting_instances is another by now

foVars      == <<fo, foNext, foOld>>
controlVars == <<killing, foVars>>

Callers   == {"info", "main"}
FoStates  == {"idle", "existing", "moveExisting", "starting", "moveStarting"}
KillSteps == {"hold", "move"}

ControlTypeOK ==
    /\ killing \subseteq VMs \X KillSteps
    /\ fo \in [Callers -> FoStates]
    /\ foNext \in [Callers -> Nat]
    /\ foOld \in [Callers -> Seq(Seq(VMs))]

ControlInit ==
    /\ killing = {}
    /\ fo = [c \in Callers |-> "idle"]
    /\ foNext = [c \in Callers |-> 0]
    /\ foOld = [c \in Callers |-> <<>>]

InfoIdle == Booted /\ main # "exited" /\ killing = {} /\ fo["info"] = "idle"

-----------------------------------------------------------------------------
(* InfoServer                                                              *)

ToggleSleepMode ==
    /\ "sleep" \in Admin /\ InfoIdle
    /\ sleep_mode' = ~sleep_mode
    /\ UNCHANGED <<clusterVars, vm, listVars, provision_waiting_list, provisioning, worker_nodes,
                   available_number_of_nodes, num_of_vm, fileVars, write_lock, main,
                   historyVars, controlVars>>

(* kill_vm(v): a worker node that the last node list shows without jobs.   *)
KillBegin(v) ==
    /\ "kill" \in Admin /\ InfoIdle
    /\ Len(existing_instances) + Len(deleting_instances) <= ListBound
    /\ In(v, existing_instances)
    /\ worker_nodes[v] \notin {"absent", "busy"}
    /\ killing' = {<<v, "hold">>}
    /\ UNCHANGED <<clusterVars, centerVars, foVars>>

KillHold(v) ==
    /\ <<v, "hold">> \in killing
    /\ vm' = [vm EXCEPT ![v].force_off = FALSE]
    /\ \E ok \in Outcomes("hold") : Hold(v, ok)
    /\ killing' = {<<v, "move">>}
    /\ UNCHANGED <<listVars, provision_waiting_list, flagVars, historyVars, foVars>>

(* The VM is appended to one list and then removed from the other; an      *)
(* exception of the removal is the answer of the request.                  *)
KillMove(v) ==
    /\ <<v, "move">> \in killing /\ ~write_lock
    /\ deleting_instances' = Append(deleting_instances, v)
    /\ IF In(v, existing_instances)
       THEN TakeOut(v) ELSE UNCHANGED <<existing_instances, fileVars>>
    /\ killing' = {}
    /\ UNCHANGED <<clusterVars, vm, starting_instances, provision_waiting_list, flagsButFile,
                   historyVars, foVars>>

-----------------------------------------------------------------------------
(* forceoff                                                                *)

ForceoffRequest ==
    /\ "forceoff" \in Admin /\ InfoIdle
    /\ fo' = [fo EXCEPT !["info"] = "existing"]
    /\ foNext' = [foNext EXCEPT !["info"] = 1]
    /\ UNCHANGED <<clusterVars, centerVars, killing, foOld>>

(* The list caller c runs over.  forceoff replaces the ResourceCenter's    *)
(* list by a new one when it is done with it; another caller that is still *)
(* in its loop goes on over the old one.                                   *)
RunsOver(c, list) == IF foOld[c] = <<>> THEN list ELSE Head(foOld[c])

KeepsOld(loop, list) ==
    [c \in Callers |-> IF fo[c] = loop /\ foOld[c] = <<>> THEN <<list>> ELSE foOld[c]]

(* The loop over a list is at its end; the lock is taken later.            *)
ForceoffLoopEnd(c) ==
    /\ \/ fo[c] = "existing" /\ foNext[c] > Len(RunsOver(c, existing_instances))
          /\ fo' = [fo EXCEPT ![c] = "moveExisting"]
       \/ fo[c] = "starting" /\ foNext[c] > Len(RunsOver(c, starting_instances))
          /\ fo' = [fo EXCEPT ![c] = "moveStarting"]
    /\ foNext' = [foNext EXCEPT ![c] = 0]
    /\ foOld' = [foOld EXCEPT ![c] = <<>>]
    /\ UNCHANGED <<clusterVars, centerVars, killing>>

(* Every worker node is taken out of Torque and destroyed.                 *)
ForceoffExisting(c) ==
    /\ fo[c] = "existing" /\ foNext[c] <= Len(RunsOver(c, existing_instances))
    /\ LET v == RunsOver(c, existing_instances)[foNext[c]] IN
       \E removed \in Outcomes("remove"), ok \in Outcomes("destroy") :
         /\ TakeAway(v, removed, ok)
         /\ vm' = [vm EXCEPT ![v].force_off = TRUE, ![v].delete_time = @ \/ ok]
         /\ asked' = asked \cup {v}
    /\ foNext' = [foNext EXCEPT ![c] = @ + 1]
    /\ UNCHANGED <<listVars, provision_waiting_list, flagVars, cleaned, lost, killing, fo,
                   foOld>>

ForceoffMoveExisting(c) ==
    /\ fo[c] = "moveExisting" /\ ~write_lock
    /\ deleting_instances' = deleting_instances \o existing_instances
    /\ NewExisting
    /\ foOld' = KeepsOld("existing", existing_instances)
    /\ fo' = [fo EXCEPT ![c] = "starting"]
    /\ foNext' = [foNext EXCEPT ![c] = 1]
    /\ UNCHANGED <<clusterVars, vm, starting_instances, provision_waiting_list, flagsButFile,
                   historyVars, killing>>

(* Every VM that is starting is destroyed.                                 *)
ForceoffStarting(c) ==
    /\ fo[c] = "starting" /\ foNext[c] <= Len(RunsOver(c, starting_instances))
    /\ LET v == RunsOver(c, starting_instances)[foNext[c]] IN
       \E ok \in Outcomes("destroy") :
         /\ TakeAway(v, FALSE, ok)
         /\ vm' = [vm EXCEPT ![v].delete_time = @ \/ ok]
         /\ asked' = asked \cup {v}
    /\ foNext' = [foNext EXCEPT ![c] = @ + 1]
    /\ UNCHANGED <<listVars, provision_waiting_list, flagVars, cleaned, lost, killing, fo,
                   foOld>>

(* Mutated form: the list is emptied and not handed to check_cleanup.      *)
ForceoffDropStarting(c) ==
    /\ fo[c] = "moveStarting" /\ ~write_lock
    /\ starting_instances' = <<>>
    /\ foOld' = KeepsOld("starting", starting_instances)
    /\ fo' = [fo EXCEPT ![c] = "idle"]
    /\ main' = IF c = "main" THEN "join" ELSE main
    /\ UNCHANGED <<clusterVars, vm, existing_instances, deleting_instances,
                   provision_waiting_list, provisioning, sleep_mode, worker_nodes,
                   available_number_of_nodes, num_of_vm, fileVars, write_lock,
                   historyVars, killing, foNext>>

ForceoffMoveStarting(c) ==
    /\ fo[c] = "moveStarting" /\ ~write_lock
    /\ deleting_instances' = deleting_instances \o starting_instances
    /\ starting_instances' = <<>>
    /\ foOld' = KeepsOld("starting", starting_instances)
    /\ fo' = [fo EXCEPT ![c] = "idle"]
    /\ main' = IF c = "main" THEN "join" ELSE main
    /\ UNCHANGED <<clusterVars, vm, existing_instances, provision_waiting_list, provisioning,
                   sleep_mode, worker_nodes, available_number_of_nodes, num_of_vm,
                   fileVars, write_lock, historyVars, killing, foNext>>

-----------------------------------------------------------------------------
(* The main thread                                                         *)

(* A service thread has died, or SIGTERM arrived.                          *)
MainQuit(died) ==
    /\ main = "run"
    /\ died \/ "term" \in Admin
    /\ main' = "forceoff"
    /\ fo' = [fo EXCEPT !["main"] = "existing"]
    /\ foNext' = [foNext EXCEPT !["main"] = 1]
    /\ UNCHANGED <<clusterVars, vm, listVars, provision_waiting_list, provisioning, sleep_mode,
                   worker_nodes, available_number_of_nodes, num_of_vm, fileVars,
                   write_lock, historyVars, killing, foOld>>

(* The service threads have been joined, then the info server.             *)
MainExit(joined) ==
    /\ main = "join" /\ joined
    /\ killing = {} /\ fo["info"] = "idle"
    /\ main' = "exited"
    /\ UNCHANGED <<clusterVars, vm, listVars, provision_waiting_list, provisioning, sleep_mode,
                   worker_nodes, available_number_of_nodes, num_of_vm, fileVars,
                   write_lock, historyVars, controlVars>>

InfoStep ==
    \/ ToggleSleepMode
    \/ ForceoffRequest
    \/ \E v \in VMs : KillBegin(v) \/ KillHold(v) \/ KillMove(v)

ForceoffStep(c) ==
    \/ ForceoffLoopEnd(c)
    \/ ForceoffExisting(c) \/ ForceoffMoveExisting(c)
    \/ ForceoffStarting(c) \/ ForceoffMoveStarting(c)
=============================================================================
