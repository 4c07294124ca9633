------------------------------ MODULE DocClaims ------------------------------
(***************************************************************************)
(* What the documentation, the comments and the messages of Dynamic Torque *)
(* say and the code does not do.  Each formula states the sentence quoted  *)
(* above it; TLC shows a behaviour of the code that contradicts it.        *)
(***************************************************************************)
EXTENDS MCDaemon

(* vm_check: "3, destroyed"; check_cleanup forgets a VM on that answer.    *)
CleanedIsDestroyed == \A v \in cleaned : cloud[v] \notin Live

(* dynamic_torque.conf, max_inaccessible_time: a VM that is "still not in  *)
(* a useful state" is destroyed, so it does not stay in starting_instances.*)
StartingNeverStuck == \A v \in VMs : In(v, starting_instances) ~> ~In(v, starting_instances)

(* dynamictorque.py, when a service thread ends by itself: "Wasn't         *)
(* expecting to exit.  Did a thread crash?"                                *)
KillCrashesNoThread == ~Died
=============================================================================
