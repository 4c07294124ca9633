---------------------------- MODULE VmLifecycle -----------------------------
(***************************************************************************)
(* What Dynamic Torque promises about the life of a virtual machine, with  *)
(* no threads, lists, locks or calls: a machine is ordered, comes into     *)
(* use, leaves, perhaps comes back, and is let go.  It is never let go of  *)
(* while its server exists unless somebody has asked for its destruction,  *)
(* and it is not given up before it was in use without that either.        *)
(* Daemon implements this module (Daemon!Life) as long as nobody sends     *)
(* kill or forceoff requests.                                              *)
(***************************************************************************)
CONSTANT VMs

VARIABLES
    phase,      \* where a machine is in its life
    alive,      \* machines whose server exists
    condemned   \* machines somebody asked the cloud to destroy

vars == <<phase, alive, condemned>>

Phases == {"unborn", "starting", "inUse", "leaving", "out"}

TypeOK ==
    /\ phase \in [VMs -> Phases]
    /\ alive \subseteq VMs
    /\ condemned \subseteq VMs

(* Machines in use may be there from the start.                            *)
Init ==
    /\ phase \in [VMs -> {"unborn", "inUse"}]
    /\ alive = {v \in VMs : phase[v] = "inUse"}
    /\ condemned = {}

Move(v, from, to) == phase[v] = from /\ phase' = [phase EXCEPT ![v] = to]

Order(v) ==
    /\ Move(v, "unborn", "starting")
    /\ alive' = alive \cup {v}
    /\ UNCHANGED condemned

Join(v) == Move(v, "starting", "inUse") /\ UNCHANGED <<alive, condemned>>

Condemn(v) ==
    /\ phase[v] \in {"starting", "inUse", "leaving"}
    /\ condemned' = condemned \cup {v}
    /\ UNCHANGED <<phase, alive>>

GiveUp(v) ==
    /\ v \in condemned
    /\ Move(v, "starting", "leaving")
    /\ UNCHANGED <<alive, condemned>>

Leave(v)  == Move(v, "inUse", "leaving") /\ UNCHANGED <<alive, condemned>>
Return(v) == Move(v, "leaving", "inUse") /\ UNCHANGED <<alive, condemned>>

Drop(v) ==
    /\ v \in condemned
    /\ Move(v, "inUse", "out")
    /\ UNCHANGED <<alive, condemned>>

Close(v) ==
    /\ v \notin alive
    /\ Move(v, "leaving", "out")
    /\ UNCHANGED <<alive, condemned>>

ServerEnds(v) == alive' = alive \ {v} /\ UNCHANGED <<phase, condemned>>

Next ==
    \E v \in VMs :
        \/ Order(v) \/ Join(v) \/ Condemn(v) \/ GiveUp(v) \/ Leave(v) \/ Return(v)
        \/ Drop(v) \/ Close(v) \/ ServerEnds(v)

Spec == Init /\ [][Next]_vars

(* A machine whose server exists is on the books or condemned.             *)
Accounted ==
    \A v \in alive : phase[v] \in {"starting", "inUse", "leaving"} \/ v \in condemned
=============================================================================
