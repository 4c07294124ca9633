------------------------------ MODULE MCDaemon ------------------------------
(***************************************************************************)
(* Model-checking support for Daemon: VM ids are interchangeable, as far   *)
(* as they are all fresh, or all loaded from the same image.               *)
(***************************************************************************)
EXTENDS Daemon

VMSymmetry ==
    {p \in Permutations(VMs) :
        \A v \in VMs : (v \in Loaded <=> p[v] \in Loaded) /\ (v \in OldImage <=> p[v] \in OldImage)}
=============================================================================
