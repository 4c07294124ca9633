--------------------------- MODULE VmLifecycleProofs ---------------------------
(***************************************************************************)
(* What every implementation of VmLifecycle inherits: a machine whose      *)
(* server exists is on the books or condemned.                             *)
(***************************************************************************)
EXTENDS VmLifecycle, TLAPS

LifecycleInv == TypeOK /\ Accounted

LEMMA InitAccounted == Init => LifecycleInv
BY DEF Init, LifecycleInv, TypeOK, Accounted, Phases

LEMMA NextAccounted == LifecycleInv /\ [Next]_vars => LifecycleInv'
<1> SUFFICES ASSUME LifecycleInv, [Next]_vars PROVE LifecycleInv'
  OBVIOUS
<1> USE DEF LifecycleInv, TypeOK, Accounted, Phases
<1>1. ASSUME NEW v \in VMs, NEW from, NEW to \in Phases, Move(v, from, to)
      PROVE  /\ phase' \in [VMs -> Phases] /\ phase'[v] = to
             /\ \A u \in VMs : u # v => phase'[u] = phase[u]
  BY <1>1 DEF Move
<1>2. ASSUME NEW v \in VMs, Order(v) PROVE LifecycleInv'
  <2>1. Move(v, "unborn", "starting") /\ alive' = alive \cup {v} /\ UNCHANGED condemned
    BY <1>2 DEF Order
  <2> QED  BY <1>1, <2>1
<1>3. ASSUME NEW v \in VMs, Join(v) \/ Leave(v) \/ Return(v) \/ GiveUp(v) PROVE LifecycleInv'
  <2>1. PICK from, to \in {"starting", "inUse", "leaving"} :
          Move(v, from, to) /\ UNCHANGED <<alive, condemned>>
    BY <1>3 DEF Join, Leave, Return, GiveUp
  <2> QED  BY <1>1, <2>1
<1>4. ASSUME NEW v \in VMs, Drop(v) PROVE LifecycleInv'
  <2>1. v \in condemned /\ Move(v, "inUse", "out") /\ UNCHANGED <<alive, condemned>>
    BY <1>4 DEF Drop
  <2> QED  BY <1>1, <2>1
<1>5. ASSUME NEW v \in VMs, Close(v) PROVE LifecycleInv'
  <2>1. v \notin alive /\ Move(v, "leaving", "out") /\ UNCHANGED <<alive, condemned>>
    BY <1>5 DEF Close
  <2> QED  BY <1>1, <2>1
<1>6. ASSUME NEW v \in VMs, Condemn(v) \/ ServerEnds(v) PROVE LifecycleInv'
  BY <1>6 DEF Condemn, ServerEnds
<1>7. CASE UNCHANGED vars
  BY <1>7 DEF vars
<1> QED
  BY <1>2, <1>3, <1>4, <1>5, <1>6, <1>7 DEF Next

(* No machine is let go of while its server runs, unless somebody has      *)
(* asked for its destruction: what the lists of the daemon are for, in     *)
(* any implementation of the life cycle.                                   *)
THEOREM AlwaysAccounted == Spec => []Accounted
<1>1. LifecycleInv => Accounted
  BY DEF LifecycleInv
<1> QED  BY <1>1, InitAccounted, NextAccounted, PTL DEF Spec
=============================================================================
