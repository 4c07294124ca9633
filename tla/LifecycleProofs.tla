---------------------------- MODULE LifecycleProofs ----------------------------
(***************************************************************************)
(* Daemon implements VmLifecycle for every set of VMs and under every      *)
(* fault but "api", as long as nobody kills nodes or stops the daemon.     *)
(* The proof combines two inductive invariants: OwnerInv, by which a VM    *)
(* has one phase, and SafetyInv, by which a VM that leaves the lists is    *)
(* condemned or gone.  One fact is added: a VM the cloud poller gives up   *)
(* has been destroyed before it is moved.                                  *)
(***************************************************************************)
EXTENDS SafetyProofs, OwnerProofs

GivenUpAsked == cp = "reapMove" => Head(doomed) \in asked

LifeInv == SafetyInv /\ OwnerInv /\ GivenUpAsked

-----------------------------------------------------------------------------
(* Phases.                                                                 *)

(* The VMs whose server exists.                                            *)
Alive(v) == cloud[v] \in Live \cup {"deleting"}

(* A step that leaves the lists as they are moves no VM.                   *)
LEMMA PhasesStay ==
    ASSUME UNCHANGED <<existing_instances, starting_instances, deleting_instances>>,
           \A v \in VMs : cloud'[v] = "none" <=> cloud[v] = "none"
    PROVE  \A v \in VMs : Phase(v)' = Phase(v)
BY DEF Phase

(* One VM changes its phase.                                               *)
LEMMA OneMoves ==
    ASSUME NEW v \in VMs, NEW from, NEW to, Phase(v) = from, Phase(v)' = to,
           \A u \in VMs : u # v => Phase(u)' = Phase(u)
    PROVE  Life!Move(v, from, to)
BY DEF Life!Move

(* No server comes or goes.                                                *)
LEMMA AliveStay ==
    ASSUME \A v \in VMs : Alive(v)' <=> Alive(v)
    PROVE  {v \in VMs : cloud[v] \in Live \cup {"deleting"}}' = {v \in VMs : cloud[v] \in Live \cup {"deleting"}}
BY DEF Alive

(* Steps nobody sees from outside.                                         *)
LEMMA Stutters ==
    ASSUME UNCHANGED <<existing_instances, starting_instances, deleting_instances, asked>>,
           \A v \in VMs : cloud'[v] = "none" <=> cloud[v] = "none",
           \A v \in VMs : Alive(v)' <=> Alive(v)
    PROVE  UNCHANGED Life!vars
<1>1. \A v \in VMs : Phase(v)' = Phase(v)
  BY PhasesStay
<1> QED  BY <1>1, AliveStay DEF Life!vars

(* The cloud is asked to destroy a VM that is on the books.                *)
LEMMA Condemns ==
    ASSUME NEW v \in VMs, Listed(v),
           UNCHANGED <<existing_instances, starting_instances, deleting_instances>>,
           asked' = asked \cup {v},
           \A u \in VMs : cloud'[u] = "none" <=> cloud[u] = "none",
           \A u \in VMs : Alive(u)' <=> Alive(u)
    PROVE  Life!Next
<1>1. \A u \in VMs : Phase(u)' = Phase(u)
  BY PhasesStay
<1>2. Phase(v) \in {"starting", "inUse", "leaving"}
  BY DEF Phase, Listed
<1>3. Life!Condemn(v)
  BY <1>1, <1>2, AliveStay DEF Life!Condemn
<1> QED  BY <1>3 DEF Life!Next

(* Destroying a VM lets its server go later.                               *)
LEMMA TakenIsAlive ==
    ASSUME ClusterTypeOK, NEW v \in VMs, NEW removed, NEW destroyed, TakeAway(v, removed, destroyed)
    PROVE  /\ \A u \in VMs : cloud'[u] = "none" <=> cloud[u] = "none"
           /\ \A u \in VMs : Alive(u)' <=> Alive(u)
BY DEF TakeAway, ClusterTypeOK, Alive, Live

-----------------------------------------------------------------------------
(* Steps.                                                                  *)

(* The steps of the cloud poller.                                          *)
LEMMA CloudPollerRefines ==
    ASSUME LifeInv, Attended, "api" \notin Faults, CpStep
    PROVE  Life!Next \/ UNCHANGED Life!vars
<1> USE DEF TypeInv, TypeOK, RCTypeOK, CpTypeOK, Positioned, CpPositioned
<1>1. /\ TypeInv /\ ListsOwned /\ StartingHeld /\ DeletingHeld /\ GivenUpAsked
      /\ Born /\ Graves
  BY DEF LifeInv, OwnerInv, Owned, SafetyInv
<1> DEFINE SameLists == UNCHANGED <<existing_instances, starting_instances, deleting_instances>>
<1>2. CASE \/ CpPoll \/ CpStop \/ CheckBuilding \/ JoinOk \/ JoinFail \/ CheckJoined \/ ScanEnd
           \/ ReapEnd \/ Wrap \/ ProvOff \/ CpDumpNext \/ CpDumpEnd \/ LaunchBegin \/ LaunchEnd
           \/ CleanupBegin \/ DelRead \/ DelEnd \/ ReleaseNode \/ CleanupEnd \/ WrapDel
           \/ Relaunch \/ CpRaise
  <2>1. UNCHANGED <<cloud, existing_instances, starting_instances, deleting_instances, asked>>
    BY <1>2 DEF CpPoll, CpStop, CheckBuilding, JoinOk, JoinFail, CheckJoined, ScanEnd, ReapEnd, Wrap,
         ProvOff, CpDumpNext, CpDumpEnd, fileKeep, LaunchBegin, LaunchEnd, CleanupBegin, DelRead,
         DelEnd, ReleaseNode, CleanupEnd, WrapDel, Relaunch, CpRaise, AddNode, Release, clusterVars, centerVars, listVars, historyVars
  <2> QED  BY <2>1, Stutters DEF Alive
<1>3. CASE Settle
  <2>0. PICK v \in VMs : v = Head(ready) /\ In(v, ready)
    BY <1>1, <1>3, TailIn DEF Settle
  <2>1. /\ In(v, starting_instances) /\ ~In(v, existing_instances)
    BY <1>1, <1>3, <2>0 DEF Settle, StartingHeld, ListsOwned, Apart
  <2>2. /\ starting_instances' = RemoveFirst(starting_instances, v)
        /\ existing_instances' = Append(existing_instances, v)
        /\ UNCHANGED <<cloud, deleting_instances, asked>>
    BY <1>3, <2>0, <2>1 DEF Settle, clusterVars, historyVars
  <2>3. /\ \A x : In(x, starting_instances') <=> In(x, starting_instances) /\ x # v
        /\ \A x : In(x, existing_instances') <=> In(x, existing_instances) \/ x = v
    BY <1>1, <2>1, <2>2, MoveDistinct DEF ListsOwned
  <2>4. /\ Phase(v) = "starting" /\ Phase(v)' = "inUse"
        /\ \A u \in VMs : u # v => Phase(u)' = Phase(u)
    BY <2>1, <2>2, <2>3 DEF Phase
  <2>5. Life!Join(v)
    BY <2>1, <2>2, <2>4, OneMoves, AliveStay DEF Life!Join, Alive
  <2> QED  BY <2>1, <2>5 DEF Life!Next
<1>4. CASE Reap
  <2>1. /\ Head(doomed) \in VMs /\ Listed(Head(doomed)) /\ SameLists
        /\ asked' = asked \cup {Head(doomed)}
    BY <1>1, <1>4, TailIn DEF Reap, StartingHeld, Listed, listVars
  <2>2. /\ \A u \in VMs : cloud'[u] = "none" <=> cloud[u] = "none"
        /\ \A u \in VMs : Alive(u)' <=> Alive(u)
    BY <1>1, <1>4, <2>1, TakenIsAlive DEF Reap
  <2> QED  BY <2>1, <2>2, Condemns
<1>5. CASE ReapMove
  <2>0. PICK v \in VMs : v = Head(doomed) /\ In(v, doomed)
    BY <1>1, <1>5, TailIn DEF ReapMove
  <2>1. /\ In(v, starting_instances) /\ ~In(v, deleting_instances)
        /\ ~In(v, existing_instances) /\ v \in asked
    BY <1>1, <1>5, <2>0 DEF ReapMove, StartingHeld, ListsOwned, Apart, GivenUpAsked
  <2>2. /\ starting_instances' = RemoveFirst(starting_instances, v)
        /\ deleting_instances' = Append(deleting_instances, v)
        /\ UNCHANGED <<cloud, existing_instances, asked>>
    BY <1>5, <2>0, <2>1 DEF ReapMove, clusterVars, historyVars
  <2>3. /\ \A x : In(x, starting_instances') <=> In(x, starting_instances) /\ x # v
        /\ \A x : In(x, deleting_instances') <=> In(x, deleting_instances) \/ x = v
    BY <1>1, <2>1, <2>2, MoveDistinct DEF ListsOwned
  <2>4. /\ Phase(v) = "starting" /\ Phase(v)' = "leaving"
        /\ \A u \in VMs : u # v => Phase(u)' = Phase(u)
    BY <2>1, <2>2, <2>3 DEF Phase
  <2>5. Life!GiveUp(v)
    BY <2>1, <2>2, <2>4, OneMoves, AliveStay DEF Life!GiveUp, Alive
  <2> QED  BY <2>1, <2>5 DEF Life!Next
<1>6. ASSUME NEW v \in VMs, Launch(v) PROVE Life!Next
  <2>1. /\ cloud' = [cloud EXCEPT ![v] = "build"] /\ cloud[v] = "none"
        /\ starting_instances' = Append(starting_instances, v)
        /\ UNCHANGED <<existing_instances, deleting_instances, asked>>
    BY <1>6 DEF Launch, Create, Unborn, historyVars
  <2>2. ~Listed(v)
    BY <1>1, <2>1 DEF ListsOwned
  <2>3. \A x : In(x, starting_instances') <=> In(x, starting_instances) \/ x = v
    BY <1>1, <2>1, AppendIn
  <2>4. cloud'[v] = "build" /\ \A u \in VMs : u # v => cloud'[u] = cloud[u]
    BY <1>1, <2>1 DEF ClusterTypeOK
  <2>5. /\ Phase(v) = "unborn" /\ Phase(v)' = "starting"
        /\ \A u \in VMs : u # v => Phase(u)' = Phase(u)
    BY <2>1, <2>2, <2>3, <2>4 DEF Phase, Listed
  <2>6. {u \in VMs : cloud[u] \in Live \cup {"deleting"}}'
          = {u \in VMs : cloud[u] \in Live \cup {"deleting"}} \cup {v}
    BY <2>1, <2>4 DEF Live
  <2>7. Life!Order(v)
    BY <2>1, <2>5, <2>6, OneMoves DEF Life!Order
  <2> QED  BY <2>7 DEF Life!Next
<1>7. CASE DelAct
  <2>1. PICK v \in VMs : v = deleting_instances[cursor]
    BY <1>1, <1>7 DEF DelAct
  <2>2. SameLists /\ Listed(v) /\ asked' \in {asked, asked \cup {v}}
    BY <1>1, <1>7, <2>1 DEF DelAct, listVars, Listed, In
  <2>3. /\ \A u \in VMs : cloud'[u] = "none" <=> cloud[u] = "none"
        /\ \A u \in VMs : Alive(u)' <=> Alive(u)
    BY <1>1, <1>7, <2>1, TakenIsAlive DEF DelAct
  <2>4. CASE asked' = asked
    BY <2>2, <2>3, <2>4, Stutters
  <2>5. CASE asked' = asked \cup {v}
    BY <2>2, <2>3, <2>5, Condemns
  <2> QED  BY <2>2, <2>4, <2>5
<1>8. CASE Bury
  <2>0. PICK v \in VMs : v = Head(gone) /\ In(v, gone)
    BY <1>1, <1>8, TailIn DEF Bury
  <2>1. /\ In(v, deleting_instances)
        /\ ~In(v, existing_instances) /\ ~In(v, starting_instances)
    BY <1>1, <1>8, <2>0 DEF Bury, DeletingHeld, ListsOwned, Apart
  <2>2. cloud[v] = "gone"
    BY <1>1, <2>0 DEF Graves, Buried
  <2>3. /\ deleting_instances' = RemoveFirst(deleting_instances, v)
        /\ UNCHANGED <<cloud, existing_instances, starting_instances, asked>>
    BY <1>8, <2>0, <2>1 DEF Bury, clusterVars
  <2>4. \A x : In(x, deleting_instances') <=> In(x, deleting_instances) /\ x # v
    BY <1>1, <2>1, <2>3, RemoveFirstDistinct DEF ListsOwned
  <2>5. /\ Phase(v) = "leaving" /\ Phase(v)' = "out"
        /\ \A u \in VMs : u # v => Phase(u)' = Phase(u)
    BY <2>1, <2>2, <2>3, <2>4 DEF Phase
  <2>6. Life!Close(v)
    BY <2>1, <2>2, <2>3, <2>5, OneMoves, AliveStay DEF Life!Close, Alive, Live
  <2> QED  BY <2>1, <2>6 DEF Life!Next
<1>9. CASE Back
  <2>0. PICK v \in VMs : v = Head(executing) /\ In(v, executing)
    BY <1>1, <1>9, TailIn DEF Back
  <2>1. /\ In(v, deleting_instances) /\ ~In(v, existing_instances)
        /\ ~In(v, starting_instances)
    BY <1>1, <1>9, <2>0 DEF Back, DeletingHeld, ListsOwned, Apart
  <2>2. /\ deleting_instances' = RemoveFirst(deleting_instances, v)
        /\ existing_instances' = Append(existing_instances, v)
        /\ UNCHANGED <<cloud, starting_instances, asked>>
    BY <1>9, <2>0, <2>1 DEF Back, clusterVars, historyVars
  <2>3. /\ \A x : In(x, deleting_instances') <=> In(x, deleting_instances) /\ x # v
        /\ \A x : In(x, existing_instances') <=> In(x, existing_instances) \/ x = v
    BY <1>1, <2>1, <2>2, MoveDistinct DEF ListsOwned
  <2>4. /\ Phase(v) = "leaving" /\ Phase(v)' = "inUse"
        /\ \A u \in VMs : u # v => Phase(u)' = Phase(u)
    BY <2>1, <2>2, <2>3 DEF Phase
  <2>5. Life!Return(v)
    BY <2>1, <2>2, <2>4, OneMoves, AliveStay DEF Life!Return, Alive
  <2> QED  BY <2>1, <2>5 DEF Life!Next
<1> QED
  BY <1>2, <1>3, <1>4, <1>5, <1>6, <1>7, <1>8, <1>9 DEF CpStep

(* The steps of the job poller.                                            *)
LEMMA JobPollerRefines ==
    ASSUME LifeInv, Attended, "api" \notin Faults, JpStep
    PROVE  Life!Next \/ UNCHANGED Life!vars
<1> USE DEF TypeInv, TypeOK, RCTypeOK, JpTypeOK
<1>1. TypeInv /\ ListsOwned /\ NodeHeld /\ Born /\ Remembered
  BY DEF LifeInv, OwnerInv, Owned, SafetyInv
<1>2. CASE \/ JpPoll \/ JpRaise \/ JpDecide \/ JpStop \/ JpDumpNext \/ JpDumpEnd \/ IdleWrap
           \/ JpScanEnd \/ Determine \/ Extend
           \/ (\E v \in VMs : SkipNode(v) \/ Inspect(v) \/ IdleUnlist(v))
  <2>1. UNCHANGED <<cloud, existing_instances, starting_instances, deleting_instances, asked>>
    BY <1>2 DEF JpPoll, JpRaise, JpDecide, JpStop, JpDumpNext, JpDumpEnd, jpFileKeep,
         IdleWrap, JpScanEnd, Determine, Extend, SkipNode, Inspect, IdleUnlist, Hold, jpKeep, clusterVars, centerVars, listVars, historyVars
  <2> QED  BY <2>1, Stutters DEF Alive
<1>3. ASSUME NEW v \in VMs, IdleKill(v) PROVE Life!Next
  <2>1. /\ UNCHANGED <<existing_instances, starting_instances, deleting_instances>>
        /\ asked' = asked \cup {v} /\ Listed(v)
    BY <1>1, <1>3 DEF IdleKill, listVars, NodeHeld, Listed
  <2>2. /\ \A u \in VMs : cloud'[u] = "none" <=> cloud[u] = "none"
        /\ \A u \in VMs : Alive(u)' <=> Alive(u)
    BY <1>1, <1>3, TakenIsAlive DEF IdleKill
  <2> QED  BY <2>1, <2>2, Condemns
<1>4. ASSUME NEW v \in VMs, IdleRemove(v) PROVE Life!Next
  <2>1. /\ In(v, existing_instances) /\ ~In(v, starting_instances) /\ ~In(v, deleting_instances)
        /\ v \in asked /\ cloud[v] # "none"
    BY <1>1, <1>4 DEF IdleRemove, NodeHeld, ListsOwned, Apart, Remembered, Listed
  <2>2. /\ existing_instances' = RemoveFirst(existing_instances, v)
        /\ UNCHANGED <<cloud, starting_instances, deleting_instances, asked>>
    BY <1>4, <2>1 DEF IdleRemove, TakeOut, clusterVars, historyVars
  <2>3. \A x : In(x, existing_instances') <=> In(x, existing_instances) /\ x # v
    BY <1>1, <2>1, <2>2, RemoveFirstDistinct DEF ListsOwned
  <2>4. /\ Phase(v) = "inUse" /\ Phase(v)' = "out"
        /\ \A u \in VMs : u # v => Phase(u)' = Phase(u)
    BY <2>1, <2>2, <2>3 DEF Phase
  <2>5. Life!Drop(v)
    BY <2>1, <2>2, <2>4, OneMoves, AliveStay DEF Life!Drop, Alive
  <2> QED  BY <2>5 DEF Life!Next
<1>5. ASSUME NEW v \in VMs, Retire(v) PROVE Life!Next
  <2>1. /\ In(v, existing_instances) /\ ~In(v, starting_instances) /\ ~In(v, deleting_instances)
    BY <1>1, <1>5 DEF Retire, NodeHeld, ListsOwned, Apart
  <2>2. /\ existing_instances' = RemoveFirst(existing_instances, v)
        /\ deleting_instances' = Append(deleting_instances, v)
        /\ UNCHANGED <<cloud, starting_instances, asked>>
    BY <1>5, <2>1 DEF Retire, TakeOut, clusterVars, historyVars
  <2>3. /\ \A x : In(x, existing_instances') <=> In(x, existing_instances) /\ x # v
        /\ \A x : In(x, deleting_instances') <=> In(x, deleting_instances) \/ x = v
    BY <1>1, <2>1, <2>2, MoveDistinct DEF ListsOwned
  <2>4. /\ Phase(v) = "inUse" /\ Phase(v)' = "leaving"
        /\ \A u \in VMs : u # v => Phase(u)' = Phase(u)
    BY <2>1, <2>2, <2>3 DEF Phase
  <2>5. Life!Leave(v)
    BY <2>2, <2>4, OneMoves, AliveStay DEF Life!Leave, Alive
  <2> QED  BY <2>5 DEF Life!Next
<1> QED
  BY <1>2, <1>3, <1>4, <1>5 DEF JpStep

(* What the cloud and Torque do by themselves.                             *)
LEMMA EnvironmentRefines ==
    ASSUME TypeInv, NEW v \in VMs, ClusterStep(v)
    PROVE  Life!Next \/ UNCHANGED Life!vars
<1> USE DEF TypeInv, TypeOK, RCTypeOK, ClusterTypeOK
<1>1. UNCHANGED <<existing_instances, starting_instances, deleting_instances, asked>>
  BY DEF ClusterStep, centerVars, listVars, historyVars
<1>2. CASE UNCHANGED cloud
  BY <1>1, <1>2, Stutters DEF Alive
<1>3. ASSUME NEW from, NEW to, from \subseteq Live \cup {"deleting"},
             to \in Live \cup {"deleting", "gone"}, MoveServer(v, from, to)
      PROVE  Life!Next \/ UNCHANGED Life!vars
  <2>1. /\ cloud[v] \in from /\ cloud'[v] = to /\ \A u \in VMs : u # v => cloud'[u] = cloud[u]
    BY <1>3 DEF MoveServer
  <2>2. \A u \in VMs : cloud'[u] = "none" <=> cloud[u] = "none"
    BY <1>3, <2>1 DEF Live
  <2>3. CASE Alive(v) <=> Alive(v)'
    <3>1. \A u \in VMs : Alive(u)' <=> Alive(u)
      BY <2>1, <2>3 DEF Alive
    <3> QED  BY <1>1, <2>2, <3>1, Stutters
  <2>4. CASE Alive(v) /\ ~Alive(v)'
    <3>1. \A u \in VMs : Phase(u)' = Phase(u)
      BY <1>1, <2>2, PhasesStay
    <3>2. {u \in VMs : cloud[u] \in Live \cup {"deleting"}}'
            = {u \in VMs : cloud[u] \in Live \cup {"deleting"}} \ {v}
      BY <2>1, <2>4 DEF Alive
    <3>3. Life!ServerEnds(v)
      BY <1>1, <3>1, <3>2 DEF Life!ServerEnds
    <3> QED  BY <3>3 DEF Life!Next
  <2> QED  BY <1>3, <2>1, <2>3, <2>4 DEF Alive
<1>4. CASE Progress(v)
  BY <1>3, <1>4 DEF Progress, CloudStates, Live
<1>5. CASE Fail(v) \/ Vanish(v) \/ GoDown(v)
  BY <1>3, <1>5 DEF Fail, Vanish, GoDown, CloudStates, Live
<1>6. CASE TimePasses(v) \/ JobStart(v) \/ JobEnd(v)
  BY <1>2, <1>6 DEF TimePasses, JobStart, JobEnd
<1> QED  BY <1>4, <1>5, <1>6 DEF ClusterStep, Environment

(* Every step of the daemon and its surroundings is a step of VmLifecycle, *)
(* or none.                                                                *)
LEMMA StepRefines ==
    ASSUME LifeInv, Undisturbed, "api" \notin Faults, [Next]_vars
    PROVE  [Life!Next]_(Life!vars)
<1>1. /\ TypeInv /\ Attended /\ main \in {"boot", "run"}
      /\ killing = {} /\ (\A c \in Callers : fo[c] = "idle") /\ ~Died
  BY DEF LifeInv, OwnerInv, Attended, Undisturbed, Owned, NoRequests, Died
<1> SUFFICES Life!Next \/ UNCHANGED Life!vars
  OBVIOUS
<1>2. CASE CpStep
  BY <1>1, <1>2, CloudPollerRefines
<1>3. CASE JpStep
  BY <1>1, <1>3, JobPollerRefines
<1>4. CASE InfoStep
  <2>1. ToggleSleepMode
    BY <1>1, <1>4 DEF InfoStep, ForceoffRequest, KillBegin, KillHold, KillMove, Undisturbed
  <2>2. UNCHANGED <<cloud, existing_instances, starting_instances, deleting_instances, asked>>
    BY <2>1 DEF ToggleSleepMode, clusterVars, listVars, historyVars
  <2> QED  BY <2>2, Stutters DEF Alive
<1>5. ASSUME NEW c \in Callers, ForceoffStep(c) PROVE FALSE
  BY <1>1, <1>5 DEF ForceoffStep, ForceoffLoopEnd, ForceoffExisting, ForceoffMoveExisting,
       ForceoffStarting, ForceoffMoveStarting
<1>6. ~MainStep
  BY <1>1 DEF MainStep, MainQuit, MainExit, Undisturbed
<1>7. ASSUME NEW v \in VMs, ClusterStep(v) PROVE Life!Next \/ UNCHANGED Life!vars
  BY <1>1, <1>7, EnvironmentRefines
<1>8. CASE UNCHANGED vars
  <2>1. UNCHANGED <<cloud, existing_instances, starting_instances, deleting_instances, asked>>
    BY <1>8 DEF vars, clusterVars, centerVars, listVars, historyVars
  <2> QED  BY <2>1, Stutters DEF Alive
<1> QED
  BY <1>2, <1>3, <1>4, <1>5, <1>6, <1>7, <1>8
     DEF Next, CloudPollerStep, JobPollerStep, InfoServerStep, ForceoffBy

-----------------------------------------------------------------------------
(* The daemon.                                                             *)

(* The nodes found at the start are in use, the other ids unborn.          *)
LEMMA InitRefines ==
    ASSUME Init, "api" \notin Faults
    PROVE  Life!Init
<1>1. Born /\ Remembered
  BY InitSafe DEF SafetyInv
<1>2. /\ cloud = [v \in VMs |-> IF v \in Loaded THEN "ready" ELSE "none"] /\ asked = {}
      /\ starting_instances = <<>> /\ deleting_instances = <<>>
  BY DEF Init, RCInit
<1>3. \A v \in VMs : Phase(v) = IF v \in Loaded THEN "inUse" ELSE "unborn"
  BY <1>1, <1>2, EmptyList DEF Phase, Born, Remembered, Known, Listed, Live
<1>4. \A v \in VMs : cloud[v] \in Live \cup {"deleting"} <=> v \in Loaded
  BY <1>2 DEF Live
<1> QED  BY <1>2, <1>3, <1>4 DEF Life!Init

LEMMA NextGivenUp ==
    ASSUME TypeInv, GivenUpAsked, [Next]_vars
    PROVE  GivenUpAsked'
<1> USE DEF GivenUpAsked
<1>1. CASE CloudPollerStep
  <2>1. CASE Reap
    BY <2>1 DEF Reap, scanLocals
  <2>2. CASE ~Reap
    <3>1. cp' # "reapMove"
      BY <1>1, <2>2 DEF CloudPollerStep, CpStep, CpPoll, CpStop, CheckBuilding, JoinOk, JoinFail,
           CheckJoined, ScanEnd, Settle, ReapMove, ReapEnd, Wrap, ProvOff, CpDumpNext, CpDumpEnd,
           LaunchBegin, Launch, LaunchEnd, CleanupBegin, DelRead, DelAct, DelEnd, Bury, Back,
           ReleaseNode, CleanupEnd, WrapDel, Relaunch, CpRaise, CpDie,
           TypeInv, TypeOK, CpTypeOK
    <3> QED  BY <3>1
  <2> QED  BY <2>1, <2>2
<1>2. CASE \/ JobPollerStep \/ InfoServerStep \/ MainStep \/ UNCHANGED vars
           \/ (\E c \in Callers : ForceoffBy(c)) \/ (\E v \in VMs : ClusterStep(v))
  <2>1. UNCHANGED <<cp, doomed>>
    BY <1>2 DEF JobPollerStep, InfoServerStep, MainStep, ForceoffBy, ClusterStep, vars, cpVars
  <2>2. asked \subseteq asked'
    <3>1. CASE JpStep
      BY <3>1 DEF JpStep, JpPoll, JpRaise, JpDecide, JpStop, JpDumpNext, JpDumpEnd, jpFileKeep,
           SkipNode, Inspect, IdleKill, IdleUnlist,
           IdleRemove, IdleWrap, Retire, JpScanEnd, Determine, Extend, jpKeep, centerVars, historyVars
    <3>2. CASE InfoStep \/ MainStep
      BY <3>2 DEF InfoStep, ToggleSleepMode, ForceoffRequest, KillBegin, KillHold, KillMove,
           MainStep, MainQuit, MainExit, centerVars, historyVars
    <3>3. ASSUME NEW c \in Callers, ForceoffStep(c) PROVE asked \subseteq asked'
      BY <3>3 DEF ForceoffStep, ForceoffLoopEnd, ForceoffExisting, ForceoffMoveExisting,
           ForceoffStarting, ForceoffMoveStarting, centerVars, historyVars
    <3>4. CASE (\E v \in VMs : ClusterStep(v)) \/ UNCHANGED vars
      BY <3>4 DEF ClusterStep, vars, centerVars, historyVars
    <3> QED  BY <1>2, <3>1, <3>2, <3>3, <3>4 DEF JobPollerStep, InfoServerStep, ForceoffBy
  <2> QED  BY <2>1, <2>2
<1> QED  BY <1>1, <1>2 DEF Next

LEMMA InitLife == Init => LifeInv
<1>1. Init => GivenUpAsked
  BY DEF Init, CpInit, GivenUpAsked
<1> QED  BY <1>1, InitSafe, InitOwned DEF LifeInv

LEMMA NextLife == LifeInv /\ [Next]_vars => LifeInv'
<1>1. LifeInv => TypeInv
  BY DEF LifeInv, OwnerInv
<1> QED  BY <1>1, NextSafe, NextOwned, NextGivenUp DEF LifeInv

(* The daemon implements VmLifecycle, for any number of VMs and under      *)
(* every fault but a failing servers.get and what ends a thread, as long   *)
(* as nobody sends kill or forceoff requests or stops it: the locked       *)
(* sections, stale answers and half-finished rounds of the two pollers     *)
(* are, seen from outside, the steps of an orderly life, in which no VM is *)
(* let go of that nobody asked to destroy and whose server still runs.     *)
THEOREM LifecycleImplemented ==
    ASSUME Undisturbed, "api" \notin Faults
    PROVE  Spec => LifecycleRespected
<1>1. Init => Life!Init
  BY InitRefines
<1>2. LifeInv /\ [Next]_vars => [Life!Next]_(Life!vars)
  BY StepRefines
<1> QED  BY <1>1, <1>2, InitLife, NextLife, PTL DEF Spec, LifecycleRespected, Life!Spec
=============================================================================
