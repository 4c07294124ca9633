----------------------------- MODULE OwnerProofs -----------------------------
(***************************************************************************)
(* Nobody pulls a VM from under another thread.  For every set of VMs and  *)
(* every fault whose exception is caught, as long as nobody kills nodes or *)
(* shuts the daemon down, a VM is in one list and there once, and no list.remove   *)
(* of the two pollers raises (OneOwner, PollersSurvive).  The pollers look *)
(* at the lists in one section and change them in another; the inductive   *)
(* invariant says what each of them may count on in between: the VMs in    *)
(* the cloud poller's local lists are still in starting_instances or       *)
(* deleting_instances, and the job poller's VM in existing_instances.      *)
(***************************************************************************)
EXTENDS TypeProofs

Attended == Admin \cap {"kill", "forceoff"} = {} /\ main \in {"boot", "run"}

Apart(s, t) == \A v \in VMs : ~(In(v, s) /\ In(v, t))

ListsOwned ==
    /\ Distinct(existing_instances)
    /\ Distinct(starting_instances)
    /\ Distinct(deleting_instances)
    /\ Apart(existing_instances, starting_instances)
    /\ Apart(existing_instances, deleting_instances)
    /\ Apart(starting_instances, deleting_instances)
    /\ \A v \in VMs : Listed(v) => cloud[v] # "none"

(* update_provision_status: starting_instances still to look at,           *)
(* ready_to_use and to_delete share out VMs that are still starting.       *)
StartingHeld ==
    /\ cp \notin {"scan", "join", "dead"} => cpTodo = <<>>
    /\ cp \notin {"scan", "join", "settle", "dead"} => ready = <<>>
    /\ cp \notin {"scan", "join", "settle", "reap", "reapMove", "dead"} => doomed = <<>>
    /\ Distinct(cpTodo) /\ Distinct(ready) /\ Distinct(doomed)
    /\ Apart(cpTodo, ready) /\ Apart(cpTodo, doomed) /\ Apart(ready, doomed)
    /\ \A v \in VMs : In(v, cpTodo) \/ In(v, ready) \/ In(v, doomed) => In(v, starting_instances)

Passed(v) == \E i \in 1 .. Len(deleting_instances) : i < cursor /\ deleting_instances[i] = v

(* check_cleanup: vm_deleted and vm_executing share out VMs the loop has   *)
(* passed in deleting_instances, and later VMs that are still there.       *)
DeletingHeld ==
    /\ cp \notin {"delRead", "delAct", "bury", "release", "dead"} =>
          gone = <<>> /\ executing = <<>>
    /\ Distinct(gone) /\ Distinct(executing) /\ Apart(gone, executing)
    /\ cp \in {"delRead", "delAct"} =>
          \A v \in VMs : In(v, gone) \/ In(v, executing) => Passed(v)
    /\ cp = "bury" =>
          \A v \in VMs : In(v, gone) \/ In(v, executing) => In(v, deleting_instances)
    /\ cp = "release" =>
          gone = <<>> /\ \A v \in VMs : In(v, Tail(executing)) => In(v, deleting_instances)

(* check_existing_worker_nodes: the VM it has decided about.               *)
NodeHeld ==
    /\ jp \in {"idleKill", "idleUnlist", "idleRemove", "retire"} =>
          \A v \in jpVm : In(v, existing_instances)
    /\ \A u, w \in jpVm : u = w

NoRequests == killing = {} /\ \A c \in Callers : fo[c] = "idle"

Owned == ListsOwned /\ StartingHeld /\ DeletingHeld /\ NodeHeld /\ NoRequests

OwnerInv ==
    /\ TypeInv
    /\ Attended => Owned
    /\ Undisturbed => main \in {"boot", "run"} /\ jp # "dead" /\ cp # "dead"
-----------------------------------------------------------------------------
(* Operators.                                                              *)

(* An empty list.                                                          *)
LEMMA EmptyList == Distinct(<<>>) /\ \A x : ~In(x, <<>>)
BY DEF Distinct, In

(* Taking the only entry.                                                  *)
LEMMA LastEntry ==
    ASSUME NEW S, NEW s \in Seq(S), s # <<>>, Len(s) = 1
    PROVE  Tail(s) = <<>>
<1>1. Tail(s) \in Seq(S) /\ Len(Tail(s)) = 0
  BY TailIn
<1>2. \A t \in Seq(S) : Len(t) = 0 => t = <<>>
  BY EmptySeq
<1> QED  BY <1>1, <1>2, Zenon

(* No VM of the cloud poller is in its hands.                              *)
LEMMA NothingStarting ==
    ASSUME cpTodo' = <<>>, ready' = <<>>, doomed' = <<>>
    PROVE  StartingHeld'
BY EmptyList DEF StartingHeld, Apart

LEMMA NothingDeleting ==
    ASSUME gone' = <<>>, executing' = <<>>, cp' # "release"
    PROVE  DeletingHeld'
BY EmptyList DEF DeletingHeld, Apart

(* The lists stay as they are and no server is unborn again.               *)
LEMMA ListsFrame ==
    ASSUME ListsOwned, UNCHANGED <<existing_instances, starting_instances, deleting_instances>>,
           \A v \in VMs : cloud[v] # "none" => cloud'[v] # "none"
    PROVE  ListsOwned'
BY DEF ListsOwned, Apart, Listed

(* What a thread holds, while another one changes the lists.               *)
LEMMA StartingFrame ==
    ASSUME StartingHeld, UNCHANGED <<cp, cpTodo, ready, doomed>>,
           \A v \in VMs : In(v, starting_instances) => In(v, starting_instances')
    PROVE  StartingHeld'
BY DEF StartingHeld, Apart

LEMMA DeletingFrame ==
    ASSUME DeletingHeld, UNCHANGED <<cp, cursor, gone, executing>>,
           UNCHANGED deleting_instances
             \/ (\E v \in VMs : deleting_instances' = Append(deleting_instances, v)),
           deleting_instances \in Seq(VMs)
    PROVE  DeletingHeld'
<1>1. \A x \in VMs : In(x, deleting_instances) => In(x, deleting_instances')
  <2>1. ASSUME NEW v \in VMs, deleting_instances' = Append(deleting_instances, v)
        PROVE  \A x : In(x, deleting_instances) => In(x, deleting_instances')
    BY <2>1, AppendIn
  <2> QED  BY <2>1
<1>2. \A x : Passed(x) => Passed(x)'
  <2>1. CASE UNCHANGED deleting_instances
    BY <2>1 DEF Passed
  <2>2. ASSUME NEW v \in VMs, deleting_instances' = Append(deleting_instances, v)
        PROVE  \A x : Passed(x) => Passed(x)'
    <3>1. /\ Len(deleting_instances') = Len(deleting_instances) + 1
          /\ \A i \in 1 .. Len(deleting_instances) : deleting_instances'[i] = deleting_instances[i]
      BY <2>2, AppendPositions
    <3>2. Len(deleting_instances) \in Nat
      OBVIOUS
    <3> QED  BY <3>1, <3>2 DEF Passed
  <2> QED  BY <2>1, <2>2
<1> QED  BY <1>1, <1>2 DEF DeletingHeld, Apart

LEMMA NodeFrame ==
    ASSUME NodeHeld, UNCHANGED <<jp, jpVm>>, jpVm \subseteq VMs,
           \A v \in VMs : In(v, existing_instances) => In(v, existing_instances')
    PROVE  NodeHeld'
BY DEF NodeHeld

(* Destroying and removing makes no server unborn.                         *)
LEMMA TakenIsBorn ==
    ASSUME ClusterTypeOK, NEW v \in VMs, NEW removed, NEW destroyed, TakeAway(v, removed, destroyed)
    PROVE  \A u \in VMs : cloud[u] # "none" => cloud'[u] # "none"
BY DEF TakeAway, ClusterTypeOK

-----------------------------------------------------------------------------
(* The cloud poller.                                                       *)

(* The next VM of starting_instances has been looked at: it goes to        *)
(* ready_to_use, to to_delete, or to neither.                              *)
LEMMA ScanMoves ==
    ASSUME TypeInv, StartingHeld, cpTodo # <<>>, cp \in {"scan", "join"}, cp' = "scan",
           UNCHANGED starting_instances, cpTodo' = Tail(cpTodo),
           \/ UNCHANGED <<ready, doomed>>
           \/ ready' = Append(ready, Head(cpTodo)) /\ UNCHANGED doomed
           \/ doomed' = Append(doomed, Head(cpTodo)) /\ UNCHANGED ready
    PROVE  StartingHeld'
<1> DEFINE v == Head(cpTodo)
<1>1. /\ v \in VMs /\ In(v, cpTodo) /\ ~In(v, ready) /\ ~In(v, doomed)
      /\ ready \in Seq(VMs) /\ doomed \in Seq(VMs) /\ cpTodo \in Seq(VMs)
  BY TailIn DEF TypeInv, TypeOK, CpTypeOK, StartingHeld, Apart
<1>2. Distinct(cpTodo') /\ \A x : In(x, cpTodo') <=> In(x, cpTodo) /\ x # v
  BY <1>1, TailDistinct DEF StartingHeld
<1>3. /\ Distinct(Append(ready, v)) /\ \A x : In(x, Append(ready, v)) <=> In(x, ready) \/ x = v
      /\ Distinct(Append(doomed, v)) /\ \A x : In(x, Append(doomed, v)) <=> In(x, doomed) \/ x = v
  BY <1>1, AppendIn, AppendDistinct DEF StartingHeld
<1>4. /\ Distinct(ready') /\ Distinct(doomed')
      /\ \A x : In(x, ready') => In(x, ready) \/ x = v
      /\ \A x : In(x, doomed') => In(x, doomed) \/ x = v
      /\ ~(In(v, ready') /\ In(v, doomed'))
  BY <1>1, <1>3 DEF StartingHeld
<1> HIDE DEF v
<1>5. Apart(cpTodo, ready)' /\ Apart(cpTodo, doomed)' /\ Apart(ready, doomed)'
  BY <1>2, <1>4 DEF StartingHeld, Apart
<1>6. \A x \in VMs : In(x, cpTodo') \/ In(x, ready') \/ In(x, doomed') => In(x, starting_instances')
  BY <1>1, <1>2, <1>4 DEF StartingHeld
<1> QED  BY <1>2, <1>4, <1>5, <1>6 DEF StartingHeld

(* The steps of the cloud poller: every list.remove finds its VM, so only  *)
(* a call that is outside every "try" ends the thread.                     *)
LEMMA CloudPollerOwns ==
    ASSUME TypeInv, Owned, CpStep, UNCHANGED <<jp, jpVm, killing, fo>>
    PROVE  Owned' /\ (cp' = "dead" => CpRaise)
<1> USE DEF TypeInv, TypeOK, RCTypeOK, CpTypeOK, JpTypeOK, Positioned, CpPositioned
<1>1. NoRequests'
  BY DEF Owned, NoRequests
<1>2. ListsOwned /\ StartingHeld /\ DeletingHeld /\ NodeHeld
  BY DEF Owned
<1> DEFINE SameLists == UNCHANGED <<existing_instances, starting_instances, deleting_instances>>
           SameCloud == \A v \in VMs : cloud[v] # "none" => cloud'[v] # "none"
<1>3. ASSUME SameLists, SameCloud PROVE ListsOwned' /\ NodeHeld'
  BY <1>2, <1>3, ListsFrame, NodeFrame
<1> DEFINE Quiet == CpStop \/ ScanEnd \/ ReapEnd \/ Wrap \/ ProvOff \/ CpDumpNext \/ CpDumpEnd
                    \/ LaunchBegin \/ LaunchEnd \/ CleanupBegin \/ CleanupEnd \/ WrapDel \/ Relaunch
<1>4. CASE Quiet
  <2>1. UNCHANGED <<cloud, existing_instances, starting_instances, deleting_instances,
                    cpTodo, ready, doomed, gone, executing>>
    BY <1>4 DEF CpStop, ScanEnd, ReapEnd, Wrap, ProvOff, CpDumpNext, CpDumpEnd, fileKeep,
         LaunchBegin, LaunchEnd, CleanupBegin, CleanupEnd, WrapDel, Relaunch, clusterVars, centerVars, listVars, scanLocals, delLocals
  <2>2. /\ cpTodo = <<>>
        /\ gone = <<>> /\ executing = <<>>
        /\ ready = <<>> \/ cp' = "settle"
        /\ doomed = <<>> \/ cp' \in {"settle", "reap"}
        /\ cp' \notin {"dead", "release"}
    BY <1>2, <1>4 DEF CpStop, ScanEnd, ReapEnd, Wrap, ProvOff, CpDumpNext, CpDumpEnd, LaunchBegin,
         LaunchEnd, CleanupBegin, CleanupEnd, WrapDel, Relaunch, StartingHeld, DeletingHeld
  <2>3. StartingHeld'
    BY <1>2, <2>1, <2>2 DEF StartingHeld, Apart
  <2>4. DeletingHeld'
    BY <2>1, <2>2, NothingDeleting
  <2> QED  BY <1>1, <1>3, <2>1, <2>2, <2>3, <2>4 DEF Owned
<1>5. CASE CpPoll
  <2>1. UNCHANGED <<cloud, existing_instances, starting_instances, deleting_instances>>
    BY <1>5 DEF CpPoll, clusterVars, centerVars, listVars
  <2>2. /\ cp' \in {"scan", "cleanup"} /\ (cp' # "scan" => cpTodo' = <<>>)
        /\ cpTodo' \in {starting_instances, <<>>}
        /\ ready' = <<>> /\ doomed' = <<>> /\ gone' = <<>> /\ executing' = <<>>
    BY <1>2, <1>5 DEF CpPoll, StartingHeld, DeletingHeld, delLocals
  <2>3. StartingHeld'
    BY <1>2, <2>1, <2>2, EmptyList DEF StartingHeld, Apart, ListsOwned
  <2>4. DeletingHeld'
    BY <2>2, NothingDeleting
  <2> QED  BY <1>1, <1>3, <2>1, <2>2, <2>3, <2>4 DEF Owned
<1>6. CASE CheckBuilding \/ JoinOk \/ JoinFail \/ CheckJoined
  <2>1. UNCHANGED <<cloud, existing_instances, starting_instances, deleting_instances,
                    gone, executing>> /\ gone = <<>> /\ executing = <<>>
    BY <1>2, <1>6 DEF CheckBuilding, JoinOk, JoinFail, CheckJoined, AddNode, DeletingHeld,
         clusterVars, centerVars, listVars, delLocals
  <2>2. cpTodo # <<>> /\ cp \in {"scan", "join"} /\ cp' \in {"scan", "join"}
    BY <1>6 DEF CheckBuilding, JoinOk, JoinFail, CheckJoined
  <2>3. \/ UNCHANGED <<cpTodo, ready, doomed>>
        \/ /\ cpTodo' = Tail(cpTodo) /\ cp' = "scan"
           /\ \/ UNCHANGED <<ready, doomed>>
              \/ ready' = Append(ready, Head(cpTodo)) /\ UNCHANGED doomed
              \/ doomed' = Append(doomed, Head(cpTodo)) /\ UNCHANGED ready
    <3>1. CASE CheckBuilding
      <4>1. PICK s \in VmCheck(Head(cpTodo)) :
              /\ cp' = IF s = 0 THEN "join" ELSE "scan"
              /\ cpTodo' = IF s = 0 THEN cpTodo ELSE Tail(cpTodo)
              /\ doomed' = IF s \in {3, 4} \/ (s \in {1, 2} /\ Head(cpTodo) \in overdue)
                           THEN Append(doomed, Head(cpTodo)) ELSE doomed
        BY <3>1 DEF CheckBuilding
      <4>2. UNCHANGED ready
        BY <3>1 DEF CheckBuilding
      <4>3. CASE s = 0
        BY <4>1, <4>2, <4>3
      <4>4. CASE s # 0
        BY <4>1, <4>2, <4>4
      <4> QED  BY <4>3, <4>4
    <3>2. CASE JoinOk \/ JoinFail
      BY <3>2 DEF JoinOk, JoinFail
    <3>3. CASE CheckJoined
      BY <3>3 DEF CheckJoined
    <3> QED  BY <1>6, <3>1, <3>2, <3>3
  <2>4. StartingHeld'
    <3>1. CASE UNCHANGED <<cpTodo, ready, doomed>>
      BY <1>2, <2>1, <2>2, <3>1 DEF StartingHeld, Apart
    <3>2. CASE ~UNCHANGED <<cpTodo, ready, doomed>>
      BY <1>2, <2>1, <2>2, <2>3, <3>2, ScanMoves
    <3> QED  BY <3>1, <3>2
  <2>5. DeletingHeld'
    BY <2>1, <2>2, NothingDeleting
  <2> QED  BY <1>1, <1>3, <2>1, <2>2, <2>4, <2>5 DEF Owned
<1>7. CASE Settle
  <2> DEFINE v == Head(ready)
  <2>1. /\ v \in VMs /\ In(v, ready) /\ In(v, starting_instances) /\ ~In(v, existing_instances)
        /\ ready # <<>>
    BY <1>2, <1>7, TailIn DEF Settle, StartingHeld, ListsOwned, Apart
  <2>2. /\ starting_instances' = RemoveFirst(starting_instances, v)
        /\ existing_instances' = Append(existing_instances, v)
        /\ ready' = Tail(ready)
        /\ cp' = IF Len(ready) = 1 THEN "reap" ELSE "settle"
        /\ UNCHANGED <<cloud, deleting_instances, cpTodo, doomed, gone, executing>>
    BY <1>7, <2>1 DEF Settle, clusterVars, delLocals
  <2>3. /\ Distinct(starting_instances') /\ Distinct(existing_instances')
        /\ \A x : In(x, starting_instances') <=> In(x, starting_instances) /\ x # v
        /\ \A x : In(x, existing_instances') <=> In(x, existing_instances) \/ x = v
    BY <1>2, <2>1, <2>2, MoveDistinct DEF ListsOwned
  <2>4. /\ Distinct(ready') /\ \A x : In(x, ready') <=> In(x, ready) /\ x # v
        /\ (cp' # "settle" => ready' = <<>>)
    <3>1. Len(ready) = 1 => Tail(ready) = <<>>
      BY <2>1, LastEntry
    <3> QED  BY <1>2, <2>1, <2>2, <3>1, TailDistinct DEF StartingHeld
  <2> HIDE DEF v
  <2>5. ListsOwned'
    BY <1>2, <2>1, <2>2, <2>3 DEF ListsOwned, Apart, Listed
  <2>6. StartingHeld'
    <3>1. cpTodo = <<>> /\ cp' \in {"settle", "reap"} /\ cp = "settle"
      BY <1>2, <1>7, <2>2 DEF StartingHeld, Settle
    <3>2. /\ Apart(cpTodo, ready)' /\ Apart(cpTodo, doomed)' /\ Apart(ready, doomed)'
      BY <1>2, <2>2, <2>4 DEF StartingHeld, Apart
    <3>3. \A x \in VMs : In(x, cpTodo') \/ In(x, ready') \/ In(x, doomed') => In(x, starting_instances')
      BY <1>2, <2>1, <2>2, <2>3, <2>4, <3>1, EmptyList DEF StartingHeld, Apart
    <3> QED  BY <1>2, <2>2, <2>4, <3>1, <3>2, <3>3 DEF StartingHeld
  <2>7. DeletingHeld'
    <3>1. gone = <<>> /\ executing = <<>> /\ cp' # "release"
      BY <1>2, <1>7, <2>2 DEF DeletingHeld, Settle
    <3> QED  BY <2>2, <3>1, NothingDeleting
  <2>8. NodeHeld'
    BY <1>2, <2>3, NodeFrame
  <2> QED  BY <1>1, <2>2, <2>5, <2>6, <2>7, <2>8 DEF Owned
<1>8. CASE Reap
  <2>1. SameLists /\ UNCHANGED <<cpTodo, ready, doomed, gone, executing>>
        /\ cp = "reap" /\ cp' = "reapMove"
    BY <1>8 DEF Reap, listVars, scanLocals, delLocals
  <2>2. SameCloud
    BY <1>8, TailIn, TakenIsBorn DEF Reap
  <2>3. StartingHeld'
    BY <1>2, <2>1 DEF StartingHeld, Apart
  <2>4. DeletingHeld'
    BY <1>2, <2>1, NothingDeleting DEF DeletingHeld
  <2> QED  BY <1>1, <1>3, <2>1, <2>2, <2>3, <2>4 DEF Owned
<1>9. CASE ReapMove
  <2> DEFINE v == Head(doomed)
  <2>1. /\ v \in VMs /\ In(v, doomed) /\ In(v, starting_instances) /\ ~In(v, deleting_instances)
        /\ doomed # <<>>
    BY <1>2, <1>9, TailIn DEF ReapMove, StartingHeld, ListsOwned, Apart
  <2>2. /\ starting_instances' = RemoveFirst(starting_instances, v)
        /\ deleting_instances' = Append(deleting_instances, v)
        /\ doomed' = Tail(doomed)
        /\ cp = "reapMove" /\ cp' = "reap"
        /\ UNCHANGED <<cloud, existing_instances, cpTodo, ready, gone, executing>>
    BY <1>9, <2>1 DEF ReapMove, clusterVars, delLocals
  <2>3. /\ Distinct(starting_instances') /\ Distinct(deleting_instances')
        /\ \A x : In(x, starting_instances') <=> In(x, starting_instances) /\ x # v
        /\ \A x : In(x, deleting_instances') <=> In(x, deleting_instances) \/ x = v
    BY <1>2, <2>1, <2>2, MoveDistinct DEF ListsOwned
  <2>4. Distinct(doomed') /\ \A x : In(x, doomed') <=> In(x, doomed) /\ x # v
    BY <1>2, <2>1, <2>2, TailDistinct DEF StartingHeld
  <2> HIDE DEF v
  <2>5. ListsOwned'
    BY <1>2, <2>1, <2>2, <2>3 DEF ListsOwned, Apart, Listed
  <2>6. StartingHeld'
    <3>1. cpTodo = <<>> /\ ready = <<>>
      BY <1>2, <2>2 DEF StartingHeld
    <3> QED  BY <1>2, <2>2, <2>3, <2>4, <3>1, EmptyList DEF StartingHeld, Apart
  <2>7. DeletingHeld'
    BY <1>2, <2>2, NothingDeleting DEF DeletingHeld
  <2>8. NodeHeld'
    BY <1>2, <2>2, NodeFrame
  <2> QED  BY <1>1, <2>2, <2>5, <2>6, <2>7, <2>8 DEF Owned
<1>10. ASSUME NEW v \in VMs, Launch(v) PROVE Owned' /\ cp' # "dead"
  <2>1. /\ cloud' = [cloud EXCEPT ![v] = "build"] /\ cloud[v] = "none" /\ cp = "launch"
        /\ starting_instances' = Append(starting_instances, v)
        /\ UNCHANGED <<existing_instances, deleting_instances, cp, cpTodo, ready, doomed,
                       gone, executing>>
    BY <1>10 DEF Launch, Create, Unborn, scanLocals, delLocals
  <2>2. ~Listed(v)
    BY <1>2, <2>1 DEF ListsOwned
  <2>3. /\ Distinct(starting_instances')
        /\ \A x : In(x, starting_instances') <=> In(x, starting_instances) \/ x = v
    BY <1>2, <2>1, <2>2, AppendIn, AppendDistinct DEF ListsOwned, Listed
  <2>4. \A u \in VMs : u # v => cloud'[u] = cloud[u]
    BY <2>1 DEF ClusterTypeOK
  <2>5. cloud'[v] = "build"
    BY <2>1 DEF ClusterTypeOK
  <2>6. ListsOwned'
    BY <1>2, <2>1, <2>2, <2>3, <2>4, <2>5 DEF ListsOwned, Apart, Listed
  <2>7. StartingHeld'
    BY <1>2, <2>1, <2>3, StartingFrame
  <2>8. DeletingHeld'
    BY <1>2, <2>1, NothingDeleting DEF DeletingHeld
  <2>9. NodeHeld'
    BY <1>2, <2>1, NodeFrame
  <2> QED  BY <1>1, <1>2, <2>1, <2>6, <2>7, <2>8, <2>9 DEF Owned
<1>11. CASE DelRead
  <2>0. PICK v \in VMs : v = deleting_instances[cursor]
    BY <1>11 DEF DelRead
  <2>1. /\ v = deleting_instances[cursor] /\ cp = "delRead"
        /\ cursor \in 1 .. Len(deleting_instances) /\ Len(deleting_instances) \in Nat
    BY <1>11, <2>0 DEF DelRead
  <2>2. /\ UNCHANGED <<cloud, existing_instances, starting_instances, deleting_instances,
                       cpTodo, ready, doomed>>
    BY <1>11 DEF DelRead, clusterVars, listVars, scanLocals
  <2>3. PICK s \in VmCheck(v), seen \in BOOLEAN, again \in BOOLEAN :
          LET choice == IF seen THEN CleanupChoice(v, s, View(v), again) ELSE "none" IN
          /\ gone' = IF choice = "gone" THEN Append(gone, v) ELSE gone
          /\ executing' = IF choice = "executing" THEN Append(executing, v) ELSE executing
          /\ IF choice \in {"destroy", "remove", "both"}
             THEN cp' = "delAct" /\ UNCHANGED cursor
             ELSE cursor' = cursor + 1 /\ UNCHANGED cp
    BY <1>11, <2>0, ZenonT(40) DEF DelRead, Outcomes
  <2>4. \/ UNCHANGED <<gone, executing>> /\ cp' = "delAct" /\ UNCHANGED cursor
        \/ /\ cp' = "delRead" /\ cursor' = cursor + 1
           /\ \/ UNCHANGED <<gone, executing>>
              \/ gone' = Append(gone, v) /\ UNCHANGED executing
              \/ executing' = Append(executing, v) /\ UNCHANGED gone
    BY <2>1, <2>3
  <2>5. ~Passed(v)
    <3>1. \A i \in 1 .. Len(deleting_instances) :
            deleting_instances[i] = deleting_instances[cursor] => i = cursor
      BY <1>2, <2>1 DEF ListsOwned, Distinct
    <3> QED  BY <2>1, <3>1 DEF Passed
  <2>6. ~In(v, gone) /\ ~In(v, executing)
    BY <1>2, <2>1, <2>5 DEF DeletingHeld
  <2>7. /\ \A x : Passed(x) => Passed(x)'
        /\ cursor' = cursor + 1 => Passed(v)'
    <3>1. \A x : Passed(x) => Passed(x)'
      <4>1. cursor' = cursor \/ cursor' = cursor + 1
        BY <2>4
      <4> QED  BY <2>1, <2>2, <4>1 DEF Passed
    <3>2. ASSUME cursor' = cursor + 1 PROVE Passed(v)'
      BY <2>1, <2>2, <3>2 DEF Passed
    <3> QED  BY <3>1, <3>2
  <2>8. /\ Distinct(Append(gone, v)) /\ \A x : In(x, Append(gone, v)) <=> In(x, gone) \/ x = v
        /\ Distinct(Append(executing, v))
        /\ \A x : In(x, Append(executing, v)) <=> In(x, executing) \/ x = v
    BY <1>2, <2>1, <2>6, AppendIn, AppendDistinct DEF DeletingHeld
  <2>9. DeletingHeld'
    <3>1. Distinct(gone') /\ Distinct(executing') /\ Apart(gone, executing)'
      BY <1>2, <2>4, <2>6, <2>8 DEF DeletingHeld, Apart
    <3>2. \A x \in VMs : In(x, gone') \/ In(x, executing') => Passed(x)'
      <4>1. \A x \in VMs : In(x, gone) \/ In(x, executing) => Passed(x)'
        BY <1>2, <2>1, <2>7 DEF DeletingHeld
      <4>2. \/ UNCHANGED <<gone, executing>>
            \/ /\ Passed(v)'
               /\ \A x : In(x, gone') \/ In(x, executing') => In(x, gone) \/ In(x, executing) \/ x = v
        BY <2>4, <2>7, <2>8
      <4> QED  BY <4>1, <4>2
    <3>3. cp' \in {"delRead", "delAct"}
      BY <2>4
    <3> QED  BY <3>1, <3>2, <3>3 DEF DeletingHeld
  <2>10. StartingHeld'
    BY <1>2, <2>1, <2>2, NothingStarting DEF StartingHeld
  <2>11. cp' # "dead"
    BY <2>4
  <2> QED  BY <1>1, <1>3, <2>2, <2>9, <2>10, <2>11 DEF Owned
<1>12. CASE DelAct
  <2> DEFINE v == deleting_instances[cursor]
  <2>1. /\ v \in VMs /\ cp = "delAct" /\ cp' = "delRead" /\ cursor' = cursor + 1
        /\ UNCHANGED <<cpTodo, ready, doomed, gone, executing>> /\ SameLists
    BY <1>12 DEF DelAct, listVars, scanLocals
  <2>2. SameCloud
    BY <1>12, <2>1, TakenIsBorn DEF DelAct
  <2>3. \A x : Passed(x) => Passed(x)'
    BY <2>1 DEF Passed
  <2>4. DeletingHeld'
    BY <1>2, <2>1, <2>3 DEF DeletingHeld, Apart
  <2>5. StartingHeld'
    BY <1>2, <2>1, NothingStarting DEF StartingHeld
  <2> QED  BY <1>1, <1>3, <2>1, <2>2, <2>4, <2>5 DEF Owned
<1>13. CASE DelEnd
  <2>1. /\ UNCHANGED <<cloud, existing_instances, starting_instances, deleting_instances,
                       cpTodo, ready, doomed, gone, executing>>
        /\ cp = "delRead" /\ cp' = "bury"
    BY <1>13 DEF DelEnd, clusterVars, listVars, scanLocals
  <2>2. \A x : Passed(x) => In(x, deleting_instances)
    BY DEF Passed, In
  <2>3. DeletingHeld'
    BY <1>2, <2>1, <2>2 DEF DeletingHeld, Apart
  <2>4. StartingHeld'
    BY <1>2, <2>1, NothingStarting DEF StartingHeld
  <2> QED  BY <1>1, <1>3, <2>1, <2>3, <2>4 DEF Owned
<1>14. CASE Bury
  <2> DEFINE v == Head(gone)
  <2>1. v \in VMs /\ In(v, gone) /\ In(v, deleting_instances) /\ gone # <<>> /\ cp = "bury"
    BY <1>2, <1>14, TailIn DEF Bury, DeletingHeld
  <2>2. /\ deleting_instances' = RemoveFirst(deleting_instances, v)
        /\ gone' = Tail(gone)
        /\ UNCHANGED <<cloud, existing_instances, starting_instances, cp, cpTodo, ready, doomed,
                       executing>>
    BY <1>14, <2>1 DEF Bury, clusterVars, scanLocals
  <2>3. /\ Distinct(deleting_instances')
        /\ \A x : In(x, deleting_instances') <=> In(x, deleting_instances) /\ x # v
    BY <1>2, <2>1, <2>2, RemoveFirstDistinct DEF ListsOwned
  <2>4. Distinct(gone') /\ \A x : In(x, gone') <=> In(x, gone) /\ x # v
    BY <1>2, <2>1, <2>2, TailDistinct DEF DeletingHeld
  <2> HIDE DEF v
  <2>5. ListsOwned'
    BY <1>2, <2>2, <2>3 DEF ListsOwned, Apart, Listed
  <2>6. StartingHeld'
    BY <1>2, <2>1, <2>2, NothingStarting DEF StartingHeld
  <2>7. DeletingHeld'
    BY <1>2, <2>1, <2>2, <2>3, <2>4 DEF DeletingHeld, Apart
  <2>8. NodeHeld'
    BY <1>2, <2>2, NodeFrame
  <2> QED  BY <1>1, <1>2, <2>1, <2>2, <2>5, <2>6, <2>7, <2>8 DEF Owned
<1>15. CASE Back
  <2> DEFINE v == Head(executing)
  <2>1. /\ v \in VMs /\ In(v, executing) /\ In(v, deleting_instances) /\ ~In(v, existing_instances)
        /\ executing # <<>> /\ gone = <<>> /\ cp = "bury"
    BY <1>2, <1>15, TailIn DEF Back, DeletingHeld, ListsOwned, Apart
  <2>2. /\ deleting_instances' = RemoveFirst(deleting_instances, v)
        /\ existing_instances' = Append(existing_instances, v)
        /\ cp' = "release"
        /\ UNCHANGED <<cloud, starting_instances, cpTodo, ready, doomed, gone, executing>>
    BY <1>15, <2>1 DEF Back, clusterVars, scanLocals, delLocals
  <2>3. /\ Distinct(deleting_instances') /\ Distinct(existing_instances')
        /\ \A x : In(x, deleting_instances') <=> In(x, deleting_instances) /\ x # v
        /\ \A x : In(x, existing_instances') <=> In(x, existing_instances) \/ x = v
    BY <1>2, <2>1, <2>2, MoveDistinct DEF ListsOwned
  <2>4. \A x : In(x, Tail(executing)) => In(x, executing) /\ x # v
    BY <1>2, <2>1, TailDistinct DEF DeletingHeld
  <2> HIDE DEF v
  <2>5. ListsOwned'
    BY <1>2, <2>1, <2>2, <2>3 DEF ListsOwned, Apart, Listed
  <2>6. StartingHeld'
    BY <1>2, <2>1, <2>2, NothingStarting DEF StartingHeld
  <2>7. DeletingHeld'
    BY <1>2, <2>1, <2>2, <2>3, <2>4 DEF DeletingHeld, Apart
  <2>8. NodeHeld'
    BY <1>2, <2>3, NodeFrame
  <2> QED  BY <1>1, <2>2, <2>5, <2>6, <2>7, <2>8 DEF Owned
<1>16. CASE ReleaseNode
  <2>1. /\ executing' = Tail(executing) /\ executing # <<>>
        /\ cp = "release" /\ cp' = "bury" /\ gone = <<>>
        /\ UNCHANGED <<cloud, existing_instances, starting_instances, deleting_instances,
                       cpTodo, ready, doomed, gone>>
    BY <1>2, <1>16 DEF ReleaseNode, Release, centerVars, listVars, scanLocals, DeletingHeld
  <2>2. Distinct(executing') /\ \A x : In(x, executing') <=> In(x, Tail(executing))
    BY <1>2, <2>1, TailDistinct DEF DeletingHeld
  <2>3. DeletingHeld'
    BY <1>2, <2>1, <2>2, EmptyList DEF DeletingHeld, Apart
  <2>4. StartingHeld'
    BY <1>2, <2>1, NothingStarting DEF StartingHeld
  <2> QED  BY <1>1, <1>3, <2>1, <2>3, <2>4 DEF Owned
<1>17. CASE CpRaise
  <2>1. /\ UNCHANGED <<cloud, existing_instances, starting_instances, deleting_instances,
                       cpTodo, ready, doomed, gone, executing>>
        /\ cp' = "dead"
    BY <1>17 DEF CpRaise, CpDie, clusterVars, listVars, scanLocals, delLocals
  <2>2. StartingHeld'
    BY <1>2, <2>1 DEF StartingHeld, Apart
  <2>3. DeletingHeld'
    BY <1>2, <2>1 DEF DeletingHeld, Apart
  <2> QED  BY <1>1, <1>3, <1>17, <2>1, <2>2, <2>3 DEF Owned
<1> QED
  BY <1>4, <1>5, <1>6, <1>7, <1>8, <1>9, <1>10, <1>11, <1>12, <1>13, <1>14, <1>15, <1>16, <1>17
     DEF CpStep

(* The job poller.                                                         *)
LEMMA JobPollerOwns ==
    ASSUME TypeInv, Owned, JpStep,
           UNCHANGED <<cp, cpTodo, ready, doomed, cursor, gone, executing, killing, fo>>
    PROVE  Owned'
<1> USE DEF TypeInv, TypeOK, RCTypeOK, CpTypeOK, JpTypeOK
<1>1. NoRequests'
  BY DEF Owned, NoRequests
<1>2. ListsOwned /\ StartingHeld /\ DeletingHeld /\ NodeHeld
  BY DEF Owned
<1> DEFINE SameLists == UNCHANGED <<existing_instances, starting_instances, deleting_instances>>
           SameCloud == \A v \in VMs : cloud[v] # "none" => cloud'[v] # "none"
<1>3. ASSUME SameLists, SameCloud, NodeHeld' PROVE Owned'
  <2>1. ListsOwned' /\ StartingHeld' /\ DeletingHeld'
    BY <1>2, <1>3, ListsFrame, StartingFrame, DeletingFrame
  <2> QED  BY <1>1, <1>3, <2>1 DEF Owned
<1>4. CASE \/ JpPoll \/ JpRaise \/ JpDecide \/ JpStop \/ JpDumpNext \/ JpDumpEnd
           \/ (\E v \in VMs : SkipNode(v)) \/ IdleWrap \/ JpScanEnd \/ Determine \/ Extend
  <2>1. UNCHANGED <<cloud, existing_instances, starting_instances, deleting_instances>>
    BY <1>4 DEF JpPoll, JpRaise, JpDecide, JpStop, JpDumpNext, JpDumpEnd, jpFileKeep,
         SkipNode, IdleWrap, JpScanEnd, Determine,
         Extend, jpKeep, clusterVars, centerVars, listVars
  <2>2. jp' \notin {"idleKill", "idleUnlist", "idleRemove", "retire"} /\ jpVm' \in {jpVm, {}}
    BY <1>4 DEF JpPoll, JpRaise, JpDecide, JpStop, JpDumpNext, JpDumpEnd, jpFileKeep,
         SkipNode, IdleWrap, JpScanEnd, Determine, Extend
  <2>3. NodeHeld'
    BY <1>2, <2>2 DEF NodeHeld
  <2> QED  BY <1>3, <2>1, <2>3
<1>5. ASSUME NEW v \in VMs, Inspect(v) PROVE Owned'
  <2>1. UNCHANGED <<cloud, existing_instances, starting_instances, deleting_instances>>
    BY <1>5 DEF Inspect, Hold, listVars
  <2>2. /\ In(v, existing_instances) /\ jp = "scan"
        /\ jpVm' = {v} \/ (jp' = jp /\ jpVm' = jpVm)
    BY <1>5 DEF Inspect
  <2>3. NodeHeld'
    BY <1>2, <2>1, <2>2 DEF NodeHeld
  <2> QED  BY <1>3, <2>1, <2>3
<1>6. ASSUME NEW v \in VMs, IdleKill(v) \/ IdleUnlist(v) PROVE Owned'
  <2>1. /\ SameLists /\ jpVm' = jpVm /\ jp \in {"idleKill", "idleUnlist"}
    BY <1>6 DEF IdleKill, IdleUnlist, centerVars, listVars
  <2>2. SameCloud
    BY <1>6, TakenIsBorn DEF IdleKill, IdleUnlist, clusterVars
  <2>3. NodeHeld'
    BY <1>2, <2>1 DEF NodeHeld
  <2> QED  BY <1>3, <2>1, <2>2, <2>3
<1>7. ASSUME NEW v \in VMs, IdleRemove(v) \/ Retire(v) PROVE Owned'
  <2>1. /\ v \in jpVm /\ In(v, existing_instances)
        /\ ~In(v, starting_instances) /\ ~In(v, deleting_instances)
    BY <1>2, <1>7 DEF IdleRemove, Retire, NodeHeld, ListsOwned, Apart
  <2>2. /\ UNCHANGED <<cloud, starting_instances>>
        /\ existing_instances' = RemoveFirst(existing_instances, v)
        /\ deleting_instances' \in {deleting_instances, Append(deleting_instances, v)}
        /\ jp' \in {"idleWrap", "scan"} /\ jpVm' \in {jpVm, {}}
    BY <1>7, <2>1 DEF IdleRemove, Retire, TakeOut, clusterVars
  <2>3. /\ Distinct(existing_instances')
        /\ \A x : In(x, existing_instances') <=> In(x, existing_instances) /\ x # v
    BY <1>2, <2>1, <2>2, RemoveFirstDistinct DEF ListsOwned
  <2>4. /\ Distinct(Append(deleting_instances, v))
        /\ \A x : In(x, Append(deleting_instances, v)) <=> In(x, deleting_instances) \/ x = v
    BY <1>2, <2>1, AppendIn, AppendDistinct DEF ListsOwned
  <2>5. /\ Distinct(deleting_instances')
        /\ \A x : In(x, deleting_instances') => In(x, deleting_instances) \/ x = v
    BY <1>2, <2>2, <2>4 DEF ListsOwned
  <2>6. ListsOwned'
    BY <1>2, <2>1, <2>2, <2>3, <2>5 DEF ListsOwned, Apart, Listed
  <2>7. StartingHeld' /\ DeletingHeld'
    BY <1>2, <2>2, StartingFrame, DeletingFrame
  <2>8. NodeHeld'
    BY <1>2, <2>2 DEF NodeHeld
  <2> QED  BY <1>1, <2>6, <2>7, <2>8 DEF Owned
<1> QED
  BY <1>4, <1>5, <1>6, <1>7 DEF JpStep

(* Nobody kills nodes, so the info server and the main thread leave the    *)
(* lists alone, as the cloud and Torque always do.                         *)
LEMMA OthersOwn ==
    ASSUME TypeInv, Attended, Attended', Owned,
           UNCHANGED <<cp, cpTodo, ready, doomed, cursor, gone, executing, jp, jpVm>>,
           \/ InfoStep \/ (\E c \in Callers : ForceoffStep(c)) \/ MainStep
           \/ (\E v \in VMs : ClusterStep(v))
    PROVE  Owned'
<1> USE DEF TypeInv, TypeOK, RCTypeOK, JpTypeOK
<1>1. killing = {} /\ \A c \in Callers : fo[c] = "idle"
  BY DEF Owned, NoRequests
<1>2. ~ \E c \in Callers : ForceoffStep(c)
  BY <1>1 DEF ForceoffStep, ForceoffLoopEnd, ForceoffExisting, ForceoffMoveExisting,
       ForceoffStarting, ForceoffMoveStarting
<1>3. ~MainStep
  BY DEF MainStep, MainQuit, MainExit, Attended
<1>4. InfoStep => ToggleSleepMode
  BY <1>1 DEF InfoStep, ForceoffRequest, KillBegin, KillHold, KillMove, Attended
<1>5. UNCHANGED <<existing_instances, starting_instances, deleting_instances, killing, fo>>
  BY <1>2, <1>3, <1>4 DEF ToggleSleepMode, ClusterStep, centerVars, listVars, controlVars, foVars
<1>6. \A v \in VMs : cloud[v] # "none" => cloud'[v] # "none"
  <2>1. CASE ToggleSleepMode
    BY <2>1 DEF ToggleSleepMode, clusterVars
  <2>2. ASSUME NEW v \in VMs, Environment(v) PROVE \A u \in VMs : cloud[u] # "none" => cloud'[u] # "none"
    <3>1. CASE Progress(v) \/ Fail(v) \/ Vanish(v) \/ GoDown(v)
      BY <3>1 DEF Progress, Fail, Vanish, GoDown, MoveServer, ClusterTypeOK
    <3>2. CASE TimePasses(v) \/ JobStart(v) \/ JobEnd(v)
      BY <3>2 DEF TimePasses, JobStart, JobEnd
    <3> QED  BY <2>2, <3>1, <3>2 DEF Environment
  <2> QED  BY <1>2, <1>3, <1>4, <2>1, <2>2 DEF ClusterStep
<1>7. ListsOwned' /\ StartingHeld' /\ DeletingHeld' /\ NodeHeld'
  BY <1>5, <1>6, ListsFrame, StartingFrame, DeletingFrame, NodeFrame DEF Owned
<1> QED  BY <1>5, <1>7 DEF Owned, NoRequests

-----------------------------------------------------------------------------
(* The daemon.                                                             *)

(* main() does not go back.                                                *)
LEMMA MainOnward == [Next]_vars => (main' \in {"boot", "run"} => main \in {"boot", "run"})
<1> SUFFICES ASSUME [Next]_vars, main' \in {"boot", "run"} PROVE main \in {"boot", "run"}
  OBVIOUS
<1>1. CASE CpStep
  <2>1. CASE LaunchBegin \/ LaunchEnd
    BY <2>1 DEF LaunchBegin, LaunchEnd
  <2>2. CASE ~(LaunchBegin \/ LaunchEnd)
    BY <1>1, <2>2 DEF CpStep, CpPoll, CpStop, CheckBuilding, JoinOk, JoinFail, CheckJoined, ScanEnd,
         Settle, Reap, ReapMove, ReapEnd, Wrap, ProvOff, CpDumpNext, CpDumpEnd, fileKeep, Launch, CleanupBegin, DelRead, DelAct, DelEnd, Bury,
         Back, ReleaseNode, CleanupEnd, WrapDel, Relaunch, CpRaise, centerVars, flagVars, fileVars, flagsButFile, rcButLock
  <2> QED  BY <2>1, <2>2
<1>2. CASE JpStep
  BY <1>2 DEF JpStep, JpPoll, JpRaise, JpDecide, JpStop, JpDumpNext, JpDumpEnd, jpFileKeep,
         SkipNode, Inspect, IdleKill, IdleUnlist,
       IdleRemove, IdleWrap, Retire, JpScanEnd, Determine, Extend, jpKeep, centerVars, flagVars, fileVars, flagsButFile
<1>3. CASE InfoStep \/ MainStep
  BY <1>3 DEF InfoStep, ToggleSleepMode, ForceoffRequest, KillBegin, KillHold, KillMove,
       MainStep, MainQuit, MainExit, centerVars, flagVars, fileVars, flagsButFile
<1>4. ASSUME NEW c \in Callers, ForceoffStep(c) PROVE main \in {"boot", "run"}
  BY <1>4 DEF ForceoffStep, ForceoffLoopEnd, ForceoffExisting, ForceoffMoveExisting,
       ForceoffStarting, ForceoffMoveStarting, centerVars, flagVars, fileVars, flagsButFile
<1>5. CASE (\E v \in VMs : ClusterStep(v)) \/ UNCHANGED vars
  BY <1>5 DEF ClusterStep, vars, centerVars, flagVars, fileVars, flagsButFile
<1> QED
  BY <1>1, <1>2, <1>3, <1>4, <1>5 DEF Next, CloudPollerStep, JobPollerStep, InfoServerStep, ForceoffBy

LEMMA InitOwned == Init => OwnerInv
<1> SUFFICES ASSUME Init PROVE OwnerInv
  OBVIOUS
<1> USE DEF Init, RCInit, CpInit, JpInit, ControlInit
<1>1. TypeInv
  BY InitTypes
<1>2. ListsOwned
  <2>1. existing_instances \in Seq(Loaded) /\ Distinct(existing_instances)
    <3>1. Cardinality(Loaded) \in Nat
      BY VMsAssumption, LoadedAssumption, FS_Subset, FS_CardinalityType
    <3>2. /\ existing_instances \in [1 .. Cardinality(Loaded) -> Loaded]
          /\ \A i, j \in 1 .. Cardinality(Loaded) :
                i # j => existing_instances[i] # existing_instances[j]
      BY DEF SetToSeqs
    <3>3. Len(existing_instances) = Cardinality(Loaded)
      BY <3>1, <3>2
    <3> QED  BY <3>1, <3>2, <3>3 DEF Distinct
  <2>2. \A v \in VMs : In(v, existing_instances) => v \in Loaded
    BY <2>1 DEF In
  <2>3. starting_instances = <<>> /\ deleting_instances = <<>>
    OBVIOUS
  <2>4. \A v \in Loaded \cap VMs : cloud[v] = "ready"
    OBVIOUS
  <2> HIDE DEF Init, RCInit, CpInit, JpInit, ControlInit
  <2> QED  BY <2>1, <2>2, <2>3, <2>4, EmptyList DEF ListsOwned, Apart, Listed
<1>3. StartingHeld
  BY EmptyList DEF StartingHeld, Apart
<1>4. DeletingHeld
  BY EmptyList DEF DeletingHeld, Apart
<1>5. NodeHeld /\ NoRequests
  BY DEF NodeHeld, NoRequests
<1> QED  BY <1>1, <1>2, <1>3, <1>4, <1>5 DEF OwnerInv, Owned

LEMMA NextOwned == OwnerInv /\ [Next]_vars => OwnerInv'
<1> SUFFICES ASSUME OwnerInv, [Next]_vars PROVE OwnerInv'
  OBVIOUS
<1>1. TypeInv /\ TypeInv'
  BY NextTypes DEF OwnerInv
<1>2. Attended' => Attended
  BY MainOnward DEF Attended
<1>3. ASSUME Attended' PROVE Owned'
  <2>1. Attended /\ Owned
    BY <1>2, <1>3 DEF OwnerInv
  <2>2. CASE CloudPollerStep
    BY <1>1, <2>1, <2>2, CloudPollerOwns DEF CloudPollerStep, jpVars, controlVars, foVars
  <2>3. CASE JobPollerStep
    BY <1>1, <2>1, <2>3, JobPollerOwns DEF JobPollerStep, cpVars, controlVars, foVars
  <2>4. CASE \/ InfoServerStep \/ MainStep
             \/ (\E c \in Callers : ForceoffBy(c)) \/ (\E v \in VMs : ClusterStep(v))
    <3>1. UNCHANGED <<cp, cpTodo, ready, doomed, cursor, gone, executing, jp, jpVm>>
      BY <2>4 DEF InfoServerStep, MainStep, ForceoffBy, ClusterStep, cpVars, jpVars
    <3> QED  BY <1>1, <1>3, <2>1, <2>4, <3>1, OthersOwn DEF InfoServerStep, ForceoffBy
  <2>5. CASE UNCHANGED vars
    <3>1. UNCHANGED <<cloud, existing_instances, starting_instances, deleting_instances,
                      cp, cpTodo, ready, doomed, cursor, gone, executing, jp, jpVm, killing, fo>>
      BY <2>5 DEF vars, clusterVars, centerVars, listVars, cpVars, jpVars, controlVars, foVars
    <3>2. deleting_instances \in Seq(VMs) /\ jpVm \subseteq VMs
      BY <1>1 DEF TypeInv, TypeOK, RCTypeOK, JpTypeOK
    <3> QED  BY <2>1, <3>1, <3>2, ListsFrame, StartingFrame, DeletingFrame, NodeFrame
             DEF Owned, NoRequests
  <2> QED  BY <2>2, <2>3, <2>4, <2>5 DEF Next
<1>4. ASSUME Undisturbed PROVE main' \in {"boot", "run"} /\ jp' # "dead" /\ cp' # "dead"
  <2>1. /\ main \in {"boot", "run"} /\ jp # "dead" /\ cp # "dead" /\ Owned
    BY <1>4 DEF OwnerInv, Attended, Undisturbed
  <2>2. CASE CloudPollerStep
    <3>1. main' = main \/ main' = "run"
      <4>1. CASE LaunchBegin \/ LaunchEnd
        BY <4>1 DEF LaunchBegin, LaunchEnd
      <4>2. CASE ~(LaunchBegin \/ LaunchEnd)
        BY <2>2, <4>2 DEF CloudPollerStep, CpStep, CpPoll, CpStop, CheckBuilding, JoinOk, JoinFail,
             CheckJoined, ScanEnd, Settle, Reap, ReapMove, ReapEnd, Wrap, ProvOff, CpDumpNext, CpDumpEnd, fileKeep, Launch, CleanupBegin,
             DelRead, DelAct, DelEnd, Bury, Back, ReleaseNode, CleanupEnd, WrapDel,
             Relaunch, CpRaise, centerVars, flagVars, fileVars, flagsButFile, rcButLock
      <4> QED  BY <4>1, <4>2
    <3>2. ~CpRaise
      BY <1>4 DEF CpRaise, Undisturbed
    <3>3. cp' # "dead"
      BY <1>1, <2>1, <2>2, <3>2, CloudPollerOwns DEF CloudPollerStep, jpVars, controlVars, foVars
    <3> QED  BY <2>1, <2>2, <3>1, <3>3 DEF CloudPollerStep, jpVars
  <2>3. CASE JobPollerStep
    <3>1. main' = main
      BY <2>3 DEF JobPollerStep, JpStep, JpPoll, JpRaise, JpDecide, JpStop, JpDumpNext, JpDumpEnd, jpFileKeep,
         SkipNode, Inspect,
           IdleKill, IdleUnlist, IdleRemove, IdleWrap, Retire, JpScanEnd, Determine, Extend,
           jpKeep, centerVars, flagVars, fileVars, flagsButFile
    <3>2. ~JpRaise
      BY <1>4 DEF JpRaise, Undisturbed
    <3>3. \A v \in VMs : IdleRemove(v) \/ Retire(v) => jp' # "dead"
      BY <2>1 DEF IdleRemove, Retire, Owned, NodeHeld
    <3>4. jp' # "dead"
      BY <2>1, <2>3, <3>2, <3>3 DEF JobPollerStep, JpStep, JpPoll, JpDecide, JpStop, JpDumpNext, JpDumpEnd, jpFileKeep,
         SkipNode, Inspect,
           IdleKill, IdleUnlist, IdleWrap, JpScanEnd, Determine, Extend
    <3>5. cp' = cp
      BY <2>3 DEF JobPollerStep, cpVars
    <3> QED  BY <2>1, <3>1, <3>4, <3>5
  <2>4. CASE InfoServerStep
    <3>1. ToggleSleepMode
      BY <1>4, <2>1, <2>4 DEF InfoServerStep, InfoStep, ForceoffRequest, KillBegin, KillHold, KillMove,
           Undisturbed, Owned, NoRequests
    <3> QED  BY <2>1, <2>4, <3>1 DEF ToggleSleepMode, InfoServerStep, cpVars, jpVars
  <2>5. ASSUME NEW c \in Callers, ForceoffBy(c) PROVE FALSE
    BY <2>1, <2>5 DEF ForceoffBy, ForceoffStep, ForceoffLoopEnd, ForceoffExisting, ForceoffMoveExisting,
         ForceoffStarting, ForceoffMoveStarting, Owned, NoRequests
  <2>6. ~MainStep
    BY <1>4, <2>1 DEF MainStep, MainQuit, MainExit, Died, Undisturbed, Owned
  <2>7. CASE (\E v \in VMs : ClusterStep(v)) \/ UNCHANGED vars
    BY <2>1, <2>7 DEF ClusterStep, vars, centerVars, flagVars, fileVars, flagsButFile, cpVars, jpVars
  <2> QED  BY <2>2, <2>3, <2>4, <2>5, <2>6, <2>7 DEF Next
<1> QED
  BY <1>1, <1>3, <1>4 DEF OwnerInv, Undisturbed

-----------------------------------------------------------------------------

(* A list without repetitions has a VM at most once.                       *)
LEMMA OnceInList ==
    ASSUME NEW s \in Seq(VMs), Distinct(s), NEW v
    PROVE  /\ Occurrences(v, s) \in {0, 1}
           /\ ~In(v, s) => Occurrences(v, s) = 0
<1> DEFINE At == {i \in 1 .. Len(s) : s[i] = v}
<1>1. CASE In(v, s)
  <2>1. PICK k \in 1 .. Len(s) : s[k] = v
    BY <1>1 DEF In
  <2>2. At = {k}
    BY <2>1 DEF Distinct
  <2> QED  BY <1>1, <2>2, FS_Singleton DEF Occurrences
<1>2. CASE ~In(v, s)
  <2>1. At = {}
    BY <1>2 DEF In
  <2> QED  BY <2>1, FS_EmptySet DEF Occurrences
<1> QED  BY <1>1, <1>2

(* A VM with one owner is counted once.                                    *)
LEMMA OwnedOnce == OwnerInv => OneOwner
<1> SUFFICES ASSUME OwnerInv, Undisturbed, NEW v \in VMs PROVE TimesListed(v) <= 1
  BY DEF OneOwner
<1>1. ListsOwned
  BY DEF OwnerInv, Attended, Undisturbed, Owned
<1>2. /\ existing_instances \in Seq(VMs) /\ starting_instances \in Seq(VMs)
      /\ deleting_instances \in Seq(VMs)
  BY DEF OwnerInv, TypeInv, TypeOK, RCTypeOK
<1>3. /\ Occurrences(v, existing_instances) \in {0, 1}
      /\ Occurrences(v, starting_instances) \in {0, 1}
      /\ Occurrences(v, deleting_instances) \in {0, 1}
      /\ ~In(v, existing_instances) => Occurrences(v, existing_instances) = 0
      /\ ~In(v, starting_instances) => Occurrences(v, starting_instances) = 0
      /\ ~In(v, deleting_instances) => Occurrences(v, deleting_instances) = 0
  BY <1>1, <1>2, OnceInList DEF ListsOwned
<1> QED  BY <1>1, <1>3 DEF TimesListed, ListsOwned, Apart

(* Undisturbed, a VM has one owner: it is in at most one of the three      *)
(* lists, and there once, for any number of VMs and under every fault of   *)
(* a call whose failure is caught, although the pollers look at the lists in one  *)
(* section and change them in another.                                     *)
THEOREM OneOwnerAlways == Spec => []OneOwner
BY OwnedOnce, InitOwned, NextOwned, PTL DEF Spec

(* Undisturbed, neither poller ever ends with an exception: the list that  *)
(* is looked at in one section still has the VM when it is removed in      *)
(* another, under every fault of a call whose failure is caught.           *)
THEOREM PollersAlwaysSurvive == Spec => []PollersSurvive
<1>1. OwnerInv => PollersSurvive
  BY DEF OwnerInv, PollersSurvive, Died
<1> QED  BY <1>1, InitOwned, NextOwned, PTL DEF Spec

-----------------------------------------------------------------------------
(***************************************************************************)
(* check_cleanup takes no node away from a running job (CleanupSparesJobs) *)
(* for every set of VMs, as long as nobody kills nodes, holding a node     *)
(* works, and nodes neither come back after they went down nor stay in     *)
(* Torque when they could not be added.  The answers of pbsnodes and       *)
(* checknode are old when they are acted on; the inductive invariant says  *)
(* why that does no harm: a VM on its way out has failed, or it has no job *)
(* and no job can be put on it any more, because it is held or not in      *)
(* Torque.  The invariant is also true of a daemon that has been started   *)
(* again, if the cloud does not refuse to destroy a server: such a daemon  *)
(* has VMs to join that Torque knows, and may find jobs on nodes that are  *)
(* being destroyed (RecoveryProofs).                                       *)
(***************************************************************************)

Guarded == Attended /\ Faults \cap {"hold", "down", "add"} = {}

Failed  == {"error", "deleting", "gone"}
HasBooted == {"ready"} \cup Failed

(* Jobs run on nodes of Torque, and these are servers that have booted.    *)
Placed ==
    \A v \in VMs : /\ jobs[v] > 0 => v \in inTorque
                   /\ v \in inTorque => cloud[v] \in HasBooted

(* A VM that is not joined to the cluster yet is unknown to Torque, or it  *)
(* will be destroyed before it is to leave.                                *)
Fresh(v) == v \notin inTorque \/ "destroy" \notin Faults

(* The server is lost, or no job runs on the node and none can be put on   *)
(* it.                                                                     *)
Spent(v) == cloud[v] \in Failed \/ (jobs[v] = 0 /\ (v \notin inTorque \/ v \in offline))

(* A starting VM is not polled (state_time) before it is in use, and it is *)
(* spent when it is given up.                                              *)
Newcomers ==
    /\ \A v \in VMs : cloud[v] = "none" => ~vm[v].cloud_ready /\ vm[v].state_time = NoTime
    /\ \A v \in VMs : In(v, starting_instances) =>
                        vm[v].state_time = NoTime /\ (vm[v].cloud_ready \/ Fresh(v))
    /\ \A v \in VMs : In(v, doomed) => Fresh(v)
    /\ cp = "join" => /\ Fresh(Head(cpTodo)) /\ cloud[Head(cpTodo)] \in HasBooted
                      /\ vm[Head(cpTodo)].cloud_ready
    /\ cp = "reapMove" => Spent(Head(doomed))

(* VMs that leave are spent; one that has jobs again when check_cleanup    *)
(* looks at it has failed.                                                 *)
Departing ==
    /\ \A v \in VMs : In(v, deleting_instances) => Spent(v)
    /\ \A v \in VMs : In(v, executing) => cloud[v] \in Failed
    /\ jp = "retire" => \A v \in jpVm : Spent(v)

(* A node that pbsnodes has shown to be down is lost for good.             *)
Lost(v) == jobs[v] = 0 /\ cloud[v] \in Failed

Answers == \A v \in VMs : worker_nodes[v] = "down" \/ jpNodes[v] = "down" => Lost(v)

JobsKept == Placed /\ Newcomers /\ Departing /\ Answers /\ lost = {}

JobInv == OwnerInv /\ (Guarded => JobsKept)
-----------------------------------------------------------------------------
(* What a step may do to the cluster: jobs and nodes go, and what is lost  *)
(* or held stays so.                                                       *)
Settles ==
    /\ Placed'
    /\ \A v \in VMs : /\ v \notin inTorque => v \notin inTorque'
                      /\ cloud[v] # "none" => cloud'[v] # "none"
                      /\ cloud[v] \in HasBooted => cloud'[v] \in HasBooted
                      /\ cloud[v] \in Failed => cloud'[v] \in Failed
                      /\ Spent(v) => Spent(v)'
                      /\ Lost(v) => Lost(v)'

LEMMA SameClusterSettles == Placed /\ UNCHANGED clusterVars => Settles
BY DEF Settles, Placed, Spent, Lost, clusterVars

LEMMA HoldSettles ==
    ASSUME Placed, NEW v, NEW ok, Hold(v, ok)
    PROVE  Settles
BY DEF Settles, Placed, Spent, Lost, Hold

LEMMA TakeAwaySettles ==
    ASSUME ClusterTypeOK, Placed, NEW v \in VMs, NEW removed, NEW destroyed,
           TakeAway(v, removed, destroyed)
    PROVE  Settles
<1> USE DEF ClusterTypeOK
<1>1. \A u \in VMs : /\ cloud'[u] = cloud[u] \/ (cloud[u] \in Live /\ cloud'[u] = "deleting")
                     /\ jobs'[u] \in {jobs[u], 0}
  BY NpAssumption DEF TakeAway
<1>2. \A u \in VMs : u # v => (u \in inTorque' <=> u \in inTorque) /\ (u \in offline' <=> u \in offline)
  BY DEF TakeAway
<1>3. \/ UNCHANGED <<inTorque, offline, jobs>>
      \/ v \notin inTorque' /\ jobs'[v] = 0
  BY DEF TakeAway
<1>4. inTorque' \subseteq inTorque
  BY DEF TakeAway
<1>5. \A u \in VMs : jobs'[u] > 0 => jobs[u] > 0
  BY <1>1, NpAssumption
<1> QED  BY <1>1, <1>2, <1>3, <1>4, <1>5 DEF Settles, Placed, Spent, Lost, HasBooted, Failed, Live

LEMMA EnvironmentSettles ==
    ASSUME ClusterTypeOK, Placed, "down" \notin Faults, NEW v \in VMs, Environment(v)
    PROVE  Settles
<1> USE DEF ClusterTypeOK, Settles, Placed, Spent, Lost
<1>1. CASE Progress(v) \/ Fail(v) \/ Vanish(v)
  <2>1. /\ \A u \in VMs : u # v => cloud'[u] = cloud[u]
        /\ UNCHANGED <<inTorque, offline, jobs>>
    BY <1>1 DEF Progress, Fail, Vanish, MoveServer
  <2>2. \/ cloud[v] \in {"build", "init"} /\ cloud'[v] \in {"init", "ready", "error", "gone"}
        \/ cloud[v] \in HasBooted /\ cloud'[v] \in Failed
    BY <1>1 DEF Progress, Fail, Vanish, MoveServer, Live, HasBooted, Failed
  <2> QED  BY <2>1, <2>2 DEF HasBooted, Failed
<1>2. CASE TimePasses(v)
  BY <1>2 DEF TimePasses
<1>3. CASE JobStart(v)
  <2>1. /\ v \in inTorque /\ cloud[v] = "ready" /\ v \notin offline
        /\ UNCHANGED <<cloud, inTorque, offline>> /\ \A u \in VMs : u # v => jobs'[u] = jobs[u]
    BY <1>3 DEF JobStart, Up
  <2> QED  BY <2>1 DEF Failed
<1>4. CASE JobEnd(v)
  <2>1. UNCHANGED <<cloud, inTorque, offline>> /\ jobs' = [jobs EXCEPT ![v] = @ - 1] /\ jobs[v] > 0
    BY <1>4 DEF JobEnd
  <2>2. \A u \in VMs : /\ jobs[u] = 0 => jobs'[u] = 0
                       /\ jobs'[u] > 0 => jobs[u] > 0
    BY <2>1, NpAssumption
  <2> QED  BY <2>1, <2>2
<1>5. ~GoDown(v)
  BY DEF GoDown
<1> QED  BY <1>1, <1>2, <1>3, <1>4, <1>5 DEF Environment

-----------------------------------------------------------------------------
(* Frames.                                                                 *)

SameAge(v) == vm'[v].state_time = vm[v].state_time /\ vm'[v].cloud_ready = vm[v].cloud_ready

(* A step that lets a VM in only if it is known to be without jobs, and    *)
(* trusts no new answer that is not true for good.                         *)
LEMMA JobFrame ==
    ASSUME JobsKept, Settles,
           \A v \in VMs : In(v, starting_instances) \/ cloud[v] = "none" => SameAge(v),
           \A v \in VMs : In(v, starting_instances') => In(v, starting_instances) \/ cloud[v] = "none",
           \A v \in VMs : In(v, doomed') => In(v, doomed),
           \A v \in VMs : In(v, deleting_instances') => In(v, deleting_instances) \/ Spent(v),
           \A v \in VMs : In(v, executing') => In(v, executing) \/ cloud[v] \in Failed,
           cp' = "reapMove" => \E v \in VMs :
              v = Head(doomed') /\ (Spent(v)' \/ (cp = "reapMove" /\ v = Head(doomed))),
           cp' = "join" => /\ cp = "join" /\ cpTodo' = cpTodo /\ Head(cpTodo) \in VMs
                           /\ In(Head(cpTodo), starting_instances),
           jp' = "retire" => \A v \in jpVm' : v \in VMs /\ (Spent(v) \/ (jp = "retire" /\ v \in jpVm)),
           \A v \in VMs : worker_nodes'[v] = "down" \/ jpNodes'[v] = "down"
                            => worker_nodes[v] = "down" \/ jpNodes[v] = "down" \/ Lost(v),
           UNCHANGED lost
    PROVE  JobsKept'
<1>1. Placed'
  BY DEF Settles
<1>2. Newcomers'
  <2>1. \A v \in VMs : cloud'[v] = "none" => ~vm'[v].cloud_ready /\ vm'[v].state_time = NoTime
    BY DEF JobsKept, Newcomers, Settles, SameAge
  <2>2. \A v \in VMs : In(v, starting_instances') =>
                        vm'[v].state_time = NoTime /\ (vm'[v].cloud_ready \/ Fresh(v)')
    <3>1. \A v \in VMs : cloud[v] = "none" => v \notin inTorque
      BY DEF JobsKept, Placed, HasBooted, Failed
    <3> QED  BY <3>1 DEF JobsKept, Newcomers, Settles, SameAge, Fresh
  <2>3. \A v \in VMs : In(v, doomed') => Fresh(v)'
    BY DEF JobsKept, Newcomers, Settles, Fresh
  <2>4. cp' = "join" => /\ Fresh(Head(cpTodo))' /\ cloud'[Head(cpTodo')] \in HasBooted
                        /\ vm'[Head(cpTodo')].cloud_ready
    BY DEF JobsKept, Newcomers, Settles, SameAge, Fresh
  <2>5. cp' = "reapMove" => Spent(Head(doomed))'
    <3> SUFFICES ASSUME cp' = "reapMove" PROVE Spent(Head(doomed))'
      OBVIOUS
    <3>1. PICK v \in VMs : v = Head(doomed') /\ (Spent(v)' \/ (cp = "reapMove" /\ v = Head(doomed)))
      OBVIOUS
    <3>2. cp = "reapMove" /\ v = Head(doomed) => Spent(v)
      BY DEF JobsKept, Newcomers, Spent
    <3>3. Spent(v)'
      BY <3>1, <3>2 DEF Settles
    <3> QED  BY <3>1, <3>3 DEF Spent
  <2> QED  BY <2>1, <2>2, <2>3, <2>4, <2>5 DEF Newcomers, NoTime, Fresh
<1>3. Departing'
  BY DEF JobsKept, Departing, Settles
<1>4. Answers'
  BY DEF JobsKept, Answers, Settles
<1> QED  BY <1>1, <1>2, <1>3, <1>4 DEF JobsKept

(* What an answer of pbsnodes says of a node that is down.                 *)
LEMMA SnapshotLost ==
    ASSUME NEW nodes, ClusterTypeOK,
           \A v \in VMs : v \in nodes => cloud[v] \in HasBooted
    PROVE  \A v \in VMs : Snapshot(nodes)[v] = "down" => Lost(v)
BY NpAssumption DEF Snapshot, ViewIn, Lost, HasBooted, Failed, ClusterTypeOK

-----------------------------------------------------------------------------
(* The cloud poller.                                                       *)
LEMMA CloudPollerKeepsJobs ==
    ASSUME TypeInv, Guarded, Owned, JobsKept, CpStep, UNCHANGED <<jp, jpNodes, jpVm>>
    PROVE  JobsKept'
<1> USE DEF TypeInv, TypeOK, RCTypeOK, CpTypeOK, JpTypeOK, Positioned, CpPositioned
<1>1. /\ ListsOwned /\ StartingHeld /\ DeletingHeld /\ "add" \notin Faults
      /\ Placed /\ Newcomers /\ Departing /\ Answers /\ lost = {}
  BY DEF Owned, JobsKept, Guarded
<1> DEFINE SameLists == UNCHANGED <<existing_instances, starting_instances, deleting_instances>>
           SameHands == UNCHANGED <<worker_nodes, executing, lost>>
<1>2. ASSUME NEW v \in VMs PROVE vm[v] \in VMRecords
  OBVIOUS
<1>3. CASE \/ CpPoll \/ CpStop \/ CheckJoined \/ ScanEnd \/ ReapEnd \/ Wrap \/ ProvOff
           \/ CpDumpNext \/ CpDumpEnd \/ LaunchBegin \/ LaunchEnd
           \/ CleanupBegin \/ DelEnd \/ Bury \/ CleanupEnd \/ WrapDel \/ Relaunch
  <2>1. /\ UNCHANGED <<clusterVars, vm, starting_instances, worker_nodes, executing, lost>>
        /\ cp' \notin {"join", "reapMove"}
    BY <1>3 DEF CpPoll, CpStop, CheckJoined, ScanEnd, ReapEnd, Wrap, ProvOff, CpDumpNext, CpDumpEnd,
         fileKeep, LaunchBegin, LaunchEnd, CleanupBegin, DelEnd, Bury, CleanupEnd, WrapDel, Relaunch,
         CpDie, centerVars, listVars, flagVars, fileVars, flagsButFile, historyVars, rcButLock, delLocals
  <2>2. \A v \in VMs : In(v, deleting_instances') => In(v, deleting_instances)
    <3>1. CASE Bury
      BY <1>1, <3>1, RemoveFirstIn DEF Bury
    <3>2. CASE ~Bury
      BY <1>3, <3>2 DEF CpPoll, CpStop, CheckJoined, ScanEnd, ReapEnd, Wrap, ProvOff, CpDumpNext,
           CpDumpEnd, fileKeep, LaunchBegin, LaunchEnd, CleanupBegin, DelEnd, CleanupEnd, WrapDel,
           Relaunch, centerVars, listVars
    <3> QED  BY <3>1, <3>2
  <2>3. doomed' = doomed
    <3>1. CASE CheckJoined
      <4>1. /\ Head(cpTodo) \in VMs /\ In(Head(cpTodo), starting_instances)
        BY <1>1, <3>1, TailIn DEF CheckJoined, StartingHeld
      <4>2. ~(vm[Head(cpTodo)].state_time > MaxInaccessible)
        BY <1>1, <4>1, TimesAssumption DEF Newcomers, NoTime
      <4> QED  BY <3>1, <4>2 DEF CheckJoined
    <3>2. CASE ~CheckJoined
      BY <1>3, <3>2 DEF CpPoll, CpStop, ScanEnd, ReapEnd, Wrap, ProvOff, CpDumpNext, CpDumpEnd,
           fileKeep, LaunchBegin, LaunchEnd, CleanupBegin, DelEnd, Bury, CleanupEnd, WrapDel,
           Relaunch, scanLocals
    <3> QED  BY <3>1, <3>2
  <2> QED  BY <1>1, <2>1, <2>2, <2>3, JobFrame, SameClusterSettles DEF SameAge, Departing
<1>4. CASE CheckBuilding
  <2>1. PICK v \in VMs : v = Head(cpTodo) /\ In(v, cpTodo)
    BY <1>4, TailIn DEF CheckBuilding
  <2>2. PICK s \in VmCheck(v) :
          /\ vm' = [vm EXCEPT ![v] = [Checked(@, s) EXCEPT !.cloud_ready = (s = 0)]]
          /\ cp' = IF s = 0 THEN "join" ELSE "scan"
          /\ cpTodo' = IF s = 0 THEN cpTodo ELSE Tail(cpTodo)
          /\ doomed' = IF s \in {3, 4} \/ (s \in {1, 2} /\ v \in overdue)
                       THEN Append(doomed, v) ELSE doomed
    BY <1>4, <2>1 DEF CheckBuilding
  <2>3. /\ UNCHANGED <<clusterVars, existing_instances, starting_instances, deleting_instances,
                       worker_nodes, executing, lost>> /\ ~vm[v].cloud_ready
    BY <1>4, <2>1 DEF CheckBuilding, listVars, flagVars, fileVars, flagsButFile, historyVars, delLocals
  <2>4. In(v, starting_instances) /\ Fresh(v) /\ cloud[v] # "none"
    BY <1>1, <2>1, <2>3 DEF StartingHeld, Newcomers, ListsOwned, Listed
  <2>5. /\ vm'[v].state_time = vm[v].state_time
        /\ \A u \in VMs : u # v => vm'[u] = vm[u]
    BY <2>2 DEF Checked, VMRecords
  <2>6. \A x : In(x, doomed') => In(x, doomed) \/ x = v
    BY <2>2, AppendIn
  <2>7. s = 0 => cloud[v] = "ready"
    BY SMTT(30) DEF VmCheck
  <2>8. Newcomers'
    <3>1. \A u \in VMs : cloud'[u] = "none" => ~vm'[u].cloud_ready /\ vm'[u].state_time = NoTime
      BY <1>1, <2>3, <2>4, <2>5 DEF Newcomers, clusterVars
    <3>2. \A u \in VMs : In(u, starting_instances') =>
                          vm'[u].state_time = NoTime /\ (vm'[u].cloud_ready \/ Fresh(u)')
      BY <1>1, <2>3, <2>4, <2>5 DEF Newcomers, clusterVars, Fresh
    <3>3. \A u \in VMs : In(u, doomed') => Fresh(u)'
      BY <1>1, <2>3, <2>4, <2>6 DEF Newcomers, clusterVars, Fresh
    <3>4. cp' = "join" => /\ Fresh(Head(cpTodo))' /\ cloud'[Head(cpTodo')] \in HasBooted
                          /\ vm'[Head(cpTodo')].cloud_ready
      BY <2>1, <2>2, <2>3, <2>4, <2>7 DEF HasBooted, clusterVars, Checked, VMRecords, Fresh
    <3>5. cp' # "reapMove"
      BY <2>2
    <3> QED  BY <3>1, <3>2, <3>3, <3>4, <3>5 DEF Newcomers, NoTime, Fresh
  <2> QED  BY <1>1, <2>3, <2>8 DEF JobsKept, Placed, Departing, Answers, Spent, Lost, clusterVars
<1>5. CASE JoinOk
  <2>1. PICK v \in VMs : v = Head(cpTodo) /\ In(v, cpTodo)
    BY <1>5, TailIn DEF JoinOk
  <2>2. /\ inTorque' = inTorque \cup {v} /\ offline' = offline \ {v} /\ UNCHANGED <<cloud, jobs>>
        /\ worker_nodes' \in {Snapshot(inTorque \cup {v}), NoNodes} /\ cp' = "scan"
        /\ UNCHANGED <<vm, existing_instances, starting_instances, deleting_instances, doomed,
                       executing, lost>> /\ cp = "join"
    BY <1>5, <2>1 DEF JoinOk, AddNode, listVars, historyVars, delLocals
  <2>3. /\ cloud[v] \in HasBooted
        /\ In(v, starting_instances) /\ ~In(v, deleting_instances) /\ ~In(v, doomed)
        /\ ~In(v, existing_instances)
    BY <1>1, <2>1, <2>2 DEF Newcomers, StartingHeld, ListsOwned, Apart
  <2>4. Placed'
    BY <1>1, <2>2, <2>3 DEF Placed
  <2>5. Newcomers'
    <3>1. vm[v].cloud_ready /\ cloud[v] # "none"
      BY <1>1, <2>1, <2>2, <2>3 DEF Newcomers, HasBooted, Failed
    <3>2. \A u \in VMs : cloud'[u] = "none" => ~vm'[u].cloud_ready /\ vm'[u].state_time = NoTime
      BY <1>1, <2>2 DEF Newcomers
    <3>3. \A u \in VMs : In(u, starting_instances') =>
                          vm'[u].state_time = NoTime /\ (vm'[u].cloud_ready \/ Fresh(u)')
      BY <1>1, <2>2, <3>1 DEF Newcomers, Fresh
    <3>4. \A u \in VMs : In(u, doomed') => Fresh(u)'
      BY <1>1, <2>2, <2>3 DEF Newcomers, Fresh
    <3> QED  BY <2>2, <3>2, <3>3, <3>4 DEF Newcomers, NoTime, Fresh
  <2>6. Departing'
    <3>1. \A u \in VMs : In(u, deleting_instances) => u # v
      BY <2>3
    <3>2. jp = "retire" => \A u \in jpVm : u \in VMs /\ u # v
      BY <2>3 DEF Owned, NodeHeld
    <3> QED  BY <1>1, <2>2, <3>1, <3>2 DEF Departing, Spent
  <2>7. Answers'
    <3>1. \A u \in VMs : u \in inTorque \cup {v} => cloud[u] \in HasBooted
      BY <1>1, <2>3 DEF Placed
    <3>2. \A u \in VMs : Snapshot(inTorque \cup {v})[u] = "down" => Lost(u)
      BY <3>1, SnapshotLost
    <3>3. \A u \in VMs : NoNodes[u] = "absent"
      BY DEF NoNodes
    <3>4. \A u \in VMs : worker_nodes'[u] = "down" => Lost(u)
      BY <2>2, <3>2, <3>3
    <3> QED  BY <1>1, <2>2, <3>4 DEF Answers, Lost
  <2> QED  BY <1>1, <2>2, <2>4, <2>5, <2>6, <2>7 DEF JobsKept
<1>6. CASE JoinFail
  <2>1. PICK v \in VMs : v = Head(cpTodo) /\ In(v, cpTodo)
    BY <1>6, TailIn DEF JoinFail
  <2>2. /\ UNCHANGED <<clusterVars, vm, listVars, worker_nodes, executing, lost>>
        /\ doomed' = Append(doomed, v) /\ cp' = "scan" /\ cp = "join"
    BY <1>1, <1>6, <2>1 DEF JoinFail, clusterVars, centerVars, flagVars, fileVars, flagsButFile, historyVars, delLocals
  <2>3. \A u : In(u, doomed') => In(u, doomed) \/ u = v
    BY <2>2, AppendIn
  <2>4. Fresh(v)
    BY <1>1, <2>1, <2>2 DEF Newcomers
  <2>5. Newcomers'
    <3>1. \A u \in VMs : In(u, doomed') => Fresh(u)'
      BY <1>1, <2>2, <2>3, <2>4 DEF Newcomers, Fresh, clusterVars
    <3> QED  BY <1>1, <2>2, <3>1 DEF Newcomers, Fresh, clusterVars, listVars
  <2> QED  BY <1>1, <2>2, <2>5 DEF JobsKept, Placed, Departing, Answers, Spent, Lost, clusterVars,
                                   listVars
<1> DEFINE Steady == \A v \in VMs : SameAge(v)
<1>7. CASE Settle
  <2>1. PICK v \in VMs : v = Head(ready) /\ In(v, starting_instances)
    BY <1>1, <1>7, TailIn DEF Settle, StartingHeld
  <2>2. /\ starting_instances' = RemoveFirst(starting_instances, v)
        /\ vm' = vm \/ vm' = [vm EXCEPT ![v].dynamic = FALSE]
        /\ cp' \notin {"join", "reapMove"}
        /\ UNCHANGED <<clusterVars, deleting_instances, doomed, worker_nodes, executing, lost>>
    BY <1>7, <2>1 DEF Settle, historyVars, delLocals
  <2>3. Steady
    <3>1. CASE vm' = vm
      BY <3>1 DEF SameAge
    <3>2. CASE vm' = [vm EXCEPT ![v].dynamic = FALSE]
      BY <3>2 DEF SameAge, VMRecords
    <3> QED  BY <2>2, <3>1, <3>2
  <2>4. \A u : In(u, starting_instances') => In(u, starting_instances)
    BY <2>1, <2>2, RemoveFirstIn
  <2> QED  BY <1>1, <2>2, <2>3, <2>4, JobFrame, SameClusterSettles DEF Departing
<1>8. CASE Reap
  <2>1. PICK v \in VMs, ok \in BOOLEAN :
          /\ v = Head(doomed) /\ In(v, doomed) /\ ("destroy" \notin Faults => ok)
          /\ TakeAway(v, FALSE, ok) /\ vm' = [vm EXCEPT ![v].delete_time = @ \/ ok]
    <3>1. PICK v \in VMs : v = Head(doomed) /\ In(v, doomed)
      BY <1>8, TailIn DEF Reap
    <3>2. PICK ok \in Outcomes("destroy") :
            TakeAway(v, FALSE, ok) /\ vm' = [vm EXCEPT ![v].delete_time = @ \/ ok]
      BY <1>8, <3>1 DEF Reap
    <3>3. ok \in BOOLEAN /\ ("destroy" \notin Faults => ok)
      BY DEF Outcomes
    <3> QED  BY <3>1, <3>2, <3>3
  <2>2. /\ UNCHANGED <<starting_instances, deleting_instances, doomed, worker_nodes, executing, lost>>
        /\ cp' # "join"
    BY <1>8 DEF Reap, listVars, flagVars, fileVars, flagsButFile, scanLocals, delLocals
  <2>3. Settles
    BY <1>1, <2>1, TakeAwaySettles
  <2>4. Steady
    BY <2>1 DEF SameAge, VMRecords
  <2>5. Spent(v)'
    <3>1. cloud[v] # "none" /\ Fresh(v) /\ inTorque' = inTorque /\ jobs' = jobs
      BY <1>1, <2>1 DEF StartingHeld, ListsOwned, Listed, Newcomers, TakeAway
    <3>2. CASE v \notin inTorque
      <4>1. jobs[v] = 0
        BY <1>1, <3>2, NpAssumption DEF Placed, ClusterTypeOK
      <4> QED  BY <3>1, <3>2, <4>1 DEF Spent
    <3>3. CASE "destroy" \notin Faults
      <4>1. cloud' = IF cloud[v] \in Live THEN [cloud EXCEPT ![v] = "deleting"] ELSE cloud
        BY <2>1, <3>3 DEF TakeAway
      <4>2. cloud'[v] \in Failed
        BY <3>1, <4>1 DEF ClusterTypeOK, CloudStates, Live, Failed
      <4> QED  BY <4>2 DEF Spent
    <3> QED  BY <3>1, <3>2, <3>3 DEF Fresh
  <2>6. \E u \in VMs : u = Head(doomed') /\ Spent(u)'
    BY <2>1, <2>2, <2>5
  <2> QED  BY <1>1, <2>2, <2>3, <2>4, <2>6, JobFrame DEF Departing
<1>9. CASE ReapMove
  <2>1. PICK v \in VMs : v = Head(doomed) /\ In(v, doomed) /\ In(v, starting_instances)
    BY <1>1, <1>9, TailIn DEF ReapMove, StartingHeld
  <2>2. /\ starting_instances' = RemoveFirst(starting_instances, v)
        /\ deleting_instances' = Append(deleting_instances, v)
        /\ doomed' = Tail(doomed) /\ doomed # <<>> /\ cp = "reapMove"
        /\ cp' \notin {"join", "reapMove"}
        /\ UNCHANGED <<clusterVars, vm, worker_nodes, executing, lost>>
    BY <1>9, <2>1 DEF ReapMove, rcButLock, historyVars, delLocals
  <2>3. Spent(v)
    BY <1>1, <2>1, <2>2 DEF Newcomers
  <2>4. /\ \A u : In(u, starting_instances') => In(u, starting_instances)
        /\ \A u : In(u, deleting_instances') => In(u, deleting_instances) \/ u = v
        /\ \A u : In(u, doomed') => In(u, doomed)
    BY <2>1, <2>2, RemoveFirstIn, AppendIn, TailIn
  <2> QED  BY <1>1, <2>2, <2>3, <2>4, JobFrame, SameClusterSettles DEF SameAge, Departing
<1>10. ASSUME NEW v \in VMs, Launch(v) PROVE JobsKept'
  <2>1. /\ cloud[v] = "none" /\ cloud' = [cloud EXCEPT ![v] = "build"]
        /\ starting_instances' = Append(starting_instances, v) /\ cp' \notin {"join", "reapMove"}
        /\ UNCHANGED <<inTorque, offline, jobs, vm, deleting_instances, doomed, worker_nodes,
                       executing, lost>>
    BY <1>10 DEF Launch, Create, Unborn, flagVars, fileVars, flagsButFile, historyVars, scanLocals, delLocals
  <2>2. \A u \in VMs : u # v => cloud'[u] = cloud[u]
    BY <2>1
  <2>3. v \notin inTorque /\ cloud'[v] # "none" /\ cloud[v] \notin HasBooted /\ cloud[v] \notin Failed
    BY <1>1, <2>1 DEF Placed, HasBooted, Failed, ClusterTypeOK
  <2>4. Settles
    BY <1>1, <2>1, <2>2, <2>3 DEF Settles, Placed, Spent, Lost
  <2>5. \A u : In(u, starting_instances') => In(u, starting_instances) \/ u = v
    BY <2>1, AppendIn
  <2> QED  BY <1>1, <2>1, <2>4, <2>5, JobFrame DEF SameAge, Departing
<1>11. CASE DelRead
  <2>1. PICK v \in VMs : v = deleting_instances[cursor] /\ In(v, deleting_instances)
    BY <1>11 DEF DelRead, In
  <2>2. /\ Spent(v) /\ ~In(v, starting_instances) /\ cloud[v] # "none"
    BY <1>1, <2>1 DEF Departing, ListsOwned, Apart, Listed
  <2>3. PICK s \in VmCheck(v), seen \in BOOLEAN, again \in BOOLEAN :
          /\ vm' = [vm EXCEPT ![v] = Checked(@, s)]
          /\ executing' = IF (IF seen THEN CleanupChoice(v, s, View(v), again) ELSE "none") = "executing"
                          THEN Append(executing, v) ELSE executing
    BY <1>11, <2>1, ZenonT(40) DEF DelRead, Outcomes
  <2>4. View(v) = "busy" => cloud[v] \in Failed
    BY <2>2 DEF View, ViewIn, Spent
  <2>5. \A u \in VMs : In(u, executing') => In(u, executing) \/ cloud[u] \in Failed
    <3>1. CASE executing' = executing
      BY <3>1
    <3>2. CASE executing' # executing
      <4>1. View(v) = "busy" /\ executing' = Append(executing, v)
        BY <2>3, <3>2 DEF CleanupChoice
      <4> QED  BY <2>4, <4>1, AppendIn
    <3> QED  BY <3>1, <3>2
  <2>6. /\ UNCHANGED <<clusterVars, starting_instances, deleting_instances, doomed, worker_nodes, lost>>
        /\ cp' \notin {"join", "reapMove"}
    <3>1. cp' \in {"delAct", cp} /\ cp = "delRead"
      BY <1>11, SMTT(30) DEF DelRead
    <3> QED  BY <1>11, <3>1 DEF DelRead, listVars, flagVars, fileVars, flagsButFile, historyVars, scanLocals
  <2>7. \A u \in VMs : u # v => vm'[u] = vm[u]
    BY <2>3
  <2> QED  BY <1>1, <2>2, <2>5, <2>6, <2>7, JobFrame, SameClusterSettles DEF SameAge, Departing
<1>12. CASE DelAct
  <2>1. PICK v \in VMs, removed \in BOOLEAN, destroyed \in BOOLEAN, d \in BOOLEAN :
          /\ In(v, deleting_instances) /\ TakeAway(v, removed, destroyed)
          /\ vm' = [vm EXCEPT ![v].delete_time = d]
          /\ jobs[v] = 0 \/ cloud[v] # "ready" => UNCHANGED lost
    <3>1. PICK v \in VMs : v = deleting_instances[cursor] /\ In(v, deleting_instances)
      BY <1>12 DEF DelAct, In
    <3>2. PICK removed \in BOOLEAN, ok \in BOOLEAN :
            /\ TakeAway(v, removed /\ todoDel # "destroy", ok /\ todoDel # "remove")
            /\ lost' = IF jobs[v] > 0 /\ cloud[v] = "ready" /\ (inTorque' # inTorque \/ cloud' # cloud)
                       THEN lost \cup {v} ELSE lost
            /\ vm' = [vm EXCEPT ![v].delete_time =
                        @ \/ todoDel = "both" \/ (ok /\ todoDel = "destroy")]
      BY <1>12, <3>1 DEF DelAct, Outcomes
    <3>3. vm' = [vm EXCEPT ![v].delete_time =
                        vm[v].delete_time \/ todoDel = "both" \/ (ok /\ todoDel = "destroy")]
      BY <3>2
    <3>4. jobs[v] = 0 \/ cloud[v] # "ready" => UNCHANGED lost
      BY <3>2
    <3> DEFINE r == removed /\ todoDel # "destroy"
               k == ok /\ todoDel # "remove"
               d == vm[v].delete_time \/ todoDel = "both" \/ (ok /\ todoDel = "destroy")
    <3>5. r \in BOOLEAN /\ k \in BOOLEAN /\ d \in BOOLEAN
      OBVIOUS
    <3>6. TakeAway(v, r, k) /\ vm' = [vm EXCEPT ![v].delete_time = d]
      BY <3>2, <3>3
    <3> HIDE DEF r, k, d
    <3> QED  BY <3>1, <3>4, <3>5, <3>6
  <2>2. /\ UNCHANGED <<starting_instances, deleting_instances, doomed, worker_nodes, executing>>
        /\ cp' \notin {"join", "reapMove"}
    BY <1>12 DEF DelAct, listVars, flagVars, fileVars, flagsButFile, scanLocals
  <2>3. Settles
    BY <1>1, <2>1, TakeAwaySettles
  <2>4. Steady
    BY <2>1 DEF SameAge, VMRecords
  <2>5. UNCHANGED lost
    BY <1>1, <2>1 DEF Departing, Spent, Failed
  <2> QED  BY <1>1, <2>2, <2>3, <2>4, <2>5, JobFrame DEF Departing
<1>13. CASE Back
  <2>1. PICK v \in VMs : v = Head(executing) /\ In(v, executing) /\ In(v, deleting_instances)
    BY <1>1, <1>13, TailIn DEF Back, DeletingHeld
  <2>2. /\ deleting_instances' = RemoveFirst(deleting_instances, v) /\ cp' = "release"
        /\ UNCHANGED <<clusterVars, vm, starting_instances, doomed, worker_nodes, executing, lost>>
    BY <1>13, <2>1 DEF Back, rcButLock, historyVars, scanLocals, delLocals
  <2>3. \A u : In(u, deleting_instances') => In(u, deleting_instances)
    BY <2>1, <2>2, RemoveFirstIn
  <2> QED  BY <1>1, <2>2, <2>3, JobFrame, SameClusterSettles DEF SameAge, Departing
<1>14. CASE ReleaseNode
  <2>1. PICK v \in VMs, ok \in BOOLEAN :
          v = Head(executing) /\ In(v, executing) /\ Release(v, ok)
    <3>1. PICK v \in VMs : v = Head(executing) /\ In(v, executing)
      BY <1>14, TailIn DEF ReleaseNode
    <3>2. PICK ok \in Outcomes("hold") : Release(v, ok)
      BY <1>14, <3>1 DEF ReleaseNode
    <3>3. ok \in BOOLEAN
      BY DEF Outcomes
    <3> QED  BY <3>1, <3>2, <3>3
  <2>2. /\ executing' = Tail(executing) /\ executing # <<>> /\ cp' = "bury"
        /\ UNCHANGED <<vm, starting_instances, deleting_instances, doomed, worker_nodes, lost>>
    BY <1>14 DEF ReleaseNode, centerVars, listVars, flagVars, fileVars, flagsButFile, historyVars, scanLocals
  <2>3. cloud[v] \in Failed
    BY <1>1, <2>1 DEF Departing
  <2>4. /\ UNCHANGED <<cloud, inTorque, jobs>>
        /\ \A u \in VMs : u # v /\ u \in offline => u \in offline'
    BY <2>1 DEF Release
  <2>5. Settles
    BY <1>1, <2>3, <2>4 DEF Settles, Placed, Spent, Lost
  <2>6. \A u : In(u, executing') => In(u, executing)
    BY <2>2, TailIn
  <2> QED  BY <1>1, <2>2, <2>5, <2>6, JobFrame DEF SameAge, Departing
<1>15. CASE CpRaise
  <2>1. /\ UNCHANGED <<clusterVars, starting_instances, deleting_instances, doomed, worker_nodes,
                       executing, lost>>
        /\ cp' = "dead"
    BY <1>15 DEF CpRaise, CpDie, listVars, rcButLock, historyVars, scanLocals, delLocals
  <2>2. vm' = vm \/ \E v \in VMs : vm' = [vm EXCEPT ![v] = Checked(vm[v], 1)]
    BY <1>15 DEF CpRaise, Checking
  <2>3. \A v \in VMs : SameAge(v)
    <3>1. \A v \in VMs : /\ Checked(vm[v], 1).state_time = vm[v].state_time
                         /\ Checked(vm[v], 1).cloud_ready = vm[v].cloud_ready
      BY <1>2 DEF Checked, VMRecords
    <3> QED  BY <2>2, <3>1 DEF SameAge
  <2> QED  BY <1>1, <2>1, <2>3, JobFrame, SameClusterSettles DEF Departing
<1> QED
  BY <1>3, <1>4, <1>5, <1>6, <1>7, <1>8, <1>9, <1>10, <1>11, <1>12, <1>13, <1>14, <1>15 DEF CpStep

-----------------------------------------------------------------------------
(* The job poller.                                                         *)
LEMMA JobPollerKeepsJobs ==
    ASSUME TypeInv, Guarded, Owned, JobsKept, JpStep,
           UNCHANGED <<cp, cpTodo, doomed, executing>>
    PROVE  JobsKept'
<1> USE DEF TypeInv, TypeOK, RCTypeOK, CpTypeOK, JpTypeOK, Positioned, CpPositioned
<1>1. /\ ListsOwned /\ StartingHeld /\ NodeHeld
      /\ Placed /\ Newcomers /\ Departing /\ Answers
  BY DEF Owned, JobsKept
<1>2. /\ cp = "join" => Head(cpTodo) \in VMs /\ In(Head(cpTodo), starting_instances)
      /\ cp = "reapMove" => Head(doomed) \in VMs
  BY <1>1, TailIn DEF StartingHeld
<1>3. CASE \/ JpPoll \/ JpRaise \/ JpDecide \/ JpStop \/ JpDumpNext \/ JpDumpEnd
           \/ (\E v \in VMs : SkipNode(v) \/ IdleUnlist(v)) \/ IdleWrap \/ JpScanEnd \/ Determine \/ Extend
  <2>1. /\ UNCHANGED <<clusterVars, vm, starting_instances, deleting_instances, lost>>
        /\ jp' # "retire"
    BY <1>3 DEF JpPoll, JpRaise, JpDecide, JpStop, JpDumpNext, JpDumpEnd, jpFileKeep,
         SkipNode, IdleUnlist, IdleWrap, JpScanEnd,
         Determine, Extend, jpKeep, centerVars, listVars, historyVars
  <2>2. /\ worker_nodes' \in {worker_nodes, Snapshot(inTorque), NoNodes}
        /\ jpNodes' \in {jpNodes, worker_nodes, NoNodes}
    BY <1>3 DEF JpPoll, JpRaise, JpDecide, JpStop, JpDumpNext, JpDumpEnd, jpFileKeep,
         SkipNode, IdleUnlist, IdleWrap, JpScanEnd,
         Determine, Extend, centerVars, flagVars, fileVars, flagsButFile
  <2>3. /\ \A v \in VMs : Snapshot(inTorque)[v] = "down" => Lost(v)
        /\ \A v \in VMs : NoNodes[v] = "absent"
    BY <1>1, SnapshotLost DEF Placed, NoNodes
  <2>4. \A v \in VMs : worker_nodes'[v] = "down" \/ jpNodes'[v] = "down"
                         => worker_nodes[v] = "down" \/ jpNodes[v] = "down" \/ Lost(v)
    BY <2>2, <2>3
  <2> QED  BY <1>1, <1>2, <2>1, <2>4, JobFrame, SameClusterSettles DEF SameAge
<1>4. ASSUME NEW v \in VMs, Inspect(v) PROVE JobsKept'
  <2>1. /\ In(v, existing_instances) /\ ~In(v, starting_instances) /\ cloud[v] # "none"
        /\ jp = "scan"
        /\ UNCHANGED <<starting_instances, deleting_instances, worker_nodes, jpNodes, lost>>
    BY <1>1, <1>4 DEF Inspect, ListsOwned, Apart, Listed, listVars, flagVars, fileVars, flagsButFile, historyVars
  <2>2. PICK word \in CheckNode(v), held \in BOOLEAN :
          LET r == Polled(v, word) IN
          /\ Hold(v, v \in OldImage /\ held)
          /\ \/ vm' = [vm EXCEPT ![v] = r]
             \/ \E u \in VMs : /\ u \in SwapPartners(v)
                             /\ vm' = [vm EXCEPT ![v] = [r EXCEPT !.dynamic = TRUE], ![u].dynamic = FALSE]
          /\ \/ jp' = "idleKill"
             \/ jp' = "retire" /\ Finished(v, r) /\ jpVm' = {v}
             \/ jp' = jp
    BY <1>4 DEF Inspect, Outcomes, SwapPartners
  <2>3. Settles
    <3>1. \E ok \in BOOLEAN : Hold(v, ok)
      BY <2>2
    <3> QED  BY <1>1, <3>1, HoldSettles
  <2>4. \A u \in VMs : u # v => SameAge(u)
    <3> DEFINE r == Polled(v, word)
    <3>1. CASE vm' = [vm EXCEPT ![v] = r]
      BY <3>1 DEF SameAge
    <3>2. ASSUME NEW u \in VMs,
                 vm' = [vm EXCEPT ![v] = [r EXCEPT !.dynamic = TRUE], ![u].dynamic = FALSE]
          PROVE  \A w \in VMs : w # v => SameAge(w)
      <4> HIDE DEF r
      <4> QED  BY <3>2 DEF SameAge, VMRecords
    <3> QED  BY <2>2, <3>1, <3>2
  <2>5. jp' = "retire" => Spent(v)
    <3>1. SUFFICES ASSUME jp' = "retire" PROVE Spent(v)
      OBVIOUS
    <3>2. Polled(v, word).state = word
      BY DEF Polled, VMRecords
    <3>3. CASE word = "drained"
      BY <3>3 DEF CheckNode, NodeWord, Spent
    <3>4. CASE word # "drained"
      <4>1. jpNodes[v] = "down"
        BY <2>1, <2>2, <3>1, <3>2, <3>4 DEF Finished
      <4> QED  BY <1>1, <4>1 DEF Answers, Lost, Spent
    <3> QED  BY <3>3, <3>4
  <2>6. jp' = "retire" => jpVm' = {v}
    BY <2>1, <2>2
  <2> QED  BY <1>2, <2>1, <2>3, <2>4, <2>5, <2>6, JobFrame
<1>5. ASSUME NEW v \in VMs, IdleKill(v) PROVE JobsKept'
  <2>1. PICK removed \in BOOLEAN, ok \in BOOLEAN :
          /\ TakeAway(v, removed, ok)
          /\ vm' = [vm EXCEPT ![v].force_off = TRUE, ![v].delete_time = @ \/ ok]
    BY <1>5 DEF IdleKill, Outcomes
  <2>2. /\ UNCHANGED <<starting_instances, deleting_instances, worker_nodes, jpNodes, lost>>
        /\ jp' # "retire"
    BY <1>5 DEF IdleKill, listVars, flagVars, fileVars, flagsButFile
  <2>3. Settles
    BY <1>1, <2>1, TakeAwaySettles
  <2>4. \A u \in VMs : SameAge(u)
    BY <2>1 DEF SameAge, VMRecords
  <2> QED  BY <1>2, <2>2, <2>3, <2>4, JobFrame
<1>6. ASSUME NEW v \in VMs, IdleRemove(v) \/ Retire(v) PROVE JobsKept'
  <2>1. /\ UNCHANGED <<clusterVars, vm, starting_instances, worker_nodes, jpNodes, lost>>
        /\ jp' # "retire"
        /\ \/ UNCHANGED deleting_instances
           \/ jp = "retire" /\ v \in jpVm /\ deleting_instances' = Append(deleting_instances, v)
    BY <1>6 DEF IdleRemove, Retire, flagVars, fileVars, flagsButFile, historyVars
  <2>2. \A u \in VMs : In(u, deleting_instances') => In(u, deleting_instances) \/ Spent(u)
    <3>1. \A u : In(u, Append(deleting_instances, v)) => In(u, deleting_instances) \/ u = v
      BY AppendIn
    <3> QED  BY <1>1, <2>1, <3>1 DEF Departing
  <2> QED  BY <1>1, <1>2, <2>1, <2>2, JobFrame, SameClusterSettles DEF SameAge
<1> QED
  BY <1>3, <1>4, <1>5, <1>6 DEF JpStep

(* The info server, when nobody kills nodes, and the cloud and Torque.     *)
LEMMA OthersKeepJobs ==
    ASSUME TypeInv, Guarded, Owned, JobsKept,
           UNCHANGED <<cp, cpTodo, doomed, executing, jp, jpVm, jpNodes, vm, listVars,
                       worker_nodes, lost>>,
           UNCHANGED clusterVars \/ \E v \in VMs : Environment(v)
    PROVE  JobsKept'
<1> USE DEF TypeInv, TypeOK, RCTypeOK, CpTypeOK, JpTypeOK, Positioned, CpPositioned
<1>1. StartingHeld /\ Placed /\ "down" \notin Faults
  BY DEF Owned, JobsKept, Guarded
<1>2. /\ cp = "join" => Head(cpTodo) \in VMs /\ In(Head(cpTodo), starting_instances)
      /\ cp = "reapMove" => Head(doomed) \in VMs
  BY <1>1, TailIn DEF StartingHeld
<1>3. Settles
  BY <1>1, SameClusterSettles, EnvironmentSettles
<1> QED  BY <1>2, <1>3, JobFrame DEF SameAge, listVars

-----------------------------------------------------------------------------
(* The daemon.                                                             *)
LEMMA InitJobs == Init => JobInv
<1> SUFFICES ASSUME Init PROVE OwnerInv /\ JobsKept
  BY DEF JobInv
<1> USE DEF Init, RCInit, CpInit, JpInit
<1>1. Placed
  BY LoadedAssumption DEF Placed, HasBooted
<1>2. Newcomers
  BY EmptyList DEF Newcomers, NewVM, NoTime
<1>3. Departing
  BY EmptyList DEF Departing
<1>4. Answers
  BY NpAssumption DEF Answers, Snapshot, ViewIn, NoNodes
<1> QED  BY <1>1, <1>2, <1>3, <1>4, InitOwned DEF JobsKept

LEMMA NextJobs == JobInv /\ [Next]_vars => JobInv'
<1> SUFFICES ASSUME JobInv, [Next]_vars PROVE JobInv'
  OBVIOUS
<1>1. OwnerInv'
  BY NextOwned DEF JobInv
<1>2. ASSUME Guarded' PROVE JobsKept'
  <2>1. Guarded
    BY <1>2, MainOnward DEF Guarded, Attended
  <2>2. TypeInv /\ Owned /\ JobsKept
    BY <2>1 DEF JobInv, OwnerInv, Guarded
  <2>3. CASE CloudPollerStep
    BY <2>1, <2>2, <2>3, CloudPollerKeepsJobs DEF CloudPollerStep, jpVars
  <2>4. CASE JobPollerStep
    BY <2>1, <2>2, <2>4, JobPollerKeepsJobs DEF JobPollerStep, cpVars
  <2>5. CASE \/ InfoServerStep \/ MainStep
             \/ (\E c \in Callers : ForceoffBy(c)) \/ (\E v \in VMs : ClusterStep(v))
    <3>1. killing = {} /\ (\A c \in Callers : fo[c] = "idle") /\ Attended /\ Attended'
      BY <1>2, <2>1, <2>2 DEF Owned, NoRequests, Guarded
    <3>2. ~ \E c \in Callers : ForceoffBy(c)
      BY <3>1 DEF ForceoffBy, ForceoffStep, ForceoffLoopEnd, ForceoffExisting,
           ForceoffMoveExisting, ForceoffStarting, ForceoffMoveStarting
    <3>3. ~MainStep
      BY <3>1 DEF MainStep, MainQuit, MainExit, Attended
    <3>4. InfoServerStep => ToggleSleepMode /\ UNCHANGED <<cpVars, jpVars>>
      BY <3>1 DEF InfoServerStep, InfoStep, ForceoffRequest, KillBegin, KillHold, KillMove, Attended
    <3>5. UNCHANGED <<cp, cpTodo, doomed, executing, jp, jpVm, jpNodes, vm, listVars,
                      worker_nodes, lost>>
      BY <2>5, <3>2, <3>3, <3>4 DEF ToggleSleepMode, ClusterStep, cpVars, jpVars, centerVars,
           flagVars, fileVars, flagsButFile, historyVars
    <3>6. UNCHANGED clusterVars \/ \E v \in VMs : Environment(v)
      BY <2>5, <3>2, <3>3, <3>4 DEF ToggleSleepMode, ClusterStep
    <3> QED  BY <2>1, <2>2, <3>5, <3>6, OthersKeepJobs
  <2>6. CASE UNCHANGED vars
    <3>1. UNCHANGED <<cp, cpTodo, doomed, executing, jp, jpVm, jpNodes, vm, listVars,
                      worker_nodes, lost, clusterVars>>
      BY <2>6 DEF vars, cpVars, jpVars, centerVars, flagVars, fileVars, flagsButFile, historyVars
    <3> QED  BY <2>1, <2>2, <3>1, OthersKeepJobs
  <2> QED  BY <2>3, <2>4, <2>5, <2>6 DEF Next
<1> QED  BY <1>1, <1>2 DEF JobInv

(* check_cleanup takes no node away from a running job, for any number of  *)
(* VMs and whatever else fails, although the answers it acts on are old:   *)
(* a node it has been given is held or lost, so no job can reach it.       *)
THEOREM NoJobLost == Spec => []CleanupSparesJobs
<1>1. JobInv => CleanupSparesJobs
  BY DEF JobInv, Guarded, Attended, JobsKept, CleanupSparesJobs
<1> QED  BY <1>1, InitJobs, NextJobs, PTL DEF Spec
=============================================================================
