----------------------------- MODULE SafetyProofs -----------------------------
(***************************************************************************)
(* Two safety properties of Daemon for every set of VMs, every operator    *)
(* and every fault but "api": the daemon forgets no server (NoVmForgotten) *)
(* and closes the books only on servers that are gone (CleanedIsGone).     *)
(* The inductive invariant adds what the threads hold in their hands       *)
(* between two steps: every VM on its way into a list exists, every VM in  *)
(* vm_deleted is gone already, the VM that is being joined is not one that *)
(* was cleaned up, and the idle VM that is about to leave                  *)
(* existing_instances has been destroyed.                                  *)
(***************************************************************************)
EXTENDS TypeProofs

(* VMs in a list, or in the hands of a thread that may put them into one.  *)
Known(v) ==
    \/ Listed(v) \/ In(v, executing) \/ v \in jpVm
    \/ \E step \in KillSteps : <<v, step>> \in killing

Born == \A v \in VMs : Known(v) => cloud[v] # "none"

Buried(v) == cloud[v] = "gone" /\ v \notin inTorque

Graves ==
    /\ gone # <<>> => cp \in {"delRead", "delAct", "bury", "dead"}
    /\ \A v \in VMs : v \in cleaned \/ In(v, gone) => Buried(v)
    /\ cp = "join" => Head(cpTodo) \notin cleaned

Remembered ==
    /\ \A v \in VMs : cloud[v] \in Live => Listed(v) \/ v \in asked
    /\ jp \in {"idleUnlist", "idleRemove"} => jpVm \subseteq asked
    /\ \A u, w \in jpVm : u = w

SafetyInv == TypeInv /\ ("api" \notin Faults => Born /\ Graves /\ Remembered)

-----------------------------------------------------------------------------
(* What a step may do to the cluster: no server comes back, no new one     *)
(* appears.                                                                *)
Decays ==
    \A v \in VMs : /\ cloud[v] # "none" => cloud'[v] # "none"
                   /\ cloud[v] = "gone" => cloud'[v] = "gone"
                   /\ cloud'[v] \in Live => cloud[v] \in Live

(* Taking a VM away only lets its server and its node go.                  *)
LEMMA TakeAwayDecays ==
    ASSUME ClusterTypeOK, NEW v \in VMs, NEW removed \in BOOLEAN, NEW destroyed \in BOOLEAN,
           TakeAway(v, removed, destroyed)
    PROVE  Decays /\ inTorque' \subseteq inTorque
<1>1. cloud' = cloud \/ (cloud[v] \in Live /\ cloud' = [cloud EXCEPT ![v] = "deleting"])
  BY DEF TakeAway
<1>2. cloud \in [VMs -> CloudStates]
  BY DEF ClusterTypeOK
<1>3. Decays
  BY <1>1, <1>2 DEF Decays, Live
<1>4. inTorque' \subseteq inTorque
  BY DEF TakeAway
<1> QED  BY <1>3, <1>4

(* So does everything the cloud and Torque do by themselves.               *)
LEMMA EnvironmentDecays ==
    ASSUME ClusterTypeOK, NEW v \in VMs, Environment(v)
    PROVE  Decays /\ inTorque' \subseteq inTorque
<1> USE DEF ClusterTypeOK, Decays, Live
<1>1. CASE Progress(v) \/ Fail(v) \/ Vanish(v) \/ GoDown(v)
  BY <1>1 DEF Progress, Fail, Vanish, GoDown, MoveServer
<1>2. CASE TimePasses(v) \/ JobStart(v) \/ JobEnd(v)
  BY <1>2 DEF TimePasses, JobStart, JobEnd
<1> QED  BY <1>1, <1>2 DEF Environment

(* An unchanged cloud decays.                                              *)
LEMMA SameCloudDecays == UNCHANGED <<cloud, inTorque>> => Decays /\ inTorque' \subseteq inTorque
BY DEF Decays

(* Who is known exists, after a step that starts nothing and gives no      *)
(* thread a new VM.                                                        *)
LEMMA BornFrame ==
    ASSUME Born, Decays, \A v \in VMs : Known(v)' => Known(v)
    PROVE  Born'
BY DEF Born, Decays

(* Buried VMs stay buried if no node is added and nobody is buried.        *)
LEMMA GravesFrame ==
    ASSUME Graves, Decays, inTorque' \subseteq inTorque, UNCHANGED <<cp, cpTodo, gone, cleaned>>
    PROVE  Graves'
BY DEF Graves, Decays, Buried

(* A VM that leaves the lists has been asked for or is gone.               *)
LEMMA RememberedFrame ==
    ASSUME Remembered, Decays, asked \subseteq asked',
           \A v \in VMs : Listed(v) => Listed(v)' \/ v \in asked' \/ cloud'[v] \notin Live,
           jp' \in {"idleUnlist", "idleRemove"} => jpVm' \subseteq asked',
           \A u, w \in jpVm' : u = w
    PROVE  Remembered'
BY DEF Remembered, Decays

-----------------------------------------------------------------------------
(* Steps.                                                                  *)

(* The steps of the cloud poller.                                          *)
LEMMA CloudPollerSafe ==
    ASSUME TypeInv, "api" \notin Faults, Born, Graves, Remembered,
           CpStep, UNCHANGED <<jp, jpVm, killing>>
    PROVE  Born' /\ Graves' /\ Remembered'
<1> USE DEF TypeInv, TypeOK, RCTypeOK, CpTypeOK, Positioned, CpPositioned
<1> DEFINE Safe == Born' /\ Graves' /\ Remembered'
<1> DEFINE Quiet == CpPoll \/ CpStop \/ CheckJoined \/ ScanEnd \/ ReapEnd \/ Wrap
                    \/ ProvOff \/ CpDumpNext \/ CpDumpEnd \/ LaunchBegin \/ LaunchEnd
                    \/ CleanupBegin \/ DelEnd \/ CleanupEnd \/ WrapDel \/ Relaunch \/ CpRaise
<1>1. CASE Quiet
  <2>1. UNCHANGED <<clusterVars, listVars, historyVars, gone, executing>>
    BY <1>1 DEF CpPoll, CpStop, CheckJoined, ScanEnd, ReapEnd, Wrap, ProvOff, CpDumpNext,
         CpDumpEnd, fileKeep, LaunchBegin, LaunchEnd, CleanupBegin, DelEnd, CleanupEnd, WrapDel,
         Relaunch, CpRaise, clusterVars, centerVars, listVars, historyVars, delLocals
  <2>2. UNCHANGED <<cloud, inTorque, existing_instances, starting_instances, deleting_instances,
                    asked, cleaned, gone, executing>>
    BY <2>1 DEF clusterVars, listVars, historyVars
  <2>3. cp' # "join" /\ (gone # <<>> => cp' \in {"delRead", "delAct", "bury", "dead"})
    BY <1>1 DEF CpPoll, CpStop, CheckJoined, ScanEnd, ReapEnd, Wrap, ProvOff, CpDumpNext,
         CpDumpEnd, fileKeep, delLocals, LaunchBegin, LaunchEnd, CleanupBegin, DelEnd, CleanupEnd,
         WrapDel, Relaunch, CpRaise, CpDie, Graves
  <2>4. Born'
    BY <2>2, BornFrame, SameCloudDecays DEF Known, Listed
  <2>5. Graves'
    BY <2>2, <2>3 DEF Graves, Buried
  <2>6. Remembered'
    BY <2>2 DEF Remembered, Listed
  <2> QED  BY <2>4, <2>5, <2>6
<1>2. CASE CheckBuilding
  <2>1. UNCHANGED <<cloud, inTorque, existing_instances, starting_instances, deleting_instances,
                    asked, cleaned, gone, executing>> /\ gone = <<>>
    BY <1>2 DEF CheckBuilding, clusterVars, listVars, historyVars, delLocals, Graves
  <2>2. cp' = "join" => Head(cpTodo') \notin cleaned
    <3>1. PICK s \in VmCheck(Head(cpTodo)) :
             cp' = (IF s = 0 THEN "join" ELSE "scan") /\ (s = 0 => cpTodo' = cpTodo)
      BY <1>2 DEF CheckBuilding
    <3>2. Head(cpTodo) \in VMs
      BY <1>2, TailIn DEF CheckBuilding
    <3>3. s = 0 => cloud[Head(cpTodo)] # "gone"
      BY SMTT(30) DEF VmCheck
    <3>4. s = 0 => Head(cpTodo) \notin cleaned
      BY <3>2, <3>3 DEF Graves, Buried
    <3> QED  BY <3>1, <3>4
  <2>3. Born'
    BY <2>1, BornFrame, SameCloudDecays DEF Known, Listed
  <2>4. Graves'
    BY <2>1, <2>2 DEF Graves, Buried
  <2>5. Remembered'
    BY <2>1 DEF Remembered, Listed
  <2> QED  BY <2>3, <2>4, <2>5
<1>3. CASE JoinOk \/ JoinFail
  <2>1. UNCHANGED <<cloud, existing_instances, starting_instances, deleting_instances,
                    asked, cleaned, gone, executing>> /\ gone = <<>> /\ cp' = "scan"
    BY <1>3 DEF JoinOk, JoinFail, AddNode, centerVars, listVars, historyVars, delLocals, Graves
  <2>2. inTorque' \subseteq inTorque \cup {Head(cpTodo)} /\ Head(cpTodo) \notin cleaned
    BY <1>3 DEF JoinOk, JoinFail, AddNode, Graves
  <2>3. Born'
    BY <2>1 DEF Born, Known, Listed
  <2>4. \A v \in VMs : v \in cleaned => Buried(v)'
    BY <2>1, <2>2 DEF Graves, Buried
  <2>5. \A v \in VMs : ~In(v, gone')
    BY <2>1 DEF In
  <2>6. Graves'
    BY <2>1, <2>4, <2>5 DEF Graves
  <2>7. Remembered'
    BY <2>1 DEF Remembered, Listed
  <2> QED  BY <2>3, <2>6, <2>7
<1>4. CASE Settle
  <2> DEFINE v == Head(ready)
  <2>1. UNCHANGED <<cloud, inTorque, deleting_instances, asked, cleaned, gone, executing>>
    BY <1>4 DEF Settle, clusterVars, historyVars, delLocals
  <2>2. cp' \in {"reap", "settle", "dead"} /\ gone = <<>>
    BY <1>4 DEF Settle, CpDie, Graves
  <2>3. \A x : In(x, starting_instances) \/ In(x, existing_instances)
               <=> In(x, starting_instances') \/ In(x, existing_instances')
    <3>1. CASE In(v, starting_instances)
      <4>1. v \in VMs
        BY <1>4, TailIn DEF Settle
      <4>2. /\ starting_instances' = RemoveFirst(starting_instances, v)
            /\ existing_instances' = Append(existing_instances, v)
        BY <1>4, <3>1 DEF Settle
      <4> QED  BY <3>1, <4>1, <4>2, MoveIn
    <3>2. CASE ~In(v, starting_instances)
      BY <1>4, <3>2 DEF Settle
    <3> QED  BY <3>1, <3>2
  <2>4. Born'
    BY <2>1, <2>3, BornFrame, SameCloudDecays DEF Known, Listed
  <2>5. Graves'
    BY <2>1, <2>2 DEF Graves, Buried
  <2>6. Remembered'
    BY <2>1, <2>3 DEF Remembered, Listed
  <2> QED  BY <2>4, <2>5, <2>6
<1>5. CASE Reap
  <2> DEFINE v == Head(doomed)
  <2>1. v \in VMs
    BY <1>5, TailIn DEF Reap
  <2>2. Decays /\ inTorque' \subseteq inTorque
    <3>1. PICK ok \in BOOLEAN : TakeAway(v, FALSE, ok)
      BY <1>5 DEF Reap, Outcomes
    <3> QED  BY <2>1, <3>1, TakeAwayDecays
  <2>3. UNCHANGED <<existing_instances, starting_instances, deleting_instances, cleaned, gone, executing>>
        /\ asked \subseteq asked' /\ gone = <<>> /\ cp' = "reapMove"
    BY <1>5 DEF Reap, listVars, delLocals, Graves
  <2>4. Born'
    BY <2>2, <2>3, BornFrame DEF Known, Listed
  <2>5. Graves'
    BY <2>2, <2>3 DEF Graves, Buried, Decays
  <2>6. Remembered'
    BY <2>2, <2>3 DEF Remembered, Listed, Decays
  <2> QED  BY <2>4, <2>5, <2>6
<1>6. CASE ReapMove
  <2> DEFINE v == Head(doomed)
  <2>1. UNCHANGED <<cloud, inTorque, existing_instances, asked, cleaned, gone, executing>>
    BY <1>6 DEF ReapMove, clusterVars, historyVars, delLocals
  <2>2. cp' \in {"reap", "dead"} /\ gone = <<>>
    BY <1>6 DEF ReapMove, CpDie, Graves
  <2>3. \A x : In(x, starting_instances) \/ In(x, deleting_instances)
               <=> In(x, starting_instances') \/ In(x, deleting_instances')
    <3>1. CASE In(v, starting_instances)
      <4>1. v \in VMs
        BY <1>6, TailIn DEF ReapMove
      <4>2. /\ starting_instances' = RemoveFirst(starting_instances, v)
            /\ deleting_instances' = Append(deleting_instances, v)
        BY <1>6, <3>1 DEF ReapMove
      <4> QED  BY <3>1, <4>1, <4>2, MoveIn
    <3>2. CASE ~In(v, starting_instances)
      BY <1>6, <3>2 DEF ReapMove
    <3> QED  BY <3>1, <3>2
  <2>4. Born'
    BY <2>1, <2>3, BornFrame, SameCloudDecays DEF Known, Listed
  <2>5. Graves'
    BY <2>1, <2>2 DEF Graves, Buried
  <2>6. Remembered'
    BY <2>1, <2>3 DEF Remembered, Listed
  <2> QED  BY <2>4, <2>5, <2>6
<1>7. ASSUME NEW v \in VMs, Launch(v) PROVE Safe
  <2>1. cloud' = [cloud EXCEPT ![v] = "build"] /\ cloud[v] = "none" /\ cloud \in [VMs -> CloudStates]
    BY <1>7 DEF Launch, Create, Unborn, ClusterTypeOK
  <2>2. UNCHANGED <<inTorque, existing_instances, deleting_instances, asked, cleaned, gone, executing,
                    jpVm, killing, cp>> /\ cp = "launch"
    BY <1>7 DEF Launch, Create, historyVars, delLocals
  <2>3. \A x : In(x, starting_instances') <=> In(x, starting_instances) \/ x = v
    BY <1>7, AppendIn DEF Launch
  <2>4. Born'
    BY <2>1, <2>2, <2>3 DEF Born, Known, Listed
  <2>5. Graves'
    BY <2>1, <2>2 DEF Graves, Buried
  <2>6. Remembered'
    BY <2>1, <2>2, <2>3 DEF Remembered, Listed
  <2> QED  BY <2>4, <2>5, <2>6
<1>8. CASE DelRead
  <2> DEFINE v == deleting_instances[cursor]
  <2>1. v \in VMs /\ In(v, deleting_instances)
    BY <1>8 DEF DelRead, In
  <2>2. UNCHANGED <<cloud, inTorque, existing_instances, starting_instances, deleting_instances,
                    asked, cleaned>> /\ cp' \in {"delRead", "delAct"}
    BY <1>8 DEF DelRead, clusterVars, listVars, historyVars
  <2>3. PICK s \in VmCheck(v), seen \in BOOLEAN, again \in BOOLEAN :
          LET choice == IF seen THEN CleanupChoice(v, s, View(v), again) ELSE "none" IN
          /\ gone' = IF choice = "gone" THEN Append(gone, v) ELSE gone
          /\ executing' = IF choice = "executing" THEN Append(executing, v) ELSE executing
    BY <1>8, ZenonT(40) DEF DelRead, Outcomes
  <2>4. \A x : In(x, executing') => In(x, executing) \/ x = v
    BY <2>1, <2>3, AppendIn
  <2>5. \A x : In(x, gone') => In(x, gone) \/ (x = v /\ Buried(v))
    <3>1. CleanupChoice(v, s, View(v), again) = "gone" => v \notin inTorque /\ s = 3
      BY DEF CleanupChoice, View, ViewIn
    <3>2. s = 3 => cloud[v] = "gone"
      <4>1. cloud[v] # "none" /\ cloud[v] \in CloudStates
        BY <2>1 DEF Born, Known, Listed, ClusterTypeOK
      <4> QED  BY <4>1 DEF VmCheck, CloudStates
    <3> QED  BY <2>1, <2>3, <3>1, <3>2, AppendIn DEF Buried
  <2>6. Born'
    BY <2>1, <2>2, <2>4, BornFrame, SameCloudDecays DEF Known, Listed
  <2>7. Graves'
    BY <2>2, <2>5 DEF Graves, Buried
  <2>8. Remembered'
    BY <2>2 DEF Remembered, Listed
  <2> QED  BY <2>6, <2>7, <2>8
<1>9. CASE DelAct
  <2> DEFINE v == deleting_instances[cursor]
  <2>1. v \in VMs
    BY <1>9 DEF DelAct
  <2>2. Decays /\ inTorque' \subseteq inTorque
    <3>1. PICK removed \in BOOLEAN, ok \in BOOLEAN :
            TakeAway(v, removed /\ todoDel # "destroy", ok /\ todoDel # "remove")
      BY <1>9 DEF DelAct, Outcomes
    <3> QED  BY <2>1, <3>1, TakeAwayDecays
  <2>3. UNCHANGED <<existing_instances, starting_instances, deleting_instances, cleaned, gone, executing>>
        /\ asked \subseteq asked' /\ cp' = "delRead"
    BY <1>9 DEF DelAct, listVars
  <2>4. Born'
    BY <2>2, <2>3, BornFrame DEF Known, Listed
  <2>5. Graves'
    BY <2>2, <2>3 DEF Graves, Buried, Decays
  <2>6. Remembered'
    BY <2>2, <2>3 DEF Remembered, Listed, Decays
  <2> QED  BY <2>4, <2>5, <2>6
<1>10. CASE Bury
  <2> DEFINE v == Head(gone)
  <2>1. UNCHANGED <<cloud, inTorque, existing_instances, starting_instances, asked, executing>>
        /\ cp' \in {"bury", "dead"} /\ gone # <<>>
    BY <1>10 DEF Bury, CpDie, clusterVars
  <2>2. v \in VMs /\ In(v, gone) /\ Buried(v) /\ \A x : In(x, Tail(gone)) => In(x, gone)
    BY <2>1, TailIn DEF Graves
  <2>3. /\ \A x : In(x, deleting_instances') => In(x, deleting_instances)
        /\ \A x : In(x, deleting_instances) => In(x, deleting_instances') \/ x = v
        /\ gone' \in {gone, Tail(gone)} /\ cleaned' \subseteq cleaned \cup {v}
    <3>1. CASE In(v, deleting_instances)
      BY <1>10, <3>1, RemoveFirstIn, SMTT(30) DEF Bury
    <3>2. CASE ~In(v, deleting_instances)
      BY <1>10, <3>2 DEF Bury
    <3> QED  BY <3>1, <3>2
  <2>4. Born'
    BY <2>1, <2>3, BornFrame, SameCloudDecays DEF Known, Listed
  <2>5. Graves'
    BY <2>1, <2>2, <2>3 DEF Graves, Buried
  <2>6. Remembered'
    BY <2>1, <2>2, <2>3 DEF Remembered, Listed, Buried, Live
  <2> QED  BY <2>4, <2>5, <2>6
<1>11. CASE Back
  <2> DEFINE v == Head(executing)
  <2>1. UNCHANGED <<cloud, inTorque, starting_instances, asked, cleaned, gone, executing>>
        /\ cp' \in {"release", "dead"} /\ gone = <<>>
    BY <1>11 DEF Back, CpDie, clusterVars, historyVars, delLocals
  <2>2. v \in VMs /\ In(v, executing)
    BY <1>11, TailIn DEF Back
  <2>3. /\ \A x : In(x, existing_instances') <=> In(x, existing_instances) \/ x = v
        /\ \A x : In(x, deleting_instances') => In(x, deleting_instances)
        /\ \A x : In(x, deleting_instances) => In(x, deleting_instances') \/ x = v
    <3>1. \A x : In(x, existing_instances') <=> In(x, existing_instances) \/ x = v
      BY <1>11, <2>2, AppendIn DEF Back
    <3>2. CASE In(v, deleting_instances)
      BY <1>11, <3>1, <3>2, RemoveFirstIn DEF Back
    <3>3. CASE ~In(v, deleting_instances)
      BY <1>11, <3>1, <3>3 DEF Back
    <3> QED  BY <3>2, <3>3
  <2>4. Born'
    BY <2>1, <2>2, <2>3, BornFrame, SameCloudDecays DEF Known, Listed
  <2>5. Graves'
    BY <2>1 DEF Graves, Buried
  <2>6. Remembered'
    BY <2>1, <2>3 DEF Remembered, Listed
  <2> QED  BY <2>4, <2>5, <2>6
<1>12. CASE ReleaseNode
  <2>1. UNCHANGED <<cloud, inTorque, existing_instances, starting_instances, deleting_instances,
                    asked, cleaned, gone>> /\ cp' = "bury"
    BY <1>12 DEF ReleaseNode, Release, centerVars, listVars, historyVars
  <2>2. \A x : In(x, executing') => In(x, executing)
    BY <1>12, TailIn DEF ReleaseNode
  <2>3. Born'
    BY <2>1, <2>2, BornFrame, SameCloudDecays DEF Known, Listed
  <2>4. Graves'
    BY <2>1 DEF Graves, Buried
  <2>5. Remembered'
    BY <2>1 DEF Remembered, Listed
  <2> QED  BY <2>3, <2>4, <2>5
<1> QED
  BY <1>1, <1>2, <1>3, <1>4, <1>5, <1>6, <1>7, <1>8, <1>9, <1>10, <1>11, <1>12 DEF CpStep

(* The steps of the job poller.                                            *)
LEMMA JobPollerSafe ==
    ASSUME TypeInv, Born, Graves, Remembered, JpStep,
           UNCHANGED <<cp, cpTodo, gone, executing, killing>>
    PROVE  Born' /\ Graves' /\ Remembered'
<1> USE DEF TypeInv, TypeOK, RCTypeOK, JpTypeOK
<1> DEFINE Safe == Born' /\ Graves' /\ Remembered'
<1> DEFINE Quiet == JpPoll \/ JpRaise \/ JpDecide \/ JpStop \/ JpDumpNext \/ JpDumpEnd
                    \/ (\E v \in VMs : SkipNode(v))
                    \/ IdleWrap \/ JpScanEnd \/ Determine \/ Extend
<1>1. CASE Quiet
  <2>1. UNCHANGED <<clusterVars, listVars, historyVars>>
    BY <1>1 DEF JpPoll, JpRaise, JpDecide, JpStop, JpDumpNext, JpDumpEnd, jpFileKeep,
         SkipNode, IdleWrap, JpScanEnd, Determine, Extend, jpKeep, centerVars, listVars, historyVars
  <2>2. UNCHANGED <<cloud, inTorque, existing_instances, starting_instances, deleting_instances,
                    asked, cleaned>>
    BY <2>1 DEF clusterVars, listVars, historyVars
  <2>3. jp' \notin {"idleUnlist", "idleRemove"} /\ jpVm' \subseteq jpVm
    BY <1>1 DEF JpPoll, JpRaise, JpDecide, JpStop, JpDumpNext, JpDumpEnd, jpFileKeep,
         SkipNode, IdleWrap, JpScanEnd, Determine, Extend
  <2>4. Born'
    BY <2>2, <2>3, BornFrame, SameCloudDecays DEF Known, Listed
  <2>5. Graves'
    BY <2>2, GravesFrame, SameCloudDecays
  <2>6. Remembered'
    BY <2>2, <2>3 DEF Remembered, Listed
  <2> QED  BY <2>4, <2>5, <2>6
<1>2. ASSUME NEW v \in VMs, Inspect(v) PROVE Safe
  <2>1. UNCHANGED <<cloud, inTorque, existing_instances, starting_instances, deleting_instances,
                    asked, cleaned>>
    BY <1>2 DEF Inspect, Hold, listVars, historyVars
  <2>2. /\ jp' \in {"idleKill", "retire", "scan"} /\ jpVm' \in {jpVm, {v}}
        /\ In(v, existing_instances)
    BY <1>2 DEF Inspect
  <2>3. \A x \in VMs : Known(x)' => Known(x)
    BY <2>1, <2>2 DEF Known, Listed
  <2>4. Born'
    BY <2>1, <2>3, BornFrame, SameCloudDecays
  <2>5. Graves'
    BY <2>1, GravesFrame, SameCloudDecays
  <2>6. \A u, w \in jpVm' : u = w
    BY <2>2 DEF Remembered
  <2>7. Remembered'
    BY <2>1, <2>2, <2>6, RememberedFrame, SameCloudDecays DEF Listed
  <2> QED  BY <2>4, <2>5, <2>7
<1>3. ASSUME NEW v \in VMs, IdleKill(v) PROVE Safe
  <2>1. Decays /\ inTorque' \subseteq inTorque
    <3>1. PICK removed \in BOOLEAN, ok \in BOOLEAN : TakeAway(v, removed, ok)
      BY <1>3 DEF IdleKill, Outcomes
    <3> QED  BY <3>1, TakeAwayDecays
  <2>2. /\ UNCHANGED <<existing_instances, starting_instances, deleting_instances, cleaned, jpVm>>
        /\ asked' = asked \cup {v} /\ v \in jpVm
    BY <1>3 DEF IdleKill, listVars
  <2>3. Born'
    BY <2>1, <2>2, BornFrame DEF Known, Listed
  <2>4. Graves'
    BY <2>1, <2>2, GravesFrame
  <2>5. jpVm' \subseteq asked'
    BY <2>2 DEF Remembered
  <2>6. Remembered'
    BY <2>1, <2>2, <2>5 DEF Remembered, Listed, Decays
  <2> QED  BY <2>3, <2>4, <2>6
<1>4. ASSUME NEW v \in VMs, IdleUnlist(v) PROVE Safe
  <2>1. UNCHANGED <<cloud, inTorque, existing_instances, starting_instances, deleting_instances,
                    asked, cleaned, jpVm>> /\ jp = "idleUnlist"
    BY <1>4 DEF IdleUnlist, clusterVars, centerVars, listVars, historyVars
  <2>2. Born'
    BY <2>1, BornFrame, SameCloudDecays DEF Known, Listed
  <2>3. Graves'
    BY <2>1, GravesFrame, SameCloudDecays
  <2>4. Remembered'
    BY <2>1 DEF Remembered, Listed
  <2> QED  BY <2>2, <2>3, <2>4
<1>5. ASSUME NEW v \in VMs, IdleRemove(v) PROVE Safe
  <2>1. UNCHANGED <<cloud, inTorque, starting_instances, deleting_instances, asked, cleaned, jpVm>>
        /\ jp' \in {"idleWrap", "dead"}
    BY <1>5 DEF IdleRemove, clusterVars, historyVars
  <2>2. v \in asked
    BY <1>5 DEF IdleRemove, Remembered
  <2>3. /\ \A x : In(x, existing_instances') => In(x, existing_instances)
        /\ \A x : In(x, existing_instances) => In(x, existing_instances') \/ x = v
    <3>1. CASE In(v, existing_instances)
      <4>1. existing_instances' = RemoveFirst(existing_instances, v)
        BY <1>5, <3>1 DEF IdleRemove, TakeOut
      <4> QED  BY <3>1, <4>1, RemoveFirstIn
    <3>2. CASE ~In(v, existing_instances)
      BY <1>5, <3>2 DEF IdleRemove
    <3> QED  BY <3>1, <3>2
  <2>4. Born'
    BY <2>1, <2>3, BornFrame, SameCloudDecays DEF Known, Listed
  <2>5. Graves'
    BY <2>1, GravesFrame, SameCloudDecays
  <2>6. Remembered'
    BY <2>1, <2>2, <2>3 DEF Remembered, Listed
  <2> QED  BY <2>4, <2>5, <2>6
<1>6. ASSUME NEW v \in VMs, Retire(v) PROVE Safe
  <2>1. UNCHANGED <<cloud, inTorque, starting_instances, asked, cleaned>>
        /\ jp' \in {"scan", "dead"} /\ jpVm' = {} /\ v \in jpVm
    BY <1>6 DEF Retire, clusterVars, historyVars
  <2>2. deleting_instances' = Append(deleting_instances, v)
    BY <1>6 DEF Retire
  <2>3. /\ \A x : In(x, existing_instances') => In(x, existing_instances)
        /\ \A x : In(x, existing_instances) => In(x, existing_instances') \/ x = v
    <3>1. CASE In(v, existing_instances)
      <4>1. existing_instances' = RemoveFirst(existing_instances, v)
        BY <1>6, <3>1 DEF Retire, TakeOut
      <4> QED  BY <3>1, <4>1, RemoveFirstIn
    <3>2. CASE ~In(v, existing_instances)
      BY <1>6, <3>2 DEF Retire
    <3> QED  BY <3>1, <3>2
  <2>4. \A x : In(x, deleting_instances') <=> In(x, deleting_instances) \/ x = v
    BY <2>2, AppendIn
  <2>5. Born'
    BY <2>1, <2>3, <2>4, BornFrame, SameCloudDecays DEF Known, Listed
  <2>6. Graves'
    BY <2>1, GravesFrame, SameCloudDecays
  <2>7. Remembered'
    BY <2>1, <2>3, <2>4 DEF Remembered, Listed
  <2> QED  BY <2>5, <2>6, <2>7
<1> QED
  BY <1>1, <1>2, <1>3, <1>4, <1>5, <1>6 DEF JpStep

(* The requests of the info server, except forceoff.                       *)
LEMMA InfoServerSafe ==
    ASSUME TypeInv, Born, Graves, Remembered, InfoStep,
           UNCHANGED <<cp, cpTodo, gone, executing, jp, jpVm>>
    PROVE  Born' /\ Graves' /\ Remembered'
<1> USE DEF TypeInv, TypeOK, RCTypeOK
<1>1. CASE ToggleSleepMode \/ ForceoffRequest
  <2>1. UNCHANGED <<cloud, inTorque, existing_instances, starting_instances, deleting_instances,
                    asked, cleaned, killing>>
    BY <1>1 DEF ToggleSleepMode, ForceoffRequest, clusterVars, centerVars, listVars, historyVars,
         controlVars, foVars
  <2>2. Born'
    BY <2>1, BornFrame, SameCloudDecays DEF Known, Listed
  <2>3. Graves'
    BY <2>1, GravesFrame, SameCloudDecays
  <2>4. Remembered'
    BY <2>1 DEF Remembered, Listed
  <2> QED  BY <2>2, <2>3, <2>4
<1>2. ASSUME NEW v \in VMs, KillBegin(v) \/ KillHold(v) PROVE Born' /\ Graves' /\ Remembered'
  <2>1. UNCHANGED <<cloud, inTorque, existing_instances, starting_instances, deleting_instances,
                    asked, cleaned>>
    BY <1>2 DEF KillBegin, KillHold, Hold, clusterVars, centerVars, listVars, historyVars
  <2>2. Known(v) /\ killing' \subseteq {v} \X KillSteps
    BY <1>2 DEF KillBegin, KillHold, KillSteps, Known, Listed
  <2>3. \A x \in VMs : Known(x)' => Known(x)
    BY <2>1, <2>2 DEF Known, Listed
  <2>4. Born'
    BY <2>1, <2>3, BornFrame, SameCloudDecays
  <2>5. Graves'
    BY <2>1, GravesFrame, SameCloudDecays
  <2>6. Remembered'
    BY <2>1 DEF Remembered, Listed
  <2> QED  BY <2>4, <2>5, <2>6
<1>3. ASSUME NEW v \in VMs, KillMove(v) PROVE Born' /\ Graves' /\ Remembered'
  <2>1. UNCHANGED <<cloud, inTorque, starting_instances, asked, cleaned>> /\ killing' = {}
    BY <1>3 DEF KillMove, clusterVars, historyVars
  <2>2. Known(v)
    BY <1>3 DEF KillMove, Known, KillSteps
  <2>3. /\ \A x : In(x, existing_instances') => In(x, existing_instances)
        /\ \A x : In(x, existing_instances) => In(x, existing_instances') \/ x = v
    <3>1. CASE In(v, existing_instances)
      <4>1. existing_instances' = RemoveFirst(existing_instances, v)
        BY <1>3, <3>1 DEF KillMove, TakeOut
      <4> QED  BY <3>1, <4>1, RemoveFirstIn
    <3>2. CASE ~In(v, existing_instances)
      BY <1>3, <3>2 DEF KillMove
    <3> QED  BY <3>1, <3>2
  <2>4. \A x : In(x, deleting_instances') <=> In(x, deleting_instances) \/ x = v
    <3>1. deleting_instances' = Append(deleting_instances, v)
      BY <1>3 DEF KillMove
    <3> QED  BY <3>1, AppendIn
  <2>5. \A x \in VMs : Known(x)' => Known(x)
    BY <2>1, <2>2, <2>3, <2>4 DEF Known, Listed
  <2>6. Born'
    BY <2>1, <2>5, BornFrame, SameCloudDecays
  <2>7. Graves'
    BY <2>1, GravesFrame, SameCloudDecays
  <2>8. Remembered'
    BY <2>1, <2>3, <2>4 DEF Remembered, Listed
  <2> QED  BY <2>6, <2>7, <2>8
<1> QED
  BY <1>1, <1>2, <1>3 DEF InfoStep

(* forceoff, by either of its callers.                                     *)
LEMMA ForceoffSafe ==
    ASSUME TypeInv, Born, Graves, Remembered, NEW c \in Callers, ForceoffStep(c),
           UNCHANGED <<cp, cpTodo, gone, executing, jp, jpVm>>
    PROVE  Born' /\ Graves' /\ Remembered'
<1> USE DEF TypeInv, TypeOK, RCTypeOK
<1> DEFINE Safe == Born' /\ Graves' /\ Remembered'
<1>1. CASE ForceoffLoopEnd(c)
  <2>1. UNCHANGED <<cloud, inTorque, existing_instances, starting_instances, deleting_instances,
                    asked, cleaned, killing>>
    BY <1>1 DEF ForceoffLoopEnd, clusterVars, centerVars, listVars, historyVars
  <2>2. Born'
    BY <2>1, BornFrame, SameCloudDecays DEF Known, Listed
  <2>3. Graves'
    BY <2>1, GravesFrame, SameCloudDecays
  <2>4. Remembered'
    BY <2>1 DEF Remembered, Listed
  <2> QED  BY <2>2, <2>3, <2>4
<1>2. CASE ForceoffExisting(c) \/ ForceoffStarting(c)
  <2>1. PICK v \in VMs, removed \in BOOLEAN, ok \in BOOLEAN :
          TakeAway(v, removed, ok) /\ asked' = asked \cup {v}
    <3>1. foNext[c] \in Nat \ {0}
      <4>1. fo[c] \in {"existing", "starting"}
        BY <1>2 DEF ForceoffExisting, ForceoffStarting
      <4>2. foNext[c] > 0 /\ foNext[c] \in Nat
        BY <4>1 DEF Positioned, FoPositioned, ControlTypeOK
      <4> QED  BY <4>2
    <3>2. CASE ForceoffExisting(c)
      <4>1. RunsOver(c, existing_instances)[foNext[c]] \in VMs
        <5>1. RunsOver(c, existing_instances) \in Seq(VMs)
          BY OldListTypes DEF ControlTypeOK
        <5>2. foNext[c] <= Len(RunsOver(c, existing_instances))
          BY <3>2 DEF ForceoffExisting
        <5> QED  BY <3>1, <5>1, <5>2
      <4>2. PICK removed \in Outcomes("remove"), ok \in Outcomes("destroy") :
              /\ TakeAway(RunsOver(c, existing_instances)[foNext[c]], removed, ok)
              /\ asked' = asked \cup {RunsOver(c, existing_instances)[foNext[c]]}
        BY <3>2 DEF ForceoffExisting
      <4>3. removed \in BOOLEAN /\ ok \in BOOLEAN
        BY DEF Outcomes
      <4> QED  BY <4>1, <4>2, <4>3
    <3>3. CASE ForceoffStarting(c)
      <4>1. RunsOver(c, starting_instances)[foNext[c]] \in VMs
        <5>1. RunsOver(c, starting_instances) \in Seq(VMs)
          BY OldListTypes DEF ControlTypeOK
        <5>2. foNext[c] <= Len(RunsOver(c, starting_instances))
          BY <3>3 DEF ForceoffStarting
        <5> QED  BY <3>1, <5>1, <5>2
      <4>2. PICK ok \in Outcomes("destroy") :
              /\ TakeAway(RunsOver(c, starting_instances)[foNext[c]], FALSE, ok)
              /\ asked' = asked \cup {RunsOver(c, starting_instances)[foNext[c]]}
        BY <3>3 DEF ForceoffStarting
      <4>3. ok \in BOOLEAN
        BY DEF Outcomes
      <4> QED  BY <4>1, <4>2, <4>3
    <3> QED  BY <1>2, <3>2, <3>3
  <2>2. Decays /\ inTorque' \subseteq inTorque
    BY <2>1, TakeAwayDecays
  <2>3. UNCHANGED <<existing_instances, starting_instances, deleting_instances, cleaned, killing>>
    BY <1>2 DEF ForceoffExisting, ForceoffStarting, listVars
  <2>4. Born'
    BY <2>2, <2>3, BornFrame DEF Known, Listed
  <2>5. Graves'
    BY <2>2, <2>3, GravesFrame
  <2>6. Remembered'
    BY <2>1, <2>2, <2>3 DEF Remembered, Listed, Decays
  <2> QED  BY <2>4, <2>5, <2>6
<1>3. CASE ForceoffMoveExisting(c) \/ ForceoffMoveStarting(c)
  <2>1. UNCHANGED <<cloud, inTorque, asked, cleaned, killing>>
    BY <1>3 DEF ForceoffMoveExisting, ForceoffMoveStarting, clusterVars, historyVars
  <2>2. \A x : Listed(x)' <=> Listed(x)
    <3>1. \A x : ~In(x, <<>>)
      BY DEF In
    <3>2. CASE ForceoffMoveExisting(c)
      <4>1. /\ deleting_instances' = deleting_instances \o existing_instances
            /\ existing_instances' = <<>> /\ UNCHANGED starting_instances
        BY <3>2 DEF ForceoffMoveExisting, NewExisting
      <4>2. \A x : In(x, deleting_instances') <=> In(x, deleting_instances) \/ In(x, existing_instances)
        BY <4>1, ConcatIn
      <4> QED  BY <3>1, <4>1, <4>2 DEF Listed
    <3>3. CASE ForceoffMoveStarting(c)
      <4>1. /\ deleting_instances' = deleting_instances \o starting_instances
            /\ starting_instances' = <<>> /\ UNCHANGED existing_instances
        BY <3>3 DEF ForceoffMoveStarting
      <4>2. \A x : In(x, deleting_instances') <=> In(x, deleting_instances) \/ In(x, starting_instances)
        BY <4>1, ConcatIn
      <4> QED  BY <3>1, <4>1, <4>2 DEF Listed
    <3> QED  BY <1>3, <3>2, <3>3
  <2>3. Born'
    BY <2>1, <2>2, BornFrame, SameCloudDecays DEF Known
  <2>4. Graves'
    BY <2>1, GravesFrame, SameCloudDecays
  <2>5. Remembered'
    BY <2>1, <2>2 DEF Remembered
  <2> QED  BY <2>3, <2>4, <2>5
<1> QED
  BY <1>1, <1>2, <1>3 DEF ForceoffStep

(* A step that leaves the lists alone and only lets servers go, as those   *)
(* of the cloud, of Torque and of the main thread do.                      *)
LEMMA QuietSafe ==
    ASSUME Born, Graves, Remembered, Decays, inTorque' \subseteq inTorque,
           UNCHANGED <<existing_instances, starting_instances, deleting_instances, asked, cleaned,
                       cp, cpTodo, gone, executing, jp, jpVm, killing>>
    PROVE  Born' /\ Graves' /\ Remembered'
<1>1. Born'
  BY BornFrame DEF Known, Listed
<1>2. Graves'
  BY GravesFrame
<1>3. Remembered'
  BY DEF Remembered, Listed, Decays
<1> QED  BY <1>1, <1>2, <1>3

-----------------------------------------------------------------------------
(* The daemon.                                                             *)

(* The nodes the daemon finds at its start are running and listed.         *)
LEMMA InitSafe == Init => SafetyInv
<1> SUFFICES ASSUME Init PROVE SafetyInv
  OBVIOUS
<1>1. TypeInv
  BY InitTypes
<1>2. cloud = [v \in VMs |-> IF v \in Loaded THEN "ready" ELSE "none"]
  BY DEF Init, RCInit
<1>3. \A v : In(v, existing_instances) <=> v \in Loaded
  <2>1. IsFiniteSet(Loaded) /\ Cardinality(Loaded) \in Nat
    BY VMsAssumption, LoadedAssumption, FS_Subset, FS_CardinalityType
  <2> DEFINE D == 1 .. Cardinality(Loaded)
  <2>2. existing_instances \in [D -> Loaded] /\ \A v \in Loaded : \E i \in D : existing_instances[i] = v
    <3>1. existing_instances \in Injection(D, Loaded)
      BY DEF Init, RCInit, SetToSeqs, Injection, IsInjective
    <3>2. Cardinality(D) = Cardinality(Loaded)
      BY <2>1, FS_Interval
    <3>3. existing_instances \in Surjection(D, Loaded)
      BY <2>1, <3>1, <3>2, FS_Injection
    <3> QED  BY <3>3 DEF Surjection
  <2>3. Len(existing_instances) = Cardinality(Loaded)
    BY <2>1, <2>2
  <2> QED  BY <2>2, <2>3 DEF In
<1>4. \A v : ~In(v, starting_instances) /\ ~In(v, deleting_instances) /\ ~In(v, executing) /\ ~In(v, gone)
  BY DEF Init, RCInit, CpInit, In
<1>5. jpVm = {} /\ killing = {} /\ gone = <<>> /\ cleaned = {} /\ jp = "poll"
      /\ cp \in {"launchBegin", "poll"}
  BY DEF Init, RCInit, CpInit, JpInit, ControlInit
<1>6. Born
  BY <1>2, <1>3, <1>4, <1>5 DEF Born, Known, Listed
<1>7. Graves
  BY <1>4, <1>5 DEF Graves
<1>8. Remembered
  BY <1>2, <1>3, <1>5 DEF Remembered, Listed, Live
<1> QED  BY <1>1, <1>6, <1>7, <1>8 DEF SafetyInv

(* Every step of the daemon and its surroundings keeps the invariant.      *)
LEMMA NextSafe == SafetyInv /\ [Next]_vars => SafetyInv'
<1> SUFFICES ASSUME SafetyInv, [Next]_vars PROVE SafetyInv'
  OBVIOUS
<1>1. TypeInv /\ TypeInv'
  BY NextTypes DEF SafetyInv
<1> DEFINE Safe == Born' /\ Graves' /\ Remembered'
<1> SUFFICES ASSUME "api" \notin Faults PROVE Safe
  BY <1>1 DEF SafetyInv
<1>2. Born /\ Graves /\ Remembered
  BY DEF SafetyInv
<1>3. CASE CloudPollerStep
  <2>1. CpStep /\ UNCHANGED <<jp, jpVm, killing>>
    BY <1>3 DEF CloudPollerStep, jpVars, controlVars, foVars
  <2> QED  BY <1>1, <1>2, <2>1, CloudPollerSafe
<1>4. CASE JobPollerStep
  <2>1. JpStep /\ UNCHANGED <<cp, cpTodo, gone, executing, killing>>
    BY <1>4 DEF JobPollerStep, cpVars, scanLocals, delLocals, controlVars, foVars
  <2> QED  BY <1>1, <1>2, <2>1, JobPollerSafe
<1>5. CASE InfoServerStep
  <2>1. InfoStep /\ UNCHANGED <<cp, cpTodo, gone, executing, jp, jpVm>>
    BY <1>5 DEF InfoServerStep, cpVars, scanLocals, delLocals, jpVars
  <2> QED  BY <1>1, <1>2, <2>1, InfoServerSafe
<1>6. ASSUME NEW c \in Callers, ForceoffBy(c) PROVE Safe
  <2>1. ForceoffStep(c) /\ UNCHANGED <<cp, cpTodo, gone, executing, jp, jpVm>>
    BY <1>6 DEF ForceoffBy, cpVars, scanLocals, delLocals, jpVars
  <2> QED  BY <1>1, <1>2, <2>1, ForceoffSafe
<1>7. CASE MainStep
  <2>1. UNCHANGED <<cloud, inTorque, existing_instances, starting_instances, deleting_instances,
                    asked, cleaned, cp, cpTodo, gone, executing, jp, jpVm, killing>>
    BY <1>7 DEF MainStep, MainQuit, MainExit, clusterVars, listVars, historyVars, controlVars, foVars,
         cpVars, scanLocals, delLocals, jpVars
  <2> QED  BY <1>2, <2>1, QuietSafe, SameCloudDecays
<1>8. ASSUME NEW v \in VMs, ClusterStep(v) PROVE Safe
  <2>1. Decays /\ inTorque' \subseteq inTorque
    BY <1>1, <1>8, EnvironmentDecays DEF ClusterStep, TypeInv, TypeOK, RCTypeOK
  <2>2. UNCHANGED <<existing_instances, starting_instances, deleting_instances,
                    asked, cleaned, cp, cpTodo, gone, executing, jp, jpVm, killing>>
    BY <1>8 DEF ClusterStep, centerVars, listVars, historyVars, controlVars, foVars,
         cpVars, scanLocals, delLocals, jpVars
  <2> QED  BY <1>2, <2>1, <2>2, QuietSafe
<1>9. CASE UNCHANGED vars
  <2>1. UNCHANGED <<cloud, inTorque, existing_instances, starting_instances, deleting_instances,
                    asked, cleaned, cp, cpTodo, gone, executing, jp, jpVm, killing>>
    BY <1>9 DEF vars, clusterVars, centerVars, listVars, historyVars, controlVars, foVars,
         cpVars, scanLocals, delLocals, jpVars
  <2> QED  BY <1>2, <2>1, QuietSafe, SameCloudDecays
<1> QED
  BY <1>3, <1>4, <1>5, <1>6, <1>7, <1>8, <1>9 DEF Next

(* A server that exists and that nobody has asked the cloud to destroy is  *)
(* in one of the three lists, whatever the pollers, the operator and the   *)
(* faults (other than a failing servers.get) do, for any number of VMs.    *)
THEOREM NothingForgotten == Spec => []NoVmForgotten
<1>1. SafetyInv => NoVmForgotten
  BY DEF SafetyInv, Remembered, NoVmForgotten
<1> QED  BY <1>1, InitSafe, NextSafe, PTL DEF Spec

(* check_cleanup closes the books on a VM only when its server is gone and *)
(* Torque does not know it, and it stays so: no later step puts the node   *)
(* back into Torque.                                                       *)
THEOREM GravesClosed == Spec => []CleanedIsGone
<1>1. SafetyInv => CleanedIsGone
  <2> SUFFICES ASSUME SafetyInv, "api" \notin Faults, NEW v \in cleaned
               PROVE  cloud[v] = "gone" /\ v \notin inTorque
    BY DEF CleanedIsGone
  <2>1. v \in VMs
    BY DEF SafetyInv, TypeInv, TypeOK, RCTypeOK
  <2> QED  BY <2>1 DEF SafetyInv, Graves, Buried
<1> QED  BY <1>1, InitSafe, NextSafe, PTL DEF Spec
=============================================================================
