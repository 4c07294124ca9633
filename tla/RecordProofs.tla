------------------------------ MODULE RecordProofs ------------------------------
(***************************************************************************)
(* What the ResourceCenter records is true, for every set of VMs and under *)
(* the conditions each property names: the persistent file names every     *)
(* worker node in use between two rounds of the cloud poller               *)
(* (NodesPersisted), provisioning is set while a VM is on order            *)
(* (StartingPolled), the number of static nodes still missing is right     *)
(* (StaticsConserved), and the number of nodes available is one that may   *)
(* be ordered (WithinLimit).  In each case the record and what it is   *)
(* about change in different sections; the inductive invariants say what   *)
(* holds in between.                                                       *)
(***************************************************************************)
EXTENDS SafetyProofs, OwnerProofs

(* The persistent file.  A node comes into use in the middle of a round,   *)
(* so dump_nodes is set before that and stays set until the loop begins    *)
(* that reads the list; the loop has what it has passed, as long as no     *)
(* node leaves the list from behind its position.                          *)
Covered == \A v \in VMs : In(v, existing_instances) => v \in persistent_nodes

PassedRead ==
    \A i \in 1 .. Len(existing_instances) :
        dumpAt["cloud"] = 0 \/ i < dumpAt["cloud"] => existing_instances[i] \in content["cloud"]

DumpPending ==
    /\ dump => cp \in {"settle", "reap", "reapMove", "bury", "release", "wrapDel", "dead"}
    /\ cp = "settle" => dump
    /\ cp \in {"bury", "release"} /\ executing # <<>> => dump
    /\ jp = "dump" => Quit

FileTold ==
    /\ cp \in {"dump", "dumpDel"} => PassedRead
    /\ ~dump /\ cp \notin {"dump", "dumpDel", "dead"} => Covered

PersistInv == TypeInv /\ DumpPending /\ (~Quit /\ "cloud" \notin torn => FileTold)

-----------------------------------------------------------------------------
(* What the other threads do to the list and the file: nothing the cloud   *)
(* poller's loop would notice, the removal of a node, or a new list.       *)
SameFile ==
    /\ UNCHANGED <<existing_instances, persistent_nodes>>
    /\ content'["cloud"] = content["cloud"] /\ dumpAt'["cloud"] = dumpAt["cloud"]
    /\ "cloud" \in torn => "cloud" \in torn'

FileMoves ==
    \/ SameFile
    \/ \E v \in VMs : In(v, existing_instances) /\ TakeOut(v)
    \/ NewExisting

(* list.remove leaves what comes before the entry it removes.              *)
LEMMA RemoveFirstBefore ==
    ASSUME NEW S, NEW s \in Seq(S), NEW v, In(v, s), NEW p \in Nat,
           \A i \in 1 .. p - 1 : s[i] # v
    PROVE  \A i \in 1 .. p - 1 : i <= Len(RemoveFirst(s, v)) => RemoveFirst(s, v)[i] = s[i]
<1> DEFINE I == {i \in 1 .. Len(s) : s[i] = v}
           k == Min(I)
           a == SubSeq(s, 1, k - 1)
           b == SubSeq(s, k + 1, Len(s))
<1>1. I \in SUBSET Nat /\ I # {}
  BY DEF In
<1>2. k \in 1 .. Len(s) /\ s[k] = v
  <2>1. k \in I
    BY <1>1, MinInSet
  <2> QED  BY <2>1
<1>3. RemoveFirst(s, v) = a \o b
  BY <1>1 DEF RemoveFirst, RemoveAt, SelectInSeq, In
<1>4. Len(s) \in Nat /\ \A i \in 1 .. Len(s) : s[i] \in S
  OBVIOUS
<1> HIDE DEF k
<1>5. /\ a \in Seq(S) /\ Len(a) = k - 1
      /\ \A i \in 1 .. k - 1 : a[i] = s[i]
  <2>1. \A i \in 1 .. k - 1 : s[i] \in S
    BY <1>2, <1>4
  <2>2. /\ a \in Seq(S) /\ Len(a) = IF 1 <= k - 1 THEN k - 1 - 1 + 1 ELSE 0
        /\ \A i \in 1 .. k - 1 - 1 + 1 : a[i] = s[1 + i - 1]
    BY <1>2, <2>1, SubSeqProperties
  <2> QED  BY <1>2, <2>2
<1>6. b \in Seq(S)
  <2>1. \A i \in k + 1 .. Len(s) : s[i] \in S
    BY <1>2, <1>4
  <2>2. b \in Seq(S) /\ Len(b) = IF k + 1 <= Len(s) THEN Len(s) - (k + 1) + 1 ELSE 0
    BY <1>2, <2>1, SubSeqProperties
  <2> QED  BY <2>2
<1> HIDE DEF a, b
<1>7. k >= p
  BY <1>2, <1>4
<1>8. \A i \in 1 .. Len(a) + Len(b) : (a \o b)[i] = IF i <= Len(a) THEN a[i] ELSE b[i - Len(a)]
  BY <1>5, <1>6, ConcatProperties
<1>9. Len(a \o b) = Len(a) + Len(b) /\ Len(a) \in Nat /\ Len(b) \in Nat
  <2>1. Len(a) \in Nat /\ Len(b) \in Nat
    BY <1>5, <1>6
  <2> QED  BY <1>5, <1>6, <2>1, ConcatProperties
<1>10. ASSUME NEW i \in 1 .. p - 1, i <= Len(a \o b) PROVE (a \o b)[i] = s[i]
  <2>1. i \in 1 .. Len(a) + Len(b) /\ i <= Len(a) /\ i \in 1 .. k - 1
    BY <1>2, <1>4, <1>5, <1>7, <1>9, <1>10
  <2> QED  BY <1>5, <1>8, <2>1
<1> QED  BY <1>3, <1>10

LEMMA TakeOutKeeps ==
    ASSUME TypeInv, NEW v \in VMs, In(v, existing_instances), TakeOut(v), "cloud" \notin torn'
    PROVE  (PassedRead => PassedRead') /\ (Covered => Covered')
<1> DEFINE E == existing_instances
           d == dumpAt["cloud"]
<1>1. E \in Seq(VMs) /\ d \in Nat /\ Len(E) \in Nat
  BY DEF TypeInv, TypeOK, RCTypeOK, Writers
<1>2. /\ E' = RemoveFirst(E, v) /\ content' = content /\ dumpAt' = dumpAt
      /\ persistent_nodes' = persistent_nodes
  BY DEF TakeOut
<1>3. \/ d > Len(E)
      \/ \A i \in 1 .. d - 1 : E[i] # v
  BY DEF TakeOut, Writers, LoopOver
<1>4. E' \in Seq(VMs) /\ \A x : In(x, E') => In(x, E)
  BY <1>1, <1>2, RemoveFirstIn
<1>5. Covered => Covered'
  BY <1>2, <1>4 DEF Covered
<1>6. ASSUME PassedRead, d > Len(E) \/ d = 0 PROVE PassedRead'
  <2>1. \A x : In(x, E) => x \in content["cloud"]
    BY <1>1, <1>6 DEF PassedRead, In
  <2> QED  BY <1>2, <1>4, <2>1 DEF PassedRead, In
<1>7. ASSUME PassedRead, \A i \in 1 .. d - 1 : E[i] # v, d # 0, d <= Len(E) PROVE PassedRead'
  <2>1. \A i \in 1 .. d - 1 : i <= Len(E') => E'[i] = E[i]
    BY <1>1, <1>2, <1>7, RemoveFirstBefore
  <2>2. Len(E') \in Nat
    BY <1>4
  <2> HIDE DEF E, d
  <2>3. ASSUME NEW i \in 1 .. Len(E'), i < d PROVE E'[i] \in content["cloud"]
    <3>1. i \in 1 .. d - 1 /\ i \in 1 .. Len(E)
      BY <1>1, <1>7, <2>2, <2>3
    <3>2. E[i] \in content["cloud"]
      BY <1>7, <2>3, <3>1 DEF PassedRead, E, d
    <3> QED  BY <2>1, <2>2, <3>1, <3>2
  <2>4. dumpAt'["cloud"] = d /\ d # 0
    BY <1>2, <1>7 DEF d
  <2> QED  BY <1>2, <2>3, <2>4 DEF PassedRead, E
<1> QED  BY <1>1, <1>3, <1>5, <1>6, <1>7

LEMMA FileMovesKeep ==
    ASSUME TypeInv, FileMoves, "cloud" \notin torn'
    PROVE  "cloud" \notin torn /\ (PassedRead => PassedRead') /\ (Covered => Covered')
<1>1. CASE SameFile
  BY <1>1 DEF SameFile, PassedRead, Covered
<1>2. ASSUME NEW v \in VMs, In(v, existing_instances), TakeOut(v)
      PROVE  "cloud" \notin torn /\ (PassedRead => PassedRead') /\ (Covered => Covered')
  <2>1. "cloud" \notin torn
    BY <1>2 DEF TakeOut
  <2> QED  BY <1>2, <2>1, TakeOutKeeps
<1>3. CASE NewExisting
  BY <1>3 DEF NewExisting, PassedRead, Covered, In
<1> QED  BY <1>1, <1>2, <1>3 DEF FileMoves

(* A step of another thread than the cloud poller.                         *)
LEMMA OthersPersist ==
    ASSUME PersistInv, TypeInv', FileMoves, UNCHANGED <<cp, dump, executing>>, Quit => Quit',
           jp' = "dump" => jp = "dump" \/ Quit
    PROVE  PersistInv'
<1>1. DumpPending'
  BY DEF PersistInv, DumpPending
<1>2. ASSUME ~Quit', "cloud" \notin torn' PROVE FileTold'
  <2>1. FileTold /\ (PassedRead => PassedRead') /\ (Covered => Covered')
    BY <1>2, FileMovesKeep DEF PersistInv
  <2> QED  BY <2>1 DEF FileTold
<1> QED  BY <1>1, <1>2 DEF PersistInv

(* The steps of the cloud poller.                                          *)
LEMMA CloudPollerPersists ==
    ASSUME PersistInv, TypeInv', CpStep, UNCHANGED jp, Quit => Quit'
    PROVE  PersistInv'
<1> USE DEF DumpPending, FileTold
<1>0. TypeInv /\ DumpPending /\ (~Quit' /\ "cloud" \notin torn => FileTold)
  BY DEF PersistInv
<1> SUFFICES DumpPending' /\ (~Quit' /\ "cloud" \notin torn' => FileTold')
  BY DEF PersistInv
<1>j. jp' = "dump" => Quit'
  BY <1>0
<1>1. CASE \/ CpPoll \/ CpStop \/ CheckBuilding \/ JoinOk \/ JoinFail \/ CheckJoined
           \/ Reap \/ ReapMove \/ Wrap \/ ProvOff \/ LaunchBegin \/ LaunchEnd
           \/ (\E v \in VMs : Launch(v)) \/ CleanupBegin \/ DelRead \/ DelAct \/ CleanupEnd
           \/ Relaunch \/ CpRaise
  <2>1. UNCHANGED <<existing_instances, persistent_nodes, content, dumpAt, torn, dump>>
    BY <1>1 DEF CpPoll, CpStop, CheckBuilding, JoinOk, JoinFail, CheckJoined, Reap, ReapMove, Wrap,
         ProvOff, LaunchBegin, LaunchEnd, Launch, CleanupBegin, DelRead, DelAct, CleanupEnd, Relaunch,
         CpRaise, centerVars, listVars, flagVars, fileVars, flagsButFile, rcButLock
  <2>2. /\ dump => cp' \in {"settle", "reap", "reapMove", "bury", "release", "wrapDel", "dead"}
        /\ cp' \notin {"settle", "bury", "release", "dump", "dumpDel"}
        /\ cp' # "dead" => cp \notin {"dump", "dumpDel", "dead"}
    <3>1. CASE CheckBuilding
      <4>1. cp = "scan" /\ (cp' = "scan" \/ cp' = "join")
        BY <3>1, SMTT(30) DEF CheckBuilding
      <4> QED  BY <1>0, <4>1
    <3>2. CASE DelRead
      <4>1. cp = "delRead" /\ (cp' = "delRead" \/ cp' = "delAct")
        BY <3>2, SMTT(30) DEF DelRead
      <4> QED  BY <1>0, <4>1
    <3>3. CASE LaunchBegin \/ LaunchEnd
      <4>1. cp \in {"launchBegin", "launch"} /\ (cp' = "launch" \/ cp' = after)
        BY <3>3 DEF LaunchBegin, LaunchEnd
      <4>2. after \in {"cleanup", "poll"}
        BY <1>0 DEF TypeInv, TypeOK, CpTypeOK
      <4> QED  BY <1>0, <4>1, <4>2
    <3>4. CASE ~(CheckBuilding \/ DelRead \/ LaunchBegin \/ LaunchEnd)
      BY <1>0, <1>1, <3>4 DEF CpPoll, CpStop, JoinOk, JoinFail, CheckJoined, Reap, ReapMove, Wrap,
         ProvOff, Launch, CleanupBegin, DelAct, CleanupEnd, Relaunch, CpRaise, CpDie
    <3> QED  BY <3>1, <3>2, <3>3, <3>4
  <2>3. Covered => Covered'
    BY <2>1 DEF Covered
  <2>4. DumpPending'
    BY <1>j, <2>1, <2>2
  <2> QED  BY <1>0, <2>1, <2>2, <2>3, <2>4
<1>2. CASE ScanEnd
  <2>1. /\ dump' = (ready # <<>>) /\ (cp' = "settle" <=> dump') /\ cp' \in {"settle", "reap"}
        /\ cp = "scan" /\ UNCHANGED <<existing_instances, persistent_nodes, torn>>
    BY <1>2 DEF ScanEnd, rcButLock, listVars, fileVars
  <2>2. ~dump
    BY <1>0, <2>1
  <2> QED  BY <1>0, <1>j, <2>1, <2>2 DEF Covered
<1>3. CASE Settle
  <2>1. dump' /\ cp' \in {"settle", "reap", "dead"}
    BY <1>0, <1>3 DEF Settle, CpDie
  <2> QED  BY <1>j, <2>1
<1>4. CASE ReapEnd \/ WrapDel
  <2>1. ~dump' /\ cp' \in {"dump", "dumpDel", "wrap", "relaunch"}
    BY <1>4 DEF ReapEnd, WrapDel
  <2>2. DumpPending'
    BY <1>j, <2>1
  <2>3. CASE dump
    <3>1. dumpAt'["cloud"] = 1 /\ cp' \in {"dump", "dumpDel"}
      BY <1>0, <1>4, <2>3 DEF ReapEnd, WrapDel, DumpBegin, TypeInv, TypeOK, RCTypeOK, Writers
    <3>2. PassedRead'
      BY <3>1 DEF PassedRead
    <3> QED  BY <2>2, <3>1, <3>2
  <2>4. CASE ~dump
    <3>1. /\ UNCHANGED <<existing_instances, persistent_nodes, torn>> /\ cp' \in {"wrap", "relaunch"}
          /\ cp \in {"reap", "wrapDel"}
      BY <1>4, <2>4 DEF ReapEnd, WrapDel, listVars, fileVars
    <3> QED  BY <1>0, <2>2, <2>4, <3>1 DEF Covered
  <2> QED  BY <2>3, <2>4
<1>5. CASE CpDumpNext
  <2>1. /\ cp \in {"dump", "dumpDel"} /\ DumpNext("cloud")
        /\ UNCHANGED <<cp, dump, existing_instances, persistent_nodes, torn>>
    BY <1>5 DEF CpDumpNext, fileKeep, listVars, DumpNext
  <2>2. existing_instances \in Seq(VMs) /\ dumpAt["cloud"] \in Nat
    BY <1>0 DEF TypeInv, TypeOK, RCTypeOK, Writers
  <2>3. PassedRead => PassedRead'
    <3>1. CASE LoopOver("cloud")
      <4>1. dumpAt["cloud"] > Len(existing_instances) /\ UNCHANGED content
        BY <2>1, <3>1 DEF LoopOver, DumpNext
      <4> QED  BY <2>1, <2>2, <4>1 DEF PassedRead
    <3>2. CASE ~LoopOver("cloud")
      <4>1. /\ dumpAt'["cloud"] = dumpAt["cloud"] + 1
            /\ content'["cloud"] = content["cloud"] \cup {existing_instances[dumpAt["cloud"]]}
            /\ dumpAt["cloud"] # 0
        BY <1>0, <2>1, <3>2 DEF DumpNext, TypeInv, TypeOK, RCTypeOK, Writers
      <4> QED  BY <2>1, <2>2, <4>1 DEF PassedRead
    <3> QED  BY <3>1, <3>2
  <2>4. DumpPending'
    BY <1>0, <1>j, <2>1
  <2> QED  BY <1>0, <2>1, <2>3, <2>4
<1>6. CASE CpDumpEnd
  <2>1. /\ cp \in {"dump", "dumpDel"} /\ cp' \in {"wrap", "relaunch"} /\ dumpAt["cloud"] = 0
        /\ persistent_nodes' = content["cloud"] /\ UNCHANGED <<dump, existing_instances, torn>>
    BY <1>6 DEF CpDumpEnd, fileKeep, listVars, DumpWrite
  <2>2. ~dump /\ DumpPending'
    BY <1>0, <1>j, <2>1
  <2>3. PassedRead => Covered'
    BY <2>1 DEF PassedRead, Covered, In
  <2> QED  BY <1>0, <2>1, <2>2, <2>3
<1>7. CASE DelEnd
  <2>1. /\ cp = "delRead" /\ cp' = "bury" /\ executing' = executing
        /\ dump' = (gone # <<>> \/ executing # <<>>)
        /\ UNCHANGED <<existing_instances, persistent_nodes, torn>>
    BY <1>7 DEF DelEnd, rcButLock, listVars, fileVars
  <2>2. ~dump
    BY <1>0, <2>1
  <2> QED  BY <1>0, <1>j, <2>1, <2>2 DEF Covered
<1>8. CASE Bury
  <2>1. /\ UNCHANGED <<existing_instances, persistent_nodes, torn, dump, executing>>
        /\ cp' \in {"bury", "dead"} /\ cp = "bury"
    BY <1>8 DEF Bury, CpDie, fileVars
  <2>2. Covered => Covered'
    BY <2>1 DEF Covered
  <2> QED  BY <1>0, <1>j, <2>1, <2>2
<1>9. CASE Back
  <2>1. dump' /\ cp' \in {"release", "dead"}
    BY <1>0, <1>9 DEF Back, CpDie
  <2> QED  BY <1>j, <2>1
<1>10. CASE ReleaseNode
  <2>1. executing # <<>>
    BY <1>0, <1>10 DEF ReleaseNode, TypeInv, Positioned, CpPositioned
  <2>2. dump' /\ cp' = "bury"
    BY <1>0, <1>10, <2>1 DEF ReleaseNode
  <2> QED  BY <1>j, <2>2
<1> QED
  BY <1>1, <1>2, <1>3, <1>4, <1>5, <1>6, <1>7, <1>8, <1>9, <1>10 DEF CpStep

(* The job poller takes nodes out of use, and writes the file at its end.  *)
LEMMA JobPollerMoves ==
    ASSUME TypeInv, JpStep, ~JpDumpEnd
    PROVE  FileMoves
<1>1. CASE JpPoll \/ JpRaise \/ JpDecide \/ IdleWrap \/ JpScanEnd \/ Determine \/ Extend
  <2>1. SameFile
    BY <1>1 DEF JpPoll, JpRaise, JpDecide, IdleWrap, JpScanEnd, Determine, Extend, SameFile,
         jpKeep, centerVars, listVars, flagVars, fileVars, flagsButFile
  <2> QED  BY <2>1 DEF FileMoves
<1>2. CASE JpStop \/ JpDumpNext
  <2>1. content \in [Writers -> SUBSET VMs] /\ dumpAt \in [Writers -> Nat] /\ "cloud" # "job"
    BY DEF TypeInv, TypeOK, RCTypeOK
  <2>2. UNCHANGED existing_instances /\ (DumpBegin("job") \/ DumpNext("job"))
    BY <1>2 DEF JpStop, JpDumpNext, jpFileKeep, listVars
  <2>3. SameFile
    BY <2>1, <2>2 DEF DumpBegin, DumpNext, SameFile, Writers
  <2> QED  BY <2>3 DEF FileMoves
<1>3. ASSUME NEW v \in VMs, SkipNode(v) \/ Inspect(v) \/ IdleKill(v) \/ IdleUnlist(v)
      PROVE FileMoves
  <2>1. SameFile
    BY <1>3 DEF SkipNode, Inspect, IdleKill, IdleUnlist, SameFile, centerVars, listVars, flagVars,
         fileVars
  <2> QED  BY <2>1 DEF FileMoves
<1>4. ASSUME NEW v \in VMs, IdleRemove(v) \/ Retire(v) PROVE FileMoves
  BY <1>4 DEF IdleRemove, Retire, FileMoves, SameFile, fileVars
<1> QED
  BY <1>1, <1>2, <1>3, <1>4 DEF JpStep

(* So do the requests; the main thread and the cluster leave both alone.   *)
LEMMA ControlMoves ==
    ASSUME TypeInv,
           \/ InfoStep
           \/ \E c \in Callers : ForceoffStep(c)
           \/ MainStep
           \/ \E v \in VMs : ClusterStep(v)
    PROVE  FileMoves
<1>1. ASSUME NEW v \in VMs, KillMove(v) PROVE FileMoves
  BY <1>1 DEF KillMove, FileMoves, SameFile, fileVars
<1>2. ASSUME NEW c \in Callers, ForceoffMoveExisting(c) PROVE FileMoves
  BY <1>2 DEF ForceoffMoveExisting, FileMoves
<1>3. CASE ToggleSleepMode \/ ForceoffRequest \/ MainStep
           \/ (\E v \in VMs : KillBegin(v) \/ KillHold(v) \/ ClusterStep(v))
           \/ (\E c \in Callers : \/ ForceoffLoopEnd(c) \/ ForceoffExisting(c)
                                  \/ ForceoffStarting(c) \/ ForceoffMoveStarting(c))
  <2>1. UNCHANGED <<existing_instances, fileVars>>
    BY <1>3 DEF ToggleSleepMode, ForceoffRequest, MainStep, MainQuit, MainExit, KillBegin, KillHold,
         ClusterStep, ForceoffLoopEnd, ForceoffExisting, ForceoffStarting, ForceoffMoveStarting,
         centerVars, listVars, flagVars, flagsButFile
  <2> QED  BY <2>1 DEF FileMoves, SameFile, fileVars
<1> QED
  BY <1>1, <1>2, <1>3 DEF InfoStep, ForceoffStep

(* The daemon that is told to stop stays told.                             *)
LEMMA QuitStays == [Next]_vars => (Quit => Quit')
<1> SUFFICES ASSUME [Next]_vars, main \in {"join", "exited"} PROVE main' \in {"join", "exited"}
  BY DEF Quit
<1>1. CASE CpStep
  <2>1. CASE LaunchBegin \/ LaunchEnd
    BY <2>1 DEF LaunchBegin, LaunchEnd
  <2>2. CASE ~(LaunchBegin \/ LaunchEnd)
    BY <1>1, <2>2 DEF CpStep, CpPoll, CpStop, CheckBuilding, JoinOk, JoinFail, CheckJoined, ScanEnd,
         Settle, Reap, ReapMove, ReapEnd, Wrap, ProvOff, CpDumpNext, CpDumpEnd, fileKeep, Launch,
         CleanupBegin, DelRead, DelAct, DelEnd, Bury, Back, ReleaseNode, CleanupEnd, WrapDel,
         Relaunch, CpRaise, centerVars, flagVars, fileVars, flagsButFile, rcButLock
  <2> QED  BY <2>1, <2>2
<1>2. CASE JpStep
  BY <1>2 DEF JpStep, JpPoll, JpRaise, JpDecide, JpStop, JpDumpNext, JpDumpEnd, jpFileKeep,
       SkipNode, Inspect, IdleKill, IdleUnlist, IdleRemove, IdleWrap, Retire, JpScanEnd, Determine,
       Extend, jpKeep, centerVars, flagVars, fileVars, flagsButFile
<1>3. CASE InfoStep \/ MainStep
  BY <1>3 DEF InfoStep, ToggleSleepMode, ForceoffRequest, KillBegin, KillHold, KillMove,
       MainStep, MainQuit, MainExit, centerVars, flagVars, fileVars, flagsButFile
<1>4. ASSUME NEW c \in Callers, ForceoffStep(c) PROVE main' \in {"join", "exited"}
  BY <1>4 DEF ForceoffStep, ForceoffLoopEnd, ForceoffExisting, ForceoffMoveExisting,
       ForceoffStarting, ForceoffMoveStarting, centerVars, flagVars, fileVars, flagsButFile
<1>5. CASE (\E v \in VMs : ClusterStep(v)) \/ UNCHANGED vars
  BY <1>5 DEF ClusterStep, vars, centerVars, flagVars, fileVars, flagsButFile
<1> QED
  BY <1>1, <1>2, <1>3, <1>4, <1>5 DEF Next, CloudPollerStep, JobPollerStep, InfoServerStep, ForceoffBy

-----------------------------------------------------------------------------

(* The file a starting daemon has read names the nodes it has kept.        *)
LEMMA InitPersisted == Init => PersistInv
<1> SUFFICES ASSUME Init PROVE PersistInv
  OBVIOUS
<1>1. TypeInv
  BY InitTypes
<1>2. dump = FALSE /\ cp = "launchBegin" /\ jp = "poll"
  BY DEF Init, CpInit, JpInit
<1>3. Covered
  <2>1. existing_instances \in Seq(Loaded) /\ persistent_nodes = Loaded
    <3>1. Cardinality(Loaded) \in Nat
      BY VMsAssumption, LoadedAssumption, FS_Subset, FS_CardinalityType
    <3>2. existing_instances \in [1 .. Cardinality(Loaded) -> Loaded]
      BY DEF Init, RCInit, SetToSeqs
    <3> QED  BY <3>1, <3>2 DEF Init, RCInit
  <2> QED  BY <2>1 DEF Covered, In
<1> QED  BY <1>1, <1>2, <1>3 DEF PersistInv, DumpPending, FileTold

LEMMA NextPersisted == PersistInv /\ [Next]_vars => PersistInv'
<1> SUFFICES ASSUME PersistInv, [Next]_vars PROVE PersistInv'
  OBVIOUS
<1>1. TypeInv /\ TypeInv' /\ (Quit => Quit')
  BY NextTypes, QuitStays DEF PersistInv
<1>2. CASE CloudPollerStep
  BY <1>1, <1>2, CloudPollerPersists DEF CloudPollerStep, jpVars
<1>3. CASE JobPollerStep /\ ~JpDumpEnd
  <2>1. UNCHANGED <<cp, dump, executing>> /\ JpStep
    BY <1>3 DEF JobPollerStep, cpVars
  <2>2. jp' = "dump" => jp = "dump" \/ Quit
    BY <2>1 DEF JpStep, JpPoll, JpRaise, JpDecide, JpStop, JpDumpNext, JpDumpEnd, SkipNode, Inspect,
         IdleKill, IdleUnlist, IdleRemove, IdleWrap, Retire, JpScanEnd, Determine, Extend
  <2> QED  BY <1>1, <1>3, <2>1, <2>2, JobPollerMoves, OthersPersist
<1>4. CASE JobPollerStep /\ JpDumpEnd
  <2>1. UNCHANGED <<cp, dump, executing>> /\ jp = "dump" /\ jp' = "stopped"
    BY <1>4 DEF JobPollerStep, cpVars, JpDumpEnd
  <2> QED  BY <1>1, <2>1 DEF PersistInv, DumpPending
<1>5. CASE \/ InfoServerStep \/ MainStep
           \/ (\E c \in Callers : ForceoffBy(c)) \/ (\E v \in VMs : ClusterStep(v))
  <2>1. UNCHANGED <<cp, dump, executing, jp>>
    BY <1>5 DEF InfoServerStep, MainStep, ForceoffBy, ClusterStep, cpVars, jpVars
  <2>2. FileMoves
    BY <1>1, <1>5, ControlMoves DEF InfoServerStep, ForceoffBy
  <2> QED  BY <1>1, <2>1, <2>2, OthersPersist
<1>6. CASE UNCHANGED vars
  <2>1. UNCHANGED <<cp, dump, executing, jp>> /\ FileMoves
    BY <1>6 DEF vars, centerVars, listVars, flagVars, fileVars, cpVars, jpVars, delLocals, FileMoves,
         SameFile
  <2> QED  BY <1>1, <2>1, OthersPersist
<1> QED
  BY <1>2, <1>3, <1>4, <1>5, <1>6 DEF Next

(* Between two rounds of the cloud poller the persistent file names every  *)
(* worker node in use, for any number of VMs and whatever the other        *)
(* threads and the operator do to the list while the file is written, as   *)
(* long as none of them takes a node out from behind the position of the   *)
(* loop that reads it: a daemon that is killed then finds them again.      *)
THEOREM FileCoversNodes == Spec => []NodesPersisted
<1>1. PersistInv => NodesPersisted
  BY DEF PersistInv, DumpPending, FileTold, Covered, NodesPersisted
<1> QED  BY <1>1, InitPersisted, NextPersisted, PTL DEF Spec

-----------------------------------------------------------------------------
(* The fields of a VM.  Only Settle makes a VM static, and only Inspect    *)
(* swaps a static one with a dynamic one; a location is not forgotten.     *)
KeepsFields ==
    \A v \in VMs : /\ vm'[v].dynamic = vm[v].dynamic
                   /\ vm[v].zone => vm'[v].zone
                   /\ vm'[v].cloud_ready => vm[v].cloud_ready \/ vm'[v].zone

LEMMA SameFields == UNCHANGED vm => KeepsFields
BY DEF KeepsFields

LEMMA ForcedOffKeeps ==
    ASSUME vm \in [VMs -> VMRecords], NEW v, NEW f, NEW d
    PROVE  /\ vm' = [vm EXCEPT ![v].delete_time = d] => KeepsFields
           /\ vm' = [vm EXCEPT ![v].force_off = f] => KeepsFields
           /\ vm' = [vm EXCEPT ![v].force_off = f, ![v].delete_time = d] => KeepsFields
BY DEF KeepsFields, VMRecords

LEMMA RecordKeeps ==
    ASSUME vm \in [VMs -> VMRecords], NEW v \in VMs, NEW r, vm' = [vm EXCEPT ![v] = r],
           r.dynamic = vm[v].dynamic, vm[v].zone => r.zone,
           r.cloud_ready => vm[v].cloud_ready \/ r.zone
    PROVE  KeepsFields
BY DEF KeepsFields

LEMMA CheckedKeeps ==
    ASSUME vm \in [VMs -> VMRecords], NEW v \in VMs, NEW s
    PROVE  /\ vm' = [vm EXCEPT ![v] = Checked(@, s)] => KeepsFields
           /\ vm' = [vm EXCEPT ![v] = [Checked(@, s) EXCEPT !.cloud_ready = (s = 0)]] => KeepsFields
<1> DEFINE r == Checked(vm[v], s)
           q == [r EXCEPT !.cloud_ready = (s = 0)]
<1>1. /\ r.dynamic = vm[v].dynamic /\ r.cloud_ready = vm[v].cloud_ready
      /\ r.zone = (vm[v].zone \/ s \in {0, 1})
  BY DEF Checked, VMRecords
<1>2. q.dynamic = r.dynamic /\ q.zone = r.zone /\ q.cloud_ready = (s = 0)
  BY DEF Checked, VMRecords
<1>3. s = 0 => r.zone
  BY <1>1
<1> HIDE DEF r, q
<1>4. vm' = [vm EXCEPT ![v] = r] => KeepsFields
  BY <1>1, RecordKeeps
<1>5. vm' = [vm EXCEPT ![v] = q] => KeepsFields
  BY <1>1, <1>2, <1>3, RecordKeeps
<1> QED  BY <1>4, <1>5 DEF r, q

LEMMA CloudPollerKeeps ==
    ASSUME TypeInv, CpStep, ~Settle
    PROVE  KeepsFields
<1> USE DEF TypeInv, TypeOK, RCTypeOK
<1>1. CASE CheckBuilding \/ DelRead
  <2>1. CASE CheckBuilding
    <3>1. PICK v \in VMs : v = Head(cpTodo)
      BY <2>1, TailIn DEF CheckBuilding, CpTypeOK
    <3>2. \E s \in VmCheck(v) : vm' = [vm EXCEPT ![v] = [Checked(@, s) EXCEPT !.cloud_ready = (s = 0)]]
      BY <2>1, <3>1 DEF CheckBuilding
    <3> QED  BY <3>2, CheckedKeeps
  <2>2. CASE DelRead
    <3>1. PICK v \in VMs : v = deleting_instances[cursor]
      BY <2>2 DEF DelRead, Positioned, CpPositioned, CpTypeOK
    <3>2. \E s \in VmCheck(v) : vm' = [vm EXCEPT ![v] = Checked(@, s)]
      BY <2>2, <3>1 DEF DelRead
    <3> QED  BY <3>2, CheckedKeeps
  <2> QED  BY <1>1, <2>1, <2>2
<1>2. CASE Reap \/ DelAct
  <2>1. \E v, d : vm' = [vm EXCEPT ![v].delete_time = d]
    BY <1>2 DEF Reap, DelAct
  <2> QED  BY <2>1, ForcedOffKeeps
<1>3. CASE CpRaise
  <2>1. UNCHANGED vm \/ \E v \in VMs : vm' = [vm EXCEPT ![v] = Checked(@, 1)]
    BY <1>3 DEF CpRaise, Checking
  <2> QED  BY <2>1, SameFields, CheckedKeeps
<1>4. CASE ~(CheckBuilding \/ DelRead \/ Reap \/ DelAct \/ CpRaise)
  <2>1. UNCHANGED vm
    BY <1>4 DEF CpStep, CpPoll, CpStop, JoinOk, JoinFail, CheckJoined, ScanEnd, ReapMove, ReapEnd,
         Wrap, ProvOff, CpDumpNext, CpDumpEnd, fileKeep, LaunchBegin, Launch, LaunchEnd,
         CleanupBegin, DelEnd, Bury, Back, ReleaseNode, CleanupEnd, WrapDel, Relaunch, centerVars
  <2> QED  BY <2>1, SameFields
<1> QED  BY <1>1, <1>2, <1>3, <1>4

LEMMA JobPollerKeeps ==
    ASSUME TypeInv, JpStep, \A v \in VMs : ~Inspect(v)
    PROVE  KeepsFields
<1> USE DEF TypeInv, TypeOK, RCTypeOK
<1>1. ASSUME NEW v \in VMs, IdleKill(v) PROVE KeepsFields
  <2>1. \E d : vm' = [vm EXCEPT ![v].force_off = TRUE, ![v].delete_time = d]
    BY <1>1 DEF IdleKill
  <2> QED  BY <2>1, ForcedOffKeeps
<1>2. CASE ~ \E v \in VMs : IdleKill(v)
  <2>1. UNCHANGED vm
    BY <1>2 DEF JpStep, JpPoll, JpRaise, JpDecide, JpStop, JpDumpNext, JpDumpEnd, jpFileKeep,
         SkipNode, IdleUnlist, IdleRemove, Retire, IdleWrap, JpScanEnd, Determine, Extend, jpKeep,
         centerVars
  <2> QED  BY <2>1, SameFields
<1> QED  BY <1>1, <1>2

LEMMA OthersKeep ==
    ASSUME TypeInv,
           \/ InfoStep
           \/ \E c \in Callers : ForceoffStep(c)
           \/ MainStep
           \/ \E v \in VMs : ClusterStep(v)
    PROVE  KeepsFields
<1> USE DEF TypeInv, TypeOK, RCTypeOK
<1>1. ASSUME NEW c \in Callers, ForceoffExisting(c) \/ ForceoffStarting(c) PROVE KeepsFields
  <2>1. \E v, d : \/ vm' = [vm EXCEPT ![v].force_off = TRUE, ![v].delete_time = d]
                 \/ vm' = [vm EXCEPT ![v].delete_time = d]
    BY <1>1 DEF ForceoffExisting, ForceoffStarting
  <2> QED  BY <2>1, ForcedOffKeeps
<1>2. ASSUME NEW v \in VMs, KillHold(v) PROVE KeepsFields
  BY <1>2, ForcedOffKeeps DEF KillHold
<1>3. CASE /\ ~ \E v \in VMs : KillHold(v)
           /\ ~ \E c \in Callers : ForceoffExisting(c) \/ ForceoffStarting(c)
  <2>1. UNCHANGED vm
    BY <1>3 DEF InfoStep, ToggleSleepMode, ForceoffRequest, KillBegin, KillMove, ForceoffStep,
         ForceoffLoopEnd, ForceoffMoveExisting, ForceoffMoveStarting, MainStep, MainQuit, MainExit,
         ClusterStep, centerVars
  <2> QED  BY <2>1, SameFields
<1> QED  BY <1>1, <1>2, <1>3

-----------------------------------------------------------------------------
(* The provisioning flag, when there are no static nodes.  The job poller  *)
(* works on the nodes only while it is not set, and the cloud poller on    *)
(* the starting VMs only while it is, so neither write to it comes at the  *)
(* wrong time.                                                             *)

OnOrder == starting_instances # <<>> \/ provision_waiting_list # <<>>

AllDynamic == num_of_vm = 0 /\ \A v \in VMs : vm[v].dynamic

Flagged ==
    /\ OnOrder => provisioning
    /\ jp \in {"scan", "idleKill", "idleUnlist", "idleRemove", "idleWrap", "retire", "determine",
              "extend"} => ~provisioning
    /\ cp \in {"scan", "join", "settle", "reap", "reapMove", "dump", "wrap", "provOff", "launch"}
          => provisioning
    /\ cp = "provOff" => ~OnOrder

FlagInv == TypeInv /\ (StaticWanted = 0 => AllDynamic /\ Flagged)

LEMMA CloudPollerFlags ==
    ASSUME TypeInv, AllDynamic, Flagged, CpStep, UNCHANGED jp
    PROVE  AllDynamic' /\ Flagged'
<1> USE DEF TypeInv, TypeOK, RCTypeOK, CpTypeOK, AllDynamic, Flagged, OnOrder
<1>1. CASE \/ CpPoll \/ CpStop \/ JoinOk \/ JoinFail \/ CheckJoined \/ ScanEnd \/ ReapEnd
           \/ CpDumpNext \/ CpDumpEnd \/ CleanupBegin \/ DelEnd \/ ReleaseNode \/ CleanupEnd
           \/ WrapDel
  <2>1. UNCHANGED <<vm, num_of_vm, starting_instances, provision_waiting_list, provisioning>>
    BY <1>1 DEF CpPoll, CpStop, JoinOk, JoinFail, CheckJoined, ScanEnd, ReapEnd, CpDumpNext,
         CpDumpEnd, fileKeep, CleanupBegin, DelEnd, ReleaseNode, CleanupEnd, WrapDel, centerVars,
         listVars, flagVars, fileVars, flagsButFile, rcButLock
  <2>2. /\ cp' \in {"scan", "join", "settle", "reap", "reapMove", "dump", "wrap", "launch"}
              => provisioning
        /\ cp' # "provOff"
    BY <1>1 DEF CpPoll, CpStop, JoinOk, JoinFail, CheckJoined, ScanEnd, ReapEnd, CpDumpNext,
         CpDumpEnd, CleanupBegin, DelEnd, ReleaseNode, CleanupEnd, WrapDel
  <2> QED  BY <2>1, <2>2
<1>2. CASE CheckBuilding \/ DelRead \/ CpRaise
  <2>2. \A u \in VMs : vm'[u].dynamic = vm[u].dynamic
    <3>1. ~Settle
      BY <1>2 DEF CheckBuilding, DelRead, CpRaise, Checking, Settle
    <3> QED  BY <3>1, CloudPollerKeeps DEF KeepsFields
  <2>3. UNCHANGED <<num_of_vm, starting_instances, provision_waiting_list, provisioning>>
    BY <1>2 DEF CheckBuilding, DelRead, CpRaise, listVars, flagVars, rcButLock
  <2>4. /\ cp' \in {"scan", "join", "settle", "reap", "reapMove", "dump", "wrap", "launch"}
              => provisioning
        /\ cp' # "provOff"
    <3>1. CASE CheckBuilding
      <4>1. cp = "scan" /\ (cp' = "scan" \/ cp' = "join")
        BY <3>1, SMTT(30) DEF CheckBuilding
      <4> QED  BY <4>1
    <3>2. CASE DelRead
      <4>1. cp = "delRead" /\ (cp' = "delRead" \/ cp' = "delAct")
        BY <3>2, SMTT(30) DEF DelRead
      <4> QED  BY <4>1
    <3>3. CASE CpRaise
      BY <3>3 DEF CpRaise, CpDie
    <3> QED  BY <1>2, <3>1, <3>2, <3>3
  <2> QED  BY <2>2, <2>3, <2>4
<1>3. CASE Settle
  <2>1. ~NeedVm
    BY DEF NeedVm
  <2>2. /\ UNCHANGED <<vm, num_of_vm, provision_waiting_list, provisioning>> /\ cp = "settle"
        /\ cp' \in {"dead", "reap", "settle"}
    BY <1>3, <2>1 DEF Settle, CpDie
  <2> QED  BY <2>2
<1>4. CASE Reap \/ DelAct
  <2>1. /\ UNCHANGED <<num_of_vm, starting_instances, provisioning>>
        /\ \/ cp = "reap" /\ cp' = "reapMove"
           \/ cp' = "delRead" /\ UNCHANGED provision_waiting_list
    BY <1>4 DEF Reap, DelAct, listVars, flagVars, fileVars, flagsButFile
  <2>3. \A u \in VMs : vm'[u].dynamic = vm[u].dynamic
    <3>1. ~Settle
      BY <1>4 DEF Reap, DelAct, Settle
    <3> QED  BY <3>1, CloudPollerKeeps DEF KeepsFields
  <2> QED  BY <2>1, <2>3
<1>5. CASE ReapMove
  <2>1. /\ UNCHANGED <<vm, num_of_vm, provision_waiting_list, provisioning>>
        /\ cp = "reapMove" /\ cp' \in {"reap", "dead"}
    BY <1>5 DEF ReapMove, rcButLock, CpDie
  <2> QED  BY <2>1
<1>6. CASE Wrap \/ Relaunch
  <2>1. /\ UNCHANGED <<vm, num_of_vm, starting_instances, provision_waiting_list, provisioning>>
        /\ cp' \in {"provOff", "launchBegin", "poll"}
        /\ cp' = "provOff" => cp = "wrap" /\ ~OnOrder
    BY <1>6 DEF Wrap, Relaunch, NothingToProvision, centerVars, listVars, flagVars
  <2> QED  BY <2>1
<1>7. CASE ProvOff
  <2>1. /\ UNCHANGED <<vm, num_of_vm, starting_instances, provision_waiting_list>> /\ ~OnOrder
        /\ cp' = "cleanup" /\ provisioning' = FALSE
    BY <1>7 DEF ProvOff, listVars
  <2> QED  BY <2>1
<1>8. CASE LaunchBegin
  <2>1. /\ UNCHANGED <<vm, num_of_vm, starting_instances, provision_waiting_list>>
        /\ \/ provision_waiting_list # <<>> /\ provisioning' = TRUE
           \/ UNCHANGED provisioning /\ cp' \in {"cleanup", "poll"}
    BY <1>8 DEF LaunchBegin, listVars
  <2>2. cp' \in {"launch", "cleanup", "poll"}
    BY <1>8 DEF LaunchBegin
  <2> QED  BY <2>1, <2>2
<1>9. ASSUME NEW v \in VMs, Launch(v) PROVE AllDynamic' /\ Flagged'
  <2>1. UNCHANGED <<vm, num_of_vm, provisioning, cp>> /\ cp = "launch"
    BY <1>9 DEF Launch, flagVars, fileVars, flagsButFile
  <2> QED  BY <2>1
<1>10. CASE LaunchEnd
  <2>1. /\ UNCHANGED <<vm, num_of_vm, provisioning>> /\ cp = "launch" /\ cp' \in {"cleanup", "poll"}
    BY <1>10 DEF LaunchEnd
  <2> QED  BY <2>1
<1>11. CASE Bury \/ Back
  <2>1. CASE Bury
    <3>1. gone # <<>> /\ Head(gone) \in VMs
      BY <2>1, TailIn DEF Bury
    <3>2. ~Replaced(Head(gone))
      BY <3>1 DEF Replaced
    <3> QED  BY <2>1, <3>2 DEF Bury, CpDie
  <2>2. CASE Back
    BY <2>2 DEF Back, CpDie, rcButLock
  <2> QED  BY <1>11, <2>1, <2>2
<1> QED
  BY <1>1, <1>2, <1>3, <1>4, <1>5, <1>6, <1>7, <1>8, <1>9, <1>10, <1>11 DEF CpStep

LEMMA JobPollerFlags ==
    ASSUME TypeInv, AllDynamic, Flagged, JpStep, UNCHANGED cp
    PROVE  AllDynamic' /\ Flagged'
<1> USE DEF TypeInv, TypeOK, RCTypeOK, JpTypeOK, AllDynamic, Flagged, OnOrder
<1>1. CASE JpPoll \/ JpRaise \/ JpDecide \/ JpStop \/ JpDumpNext \/ JpDumpEnd \/ JpScanEnd \/ Determine
           \/ (\E v \in VMs : SkipNode(v) \/ IdleUnlist(v) \/ IdleRemove(v) \/ Retire(v))
  <2>1. UNCHANGED <<vm, num_of_vm, starting_instances, provision_waiting_list, provisioning>>
    BY <1>1 DEF JpPoll, JpRaise, JpDecide, JpStop, JpDumpNext, JpDumpEnd, jpFileKeep, JpScanEnd,
         Determine, SkipNode, IdleUnlist, IdleRemove, Retire, jpKeep, centerVars, listVars, flagVars,
         fileVars, flagsButFile
  <2>2. jp' \in {"poll", "dead", "dump", "stopped", "decide"} \/ ~provisioning
    BY <1>1 DEF JpPoll, JpRaise, JpDecide, JpStop, JpDumpNext, JpDumpEnd, JpScanEnd, Determine,
         SkipNode, IdleUnlist, IdleRemove, Retire
  <2> QED  BY <2>1, <2>2
<1>2. ASSUME NEW v \in VMs, Inspect(v) \/ IdleKill(v) PROVE AllDynamic' /\ Flagged'
  <2>1. /\ UNCHANGED <<num_of_vm, starting_instances, provision_waiting_list, provisioning>>
        /\ ~provisioning
    BY <1>2 DEF Inspect, IdleKill, listVars, flagVars, fileVars, flagsButFile
  <2>2. \A u \in VMs : vm'[u].dynamic
    <3>1. CASE Inspect(v)
      <4>1. PICK word \in CheckNode(v) :
              \/ vm' = [vm EXCEPT ![v] = Polled(v, word)]
              \/ ~Polled(v, word).dynamic
        BY <3>1 DEF Inspect
      <4>2. Polled(v, word).dynamic
        BY DEF Polled, VMRecords
      <4> HIDE DEF TypeInv
      <4>3. vm' = [vm EXCEPT ![v] = Polled(v, word)]
        BY <4>1, <4>2
      <4> QED  BY <4>2, <4>3
    <3>2. CASE IdleKill(v)
      <4>1. \A u \in VMs : ~Inspect(u)
        BY <3>2 DEF IdleKill, Inspect
      <4> QED  BY <4>1, JobPollerKeeps DEF KeepsFields
    <3> QED  BY <1>2, <3>1, <3>2
  <2> QED  BY <2>1, <2>2
<1>3. CASE IdleWrap
  <2>1. /\ UNCHANGED <<vm, num_of_vm, starting_instances, provision_waiting_list>>
        /\ ~provisioning /\ provisioning' = FALSE
    BY <1>3 DEF IdleWrap, listVars
  <2> QED  BY <2>1
<1>4. CASE Extend
  <2>1. UNCHANGED <<vm, num_of_vm, starting_instances>> /\ provisioning' = TRUE /\ jp' = "poll"
        /\ ~provisioning
    BY <1>4 DEF Extend, listVars
  <2> QED  BY <2>1
<1> QED
  BY <1>1, <1>2, <1>3, <1>4 DEF JpStep

LEMMA OthersFlag ==
    ASSUME TypeInv, AllDynamic, Flagged, UNCHANGED <<cp, jp>>,
           \/ InfoStep
           \/ \E c \in Callers : ForceoffStep(c)
           \/ MainStep
           \/ \E v \in VMs : ClusterStep(v)
    PROVE  AllDynamic' /\ Flagged'
<1> USE DEF TypeInv, TypeOK, RCTypeOK, AllDynamic, Flagged, OnOrder
<1>1. /\ UNCHANGED <<num_of_vm, provision_waiting_list, provisioning>>
      /\ starting_instances' \in {starting_instances, <<>>}
  BY DEF InfoStep, ToggleSleepMode, ForceoffRequest, KillBegin, KillHold, KillMove, ForceoffStep,
       ForceoffLoopEnd, ForceoffExisting, ForceoffMoveExisting, ForceoffStarting,
       ForceoffMoveStarting, MainStep, MainQuit, MainExit, ClusterStep, centerVars, listVars, flagVars, fileVars, flagsButFile
<1>2. \A u \in VMs : vm'[u].dynamic
  BY OthersKeep DEF KeepsFields
<1> QED  BY <1>1, <1>2

LEMMA InitFlags == Init => FlagInv
<1> SUFFICES ASSUME Init, StaticWanted = 0 PROVE AllDynamic /\ Flagged
  BY InitTypes DEF FlagInv
<1> USE DEF Init, RCInit, CpInit, JpInit
<1>1. AllDynamic
  BY DEF AllDynamic, LoadedVM, NewVM
<1>2. provision_waiting_list = <<>>
  BY DEF Copies
<1> QED  BY <1>1, <1>2 DEF Flagged, OnOrder

LEMMA NextFlags == FlagInv /\ [Next]_vars => FlagInv'
<1> SUFFICES ASSUME FlagInv, [Next]_vars, StaticWanted = 0 PROVE AllDynamic' /\ Flagged'
  BY NextTypes DEF FlagInv
<1>1. TypeInv /\ AllDynamic /\ Flagged
  BY DEF FlagInv
<1>2. CASE CloudPollerStep
  BY <1>1, <1>2, CloudPollerFlags DEF CloudPollerStep, jpVars
<1>3. CASE JobPollerStep
  BY <1>1, <1>3, JobPollerFlags DEF JobPollerStep, cpVars
<1>4. CASE \/ InfoServerStep \/ MainStep
           \/ (\E c \in Callers : ForceoffBy(c)) \/ (\E v \in VMs : ClusterStep(v))
  <2>1. UNCHANGED <<cp, jp>>
    BY <1>4 DEF InfoServerStep, MainStep, ForceoffBy, ClusterStep, cpVars, jpVars
  <2> QED  BY <1>1, <1>4, <2>1, OthersFlag DEF InfoServerStep, ForceoffBy
<1>5. CASE UNCHANGED vars
  BY <1>1, <1>5 DEF vars, centerVars, listVars, flagVars, fileVars, flagsButFile, cpVars, jpVars, AllDynamic, Flagged, OnOrder
<1> QED
  BY <1>2, <1>3, <1>4, <1>5 DEF Next

(* Without static nodes: while a VM is starting or a launch is waiting, a  *)
(* cloud poller about to begin a round finds provisioning set, for any     *)
(* number of VMs and whatever the other threads, the operator and the      *)
(* cloud do.  With static nodes it is false (see StartingPolled).          *)
THEOREM OrdersArePolled == Spec => []StartingPolled
<1>1. FlagInv => StartingPolled
  BY DEF FlagInv, Flagged, OnOrder, StartingPolled
<1> QED  BY <1>1, InitFlags, NextFlags, PTL DEF Spec

-----------------------------------------------------------------------------
(* The static nodes.                                                       *)

Statics == {v \in VMs : ~vm[v].dynamic /\ Listed(v)}

(* A worker node, a VM about to be one, or a node Torque knows.            *)
Located(v) == In(v, existing_instances) \/ In(v, ready) \/ In(v, executing) \/ v \in inTorque

(* A VM becomes static when it comes into use and its location is known by *)
(* then; only a dynamic node is shut down when idle.                       *)
StaticsHeld ==
    /\ \A v \in VMs : cloud[v] = "none" \/ In(v, starting_instances) => vm[v].dynamic
    /\ \A v \in VMs : vm[v].cloud_ready \/ ~vm[v].dynamic \/ Located(v) => vm[v].zone
    /\ cp = "join" => vm[Head(cpTodo)].zone
    /\ jp \in {"idleKill", "idleUnlist", "idleRemove"} => \A v \in jpVm : vm[v].dynamic

Conserved == StaticsHeld /\ num_of_vm + Cardinality(Statics) = StaticWanted

StaticsInv == OwnerInv /\ (Undisturbed => Conserved)

LEMMA SameStatics ==
    ASSUME KeepsFields, \A v \in VMs : ~vm[v].dynamic => (Listed(v)' <=> Listed(v)), UNCHANGED num_of_vm
    PROVE  Statics' = Statics /\ UNCHANGED num_of_vm
BY DEF Statics, KeepsFields

(* One static node more, and one less.                                     *)
LEMMA StaticsCount ==
    ASSUME NEW v
    PROVE  /\ Cardinality(Statics) \in Nat
           /\ v \notin Statics => Cardinality(Statics \cup {v}) = Cardinality(Statics) + 1
           /\ v \in Statics => Cardinality(Statics \ {v}) = Cardinality(Statics) - 1
           /\ \A u : v \in Statics /\ u \notin Statics
                    => Cardinality((Statics \ {v}) \cup {u}) = Cardinality(Statics)
<1>1. IsFiniteSet(Statics) /\ Cardinality(Statics) \in Nat
  <2>1. Statics \in SUBSET VMs
    BY DEF Statics
  <2> QED  BY <2>1, VMsAssumption, FS_Subset, FS_CardinalityType
<1>2. /\ IsFiniteSet(Statics \ {v})
      /\ v \in Statics => Cardinality(Statics \ {v}) = Cardinality(Statics) - 1
  BY <1>1, FS_RemoveElement
<1>3. \A u : u \notin Statics => Cardinality(Statics \cup {u}) = Cardinality(Statics) + 1
  BY <1>1, FS_AddElement
<1>4. \A u : u \notin Statics =>
               Cardinality((Statics \ {v}) \cup {u}) = Cardinality(Statics \ {v}) + 1
  BY <1>2, FS_AddElement
<1> QED  BY <1>1, <1>2, <1>3, <1>4

LEMMA StaticsFrame ==
    ASSUME StaticsHeld, KeepsFields,
           \A v \in VMs : cloud'[v] = "none" => cloud[v] = "none",
           \A v \in VMs : In(v, starting_instances') => In(v, starting_instances) \/ cloud[v] = "none",
           \A v \in VMs : Located(v)' => Located(v) \/ vm[v].zone,
           cp' = "join" => Head(cpTodo') \in VMs /\
                (vm'[Head(cpTodo')].zone \/ (cp = "join" /\ Head(cpTodo') = Head(cpTodo))),
           jp' \in {"idleKill", "idleUnlist", "idleRemove"} =>
                \A v \in jpVm' : v \in VMs /\ vm[v].dynamic
    PROVE  StaticsHeld'
<1>1. \A v \in VMs : cloud'[v] = "none" \/ In(v, starting_instances') => vm'[v].dynamic
  BY DEF StaticsHeld, KeepsFields
<1>2. \A v \in VMs : vm'[v].cloud_ready \/ ~vm'[v].dynamic \/ Located(v)' => vm'[v].zone
  BY DEF StaticsHeld, KeepsFields
<1>3. cp' = "join" => vm'[Head(cpTodo')].zone
  BY DEF StaticsHeld, KeepsFields
<1>4. jp' \in {"idleKill", "idleUnlist", "idleRemove"} => \A v \in jpVm' : vm'[v].dynamic
  BY DEF KeepsFields
<1> QED  BY <1>1, <1>2, <1>3, <1>4 DEF StaticsHeld

(* A settled VM becomes static; a swap makes one node static and another   *)
(* dynamic. Neither touches what else the condition is about.              *)
KeepsPlaces ==
    \A v \in VMs : vm'[v].zone = vm[v].zone /\ vm'[v].cloud_ready = vm[v].cloud_ready

KeepsDynamicBut(S) == \A v \in VMs \ S : vm'[v].dynamic = vm[v].dynamic

LEMMA MadeStatic ==
    ASSUME vm \in [VMs -> VMRecords], NEW v \in VMs, vm' = [vm EXCEPT ![v].dynamic = FALSE]
    PROVE  KeepsPlaces /\ KeepsDynamicBut({v}) /\ vm'[v].dynamic = FALSE
<1>1. KeepsPlaces
  BY DEF KeepsPlaces, VMRecords
<1>2. KeepsDynamicBut({v})
  BY DEF KeepsDynamicBut, VMRecords
<1>3. vm'[v].dynamic = FALSE
  BY DEF VMRecords
<1> QED  BY <1>1, <1>2, <1>3

LEMMA Swapped ==
    ASSUME vm \in [VMs -> VMRecords], NEW v \in VMs, NEW u \in VMs, u # v, NEW r \in VMRecords,
           r.zone = vm[v].zone, r.cloud_ready = vm[v].cloud_ready,
           vm' = [vm EXCEPT ![v] = [r EXCEPT !.dynamic = TRUE], ![u].dynamic = FALSE]
    PROVE  KeepsPlaces /\ KeepsDynamicBut({u, v}) /\ vm'[u].dynamic = FALSE /\ vm'[v].dynamic = TRUE
<1>1. /\ vm'[v] = [r EXCEPT !.dynamic = TRUE]
      /\ vm'[u] = [vm[u] EXCEPT !.dynamic = FALSE]
      /\ \A w \in VMs \ {u, v} : vm'[w] = vm[w]
  OBVIOUS
<1>2. vm'[v].zone = vm[v].zone /\ vm'[v].cloud_ready = vm[v].cloud_ready /\ vm'[v].dynamic = TRUE
  BY <1>1 DEF VMRecords
<1>3. vm'[u].zone = vm[u].zone /\ vm'[u].cloud_ready = vm[u].cloud_ready /\ vm'[u].dynamic = FALSE
  BY <1>1 DEF VMRecords
<1>4. KeepsPlaces
  BY <1>1, <1>2, <1>3 DEF KeepsPlaces
<1>5. KeepsDynamicBut({u, v})
  BY <1>1 DEF KeepsDynamicBut
<1> QED  BY <1>2, <1>3, <1>4, <1>5

LEMMA StaticsMadeFrame ==
    ASSUME StaticsHeld, KeepsPlaces, NEW S,
           \A u \in VMs : ~vm'[u].dynamic /\ vm[u].dynamic => u \in S,
           \A u \in VMs \cap S : vm[u].zone /\ cloud'[u] # "none" /\ ~In(u, starting_instances'),
           \A u \in VMs : cloud'[u] = "none" => cloud[u] = "none",
           \A u \in VMs : In(u, starting_instances') => In(u, starting_instances),
           \A u \in VMs : Located(u)' => Located(u),
           cp' = "join" => cp = "join" /\ cpTodo' = cpTodo /\ Head(cpTodo) \in VMs,
           jp' \in {"idleKill", "idleUnlist", "idleRemove"} => \A u \in jpVm' : vm'[u].dynamic
    PROVE  StaticsHeld'
<1>1. ASSUME NEW u \in VMs, cloud'[u] = "none" \/ In(u, starting_instances')
      PROVE  vm'[u].dynamic
  <2>1. vm[u].dynamic /\ u \notin S
    BY <1>1 DEF StaticsHeld
  <2> QED  BY <2>1
<1>2. ASSUME NEW u \in VMs, vm'[u].cloud_ready \/ ~vm'[u].dynamic \/ Located(u)'
      PROVE  vm'[u].zone
  <2>1. vm'[u].zone = vm[u].zone /\ vm'[u].cloud_ready = vm[u].cloud_ready
    BY DEF KeepsPlaces
  <2>2. CASE u \in S
    BY <2>1, <2>2
  <2>3. CASE u \notin S
    <3>1. vm[u].cloud_ready \/ ~vm[u].dynamic \/ Located(u)
      BY <1>2, <2>1, <2>3
    <3> QED  BY <2>1, <3>1 DEF StaticsHeld
  <2> QED  BY <2>2, <2>3
<1>3. cp' = "join" => vm'[Head(cpTodo')].zone
  BY DEF StaticsHeld, KeepsPlaces
<1> QED  BY <1>1, <1>2, <1>3 DEF StaticsHeld

LEMMA StaticsMade ==
    ASSUME NEW S \in SUBSET VMs, KeepsDynamicBut(S),
           \A v \in VMs : Listed(v)' <=> Listed(v)
    PROVE  Statics' = (Statics \ S) \cup {v \in S : ~vm'[v].dynamic /\ Listed(v)}
<1>1. ASSUME NEW v \in VMs \ S
      PROVE  ~vm'[v].dynamic /\ Listed(v)' <=> ~vm[v].dynamic /\ Listed(v)
  <2>1. vm'[v].dynamic = vm[v].dynamic
    BY DEF KeepsDynamicBut
  <2> QED  BY <2>1
<1> QED  BY <1>1 DEF Statics

LEMMA CloudPollerConserves ==
    ASSUME TypeInv, Owned, Conserved, CpStep, UNCHANGED <<jp, jpVm>>
    PROVE  Conserved'
<1> USE DEF TypeInv, TypeOK, RCTypeOK, CpTypeOK, JpTypeOK, Positioned, CpPositioned
<1>1. ListsOwned /\ StartingHeld /\ DeletingHeld /\ StaticsHeld
  BY DEF Owned, Conserved
<1>2. jp' \in {"idleKill", "idleUnlist", "idleRemove"} =>
          \A v \in jpVm' : v \in VMs /\ vm[v].dynamic
  BY <1>1 DEF StaticsHeld
<1>3. cp = "join" => Head(cpTodo) \in VMs /\ vm[Head(cpTodo)].zone
  BY <1>1, TailIn DEF StaticsHeld
<1>4. CASE ~Settle /\ ~ReapMove /\ ~(\E v \in VMs : Launch(v)) /\ ~Bury /\ ~Back
  <2>1. /\ UNCHANGED <<existing_instances, starting_instances, deleting_instances, num_of_vm>>
        /\ KeepsFields
    BY <1>4, CloudPollerKeeps DEF CpStep, CpPoll, CpStop, CheckBuilding, JoinOk, JoinFail, CheckJoined,
         ScanEnd, Reap, ReapEnd, Wrap, ProvOff, CpDumpNext, CpDumpEnd, fileKeep, LaunchBegin,
         LaunchEnd, CleanupBegin, DelRead, DelAct, DelEnd, ReleaseNode, CleanupEnd, WrapDel, Relaunch,
         CpRaise, centerVars, listVars, flagVars, fileVars, flagsButFile, rcButLock
  <2>2. /\ \A v \in VMs : cloud'[v] = "none" => cloud[v] = "none"
        /\ \A v \in VMs : Located(v)' => Located(v) \/ vm[v].zone
        /\ cp' = "join" => Head(cpTodo') \in VMs /\ vm'[Head(cpTodo')].zone
    <3>1. CASE CheckBuilding
      <4>1. PICK v \in VMs : v = Head(cpTodo)
        BY <3>1, TailIn DEF CheckBuilding
      <4>2. PICK s \in VmCheck(v) :
              /\ vm' = [vm EXCEPT ![v] = [Checked(@, s) EXCEPT !.cloud_ready = (s = 0)]]
              /\ cp' = IF s = 0 THEN "join" ELSE "scan"
              /\ cpTodo' = IF s = 0 THEN cpTodo ELSE Tail(cpTodo)
        BY <3>1, <4>1 DEF CheckBuilding
      <4>3. UNCHANGED <<clusterVars, ready, executing>>
        BY <3>1 DEF CheckBuilding, delLocals
      <4>4. s = 0 => vm'[v].zone
        BY <4>2 DEF Checked, VMRecords
      <4> QED  BY <2>1, <4>1, <4>2, <4>3, <4>4 DEF Located, clusterVars
    <3>2. CASE JoinOk \/ JoinFail
      <4>1. UNCHANGED <<cloud, ready, executing>> /\ cp' = "scan" /\ cp = "join"
        BY <3>2 DEF JoinOk, JoinFail, AddNode, delLocals
      <4>2. \A v \in inTorque' : v \in inTorque \/ v = Head(cpTodo)
        BY <3>2 DEF JoinOk, JoinFail, AddNode
      <4> QED  BY <1>3, <2>1, <4>1, <4>2 DEF Located
    <3>3. CASE CheckJoined
      <4>1. PICK v \in VMs : v = Head(cpTodo) /\ vm[v].cloud_ready
        BY <3>3, TailIn DEF CheckJoined
      <4>2. /\ UNCHANGED <<clusterVars, executing>> /\ cp' = "scan"
            /\ ready' \in {ready, Append(ready, v)}
        BY <3>3, <4>1 DEF CheckJoined, delLocals
      <4>3. \A x : In(x, Append(ready, v)) <=> In(x, ready) \/ x = v
        BY AppendIn
      <4> QED  BY <1>1, <2>1, <4>1, <4>2, <4>3 DEF Located, StaticsHeld, clusterVars
    <3>4. CASE DelRead
      <4>1. PICK v \in VMs : v = deleting_instances[cursor]
        BY <3>4 DEF DelRead
      <4>2. PICK s \in VmCheck(v), seen \in BOOLEAN, again \in BOOLEAN :
              executing' = IF (IF seen THEN CleanupChoice(v, s, View(v), again) ELSE "none") = "executing"
                           THEN Append(executing, v) ELSE executing
        BY <3>4, <4>1, ZenonT(40) DEF DelRead, Outcomes
      <4>3. executing' = executing \/ (executing' = Append(executing, v) /\ v \in inTorque)
        BY <4>2, SMTT(30) DEF CleanupChoice, View, ViewIn
      <4>4. \A x : In(x, Append(executing, v)) <=> In(x, executing) \/ x = v
        BY AppendIn
      <4>5. UNCHANGED <<clusterVars, ready>>
        BY <3>4 DEF DelRead, scanLocals
      <4>6. cp' # "join"
        <5>1. cp' \in {"delAct", cp} /\ cp # "join"
          BY <3>4, SMTT(30) DEF DelRead
        <5> QED  BY <5>1
      <4> QED  BY <2>1, <4>3, <4>4, <4>5, <4>6 DEF Located, clusterVars
    <3>5. CASE Reap \/ DelAct
      <4>1. \E v \in VMs, r, k \in BOOLEAN : TakeAway(v, r, k)
        <5>1. CASE Reap
          <6>1. PICK v \in VMs : v = Head(doomed)
            BY <5>1, TailIn DEF Reap
          <6>2. \E ok \in BOOLEAN : TakeAway(v, FALSE, ok)
            BY <5>1, <6>1 DEF Reap, Outcomes
          <6> QED  BY <6>2
        <5>2. CASE DelAct
          <6>1. PICK v \in VMs : v = deleting_instances[cursor]
            BY <5>2, SMTT(30) DEF DelAct
          <6>2. PICK removed \in BOOLEAN, ok \in BOOLEAN :
                  TakeAway(v, removed /\ todoDel # "destroy", ok /\ todoDel # "remove")
            BY <5>2, <6>1 DEF DelAct, Outcomes
          <6> DEFINE r == removed /\ todoDel # "destroy"
                     k == ok /\ todoDel # "remove"
          <6>3. r \in BOOLEAN /\ k \in BOOLEAN /\ TakeAway(v, r, k)
            BY <6>2
          <6> HIDE DEF r, k
          <6> QED  BY <6>3
        <5> QED  BY <3>5, <5>1, <5>2
      <4>2. /\ \A v \in VMs : cloud[v] # "none" => cloud'[v] # "none"
            /\ inTorque' \subseteq inTorque
        BY <4>1, TakenIsBorn DEF TakeAway
      <4>3. UNCHANGED <<ready, executing>> /\ cp' # "join"
        BY <3>5 DEF Reap, DelAct, scanLocals, delLocals
      <4> QED  BY <2>1, <4>2, <4>3 DEF Located
    <3>6. CASE ~(CheckBuilding \/ JoinOk \/ JoinFail \/ CheckJoined \/ DelRead \/ Reap \/ DelAct)
      <4>1. UNCHANGED <<cloud, inTorque, ready>> /\ cp' # "join"
        BY <1>4, <3>6 DEF CpStep, CpPoll, CpStop, ScanEnd, ReapEnd, Wrap, ProvOff, CpDumpNext,
             CpDumpEnd, fileKeep, LaunchBegin, LaunchEnd, CleanupBegin, DelEnd, ReleaseNode, Release,
             CleanupEnd, WrapDel, Relaunch, CpRaise, CpDie, clusterVars, scanLocals
      <4>2. \A x : In(x, executing') => In(x, executing)
        <5>1. CASE ReleaseNode
          BY <5>1, TailIn DEF ReleaseNode
        <5>2. CASE ~ReleaseNode
          <6>1. UNCHANGED executing
            BY <1>4, <3>6, <5>2 DEF CpStep, CpPoll, CpStop, ScanEnd, ReapEnd, Wrap, ProvOff,
                 CpDumpNext, CpDumpEnd, fileKeep, LaunchBegin, LaunchEnd, CleanupBegin, DelEnd,
                 CleanupEnd, WrapDel, Relaunch, CpRaise, delLocals
          <6> QED  BY <6>1
        <5> QED  BY <5>1, <5>2
      <4> QED  BY <2>1, <4>1, <4>2 DEF Located
    <3> QED  BY <3>1, <3>2, <3>3, <3>4, <3>5, <3>6
  <2>3. StaticsHeld'
    BY <1>1, <1>2, <2>1, <2>2, StaticsFrame
  <2>4. Statics' = Statics
    BY <2>1, SameStatics DEF Listed
  <2> QED  BY <2>1, <2>3, <2>4, SMTT(30) DEF Conserved
<1>5. CASE Settle
  <2>1. PICK v \in VMs : v = Head(ready) /\ In(v, ready) /\ In(v, starting_instances)
    BY <1>1, <1>5, TailIn DEF Settle, StartingHeld
  <2>2. /\ starting_instances' = RemoveFirst(starting_instances, v)
        /\ existing_instances' = Append(existing_instances, v)
        /\ ready' = Tail(ready) /\ ready # <<>> /\ cp' # "join"
        /\ UNCHANGED <<clusterVars, deleting_instances, executing>>
    BY <1>5, <2>1 DEF Settle, delLocals
  <2>3. /\ \A x : In(x, starting_instances') => In(x, starting_instances)
        /\ \A x : In(x, starting_instances') \/ In(x, existing_instances')
                    <=> In(x, starting_instances) \/ In(x, existing_instances)
        /\ \A x : In(x, existing_instances') => In(x, existing_instances) \/ x = v
        /\ \A x : In(x, ready') => In(x, ready)
    BY <2>1, <2>2, RemoveFirstIn, AppendIn, MoveIn, TailIn, SMTT(30)
  <2>4. /\ \A x : Located(x)' => Located(x)
        /\ \A x : Listed(x)' <=> Listed(x)
    BY <2>1, <2>2, <2>3 DEF Located, Listed, clusterVars
  <2>5. vm[v].dynamic /\ vm[v].zone
    BY <1>1, <2>1 DEF StaticsHeld, Located
  <2>6. CASE NeedVm
    <3>1. vm' = [vm EXCEPT ![v].dynamic = FALSE] /\ num_of_vm' = num_of_vm - 1
      BY <1>5, <2>1, <2>6 DEF Settle
    <3>2. KeepsPlaces /\ KeepsDynamicBut({v}) /\ vm'[v].dynamic = FALSE
      BY <3>1, MadeStatic
    <3>3. ~In(v, starting_instances') /\ cloud[v] # "none"
      BY <1>1, <2>1, <2>2, RemoveFirstDistinct DEF ListsOwned, Listed
    <3>4. StaticsHeld'
      <4>1. \A u \in VMs : ~vm'[u].dynamic /\ vm[u].dynamic => u \in {v}
        BY <3>2 DEF KeepsDynamicBut
      <4>2. ASSUME NEW u \in jpVm', jp' \in {"idleKill", "idleUnlist", "idleRemove"}
            PROVE  vm'[u].dynamic
        <5>1. u \in VMs /\ vm[u].dynamic /\ u # v
          BY <1>1, <1>2, <2>1, <4>2 DEF Owned, NodeHeld, ListsOwned, Apart, StaticsHeld
        <5> QED  BY <4>1, <5>1
      <4> QED  BY <1>1, <2>2, <2>3, <2>4, <2>5, <3>2, <3>3, <4>1, <4>2, StaticsMadeFrame DEF clusterVars
    <3>5. Statics' = Statics \cup {v} /\ v \notin Statics
      <4>1. v \notin Statics /\ Listed(v)
        BY <2>1, <2>5 DEF Statics, Listed
      <4>2. Statics' = (Statics \ {v}) \cup {u \in {v} : ~vm'[u].dynamic /\ Listed(u)}
        BY <2>4, <3>2, StaticsMade
      <4>3. {u \in {v} : ~vm'[u].dynamic /\ Listed(u)} = {v}
        BY <3>2, <4>1
      <4> QED  BY <4>1, <4>2, <4>3
    <3>6. Cardinality(Statics) \in Nat /\ Cardinality(Statics \cup {v}) = Cardinality(Statics) + 1
      BY <3>5, StaticsCount
    <3>7. num_of_vm \in Nat /\ num_of_vm + Cardinality(Statics) = StaticWanted
      BY DEF Conserved
    <3>8. num_of_vm' + Cardinality(Statics \cup {v}) = StaticWanted
      BY <3>1, <3>6, <3>7
    <3> QED  BY <3>4, <3>5, <3>8 DEF Conserved
  <2>7. CASE ~NeedVm
    <3>1. UNCHANGED <<vm, num_of_vm>>
      BY <1>5, <2>1, <2>7 DEF Settle
    <3>2. KeepsFields
      BY <3>1, SameFields
    <3>3. StaticsHeld'
      BY <1>1, <1>2, <2>2, <2>3, <2>4, <3>2, StaticsFrame DEF clusterVars
    <3>4. Statics' = Statics
      BY <2>4, <3>1, <3>2, SameStatics
    <3> QED  BY <3>1, <3>3, <3>4 DEF Conserved
  <2> QED  BY <2>6, <2>7
<1>6. CASE ReapMove
  <2>1. PICK v \in VMs : v = Head(doomed) /\ In(v, starting_instances)
    BY <1>1, <1>6, TailIn DEF ReapMove, StartingHeld
  <2>2. /\ starting_instances' = RemoveFirst(starting_instances, v)
        /\ deleting_instances' = Append(deleting_instances, v) /\ cp' # "join"
        /\ UNCHANGED <<clusterVars, vm, num_of_vm, existing_instances, ready, executing>>
    BY <1>6, <2>1 DEF ReapMove, rcButLock, delLocals
  <2>3. /\ \A x : In(x, starting_instances') => In(x, starting_instances)
        /\ \A x : In(x, starting_instances') \/ In(x, deleting_instances')
                    <=> In(x, starting_instances) \/ In(x, deleting_instances)
    BY <2>1, <2>2, RemoveFirstIn, MoveIn
  <2>4. KeepsFields
    BY <2>2, SameFields
  <2>5. StaticsHeld'
    BY <1>1, <1>2, <2>2, <2>3, <2>4, StaticsFrame DEF Located, clusterVars
  <2>6. Statics' = Statics
    BY <2>2, <2>3, <2>4, SameStatics DEF Listed
  <2> QED  BY <2>2, <2>5, <2>6 DEF Conserved
<1>7. ASSUME NEW v \in VMs, Launch(v) PROVE Conserved'
  <2>1. /\ cloud[v] = "none" /\ cloud' = [cloud EXCEPT ![v] = "build"]
        /\ starting_instances' = Append(starting_instances, v) /\ cp' # "join"
        /\ UNCHANGED <<inTorque, vm, num_of_vm, existing_instances, deleting_instances, ready,
                       executing>>
    BY <1>7 DEF Launch, Create, Unborn, flagVars, fileVars, flagsButFile, scanLocals, delLocals
  <2>2. /\ \A u \in VMs : cloud'[u] = "none" => cloud[u] = "none"
        /\ \A u : In(u, starting_instances') <=> In(u, starting_instances) \/ u = v
    BY <2>1, AppendIn DEF ClusterTypeOK
  <2>3. KeepsFields
    BY <2>1, SameFields
  <2>4. StaticsHeld'
    BY <1>1, <1>2, <2>1, <2>2, <2>3, StaticsFrame DEF Located
  <2>5. Statics' = Statics
    BY <1>1, <2>1, <2>2, <2>3, SameStatics DEF Listed, StaticsHeld
  <2> QED  BY <2>1, <2>4, <2>5 DEF Conserved
<1>8. CASE Bury
  <2>1. PICK v \in VMs : v = Head(gone) /\ In(v, deleting_instances)
    BY <1>1, <1>8, TailIn DEF Bury, DeletingHeld
  <2>2. /\ deleting_instances' = RemoveFirst(deleting_instances, v) /\ cp' # "join"
        /\ num_of_vm' = IF Replaced(v) THEN num_of_vm + 1 ELSE num_of_vm
        /\ UNCHANGED <<clusterVars, vm, existing_instances, starting_instances, ready, executing>>
    BY <1>8, <2>1 DEF Bury, scanLocals
  <2>3. \A x : In(x, deleting_instances') <=> In(x, deleting_instances) /\ x # v
    BY <1>1, <2>1, <2>2, RemoveFirstDistinct DEF ListsOwned
  <2>4. \A x \in VMs : Listed(x)' <=> Listed(x) /\ x # v
    BY <1>1, <2>1, <2>2, <2>3 DEF Listed, ListsOwned, Apart
  <2>5. KeepsFields
    BY <2>2, SameFields
  <2>6. StaticsHeld'
    BY <1>1, <1>2, <2>2, <2>5, StaticsFrame DEF Located, clusterVars
  <2>7. CASE vm[v].dynamic
    <3>1. num_of_vm' = num_of_vm
      BY <2>2, <2>7 DEF Replaced
    <3>2. Statics' = Statics
      BY <2>2, <2>4, <2>7 DEF Statics
    <3> QED  BY <2>6, <3>1, <3>2 DEF Conserved
  <2>8. CASE ~vm[v].dynamic
    <3>1. num_of_vm' = num_of_vm + 1
      BY <1>1, <2>2, <2>8 DEF Replaced, StaticsHeld
    <3>2. Statics' = Statics \ {v} /\ v \in Statics
      BY <2>1, <2>2, <2>4, <2>8 DEF Statics, Listed
    <3>3. /\ Cardinality(Statics)' = Cardinality(Statics) - 1
          /\ Cardinality(Statics) \in Nat
      BY <3>2, StaticsCount
    <3>4. num_of_vm \in Int /\ num_of_vm + Cardinality(Statics) = StaticWanted
      BY <1>1 DEF Conserved, TypeInv, TypeOK, RCTypeOK
    <3>5. (num_of_vm + Cardinality(Statics) = StaticWanted)'
      BY <3>1, <3>3, <3>4
    <3> QED  BY <2>6, <3>5 DEF Conserved
  <2> QED  BY <2>7, <2>8
<1>9. CASE Back
  <2>1. PICK v \in VMs : v = Head(executing) /\ In(v, executing) /\ In(v, deleting_instances)
    BY <1>1, <1>9, TailIn DEF Back, DeletingHeld
  <2>2. /\ deleting_instances' = RemoveFirst(deleting_instances, v)
        /\ existing_instances' = Append(existing_instances, v) /\ cp' # "join"
        /\ UNCHANGED <<clusterVars, vm, num_of_vm, starting_instances, ready, executing>>
    BY <1>9, <2>1 DEF Back, rcButLock, scanLocals, delLocals
  <2>3. /\ \A x : In(x, deleting_instances') \/ In(x, existing_instances')
                    <=> In(x, deleting_instances) \/ In(x, existing_instances)
        /\ \A x : In(x, existing_instances') => In(x, existing_instances) \/ x = v
    BY <2>1, <2>2, MoveIn, AppendIn
  <2>4. KeepsFields
    BY <2>2, SameFields
  <2>5. StaticsHeld'
    BY <1>1, <1>2, <2>1, <2>2, <2>3, <2>4, StaticsFrame DEF Located, clusterVars
  <2>6. Statics' = Statics
    BY <2>2, <2>3, <2>4, SameStatics DEF Listed
  <2> QED  BY <2>2, <2>5, <2>6 DEF Conserved
<1> QED
  BY <1>4, <1>5, <1>6, <1>7, <1>8, <1>9

LEMMA JobPollerConserves ==
    ASSUME TypeInv, Owned, Conserved, JpStep, UNCHANGED <<cp, cpTodo, ready, executing>>
    PROVE  Conserved'
<1> USE DEF TypeInv, TypeOK, RCTypeOK, CpTypeOK, JpTypeOK, Positioned, CpPositioned
<1>1. ListsOwned /\ NodeHeld /\ StaticsHeld
  BY DEF Owned, Conserved
<1>2. cp = "join" => Head(cpTodo) \in VMs
  BY TailIn
<1>3. CASE \/ JpPoll \/ JpRaise \/ JpDecide \/ JpStop \/ JpDumpNext \/ JpDumpEnd
           \/ (\E v \in VMs : SkipNode(v) \/ IdleKill(v) \/ IdleUnlist(v))
           \/ IdleWrap \/ JpScanEnd \/ Determine \/ Extend
  <2>1. UNCHANGED <<existing_instances, starting_instances, deleting_instances, num_of_vm>>
    BY <1>3 DEF JpPoll, JpRaise, JpDecide, JpStop, JpDumpNext, JpDumpEnd, jpFileKeep,
         SkipNode, IdleKill, IdleUnlist, IdleWrap, JpScanEnd,
         Determine, Extend, jpKeep, centerVars, listVars, flagVars, fileVars, flagsButFile
  <2>2. /\ \A v \in VMs : cloud'[v] = "none" => cloud[v] = "none"
        /\ inTorque' \subseteq inTorque
    <3>1. ASSUME NEW v \in VMs, IdleKill(v)
          PROVE  /\ \A u \in VMs : cloud'[u] = "none" => cloud[u] = "none"
                 /\ inTorque' \subseteq inTorque
      <4>1. \E r, k \in BOOLEAN : TakeAway(v, r, k)
        BY <3>1 DEF IdleKill, Outcomes
      <4> QED  BY <4>1, TakenIsBorn DEF TakeAway
    <3>2. CASE ~ \E v \in VMs : IdleKill(v)
      BY <1>3, <3>2 DEF JpPoll, JpRaise, JpDecide, JpStop, JpDumpNext, JpDumpEnd, jpFileKeep,
           SkipNode, IdleUnlist, IdleWrap, JpScanEnd,
           Determine, Extend, clusterVars
    <3> QED  BY <3>1, <3>2
  <2>3. jp' \in {"idleKill", "idleUnlist", "idleRemove"} =>
            jp \in {"idleKill", "idleUnlist"} /\ jpVm' = jpVm
    BY <1>3 DEF JpPoll, JpRaise, JpDecide, JpStop, JpDumpNext, JpDumpEnd, jpFileKeep,
         SkipNode, IdleKill, IdleUnlist, IdleWrap, JpScanEnd,
         Determine, Extend
  <2>4. KeepsFields
    <3>1. CASE \E v \in VMs : IdleKill(v)
      <4>1. \A v \in VMs : ~Inspect(v)
        BY <3>1 DEF IdleKill, Inspect
      <4> QED  BY <4>1, JobPollerKeeps
    <3>2. CASE ~ \E v \in VMs : IdleKill(v)
      <4>1. UNCHANGED vm
        BY <1>3, <3>2 DEF JpPoll, JpRaise, JpDecide, JpStop, JpDumpNext, JpDumpEnd, jpFileKeep,
           SkipNode, IdleUnlist, IdleWrap, JpScanEnd,
             Determine, Extend, jpKeep, centerVars
      <4> QED  BY <4>1, SameFields
    <3> QED  BY <3>1, <3>2
  <2>5. StaticsHeld'
    BY <1>1, <1>2, <2>1, <2>2, <2>3, <2>4, StaticsFrame DEF StaticsHeld, Located
  <2>6. Statics' = Statics
    BY <2>1, <2>4, SameStatics DEF Listed
  <2> QED  BY <2>1, <2>5, <2>6 DEF Conserved
<1>4. ASSUME NEW v \in VMs, Inspect(v) PROVE Conserved'
  <2>1. /\ In(v, existing_instances) /\ ~In(v, starting_instances) /\ cloud[v] # "none" /\ jp = "scan"
        /\ UNCHANGED <<existing_instances, starting_instances, deleting_instances, num_of_vm,
                       cloud, inTorque>>
    BY <1>1, <1>4 DEF Inspect, Hold, ListsOwned, Apart, Listed, listVars, flagVars, fileVars, flagsButFile
  <2>2. PICK word \in CheckNode(v) :
          LET r == Polled(v, word) IN
          \/ /\ vm' = [vm EXCEPT ![v] = r]
             /\ \/ jp' = "idleKill" /\ jpVm' = {v} /\ r.dynamic
                \/ jp' \notin {"idleKill", "idleUnlist", "idleRemove"}
          \/ /\ ~r.dynamic /\ jp' = "idleKill" /\ jpVm' = {v}
             /\ \E u \in VMs :
                  /\ u \in SwapPartners(v)
                  /\ vm' = [vm EXCEPT ![v] = [r EXCEPT !.dynamic = TRUE], ![u].dynamic = FALSE]
    BY <1>4, <2>1 DEF Inspect, SwapPartners
  <2> DEFINE r == Polled(v, word)
  <2>3. /\ r.dynamic = vm[v].dynamic /\ r.zone = vm[v].zone /\ r.cloud_ready = vm[v].cloud_ready
        /\ r \in VMRecords
    <3>1. r \in VMRecords
      BY PolledType
    <3>2. r.dynamic = vm[v].dynamic
      BY DEF Polled, VMRecords
    <3>3. r.zone = vm[v].zone
      BY DEF Polled, VMRecords
    <3>4. r.cloud_ready = vm[v].cloud_ready
      BY DEF Polled, VMRecords
    <3> QED  BY <3>1, <3>2, <3>3, <3>4
  <2> HIDE DEF r
  <2>4. CASE vm' = [vm EXCEPT ![v] = r] /\ (jp' = "idleKill" => r.dynamic)
    <3>1. KeepsFields
      BY <2>3, <2>4, RecordKeeps
    <3>2. StaticsHeld'
      BY <1>1, <1>2, <2>1, <2>2, <2>3, <2>4, <3>1, StaticsFrame DEF Located, r
    <3>3. Statics' = Statics
      BY <2>1, <3>1, SameStatics DEF Listed
    <3> QED  BY <2>1, <3>2, <3>3 DEF Conserved
  <2>5. CASE ~(vm' = [vm EXCEPT ![v] = r] /\ (jp' = "idleKill" => r.dynamic))
    <3>1. PICK u \in VMs :
            /\ u \in SwapPartners(v)
            /\ vm' = [vm EXCEPT ![v] = [r EXCEPT !.dynamic = TRUE], ![u].dynamic = FALSE]
            /\ ~vm[v].dynamic /\ jp' = "idleKill" /\ jpVm' = {v}
      BY <2>2, <2>3, <2>5 DEF r
    <3>2. /\ u # v /\ In(u, existing_instances) /\ vm[u].dynamic
          /\ ~In(u, starting_instances) /\ cloud[u] # "none"
      BY <1>1, <3>1 DEF SwapPartners, ListsOwned, Apart, Listed
    <3>3. KeepsPlaces /\ KeepsDynamicBut({u, v}) /\ vm'[u].dynamic = FALSE /\ vm'[v].dynamic = TRUE
      BY <2>3, <3>1, <3>2, Swapped
    <3>4. /\ \A w : Located(w)' <=> Located(w)
          /\ \A w : Listed(w)' <=> Listed(w)
      BY <2>1 DEF Located, Listed
    <3>5. StaticsHeld'
      <4>1. \A w \in VMs : ~vm'[w].dynamic /\ vm[w].dynamic => w \in {u}
        BY <3>3 DEF KeepsDynamicBut
      <4>2. vm[u].zone
        BY <1>1, <3>2 DEF StaticsHeld, Located
      <4>3. \A w \in jpVm' : vm'[w].dynamic
        BY <3>1, <3>3
      <4> QED  BY <1>1, <1>2, <2>1, <3>2, <3>3, <3>4, <4>1, <4>2, <4>3, StaticsMadeFrame
    <3>6. Statics' = (Statics \ {v}) \cup {u} /\ v \in Statics /\ u \notin Statics
      <4>1. v \in Statics /\ u \notin Statics /\ Listed(u)
        BY <2>1, <3>1, <3>2 DEF Statics, Listed
      <4>2. Statics' = (Statics \ {u, v}) \cup {w \in {u, v} : ~vm'[w].dynamic /\ Listed(w)}
        <5>1. {u, v} \in SUBSET VMs /\ KeepsDynamicBut({u, v})
          BY <3>3
        <5>2. \A w \in VMs : Listed(w)' <=> Listed(w)
          BY <3>4
        <5> QED  BY <5>1, <5>2, StaticsMade
      <4>3. {w \in {u, v} : ~vm'[w].dynamic /\ Listed(w)} = {u}
        BY <3>2, <3>3, <4>1
      <4> QED  BY <4>1, <4>2, <4>3
    <3> QED  BY <2>1, <3>5, <3>6, StaticsCount DEF Conserved
  <2> QED  BY <2>4, <2>5
<1>5. ASSUME NEW v \in VMs, IdleRemove(v) \/ Retire(v) PROVE Conserved'
  <2>1. /\ v \in jpVm /\ In(v, existing_instances)
        /\ ~In(v, starting_instances) /\ ~In(v, deleting_instances)
    BY <1>1, <1>5 DEF IdleRemove, Retire, NodeHeld, ListsOwned, Apart
  <2>2. /\ UNCHANGED <<clusterVars, vm, num_of_vm, starting_instances>>
        /\ existing_instances' = RemoveFirst(existing_instances, v)
        /\ \/ deleting_instances' = Append(deleting_instances, v)
           \/ UNCHANGED deleting_instances /\ vm[v].dynamic
        /\ jp' \in {"idleWrap", "scan"}
    BY <1>1, <1>5, <2>1 DEF IdleRemove, Retire, TakeOut, flagVars, fileVars, flagsButFile, StaticsHeld
  <2>3. KeepsFields
    BY <2>2, SameFields
  <2>4. \A x : In(x, existing_instances') <=> In(x, existing_instances) /\ x # v
    BY <1>1, <2>1, <2>2, RemoveFirstDistinct DEF ListsOwned
  <2>5. \A x : In(x, Append(deleting_instances, v)) <=> In(x, deleting_instances) \/ x = v
    BY AppendIn
  <2>6. StaticsHeld'
    BY <1>1, <1>2, <2>2, <2>3, <2>4, StaticsFrame DEF Located, clusterVars
  <2>7. \A x \in VMs : ~vm[x].dynamic => (Listed(x)' <=> Listed(x))
    BY <2>1, <2>2, <2>4, <2>5 DEF Listed
  <2>8. Statics' = Statics
    BY <2>2, <2>3, <2>7, SameStatics
  <2> QED  BY <2>2, <2>6, <2>8 DEF Conserved
<1> QED
  BY <1>3, <1>4, <1>5 DEF JpStep

(* The others, when nobody kills nodes.                                    *)
LEMMA OthersConserve ==
    ASSUME TypeInv, Conserved,
           UNCHANGED <<cp, cpTodo, ready, executing, jp, jpVm, vm, listVars, num_of_vm>>,
           UNCHANGED clusterVars \/ \E v \in VMs : Environment(v)
    PROVE  Conserved'
<1> USE DEF TypeInv, TypeOK, RCTypeOK, CpTypeOK, JpTypeOK, Positioned, CpPositioned
<1>1. cp = "join" => Head(cpTodo) \in VMs
  BY TailIn
<1>2. /\ \A v \in VMs : cloud'[v] = "none" => cloud[v] = "none"
      /\ inTorque' = inTorque
  <2>1. ASSUME NEW v \in VMs, Environment(v)
        PROVE  /\ \A u \in VMs : cloud'[u] = "none" => cloud[u] = "none"
               /\ inTorque' = inTorque
    <3>1. CASE Progress(v) \/ Fail(v) \/ Vanish(v) \/ GoDown(v)
      BY <3>1 DEF Progress, Fail, Vanish, GoDown, MoveServer, ClusterTypeOK
    <3>2. CASE TimePasses(v) \/ JobStart(v) \/ JobEnd(v)
      BY <3>2 DEF TimePasses, JobStart, JobEnd
    <3> QED  BY <2>1, <3>1, <3>2 DEF Environment
  <2>2. CASE UNCHANGED clusterVars
    BY <2>2 DEF clusterVars
  <2> QED  BY <2>1, <2>2
<1>3. KeepsFields
  BY SameFields
<1>4. StaticsHeld'
  BY <1>1, <1>2, <1>3, StaticsFrame DEF Conserved, StaticsHeld, Located, listVars
<1>5. Statics' = Statics
  BY <1>3, SameStatics DEF Listed, listVars
<1> QED  BY <1>4, <1>5 DEF Conserved

LEMMA InitConserved == Init => StaticsInv
<1> SUFFICES ASSUME Init PROVE Conserved
  BY InitOwned DEF StaticsInv
<1> USE DEF Init, RCInit, CpInit, JpInit
<1>1. \A v \in VMs : vm[v].dynamic /\ ~vm[v].cloud_ready /\ (v \in Loaded => vm[v].zone)
  BY DEF LoadedVM, NewVM
<1>2. \A v \in VMs : Located(v) => v \in Loaded
  <2>1. existing_instances \in Seq(Loaded)
    <3>1. Cardinality(Loaded) \in Nat
      BY VMsAssumption, LoadedAssumption, FS_Subset, FS_CardinalityType
    <3>2. existing_instances \in [1 .. Cardinality(Loaded) -> Loaded]
      BY DEF SetToSeqs
    <3> QED  BY <3>1, <3>2
  <2>2. \A v : In(v, existing_instances) => v \in Loaded
    BY <2>1 DEF In
  <2>3. ready = <<>> /\ executing = <<>> /\ inTorque = Loaded
    OBVIOUS
  <2> HIDE DEF Init, RCInit, CpInit, JpInit
  <2> QED  BY <2>2, <2>3, EmptyList DEF Located
<1>3. StaticsHeld
  BY <1>1, <1>2 DEF StaticsHeld
<1>4. Statics = {} /\ num_of_vm = StaticWanted
  BY <1>1 DEF Statics
<1> QED  BY <1>3, <1>4, FS_EmptySet, StaticAssumption DEF Conserved

LEMMA NextConserved == StaticsInv /\ [Next]_vars => StaticsInv'
<1> SUFFICES ASSUME StaticsInv, [Next]_vars PROVE StaticsInv'
  OBVIOUS
<1>1. OwnerInv /\ OwnerInv'
  BY NextOwned DEF StaticsInv
<1>2. ASSUME Undisturbed PROVE Conserved'
  <2>1. /\ TypeInv /\ Owned /\ Conserved /\ main' \in {"boot", "run"}
        /\ main \in {"boot", "run"}
    BY <1>1, <1>2 DEF StaticsInv, OwnerInv, Attended, Undisturbed
  <2>2. CASE CloudPollerStep
    BY <2>1, <2>2, CloudPollerConserves DEF CloudPollerStep, jpVars
  <2>3. CASE JobPollerStep
    BY <2>1, <2>3, JobPollerConserves DEF JobPollerStep, cpVars
  <2>4. CASE \/ InfoServerStep \/ MainStep
             \/ (\E c \in Callers : ForceoffBy(c)) \/ (\E v \in VMs : ClusterStep(v))
    <3>1. killing = {} /\ \A c \in Callers : fo[c] = "idle"
      BY <2>1 DEF Owned, NoRequests
    <3>2. ~ \E c \in Callers : ForceoffBy(c)
      BY <3>1 DEF ForceoffBy, ForceoffStep, ForceoffLoopEnd, ForceoffExisting,
           ForceoffMoveExisting, ForceoffStarting, ForceoffMoveStarting
    <3>3. ~MainStep
      BY <2>1 DEF MainStep, MainQuit, MainExit
    <3>4. InfoServerStep => ToggleSleepMode /\ UNCHANGED <<cpVars, jpVars>>
      BY <1>2, <3>1 DEF InfoServerStep, InfoStep, ForceoffRequest, KillBegin, KillHold, KillMove,
           Undisturbed
    <3>5. UNCHANGED <<cp, cpTodo, ready, executing, jp, jpVm, vm, listVars, num_of_vm>>
      BY <2>4, <3>2, <3>3, <3>4 DEF ToggleSleepMode, ClusterStep, cpVars, jpVars, centerVars, flagVars, fileVars, flagsButFile
    <3>6. UNCHANGED clusterVars \/ \E v \in VMs : Environment(v)
      BY <2>4, <3>2, <3>3, <3>4 DEF ToggleSleepMode, ClusterStep
    <3> QED  BY <2>1, <3>5, <3>6, OthersConserve
  <2>5. CASE UNCHANGED vars
    <3>1. UNCHANGED <<cp, cpTodo, ready, executing, jp, jpVm, vm, listVars, num_of_vm, clusterVars>>
      BY <2>5 DEF vars, cpVars, jpVars, centerVars, flagVars, fileVars, flagsButFile
    <3> QED  BY <2>1, <3>1, OthersConserve
  <2> QED  BY <2>2, <2>3, <2>4, <2>5 DEF Next
<1> QED  BY <1>1, <1>2 DEF StaticsInv

(* Undisturbed, static nodes are conserved, for any number of VMs and      *)
(* static nodes and every fault whose exception is caught: promotion, the  *)
(* swap with a busy dynamic node, loss and replacement keep those listed   *)
(* and those still missing together equal to the number configured.        *)
THEOREM StaticsNeverLost == Spec => []StaticsConserved
<1>1. StaticsInv => StaticsConserved
  BY DEF StaticsInv, Conserved, Statics, StaticsConserved
<1> QED  BY <1>1, InitConserved, NextConserved, PTL DEF Spec

-----------------------------------------------------------------------------
(* The node limit.                                                         *)

(* A VM that update_provision_status has still to look at or has given up, *)
(* and the one that it has destroyed and ordered a replacement for.        *)
InHands(v) ==
    cp \in {"scan", "join", "settle", "reap", "reapMove"} /\ (In(v, cpTodo) \/ In(v, ready) \/ In(v, doomed))
GivenUp(v) == cp = "reapMove" /\ v = Head(doomed)

HandsApart ==
    /\ Distinct(starting_instances) /\ Distinct(cpTodo) /\ Distinct(doomed)
    /\ Apart(cpTodo, doomed)
    /\ cp \notin {"scan", "join", "dead"} => cpTodo = <<>>
    /\ cp \notin {"scan", "join", "settle", "dead"} => ready = <<>>
    /\ cp \notin {"scan", "join", "settle", "reap", "reapMove", "dead"} => doomed = <<>>

(* What uses up the limit besides orders: a VM that is still starting may  *)
(* be replaced, so it counts even when its server is gone.                 *)
Counted ==
    {v \in VMs : \/ cloud[v] \in Live /\ v \notin asked
                 \/ (In(v, starting_instances) \/ InHands(v)) /\ ~GivenUp(v)}

Room(n) == Cardinality(Counted) + n <= NumDynamic

(* Between reading the number of available nodes and ordering that many,   *)
(* the room for them must not be used by anything else.                    *)
Limited ==
    /\ taken <= Len(provision_waiting_list)
    /\ cp # "launch" => taken = 0
    /\ Room(Pending)
    /\ jp = "determine" => Room(available_number_of_nodes)
    /\ jp = "extend" => Room(jpCount)

SingleCore == Np = 1 /\ StaticWanted = 0 /\ "api" \notin Faults

LimitInv == SafetyInv /\ FlagInv /\ (SingleCore => HandsApart /\ Limited)

(* Fewer VMs count, and fewer are on order.                                *)
LEMMA CountedSize ==
    ASSUME NEW S \in SUBSET Counted, NEW v
    PROVE  /\ Cardinality(S) \in Nat /\ Cardinality(Counted) \in Nat
           /\ Cardinality(S) <= Cardinality(Counted)
           /\ Cardinality(S \cup {v}) <= Cardinality(S) + 1
           /\ v \in Counted /\ v \notin S => Cardinality(S) <= Cardinality(Counted) - 1
<1>1. IsFiniteSet(Counted) /\ Cardinality(Counted) \in Nat
  <2>1. Counted \in SUBSET VMs
    BY DEF Counted
  <2> QED  BY <2>1, VMsAssumption, FS_Subset, FS_CardinalityType
<1> HIDE DEF Counted
<1>2. IsFiniteSet(S) /\ Cardinality(S) \in Nat /\ Cardinality(S) <= Cardinality(Counted)
  BY <1>1, FS_Subset, FS_CardinalityType
<1>3. Cardinality(S \cup {v}) <= Cardinality(S) + 1
  BY <1>2, FS_AddElement
<1>4. ASSUME v \in Counted, v \notin S PROVE Cardinality(S) <= Cardinality(Counted) - 1
  <2>1. /\ IsFiniteSet(Counted \ {v})
        /\ Cardinality(Counted \ {v}) = Cardinality(Counted) - 1
    BY <1>1, <1>4, FS_RemoveElement
  <2>2. S \in SUBSET (Counted \ {v})
    BY <1>4
  <2> QED  BY <2>1, <2>2, FS_Subset
<1> QED  BY <1>1, <1>2, <1>3, <1>4

LEMMA OneMoreCounted ==
    ASSUME NEW v, Counted' \subseteq Counted \cup {v}
    PROVE  /\ Cardinality(Counted') \in Nat /\ Cardinality(Counted) \in Nat
           /\ Cardinality(Counted') <= Cardinality(Counted) + 1
<1>1. IsFiniteSet(Counted') /\ IsFiniteSet(Counted)
  <2>1. Counted' \in SUBSET VMs /\ Counted \in SUBSET VMs
    BY DEF Counted
  <2> QED  BY <2>1, VMsAssumption, FS_Subset
<1> HIDE DEF Counted
<1>2. IsFiniteSet(Counted \cup {v}) /\ Cardinality(Counted \cup {v}) <= Cardinality(Counted) + 1
      /\ Cardinality(Counted) \in Nat
  <2>1. Cardinality(Counted) \in Nat
    BY <1>1, FS_CardinalityType
  <2>2. /\ IsFiniteSet(Counted \cup {v})
        /\ Cardinality(Counted \cup {v}) = IF v \in Counted THEN Cardinality(Counted)
                                          ELSE Cardinality(Counted) + 1
    BY <1>1, FS_AddElement
  <2> QED  BY <2>1, <2>2
<1>3. Cardinality(Counted') \in Nat /\ Cardinality(Counted') <= Cardinality(Counted \cup {v})
      /\ Cardinality(Counted \cup {v}) \in Nat
  BY <1>1, <1>2, FS_Subset, FS_CardinalityType
<1> QED  BY <1>2, <1>3

LEMMA RoomFrame ==
    ASSUME Counted' \subseteq Counted, NEW n \in Int, NEW m \in Int, m <= n, Room(n)
    PROVE  Cardinality(Counted') + m <= NumDynamic
<1>1. Cardinality(Counted') \in Nat /\ Cardinality(Counted) \in Nat
      /\ Cardinality(Counted') <= Cardinality(Counted)
  BY CountedSize
<1> QED  BY <1>1, NumDynamicAssumption DEF Room

(* A step of another thread: no server comes back, none is started.        *)
LEMMA CountedFrame ==
    ASSUME Decays, asked \subseteq asked', UNCHANGED <<cp, cpTodo, ready, doomed>>,
           \A v \in VMs : In(v, starting_instances') => In(v, starting_instances)
    PROVE  Counted' \subseteq Counted
BY DEF Counted, InHands, GivenUp, Decays

(* A step of the cloud poller that gives up no VM and starts none.         *)
LEMMA CountedMoves ==
    ASSUME UNCHANGED asked, \A v \in VMs : cloud'[v] \in Live => cloud[v] \in Live,
           cp # "reapMove",
           \A v \in VMs : In(v, starting_instances') \/ InHands(v)'
                          => In(v, starting_instances) \/ InHands(v)
    PROVE  Counted' \subseteq Counted
BY DEF Counted, GivenUp

LEMMA LimitedFrame ==
    ASSUME TypeInv, Limited, Counted' \subseteq Counted, Pending' <= Pending,
           Pending' \in Int, available_number_of_nodes' \in Int, jpCount' \in Int,
           taken' <= Len(provision_waiting_list'),
           cp' # "launch" => taken' = 0,
           jp' = "determine" => \/ jp = "determine" /\ UNCHANGED available_number_of_nodes
                                \/ Room(available_number_of_nodes'),
           jp' = "extend" => (jp = "extend" /\ UNCHANGED jpCount) \/ Room(jpCount')
    PROVE  Limited'
<1> USE DEF TypeInv, TypeOK, RCTypeOK, CpTypeOK, JpTypeOK
<1>1. Pending \in Int
  BY DEF Pending
<1>3. \A n, m \in Int : m <= n /\ Room(n) => Cardinality(Counted') + m <= NumDynamic
  BY RoomFrame
<1>4. Room(Pending)'
  <2>1. Room(Pending)
    BY DEF Limited
  <2>2. Cardinality(Counted') + Pending' <= NumDynamic
    BY <1>1, <1>3, <2>1
  <2> QED  BY <2>2 DEF Room
<1>5. jp' = "determine" => Room(available_number_of_nodes)'
  <2>1. jp' = "determine" => Room(available_number_of_nodes')
    BY DEF Limited
  <2>2. jp' = "determine" => Cardinality(Counted') + available_number_of_nodes' <= NumDynamic
    BY <1>3, <2>1
  <2> QED  BY <2>2 DEF Room
<1>6. jp' = "extend" => Room(jpCount)'
  <2>1. jp' = "extend" => Room(jpCount')
    BY DEF Limited
  <2>2. jp' = "extend" => Cardinality(Counted') + jpCount' <= NumDynamic
    BY <1>3, <2>1
  <2> QED  BY <2>2 DEF Room
<1> QED  BY <1>4, <1>5, <1>6 DEF Limited

(* What update_available_cores finds free is free, if nothing is on order: *)
(* every server that counts is in one of the two lists it subtracts.       *)
LEMMA ListedDynamic ==
    ASSUME NEW list \in Seq(VMs), \A v \in VMs : vm[v].dynamic
    PROVE  LET S == {v \in VMs : In(v, list)} IN
           IsFiniteSet(S) /\ Cardinality(S) <= DynamicIn(list) /\ DynamicIn(list) \in Nat
<1> DEFINE S == {v \in VMs : In(v, list)}
           I == 1 .. Len(list)
           f == [i \in I |-> list[i]]
<1>1. IsFiniteSet(I) /\ Cardinality(I) \in Nat
  <2>1. Len(list) \in Int
    OBVIOUS
  <2> QED  BY <2>1, FS_Interval, FS_CardinalityType
<1>2. \A i \in I : list[i] \in VMs
  OBVIOUS
<1>3. f \in Surjection(I, S)
  BY <1>2 DEF In, Surjection
<1>4. IsFiniteSet(S) /\ Cardinality(S) <= Cardinality(I)
  <2> HIDE DEF f, I, S
  <2> QED  BY <1>1, <1>3, FS_Surjection
<1>5. {i \in I : vm[list[i]].dynamic} = I
  BY <1>2
<1> QED  BY <1>1, <1>4, <1>5 DEF DynamicIn

LEMMA AvailableIsRoom ==
    ASSUME TypeInv, AllDynamic, Flagged, Remembered, ~provisioning
    PROVE  Room(AvailableNodes)
<1> DEFINE E == {v \in VMs : In(v, existing_instances)}
           D == {v \in VMs : In(v, deleting_instances)}
<1> USE DEF TypeInv, TypeOK, RCTypeOK, CpTypeOK
<1>1. starting_instances = <<>> /\ cp \notin {"scan", "join", "settle", "reap", "reapMove"}
  BY DEF Flagged, OnOrder
<1>2. Counted \subseteq E \cup D
  BY <1>1, EmptyList DEF Counted, InHands, Remembered, Listed
<1>3. /\ IsFiniteSet(E) /\ Cardinality(E) <= DynamicIn(existing_instances)
      /\ IsFiniteSet(D) /\ Cardinality(D) <= DynamicIn(deleting_instances)
      /\ DynamicIn(existing_instances) \in Nat /\ DynamicIn(deleting_instances) \in Nat
  BY ListedDynamic DEF AllDynamic
<1> HIDE DEF E, D
<1>4. Cardinality(Counted) <= Cardinality(E) + Cardinality(D)
  <2>1. IsFiniteSet(E \cup D) /\ Cardinality(E \cup D) = Cardinality(E) + Cardinality(D) - Cardinality(E \cap D)
    BY <1>3, FS_Union
  <2>2. IsFiniteSet(E \cap D)
    BY <1>3, FS_Subset
  <2>3. Cardinality(E) \in Nat /\ Cardinality(D) \in Nat /\ Cardinality(E \cap D) \in Nat
    BY <1>3, <2>2, FS_CardinalityType
  <2>4. Cardinality(Counted) <= Cardinality(E \cup D) /\ Cardinality(Counted) \in Nat
    BY <1>2, <2>1, FS_Subset, CountedSize
  <2> QED  BY <2>1, <2>3, <2>4
<1>5. Cardinality(E) \in Nat /\ Cardinality(D) \in Nat /\ Cardinality(Counted) \in Nat
  BY <1>3, FS_CardinalityType, CountedSize
<1> QED  BY <1>3, <1>4, <1>5, NumDynamicAssumption, SMTT(30) DEF Room, AvailableNodes

(* What launch_instances leaves of the waiting list after k launches.      *)
LEMMA LaunchedRest ==
    ASSUME NEW s \in Seq(Requests), NEW k \in Nat, k <= Len(s)
    PROVE  LET rest == SubSeq(s, k + 1, Len(s)) IN
           /\ Len(rest) = Len(s) - k
           /\ Len(StaticsIn(rest)) \in Nat /\ Len(StaticsIn(rest)) <= Len(s) - k
<1> DEFINE rest == SubSeq(s, k + 1, Len(s))
           I == {i \in 1 .. Len(rest) : rest[i] = "static"}
<1>1. Len(s) \in Nat /\ \A i \in k + 1 .. Len(s) : s[i] \in Requests
  OBVIOUS
<1>2. rest \in Seq(Requests) /\ Len(rest) = IF k + 1 <= Len(s) THEN Len(s) - (k + 1) + 1 ELSE 0
  BY <1>1, SubSeqProperties
<1>3. Len(rest) = Len(s) - k /\ Len(rest) \in Nat
  BY <1>1, <1>2
<1> HIDE DEF rest
<1>4. IsFiniteSet(1 .. Len(rest)) /\ Cardinality(1 .. Len(rest)) = Len(rest)
  <2>1. ASSUME NEW n \in Nat PROVE IsFiniteSet(1 .. n) /\ Cardinality(1 .. n) = n
    <3>1. 1 \in Int /\ n \in Int
      OBVIOUS
    <3>2. IsFiniteSet(1 .. n) /\ Cardinality(1 .. n) = IF 1 > n THEN 0 ELSE n - 1 + 1
      BY <3>1, FS_Interval, Zenon
    <3>3. (IF 1 > n THEN 0 ELSE n - 1 + 1) = n
      OBVIOUS
    <3> QED  BY <3>2, <3>3
  <2> QED  BY <1>3, <2>1
<1>5. Cardinality(I) \in Nat /\ Cardinality(I) <= Len(rest)
  BY <1>4, FS_Subset, FS_CardinalityType
<1> HIDE DEF I
<1>6. Len(Copies(Cardinality(I), "static")) = Cardinality(I)
  BY <1>5 DEF Copies
<1>7. StaticsIn(rest) = Copies(Cardinality(I), "static")
  BY DEF StaticsIn, I
<1> QED  BY <1>3, <1>5, <1>6, <1>7 DEF rest

(* The next VM of starting_instances has been looked at.                   *)
LEMMA NextLookedAt ==
    ASSUME TypeInv, HandsApart, cpTodo # <<>>, cp \in {"scan", "join"}, cp' = "scan",
           UNCHANGED starting_instances, cpTodo' = Tail(cpTodo),
           \/ UNCHANGED <<ready, doomed>>
           \/ ready' = Append(ready, Head(cpTodo)) /\ UNCHANGED doomed
           \/ doomed' = Append(doomed, Head(cpTodo)) /\ UNCHANGED ready
    PROVE  HandsApart' /\ \A v \in VMs : InHands(v)' => InHands(v)
<1> DEFINE v == Head(cpTodo)
<1>1. /\ v \in VMs /\ In(v, cpTodo) /\ ~In(v, doomed)
      /\ ready \in Seq(VMs) /\ doomed \in Seq(VMs) /\ cpTodo \in Seq(VMs)
  BY TailIn DEF TypeInv, TypeOK, CpTypeOK, HandsApart, Apart
<1>2. Distinct(cpTodo') /\ \A x : In(x, cpTodo') <=> In(x, cpTodo) /\ x # v
  BY <1>1, TailDistinct DEF HandsApart
<1>3. /\ \A x : In(x, Append(ready, v)) <=> In(x, ready) \/ x = v
      /\ Distinct(Append(doomed, v)) /\ \A x : In(x, Append(doomed, v)) <=> In(x, doomed) \/ x = v
  BY <1>1, AppendIn, AppendDistinct DEF HandsApart
<1>4. /\ Distinct(doomed')
      /\ \A x : In(x, ready') => In(x, ready) \/ x = v
      /\ \A x : In(x, doomed') => In(x, doomed) \/ x = v
  BY <1>1, <1>3 DEF HandsApart
<1> HIDE DEF v
<1>5. Apart(cpTodo, doomed)'
  BY <1>2, <1>4 DEF HandsApart, Apart
<1>6. HandsApart'
  BY <1>2, <1>4, <1>5 DEF HandsApart
<1>7. \A x \in VMs : InHands(x)' => InHands(x)
  BY <1>1, <1>2, <1>4 DEF InHands
<1> QED  BY <1>6, <1>7

(* The other threads do not touch what the cloud poller has in its hands,  *)
(* and only empty starting_instances.                                      *)
LEMMA HandsFrame ==
    ASSUME HandsApart, UNCHANGED <<cp, cpTodo, ready, doomed>>,
           starting_instances' \in {starting_instances, <<>>}
    PROVE  HandsApart'
BY EmptyList DEF HandsApart, Apart

(* The steps of the cloud poller.                                          *)
LEMMA CloudPollerLimited ==
    ASSUME TypeInv, "api" \notin Faults, Born, Remembered, AllDynamic, Flagged,
           HandsApart, Limited, CpStep, UNCHANGED <<jp, jpCount>>,
           Pending' \in Int, available_number_of_nodes' \in Int, jpCount' \in Int
    PROVE  HandsApart' /\ Limited'
<1> USE DEF TypeInv, TypeOK, RCTypeOK, CpTypeOK, JpTypeOK, Positioned, CpPositioned
<1>1. /\ taken \in Nat /\ Len(provision_waiting_list) \in Nat /\ taken <= Len(provision_waiting_list)
      /\ cp # "launch" => taken = 0
  BY DEF Limited
<1>2. cp \in {"scan", "join", "settle", "reap", "reapMove", "launch"}
        => jp' \notin {"determine", "extend"}
  BY DEF Flagged
(* Nothing is ordered, started or given up.                                *)
<1>3. CASE \/ CpPoll \/ CpStop \/ CheckBuilding \/ JoinOk \/ JoinFail \/ CheckJoined \/ ScanEnd
           \/ Wrap \/ ProvOff \/ CpDumpNext \/ CpDumpEnd \/ CleanupBegin \/ DelRead \/ DelAct \/ DelEnd
           \/ ReleaseNode \/ CleanupEnd \/ Relaunch \/ CpRaise
  <2>1. UNCHANGED <<starting_instances, provision_waiting_list, taken, available_number_of_nodes>>
    BY <1>3 DEF CpPoll, CpStop, CheckBuilding, JoinOk, JoinFail, CheckJoined, ScanEnd, Wrap, ProvOff,
         CpDumpNext, CpDumpEnd, fileKeep, CleanupBegin, DelRead, DelAct, DelEnd, ReleaseNode,
         CleanupEnd, Relaunch, CpRaise, centerVars, listVars, flagVars, fileVars, flagsButFile,
         rcButLock, launchLocals
  <2>2. cp \notin {"launch", "reapMove"} /\ cp' \notin {"launch", "reapMove"}
    <3>1. CASE CheckBuilding
      BY <3>1, SMTT(30) DEF CheckBuilding
    <3>2. CASE DelRead
      BY <3>2, SMTT(30) DEF DelRead
    <3>3. CASE ~CheckBuilding /\ ~DelRead
      BY <1>3, <3>3 DEF CpPoll, CpStop, JoinOk, JoinFail, CheckJoined, ScanEnd, Wrap, ProvOff,
           CpDumpNext, CpDumpEnd, CleanupBegin, DelAct, DelEnd, ReleaseNode, CleanupEnd, Relaunch,
           CpRaise, CpDie, Checking
    <3> QED  BY <3>1, <3>2, <3>3
  <2>3. asked \subseteq asked' /\ \A v \in VMs : cloud'[v] \in Live => cloud[v] \in Live
    <3>1. CASE DelAct
      <4>1. PICK v \in VMs : v = deleting_instances[cursor]
        BY <3>1, SMTT(30) DEF DelAct, CpStates
      <4>2. PICK removed \in BOOLEAN, ok \in BOOLEAN :
              TakeAway(v, removed /\ todoDel # "destroy", ok /\ todoDel # "remove")
        BY <3>1, <4>1 DEF DelAct, Outcomes
      <4> DEFINE r == removed /\ todoDel # "destroy"
                 k == ok /\ todoDel # "remove"
      <4>3. r \in BOOLEAN /\ k \in BOOLEAN /\ TakeAway(v, r, k)
        BY <4>2
      <4> HIDE DEF r, k
      <4>4. Decays
        BY <4>3, TakeAwayDecays
      <4>5. asked \subseteq asked'
        BY <3>1 DEF DelAct
      <4> QED  BY <4>4, <4>5 DEF Decays
    <3>2. CASE ~DelAct
      <4>1. UNCHANGED <<asked, cloud>>
        BY <1>3, <3>2 DEF CpPoll, CpStop, CheckBuilding, JoinOk, JoinFail, CheckJoined, ScanEnd, Wrap,
             ProvOff, CpDumpNext, CpDumpEnd, fileKeep, CleanupBegin, DelRead, DelEnd, ReleaseNode,
             CleanupEnd, Relaunch, CpRaise, AddNode, Release, clusterVars, centerVars, historyVars
      <4> QED  BY <4>1
    <3> QED  BY <3>1, <3>2
  <2>4. HandsApart' /\ \A v \in VMs : InHands(v)' => InHands(v) \/ In(v, starting_instances)
    <3>1. CASE CpPoll
      <4>1. /\ cpTodo' \in {starting_instances, cpTodo} /\ cp = "poll" /\ cp' \in {"scan", "cleanup"}
            /\ cp' = "cleanup" => UNCHANGED cpTodo
            /\ UNCHANGED <<ready, doomed>>
        BY <3>1 DEF CpPoll
      <4>2. cpTodo = <<>> /\ ready = <<>> /\ doomed = <<>>
        BY <4>1 DEF HandsApart
      <4> QED  BY <2>1, <4>1, <4>2, EmptyList DEF HandsApart, InHands, Apart
    <3>2. CASE CheckBuilding
      <4>1. PICK s \in VmCheck(Head(cpTodo)) :
              /\ cp' = IF s = 0 THEN "join" ELSE "scan"
              /\ cpTodo' = IF s = 0 THEN cpTodo ELSE Tail(cpTodo)
              /\ doomed' = IF s \in {3, 4} \/ (s \in {1, 2} /\ Head(cpTodo) \in overdue)
                           THEN Append(doomed, Head(cpTodo)) ELSE doomed
        BY <3>2 DEF CheckBuilding
      <4>2. cp = "scan" /\ cpTodo # <<>> /\ UNCHANGED ready
        BY <3>2 DEF CheckBuilding
      <4>3. CASE s = 0
        <5>1. cp' = "join" /\ UNCHANGED <<cpTodo, doomed>>
          BY <4>1, <4>3
        <5> QED  BY <2>1, <4>2, <5>1 DEF HandsApart, InHands, Apart
      <4>4. CASE s # 0
        <5>1. cp' = "scan" /\ cpTodo' = Tail(cpTodo) /\ doomed' \in {doomed, Append(doomed, Head(cpTodo))}
          BY <4>1, <4>4
        <5> QED  BY <2>1, <4>2, <5>1, NextLookedAt
      <4> QED  BY <4>3, <4>4
    <3>3. CASE JoinOk \/ JoinFail
      <4>1. /\ cp = "join" /\ cpTodo # <<>> /\ cp' = "scan" /\ cpTodo' = Tail(cpTodo) /\ UNCHANGED ready
            /\ doomed' \in {doomed, Append(doomed, Head(cpTodo))}
        BY <3>3 DEF JoinOk, JoinFail
      <4> QED  BY <2>1, <4>1, NextLookedAt
    <3>4. CASE CheckJoined
      <4>1. /\ cp = "scan" /\ cp' = "scan" /\ cpTodo # <<>> /\ cpTodo' = Tail(cpTodo)
            /\ \/ UNCHANGED <<ready, doomed>>
               \/ ready' = Append(ready, Head(cpTodo)) /\ UNCHANGED doomed
               \/ doomed' = Append(doomed, Head(cpTodo)) /\ UNCHANGED ready
        BY <3>4 DEF CheckJoined
      <4> QED  BY <2>1, <4>1, NextLookedAt
    <3>5. CASE ScanEnd
      <4>1. /\ UNCHANGED <<cpTodo, ready, doomed>> /\ cpTodo = <<>> /\ cp = "scan"
            /\ cp' = IF ready = <<>> THEN "reap" ELSE "settle"
        BY <3>5 DEF ScanEnd, scanLocals
      <4> QED  BY <2>1, <4>1 DEF HandsApart, InHands, Apart
    <3>6. CASE CpRaise
      <4>1. UNCHANGED <<cpTodo, ready, doomed>> /\ cp' = "dead"
        BY <3>6 DEF CpRaise, CpDie, scanLocals
      <4> QED  BY <2>1, <4>1 DEF HandsApart, InHands, Apart
    <3>7. CASE ~(CpPoll \/ CheckBuilding \/ JoinOk \/ JoinFail \/ CheckJoined \/ ScanEnd \/ CpRaise)
      <4>1. /\ UNCHANGED <<cpTodo, ready, doomed>>
            /\ cp \notin {"scan", "join", "settle", "reap", "reapMove", "dead"}
        BY <1>3, <3>7 DEF CpStop, Wrap, ProvOff, CpDumpNext, CpDumpEnd, fileKeep, CleanupBegin,
             DelRead, DelAct, DelEnd, ReleaseNode, CleanupEnd, Relaunch, scanLocals
      <4>2. cpTodo = <<>> /\ ready = <<>> /\ doomed = <<>>
        BY <4>1 DEF HandsApart
      <4> QED  BY <2>1, <4>1, <4>2, EmptyList DEF HandsApart, InHands, Apart
    <3> QED  BY <3>1, <3>2, <3>3, <3>4, <3>5, <3>6, <3>7
  <2>5. Counted' \subseteq Counted
    BY <2>1, <2>2, <2>3, <2>4 DEF Counted, GivenUp
  <2> QED  BY <1>1, <2>1, <2>2, <2>4, <2>5, LimitedFrame DEF Pending
(* Lists that change hands, or are done with.                              *)
<1>4. CASE Settle
  <2>1. ready # <<>> /\ ready \in Seq(VMs) /\ cp = "settle" /\ cpTodo = <<>>
    BY <1>4 DEF Settle, HandsApart
  <2>2. /\ UNCHANGED <<cpTodo, doomed, provision_waiting_list, taken, available_number_of_nodes,
                       cloud, asked>>
        /\ \/ /\ In(Head(ready), starting_instances)
              /\ starting_instances' = RemoveFirst(starting_instances, Head(ready))
              /\ ready' = Tail(ready) /\ cp' = IF Len(ready) = 1 THEN "reap" ELSE "settle"
           \/ UNCHANGED <<starting_instances, ready>> /\ cp' = "dead"
    BY <1>4 DEF Settle, CpDie, clusterVars, historyVars, launchLocals
  <2>3. /\ Distinct(starting_instances')
        /\ \A x : In(x, starting_instances') => In(x, starting_instances)
        /\ \A x : In(x, ready') => In(x, ready)
        /\ cp' = "reap" => ready' = <<>>
    <3>1. CASE cp' = "dead"
      BY <2>2, <3>1 DEF HandsApart
    <3>2. CASE cp' # "dead"
      <4>1. /\ In(Head(ready), starting_instances)
            /\ starting_instances' = RemoveFirst(starting_instances, Head(ready))
            /\ ready' = Tail(ready) /\ (cp' = "reap" => Len(ready) = 1)
        BY <2>2, <3>2
      <4>2. /\ Distinct(starting_instances')
            /\ \A x : In(x, starting_instances') => In(x, starting_instances)
        BY <4>1, RemoveFirstDistinct DEF HandsApart
      <4>3. \A x : In(x, ready') => In(x, ready)
        BY <2>1, <4>1, TailIn
      <4>4. cp' = "reap" => ready' = <<>>
        BY <2>1, <4>1, LastEntry
      <4> QED  BY <4>2, <4>3, <4>4
    <3> QED  BY <3>1, <3>2
  <2>4. HandsApart'
    BY <2>1, <2>2, <2>3 DEF HandsApart, Apart
  <2>5. Counted' \subseteq Counted
    BY <2>1, <2>2, <2>3, CountedMoves DEF InHands
  <2> QED  BY <1>1, <2>1, <2>2, <2>4, <2>5, LimitedFrame DEF Pending
<1>5. CASE ReapMove
  <2>1. /\ doomed # <<>> /\ doomed \in Seq(VMs) /\ cp = "reapMove" /\ cpTodo = <<>> /\ ready = <<>>
        /\ Distinct(doomed) /\ Distinct(starting_instances)
    BY <1>5 DEF ReapMove, HandsApart
  <2>2. /\ UNCHANGED <<cpTodo, ready, provision_waiting_list, taken, available_number_of_nodes,
                       cloud, asked>>
        /\ \/ /\ In(Head(doomed), starting_instances)
              /\ starting_instances' = RemoveFirst(starting_instances, Head(doomed))
              /\ doomed' = Tail(doomed) /\ cp' = "reap"
           \/ ~In(Head(doomed), starting_instances) /\ UNCHANGED <<starting_instances, doomed>>
              /\ cp' = "dead"
    BY <1>5 DEF ReapMove, CpDie, clusterVars, historyVars, launchLocals, rcButLock
  <2>3. /\ Distinct(starting_instances') /\ Distinct(doomed')
        /\ \A x : In(x, starting_instances') => In(x, starting_instances) /\ x # Head(doomed)
        /\ cp' = "reap" => \A x : In(x, doomed') => In(x, doomed) /\ x # Head(doomed)
    <3>1. CASE cp' = "dead"
      <4>1. ~In(Head(doomed), starting_instances) /\ UNCHANGED <<starting_instances, doomed>>
        BY <2>2, <3>1
      <4> QED  BY <2>1, <3>1, <4>1
    <3>2. CASE cp' # "dead"
      <4>1. /\ In(Head(doomed), starting_instances)
            /\ starting_instances' = RemoveFirst(starting_instances, Head(doomed))
            /\ doomed' = Tail(doomed)
        BY <2>2, <3>2
      <4>2. /\ Distinct(starting_instances')
            /\ \A x : In(x, starting_instances') <=> In(x, starting_instances) /\ x # Head(doomed)
        BY <2>1, <4>1, RemoveFirstDistinct
      <4>3. /\ Distinct(doomed')
            /\ \A x : In(x, doomed') <=> In(x, doomed) /\ x # Head(doomed)
        BY <2>1, <4>1, TailDistinct
      <4> QED  BY <4>2, <4>3
    <3> QED  BY <3>1, <3>2
  <2>4. HandsApart'
    BY <2>1, <2>2, <2>3, EmptyList DEF HandsApart, Apart
  <2>5. \A x : In(x, starting_instances') \/ InHands(x)'
               => (In(x, starting_instances) \/ InHands(x)) /\ ~GivenUp(x)
    BY <2>1, <2>2, <2>3, EmptyList DEF InHands, GivenUp
  <2>6. Counted' \subseteq Counted
    BY <2>2, <2>5 DEF Counted
  <2> QED  BY <1>1, <2>1, <2>2, <2>4, <2>6, LimitedFrame DEF Pending
(* A VM given up does not count any more, but its replacement does.        *)
<1>6. CASE Reap
  <2>1. PICK v \in VMs : v = Head(doomed) /\ In(v, doomed)
    BY <1>6, TailIn DEF Reap
  <2>2. /\ \E ok \in BOOLEAN : TakeAway(v, FALSE, ok)
        /\ asked' = asked \cup {v} /\ cp = "reap" /\ cp' = "reapMove"
        /\ UNCHANGED <<starting_instances, cpTodo, ready, doomed, taken>>
        /\ \E r \in Requests : provision_waiting_list' \in {provision_waiting_list, Append(provision_waiting_list, r)}
    BY <1>6, <2>1 DEF Reap, Outcomes, listVars, scanLocals, launchLocals, Requests
  <2>3. Decays
    BY <2>2, TakeAwayDecays
  <2>4. Counted' \subseteq Counted /\ v \in Counted /\ v \notin Counted'
    BY <2>1, <2>2, <2>3 DEF Counted, InHands, GivenUp, Decays
  <2>5. Cardinality(Counted') \in Nat /\ Cardinality(Counted) \in Nat
        /\ Cardinality(Counted') <= Cardinality(Counted) - 1
    BY <2>4, CountedSize
  <2>6. Len(provision_waiting_list') \in Nat
        /\ Len(provision_waiting_list') \in {Len(provision_waiting_list), Len(provision_waiting_list) + 1}
    BY <2>2
  <2>7. HandsApart'
    BY <2>2 DEF HandsApart, Apart
  <2>8. Room(Pending)'
    BY <1>1, <2>2, <2>5, <2>6, NumDynamicAssumption DEF Limited, Room, Pending
  <2> QED  BY <1>1, <1>2, <2>2, <2>6, <2>7, <2>8 DEF Limited
(* A launch: one order less, one VM more.                                  *)
<1>7. ASSUME NEW v \in VMs, Launch(v) PROVE HandsApart' /\ Limited'
  <2>1. /\ cloud[v] = "none" /\ cloud' = [cloud EXCEPT ![v] = "build"] /\ cp = "launch" /\ cp' = "launch"
        /\ starting_instances' = Append(starting_instances, v) /\ taken' = taken + 1
        /\ taken < Len(provision_waiting_list)
        /\ UNCHANGED <<provision_waiting_list, asked, cpTodo, ready, doomed>>
    BY <1>7 DEF Launch, Create, Unborn, historyVars, scanLocals
  <2>2. ~In(v, starting_instances)
    BY <2>1 DEF Born, Known, Listed
  <2>3. Distinct(starting_instances') /\ \A x : In(x, starting_instances') <=> In(x, starting_instances) \/ x = v
    BY <2>1, <2>2, AppendIn, AppendDistinct DEF HandsApart
  <2>4. HandsApart'
    BY <2>1, <2>3 DEF HandsApart, Apart
  <2>5. Counted' \subseteq Counted \cup {v}
    BY <2>1, <2>3 DEF Counted, InHands, GivenUp, ClusterTypeOK
  <2>6. Cardinality(Counted') \in Nat /\ Cardinality(Counted) \in Nat
        /\ Cardinality(Counted') <= Cardinality(Counted) + 1
    BY <2>5, OneMoreCounted
  <2>7. Room(Pending)'
    <3>1. Pending' = Pending - 1 /\ Pending \in Int
      BY <1>1, <2>1 DEF Pending
    <3>2. Cardinality(Counted) + Pending <= NumDynamic
      BY DEF Limited, Room
    <3>3. Cardinality(Counted') + Pending' <= NumDynamic
      BY <2>6, <3>1, <3>2, NumDynamicAssumption
    <3> QED  BY <3>3 DEF Room
  <2> QED  BY <1>1, <1>2, <2>1, <2>4, <2>7 DEF Limited
<1>8. CASE LaunchBegin \/ LaunchEnd
  <2>1. /\ UNCHANGED <<starting_instances, cpTodo, ready, doomed, asked, cloud, available_number_of_nodes>>
        /\ cp \in {"launchBegin", "launch"} /\ cp' \in {"launch", "cleanup", "poll"} /\ taken' = 0
    BY <1>8 DEF LaunchBegin, LaunchEnd, clusterVars, listVars, historyVars, scanLocals
  <2>2. Len(provision_waiting_list') \in Nat /\ Pending' <= Pending
    <3>1. CASE LaunchBegin
      BY <1>1, <3>1 DEF LaunchBegin, Pending
    <3>2. CASE LaunchEnd
      <4> DEFINE rest == SubSeq(provision_waiting_list, taken + 1, Len(provision_waiting_list))
      <4>1. provision_waiting_list' = IF budget = 0 THEN StaticsIn(rest) ELSE rest
        BY <3>2 DEF LaunchEnd
      <4>2. /\ Len(rest) = Len(provision_waiting_list) - taken
            /\ Len(StaticsIn(rest)) \in Nat
            /\ Len(StaticsIn(rest)) <= Len(provision_waiting_list) - taken
        BY <1>1, LaunchedRest
      <4> HIDE DEF rest
      <4> QED  BY <1>1, <2>1, <4>1, <4>2 DEF Pending
    <3> QED  BY <1>8, <3>1, <3>2
  <2>3. cpTodo = <<>> /\ ready = <<>> /\ doomed = <<>>
    BY <2>1 DEF HandsApart
  <2>4. HandsApart' /\ Counted' \subseteq Counted
    BY <2>1, <2>3 DEF HandsApart, Apart, Counted, InHands, GivenUp
  <2> QED  BY <1>1, <2>1, <2>2, <2>4, LimitedFrame
(* The rounds' ends count the available nodes anew.                        *)
<1>9. CASE ReapEnd \/ WrapDel
  <2>1. /\ UNCHANGED <<starting_instances, provision_waiting_list, cpTodo, ready, doomed, asked, cloud,
                       taken>>
        /\ cp \in {"reap", "wrapDel"} /\ cp' \in {"dump", "wrap", "dumpDel", "relaunch"}
        /\ available_number_of_nodes' = AvailableNodes
        /\ cp = "reap" => doomed = <<>>
    BY <1>9 DEF ReapEnd, WrapDel, clusterVars, listVars, historyVars, scanLocals, launchLocals
  <2>2. cpTodo = <<>> /\ ready = <<>> /\ doomed = <<>>
    BY <2>1 DEF HandsApart
  <2>3. HandsApart' /\ Counted' \subseteq Counted
    BY <2>1, <2>2 DEF HandsApart, Apart, Counted, InHands, GivenUp
  <2>4. jp' = "determine" => Room(available_number_of_nodes')
    BY <2>1, AvailableIsRoom DEF Flagged
  <2> QED  BY <1>1, <2>1, <2>3, <2>4, LimitedFrame DEF Pending
<1>10. CASE Bury \/ Back
  <2>1. /\ UNCHANGED <<starting_instances, cpTodo, ready, doomed, asked, cloud, taken,
                       available_number_of_nodes>>
        /\ cp = "bury" /\ cp' \in {"bury", "release", "dead"}
    BY <1>10 DEF Bury, Back, CpDie, clusterVars, historyVars, scanLocals, launchLocals, rcButLock
  <2>2. UNCHANGED provision_waiting_list
    <3>1. CASE Bury
      <4>1. ~Replaced(Head(gone))
        BY <3>1, TailIn DEF Bury, Replaced, AllDynamic
      <4> QED  BY <3>1, <4>1 DEF Bury
    <3>2. CASE Back
      BY <3>2 DEF Back
    <3> QED  BY <1>10, <3>1, <3>2
  <2>3. cpTodo = <<>> /\ ready = <<>> /\ doomed = <<>>
    BY <2>1 DEF HandsApart
  <2>4. HandsApart' /\ Counted' \subseteq Counted
    BY <2>1, <2>3 DEF HandsApart, Apart, Counted, InHands, GivenUp
  <2> QED  BY <1>1, <2>1, <2>2, <2>4, LimitedFrame DEF Pending
<1> QED
  BY <1>3, <1>4, <1>5, <1>6, <1>7, <1>8, <1>9, <1>10 DEF CpStep

(* The job poller orders what was free when it counted: nothing has come   *)
(* in between, because provisioning is not set.                            *)
LEMMA JobPollerLimited ==
    ASSUME TypeInv, Np = 1, Remembered, AllDynamic, Flagged, HandsApart, Limited,
           JpStep, UNCHANGED <<cp, cpTodo, ready, doomed, taken>>,
           Pending' \in Int, available_number_of_nodes' \in Int, jpCount' \in Int
    PROVE  HandsApart' /\ Limited'
<1> USE DEF TypeInv, TypeOK, RCTypeOK, CpTypeOK, JpTypeOK
<1>1. /\ taken \in Nat /\ Len(provision_waiting_list) \in Nat /\ taken <= Len(provision_waiting_list)
      /\ cp' # "launch" => taken' = 0
  BY DEF Limited
<1>2. UNCHANGED starting_instances
  BY DEF JpStep, JpPoll, JpRaise, JpDecide, JpStop, JpDumpNext, JpDumpEnd, jpFileKeep, SkipNode, Inspect, IdleKill, IdleUnlist,
       IdleRemove, Retire, IdleWrap, JpScanEnd, Determine, Extend, jpKeep, centerVars, listVars
<1>3. asked \subseteq asked' /\ Decays
  <2>1. ASSUME NEW v \in VMs, IdleKill(v) PROVE asked \subseteq asked' /\ Decays
    <3>1. \E removed, ok \in BOOLEAN : TakeAway(v, removed, ok)
      BY <2>1 DEF IdleKill, Outcomes
    <3> QED  BY <2>1, <3>1, TakeAwayDecays DEF IdleKill
  <2>2. CASE ~ \E v \in VMs : IdleKill(v)
    <3>1. UNCHANGED <<asked, cloud>>
      BY <2>2, ZenonT(40) DEF JpStep, JpPoll, JpRaise, JpDecide, JpStop, JpDumpNext, JpDumpEnd, jpFileKeep, SkipNode, Inspect, Hold, IdleUnlist,
           IdleRemove, Retire, IdleWrap, JpScanEnd, Determine, Extend, jpKeep, clusterVars, centerVars,
           historyVars
    <3> QED  BY <3>1 DEF Decays
  <2> QED  BY <2>1, <2>2
<1>4. HandsApart' /\ Counted' \subseteq Counted
  BY <1>2, <1>3, HandsFrame, CountedFrame
<1>5. CASE \/ JpPoll \/ JpRaise \/ JpDecide \/ JpStop \/ JpDumpNext \/ JpDumpEnd \/ IdleWrap
           \/ (\E v \in VMs : \/ SkipNode(v) \/ Inspect(v) \/ IdleKill(v) \/ IdleUnlist(v)
                              \/ IdleRemove(v) \/ Retire(v))
  <2>1. UNCHANGED provision_waiting_list /\ jp' \notin {"determine", "extend"}
    <3>1. CASE \E v \in VMs : Inspect(v)
      BY <3>1 DEF Inspect
    <3>2. CASE ~ \E v \in VMs : Inspect(v)
      BY <1>5, <3>2 DEF JpPoll, JpRaise, JpDecide, JpStop, JpDumpNext, JpDumpEnd, jpFileKeep, IdleWrap, SkipNode, IdleKill, IdleUnlist,
           IdleRemove, Retire, jpKeep, centerVars
    <3> QED  BY <3>1, <3>2
  <2> QED  BY <1>1, <1>4, <2>1, LimitedFrame DEF Pending
<1>6. CASE JpScanEnd
  <2>1. /\ UNCHANGED provision_waiting_list /\ jp = "scan" /\ jp' \in {"determine", "poll"}
        /\ available_number_of_nodes' = AvailableNodes
    BY <1>6 DEF JpScanEnd, jpKeep
  <2>2. Room(available_number_of_nodes')
    BY <2>1, AvailableIsRoom DEF Flagged
  <2> QED  BY <1>1, <1>4, <2>1, <2>2, LimitedFrame DEF Pending
<1>7. CASE Determine
  <2>1. PICK n \in 0 .. NumDynamic * Np :
          /\ n <= available_number_of_nodes * Np \/ n = 0
          /\ IF n > 0 /\ ~provisioning
             THEN jp' = "extend" /\ jpCount' = n
             ELSE jp' = "poll" /\ jpCount' = 0
    BY <1>7 DEF Determine
  <2>2. UNCHANGED provision_waiting_list /\ jp = "determine" /\ n \in Int
    BY <1>7, NumDynamicAssumption, NpAssumption DEF Determine, centerVars
  <2>3. Room(available_number_of_nodes) /\ Cardinality(Counted) \in Nat
    BY <2>2, CountedSize DEF Limited
  <2>4. jp' = "extend" => Room(jpCount')
    <3>1. ASSUME jp' = "extend" PROVE jpCount' = n /\ n <= available_number_of_nodes
      BY <2>1, <2>2, <3>1
    <3> QED  BY <2>2, <2>3, <3>1, NumDynamicAssumption DEF Room
  <2>5. jp' # "determine"
    BY <2>1
  <2> QED  BY <1>1, <1>4, <2>2, <2>4, <2>5, LimitedFrame DEF Pending
<1>8. CASE Extend
  <2>1. /\ provision_waiting_list = <<>> /\ jp = "extend" /\ jp' = "poll"
        /\ provision_waiting_list' = provision_waiting_list \o Copies(jpCount, "dynamic")
    BY <1>8 DEF Extend, Flagged, OnOrder
  <2>2. Len(provision_waiting_list') = jpCount /\ taken' = 0
    BY <1>1, <2>1 DEF Copies
  <2>3. Cardinality(Counted') + jpCount <= NumDynamic
    BY <1>4, <2>1, RoomFrame DEF Limited
  <2>4. Room(Pending)'
    BY <2>2, <2>3 DEF Room, Pending
  <2> QED  BY <1>1, <1>4, <2>1, <2>2, <2>4 DEF Limited
<1> QED
  BY <1>5, <1>6, <1>7, <1>8 DEF JpStep

(* The others order nothing and start nothing.                             *)
LEMMA OthersLimited ==
    ASSUME TypeInv, HandsApart, Limited, Decays, asked \subseteq asked',
           starting_instances' \in {starting_instances, <<>>},
           UNCHANGED <<cp, cpTodo, ready, doomed, taken, jp, jpCount, provision_waiting_list,
                       available_number_of_nodes>>,
           Pending' \in Int, available_number_of_nodes' \in Int, jpCount' \in Int
    PROVE  HandsApart' /\ Limited'
<1>1. \A v \in VMs : In(v, starting_instances') => In(v, starting_instances)
  BY EmptyList
<1>2. HandsApart' /\ Counted' \subseteq Counted
  BY <1>1, HandsFrame, CountedFrame
<1>3. taken' <= Len(provision_waiting_list') /\ (cp' # "launch" => taken' = 0)
  BY DEF Limited
<1>4. Pending' = Pending /\ Pending \in Int
  BY DEF Pending
<1> QED  BY <1>2, <1>3, <1>4, LimitedFrame

(* Requests, the main thread and the cloud only let servers go.            *)
LEMMA ControlDecays ==
    ASSUME ClusterTypeOK, TypeInv,
           InfoStep \/ MainStep \/ (\E c \in Callers : ForceoffStep(c)) \/ (\E v \in VMs : ClusterStep(v))
    PROVE  /\ Decays /\ asked \subseteq asked'
           /\ starting_instances' \in {starting_instances, <<>>}
           /\ UNCHANGED <<provision_waiting_list, available_number_of_nodes>>
<1>1. /\ starting_instances' \in {starting_instances, <<>>}
      /\ UNCHANGED <<provision_waiting_list, available_number_of_nodes>>
  BY DEF InfoStep, ToggleSleepMode, ForceoffRequest, KillBegin, KillHold, KillMove, ForceoffStep,
       ForceoffLoopEnd, ForceoffExisting, ForceoffMoveExisting, ForceoffStarting,
       ForceoffMoveStarting, MainStep, MainQuit, MainExit, ClusterStep, centerVars, listVars, flagVars, fileVars, flagsButFile
<1>2. ASSUME NEW c \in Callers, ForceoffExisting(c) \/ ForceoffStarting(c)
      PROVE  Decays /\ asked \subseteq asked'
  <2>1. \E v \in VMs, removed, ok \in BOOLEAN : TakeAway(v, removed, ok)
    <3>1. CASE ForceoffExisting(c)
      <4>1. PICK v \in VMs : v = RunsOver(c, existing_instances)[foNext[c]]
        BY <3>1 DEF ForceoffExisting, RunsOver, TypeInv, TypeOK, RCTypeOK, ControlTypeOK, Positioned,
             FoPositioned
      <4> QED  BY <3>1, <4>1 DEF ForceoffExisting, Outcomes
    <3>2. CASE ForceoffStarting(c)
      <4>1. PICK v \in VMs : v = RunsOver(c, starting_instances)[foNext[c]]
        BY <3>2 DEF ForceoffStarting, RunsOver, TypeInv, TypeOK, RCTypeOK, ControlTypeOK, Positioned,
             FoPositioned
      <4> QED  BY <3>2, <4>1 DEF ForceoffStarting, Outcomes
    <3> QED  BY <1>2, <3>1, <3>2
  <2>2. asked \subseteq asked'
    BY <1>2 DEF ForceoffExisting, ForceoffStarting
  <2> QED  BY <2>1, <2>2, TakeAwayDecays
<1>3. ASSUME NEW v \in VMs, ClusterStep(v) PROVE Decays /\ asked \subseteq asked'
  <2>1. asked' = asked
    BY <1>3 DEF ClusterStep, centerVars, historyVars
  <2> QED  BY <1>3, <2>1, EnvironmentDecays DEF ClusterStep
<1>4. CASE /\ ~ \E v \in VMs : ClusterStep(v)
           /\ ~ \E c \in Callers : ForceoffExisting(c) \/ ForceoffStarting(c)
  <2>1. UNCHANGED <<asked, cloud>>
    BY <1>4 DEF InfoStep, ToggleSleepMode, ForceoffRequest, KillBegin, KillHold, KillMove, Hold,
         ForceoffStep, ForceoffLoopEnd, ForceoffMoveExisting, ForceoffMoveStarting, MainStep,
         MainQuit, MainExit, clusterVars, centerVars, historyVars
  <2> QED  BY <1>1, <2>1 DEF Decays
<1> QED  BY <1>1, <1>2, <1>3, <1>4

-----------------------------------------------------------------------------

(* The nodes that are loaded are within the limit.                         *)
LEMMA InitLimited == Init => LimitInv
<1> SUFFICES ASSUME Init, SingleCore PROVE HandsApart /\ Limited
  BY InitSafe, InitFlags DEF LimitInv
<1> USE DEF Init, RCInit, CpInit, JpInit
<1>1. provision_waiting_list = <<>> /\ Pending = 0
  BY DEF SingleCore, Copies, Pending
<1>2. HandsApart
  BY EmptyList DEF HandsApart, Apart
<1>3. Counted = Loaded
  <2>1. \A v \in VMs : (cloud[v] \in Live <=> v \in Loaded) /\ ~In(v, starting_instances)
    BY EmptyList DEF Live
  <2> QED  BY <2>1, LoadedAssumption DEF Counted, InHands
<1>4. Room(Pending)
  <2>1. Cardinality(Loaded) \in Nat /\ Cardinality(Loaded) <= NumDynamic
    BY VMsAssumption, LoadedAssumption, FS_Subset, FS_CardinalityType
  <2> QED  BY <1>1, <1>3, <2>1 DEF Room
<1> QED  BY <1>1, <1>2, <1>4 DEF Limited

LEMMA NextLimited == LimitInv /\ [Next]_vars => LimitInv'
<1> SUFFICES ASSUME LimitInv, [Next]_vars PROVE LimitInv'
  OBVIOUS
<1>1. SafetyInv /\ SafetyInv' /\ FlagInv /\ FlagInv'
  BY NextSafe, NextFlags DEF LimitInv
<1> SUFFICES ASSUME SingleCore PROVE HandsApart' /\ Limited'
  BY <1>1 DEF LimitInv
<1>2. /\ TypeInv /\ Born /\ Remembered /\ AllDynamic /\ Flagged /\ HandsApart /\ Limited
      /\ "api" \notin Faults /\ Np = 1
  BY <1>1 DEF LimitInv, SafetyInv, FlagInv, SingleCore
<1>3. Pending' \in Int /\ available_number_of_nodes' \in Int /\ jpCount' \in Int
  <2>1. TypeInv'
    BY <1>1 DEF SafetyInv
  <2> QED  BY <2>1 DEF TypeInv, TypeOK, RCTypeOK, CpTypeOK, JpTypeOK, Pending
<1>4. CASE CloudPollerStep
  <2>1. CpStep /\ UNCHANGED <<jp, jpCount>>
    BY <1>4 DEF CloudPollerStep, jpVars
  <2> QED  BY <1>2, <1>3, <2>1, CloudPollerLimited
<1>5. CASE JobPollerStep
  <2>1. JpStep /\ UNCHANGED <<cp, cpTodo, ready, doomed, taken>>
    BY <1>5 DEF JobPollerStep, cpVars
  <2> QED  BY <1>2, <1>3, <2>1, JobPollerLimited
<1>6. CASE \/ InfoServerStep \/ MainStep
           \/ (\E c \in Callers : ForceoffBy(c)) \/ (\E v \in VMs : ClusterStep(v))
  <2>1. UNCHANGED <<cp, cpTodo, ready, doomed, taken, jp, jpCount>>
    BY <1>6 DEF InfoServerStep, MainStep, ForceoffBy, ClusterStep, cpVars, jpVars
  <2>2. InfoStep \/ MainStep \/ (\E c \in Callers : ForceoffStep(c)) \/ (\E v \in VMs : ClusterStep(v))
    BY <1>6 DEF InfoServerStep, ForceoffBy
  <2>3. ClusterTypeOK
    BY <1>2 DEF TypeInv, TypeOK, RCTypeOK
  <2> QED  BY <1>2, <1>3, <2>1, <2>2, <2>3, ControlDecays, OthersLimited
<1>7. CASE UNCHANGED vars
  <2>1. UNCHANGED <<cp, cpTodo, ready, doomed, taken, jp, jpCount, provision_waiting_list,
                    available_number_of_nodes, starting_instances, cloud, asked>>
    BY <1>7 DEF vars, cpVars, jpVars, clusterVars, centerVars, listVars, flagVars, fileVars, flagsButFile, historyVars
  <2> QED  BY <1>2, <1>3, <2>1, OthersLimited DEF Decays
<1> QED
  BY <1>4, <1>5, <1>6, <1>7 DEF Next

(* With one core per node and without static nodes, the node limit holds   *)
(* for any number of VMs and any limit, under every fault but a failing    *)
(* servers.get, whatever the operator does: the room the job poller has    *)
(* counted is still there when it orders, and each launch and each         *)
(* replacement uses up what it was ordered for.                            *)
THEOREM LimitKept == Spec => []WithinLimit
<1>1. LimitInv => WithinLimit
  <2> SUFFICES ASSUME LimitInv, SingleCore PROVE Cardinality(Kept) + Pending <= NumDynamic
    BY DEF WithinLimit, SingleCore
  <2>1. Kept \in SUBSET Counted
    BY DEF Kept, Counted
  <2>2. /\ Cardinality(Kept) \in Nat /\ Cardinality(Counted) \in Nat
        /\ Cardinality(Kept) <= Cardinality(Counted)
    BY <2>1, CountedSize
  <2>3. Cardinality(Counted) + Pending <= NumDynamic
    BY DEF LimitInv, Limited, Room
  <2>4. Pending \in Int
    BY DEF LimitInv, SafetyInv, TypeInv, TypeOK, RCTypeOK, CpTypeOK, Pending
  <2> QED  BY <2>2, <2>3, <2>4, NumDynamicAssumption
<1> QED  BY <1>1, InitLimited, NextLimited, PTL DEF Spec
=============================================================================
