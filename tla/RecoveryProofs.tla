---------------------------- MODULE RecoveryProofs ----------------------------
(***************************************************************************)
(* A restart puts the pieces together, for every set of VMs and wherever   *)
(* the crash came: every server that exists gets an owner again            *)
(* (ServersAdopted) and one only (OneOwnerAgain), and no node that Torque  *)
(* shows running a job is taken (RestartSparesJobs).  While the start-up   *)
(* works no thread exists, and the lists are what it has made of them so   *)
(* far; what it leaves is a state in which the invariants of the running   *)
(* daemon hold (SafetyInv, OwnerInv), and these carry on from there.       *)
(***************************************************************************)
EXTENDS Recovery, SafetyProofs, OwnerProofs

(* The threads do not exist yet.                                           *)
AtRest ==
    /\ cp = "launchBegin" /\ cpTodo = <<>> /\ ready = <<>> /\ doomed = <<>>
    /\ gone = <<>> /\ executing = <<>>
    /\ jp = "poll" /\ jpVm = {}
    /\ NoRequests
    /\ main = "boot" /\ cleaned = {}

Within(s, t) == Distinct(s) /\ \A v \in VMs : In(v, s) => In(v, t)

(* What the start-up has made of the lists so far: what it is going to     *)
(* destroy is still where it was found, and after the list of servers is   *)
(* there none is missing.                                                  *)
Reconciling ==
    /\ ListsOwned
    /\ su = "list" => existing_instances = <<>>
    /\ su \in {"list", "query"} => starting_instances = <<>> /\ deleting_instances = <<>>
    /\ su = "orphans" => Within(to_delete, existing_instances)
    /\ su = "trim" => Within(pool, existing_instances)
    /\ su \in {"query", "orphans", "trim"} /\ "api" \notin Faults =>
          \A v \in VMs : cloud[v] \in Live => Listed(v)

RecoveryInv ==
    /\ TypeInv /\ SuTypeOK
    /\ su = "done" => SafetyInv /\ OwnerInv
    /\ su # "done" => AtRest /\ Reconciling

(* A node no job can be put on any more.                                   *)
Unusable(v) == v \notin inTorque \/ v \in offline \/ cloud[v] \in Failed

(* Jobs are where they can be, and the start-up condemns no node that      *)
(* could still run one that Torque has shown.                              *)
Condemned ==
    /\ su = "query" =>
          \A v \in VMs : In(v, existing_instances) /\ ~vm[v].zone => Unusable(v)
    /\ su = "orphans" =>
          \A v \in VMs : In(v, to_delete) /\ worker_nodes[v] = "busy" => Unusable(v)

Joining == cp = "join" => cloud[Head(cpTodo)] \in HasBooted

NodesInv == RecoveryInv /\ ("down" \notin Faults => Placed /\ Joining /\ Condemned)

-----------------------------------------------------------------------------
(* Operators.                                                              *)

(* The members of a finite set, as a list: each once, and nothing else.    *)
LEMMA ListOfSet ==
    ASSUME NEW S \in SUBSET VMs, NEW s \in SetToSeqs(S)
    PROVE  s \in Seq(VMs) /\ Distinct(s) /\ \A x : In(x, s) <=> x \in S
<1>1. IsFiniteSet(S) /\ Cardinality(S) \in Nat
  BY VMsAssumption, FS_Subset, FS_CardinalityType
<1> DEFINE D == 1 .. Cardinality(S)
<1>2. /\ s \in [D -> S]
      /\ \A i, j \in D : i # j => s[i] # s[j]
  BY DEF SetToSeqs
<1>3. \A x \in S : \E i \in D : s[i] = x
  <2>1. s \in Injection(D, S)
    BY <1>2 DEF Injection, IsInjective
  <2>2. Cardinality(D) = Cardinality(S)
    BY <1>1, FS_Interval
  <2>3. s \in Surjection(D, S)
    BY <1>1, <2>1, <2>2, FS_Injection
  <2> QED  BY <2>3 DEF Surjection
<1>4. s \in Seq(VMs) /\ Len(s) = Cardinality(S)
  BY <1>1, <1>2
<1>5. Distinct(s)
  BY <1>2, <1>4 DEF Distinct
<1>6. \A x : In(x, s) <=> x \in S
  BY <1>2, <1>3, <1>4 DEF In
<1> QED  BY <1>4, <1>5, <1>6

(* What the verdict on the servers puts into a list.                       *)
LEMMA InListHas ==
    ASSUME NEW S \in SUBSET VMs, NEW s \in InList(S)
    PROVE  s \in Seq(VMs) /\ Distinct(s) /\ \A x : In(x, s) <=> x \in S /\ In(x, existing_instances)
<1> DEFINE T == {v \in S : In(v, existing_instances)}
<1>1. T \in SUBSET VMs /\ s \in SetToSeqs(T)
  BY DEF InList
<1>2. s \in Seq(VMs) /\ Distinct(s) /\ \A x : In(x, s) <=> x \in T
  BY <1>1, ListOfSet
<1> QED  BY <1>2

(* VM objects that the start-up makes.                                     *)
LEMMA FreshRecords == NewVM \in VMRecords /\ LoadedVM \in VMRecords
<1>1. NoTime \in NoTime .. TimeCap
  BY TimesAssumption DEF NoTime, TimeCap
<1>2. NewVM \in VMRecords
  BY <1>1 DEF NewVM, VMRecords
<1> QED  BY <1>2 DEF LoadedVM, VMRecords

(* list.pop takes the last entry.                                          *)
LEMMA PopIn ==
    ASSUME NEW s \in Seq(VMs), s # <<>>
    PROVE  /\ Last(s) \in VMs /\ In(Last(s), s)
           /\ Front(s) \in Seq(VMs)
           /\ Distinct(s) => /\ Distinct(Front(s))
                             /\ \A x : In(x, Front(s)) => In(x, s) /\ x # Last(s)
<1> DEFINE t == Front(s)
<1>1. Len(s) \in Nat \ {0} /\ Last(s) = s[Len(s)]
  BY EmptySeq DEF Last
<1>2. \A i \in 1 .. Len(s) - 1 : s[i] \in VMs
  BY <1>1
<1> HIDE DEF t
<1>3. /\ t \in Seq(VMs) /\ Len(t) = Len(s) - 1
      /\ \A i \in 1 .. Len(t) : t[i] = s[i]
  <2>1. /\ t \in Seq(VMs) /\ Len(t) = IF 1 <= Len(s) - 1 THEN Len(s) - 1 - 1 + 1 ELSE 0
        /\ \A i \in 1 .. Len(s) - 1 - 1 + 1 : t[i] = s[1 + i - 1]
    BY <1>1, <1>2, SubSeqProperties DEF t, Front
  <2>2. Len(t) = Len(s) - 1
    <3>1. \A n \in Nat \ {0} : (IF 1 <= n - 1 THEN n - 1 - 1 + 1 ELSE 0) = n - 1
      OBVIOUS
    <3> QED  BY <1>1, <2>1, <3>1, Zenon
  <2>3. ASSUME NEW i \in 1 .. Len(t) PROVE t[i] = s[i]
    <3>1. i \in 1 .. Len(s) - 1 - 1 + 1 /\ 1 + i - 1 = i
      BY <1>1, <2>2
    <3> QED  BY <2>1, <3>1
  <2> QED  BY <2>1, <2>2, <2>3
<1>4. Last(s) \in VMs /\ In(Last(s), s)
  BY <1>1 DEF In
<1>5. ASSUME Distinct(s)
      PROVE  Distinct(t) /\ \A x : In(x, t) => In(x, s) /\ x # Last(s)
  <2>1. 1 .. Len(t) \subseteq 1 .. Len(s) /\ Len(s) \in 1 .. Len(s) /\ Len(s) \notin 1 .. Len(t)
    BY <1>1, <1>3
  <2>2. Distinct(t)
    BY <1>3, <1>5, <2>1 DEF Distinct
  <2>3. \A i \in 1 .. Len(t) : t[i] # s[Len(s)]
    BY <1>3, <1>5, <2>1 DEF Distinct
  <2>4. \A x : In(x, t) => In(x, s) /\ x # Last(s)
    BY <1>1, <1>3, <2>1, <2>3 DEF In
  <2> QED  BY <2>2, <2>4
<1> QED  BY <1>3, <1>4, <1>5 DEF t

(* The start-up takes a node away and puts its VM among those that leave.  *)
LEMMA DestroyMoves ==
    ASSUME RCTypeOK, ListsOwned, NEW v \in VMs, In(v, existing_instances), Destroy(v),
           UNCHANGED starting_instances
    PROVE  /\ ClusterTypeOK' /\ vm' \in [VMs -> VMRecords] /\ asked' \subseteq VMs
           /\ existing_instances' \in Seq(VMs) /\ deleting_instances' \in Seq(VMs)
           /\ Decays /\ ListsOwned'
           /\ \A x \in VMs : In(x, existing_instances') <=> In(x, existing_instances) /\ x # v
           /\ \A x \in VMs : Listed(x) => Listed(x)'
<1> USE DEF RCTypeOK
<1>1. PICK ok \in BOOLEAN :
         TakeAway(v, FALSE, ok) /\ vm' = [vm EXCEPT ![v].delete_time = @ \/ ok]
  BY DEF Destroy, Outcomes
<1>2. ClusterTypeOK' /\ Decays
  BY <1>1, TakeAwayType, TakeAwayDecays
<1>3. vm' \in [VMs -> VMRecords]
  <2>1. vm[v].delete_time \/ ok \in BOOLEAN
    BY DEF VMRecords
  <2>2. [vm[v] EXCEPT !.delete_time = @ \/ ok] \in VMRecords
    BY <2>1, RecordTypes
  <2> QED  BY <1>1, <2>2
<1>4. asked' \subseteq VMs
  BY DEF Destroy
<1>5. /\ existing_instances' = RemoveFirst(existing_instances, v)
      /\ deleting_instances' = Append(deleting_instances, v)
  BY DEF Destroy
<1>6. /\ existing_instances' \in Seq(VMs) /\ deleting_instances' \in Seq(VMs)
  BY <1>5, RemoveFirstIn, AppendIn
<1>7. /\ Distinct(existing_instances') /\ Distinct(deleting_instances')
      /\ \A x : In(x, existing_instances') <=> In(x, existing_instances) /\ x # v
      /\ \A x : In(x, deleting_instances') <=> In(x, deleting_instances) \/ x = v
  BY <1>5, MoveDistinct DEF ListsOwned, Apart
<1>8. \A x \in VMs : Listed(x)' <=> Listed(x)
  BY <1>7 DEF Listed
<1>9. \A x \in VMs : cloud[x] # "none" => cloud'[x] # "none"
  BY <1>2 DEF Decays
<1>10. ListsOwned'
  <2>1. /\ Apart(existing_instances, starting_instances)'
        /\ Apart(existing_instances, deleting_instances)'
        /\ Apart(starting_instances, deleting_instances)'
    BY <1>7 DEF ListsOwned, Apart
  <2>2. Distinct(starting_instances')
    BY DEF ListsOwned
  <2>3. (\A x \in VMs : Listed(x) => cloud[x] # "none")'
    BY <1>8, <1>9 DEF ListsOwned
  <2> QED  BY <1>7, <2>1, <2>2, <2>3 DEF ListsOwned
<1> QED  BY <1>2, <1>3, <1>4, <1>6, <1>7, <1>8, <1>10

-----------------------------------------------------------------------------
(* The start-up.                                                           *)

(* Nothing that the threads own changes while the start-up works, and the  *)
(* fields it does not touch keep their types.                              *)
LEMMA NobodyRuns ==
    ASSUME TypeInv, AtRest,
           UNCHANGED <<cpVars, jpVars, controlVars, main, cleaned, lost, sleep_mode, num_of_vm,
                       fileVars, write_lock>>
    PROVE  /\ AtRest' /\ CpTypeOK' /\ JpTypeOK' /\ ControlTypeOK' /\ Positioned'
           /\ sleep_mode' \in BOOLEAN /\ num_of_vm' \in Nat /\ FileTypeOK'
           /\ write_lock' \in BOOLEAN /\ main' \in {"boot", "run", "forceoff", "join", "exited"}
           /\ cleaned' \subseteq VMs /\ lost' \subseteq VMs
<1> USE DEF cpVars, scanLocals, launchLocals, delLocals, jpVars, controlVars, foVars
<1>1. AtRest'
  BY DEF AtRest, NoRequests
<1>2. CpTypeOK' /\ JpTypeOK' /\ ControlTypeOK'
  BY DEF TypeInv, TypeOK, CpTypeOK, JpTypeOK, ControlTypeOK
<1>3. Positioned'
  BY DEF TypeInv, AtRest, Positioned, CpPositioned, FoPositioned, NoRequests
<1>4. FileTypeOK'
  BY DEF TypeInv, TypeOK, RCTypeOK, FileTypeOK, fileVars
<1> QED  BY <1>1, <1>2, <1>3, <1>4 DEF TypeInv, TypeOK, RCTypeOK

(* The list of servers: all that exist, unless the call fails.             *)
LEMMA ListServersReconciles ==
    ASSUME RCTypeOK, SuTypeOK, Reconciling, ListServers
    PROVE  /\ ClusterTypeOK' /\ vm' \in [VMs -> VMRecords] /\ existing_instances' \in Seq(VMs)
           /\ Reconciling'
           /\ \A v \in VMs : In(v, existing_instances') /\ ~vm'[v].zone
                                => cloud[v] \in {"build", "error", "deleting"}
<1> USE DEF ListServers
<1>1. PICK ok \in Outcomes("api") :
         LET found == {v \in VMs : ok /\ cloud[v] \in Live \cup {"deleting"}} IN
         /\ existing_instances' \in SetToSeqs(found)
         /\ vm' = [v \in VMs |-> IF v \in found /\ cloud[v] \in {"init", "ready"}
                                 THEN LoadedVM ELSE NewVM]
  OBVIOUS
<1> DEFINE found == {v \in VMs : ok /\ cloud[v] \in Live \cup {"deleting"}}
<1>2. /\ existing_instances' \in Seq(VMs) /\ Distinct(existing_instances')
      /\ \A x : In(x, existing_instances') <=> x \in found
  BY <1>1, ListOfSet
<1>3. vm' \in [VMs -> VMRecords]
  BY <1>1, FreshRecords
<1>4. ClusterTypeOK'
  BY DEF RCTypeOK, ClusterTypeOK, clusterVars
<1>5. starting_instances' = <<>> /\ deleting_instances' = <<>> /\ cloud' = cloud /\ su' = "query"
  BY DEF Reconciling, clusterVars
<1>6. \A v \in VMs : Listed(v)' <=> v \in found
  BY <1>2, <1>5, EmptyList DEF Listed
<1>7. ListsOwned'
  BY <1>2, <1>5, <1>6, EmptyList DEF ListsOwned, Apart, Live
<1>8. "api" \notin Faults => \A v \in VMs : cloud'[v] \in Live => Listed(v)'
  BY <1>1, <1>5, <1>6 DEF Outcomes
<1>9. Reconciling'
  BY <1>5, <1>7, <1>8 DEF Reconciling
<1>10. \A v \in VMs : In(v, existing_instances') /\ ~vm'[v].zone
                         => cloud[v] \in {"build", "error", "deleting"}
  BY <1>1, <1>2 DEF Live, LoadedVM, NewVM
<1> QED  BY <1>2, <1>3, <1>4, <1>9, <1>10

(* The verdict on every server: what is to be joined again goes to the     *)
(* starting ones, and is not among those to destroy.                       *)
LEMMA QueryNodesReconciles ==
    ASSUME RCTypeOK, SuTypeOK, Reconciling, QueryNodes
    PROVE  /\ ClusterTypeOK' /\ worker_nodes' \in [VMs -> Views]
           /\ existing_instances' \in Seq(VMs) /\ starting_instances' \in Seq(VMs)
           /\ to_delete' \in Seq(VMs) /\ orphans' \subseteq VMs
           /\ Reconciling'
<1>1. PICK nodes \in {inTorque, {}} :
         /\ worker_nodes' = Snapshot(nodes)
         /\ to_delete' \in InList({v \in VMs : Rejected(v, nodes)})
         /\ starting_instances' \in InList({v \in VMs : Rejoins(v, nodes)})
         /\ existing_instances' \in InList({v \in VMs : ~Rejoins(v, nodes)})
         /\ orphans' = {v \in nodes : Halted(v) /\ ~In(v, existing_instances)}
  BY DEF QueryNodes, Outcomes
<1>2. /\ to_delete' \in Seq(VMs) /\ Distinct(to_delete')
      /\ \A x : In(x, to_delete') <=>
               x \in {v \in VMs : Rejected(v, nodes)} /\ In(x, existing_instances)
  BY <1>1, InListHas
<1>3. /\ starting_instances' \in Seq(VMs) /\ Distinct(starting_instances')
      /\ \A x : In(x, starting_instances') <=>
               x \in {v \in VMs : Rejoins(v, nodes)} /\ In(x, existing_instances)
  BY <1>1, InListHas
<1>4. /\ existing_instances' \in Seq(VMs) /\ Distinct(existing_instances')
      /\ \A x : In(x, existing_instances') <=>
               x \in {v \in VMs : ~Rejoins(v, nodes)} /\ In(x, existing_instances)
  BY <1>1, InListHas
<1>5. worker_nodes' \in [VMs -> Views]
  BY <1>1, SnapshotType
<1>6. orphans' \subseteq VMs
  BY <1>1 DEF RCTypeOK, ClusterTypeOK
<1>7. ClusterTypeOK'
  BY DEF QueryNodes, RCTypeOK, ClusterTypeOK, clusterVars
<1>8. /\ starting_instances = <<>> /\ deleting_instances = <<>> /\ deleting_instances' = <<>>
      /\ cloud' = cloud /\ su = "query" /\ su' = "orphans"
  BY DEF QueryNodes, Reconciling, clusterVars
<1>9. \A v \in VMs : Listed(v)' <=> Listed(v)
  BY <1>3, <1>4, <1>8, EmptyList DEF Listed
<1>10. ListsOwned'
  <2>1. Distinct(existing_instances') /\ Distinct(starting_instances') /\ Distinct(deleting_instances')
    BY <1>3, <1>4, <1>8, EmptyList
  <2>2. /\ Apart(existing_instances, starting_instances)'
        /\ Apart(existing_instances, deleting_instances)'
        /\ Apart(starting_instances, deleting_instances)'
    BY <1>3, <1>4, <1>8, EmptyList DEF Apart
  <2>3. \A v \in VMs : Listed(v)' => cloud'[v] # "none"
    BY <1>8, <1>9 DEF Reconciling, ListsOwned
  <2> QED  BY <2>1, <2>2, <2>3 DEF ListsOwned
<1>11. \A v \in VMs : Rejected(v, nodes) => ~Rejoins(v, nodes)
  BY DEF Rejected, Rejoins
<1>12. Within(to_delete, existing_instances)'
  BY <1>2, <1>4, <1>11 DEF Within
<1>13. "api" \notin Faults => \A v \in VMs : cloud'[v] \in Live => Listed(v)'
  BY <1>8, <1>9 DEF Reconciling
<1>14. Reconciling'
  BY <1>8, <1>10, <1>12, <1>13 DEF Reconciling
<1> QED  BY <1>2, <1>3, <1>4, <1>5, <1>6, <1>7, <1>14

(* The steps that take nodes away one by one.                              *)
LEMMA TakingReconciles ==
    ASSUME RCTypeOK, SuTypeOK, Reconciling, su # "done",
           (\E v \in VMs : RemoveOrphan(v)) \/ Dismiss \/ Trim
    PROVE  /\ ClusterTypeOK' /\ vm' \in [VMs -> VMRecords] /\ worker_nodes' \in [VMs -> Views]
           /\ existing_instances' \in Seq(VMs) /\ deleting_instances' \in Seq(VMs)
           /\ asked' \subseteq VMs /\ SuTypeOK' /\ Reconciling' /\ su' = su
<1> USE DEF RCTypeOK, SuTypeOK
<1>1. ASSUME NEW v \in VMs, RemoveOrphan(v)
      PROVE  /\ ClusterTypeOK' /\ worker_nodes' \in [VMs -> Views] /\ SuTypeOK' /\ Reconciling'
             /\ su' = su /\ UNCHANGED <<vm, listVars, asked>>
  <2>1. PICK removed \in BOOLEAN : TakeAway(v, removed, FALSE)
    BY <1>1 DEF RemoveOrphan, Outcomes
  <2>2. ClusterTypeOK' /\ Decays
    BY <2>1, TakeAwayType, TakeAwayDecays
  <2>3. worker_nodes' \in [VMs -> Views]
    BY <1>1 DEF RemoveOrphan, Views
  <2>4. UNCHANGED <<vm, listVars, asked, su, to_delete, pool>> /\ orphans' \subseteq orphans
    BY <1>1 DEF RemoveOrphan
  <2>5. UNCHANGED <<existing_instances, starting_instances, deleting_instances>>
    BY <2>4 DEF listVars
  <2>6. ListsOwned'
    BY <2>2, <2>5, ListsFrame DEF Reconciling, Decays
  <2>7. Reconciling'
    BY <2>2, <2>4, <2>5, <2>6 DEF Reconciling, Listed, Decays
  <2> QED  BY <2>2, <2>3, <2>4, <2>7
<1> DEFINE Taken == /\ ClusterTypeOK' /\ vm' \in [VMs -> VMRecords] /\ asked' \subseteq VMs
                    /\ existing_instances' \in Seq(VMs) /\ deleting_instances' \in Seq(VMs)
<1>2. ASSUME Dismiss
      PROVE  Taken /\ SuTypeOK' /\ Reconciling' /\ UNCHANGED <<worker_nodes, su>>
  <2> DEFINE v == Head(to_delete)
  <2>1. /\ su = "orphans" /\ to_delete # <<>> /\ Destroy(v) /\ to_delete' = Tail(to_delete)
        /\ UNCHANGED <<starting_instances, worker_nodes, su, orphans, pool>>
    BY <1>2 DEF Dismiss
  <2>2. Within(to_delete, existing_instances) /\ ListsOwned
    BY <2>1 DEF Reconciling
  <2>3. v \in VMs /\ In(v, existing_instances) /\ to_delete' \in Seq(VMs)
    BY <2>1, <2>2, TailIn DEF Within
  <2>4. /\ Taken /\ Decays /\ ListsOwned'
        /\ \A x \in VMs : In(x, existing_instances') <=> In(x, existing_instances) /\ x # v
        /\ \A x \in VMs : Listed(x) => Listed(x)'
    BY <2>1, <2>2, <2>3, DestroyMoves
  <2>5. Within(to_delete, existing_instances)'
    BY <2>1, <2>2, <2>4, TailDistinct DEF Within
  <2>6. Reconciling'
    BY <2>1, <2>4, <2>5 DEF Reconciling, Decays
  <2> QED  BY <2>1, <2>3, <2>4, <2>6
<1>3. ASSUME Trim
      PROVE  Taken /\ SuTypeOK' /\ Reconciling' /\ UNCHANGED <<worker_nodes, su>>
  <2> DEFINE v == Last(pool)
  <2>1. /\ su = "trim" /\ pool # <<>> /\ Destroy(v) /\ pool' = Front(pool)
        /\ UNCHANGED <<starting_instances, worker_nodes, su, to_delete, orphans>>
    BY <1>3 DEF Trim
  <2>2. Within(pool, existing_instances) /\ ListsOwned
    BY <2>1 DEF Reconciling
  <2>3. v \in VMs /\ In(v, existing_instances) /\ pool' \in Seq(VMs)
    BY <2>1, <2>2, PopIn DEF Within
  <2>4. /\ Taken /\ Decays /\ ListsOwned'
        /\ \A x \in VMs : In(x, existing_instances') <=> In(x, existing_instances) /\ x # v
        /\ \A x \in VMs : Listed(x) => Listed(x)'
    BY <2>1, <2>2, <2>3, DestroyMoves
  <2>5. Within(pool, existing_instances)'
    BY <2>1, <2>2, <2>4, PopIn DEF Within
  <2>6. Reconciling'
    BY <2>1, <2>4, <2>5 DEF Reconciling, Decays
  <2> QED  BY <2>1, <2>3, <2>4, <2>6
<1>4. ASSUME NEW v \in VMs, RemoveOrphan(v)
      PROVE  Taken
  BY <1>1, <1>4 DEF listVars
<1> QED  BY <1>1, <1>2, <1>3, <1>4

(* A start-up that is through leaves the daemon in a state of its          *)
(* invariants.                                                             *)
LEMMA HandedOver ==
    ASSUME TypeInv, TypeInv', AtRest, Reconciling, su = "trim",
           UNCHANGED <<clusterVars, listVars, asked, main, cleaned, cpVars, jpVars, controlVars>>
    PROVE  SafetyInv' /\ OwnerInv'
<1>1. UNCHANGED <<cloud, inTorque, existing_instances, starting_instances, deleting_instances,
                  asked, main, cleaned, cp, cpTodo, ready, doomed, cursor, gone, executing, jp, jpVm,
                  killing, fo>>
  BY DEF clusterVars, listVars, cpVars, scanLocals, launchLocals, delLocals, jpVars, controlVars, foVars
<1>2. ASSUME "api" \notin Faults PROVE Born' /\ Graves' /\ Remembered'
  <2>1. Born
    BY EmptyList DEF AtRest, NoRequests, Reconciling, ListsOwned, Born, Known
  <2>2. Graves
    BY EmptyList DEF AtRest, Graves
  <2>3. Remembered
    BY <1>2 DEF AtRest, Reconciling, Remembered
  <2> QED  BY <1>1, <2>1, <2>2, <2>3, QuietSafe, SameCloudDecays
<1>3. StartingHeld' /\ DeletingHeld'
  BY <1>1, NothingStarting, NothingDeleting DEF AtRest
<1>4. ListsOwned'
  BY <1>1, ListsFrame DEF Reconciling
<1>5. NodeHeld' /\ NoRequests' /\ cp' # "dead" /\ jp' # "dead" /\ main' \in {"boot", "run"}
  BY <1>1 DEF AtRest, NodeHeld, NoRequests
<1> QED  BY <1>2, <1>3, <1>4, <1>5 DEF SafetyInv, OwnerInv, Owned

(* Every step of the start-up keeps the invariant.                         *)
LEMMA LoadingRecovers == RecoveryInv /\ Loading => RecoveryInv'
<1> SUFFICES ASSUME RecoveryInv, Loading PROVE RecoveryInv'
  OBVIOUS
<1> USE DEF suKeep
<1>1. su # "done"
  BY DEF Loading, StartUpStep, ListServers, QueryNodes, RemoveOrphan, Dismiss, Statics, PassOver,
       Trim, PopFails, Finish
<1>2. TypeInv /\ RCTypeOK /\ SuTypeOK /\ AtRest /\ Reconciling
  BY <1>1 DEF RecoveryInv, TypeInv, TypeOK
<1>3. UNCHANGED <<cpVars, jpVars, controlVars>>
  BY DEF Loading
<1>4. UNCHANGED <<main, cleaned, lost, sleep_mode, num_of_vm, fileVars, write_lock>>
  BY DEF Loading, StartUpStep, ListServers, QueryNodes, RemoveOrphan, Dismiss, Statics, PassOver,
       Trim, PopFails, Finish, centerVars, flagVars, historyVars
<1>5. /\ AtRest' /\ CpTypeOK' /\ JpTypeOK' /\ ControlTypeOK' /\ Positioned'
      /\ sleep_mode' \in BOOLEAN /\ num_of_vm' \in Nat /\ FileTypeOK'
      /\ write_lock' \in BOOLEAN /\ main' \in {"boot", "run", "forceoff", "join", "exited"}
      /\ cleaned' \subseteq VMs /\ lost' \subseteq VMs
  BY <1>2, <1>3, <1>4, NobodyRuns
<1>6. ASSUME RCTypeOK', SuTypeOK', Reconciling', su' # "done" PROVE RecoveryInv'
  BY <1>5, <1>6 DEF RecoveryInv, TypeInv, TypeOK
<1>7. CASE ListServers
  <2>1. /\ ClusterTypeOK' /\ vm' \in [VMs -> VMRecords] /\ existing_instances' \in Seq(VMs)
        /\ Reconciling'
    BY <1>2, <1>7, ListServersReconciles
  <2>2. /\ su' = "query"
        /\ UNCHANGED <<starting_instances, deleting_instances, provision_waiting_list, provisioning,
                       worker_nodes, available_number_of_nodes, asked, to_delete, orphans, pool>>
    BY <1>7 DEF ListServers
  <2>3. RCTypeOK'
    BY <1>2, <1>5, <2>1, <2>2, ZenonT(40) DEF RCTypeOK, FileTypeOK
  <2>4. SuTypeOK'
    BY <1>2, <2>2 DEF SuTypeOK, SuStates
  <2> QED  BY <1>6, <2>1, <2>2, <2>3, <2>4
<1>8. CASE QueryNodes
  <2>1. /\ ClusterTypeOK' /\ worker_nodes' \in [VMs -> Views]
        /\ existing_instances' \in Seq(VMs) /\ starting_instances' \in Seq(VMs)
        /\ to_delete' \in Seq(VMs) /\ orphans' \subseteq VMs
        /\ Reconciling'
    BY <1>2, <1>8, QueryNodesReconciles
  <2>2. /\ su' = "orphans"
        /\ UNCHANGED <<vm, deleting_instances, provision_waiting_list, provisioning,
                       available_number_of_nodes, asked, pool>>
    BY <1>8 DEF QueryNodes
  <2>3. RCTypeOK'
    BY <1>2, <1>5, <2>1, <2>2, ZenonT(40) DEF RCTypeOK, FileTypeOK
  <2>4. SuTypeOK'
    BY <1>2, <2>1, <2>2 DEF SuTypeOK, SuStates
  <2> QED  BY <1>6, <2>1, <2>2, <2>3, <2>4
<1>9. CASE (\E v \in VMs : RemoveOrphan(v)) \/ Dismiss \/ Trim
  <2>1. /\ ClusterTypeOK' /\ vm' \in [VMs -> VMRecords] /\ worker_nodes' \in [VMs -> Views]
        /\ existing_instances' \in Seq(VMs) /\ deleting_instances' \in Seq(VMs)
        /\ asked' \subseteq VMs /\ SuTypeOK' /\ Reconciling' /\ su' = su
    BY <1>1, <1>2, <1>9, TakingReconciles
  <2>2. UNCHANGED <<starting_instances, provision_waiting_list, provisioning,
                    available_number_of_nodes>>
    BY <1>9 DEF RemoveOrphan, Dismiss, Trim, listVars
  <2>3. RCTypeOK'
    BY <1>2, <1>5, <2>1, <2>2, ZenonT(40) DEF RCTypeOK, FileTypeOK
  <2> QED  BY <1>1, <1>6, <2>1, <2>3
<1>10. CASE Statics \/ PassOver \/ PopFails
  <2>1. UNCHANGED <<clusterVars, vm, listVars, provision_waiting_list, provisioning, worker_nodes,
                    available_number_of_nodes, asked, to_delete, orphans>>
    BY <1>10 DEF Statics, PassOver, PopFails, centerVars, flagVars, historyVars
  <2>2. /\ su' \in {"trim", "failed"} /\ su \in {"orphans", "trim"}
        /\ su' = "trim" =>
             pool' = existing_instances
             \/ (su = "trim" /\ pool \in Seq(VMs) /\ pool # <<>> /\ pool' = Front(pool))
    BY <1>2, <1>10 DEF Statics, PassOver, PopFails, SuTypeOK
  <2>3. pool' \in Seq(VMs)
    <3>1. CASE Statics
      BY <1>2, <3>1 DEF Statics, RCTypeOK
    <3>2. CASE PassOver
      BY <1>2, <3>2, PopIn DEF PassOver, SuTypeOK
    <3>3. CASE PopFails
      BY <1>2, <3>3 DEF PopFails, SuTypeOK
    <3> QED  BY <1>10, <3>1, <3>2, <3>3
  <2>4. RCTypeOK'
    BY <1>2, <1>5, <2>1, ZenonT(40) DEF RCTypeOK, FileTypeOK, ClusterTypeOK, clusterVars, listVars
  <2>5. SuTypeOK'
    BY <1>2, <2>1, <2>2, <2>3 DEF SuTypeOK, SuStates
  <2>6. UNCHANGED <<cloud, existing_instances, starting_instances, deleting_instances>>
    BY <2>1 DEF clusterVars, listVars
  <2>7. ListsOwned'
    BY <1>2, <2>6, ListsFrame DEF Reconciling
  <2>8. su' = "trim" => Within(pool, existing_instances)'
    <3>1. CASE pool' = existing_instances
      BY <1>2, <2>6, <3>1 DEF Reconciling, ListsOwned, Within
    <3>2. CASE su = "trim" /\ pool \in Seq(VMs) /\ pool # <<>> /\ pool' = Front(pool)
      BY <1>2, <2>6, <3>2, PopIn DEF Reconciling, Within
    <3> QED  BY <2>2, <3>1, <3>2
  <2>9. Reconciling'
    BY <1>2, <2>2, <2>6, <2>7, <2>8 DEF Reconciling, Listed
  <2> QED  BY <1>6, <2>2, <2>4, <2>5, <2>9
<1>11. CASE Finish
  <2>1. /\ su = "trim" /\ su' = "done" /\ pool' = <<>>
        /\ UNCHANGED <<clusterVars, vm, listVars, worker_nodes, asked, to_delete, orphans>>
        /\ provisioning' \in BOOLEAN
    BY <1>11 DEF Finish
  <2>2. provision_waiting_list' \in Seq(Requests)
    BY <1>2, <1>11, CopiesType DEF Finish, RCTypeOK, Requests
  <2>3. available_number_of_nodes' \in Int
    BY <1>2, <1>11, DynamicCounts, NumDynamicAssumption DEF Finish, RCTypeOK
  <2>4. RCTypeOK'
    BY <1>2, <1>5, <2>1, <2>2, <2>3, ZenonT(40) DEF RCTypeOK, FileTypeOK, ClusterTypeOK, clusterVars, listVars
  <2>5. TypeInv'
    BY <1>5, <2>4 DEF TypeInv, TypeOK
  <2>6. SuTypeOK'
    BY <1>2, <2>1 DEF SuTypeOK, SuStates
  <2>7. SafetyInv' /\ OwnerInv'
    BY <1>2, <1>3, <1>4, <2>1, <2>5, HandedOver
  <2> QED  BY <2>1, <2>5, <2>6, <2>7 DEF RecoveryInv
<1> QED  BY <1>7, <1>8, <1>9, <1>10, <1>11 DEF Loading, StartUpStep

(* So does what the cloud and Torque do meanwhile.                         *)
LEMMA OutsideRecovers == RecoveryInv /\ Outside => RecoveryInv'
<1> SUFFICES ASSUME RecoveryInv, Outside PROVE RecoveryInv'
  OBVIOUS
<1>1. su # "done" /\ UNCHANGED suVars
  BY DEF Outside
<1>2. TypeInv /\ SuTypeOK /\ AtRest /\ Reconciling
  BY <1>1 DEF RecoveryInv
<1>3. PICK v \in VMs : Environment(v) /\ UNCHANGED <<centerVars, cpVars, jpVars, controlVars>>
  BY DEF Outside, ClusterStep
<1>4. ClusterTypeOK' /\ Decays
  BY <1>2, <1>3, EnvironmentTypes, EnvironmentDecays DEF TypeInv, TypeOK, RCTypeOK
<1>5. UNCHANGED <<vm, existing_instances, starting_instances, deleting_instances,
                  provision_waiting_list, provisioning, worker_nodes, available_number_of_nodes, asked,
                  main, cleaned, lost, sleep_mode, num_of_vm, fileVars, write_lock>>
  BY <1>3 DEF centerVars, listVars, flagVars, historyVars
<1>6. /\ AtRest' /\ CpTypeOK' /\ JpTypeOK' /\ ControlTypeOK' /\ Positioned'
      /\ sleep_mode' \in BOOLEAN /\ num_of_vm' \in Nat /\ FileTypeOK'
      /\ write_lock' \in BOOLEAN /\ main' \in {"boot", "run", "forceoff", "join", "exited"}
      /\ cleaned' \subseteq VMs /\ lost' \subseteq VMs
  BY <1>2, <1>3, <1>5, NobodyRuns
<1>7. TypeInv'
  <2>1. RCTypeOK'
    BY <1>2, <1>4, <1>5, <1>6 DEF TypeInv, TypeOK, RCTypeOK, FileTypeOK
  <2> QED  BY <1>6, <2>1 DEF TypeInv, TypeOK
<1>8. SuTypeOK'
  BY <1>1, <1>2 DEF SuTypeOK, suVars
<1>9. ListsOwned'
  BY <1>2, <1>4, <1>5, ListsFrame DEF Reconciling, Decays
<1>10. Reconciling'
  BY <1>1, <1>2, <1>4, <1>5, <1>9 DEF Reconciling, Listed, Decays, suVars
<1> QED  BY <1>1, <1>6, <1>7, <1>8, <1>10 DEF RecoveryInv, suVars

(* A crash and the next start.                                             *)
LEMMA RestartRecovers == RecoveryInv /\ Restart => RecoveryInv'
<1> SUFFICES ASSUME RecoveryInv, Restart PROVE RecoveryInv'
  OBVIOUS
<1>1. TypeInv
  BY DEF RecoveryInv
<1> USE DEF Restart
<1>2. ClusterTypeOK'
  BY <1>1 DEF TypeInv, TypeOK, RCTypeOK, ClusterTypeOK, clusterVars
<1>3. vm' \in [VMs -> VMRecords]
  BY FreshRecords
<1>4. FileTypeOK'
  BY <1>1 DEF TypeInv, TypeOK, RCTypeOK, FileTypeOK, Writers
<1>5. RCTypeOK'
  <2>1. worker_nodes' \in [VMs -> Views] /\ available_number_of_nodes' \in Int /\ num_of_vm' \in Nat
    BY SnapshotType, NumDynamicAssumption, StaticAssumption
  <2>2. /\ existing_instances' \in Seq(VMs) /\ starting_instances' \in Seq(VMs)
        /\ deleting_instances' \in Seq(VMs) /\ provision_waiting_list' \in Seq(Requests)
    OBVIOUS
  <2>3. /\ provisioning' \in BOOLEAN /\ sleep_mode' \in BOOLEAN /\ write_lock' \in BOOLEAN
        /\ main' \in {"boot", "run", "forceoff", "join", "exited"}
        /\ asked' \subseteq VMs /\ cleaned' \subseteq VMs /\ lost' \subseteq VMs
    OBVIOUS
  <2> HIDE DEF Restart
  <2> QED  BY <1>2, <1>3, <1>4, <2>1, <2>2, <2>3 DEF RCTypeOK, FileTypeOK
<1>6. CpTypeOK' /\ CpPositioned'
  <2>1. cp' = "launchBegin"
    OBVIOUS
  <2>2. /\ cpTodo' = <<>> /\ ready' = <<>> /\ doomed' = <<>> /\ gone' = <<>>
        /\ executing' = <<>> /\ budget' = 0 /\ taken' = 0 /\ cursor' = 0
        /\ after' = "poll" /\ todoDel' = "none" /\ dump' \in BOOLEAN
    OBVIOUS
  <2>3. cp' \in CpStates
    BY <2>1 DEF CpStates
  <2> HIDE DEF Restart
  <2>4. CpTypeOK'
    BY <2>2, <2>3 DEF CpTypeOK
  <2> QED  BY <2>1, <2>4 DEF CpPositioned
<1>7. JpTypeOK' /\ ControlTypeOK' /\ FoPositioned'
  BY SnapshotType DEF JpTypeOK, JpStates, ControlTypeOK, FoStates, FoPositioned
<1>8. SuTypeOK' /\ su' = "list"
  BY DEF SuTypeOK, SuStates
<1>9. AtRest'
  BY DEF AtRest, NoRequests
<1>10. ListsOwned'
  BY EmptyList DEF ListsOwned, Apart, Listed
<1>11. Reconciling'
  BY <1>10 DEF Reconciling
<1> QED  BY <1>5, <1>6, <1>7, <1>8, <1>9, <1>11 DEF RecoveryInv, TypeInv, TypeOK, Positioned

-----------------------------------------------------------------------------
(* The daemon with crashes.                                                *)
LEMMA InitRecovers == RecoveryInit => RecoveryInv
<1> SUFFICES ASSUME RecoveryInit PROVE RecoveryInv
  OBVIOUS
<1> USE DEF RecoveryInit, CpInit, JpInit, ControlInit
<1>1. ClusterTypeOK /\ FileTypeOK
  <2>1. ClusterTypeOK /\ persistent_nodes \subseteq VMs
    BY NpAssumption DEF ClusterTypeOK, CloudStates
  <2>2. content \in [Writers -> SUBSET VMs] /\ dumpAt \in [Writers -> Nat] /\ torn \subseteq Writers
    OBVIOUS
  <2> QED  BY <2>1, <2>2 DEF FileTypeOK
<1>2. vm \in [VMs -> VMRecords]
  BY FreshRecords
<1>3. RCTypeOK
  <2>1. worker_nodes \in [VMs -> Views] /\ available_number_of_nodes \in Int /\ num_of_vm \in Nat
    <3>1. worker_nodes = NoNodes /\ available_number_of_nodes = NumDynamic /\ num_of_vm = StaticWanted
      BY Zenon
    <3> HIDE DEF RecoveryInit
    <3> QED  BY <3>1, SnapshotType, NumDynamicAssumption, StaticAssumption
  <2>2. /\ existing_instances \in Seq(VMs) /\ starting_instances \in Seq(VMs)
        /\ deleting_instances \in Seq(VMs) /\ provision_waiting_list \in Seq(Requests)
    OBVIOUS
  <2>3. /\ provisioning \in BOOLEAN /\ sleep_mode \in BOOLEAN /\ write_lock \in BOOLEAN
        /\ main \in {"boot", "run", "forceoff", "join", "exited"}
        /\ asked \subseteq VMs /\ cleaned \subseteq VMs /\ lost \subseteq VMs
    OBVIOUS
  <2> HIDE DEF RecoveryInit
  <2> QED  BY <1>1, <1>2, <2>1, <2>2, <2>3 DEF RCTypeOK, FileTypeOK
<1>4. CpTypeOK /\ CpPositioned
  <2>1. cp = "launchBegin"
    OBVIOUS
  <2>2. /\ cpTodo = <<>> /\ ready = <<>> /\ doomed = <<>> /\ gone = <<>>
        /\ executing = <<>> /\ budget = 0 /\ taken = 0 /\ cursor = 0
        /\ after = "poll" /\ todoDel = "none" /\ dump \in BOOLEAN
    OBVIOUS
  <2>3. cp \in CpStates
    BY <2>1 DEF CpStates
  <2> HIDE DEF RecoveryInit, CpInit
  <2>4. CpTypeOK
    BY <2>2, <2>3 DEF CpTypeOK
  <2> QED  BY <2>1, <2>4 DEF CpPositioned
<1>5. JpTypeOK /\ ControlTypeOK /\ FoPositioned
  BY SnapshotType DEF JpTypeOK, JpStates, ControlTypeOK, FoStates, FoPositioned
<1>6. SuTypeOK /\ su = "list"
  BY DEF SuTypeOK, SuStates
<1>7. AtRest
  BY DEF AtRest, NoRequests
<1>8. ListsOwned
  BY EmptyList DEF ListsOwned, Apart, Listed
<1>9. Reconciling
  BY <1>6, <1>8 DEF Reconciling
<1> QED  BY <1>3, <1>4, <1>5, <1>6, <1>7, <1>9 DEF RecoveryInv, TypeInv, TypeOK, Positioned

LEMMA NextRecovers == RecoveryInv /\ [RecoveryNext]_recoveryVars => RecoveryInv'
<1> SUFFICES ASSUME RecoveryInv, [RecoveryNext]_recoveryVars PROVE RecoveryInv'
  OBVIOUS
<1>1. CASE Running \/ UNCHANGED recoveryVars
  <2>1. [Next]_vars /\ UNCHANGED suVars
    BY <1>1 DEF Running, recoveryVars
  <2>2. TypeInv' /\ SuTypeOK'
    BY <2>1, NextTypes DEF RecoveryInv, SuTypeOK, suVars
  <2>3. CASE su = "done"
    BY <2>1, <2>2, <2>3, NextSafe, NextOwned DEF RecoveryInv, suVars
  <2>4. CASE su # "done"
    <3>1. UNCHANGED vars
      BY <1>1, <2>4 DEF Running, recoveryVars
    <3>2. AtRest'
      BY <2>4, <3>1 DEF RecoveryInv, AtRest, NoRequests, vars, centerVars, flagVars, fileVars, flagsButFile, historyVars,
           cpVars, scanLocals, delLocals, jpVars, controlVars, foVars
    <3>3. UNCHANGED <<cloud, existing_instances, starting_instances, deleting_instances>>
      BY <3>1 DEF vars, clusterVars, centerVars, listVars
    <3>4. ListsOwned'
      BY <2>4, <3>3, ListsFrame DEF RecoveryInv, Reconciling
    <3>5. Reconciling'
      BY <2>1, <2>4, <3>3, <3>4 DEF RecoveryInv, Reconciling, Listed, suVars
    <3> QED  BY <2>1, <2>2, <2>4, <3>2, <3>5 DEF RecoveryInv, suVars
  <2> QED  BY <2>3, <2>4
<1> QED  BY <1>1, LoadingRecovers, OutsideRecovers, RestartRecovers DEF RecoveryNext

(* Wherever the crash came, once the start-up is through every server that *)
(* exists is in a list or has been asked for, for any number of servers    *)
(* and every fault but a failing servers.get.                              *)
THEOREM ServersAlwaysAdopted == RecoverySpec => []ServersAdopted
<1>1. RecoveryInv => ServersAdopted
  BY DEF RecoveryInv, SafetyInv, Remembered, ServersAdopted, NoVmForgotten
<1> QED  BY <1>1, InitRecovers, NextRecovers, PTL DEF RecoverySpec

(* A restart gives no VM two owners, and the running daemon, undisturbed,  *)
(* goes on giving it one, under every fault of the cloud and of Torque     *)
(* whose exception is caught.                                              *)
THEOREM OneOwnerAfterRestart == RecoverySpec => []OneOwnerAgain
<1>1. OwnerInv => OneOwner
  BY OwnedOnce
<1>2. RecoveryInv => OneOwnerAgain
  BY <1>1 DEF RecoveryInv, OneOwnerAgain
<1> QED  BY <1>2, InitRecovers, NextRecovers, PTL DEF RecoverySpec

-----------------------------------------------------------------------------
(***************************************************************************)
(* The start-up takes no node with a job that Torque has shown, unless     *)
(* nodes go down and come back.  Between the answer of pbsnodes and the    *)
(* destruction jobs start and end; a node that was condemned although it   *)
(* was shown with a job is held, failed or unknown to Torque, and stays    *)
(* so, whatever the job poller has not yet looked at.                      *)
(***************************************************************************)

(* No node comes back into use while the start-up works.                   *)
Spoils == \A v \in VMs : Unusable(v) => Unusable(v)'

LEMMA TakeAwaySpoils ==
    ASSUME ClusterTypeOK, NEW v \in VMs, NEW removed, NEW destroyed, TakeAway(v, removed, destroyed)
    PROVE  Spoils
<1>1. \A u \in VMs : cloud'[u] = cloud[u] \/ cloud'[u] = "deleting"
  BY DEF TakeAway, ClusterTypeOK
<1>2. \/ UNCHANGED <<inTorque, offline>>
      \/ inTorque' = inTorque \ {v} /\ offline' = offline \ {v}
  BY DEF TakeAway
<1> QED  BY <1>1, <1>2 DEF Spoils, Unusable, Failed

LEMMA EnvironmentSpoils ==
    ASSUME ClusterTypeOK, "down" \notin Faults, NEW v \in VMs, Environment(v)
    PROVE  Spoils
<1>1. CASE Progress(v) \/ Fail(v) \/ Vanish(v)
  BY <1>1 DEF Progress, Fail, Vanish, MoveServer, ClusterTypeOK, Spoils, Unusable, Failed, Live
<1>2. CASE TimePasses(v) \/ JobStart(v) \/ JobEnd(v)
  BY <1>2 DEF TimePasses, JobStart, JobEnd, Spoils, Unusable
<1>3. ~GoDown(v)
  BY DEF GoDown
<1> QED  BY <1>1, <1>2, <1>3 DEF Environment

(* The VM that is being joined has booted, and stays so.                   *)
LEMMA JoiningFrame ==
    ASSUME TypeInv, Joining, Settles, UNCHANGED <<cp, cpTodo>>
    PROVE  Joining'
<1>1. cp = "join" => Head(cpTodo) \in VMs
  BY TailIn DEF TypeInv, TypeOK, CpTypeOK, Positioned, CpPositioned
<1> QED  BY <1>1 DEF Joining, Settles

(* The steps of the running daemon.                                        *)
LEMMA CloudPollerPlaces ==
    ASSUME TypeInv, Placed, Joining, CpStep
    PROVE  Placed' /\ Joining'
<1> USE DEF TypeInv, TypeOK, RCTypeOK, CpTypeOK, Positioned, CpPositioned
<1>1. CASE \/ CpPoll \/ CpStop \/ CheckJoined \/ ScanEnd \/ Wrap \/ ProvOff \/ LaunchBegin \/ LaunchEnd
           \/ CleanupBegin \/ DelEnd \/ Bury \/ CleanupEnd \/ WrapDel \/ Settle \/ ReapMove \/ DelRead
           \/ Back \/ ReapEnd \/ CpDumpNext \/ CpDumpEnd \/ Relaunch \/ CpRaise
  <2>1. UNCHANGED clusterVars
    BY <1>1 DEF CpPoll, CpStop, CheckJoined, ScanEnd, Wrap, ProvOff, LaunchBegin, LaunchEnd,
         CleanupBegin, DelEnd, Bury, CleanupEnd, WrapDel, Settle, ReapMove, DelRead, Back,
         ReapEnd, CpDumpNext, CpDumpEnd, fileKeep, Relaunch, CpRaise
  <2>2. cp' # "join"
    <3>1. CASE DelRead
      <4>1. cp' \in {"delAct", cp} /\ cp # "join"
        BY <3>1, SMTT(30) DEF DelRead
      <4> QED  BY <4>1
    <3>2. CASE ~DelRead
      BY <1>1, <3>2 DEF CpPoll, CpStop, CheckJoined, ScanEnd, Wrap, ProvOff, LaunchBegin, LaunchEnd,
           CleanupBegin, DelEnd, Bury, CleanupEnd, WrapDel, Settle, ReapMove, Back, CpDie,
           ReapEnd, CpDumpNext, CpDumpEnd, Relaunch, CpRaise
    <3> QED  BY <3>1, <3>2
  <2> QED  BY <2>1, <2>2, SameClusterSettles DEF Settles, Joining
<1>2. CASE CheckBuilding
  <2>1. PICK s \in VmCheck(Head(cpTodo)) : cp' = (IF s = 0 THEN "join" ELSE "scan")
                                          /\ cpTodo' = (IF s = 0 THEN cpTodo ELSE Tail(cpTodo))
    BY <1>2 DEF CheckBuilding
  <2>2. s = 0 => cloud[Head(cpTodo)] = "ready"
    BY SMTT(30) DEF VmCheck
  <2>3. UNCHANGED clusterVars
    BY <1>2 DEF CheckBuilding
  <2>4. Joining'
    BY <2>1, <2>2, <2>3 DEF Joining, HasBooted, clusterVars
  <2> QED  BY <2>3, <2>4, SameClusterSettles DEF Settles
<1>3. CASE JoinOk \/ JoinFail
  <2>1. /\ cp = "join" /\ cp' = "scan" /\ UNCHANGED <<cloud, jobs>>
        /\ inTorque' \in {inTorque, inTorque \cup {Head(cpTodo)}}
    BY <1>3 DEF JoinOk, JoinFail, AddNode
  <2>2. cloud[Head(cpTodo)] \in HasBooted
    BY <2>1 DEF Joining
  <2> QED  BY <2>1, <2>2 DEF Placed, Joining
<1>4. CASE Reap \/ DelAct
  <2>1. cp' # "join"
    BY <1>4 DEF Reap, DelAct
  <2>2. \E v \in VMs : \E removed, destroyed : TakeAway(v, removed, destroyed)
    <3>1. CASE Reap
      BY <3>1, TailIn DEF Reap
    <3>2. CASE DelAct
      BY <3>2 DEF DelAct
    <3> QED  BY <1>4, <3>1, <3>2
  <2> QED  BY <2>1, <2>2, TakeAwaySettles DEF Settles, Joining
<1>5. ASSUME NEW v \in VMs, Launch(v) PROVE Placed' /\ Joining'
  <2>1. /\ cloud[v] = "none" /\ cloud' = [cloud EXCEPT ![v] = "build"] /\ cp' # "join"
        /\ UNCHANGED <<inTorque, jobs>>
    BY <1>5 DEF Launch, Create, Unborn
  <2>2. v \notin inTorque
    BY <2>1 DEF Placed, HasBooted, Failed
  <2> QED  BY <2>1, <2>2 DEF Placed, Joining, ClusterTypeOK
<1>6. CASE ReleaseNode
  BY <1>6 DEF ReleaseNode, Release, Placed, Joining
<1> QED  BY <1>1, <1>2, <1>3, <1>4, <1>5, <1>6 DEF CpStep

LEMMA OthersPlace ==
    ASSUME TypeInv, Placed, Joining, "down" \notin Faults, UNCHANGED <<cp, cpTodo>>,
           \/ JpStep \/ InfoStep \/ (\E c \in Callers : ForceoffStep(c)) \/ MainStep
           \/ (\E v \in VMs : Environment(v)) \/ UNCHANGED clusterVars
    PROVE  Placed' /\ Joining'
<1> USE DEF TypeInv, TypeOK, RCTypeOK
<1>1. CASE JpStep
  <2>1. \/ UNCHANGED clusterVars
        \/ \E v \in VMs : \E ok : Hold(v, ok)
        \/ \E v \in VMs : \E removed, destroyed : TakeAway(v, removed, destroyed)
    <3>1. ASSUME NEW v \in VMs, Inspect(v) PROVE \E ok : Hold(v, ok)
      BY <3>1 DEF Inspect
    <3>2. ASSUME NEW v \in VMs, IdleKill(v) PROVE \E removed, destroyed : TakeAway(v, removed, destroyed)
      BY <3>2 DEF IdleKill
    <3>3. CASE ~(\E v \in VMs : Inspect(v) \/ IdleKill(v))
      BY <1>1, <3>3 DEF JpStep, JpPoll, JpRaise, JpDecide, JpStop, JpDumpNext, JpDumpEnd, jpFileKeep,
           SkipNode, IdleUnlist, IdleRemove, Retire, IdleWrap, JpScanEnd, Determine, Extend
    <3> QED  BY <3>1, <3>2, <3>3
  <2> QED  BY <2>1, SameClusterSettles, HoldSettles, TakeAwaySettles, JoiningFrame DEF Settles
<1>2. CASE InfoStep
  <2>1. \/ UNCHANGED clusterVars
        \/ \E v \in VMs : \E ok : Hold(v, ok)
    BY <1>2 DEF InfoStep, ToggleSleepMode, ForceoffRequest, KillBegin, KillHold, KillMove
  <2> QED  BY <2>1, SameClusterSettles, HoldSettles, JoiningFrame DEF Settles
<1>3. ASSUME NEW c \in Callers, ForceoffStep(c) PROVE Placed' /\ Joining'
  <2>1. \/ UNCHANGED clusterVars
        \/ \E v \in VMs : \E removed, destroyed : TakeAway(v, removed, destroyed)
    <3>1. CASE ForceoffExisting(c)
      BY <3>1, ForceoffEntry DEF ForceoffExisting, ControlTypeOK, Positioned
    <3>2. CASE ForceoffStarting(c)
      BY <3>2, ForceoffEntry DEF ForceoffStarting, ControlTypeOK, Positioned
    <3>3. CASE ForceoffLoopEnd(c) \/ ForceoffMoveExisting(c) \/ ForceoffMoveStarting(c)
      BY <3>3 DEF ForceoffLoopEnd, ForceoffMoveExisting, ForceoffMoveStarting
    <3> QED  BY <1>3, <3>1, <3>2, <3>3 DEF ForceoffStep
  <2> QED  BY <2>1, SameClusterSettles, TakeAwaySettles, JoiningFrame DEF Settles
<1>4. CASE MainStep
  BY <1>4, SameClusterSettles, JoiningFrame DEF Settles, MainStep, MainQuit, MainExit
<1>5. CASE (\E v \in VMs : Environment(v)) \/ UNCHANGED clusterVars
  BY <1>5, EnvironmentSettles, SameClusterSettles, JoiningFrame DEF Settles
<1> QED  BY <1>1, <1>2, <1>3, <1>4, <1>5

(* The verdict condemns no node that can still run a job Torque shows.     *)
LEMMA VerdictsHold ==
    ASSUME RCTypeOK, Placed, Condemned, QueryNodes
    PROVE  \A v \in VMs : In(v, to_delete') /\ worker_nodes'[v] = "busy" => Unusable(v)
<1> SUFFICES ASSUME NEW v \in VMs, In(v, to_delete'), worker_nodes'[v] = "busy" PROVE Unusable(v)
  OBVIOUS
<1>1. PICK nodes \in {inTorque, {}} :
         worker_nodes' = Snapshot(nodes) /\ to_delete' \in InList({u \in VMs : Rejected(u, nodes)})
  BY DEF QueryNodes, Outcomes
<1>2. Rejected(v, nodes) /\ In(v, existing_instances)
  <2>1. v \in {u \in VMs : Rejected(u, nodes)} /\ In(v, existing_instances)
    BY <1>1, InListHas
  <2> QED  BY <2>1
<1>3. v \in nodes /\ nodes = inTorque /\ jobs[v] > 0
  BY <1>1 DEF Snapshot, ViewIn
<1>4. ~vm[v].zone \/ Halted(v)
  BY <1>2, <1>3 DEF Rejected
<1>5. CASE ~vm[v].zone
  BY <1>2, <1>5 DEF Condemned, QueryNodes
<1>6. CASE Halted(v)
  BY <1>3, <1>6 DEF Halted, Placed, HasBooted, Unusable
<1> QED  BY <1>4, <1>5, <1>6

LEMMA LoadingPlaces ==
    ASSUME RecoveryInv, Placed, Joining, Condemned, Loading
    PROVE  Placed' /\ Joining' /\ Condemned'
<1>1. su # "done" /\ UNCHANGED cp
  BY DEF Loading, StartUpStep, ListServers, QueryNodes, RemoveOrphan, Dismiss, Statics, PassOver,
       Trim, PopFails, Finish, cpVars
<1>2. RCTypeOK /\ SuTypeOK /\ AtRest /\ Reconciling
  BY <1>1 DEF RecoveryInv, TypeInv, TypeOK
<1>3. Joining'
  BY <1>1, <1>2 DEF AtRest, Joining
<1>4. \/ UNCHANGED clusterVars
      \/ \E v \in VMs : \E removed, destroyed : TakeAway(v, removed, destroyed)
  <2>1. ASSUME NEW v \in VMs, RemoveOrphan(v)
        PROVE  \E removed, destroyed : TakeAway(v, removed, destroyed)
    BY <2>1 DEF RemoveOrphan
  <2>2. CASE Dismiss
    BY <1>2, <2>2, TailIn DEF Dismiss, Destroy, SuTypeOK
  <2>3. CASE Trim
    BY <1>2, <2>3, PopIn DEF Trim, Destroy, SuTypeOK
  <2>4. CASE ListServers \/ QueryNodes \/ Statics \/ PassOver \/ PopFails \/ Finish
    BY <2>4 DEF ListServers, QueryNodes, Statics, PassOver, PopFails, Finish
  <2> QED  BY <2>1, <2>2, <2>3, <2>4 DEF Loading, StartUpStep
<1>5. Placed' /\ Spoils
  <2>1. UNCHANGED clusterVars => Spoils
    BY DEF clusterVars, Spoils, Unusable
  <2> QED  BY <1>2, <1>4, <2>1, SameClusterSettles, TakeAwaySettles, TakeAwaySpoils DEF Settles, RCTypeOK
<1>6. CASE ListServers
  <2>1. \A v \in VMs : In(v, existing_instances') /\ ~vm'[v].zone
                           => cloud[v] \in {"build", "error", "deleting"}
    BY <1>2, <1>6, ListServersReconciles
  <2>2. su' = "query" /\ UNCHANGED <<cloud, inTorque>>
    BY <1>6 DEF ListServers, clusterVars
  <2> QED  BY <1>3, <1>5, <2>1, <2>2 DEF Condemned, Unusable, Placed, HasBooted, Failed
<1>7. CASE QueryNodes
  <2>1. su' = "orphans"
    BY <1>7 DEF QueryNodes
  <2> QED  BY <1>2, <1>3, <1>5, <1>7, <2>1, VerdictsHold DEF Condemned, Spoils
<1>8. CASE (\E v \in VMs : RemoveOrphan(v)) \/ Dismiss
  <2>1. su = "orphans" /\ su' = "orphans"
    BY <1>8 DEF RemoveOrphan, Dismiss
  <2>2. \A v \in VMs : In(v, to_delete') => In(v, to_delete)
    <3>1. \/ to_delete' = to_delete
          \/ to_delete # <<>> /\ to_delete' = Tail(to_delete)
      BY <1>8 DEF RemoveOrphan, Dismiss
    <3> QED  BY <1>2, <3>1, TailIn DEF SuTypeOK
  <2>3. \A v \in VMs : worker_nodes'[v] = "busy" => worker_nodes[v] = "busy"
    BY <1>2, <1>8 DEF RemoveOrphan, Dismiss, RCTypeOK
  <2> QED  BY <1>3, <1>5, <2>1, <2>2, <2>3 DEF Condemned, Spoils
<1>9. CASE Statics \/ PassOver \/ Trim \/ PopFails \/ Finish
  <2>1. su' \notin {"query", "orphans"}
    BY <1>9 DEF Statics, PassOver, Trim, PopFails, Finish
  <2> QED  BY <1>3, <1>5, <2>1 DEF Condemned
<1> QED  BY <1>6, <1>7, <1>8, <1>9 DEF Loading, StartUpStep

(* The daemon with crashes.                                                *)
LEMMA InitNodes == RecoveryInit => NodesInv
<1> SUFFICES ASSUME RecoveryInit PROVE NodesInv
  OBVIOUS
<1>1. \A v \in VMs : /\ v \in inTorque => cloud[v] \in {"ready", "gone"}
                     /\ jobs[v] # 0 => v \in inTorque
  BY SMTT(30) DEF RecoveryInit
<1>2. Placed
  BY <1>1, NpAssumption DEF Placed, HasBooted, Failed
<1>3. Joining /\ Condemned
  BY DEF RecoveryInit, CpInit, Joining, Condemned
<1> QED  BY <1>2, <1>3, InitRecovers DEF NodesInv

LEMMA NextNodes == NodesInv /\ [RecoveryNext]_recoveryVars => NodesInv'
<1> SUFFICES ASSUME NodesInv, [RecoveryNext]_recoveryVars PROVE NodesInv'
  OBVIOUS
<1>1. RecoveryInv /\ RecoveryInv' /\ TypeInv
  BY NextRecovers DEF NodesInv, RecoveryInv
<1> SUFFICES ASSUME "down" \notin Faults PROVE Placed' /\ Joining' /\ Condemned'
  BY <1>1 DEF NodesInv
<1>2. Placed /\ Joining /\ Condemned
  BY DEF NodesInv
<1>3. CASE Loading
  BY <1>1, <1>2, <1>3, LoadingPlaces
<1>4. CASE Running
  <2>1. su' = "done"
    BY <1>4 DEF Running, suVars
  <2>2. CASE CloudPollerStep
    BY <1>1, <1>2, <2>1, <2>2, CloudPollerPlaces DEF CloudPollerStep, Condemned
  <2>3. CASE ~CloudPollerStep
    <3>1. UNCHANGED <<cp, cpTodo>>
      BY <1>4, <2>3 DEF Running, Next, JobPollerStep, InfoServerStep, ForceoffBy, MainStep, ClusterStep,
           cpVars, scanLocals
    <3>2. \/ JpStep \/ InfoStep \/ (\E c \in Callers : ForceoffStep(c)) \/ MainStep
          \/ (\E v \in VMs : Environment(v))
      BY <1>4, <2>3 DEF Running, Next, JobPollerStep, InfoServerStep, ForceoffBy, ClusterStep
    <3> QED  BY <1>1, <1>2, <2>1, <3>1, <3>2, OthersPlace DEF Condemned
  <2> QED  BY <2>2, <2>3
<1>5. CASE Outside
  <2>1. PICK v \in VMs : Environment(v)
    BY <1>5 DEF Outside, ClusterStep
  <2>2. UNCHANGED <<cp, cpTodo, su, to_delete, existing_instances, vm, worker_nodes>>
    BY <1>5 DEF Outside, ClusterStep, cpVars, scanLocals, suVars, centerVars, listVars, flagVars, fileVars, flagsButFile
  <2>3. Spoils
    BY <1>1, <2>1, EnvironmentSpoils DEF TypeInv, TypeOK, RCTypeOK
  <2>4. Condemned'
    BY <1>2, <2>2, <2>3 DEF Condemned, Spoils
  <2> QED  BY <1>1, <1>2, <2>1, <2>2, <2>4, OthersPlace
<1>6. CASE Restart
  BY <1>2, <1>6 DEF Restart, Placed, Joining, Condemned, clusterVars
<1>7. CASE UNCHANGED recoveryVars
  <2>1. UNCHANGED <<clusterVars, cp, cpTodo, su, to_delete, existing_instances, vm, worker_nodes>>
    BY <1>7 DEF recoveryVars, vars, cpVars, scanLocals, suVars, centerVars, listVars, flagVars, fileVars, flagsButFile
  <2>2. Condemned'
    BY <1>2, <2>1 DEF Condemned, Unusable, clusterVars
  <2> QED  BY <1>1, <1>2, <2>1, <2>2, OthersPlace
<1> QED  BY <1>3, <1>4, <1>5, <1>6, <1>7 DEF RecoveryNext

(* A step that takes a node with a job away is one of the start-up, which  *)
(* has condemned the node before or looks at it now.                       *)
LEMMA StepSpares == NodesInv /\ [RecoveryNext]_recoveryVars => SparesJobs
<1> SUFFICES ASSUME NodesInv, [RecoveryNext]_recoveryVars, "down" \notin Faults,
                    NEW v \in VMs, su \in {"orphans", "trim"}, Up(v), jobs[v] > 0, cloud'[v] = "deleting"
             PROVE  worker_nodes[v] # "busy"
  BY DEF SparesJobs
<1>1. RCTypeOK /\ SuTypeOK /\ Condemned
  BY DEF NodesInv, RecoveryInv, TypeInv, TypeOK
<1>2. cloud[v] = "ready" /\ ~Unusable(v)
  BY DEF Up, Unusable, Failed
<1>3. ASSUME NEW u \in VMs, NEW removed, NEW destroyed, TakeAway(u, removed, destroyed), cloud'[v] # cloud[v]
      PROVE  u = v /\ destroyed
  BY <1>1, <1>3 DEF TakeAway, RCTypeOK, ClusterTypeOK
<1>4. CASE Dismiss
  <2>1. Head(to_delete) = v
    BY <1>1, <1>2, <1>3, <1>4, TailIn DEF Dismiss, Destroy, SuTypeOK
  <2>2. In(v, to_delete) /\ su = "orphans"
    BY <1>1, <1>4, <2>1, TailIn DEF Dismiss, SuTypeOK
  <2> QED  BY <1>1, <1>2, <2>2 DEF Condemned
<1>5. CASE Trim
  <2>1. Last(pool) = v
    BY <1>1, <1>2, <1>3, <1>5, PopIn DEF Trim, Destroy, SuTypeOK
  <2> QED  BY <1>5, <2>1 DEF Trim, Trims
<1>6. ASSUME NEW u \in VMs, RemoveOrphan(u) PROVE FALSE
  <2>1. PICK removed : TakeAway(u, removed, FALSE)
    BY <1>6 DEF RemoveOrphan
  <2>2. cloud' = cloud
    BY <2>1 DEF TakeAway
  <2> QED  BY <1>2, <2>2
<1>7. ASSUME NEW u \in VMs, Environment(u) PROVE FALSE
  <2>1. CASE Progress(u) \/ Fail(u) \/ Vanish(u) \/ GoDown(u)
    BY <1>1, <1>2, <2>1 DEF Progress, Fail, Vanish, GoDown, MoveServer, RCTypeOK, ClusterTypeOK
  <2>2. CASE TimePasses(u) \/ JobStart(u) \/ JobEnd(u)
    BY <1>2, <2>2 DEF TimePasses, JobStart, JobEnd
  <2> QED  BY <1>7, <2>1, <2>2 DEF Environment
<1>8. UNCHANGED cloud => FALSE
  BY <1>2
<1>9. CASE Loading
  <2>1. CASE Statics \/ PassOver \/ PopFails \/ Finish \/ ListServers \/ QueryNodes
    BY <1>8, <2>1 DEF Statics, PassOver, PopFails, Finish, ListServers, QueryNodes, clusterVars
  <2> QED  BY <1>4, <1>5, <1>6, <1>9, <2>1 DEF Loading, StartUpStep
<1>10. CASE Outside
  BY <1>7, <1>10 DEF Outside, ClusterStep
<1>11. CASE Running \/ Restart \/ UNCHANGED recoveryVars
  BY <1>8, <1>11 DEF Running, Restart, recoveryVars, vars, clusterVars
<1> QED  BY <1>9, <1>10, <1>11 DEF RecoveryNext

(* The start-up takes no node that Torque has shown running a job and that *)
(* is still in use, for any number of nodes and wherever the daemon was    *)
(* when it crashed, although it acts on the nodes one by one and on an     *)
(* answer that gets older with every step, if no node goes down and comes  *)
(* back in between.                                                        *)
THEOREM RestartAlwaysSparesJobs == RecoverySpec => RestartSparesJobs
BY InitNodes, NextNodes, StepSpares, PTL DEF RecoverySpec, RestartSparesJobs

-----------------------------------------------------------------------------
(***************************************************************************)
(* The daemon that was started again takes no node from a running job      *)
(* (CleanupSparesJobs).  What the invariant of the running daemon says of  *)
(* its lists (JobsKept) is true from the first step of the start-up on, if *)
(* servers are destroyed when the start-up asks for it.                    *)
(***************************************************************************)

(* No VM has been polled, by the new process.                              *)
Unpolled == \A v \in VMs : ~vm[v].cloud_ready /\ vm[v].state_time = NoTime

SparingInv ==
    /\ NodesInv
    /\ "destroy" \notin Faults /\ Guarded => JobsKept /\ (su # "done" => Unpolled)

(* A step of the start-up, or one of the cluster meanwhile, that sends     *)
(* away only VMs that are spent, and trusts Torque's answer.               *)
LEMMA StartUpFrame ==
    ASSUME JobsKept, Settles, "destroy" \notin Faults, AtRest', Unpolled',
           \A v \in VMs : In(v, deleting_instances') => In(v, deleting_instances) \/ Spent(v)',
           \A v \in VMs : worker_nodes'[v] = "down" => worker_nodes[v] = "down" \/ Lost(v),
           UNCHANGED <<jpNodes, lost>>
    PROVE  JobsKept'
<1>1. Placed'
  BY DEF Settles
<1>2. Newcomers'
  BY EmptyList DEF AtRest, Unpolled, Newcomers, Fresh
<1>3. Departing'
  BY EmptyList DEF AtRest, JobsKept, Departing, Settles
<1>4. Answers'
  BY DEF JobsKept, Answers, Settles
<1> QED  BY <1>1, <1>2, <1>3, <1>4 DEF JobsKept

(* A server that the start-up destroys is lost to Torque at once.          *)
LEMMA DestroySpends ==
    ASSUME RCTypeOK, Placed, ListsOwned, "destroy" \notin Faults,
           NEW v \in VMs, In(v, existing_instances), Destroy(v)
    PROVE  /\ Settles
           /\ \A u : In(u, deleting_instances') => In(u, deleting_instances) \/ u = v
           /\ Spent(v)'
           /\ Unpolled => Unpolled'
<1> USE DEF RCTypeOK
<1>1. TakeAway(v, FALSE, TRUE) /\ vm' = [vm EXCEPT ![v].delete_time = @ \/ TRUE]
  BY DEF Destroy, Outcomes
<1>2. Settles
  BY <1>1, TakeAwaySettles
<1>3. \A u : In(u, deleting_instances') => In(u, deleting_instances) \/ u = v
  BY AppendIn DEF Destroy
<1>4. Spent(v)'
  <2>1. cloud[v] # "none"
    BY DEF ListsOwned, Listed
  <2>2. cloud' = IF cloud[v] \in Live THEN [cloud EXCEPT ![v] = "deleting"] ELSE cloud
    BY <1>1 DEF TakeAway
  <2>3. cloud'[v] \in Failed
    BY <2>1, <2>2 DEF ClusterTypeOK, CloudStates, Live, Failed
  <2> QED  BY <2>3 DEF Spent
<1>5. Unpolled => Unpolled'
  BY <1>1 DEF Unpolled
<1> QED  BY <1>2, <1>3, <1>4, <1>5

LEMMA LoadingSpares ==
    ASSUME RecoveryInv, "destroy" \notin Faults, JobsKept, Unpolled, Loading
    PROVE  JobsKept' /\ Unpolled'
<1>1. su # "done" /\ UNCHANGED <<main, cleaned, lost, sleep_mode, num_of_vm, fileVars, write_lock>>
  BY DEF Loading, StartUpStep, ListServers, QueryNodes, RemoveOrphan, Dismiss, Statics, PassOver,
       Trim, PopFails, Finish, suKeep, centerVars, flagVars, historyVars
<1>2. TypeInv /\ RCTypeOK /\ ClusterTypeOK /\ SuTypeOK /\ AtRest /\ Reconciling /\ ListsOwned /\ Placed
  BY <1>1 DEF RecoveryInv, TypeInv, TypeOK, RCTypeOK, Reconciling, JobsKept
<1>3. UNCHANGED <<cpVars, jpVars, controlVars, jpNodes>>
  BY DEF Loading, jpVars
<1>4. AtRest'
  BY <1>1, <1>2, <1>3, NobodyRuns
<1>5. UNCHANGED clusterVars => Settles
  BY <1>2, SameClusterSettles
<1>6. CASE ListServers
  <2>1. Unpolled'
    BY <1>6 DEF ListServers, Unpolled, LoadedVM, NewVM
  <2>2. UNCHANGED <<clusterVars, deleting_instances, worker_nodes>>
    BY <1>6 DEF ListServers
  <2> QED  BY <1>1, <1>3, <1>4, <1>5, <2>1, <2>2, StartUpFrame
<1>7. CASE QueryNodes
  <2>1. PICK nodes \in {inTorque, {}} : worker_nodes' = Snapshot(nodes)
    BY <1>7 DEF QueryNodes, Outcomes
  <2>2. \A v \in VMs : worker_nodes'[v] = "down" => Lost(v)
    BY <1>2, <2>1, SnapshotLost DEF Placed
  <2>3. UNCHANGED <<clusterVars, deleting_instances, vm>>
    BY <1>7 DEF QueryNodes
  <2>4. Unpolled'
    BY <2>3 DEF Unpolled
  <2> QED  BY <1>1, <1>3, <1>4, <1>5, <2>2, <2>3, <2>4, StartUpFrame
<1>8. ASSUME NEW v \in VMs, RemoveOrphan(v) PROVE JobsKept' /\ Unpolled'
  <2>1. PICK removed : TakeAway(v, removed, FALSE)
    BY <1>8 DEF RemoveOrphan
  <2>2. Settles
    BY <1>2, <2>1, TakeAwaySettles
  <2>3. /\ UNCHANGED <<vm, deleting_instances>>
        /\ \A u \in VMs : worker_nodes'[u] = "down" => worker_nodes[u] = "down"
    BY <1>2, <1>8 DEF RemoveOrphan, listVars, RCTypeOK
  <2>4. Unpolled'
    BY <2>3 DEF Unpolled
  <2> QED  BY <1>1, <1>3, <1>4, <2>2, <2>3, <2>4, StartUpFrame
<1>9. CASE Dismiss \/ Trim
  <2>1. PICK v \in VMs : Destroy(v) /\ In(v, existing_instances)
    <3>1. CASE Dismiss
      BY <1>2, <3>1, TailIn DEF Dismiss, SuTypeOK, Reconciling, Within
    <3>2. CASE Trim
      BY <1>2, <3>2, PopIn DEF Trim, SuTypeOK, Reconciling, Within
    <3> QED  BY <1>9, <3>1, <3>2
  <2>2. /\ Settles /\ Spent(v)' /\ Unpolled'
        /\ \A u : In(u, deleting_instances') => In(u, deleting_instances) \/ u = v
    BY <1>2, <2>1, DestroySpends
  <2>3. UNCHANGED worker_nodes
    BY <1>9 DEF Dismiss, Trim
  <2> QED  BY <1>1, <1>3, <1>4, <2>2, <2>3, StartUpFrame
<1>10. CASE Statics \/ PassOver \/ PopFails \/ Finish
  <2>1. UNCHANGED <<clusterVars, vm, deleting_instances, worker_nodes>>
    BY <1>10 DEF Statics, PassOver, PopFails, Finish, centerVars, listVars, flagVars, fileVars, flagsButFile
  <2>2. Unpolled'
    BY <2>1 DEF Unpolled
  <2> QED  BY <1>1, <1>3, <1>4, <1>5, <2>1, <2>2, StartUpFrame
<1> QED  BY <1>6, <1>7, <1>8, <1>9, <1>10 DEF Loading, StartUpStep

LEMMA InitSpares == RecoveryInit => SparingInv
<1> SUFFICES ASSUME RecoveryInit, "destroy" \notin Faults, Guarded PROVE JobsKept /\ Unpolled
  BY InitNodes DEF SparingInv
<1>1. Placed
  BY InitNodes DEF NodesInv, Guarded
<1>2. /\ vm = [v \in VMs |-> NewVM]
      /\ deleting_instances = <<>> /\ executing = <<>> /\ doomed = <<>>
      /\ cp = "launchBegin" /\ jp = "poll" /\ worker_nodes = NoNodes /\ jpNodes = NoNodes /\ lost = {}
  BY DEF RecoveryInit, CpInit, JpInit
<1>3. Unpolled
  BY <1>2 DEF Unpolled, NewVM
<1>4. Newcomers
  BY <1>2, <1>3, EmptyList DEF Unpolled, Newcomers, Fresh
<1>5. Departing /\ Answers
  BY <1>2, EmptyList DEF Departing, Answers, NoNodes
<1> QED  BY <1>1, <1>2, <1>3, <1>4, <1>5 DEF JobsKept

(* A process that starts again knows no VM yet, wherever the last one has  *)
(* stopped.                                                                *)
LEMMA RestartSpares ==
    ASSUME Placed', "destroy" \notin Faults, Restart
    PROVE  JobsKept' /\ Unpolled'
<1>1. /\ vm' = [v \in VMs |-> NewVM]
      /\ deleting_instances' = <<>> /\ executing' = <<>> /\ doomed' = <<>>
      /\ cp' = "launchBegin" /\ jp' = "poll" /\ worker_nodes' = NoNodes /\ jpNodes' = NoNodes
      /\ lost' = {}
  BY DEF Restart
<1>2. Unpolled'
  BY <1>1 DEF Unpolled, NewVM
<1>3. Newcomers'
  BY <1>1, <1>2, EmptyList DEF Unpolled, Newcomers, Fresh
<1>4. Departing' /\ Answers'
  BY <1>1, EmptyList DEF Departing, Answers, NoNodes
<1> QED  BY <1>1, <1>2, <1>3, <1>4 DEF JobsKept

LEMMA NextSpares == SparingInv /\ [RecoveryNext]_recoveryVars => SparingInv'
<1> SUFFICES ASSUME SparingInv, [RecoveryNext]_recoveryVars PROVE SparingInv'
  OBVIOUS
<1>1. NodesInv' /\ NodesInv /\ RecoveryInv
  BY NextNodes DEF SparingInv, NodesInv
<1> SUFFICES ASSUME "destroy" \notin Faults, Guarded' PROVE JobsKept' /\ (su' # "done" => Unpolled')
  BY <1>1 DEF SparingInv
<1>2. Guarded => JobsKept /\ (su # "done" => Unpolled)
  BY DEF SparingInv
<1>3. main' = main => Guarded
  BY DEF Guarded, Attended
<1>4. CASE Loading
  <2>1. su # "done" /\ main' = main
    BY <1>4 DEF Loading, StartUpStep, ListServers, QueryNodes, RemoveOrphan, Dismiss, Statics, PassOver,
         Trim, PopFails, Finish, suKeep, centerVars, flagVars, fileVars, flagsButFile
  <2> QED  BY <1>1, <1>2, <1>3, <1>4, <2>1, LoadingSpares
<1>5. CASE Running
  <2>1. su = "done" /\ su' = "done" /\ Next
    BY <1>5 DEF Running, suVars
  <2>2. JobInv
    BY <1>1, <1>2, <2>1 DEF JobInv, RecoveryInv
  <2>3. JobInv'
    BY <2>1, <2>2, NextJobs
  <2> QED  BY <2>1, <2>3 DEF JobInv
<1>6. CASE Outside
  <2>1. PICK v \in VMs : Environment(v)
    BY <1>6 DEF Outside, ClusterStep
  <2>2. /\ UNCHANGED <<vm, deleting_instances, worker_nodes, jpNodes, lost, main, cleaned, sleep_mode,
                       num_of_vm, fileVars, write_lock, cpVars, jpVars, controlVars>>
        /\ su # "done" /\ su' = su
    BY <1>6 DEF Outside, ClusterStep, suVars, centerVars, listVars, flagVars, historyVars, jpVars
  <2>3. Guarded /\ JobsKept /\ Unpolled
    BY <1>2, <1>3, <2>2
  <2>4. TypeInv /\ ClusterTypeOK /\ AtRest /\ Placed
    BY <1>1, <2>2, <2>3 DEF RecoveryInv, TypeInv, TypeOK, RCTypeOK, JobsKept
  <2>5. AtRest' /\ Unpolled'
    BY <2>2, <2>3, <2>4, NobodyRuns DEF Unpolled
  <2>6. Settles
    BY <2>1, <2>3, <2>4, EnvironmentSettles DEF Guarded
  <2> QED  BY <2>2, <2>3, <2>5, <2>6, StartUpFrame
<1>7. CASE Restart
  <2>1. Placed'
    BY <1>1 DEF NodesInv, Guarded
  <2> QED  BY <1>7, <2>1, RestartSpares
<1>8. CASE UNCHANGED recoveryVars
  <2>1. UNCHANGED <<vars, su>>
    BY <1>8 DEF recoveryVars, suVars
  <2>2. main' = main /\ vm' = vm
    BY <2>1 DEF vars, centerVars, flagVars, fileVars, flagsButFile
  <2>3. JobsKept'
    BY <1>2, <1>3, <2>1, <2>2 DEF vars, clusterVars, centerVars, listVars, flagVars, fileVars, flagsButFile, historyVars, cpVars,
         scanLocals, delLocals, jpVars, JobsKept, Placed, Newcomers, Departing, Answers, Spent, Lost, Fresh
  <2>4. su' # "done" => Unpolled'
    BY <1>2, <1>3, <2>1, <2>2 DEF Unpolled
  <2> QED  BY <2>3, <2>4
<1> QED  BY <1>4, <1>5, <1>6, <1>7, <1>8 DEF RecoveryNext

(* Wherever the daemon was when it crashed, and however often it was       *)
(* started again, check_cleanup takes no node from a running job, for any  *)
(* number of VMs.  A new process finds jobs on nodes that it has sent away *)
(* itself: while it made up its mind they could start.  The cloud destroys *)
(* such a node, and it does not run them any more: hence this is so if the *)
(* cloud carries out what it is asked.  A node whose destruction has failed*)
(* waits among the others that leave and was never held.                   *)
THEOREM JobsAlwaysSparedAgain ==
    ASSUME "destroy" \notin Faults
    PROVE  RecoverySpec => []CleanupSparesJobs
<1>1. SparingInv => CleanupSparesJobs
  BY DEF SparingInv, Guarded, Attended, JobsKept, CleanupSparesJobs
<1> QED  BY <1>1, InitSpares, NextSpares, PTL DEF RecoverySpec
=============================================================================
