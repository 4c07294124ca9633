------------------------------ MODULE TypeProofs ------------------------------
(***************************************************************************)
(* Type correctness of the daemon for every set of VMs, every fault, every *)
(* operator and every value of the settings.  The invariant TypeOK is not  *)
(* inductive by itself: a thread takes the head of a local list, or an     *)
(* entry of a shared list by its position, because of where it is in its   *)
(* code.  Positioned says which lists are not empty where.                 *)
(***************************************************************************)
EXTENDS Daemon, SequenceTheorems, FiniteSetTheorems, WellFoundedInduction, TLAPS

-----------------------------------------------------------------------------
(* Python lists of VM objects: membership, append, extend, and list.remove *)
(* (RemoveFirst).                                                          *)

(* A non-empty set of natural numbers has a minimum.                       *)
LEMMA MinInSet ==
    ASSUME NEW T \in SUBSET Nat, T # {}
    PROVE  Min(T) \in T /\ \A y \in T : Min(T) <= y
<1>1. \E x \in T : \A y \in T : ~ (<<y, x>> \in OpToRel(<, Nat))
  BY WFMin, NatLessThanWellFounded
<1>2. \A x, y \in Nat : y < x => <<y, x>> \in OpToRel(<, Nat)
  BY Zenon DEF OpToRel
<1>3. \E x \in T : \A y \in T : x <= y
  <2>1. PICK x \in T : \A y \in T : ~ (<<y, x>> \in OpToRel(<, Nat))
    BY <1>1
  <2>2. ASSUME NEW y \in T PROVE ~ (y < x)
    BY <1>2, <2>1, <2>2
  <2>3. \A y \in T : x <= y
    BY <2>2
  <2> QED  BY <2>3
<1> QED  BY <1>3 DEF Min

(* list.append adds one member at the end.                                 *)
LEMMA AppendIn ==
    ASSUME NEW S, NEW s \in Seq(S), NEW v \in S
    PROVE  /\ Append(s, v) \in Seq(S)
           /\ \A x : In(x, Append(s, v)) <=> In(x, s) \/ x = v
<1> DEFINE t == Append(s, v)
<1>1. t \in Seq(S) /\ Len(t) = Len(s) + 1
  OBVIOUS
<1>2. \A i \in 1 .. Len(s) : t[i] = s[i]
  OBVIOUS
<1>3. t[Len(s) + 1] = v
  OBVIOUS
<1> HIDE DEF t
<1>4. ASSUME NEW x PROVE In(x, t) <=> In(x, s) \/ x = v
  <2>1. Len(s) \in Nat
    OBVIOUS
  <2>2. 1 .. Len(t) = (1 .. Len(s)) \cup {Len(s) + 1}
    BY <1>1, <2>1
  <2> QED  BY <1>2, <1>3, <2>2 DEF In
<1> QED  BY <1>1, <1>4 DEF t

(* list.extend: the members of both.                                       *)
LEMMA ConcatIn ==
    ASSUME NEW S, NEW s \in Seq(S), NEW t \in Seq(S)
    PROVE  /\ s \o t \in Seq(S)
           /\ \A x : In(x, s \o t) <=> In(x, s) \/ In(x, t)
<1> DEFINE u == s \o t
<1>1. u \in Seq(S) /\ Len(u) = Len(s) + Len(t)
  BY ConcatProperties
<1>2. \A i \in 1 .. Len(s) + Len(t) : u[i] = IF i <= Len(s) THEN s[i] ELSE t[i - Len(s)]
  BY ConcatProperties
<1>3. Len(s) \in Nat /\ Len(t) \in Nat
  OBVIOUS
<1> HIDE DEF u
<1>4. ASSUME NEW x, In(x, u) PROVE In(x, s) \/ In(x, t)
  <2>1. PICK i \in 1 .. Len(u) : u[i] = x
    BY <1>4 DEF In
  <2>2. CASE i <= Len(s)
    BY <1>1, <1>2, <1>3, <2>1, <2>2 DEF In
  <2>3. CASE i > Len(s)
    <3>1. i - Len(s) \in 1 .. Len(t) /\ t[i - Len(s)] = x
      BY <1>1, <1>2, <1>3, <2>1, <2>3
    <3> QED  BY <3>1 DEF In
  <2> QED  BY <1>1, <1>3, <2>1, <2>2, <2>3
<1>5. ASSUME NEW x, In(x, s) PROVE In(x, u)
  BY <1>1, <1>2, <1>3, <1>5 DEF In
<1>6. ASSUME NEW x, In(x, t) PROVE In(x, u)
  <2>1. PICK i \in 1 .. Len(t) : t[i] = x
    BY <1>6 DEF In
  <2>2. i + Len(s) \in 1 .. Len(s) + Len(t) /\ ~ (i + Len(s) <= Len(s)) /\ i + Len(s) - Len(s) = i
    BY <1>3
  <2>3. i + Len(s) \in 1 .. Len(u) /\ u[i + Len(s)] = x
    BY <1>1, <1>2, <2>1, <2>2
  <2> QED  BY <2>3 DEF In
<1> QED  BY <1>1, <1>4, <1>5, <1>6 DEF u

(* Taking the first entry off a list brings no new members.                *)
LEMMA TailIn ==
    ASSUME NEW S, NEW s \in Seq(S), s # <<>>
    PROVE  /\ Head(s) \in S /\ In(Head(s), s)
           /\ Tail(s) \in Seq(S) /\ Len(Tail(s)) = Len(s) - 1
           /\ \A x : In(x, Tail(s)) => In(x, s)
<1>1. /\ Head(s) \in S /\ Tail(s) \in Seq(S)
      /\ Len(Tail(s)) = Len(s) - 1
      /\ \A i \in 1 .. Len(Tail(s)) : Tail(s)[i] = s[i + 1]
  BY HeadTailProperties
<1>2. Len(s) \in Nat \ {0} /\ Head(s) = s[1]
  BY EmptySeq
<1>3. ASSUME NEW x, In(x, Tail(s)) PROVE In(x, s)
  <2>1. PICK i \in 1 .. Len(Tail(s)) : Tail(s)[i] = x
    BY <1>3 DEF In
  <2>2. i + 1 \in 1 .. Len(s) /\ s[i + 1] = x
    BY <1>1, <1>2, <2>1
  <2> QED  BY <2>2 DEF In
<1>4. In(Head(s), s)
  BY <1>2 DEF In
<1> QED  BY <1>1, <1>3, <1>4

(* list.remove(v): a list of the same type with the first v taken out, so  *)
(* no other member is lost and none is added.                              *)
LEMMA RemoveFirstIn ==
    ASSUME NEW S, NEW s \in Seq(S), NEW v, In(v, s)
    PROVE  /\ RemoveFirst(s, v) \in Seq(S)
           /\ \A x : In(x, RemoveFirst(s, v)) => In(x, s)
           /\ \A x : In(x, s) /\ x # v => In(x, RemoveFirst(s, v))
<1> DEFINE I == {i \in 1 .. Len(s) : s[i] = v}
           k == Min(I)
           a == SubSeq(s, 1, k - 1)
           b == SubSeq(s, k + 1, Len(s))
<1>1. I \in SUBSET Nat /\ I # {}
  BY DEF In
<1>2. k \in 1 .. Len(s) /\ s[k] = v
  <2>1. k \in I
    BY <1>1, MinInSet
  <2> QED  BY <2>1
<1>3. RemoveFirst(s, v) = a \o b
  BY <1>1 DEF RemoveFirst, RemoveAt, SelectInSeq, In
<1>4. \A i \in 1 .. Len(s) : s[i] \in S
  OBVIOUS
<1> HIDE DEF k
<1>5. /\ a \in Seq(S) /\ Len(a) = k - 1
      /\ \A i \in 1 .. k - 1 : a[i] = s[i]
  <2>1. \A i \in 1 .. k - 1 : s[i] \in S
    BY <1>2, <1>4
  <2>2. /\ a \in Seq(S) /\ Len(a) = IF 1 <= k - 1 THEN k - 1 - 1 + 1 ELSE 0
        /\ \A i \in 1 .. k - 1 - 1 + 1 : a[i] = s[1 + i - 1]
    BY <1>2, <2>1, SubSeqProperties
  <2> QED  BY <1>2, <2>2
<1>6. /\ b \in Seq(S) /\ Len(b) = Len(s) - k
      /\ \A i \in 1 .. Len(s) - k : b[i] = s[k + i]
  <2>1. \A i \in k + 1 .. Len(s) : s[i] \in S
    BY <1>2, <1>4
  <2>2. /\ b \in Seq(S) /\ Len(b) = IF k + 1 <= Len(s) THEN Len(s) - (k + 1) + 1 ELSE 0
        /\ \A i \in 1 .. Len(s) - (k + 1) + 1 : b[i] = s[k + 1 + i - 1]
    BY <1>2, <2>1, SubSeqProperties
  <2> QED  BY <1>2, <2>2
<1> HIDE DEF a, b
<1>7. a \o b \in Seq(S) /\ \A x : In(x, a \o b) <=> In(x, a) \/ In(x, b)
  BY <1>5, <1>6, ConcatIn
<1>8. ASSUME NEW x, In(x, a) \/ In(x, b) PROVE In(x, s)
  <2>1. CASE In(x, a)
    BY <1>2, <1>5, <2>1 DEF In
  <2>2. CASE In(x, b)
    <3>1. PICK i \in 1 .. Len(b) : b[i] = x
      BY <2>2 DEF In
    <3>2. k + i \in 1 .. Len(s) /\ s[k + i] = x
      BY <1>2, <1>6, <3>1
    <3> QED  BY <3>2 DEF In
  <2> QED  BY <1>8, <2>1, <2>2
<1>9. ASSUME NEW x, In(x, s), x # v PROVE In(x, a) \/ In(x, b)
  <2>1. PICK i \in 1 .. Len(s) : s[i] = x
    BY <1>9 DEF In
  <2>2. CASE i < k
    BY <1>2, <1>5, <2>1, <2>2 DEF In
  <2>3. CASE i > k
    <3>1. i - k \in 1 .. Len(b) /\ b[i - k] = x
      BY <1>2, <1>6, <2>1, <2>3
    <3> QED  BY <3>1 DEF In
  <2> QED  BY <1>2, <1>9, <2>1, <2>2, <2>3
<1> QED  BY <1>3, <1>7, <1>8, <1>9

(* A VM moved from one list to the end of another: together the two lists  *)
(* have the members they had.                                              *)
LEMMA MoveIn ==
    ASSUME NEW S, NEW s \in Seq(S), NEW t \in Seq(S), NEW v \in S, In(v, s)
    PROVE  \A x : In(x, RemoveFirst(s, v)) \/ In(x, Append(t, v)) <=> In(x, s) \/ In(x, t)
<1> DEFINE r == RemoveFirst(s, v)
           u == Append(t, v)
<1>1. \A x : In(x, u) <=> In(x, t) \/ x = v
  BY AppendIn
<1>2. /\ \A x : In(x, r) => In(x, s)
      /\ \A x : In(x, s) /\ x # v => In(x, r)
  BY RemoveFirstIn
<1> HIDE DEF r, u
<1>3. \A x : In(x, r) \/ In(x, u) <=> In(x, s) \/ In(x, t)
  BY <1>1, <1>2, In(v, s)
<1> QED  BY <1>3 DEF r, u

-----------------------------------------------------------------------------
(* Lists without repetitions.                                              *)

Distinct(s) == \A i, j \in 1 .. Len(s) : s[i] = s[j] => i = j

(* list.append of something new.                                           *)
LEMMA AppendDistinct ==
    ASSUME NEW S, NEW s \in Seq(S), NEW v \in S, Distinct(s), ~In(v, s)
    PROVE  Distinct(Append(s, v))
<1> DEFINE t == Append(s, v)
<1>1. Len(t) = Len(s) + 1 /\ Len(s) \in Nat
  OBVIOUS
<1>2. \A i \in 1 .. Len(s) : t[i] = s[i]
  OBVIOUS
<1>3. t[Len(s) + 1] = v
  OBVIOUS
<1>4. \A i \in 1 .. Len(s) : s[i] # v
  BY DEF In
<1> HIDE DEF t
<1>5. Distinct(t)
  BY <1>1, <1>2, <1>3, <1>4 DEF Distinct
<1> QED  BY <1>5 DEF t

(* The rest of a list, once its first entry is taken.                      *)
LEMMA TailDistinct ==
    ASSUME NEW S, NEW s \in Seq(S), s # <<>>, Distinct(s)
    PROVE  /\ Distinct(Tail(s))
           /\ \A x : In(x, Tail(s)) <=> In(x, s) /\ x # Head(s)
<1> DEFINE t == Tail(s)
<1>1. Len(t) = Len(s) - 1 /\ \A i \in 1 .. Len(t) : t[i] = s[i + 1]
  BY HeadTailProperties
<1>2. Len(s) \in Nat \ {0} /\ Head(s) = s[1]
  BY EmptySeq
<1> HIDE DEF t
<1>3. Distinct(t)
  BY <1>1, <1>2 DEF Distinct
<1>4. ASSUME NEW x, In(x, t) PROVE In(x, s) /\ x # Head(s)
  <2>1. PICK i \in 1 .. Len(t) : t[i] = x
    BY <1>4 DEF In
  <2>2. i + 1 \in 1 .. Len(s) /\ s[i + 1] = x /\ i + 1 # 1
    BY <1>1, <1>2, <2>1
  <2>3. s[i + 1] # s[1]
    BY <1>2, <2>2 DEF Distinct
  <2> QED  BY <1>2, <2>2, <2>3 DEF In
<1>5. ASSUME NEW x, In(x, s), x # Head(s) PROVE In(x, t)
  <2>1. PICK i \in 1 .. Len(s) : s[i] = x
    BY <1>5 DEF In
  <2>2. i - 1 \in 1 .. Len(t) /\ t[i - 1] = x
    BY <1>1, <1>2, <1>5, <2>1
  <2> QED  BY <2>2 DEF In
<1> QED  BY <1>3, <1>4, <1>5 DEF t

(* list.remove: nothing of v is left.                                      *)
LEMMA RemoveFirstDistinct ==
    ASSUME NEW S, NEW s \in Seq(S), NEW v, In(v, s), Distinct(s)
    PROVE  /\ Distinct(RemoveFirst(s, v))
           /\ \A x : In(x, RemoveFirst(s, v)) <=> In(x, s) /\ x # v
<1> DEFINE I == {i \in 1 .. Len(s) : s[i] = v}
           k == Min(I)
           a == SubSeq(s, 1, k - 1)
           b == SubSeq(s, k + 1, Len(s))
           t == RemoveFirst(s, v)
<1>1. I \in SUBSET Nat /\ I # {}
  BY DEF In
<1>2. k \in 1 .. Len(s) /\ s[k] = v
  <2>1. k \in I
    BY <1>1, MinInSet
  <2> QED  BY <2>1
<1>3. t = a \o b
  BY <1>1 DEF RemoveFirst, RemoveAt, SelectInSeq, In
<1>4. Len(s) \in Nat /\ \A i \in 1 .. Len(s) : s[i] \in S
  OBVIOUS
<1> HIDE DEF k, t
<1>5. /\ a \in Seq(S) /\ Len(a) = k - 1
      /\ \A i \in 1 .. k - 1 : a[i] = s[i]
  <2>1. \A i \in 1 .. k - 1 : s[i] \in S
    BY <1>2, <1>4
  <2>2. /\ a \in Seq(S) /\ Len(a) = IF 1 <= k - 1 THEN k - 1 - 1 + 1 ELSE 0
        /\ \A i \in 1 .. k - 1 - 1 + 1 : a[i] = s[1 + i - 1]
    BY <1>2, <2>1, SubSeqProperties
  <2> QED  BY <1>2, <2>2
<1>6. /\ b \in Seq(S) /\ Len(b) = Len(s) - k
      /\ \A i \in 1 .. Len(s) - k : b[i] = s[k + i]
  <2>1. \A i \in k + 1 .. Len(s) : s[i] \in S
    BY <1>2, <1>4
  <2>2. /\ b \in Seq(S) /\ Len(b) = IF k + 1 <= Len(s) THEN Len(s) - (k + 1) + 1 ELSE 0
        /\ \A i \in 1 .. Len(s) - (k + 1) + 1 : b[i] = s[k + 1 + i - 1]
    BY <1>2, <2>1, SubSeqProperties
  <2> QED  BY <1>2, <2>2
<1> HIDE DEF a, b
<1>7. /\ Len(t) = Len(s) - 1
      /\ \A i \in 1 .. Len(t) : t[i] = IF i < k THEN s[i] ELSE s[i + 1]
  <2>1. /\ Len(t) = Len(a) + Len(b)
        /\ \A i \in 1 .. Len(a) + Len(b) : t[i] = IF i <= Len(a) THEN a[i] ELSE b[i - Len(a)]
    BY <1>3, <1>5, <1>6, ConcatProperties
  <2>2. Len(t) = Len(s) - 1
    BY <1>2, <1>4, <1>5, <1>6, <2>1
  <2>3. ASSUME NEW i \in 1 .. Len(t) PROVE t[i] = IF i < k THEN s[i] ELSE s[i + 1]
    <3>1. CASE i < k
      BY <1>2, <1>4, <1>5, <1>6, <2>1, <2>2, <3>1
    <3>2. CASE ~(i < k)
      <4>1. i - Len(a) \in 1 .. Len(s) - k /\ ~(i <= Len(a)) /\ k + (i - Len(a)) = i + 1
        BY <1>2, <1>4, <1>5, <1>6, <2>2, <3>2
      <4>2. t[i] = b[i - Len(a)] /\ b[i - Len(a)] = s[k + (i - Len(a))]
        BY <1>6, <2>1, <4>1
      <4> QED  BY <3>2, <4>1, <4>2
    <3> QED  BY <3>1, <3>2
  <2> QED  BY <2>2, <2>3
<1>8. Distinct(t)
  BY <1>2, <1>4, <1>7 DEF Distinct
<1>9. ~In(v, t)
  BY <1>2, <1>4, <1>7 DEF In, Distinct
<1>10. /\ \A x : In(x, t) => In(x, s)
       /\ \A x : In(x, s) /\ x # v => In(x, t)
  BY RemoveFirstIn DEF t
<1>11. \A x : In(x, t) <=> In(x, s) /\ x # v
  BY <1>9, <1>10
<1> QED  BY <1>8, <1>11 DEF t

(* A VM moved from one list to the end of another that does not have it.   *)
LEMMA MoveDistinct ==
    ASSUME NEW S, NEW s \in Seq(S), NEW t \in Seq(S), NEW v \in S,
           Distinct(s), Distinct(t), In(v, s), ~In(v, t)
    PROVE  /\ Distinct(RemoveFirst(s, v)) /\ Distinct(Append(t, v))
           /\ \A x : In(x, RemoveFirst(s, v)) <=> In(x, s) /\ x # v
           /\ \A x : In(x, Append(t, v)) <=> In(x, t) \/ x = v
BY AppendIn, AppendDistinct, RemoveFirstDistinct

(* A position of a list, once something is appended to it.                 *)
LEMMA AppendPositions ==
    ASSUME NEW S, NEW s \in Seq(S), NEW v \in S
    PROVE  Len(Append(s, v)) = Len(s) + 1 /\ \A i \in 1 .. Len(s) : Append(s, v)[i] = s[i]
OBVIOUS

-----------------------------------------------------------------------------
(* Types.                                                                  *)

CpPositioned ==
    /\ cp = "join" => cpTodo # <<>>
    /\ cp = "settle" => ready # <<>>
    /\ cp = "reapMove" => doomed # <<>>
    /\ cp = "release" => executing # <<>>
    /\ cp \in {"delRead", "delAct"} => cursor > 0
    /\ cp = "delAct" => cursor <= Len(deleting_instances)

FoPositioned ==
    \A c \in Callers : fo[c] \in {"existing", "starting"} => foNext[c] > 0

Positioned == CpPositioned /\ FoPositioned

TypeInv == TypeOK /\ Positioned

-----------------------------------------------------------------------------
(* Operators.                                                              *)

(* Counting the dynamic VMs of a list gives a number, ...                  *)
LEMMA DynamicCounts ==
    ASSUME NEW list \in Seq(VMs) PROVE DynamicIn(list) \in Nat
<1>1. Len(list) \in Nat
  OBVIOUS
<1>2. IsFiniteSet(1 .. Len(list))
  BY <1>1, FS_Interval
<1>3. IsFiniteSet({i \in 1 .. Len(list) : vm[list[i]].dynamic})
  BY <1>2, FS_Subset
<1> QED  BY <1>3, FS_CardinalityType DEF DynamicIn

(* ... so does what update_available_cores computes from it.               *)
LEMMA AvailableType ==
    ASSUME existing_instances \in Seq(VMs), deleting_instances \in Seq(VMs)
    PROVE  AvailableNodes \in Int
BY DynamicCounts, NumDynamicAssumption DEF AvailableNodes

(* [ProvisionVM(...)] * n is a list of requests.                           *)
LEMMA CopiesType ==
    ASSUME NEW n \in Nat, NEW x \in Requests
    PROVE  Copies(n, x) \in Seq(Requests)
BY DEF Copies

(* What launch_instances leaves of the waiting list.                       *)
LEMMA StaticsInType ==
    ASSUME NEW s \in Seq(Requests)
    PROVE  StaticsIn(s) \in Seq(Requests)
<1>1. Len(s) \in Nat
  OBVIOUS
<1>2. IsFiniteSet(1 .. Len(s))
  BY <1>1, FS_Interval
<1>3. IsFiniteSet({i \in 1 .. Len(s) : s[i] = "static"})
  BY <1>2, FS_Subset
<1>4. Cardinality({i \in 1 .. Len(s) : s[i] = "static"}) \in Nat
  BY <1>3, FS_CardinalityType
<1> QED  BY <1>4, CopiesType DEF StaticsIn, Requests

(* A node list has an entry of the right kind for every node.              *)
LEMMA SnapshotType ==
    ASSUME NEW nodes PROVE Snapshot(nodes) \in [VMs -> Views] /\ NoNodes \in [VMs -> Views]
BY DEF Snapshot, NoNodes, ViewIn, Views

(* Setting fields of a VM object, as vm_check, the threads and the polls   *)
(* of checknode do.                                                        *)
LEMMA RecordTypes ==
    ASSUME NEW r \in VMRecords, NEW b \in BOOLEAN
    PROVE  /\ [r EXCEPT !.dynamic = b] \in VMRecords
           /\ [r EXCEPT !.force_off = b] \in VMRecords
           /\ [r EXCEPT !.cloud_ready = b] \in VMRecords
           /\ [r EXCEPT !.delete_time = b] \in VMRecords
BY DEF VMRecords

(* What is set when a node is taken away at once.                          *)
LEMMA ForcedOffType ==
    ASSUME vm \in [VMs -> VMRecords], NEW v \in VMs, NEW b \in BOOLEAN
    PROVE  [vm EXCEPT ![v].force_off = TRUE, ![v].delete_time = @ \/ b] \in [VMs -> VMRecords]
<1> DEFINE w == [vm EXCEPT ![v] = [vm[v] EXCEPT !.force_off = TRUE]]
<1>1. [vm[v] EXCEPT !.force_off = TRUE] \in VMRecords
  BY RecordTypes
<1>2. w \in [VMs -> VMRecords]
  BY <1>1
<1>3. [vm EXCEPT ![v].force_off = TRUE, ![v].delete_time = @ \/ b]
        = [w EXCEPT ![v] = [w[v] EXCEPT !.delete_time = @ \/ b]]
  OBVIOUS
<1> HIDE DEF w
<1>4. w[v].delete_time \in BOOLEAN
  BY <1>2 DEF VMRecords
<1>5. [w[v] EXCEPT !.delete_time = @ \/ b] \in VMRecords
  BY <1>2, <1>4, RecordTypes
<1> QED  BY <1>2, <1>3, <1>5

(* What vm_check sets.                                                     *)
LEMMA CheckedType ==
    ASSUME NEW r \in VMRecords, NEW s PROVE Checked(r, s) \in VMRecords
BY DEF VMRecords, Checked

(* A poll of checknode sets a state and a time within its bound.           *)
LEMMA PolledType ==
    ASSUME vm \in [VMs -> VMRecords], NEW v \in VMs, NEW word \in CheckNode(v)
    PROVE  Polled(v, word) \in VMRecords
<1>1. word \in Words
  BY HeldAssumption DEF CheckNode, NodeWord, Words
<1>2. TimeCap \in Nat /\ NoTime \in Int /\ NoTime < 0
  BY TimesAssumption DEF TimeCap, NoTime
<1> DEFINE t == IF ~(vm[v].state = word) THEN 0
                ELSE IF vm[v].state_time < TimeCap THEN vm[v].state_time + 1
                ELSE vm[v].state_time
<1>3. vm[v] \in VMRecords /\ vm[v].state_time \in NoTime .. TimeCap
  BY DEF VMRecords
<1>4. t \in NoTime .. TimeCap
  BY <1>2, <1>3
<1>5. Polled(v, word) = [vm[v] EXCEPT !.state = word, !.state_time = t]
  BY DEF Polled
<1> HIDE DEF t
<1>6. ASSUME NEW r \in VMRecords PROVE [r EXCEPT !.state = word, !.state_time = t] \in VMRecords
  BY <1>1, <1>4 DEF VMRecords
<1> QED  BY <1>3, <1>5, <1>6

(* Taking a VM away leaves the cluster well typed.                         *)
LEMMA TakeAwayType ==
    ASSUME ClusterTypeOK, NEW v \in VMs, NEW removed \in BOOLEAN, NEW destroyed \in BOOLEAN,
           TakeAway(v, removed, destroyed)
    PROVE  ClusterTypeOK'
<1>1. cloud' \in [VMs -> CloudStates]
  BY DEF ClusterTypeOK, TakeAway, CloudStates
<1>2. jobs' \in [VMs -> 0 .. Np]
  BY NpAssumption DEF ClusterTypeOK, TakeAway
<1> QED  BY <1>1, <1>2 DEF ClusterTypeOK, TakeAway

(* The persistent file and the loops that write it.                        *)
FileTypeOK ==
    /\ persistent_nodes \subseteq VMs
    /\ content \in [Writers -> SUBSET VMs]
    /\ dumpAt \in [Writers -> Nat]
    /\ torn \subseteq Writers

(* A thread writes the file from a list of VMs, ...                        *)
LEMMA DumpTypes ==
    ASSUME FileTypeOK, existing_instances \in Seq(VMs), NEW t \in Writers,
           DumpBegin(t) \/ DumpNext(t) \/ DumpWrite(t)
    PROVE  FileTypeOK'
<1>1. CASE DumpBegin(t)
  BY <1>1 DEF DumpBegin, FileTypeOK
<1>2. CASE DumpNext(t)
  <2>1. dumpAt[t] \in Nat /\ dumpAt[t] # 0
    BY <1>2 DEF DumpNext, FileTypeOK
  <2>2. ~LoopOver(t) => existing_instances[dumpAt[t]] \in VMs
    BY <2>1 DEF LoopOver
  <2>3. content' \in [Writers -> SUBSET VMs] /\ dumpAt' \in [Writers -> Nat]
    BY <1>2, <2>1, <2>2 DEF DumpNext, FileTypeOK
  <2> QED  BY <1>2, <2>3 DEF DumpNext, FileTypeOK
<1>3. CASE DumpWrite(t)
  BY <1>3 DEF DumpWrite, FileTypeOK
<1> QED  BY <1>1, <1>2, <1>3

(* ... while another takes a VM out of it, or puts a new one in its place. *)
LEMMA TakeOutTypes ==
    ASSUME FileTypeOK, existing_instances \in Seq(VMs), NEW v \in VMs,
           In(v, existing_instances), TakeOut(v)
    PROVE  existing_instances' \in Seq(VMs) /\ FileTypeOK'
<1>1. existing_instances' \in Seq(VMs)
  BY RemoveFirstIn DEF TakeOut
<1> QED  BY <1>1 DEF TakeOut, FileTypeOK

LEMMA NewExistingTypes ==
    ASSUME FileTypeOK, existing_instances \in Seq(VMs), NewExisting
    PROVE  existing_instances' \in Seq(VMs) /\ FileTypeOK'
<1>1. \A i \in 1 .. Len(existing_instances) : existing_instances[i] \in VMs
  OBVIOUS
<1>2. content' \in [Writers -> SUBSET VMs]
  BY <1>1 DEF NewExisting, FileTypeOK
<1> QED  BY <1>2 DEF NewExisting, FileTypeOK

-----------------------------------------------------------------------------
(* Steps.                                                                  *)

(* Every step of the cloud poller keeps the types, and leaves the thread   *)
(* where its local lists have what it takes from them next.                *)
LEMMA CloudPollerTypes ==
    ASSUME RCTypeOK, CpTypeOK, CpPositioned, CpStep
    PROVE  RCTypeOK' /\ CpTypeOK' /\ CpPositioned'
<1> USE DEF RCTypeOK, ClusterTypeOK, CpTypeOK, CpPositioned, CpStates,
            clusterVars, centerVars, listVars, flagVars, fileVars, flagsButFile, historyVars, rcButLock,
            scanLocals, launchLocals, delLocals
<1>1. CASE CpPoll
  BY <1>1, SMTT(30) DEF CpPoll
<1>2. CASE CpStop
  BY <1>2 DEF CpStop
<1>3. CASE CheckBuilding
  <2> DEFINE v == Head(cpTodo)
  <2>1. cpTodo # <<>> /\ v \in VMs /\ Tail(cpTodo) \in Seq(VMs) /\ Append(doomed, v) \in Seq(VMs)
    BY <1>3, TailIn, AppendIn DEF CheckBuilding
  <2>2. vm' \in [VMs -> VMRecords]
    <3>1. PICK s \in VmCheck(v) :
             vm' = [vm EXCEPT ![v] = [Checked(@, s) EXCEPT !.cloud_ready = (s = 0)]]
      BY <1>3 DEF CheckBuilding
    <3>2. [Checked(vm[v], s) EXCEPT !.cloud_ready = (s = 0)] \in VMRecords
      BY <2>1, CheckedType, RecordTypes
    <3> QED  BY <2>1, <3>1, <3>2
  <2>3. /\ cp' \in CpStates /\ cpTodo' \in Seq(VMs) /\ doomed' \in Seq(VMs)
        /\ cp' = "join" => cpTodo' # <<>>
    BY <1>3, <2>1 DEF CheckBuilding
  <2> QED
    <3>1. RCTypeOK'
      BY <1>3, <2>2, <2>3 DEF CheckBuilding
    <3>2. CpTypeOK'
      BY <1>3, <2>2, <2>3 DEF CheckBuilding
    <3>3. CpPositioned'
      BY <1>3, <2>2, <2>3 DEF CheckBuilding
    <3> QED  BY <3>1, <3>2, <3>3
<1>4. CASE JoinOk
  <2>1. Head(cpTodo) \in VMs /\ Tail(cpTodo) \in Seq(VMs)
    BY <1>4, TailIn DEF JoinOk
  <2>2. worker_nodes' \in [VMs -> Views]
    BY <1>4, SnapshotType DEF JoinOk
  <2>3. inTorque' \subseteq VMs /\ offline' \subseteq VMs
    BY <1>4, <2>1 DEF JoinOk, AddNode
  <2> QED  BY <1>4, <2>1, <2>2, <2>3, ZenonT(40) DEF JoinOk, AddNode
<1>5. CASE JoinFail
  <2>1. Head(cpTodo) \in VMs /\ Tail(cpTodo) \in Seq(VMs) /\ Append(doomed, Head(cpTodo)) \in Seq(VMs)
    BY <1>5, TailIn, AppendIn DEF JoinFail
  <2>2. inTorque' \subseteq VMs
    BY <1>5, <2>1 DEF JoinFail
  <2> QED  BY <1>5, <2>1, <2>2, ZenonT(40) DEF JoinFail
<1>6. CASE CheckJoined
  <2> DEFINE v == Head(cpTodo)
  <2>1. /\ v \in VMs /\ Tail(cpTodo) \in Seq(VMs)
        /\ Append(ready, v) \in Seq(VMs) /\ Append(doomed, v) \in Seq(VMs)
    BY <1>6, TailIn, AppendIn DEF CheckJoined
  <2>2. ready' \in Seq(VMs) /\ doomed' \in Seq(VMs)
    BY <1>6, <2>1 DEF CheckJoined
  <2> QED  BY <1>6, <2>1, <2>2, ZenonT(40) DEF CheckJoined
<1>7. CASE ScanEnd
  <2>1. dump' \in BOOLEAN /\ write_lock' \in BOOLEAN
    BY <1>7 DEF ScanEnd
  <2> QED  BY <1>7, <2>1 DEF ScanEnd
<1>8. CASE Settle
  <2> DEFINE v == Head(ready)
  <2>1. ready # <<>> /\ v \in VMs /\ Tail(ready) \in Seq(VMs) /\ Len(Tail(ready)) = Len(ready) - 1
    BY <1>8, TailIn DEF Settle
  <2>2. CASE In(v, starting_instances)
    <3>1. RemoveFirst(starting_instances, v) \in Seq(VMs) /\ Append(existing_instances, v) \in Seq(VMs)
      BY <2>1, <2>2, RemoveFirstIn, AppendIn
    <3>2. vm' \in [VMs -> VMRecords] /\ num_of_vm' \in Nat
      <4>1. [vm[v] EXCEPT !.dynamic = FALSE] \in VMRecords
        BY <2>1, RecordTypes
      <4>2. CASE NeedVm
        <5>1. vm' = [vm EXCEPT ![v].dynamic = FALSE] /\ num_of_vm' = num_of_vm - 1
          BY <1>8, <2>2, <4>2 DEF Settle
        <5>2. vm' \in [VMs -> VMRecords]
          BY <2>1, <4>1, <5>1
        <5>3. num_of_vm \in Nat /\ num_of_vm > 0
          BY <4>2 DEF NeedVm
        <5>4. num_of_vm - 1 \in Nat
          BY <5>3
        <5> QED  BY <5>1, <5>2, <5>4
      <4>3. CASE ~NeedVm
        BY <1>8, <2>2, <4>3 DEF Settle
      <4> QED  BY <4>2, <4>3
    <3>3. write_lock' \in BOOLEAN /\ cp' \in CpStates /\ (cp' = "settle" => ready' # <<>>)
          /\ cp' \in {"reap", "settle"}
      <4>1. /\ cp' = IF Len(ready) = 1 THEN "reap" ELSE "settle"
            /\ write_lock' = (Len(ready) # 1)
            /\ ready' = Tail(ready)
        BY <1>8, <2>2 DEF Settle
      <4>2. Len(ready) # 1 => ready' # <<>>
        <5>1. Len(ready') = Len(ready) - 1 /\ Len(ready) \in Nat
          BY <2>1, <4>1
        <5>2. Len(ready) # 1 => Len(ready') # 0
          BY <5>1
        <5> QED  BY <5>2
      <4>3. cp' \in {"reap", "settle"} /\ (cp' = "settle" => Len(ready) # 1)
        BY <4>1
      <4>4. write_lock' \in BOOLEAN
        BY <4>1
      <4> QED  BY <4>2, <4>3, <4>4
    <3> QED  BY <1>8, <2>1, <2>2, <3>1, <3>2, <3>3, ZenonT(40) DEF Settle
  <2>3. CASE ~In(v, starting_instances)
    <3>1. RCTypeOK'
      BY <1>8, <2>3 DEF Settle, CpDie
    <3>2. CpTypeOK'
      BY <1>8, <2>3 DEF Settle, CpDie
    <3>3. CpPositioned'
      BY <1>8, <2>3 DEF Settle, CpDie
    <3> QED  BY <3>1, <3>2, <3>3
  <2> QED  BY <2>2, <2>3
<1>9. CASE Reap
  <2> DEFINE v == Head(doomed)
  <2>1. doomed # <<>> /\ v \in VMs
    BY <1>9, TailIn DEF Reap
  <2>2. PICK ok \in BOOLEAN : TakeAway(v, FALSE, ok) /\ vm' = [vm EXCEPT ![v].delete_time = @ \/ ok]
    BY <1>9 DEF Reap, Outcomes
  <2>3. vm' \in [VMs -> VMRecords]
    <3>1. [vm[v] EXCEPT !.delete_time = @ \/ ok] \in VMRecords
      BY <2>1, RecordTypes
    <3> QED  BY <2>1, <2>2, <3>1
  <2>4. ClusterTypeOK'
    BY <2>1, <2>2, TakeAwayType
  <2>5. provision_waiting_list' \in Seq(Requests)
    <3>1. \A x \in {"static", "dynamic"} : Append(provision_waiting_list, x) \in Seq(Requests)
      BY AppendIn DEF Requests
    <3> QED  BY <1>9, <3>1 DEF Reap
  <2>6. asked' \subseteq VMs
    BY <1>9, <2>1 DEF Reap
  <2> QED  BY <1>9, <2>1, <2>3, <2>4, <2>5, <2>6, ZenonT(40) DEF Reap
<1>10. CASE ReapMove
  <2> DEFINE v == Head(doomed)
  <2>1. doomed # <<>> /\ v \in VMs /\ Tail(doomed) \in Seq(VMs)
    BY <1>10, TailIn DEF ReapMove
  <2>2. CASE In(v, starting_instances)
    <3>1. RemoveFirst(starting_instances, v) \in Seq(VMs) /\ Append(deleting_instances, v) \in Seq(VMs)
      BY <2>1, <2>2, RemoveFirstIn, AppendIn
    <3> QED
      <4>1. RCTypeOK'
        BY <1>10, <2>1, <2>2, <3>1 DEF ReapMove
      <4>2. CpTypeOK'
        BY <1>10, <2>1, <2>2, <3>1 DEF ReapMove
      <4>3. CpPositioned'
        BY <1>10, <2>1, <2>2, <3>1 DEF ReapMove
      <4> QED  BY <4>1, <4>2, <4>3
  <2>3. CASE ~In(v, starting_instances)
    <3>1. RCTypeOK'
      BY <1>10, <2>3 DEF ReapMove, CpDie
    <3>2. CpTypeOK'
      BY <1>10, <2>3 DEF ReapMove, CpDie
    <3>3. CpPositioned'
      BY <1>10, <2>3 DEF ReapMove, CpDie
    <3> QED  BY <3>1, <3>2, <3>3
  <2> QED  BY <2>2, <2>3
<1>11. CASE ReapEnd
  <2>1. available_number_of_nodes' \in Int
    BY <1>11, AvailableType DEF ReapEnd
  <2>2. FileTypeOK'
    BY <1>11, DumpTypes DEF ReapEnd, FileTypeOK, Writers
  <2>3. cp' \in {"dump", "wrap"} /\ dump' = FALSE
    BY <1>11 DEF ReapEnd
  <2>4. RCTypeOK'
    BY <1>11, <2>1, <2>2, ZenonT(40) DEF ReapEnd, FileTypeOK
  <2>5. CpTypeOK'
    BY <1>11, <2>3 DEF ReapEnd
  <2>6. CpPositioned'
    BY <1>11, <2>3 DEF ReapEnd
  <2> QED  BY <2>4, <2>5, <2>6
<1>12. CASE ProvOff
  BY <1>12, ZenonT(40) DEF ProvOff
<1>13. CASE LaunchBegin
  <2>1. budget' \in Nat
    BY <1>13, BatchAssumption DEF LaunchBegin
  <2>2. main' \in {"boot", "run", "forceoff", "join", "exited"} /\ provisioning' \in BOOLEAN
    BY <1>13 DEF LaunchBegin
  <2>3. cp' \in {"launch", after}
    BY <1>13 DEF LaunchBegin
  <2>4. RCTypeOK'
    BY <1>13, <2>2, ZenonT(40) DEF LaunchBegin
  <2>5. CpTypeOK'
    BY <1>13, <2>1, <2>3 DEF LaunchBegin
  <2>6. CpPositioned'
    BY <1>13, <2>3 DEF LaunchBegin
  <2> QED  BY <2>4, <2>5, <2>6
<1>14. ASSUME NEW v \in VMs, Launch(v) PROVE RCTypeOK' /\ CpTypeOK' /\ CpPositioned'
  <2>1. ClusterTypeOK' /\ Append(starting_instances, v) \in Seq(VMs)
    BY <1>14, AppendIn DEF Launch, Create, CloudStates
  <2>2. taken' \in Nat /\ budget' \in Nat
    BY <1>14 DEF Launch
  <2> QED  BY <1>14, <2>1, <2>2, SMTT(30) DEF Launch
<1>15. CASE LaunchEnd
  <2> DEFINE rest == SubSeq(provision_waiting_list, taken + 1, Len(provision_waiting_list))
  <2>1. rest \in Seq(Requests)
    BY SMTT(30)
  <2>2. StaticsIn(rest) \in Seq(Requests)
    BY <2>1, StaticsInType
  <2>3. provision_waiting_list' \in Seq(Requests)
    BY <1>15, <2>1, <2>2 DEF LaunchEnd
  <2>4. main' \in {"boot", "run", "forceoff", "join", "exited"}
    BY <1>15 DEF LaunchEnd
  <2> QED  BY <1>15, <2>3, <2>4 DEF LaunchEnd
<1>16. CASE CleanupBegin
  <2>1. cursor' \in Nat /\ cp' \in {"poll", "delRead"} /\ (cp' = "delRead" => cursor' > 0)
    BY <1>16 DEF CleanupBegin
  <2> QED
    <3>1. RCTypeOK'
      BY <1>16, <2>1 DEF CleanupBegin
    <3>2. CpTypeOK'
      BY <1>16, <2>1 DEF CleanupBegin
    <3>3. CpPositioned'
      BY <1>16, <2>1 DEF CleanupBegin
    <3> QED  BY <3>1, <3>2, <3>3
<1>17. CASE DelRead
  <2> DEFINE v == deleting_instances[cursor]
  <2>1. v \in VMs /\ cursor > 0 /\ cursor <= Len(deleting_instances)
    BY <1>17 DEF DelRead
  <2>2. vm' \in [VMs -> VMRecords]
    <3>1. PICK s \in VmCheck(v) : vm' = [vm EXCEPT ![v] = Checked(@, s)]
      BY <1>17 DEF DelRead
    <3>2. Checked(vm[v], s) \in VMRecords
      BY <2>1, CheckedType
    <3> QED  BY <2>1, <3>1, <3>2
  <2>3. gone' \in Seq(VMs) /\ executing' \in Seq(VMs)
    <3>1. Append(gone, v) \in Seq(VMs) /\ Append(executing, v) \in Seq(VMs)
      BY <2>1, AppendIn
    <3> QED  BY <1>17, <3>1 DEF DelRead
  <2>4. /\ cp' \in {"delRead", "delAct"} /\ todoDel' \in {"none", "destroy", "remove", "both"}
        /\ cursor' \in Nat /\ cursor' > 0
        /\ cp' = "delAct" => cursor' <= Len(deleting_instances)
    <3>1. PICK choice : IF choice \in {"destroy", "remove", "both"}
                        THEN cp' = "delAct" /\ todoDel' = choice /\ UNCHANGED cursor
                        ELSE cursor' = cursor + 1 /\ UNCHANGED <<cp, todoDel>>
      BY <1>17, ZenonT(40) DEF DelRead
    <3>2. CASE choice \in {"destroy", "remove", "both"}
      BY <1>17, <2>1, <3>1, <3>2 DEF DelRead
    <3>3. CASE choice \notin {"destroy", "remove", "both"}
      BY <1>17, <2>1, <3>1, <3>3 DEF DelRead
    <3> QED  BY <3>2, <3>3
  <2> QED  BY <1>17, <2>2, <2>3, <2>4, ZenonT(40) DEF DelRead
<1>18. CASE DelAct
  <2> DEFINE v == deleting_instances[cursor]
  <2>1. v \in VMs
    BY <1>18, SMTT(30) DEF DelAct
  <2>2. PICK removed \in BOOLEAN, ok \in BOOLEAN :
          /\ TakeAway(v, removed /\ todoDel # "destroy", ok /\ todoDel # "remove")
          /\ vm' = [vm EXCEPT ![v].delete_time = @ \/ todoDel = "both" \/ (ok /\ todoDel = "destroy")]
    BY <1>18 DEF DelAct, Outcomes
  <2>3. vm' \in [VMs -> VMRecords]
    <3>1. [vm[v] EXCEPT !.delete_time = @ \/ todoDel = "both" \/ (ok /\ todoDel = "destroy")] \in VMRecords
      BY <2>1, RecordTypes
    <3> QED  BY <2>1, <2>2, <3>1
  <2>4. ClusterTypeOK'
    BY <2>1, <2>2, TakeAwayType
  <2>5. asked' \subseteq VMs
    BY <1>18, <2>1 DEF DelAct
  <2>6. lost' \subseteq VMs
    BY <1>18, <2>1 DEF DelAct
  <2>7. cursor' \in Nat /\ cursor' > 0 /\ todoDel' = "none" /\ cp' = "delRead"
    BY <1>18, SMTT(30) DEF DelAct
  <2> QED
    <3>1. RCTypeOK'
      BY <1>18, <2>3, <2>4, <2>5, <2>6, <2>7 DEF DelAct
    <3>2. CpTypeOK'
      BY <1>18, <2>3, <2>4, <2>5, <2>6, <2>7 DEF DelAct
    <3>3. CpPositioned'
      BY <1>18, <2>3, <2>4, <2>5, <2>6, <2>7 DEF DelAct
    <3> QED  BY <3>1, <3>2, <3>3
<1>19. CASE DelEnd
  <2>1. dump' \in BOOLEAN
    BY <1>19 DEF DelEnd
  <2> QED  BY <1>19, <2>1 DEF DelEnd
<1>20. CASE Bury
  <2> DEFINE v == Head(gone)
  <2>1. v \in VMs /\ Tail(gone) \in Seq(VMs)
    BY <1>20, TailIn DEF Bury
  <2>2. CASE In(v, deleting_instances)
    <3>1. RemoveFirst(deleting_instances, v) \in Seq(VMs) /\ cleaned' \subseteq VMs
      BY <1>20, <2>1, <2>2, RemoveFirstIn DEF Bury
    <3>2. provision_waiting_list' \in Seq(Requests) /\ num_of_vm' \in Nat
      <4>1. Append(provision_waiting_list, "static") \in Seq(Requests)
        BY AppendIn DEF Requests
      <4>2. CASE Replaced(v)
        <5>1. /\ provision_waiting_list' = Append(provision_waiting_list, "static")
              /\ num_of_vm' = num_of_vm + 1
          BY <1>20, <2>2, <4>2 DEF Bury
        <5> QED  BY <4>1, <5>1
      <4>3. CASE ~Replaced(v)
        BY <1>20, <2>2, <4>3 DEF Bury
      <4> QED  BY <4>2, <4>3
    <3> QED  BY <1>20, <2>1, <2>2, <3>1, <3>2, ZenonT(40) DEF Bury
  <2>3. CASE ~In(v, deleting_instances)
    <3>1. RCTypeOK'
      BY <1>20, <2>3 DEF Bury, CpDie
    <3>2. CpTypeOK'
      BY <1>20, <2>3 DEF Bury, CpDie
    <3>3. CpPositioned'
      BY <1>20, <2>3 DEF Bury, CpDie
    <3> QED  BY <3>1, <3>2, <3>3
  <2> QED  BY <2>2, <2>3
<1>21. CASE Back
  <2> DEFINE v == Head(executing)
  <2>1. executing # <<>> /\ v \in VMs /\ Append(existing_instances, v) \in Seq(VMs)
    BY <1>21, TailIn, AppendIn DEF Back
  <2>2. CASE In(v, deleting_instances)
    <3>1. RemoveFirst(deleting_instances, v) \in Seq(VMs)
      BY <2>2, RemoveFirstIn
    <3> QED
      <4>1. RCTypeOK'
        BY <1>21, <2>1, <2>2, <3>1 DEF Back
      <4>2. CpTypeOK'
        BY <1>21, <2>1, <2>2, <3>1 DEF Back
      <4>3. CpPositioned'
        BY <1>21, <2>1, <2>2, <3>1 DEF Back
      <4> QED  BY <4>1, <4>2, <4>3
  <2>3. CASE ~In(v, deleting_instances)
    <3>1. RCTypeOK'
      BY <1>21, <2>1, <2>3 DEF Back, CpDie
    <3>2. CpTypeOK'
      BY <1>21, <2>1, <2>3 DEF Back, CpDie
    <3>3. CpPositioned'
      BY <1>21, <2>1, <2>3 DEF Back, CpDie
    <3> QED  BY <3>1, <3>2, <3>3
  <2> QED  BY <2>2, <2>3
<1>22. CASE ReleaseNode
  <2>1. Tail(executing) \in Seq(VMs)
    BY <1>22, TailIn DEF ReleaseNode
  <2>2. ClusterTypeOK'
    BY <1>22 DEF ReleaseNode, Release
  <2> QED  BY <1>22, <2>1, <2>2, ZenonT(40) DEF ReleaseNode
<1>23. CASE CleanupEnd
  BY <1>23, ZenonT(40) DEF CleanupEnd
<1>24. CASE WrapDel
  <2>1. available_number_of_nodes' \in Int
    BY <1>24, AvailableType DEF WrapDel
  <2>2. FileTypeOK'
    BY <1>24, DumpTypes DEF WrapDel, FileTypeOK, Writers
  <2>3. cp' \in {"dumpDel", "relaunch"} /\ dump' = FALSE
    BY <1>24 DEF WrapDel
  <2>4. RCTypeOK'
    BY <1>24, <2>1, <2>2, ZenonT(40) DEF WrapDel, FileTypeOK
  <2>5. CpTypeOK'
    BY <1>24, <2>3 DEF WrapDel
  <2>6. CpPositioned'
    BY <1>24, <2>3 DEF WrapDel
  <2> QED  BY <2>4, <2>5, <2>6
<1>25. CASE Wrap
  <2>1. cp' \in {"provOff", "launchBegin"} /\ after' \in {"cleanup", "poll"}
    BY <1>25 DEF Wrap
  <2>2. RCTypeOK'
    BY <1>25, ZenonT(40) DEF Wrap
  <2>3. CpTypeOK' /\ CpPositioned'
    BY <1>25, <2>1 DEF Wrap
  <2> QED  BY <2>2, <2>3
<1>26. CASE Relaunch
  <2>1. cp' \in {"launchBegin", "poll"} /\ after' \in {"cleanup", "poll"}
    BY <1>26 DEF Relaunch
  <2>2. RCTypeOK'
    BY <1>26, ZenonT(40) DEF Relaunch
  <2>3. CpTypeOK' /\ CpPositioned'
    BY <1>26, <2>1 DEF Relaunch
  <2> QED  BY <2>2, <2>3
<1>27. CASE CpDumpNext \/ CpDumpEnd
  <2>1. FileTypeOK'
    BY <1>27, DumpTypes DEF CpDumpNext, CpDumpEnd, FileTypeOK, Writers
  <2>2. cp' \in {"dump", "dumpDel", "wrap", "relaunch"}
    BY <1>27 DEF CpDumpNext, CpDumpEnd
  <2>3. UNCHANGED fileKeep
    BY <1>27, Zenon DEF CpDumpNext, CpDumpEnd, fileKeep
  <2>4. RCTypeOK'
    BY <2>1, <2>3, ZenonT(40) DEF FileTypeOK, fileKeep
  <2>5. CpTypeOK' /\ CpPositioned'
    BY <2>2, <2>3 DEF fileKeep
  <2> QED  BY <2>4, <2>5
<1>28. CASE CpRaise
  <2>1. vm' \in [VMs -> VMRecords]
    <3>1. \A v \in VMs : Checked(vm[v], 1) \in VMRecords
      BY CheckedType
    <3>2. vm' = vm \/ \E v \in VMs : vm' = [vm EXCEPT ![v] = Checked(vm[v], 1)]
      BY <1>28 DEF CpRaise, Checking
    <3> QED  BY <3>1, <3>2
  <2>2. cp' = "dead" /\ write_lock' = FALSE
    BY <1>28 DEF CpRaise, CpDie
  <2>3. RCTypeOK'
    BY <1>28, <2>1, <2>2 DEF CpRaise
  <2>4. CpTypeOK' /\ CpPositioned'
    BY <1>28, <2>2 DEF CpRaise
  <2> QED  BY <2>3, <2>4
<1> QED
  BY <1>1, <1>2, <1>3, <1>4, <1>5, <1>6, <1>7, <1>8, <1>9, <1>10, <1>11, <1>12, <1>13, <1>14, <1>15, <1>16, <1>17, <1>18, <1>19, <1>20, <1>21, <1>22, <1>23, <1>24, <1>25, <1>26, <1>27, <1>28 DEF CpStep

(* Every step of the job poller keeps the types.                           *)
LEMMA JobPollerTypes ==
    ASSUME RCTypeOK, JpTypeOK, JpStep
    PROVE  RCTypeOK' /\ JpTypeOK'
<1> USE DEF RCTypeOK, ClusterTypeOK, JpTypeOK, JpStates,
            clusterVars, centerVars, listVars, flagVars, fileVars, flagsButFile, historyVars, jpKeep
<1>1. CASE JpPoll
  <2>1. worker_nodes' \in [VMs -> Views] /\ jp' \in JpStates
    BY <1>1, SnapshotType DEF JpPoll
  <2> QED  BY <1>1, <2>1 DEF JpPoll
<1>2. CASE JpRaise
  BY <1>2 DEF JpRaise
<1>3. CASE JpDecide
  <2>1. jp' \in JpStates /\ jpTodo' \subseteq VMs /\ jpNodes' \in [VMs -> Views]
    BY <1>3 DEF JpDecide
  <2> QED  BY <1>3, <2>1 DEF JpDecide
<1>4. CASE JpStop \/ JpDumpNext \/ JpDumpEnd
  <2>1. FileTypeOK'
    BY <1>4, DumpTypes DEF JpStop, JpDumpNext, JpDumpEnd, FileTypeOK, Writers
  <2>2. jp' \in {"dump", "stopped"}
    BY <1>4 DEF JpStop, JpDumpNext, JpDumpEnd
  <2> QED  BY <1>4, <2>1, <2>2 DEF JpStop, JpDumpNext, JpDumpEnd, FileTypeOK, jpFileKeep
<1>5. ASSUME NEW v \in VMs, SkipNode(v) PROVE RCTypeOK' /\ JpTypeOK'
  BY <1>5 DEF SkipNode
<1>6. ASSUME NEW v \in VMs, Inspect(v) PROVE RCTypeOK' /\ JpTypeOK'
  <2>1. PICK word \in CheckNode(v), held \in BOOLEAN :
          LET r == Polled(v, word) IN
          /\ Hold(v, v \in OldImage /\ held)
          /\ \/ /\ vm' = [vm EXCEPT ![v] = r]
                /\ jp' \in {"idleKill", "retire"} /\ jpVm' = {v}
             \/ /\ \E u \in VMs :
                     vm' = [vm EXCEPT ![v] = [r EXCEPT !.dynamic = TRUE], ![u].dynamic = FALSE]
                /\ jp' = "idleKill" /\ jpVm' = {v}
             \/ /\ vm' = [vm EXCEPT ![v] = r]
                /\ UNCHANGED <<jp, jpVm>>
    BY <1>6 DEF Inspect, Outcomes, SwapPartners
  <2> DEFINE r == Polled(v, word)
  <2>2. r \in VMRecords
    BY PolledType
  <2>3. vm' \in [VMs -> VMRecords]
    <3>1. CASE vm' = [vm EXCEPT ![v] = r]
      BY <2>2, <3>1
    <3>2. ASSUME NEW u \in VMs,
                 vm' = [vm EXCEPT ![v] = [r EXCEPT !.dynamic = TRUE], ![u].dynamic = FALSE]
          PROVE  vm' \in [VMs -> VMRecords]
      <4> DEFINE w == [vm EXCEPT ![v] = [r EXCEPT !.dynamic = TRUE]]
      <4>1. [r EXCEPT !.dynamic = TRUE] \in VMRecords
        BY <2>2, RecordTypes
      <4>2. w \in [VMs -> VMRecords]
        BY <4>1
      <4>3. vm' = [w EXCEPT ![u] = [w[u] EXCEPT !.dynamic = FALSE]]
        BY <3>2
      <4> HIDE DEF w
      <4>4. [w[u] EXCEPT !.dynamic = FALSE] \in VMRecords
        BY <4>2, RecordTypes
      <4> QED  BY <4>2, <4>3, <4>4
    <3> QED  BY <2>1, <3>1, <3>2
  <2>4. jp' \in JpStates /\ jpVm' \subseteq VMs
    BY <2>1
  <2>5. ClusterTypeOK'
    BY <2>1 DEF Hold
  <2>6. jpTodo' \subseteq VMs
    BY <1>6 DEF Inspect
  <2> QED  BY <1>6, <2>3, <2>4, <2>5, <2>6 DEF Inspect
<1>7. ASSUME NEW v \in VMs, IdleKill(v) PROVE RCTypeOK' /\ JpTypeOK'
  <2>1. PICK removed \in BOOLEAN, ok \in BOOLEAN :
          /\ TakeAway(v, removed, ok)
          /\ vm' = [vm EXCEPT ![v].force_off = TRUE, ![v].delete_time = @ \/ ok]
    BY <1>7 DEF IdleKill, Outcomes
  <2>2. ClusterTypeOK'
    BY <2>1, TakeAwayType
  <2>3. vm' \in [VMs -> VMRecords]
    BY <2>1, ForcedOffType
  <2>4. asked' \subseteq VMs
    BY <1>7 DEF IdleKill
  <2> QED  BY <1>7, <2>2, <2>3, <2>4 DEF IdleKill
<1>8. ASSUME NEW v \in VMs, IdleUnlist(v) PROVE RCTypeOK' /\ JpTypeOK'
  BY <1>8 DEF IdleUnlist
<1>9. ASSUME NEW v \in VMs, IdleRemove(v) PROVE RCTypeOK' /\ JpTypeOK'
  <2>1. existing_instances' \in Seq(VMs) /\ FileTypeOK'
    BY <1>9, TakeOutTypes DEF IdleRemove, FileTypeOK
  <2>2. jp' \in JpStates
    BY <1>9 DEF IdleRemove
  <2> QED  BY <1>9, <2>1, <2>2 DEF IdleRemove, FileTypeOK
<1>10. CASE IdleWrap
  <2>1. available_number_of_nodes' \in Int
    BY <1>10, AvailableType DEF IdleWrap
  <2> QED  BY <1>10, <2>1 DEF IdleWrap
<1>11. ASSUME NEW v \in VMs, Retire(v) PROVE RCTypeOK' /\ JpTypeOK'
  <2>1. existing_instances' \in Seq(VMs) /\ FileTypeOK'
    BY <1>11, TakeOutTypes DEF Retire, FileTypeOK
  <2>2. Append(deleting_instances, v) \in Seq(VMs)
    BY AppendIn
  <2>3. jp' \in JpStates
    BY <1>11 DEF Retire
  <2> QED  BY <1>11, <2>1, <2>2, <2>3 DEF Retire, FileTypeOK
<1>12. CASE JpScanEnd
  <2>1. available_number_of_nodes' \in Int /\ jp' \in JpStates /\ jpNodes' \in [VMs -> Views]
    BY <1>12, AvailableType, SnapshotType DEF JpScanEnd
  <2> QED  BY <1>12, <2>1 DEF JpScanEnd
<1>13. CASE Determine
  <2>1. NumDynamic * Np \in Nat
    BY NumDynamicAssumption, NpAssumption
  <2>2. jpCount' \in Nat /\ jp' \in JpStates
    BY <1>13, <2>1 DEF Determine
  <2> QED  BY <1>13, <2>2 DEF Determine
<1>14. CASE Extend
  <2>1. Copies(jpCount, "dynamic") \in Seq(Requests)
    BY CopiesType DEF Requests
  <2>2. provision_waiting_list \o Copies(jpCount, "dynamic") \in Seq(Requests)
    BY <2>1, ConcatProperties
  <2> QED  BY <1>14, <2>2 DEF Extend
<1> QED
  BY <1>1, <1>2, <1>3, <1>4, <1>5, <1>6, <1>7, <1>8, <1>9, <1>10, <1>11, <1>12, <1>13, <1>14
  DEF JpStep

(* The requests of the info server, except forceoff.                       *)
LEMMA InfoServerTypes ==
    ASSUME RCTypeOK, ControlTypeOK, FoPositioned, InfoStep
    PROVE  RCTypeOK' /\ ControlTypeOK' /\ FoPositioned'
<1> USE DEF RCTypeOK, ClusterTypeOK, ControlTypeOK, FoPositioned, Callers, FoStates, KillSteps,
            clusterVars, centerVars, listVars, flagVars, fileVars, flagsButFile, historyVars, controlVars, foVars
<1>1. CASE ToggleSleepMode
  BY <1>1 DEF ToggleSleepMode
<1>2. CASE ForceoffRequest
  BY <1>2 DEF ForceoffRequest
<1>3. ASSUME NEW v \in VMs, KillBegin(v) PROVE RCTypeOK' /\ ControlTypeOK' /\ FoPositioned'
  BY <1>3 DEF KillBegin
<1>4. ASSUME NEW v \in VMs, KillHold(v) PROVE RCTypeOK' /\ ControlTypeOK' /\ FoPositioned'
  <2>1. [vm[v] EXCEPT !.force_off = FALSE] \in VMRecords
    BY RecordTypes
  <2>2. vm' \in [VMs -> VMRecords]
    BY <1>4, <2>1 DEF KillHold
  <2>3. ClusterTypeOK'
    BY <1>4 DEF KillHold, Hold
  <2>4. killing' \subseteq VMs \X KillSteps
    BY <1>4 DEF KillHold
  <2> QED
    <3>1. RCTypeOK'
      BY <1>4, <2>2, <2>3 DEF KillHold
    <3>2. ControlTypeOK' /\ FoPositioned'
      BY <1>4, <2>4 DEF KillHold
    <3> QED  BY <3>1, <3>2
<1>5. ASSUME NEW v \in VMs, KillMove(v) PROVE RCTypeOK' /\ ControlTypeOK' /\ FoPositioned'
  <2>1. existing_instances' \in Seq(VMs) /\ FileTypeOK'
    BY <1>5, TakeOutTypes DEF KillMove, FileTypeOK
  <2>2. Append(deleting_instances, v) \in Seq(VMs)
    BY AppendIn
  <2> QED  BY <1>5, <2>1, <2>2 DEF KillMove, FileTypeOK
<1> QED  BY <1>1, <1>2, <1>3, <1>4, <1>5 DEF InfoStep

(* The lists that forceoff runs over, and those it leaves to another       *)
(* caller, are lists of VMs.                                               *)
LEMMA OldListTypes ==
    ASSUME foOld \in [Callers -> Seq(Seq(VMs))], NEW list \in Seq(VMs)
    PROVE  /\ \A c \in Callers : RunsOver(c, list) \in Seq(VMs)
           /\ \A loop : KeepsOld(loop, list) \in [Callers -> Seq(Seq(VMs))]
<1>1. ASSUME NEW c \in Callers PROVE RunsOver(c, list) \in Seq(VMs)
  <2>1. foOld[c] \in Seq(Seq(VMs))
    OBVIOUS
  <2>2. foOld[c] # <<>> => Head(foOld[c]) \in Seq(VMs)
    BY <2>1
  <2> QED  BY <2>2 DEF RunsOver
<1>2. <<list>> \in Seq(Seq(VMs))
  OBVIOUS
<1>3. \A loop : KeepsOld(loop, list) \in [Callers -> Seq(Seq(VMs))]
  BY <1>2 DEF KeepsOld
<1> QED  BY <1>1, <1>3

(* The entry forceoff is about to destroy.                                 *)
LEMMA ForceoffEntry ==
    ASSUME foOld \in [Callers -> Seq(Seq(VMs))], foNext \in [Callers -> Nat], FoPositioned,
           NEW c \in Callers, fo[c] \in {"existing", "starting"}, NEW list \in Seq(VMs),
           foNext[c] <= Len(RunsOver(c, list))
    PROVE  RunsOver(c, list)[foNext[c]] \in VMs
<1>1. RunsOver(c, list) \in Seq(VMs)
  BY OldListTypes
<1>2. foNext[c] \in Nat /\ foNext[c] > 0
  BY DEF FoPositioned
<1> QED  BY <1>1, <1>2

(* forceoff, by either of its callers.                                     *)
LEMMA ForceoffTypes ==
    ASSUME RCTypeOK, ControlTypeOK, FoPositioned, NEW c \in Callers, ForceoffStep(c)
    PROVE  RCTypeOK' /\ ControlTypeOK' /\ FoPositioned'
<1> USE DEF RCTypeOK, ClusterTypeOK, ControlTypeOK, FoPositioned, FoStates,
            clusterVars, centerVars, listVars, flagVars, fileVars, flagsButFile, historyVars, controlVars, foVars
<1>1. CASE ForceoffLoopEnd(c)
  <2>1. fo' \in [Callers -> FoStates] /\ foNext' \in [Callers -> Nat]
    BY <1>1 DEF ForceoffLoopEnd
  <2>2. foOld' \in [Callers -> Seq(Seq(VMs))]
    BY <1>1 DEF ForceoffLoopEnd
  <2> QED  BY <1>1, <2>1, <2>2 DEF ForceoffLoopEnd
<1>2. CASE ForceoffExisting(c)
  <2> DEFINE v == RunsOver(c, existing_instances)[foNext[c]]
  <2>1. v \in VMs
    BY <1>2, ForceoffEntry DEF ForceoffExisting
  <2>2. PICK removed \in BOOLEAN, ok \in BOOLEAN :
          /\ TakeAway(v, removed, ok)
          /\ vm' = [vm EXCEPT ![v].force_off = TRUE, ![v].delete_time = @ \/ ok]
    BY <1>2 DEF ForceoffExisting, Outcomes
  <2>3. ClusterTypeOK'
    BY <2>1, <2>2, TakeAwayType
  <2>4. vm' \in [VMs -> VMRecords]
    BY <2>1, <2>2, ForcedOffType
  <2>5. asked' \subseteq VMs
    BY <1>2, <2>1 DEF ForceoffExisting
  <2>6. foNext' \in [Callers -> Nat] /\ FoPositioned'
    BY <1>2, SMTT(30) DEF ForceoffExisting
  <2> QED  BY <1>2, <2>3, <2>4, <2>5, <2>6, ZenonT(40) DEF ForceoffExisting
<1>3. CASE ForceoffMoveExisting(c)
  <2>1. deleting_instances \o existing_instances \in Seq(VMs)
    BY ConcatProperties
  <2>2. fo' \in [Callers -> FoStates] /\ foNext' \in [Callers -> Nat] /\ FoPositioned'
    BY <1>3 DEF ForceoffMoveExisting
  <2>3. foOld' \in [Callers -> Seq(Seq(VMs))]
    BY <1>3, OldListTypes DEF ForceoffMoveExisting
  <2>4. existing_instances' \in Seq(VMs) /\ FileTypeOK'
    BY <1>3, NewExistingTypes DEF ForceoffMoveExisting, FileTypeOK
  <2> QED  BY <1>3, <2>1, <2>2, <2>3, <2>4, SMTT(30) DEF ForceoffMoveExisting, FileTypeOK
<1>4. CASE ForceoffStarting(c)
  <2> DEFINE v == RunsOver(c, starting_instances)[foNext[c]]
  <2>1. v \in VMs
    BY <1>4, ForceoffEntry DEF ForceoffStarting
  <2>2. PICK ok \in BOOLEAN : /\ TakeAway(v, FALSE, ok)
                              /\ vm' = [vm EXCEPT ![v].delete_time = @ \/ ok]
    BY <1>4 DEF ForceoffStarting, Outcomes
  <2>3. vm' \in [VMs -> VMRecords]
    <3>1. [vm[v] EXCEPT !.delete_time = @ \/ ok] \in VMRecords
      BY <2>1, RecordTypes
    <3> QED  BY <2>1, <2>2, <3>1
  <2>4. ClusterTypeOK'
    BY <2>1, <2>2, TakeAwayType
  <2>5. asked' \subseteq VMs
    BY <1>4, <2>1 DEF ForceoffStarting
  <2>6. foNext' \in [Callers -> Nat] /\ FoPositioned'
    BY <1>4 DEF ForceoffStarting
  <2> QED  BY <1>4, <2>3, <2>4, <2>5, <2>6 DEF ForceoffStarting
<1>5. CASE ForceoffMoveStarting(c)
  <2>1. deleting_instances \o starting_instances \in Seq(VMs)
    BY ConcatProperties
  <2>2. fo' \in [Callers -> FoStates] /\ FoPositioned'
    BY <1>5 DEF ForceoffMoveStarting
  <2>3. main' \in {"boot", "run", "forceoff", "join", "exited"}
    BY <1>5 DEF ForceoffMoveStarting
  <2>4. foOld' \in [Callers -> Seq(Seq(VMs))]
    BY <1>5, OldListTypes DEF ForceoffMoveStarting
  <2> QED  BY <1>5, <2>1, <2>2, <2>3, <2>4 DEF ForceoffMoveStarting
<1> QED  BY <1>1, <1>2, <1>3, <1>4, <1>5 DEF ForceoffStep

(* The main thread.                                                        *)
LEMMA MainTypes ==
    ASSUME RCTypeOK, ControlTypeOK, FoPositioned, MainQuit(Died) \/ MainExit(Joined)
    PROVE  RCTypeOK' /\ ControlTypeOK' /\ FoPositioned'
<1> USE DEF RCTypeOK, ClusterTypeOK, ControlTypeOK, FoPositioned, Callers, FoStates,
            clusterVars, centerVars, listVars, flagVars, fileVars, flagsButFile, historyVars, controlVars, foVars
<1>1. CASE MainQuit(Died)
  BY <1>1 DEF MainQuit
<1>2. CASE MainExit(Joined)
  BY <1>2 DEF MainExit
<1> QED  BY <1>1, <1>2

(* What the cloud and Torque do by themselves.                             *)
LEMMA EnvironmentTypes ==
    ASSUME ClusterTypeOK, NEW v \in VMs, Environment(v)
    PROVE  ClusterTypeOK'
<1> USE DEF ClusterTypeOK, CloudStates
<1>1. CASE Progress(v) \/ Fail(v) \/ Vanish(v) \/ GoDown(v)
  BY <1>1 DEF Progress, Fail, Vanish, GoDown, MoveServer
<1>2. CASE TimePasses(v)
  BY <1>2 DEF TimePasses
<1>3. CASE JobStart(v)
  BY <1>3, NpAssumption DEF JobStart
<1>4. CASE JobEnd(v)
  BY <1>4, NpAssumption DEF JobEnd
<1> QED  BY <1>1, <1>2, <1>3, <1>4 DEF Environment

-----------------------------------------------------------------------------
(* The daemon.                                                             *)

(* The state the constructor leaves.                                       *)
LEMMA InitTypes == Init => TypeInv
<1> SUFFICES ASSUME Init PROVE TypeInv
  OBVIOUS
<1>1. Cardinality(Loaded) \in Nat
  BY VMsAssumption, LoadedAssumption, FS_Subset, FS_CardinalityType
<1>2. existing_instances \in Seq(VMs)
  <2>1. existing_instances \in [1 .. Cardinality(Loaded) -> VMs]
    BY LoadedAssumption DEF Init, RCInit, SetToSeqs
  <2> QED  BY <1>1, <2>1
<1>3. provision_waiting_list \in Seq(Requests)
  BY StaticAssumption, CopiesType DEF Init, RCInit, Requests
<1>4. NewVM \in VMRecords /\ LoadedVM \in VMRecords
  <2>1. NoTime \in NoTime .. TimeCap
    BY TimesAssumption DEF NoTime, TimeCap
  <2>2. NewVM \in VMRecords
    BY <2>1 DEF NewVM, VMRecords
  <2>3. LoadedVM \in VMRecords
    BY <2>2 DEF LoadedVM, VMRecords
  <2> QED  BY <2>2, <2>3
<1>5. ClusterTypeOK
  BY NpAssumption, LoadedAssumption DEF Init, RCInit, ClusterTypeOK, CloudStates
<1>6. RCTypeOK
  <2>1. vm \in [VMs -> VMRecords]
    BY <1>4 DEF Init, RCInit
  <2>2. /\ starting_instances \in Seq(VMs) /\ deleting_instances \in Seq(VMs)
        /\ worker_nodes \in [VMs -> Views]
    BY SnapshotType DEF Init, RCInit
  <2>3. /\ available_number_of_nodes \in Int /\ num_of_vm \in Nat
        /\ persistent_nodes \subseteq VMs
    BY <1>1, NumDynamicAssumption, StaticAssumption, LoadedAssumption DEF Init, RCInit
  <2>4. main \in {"boot", "run", "forceoff", "join", "exited"}
    BY DEF Init, RCInit
  <2>5. /\ provisioning \in BOOLEAN /\ sleep_mode \in BOOLEAN /\ write_lock \in BOOLEAN
        /\ asked \subseteq VMs /\ cleaned \subseteq VMs /\ lost \subseteq VMs
    BY DEF Init, RCInit
  <2>6. FileTypeOK
    BY LoadedAssumption DEF Init, RCInit, FileTypeOK
  <2> QED  BY <1>2, <1>3, <1>5, <2>1, <2>2, <2>3, <2>4, <2>5, <2>6 DEF RCTypeOK, FileTypeOK
<1>7. CpTypeOK /\ CpPositioned
  <2>1. cp = "launchBegin"
    BY DEF Init, CpInit
  <2>2. CpTypeOK
    <3>1. cp \in CpStates
      BY <2>1 DEF CpStates
    <3>2. /\ cpTodo = <<>> /\ ready = <<>> /\ doomed = <<>> /\ gone = <<>> /\ executing = <<>>
          /\ budget = 0 /\ taken = 0 /\ cursor = 0 /\ after = "poll" /\ todoDel = "none"
      BY DEF Init, CpInit
    <3>3. dump \in BOOLEAN
      BY DEF Init, CpInit
    <3> QED  BY <3>1, <3>2, <3>3 DEF CpTypeOK
  <2>3. CpPositioned
    BY <2>1 DEF CpPositioned
  <2> QED  BY <2>2, <2>3
<1>8. JpTypeOK
  BY SnapshotType DEF Init, JpInit, JpTypeOK, JpStates
<1>9. ControlTypeOK /\ FoPositioned
  BY DEF Init, ControlInit, ControlTypeOK, FoPositioned, FoStates
<1> QED  BY <1>6, <1>7, <1>8, <1>9 DEF TypeInv, TypeOK, Positioned

(* Every step of the daemon and its surroundings keeps the invariant.      *)
LEMMA NextTypes == TypeInv /\ [Next]_vars => TypeInv'
<1> SUFFICES ASSUME TypeInv, [Next]_vars PROVE TypeInv'
  OBVIOUS
<1> USE DEF TypeInv, TypeOK, Positioned
<1>1. CASE CloudPollerStep
  <2>1. RCTypeOK' /\ CpTypeOK' /\ CpPositioned'
    BY <1>1, CloudPollerTypes DEF CloudPollerStep
  <2>2. JpTypeOK' /\ ControlTypeOK' /\ FoPositioned'
    BY <1>1 DEF CloudPollerStep, jpVars, controlVars, foVars, JpTypeOK, ControlTypeOK, FoPositioned
  <2> QED  BY <2>1, <2>2
<1> DEFINE Longer == Len(deleting_instances) <= Len(deleting_instances')
<1>2. ASSUME UNCHANGED cpVars, Longer PROVE CpTypeOK' /\ CpPositioned'
  BY <1>2 DEF cpVars, CpTypeOK, CpPositioned, RCTypeOK
<1>3. deleting_instances \in Seq(VMs) /\ existing_instances \in Seq(VMs) /\ starting_instances \in Seq(VMs)
  BY DEF RCTypeOK
<1>4. UNCHANGED deleting_instances => Longer
  BY <1>3
<1>5. ASSUME NEW t \in Seq(VMs), deleting_instances' = deleting_instances \o t PROVE Longer
  BY <1>3, <1>5, ConcatProperties
<1>6. ASSUME NEW v \in VMs, deleting_instances' = Append(deleting_instances, v) PROVE Longer
  BY <1>3, <1>6
<1> HIDE DEF Longer
<1>7. CASE JobPollerStep
  <2>1. RCTypeOK' /\ JpTypeOK'
    BY <1>7, JobPollerTypes DEF JobPollerStep
  <2>2. Longer
    <3>1. CASE \E v \in VMs : Retire(v)
      BY <1>6, <3>1 DEF Retire
    <3>2. CASE ~ \E v \in VMs : Retire(v)
      <4>1. UNCHANGED deleting_instances
        BY <1>7, <3>2 DEF JobPollerStep, JpStep, JpPoll, JpRaise, JpDecide, JpStop, JpDumpNext,
             JpDumpEnd, SkipNode, Inspect, IdleKill, IdleUnlist, IdleRemove, IdleWrap, JpScanEnd,
             Determine, Extend, jpKeep, jpFileKeep, centerVars, listVars
      <4> QED  BY <1>4, <4>1
    <3> QED  BY <3>1, <3>2
  <2>3. ControlTypeOK' /\ FoPositioned'
    BY <1>7 DEF JobPollerStep, controlVars, foVars, ControlTypeOK, FoPositioned
  <2> QED  BY <1>2, <1>7, <2>1, <2>2, <2>3 DEF JobPollerStep
<1>8. CASE InfoServerStep
  <2>1. RCTypeOK' /\ ControlTypeOK' /\ FoPositioned'
    BY <1>8, InfoServerTypes DEF InfoServerStep
  <2>2. Longer
    <3>1. CASE \E v \in VMs : KillMove(v)
      BY <1>6, <3>1 DEF KillMove
    <3>2. CASE ~ \E v \in VMs : KillMove(v)
      <4>1. UNCHANGED deleting_instances
        BY <1>8, <3>2 DEF InfoServerStep, InfoStep, ToggleSleepMode, ForceoffRequest, KillBegin,
             KillHold, centerVars, listVars
      <4> QED  BY <1>4, <4>1
    <3> QED  BY <3>1, <3>2
  <2>3. JpTypeOK'
    BY <1>8 DEF InfoServerStep, jpVars, JpTypeOK
  <2> QED  BY <1>2, <1>8, <2>1, <2>2, <2>3 DEF InfoServerStep
<1>9. ASSUME NEW c \in Callers, ForceoffBy(c) PROVE TypeInv'
  <2>1. RCTypeOK' /\ ControlTypeOK' /\ FoPositioned'
    BY <1>9, ForceoffTypes DEF ForceoffBy
  <2>2. Longer
    <3>1. CASE ForceoffMoveExisting(c) \/ ForceoffMoveStarting(c)
      BY <1>3, <1>5, <3>1 DEF ForceoffMoveExisting, ForceoffMoveStarting
    <3>2. CASE ForceoffLoopEnd(c) \/ ForceoffExisting(c) \/ ForceoffStarting(c)
      <4>1. UNCHANGED deleting_instances
        BY <3>2 DEF ForceoffLoopEnd, ForceoffExisting, ForceoffStarting, centerVars, listVars
      <4> QED  BY <1>4, <4>1
    <3> QED  BY <1>9, <3>1, <3>2 DEF ForceoffBy, ForceoffStep
  <2>3. JpTypeOK'
    BY <1>9 DEF ForceoffBy, jpVars, JpTypeOK
  <2> QED  BY <1>2, <1>9, <2>1, <2>2, <2>3 DEF ForceoffBy
<1>10. CASE MainStep
  <2>1. RCTypeOK' /\ ControlTypeOK' /\ FoPositioned'
    BY <1>10, MainTypes DEF MainStep
  <2>2. UNCHANGED deleting_instances
    BY <1>10 DEF MainStep, MainQuit, MainExit, listVars
  <2>3. JpTypeOK'
    BY <1>10 DEF MainStep, jpVars, JpTypeOK
  <2> QED  BY <1>2, <1>4, <1>10, <2>1, <2>2, <2>3 DEF MainStep
<1>11. ASSUME NEW v \in VMs, ClusterStep(v) PROVE TypeInv'
  <2>1. ClusterTypeOK'
    BY <1>11, EnvironmentTypes DEF ClusterStep, RCTypeOK
  <2>2. RCTypeOK'
    BY <1>11, <2>1 DEF ClusterStep, RCTypeOK, centerVars, listVars, flagVars, fileVars, flagsButFile, historyVars
  <2>3. UNCHANGED deleting_instances
    BY <1>11 DEF ClusterStep, centerVars, listVars
  <2>4. JpTypeOK' /\ ControlTypeOK' /\ FoPositioned'
    BY <1>11 DEF ClusterStep, jpVars, controlVars, foVars, JpTypeOK, ControlTypeOK, FoPositioned
  <2> QED  BY <1>2, <1>4, <1>11, <2>2, <2>3, <2>4 DEF ClusterStep
<1>12. CASE UNCHANGED vars
  <2>1. RCTypeOK'
    BY <1>12 DEF vars, RCTypeOK, ClusterTypeOK, clusterVars, centerVars, listVars, flagVars, fileVars, flagsButFile, historyVars
  <2>2. UNCHANGED deleting_instances
    BY <1>12 DEF vars, centerVars, listVars
  <2>3. JpTypeOK' /\ ControlTypeOK' /\ FoPositioned'
    BY <1>12 DEF vars, jpVars, controlVars, foVars, JpTypeOK, ControlTypeOK, FoPositioned
  <2> QED  BY <1>2, <1>4, <1>12, <2>1, <2>2, <2>3 DEF vars
<1> QED
  BY <1>1, <1>7, <1>8, <1>9, <1>10, <1>11, <1>12 DEF Next

(* TypeOK holds for every set of VMs, every combination of faults, every   *)
(* operator behaviour and every value of the settings: no list ever holds  *)
(* anything but VM objects and no counter leaves its range, in particular  *)
(* num_of_vm never becomes negative.                                       *)
THEOREM TypeCorrect == Spec => []TypeOK
<1>1. TypeInv => TypeOK
  BY DEF TypeInv
<1> QED  BY <1>1, InitTypes, NextTypes, PTL DEF Spec

(* The positions go with it.                                               *)
THEOREM PositionsCorrect == Spec => []TypeInv
BY InitTypes, NextTypes, PTL DEF Spec
=============================================================================
