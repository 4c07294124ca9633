--------------------------- MODULE SchedulerProofs ---------------------------
(***************************************************************************)
(* The round of the job poller, for any number of jobs, resources and      *)
(* flavors: the types (SchedulerTyped), the priorities                     *)
(* (PrioritiesAlwaysMatch), the requests (NodesAlwaysFit,                  *)
(* RequestsAlwaysBounded) and the parts of the jobs (JobsAlwaysPlaced).    *)
(* The operators of the model are folds and choices over lists of any      *)
(* length, so that what they return is shown first: a stable sort permutes *)
(* its list, sums do not depend on the order and add up, and the lists     *)
(* that are joined follow one another.  These are inductions; the least    *)
(* member of a set of naturals (Least) stands for the rule.                *)
(***************************************************************************)
EXTENDS JobScheduler, SequenceTheorems, FunctionTheorems, FiniteSetTheorems,
        WellFoundedInduction, TLAPS

(* Every set of natural numbers has a least one.  Induction over the       *)
(* naturals is used in this form: of a set of counterexamples, the least.  *)
LEMMA Least ==
  ASSUME NEW T, T \subseteq Nat, T # {}
  PROVE  \E x \in T : \A y \in T : x <= y
<1> DEFINE R == {ss \in Nat \X Nat : ss[1] < ss[2]}
<1>1. IsWellFoundedOn(R, Nat)
  BY NatLessThanWellFounded DEF OpToRel
<1>2. \A x, y \in Nat : y < x => <<y, x>> \in R
  OBVIOUS
<1>3. \E x \in T : \A y \in T : ~ (<<y, x>> \in R)
  <2> HIDE DEF R
  <2> QED BY <1>1, WFMin
<1> HIDE DEF R
<1>4. PICK x \in T : \A y \in T : ~ (<<y, x>> \in R)
  BY <1>3
<1>5. ASSUME NEW y \in T, y < x PROVE FALSE
  BY <1>2, <1>4, <1>5
<1> QED BY <1>5

(* The least of a set of naturals is what Min says.                        *)
LEMMA MinOf ==
  ASSUME NEW T, T \subseteq Nat, T # {}
  PROVE  Min(T) \in T /\ \A y \in T : Min(T) <= y
BY Least DEF Min

(* Max is the greatest of a finite set: by the size of the set.            *)
LEMMA MaxOf ==
  ASSUME NEW T, T \subseteq Nat, T # {}, IsFiniteSet(T)
  PROVE  Max(T) \in T /\ \A y \in T : Max(T) >= y
<1> DEFINE HasMax(S) == \E x \in S : \A y \in S : x >= y
           Sizes == {n \in Nat : \E S \in SUBSET Nat :
                        S # {} /\ IsFiniteSet(S) /\ Cardinality(S) = n /\ ~HasMax(S)}
<1>1. Sizes = {}
  <2> SUFFICES ASSUME Sizes # {} PROVE FALSE
    OBVIOUS
  <2>1. PICK n \in Sizes : \A m \in Sizes : n <= m
    <3> HIDE DEF Sizes
    <3>1. Sizes \subseteq Nat
      BY DEF Sizes
    <3> QED BY <3>1, Least
  <2>2. PICK S \in SUBSET Nat : S # {} /\ IsFiniteSet(S) /\ Cardinality(S) = n /\ ~HasMax(S)
    BY <2>1
  <2>3. PICK x \in S : TRUE
    BY <2>2
  <2> DEFINE U == S \ {x}
  <2>4. IsFiniteSet(U) /\ Cardinality(U) = n - 1 /\ U \in SUBSET Nat /\ Cardinality(U) \in Nat
    BY <2>2, <2>3, FS_RemoveElement, FS_CardinalityType
  <2>5. CASE U = {}
    BY <2>5, <2>2, <2>3
  <2>6. CASE U # {}
    <3>1. n - 1 \notin Sizes
      BY <2>1
    <3>2. HasMax(U)
      BY <3>1, <2>4, <2>6
    <3>3. PICK z \in U : \A y \in U : z >= y
      BY <3>2
    <3>4. CASE z >= x
      BY <3>3, <3>4, <2>2
    <3>5. CASE ~(z >= x)
      <4>1. \A y \in S : x >= y
        BY <3>3, <3>5, <2>2, <2>3
      <4> QED BY <4>1, <2>2, <2>3
    <3> QED BY <3>4, <3>5
  <2> QED BY <2>5, <2>6
<1>2. Cardinality(T) \in Nat
  BY FS_CardinalityType
<1>3. HasMax(T)
  BY <1>1, <1>2
<1> QED BY <1>3 DEF Max

-----------------------------------------------------------------------------
(* Sorting.                                                                *)

(* The positions that a stable sort puts before one, and the order of a    *)
(* list sorted by a key of numbers.                                        *)
Ahead(D, key, i) == {k \in D : key[k] > key[i] \/ (key[k] = key[i] /\ k < i)}

(* Every number of entries ahead occurs, so that the CHOOSE in Descending  *)
(* finds an entry for every place.                                         *)
LEMMA Ranks ==
  ASSUME NEW n \in Nat, NEW key \in [1 .. n -> Int], NEW m \in 1 .. n
  PROVE  \E i \in 1 .. n : Cardinality(Ahead(1 .. n, key, i)) = m - 1
<1> DEFINE D == 1 .. n
           rank == [i \in D |-> Cardinality(Ahead(D, key, i))]
<1>1. IsFiniteSet(D) /\ Cardinality(D) = n
  BY FS_Interval
<1>2. ASSUME NEW i \in D PROVE IsFiniteSet(Ahead(D, key, i)) /\ rank[i] \in 0 .. n - 1
  <2>1. Ahead(D, key, i) \in SUBSET (D \ {i})
    BY DEF Ahead
  <2>2. IsFiniteSet(D \ {i}) /\ Cardinality(D \ {i}) = n - 1
    BY <1>1, FS_RemoveElement
  <2>3. IsFiniteSet(Ahead(D, key, i)) /\ Cardinality(Ahead(D, key, i)) <= n - 1
    BY <2>1, <2>2, FS_Subset
  <2> QED BY <2>3, FS_CardinalityType
<1>3. ASSUME NEW i \in D, NEW j \in D, i # j, i \in Ahead(D, key, j) PROVE rank[i] < rank[j]
  <2>1. Ahead(D, key, i) \in SUBSET Ahead(D, key, j)
    <3> SUFFICES ASSUME NEW k \in Ahead(D, key, i) PROVE k \in Ahead(D, key, j)
      OBVIOUS
    <3> QED BY <1>3 DEF Ahead
  <2>2. i \notin Ahead(D, key, i)
    BY DEF Ahead
  <2>3. Cardinality(Ahead(D, key, i)) <= Cardinality(Ahead(D, key, j))
        /\ Ahead(D, key, i) # Ahead(D, key, j)
    BY <2>1, <2>2, <1>2, <1>3, FS_Subset
  <2>4. Cardinality(Ahead(D, key, i)) # Cardinality(Ahead(D, key, j))
    BY <2>1, <2>3, <1>2, FS_Subset
  <2> QED BY <2>3, <2>4, <1>2
<1>4. \A i, j \in D : i # j => i \in Ahead(D, key, j) \/ j \in Ahead(D, key, i)
  BY DEF Ahead
<1>5. ASSUME NEW i \in D, NEW j \in D, i # j PROVE rank[i] # rank[j]
  <2> HIDE DEF rank, D
  <2>1. rank[i] < rank[j] \/ rank[j] < rank[i]
    BY <1>3, <1>4, <1>5
  <2>2. rank[i] \in Int /\ rank[j] \in Int
    BY <1>2
  <2> QED BY <2>1, <2>2
<1>6. rank \in Injection(D, 0 .. n - 1)
  <2> HIDE DEF D
  <2>1. rank \in [D -> 0 .. n - 1]
    BY <1>2
  <2> HIDE DEF rank
  <2>2. \A a, b \in D : rank[a] = rank[b] => a = b
    BY <1>5
  <2> QED BY <2>1, <2>2 DEF Injection, IsInjective
<1>7. IsFiniteSet(0 .. n - 1) /\ Cardinality(0 .. n - 1) = n
  BY FS_Interval
<1>8. rank \in Surjection(D, 0 .. n - 1)
  BY <1>1, <1>6, <1>7, FS_Injection
<1>9. \A v \in 0 .. n - 1 : \E i \in D : rank[i] = v
  <2> HIDE DEF rank, D
  <2> QED BY <1>8 DEF Surjection
<1>10. PICK i \in D : rank[i] = m - 1
  BY <1>9
<1> QED BY <1>10

(* Sorting only moves the entries.                                         *)
Sorted(s, key, p) ==
    /\ p \in [DOMAIN s -> DOMAIN s]
    /\ \A i, j \in DOMAIN s : p[i] = p[j] => i = j
    /\ \A n \in DOMAIN s : Descending(s, key)[n] = s[p[n]]

(* A sorted list has the same entries at other places, each once.          *)
LEMMA DescendingMoves ==
  ASSUME NEW S, NEW s \in Seq(S), NEW key \in [DOMAIN s -> Int]
  PROVE  /\ Descending(s, key) \in Seq(S)
         /\ Len(Descending(s, key)) = Len(s)
         /\ \E p : Sorted(s, key, p)
<1> DEFINE D == DOMAIN s
           At(n) == CHOOSE i \in D : Cardinality(Ahead(D, key, i)) = n - 1
           p == [n \in D |-> At(n)]
<1>1. D = 1 .. Len(s) /\ Len(s) \in Nat
  OBVIOUS
<1>2. Descending(s, key) = [n \in D |-> s[At(n)]]
  BY DEF Descending, Ahead
<1>3. \A n \in D : At(n) \in D /\ Cardinality(Ahead(D, key, At(n))) = n - 1
  BY <1>1, Ranks
<1>4. p \in [D -> D]
  BY <1>3
<1>5. ASSUME NEW i \in D, NEW j \in D, p[i] = p[j] PROVE i = j
  <2>1. i - 1 = j - 1
    BY <1>3, <1>5
  <2> QED BY <2>1, <1>1
<1>6. \A n \in D : Descending(s, key)[n] = s[p[n]]
  BY <1>2
<1>7. Descending(s, key) \in [1 .. Len(s) -> S]
  BY <1>1, <1>2, <1>3
<1>8. Descending(s, key) \in Seq(S) /\ Len(Descending(s, key)) = Len(s)
  BY <1>1, <1>7
<1> QED BY <1>4, <1>5, <1>6, <1>8 DEF Sorted

-----------------------------------------------------------------------------
(* Sums.                                                                   *)

(* The sum of a function's values, as the fold computes it: from any       *)
(* member to the rest.                                                     *)
Chosen(T) == CHOOSE x \in T : TRUE
SumOf(g, f, T) == IF T = {} THEN 0 ELSE f[Chosen(T)] + g[T \ {Chosen(T)}]
IsSum(g, f, S) == g = [T \in SUBSET S |-> SumOf(g, f, T)]

(* SumFunctionOnSet takes some function that has the equation of IsSum;    *)
(* that it has one is shown below.                                         *)
LEMMA SumIs ==
  ASSUME NEW f, NEW S
  PROVE  SumFunctionOnSet(f, S) = (CHOOSE g : IsSum(g, f, S))[S]
BY DEF SumFunctionOnSet, FoldFunctionOnSet, MapThenFoldSet, IsSum, SumOf, Chosen

(* The fold comes to an end: it goes on with one member less.              *)
LEMMA SmallerSet ==
  ASSUME NEW T, IsFiniteSet(T), T # {}
  PROVE  /\ Chosen(T) \in T
         /\ IsFiniteSet(T \ {Chosen(T)})
         /\ Cardinality(T) \in Nat \ {0}
         /\ Cardinality(T \ {Chosen(T)}) = Cardinality(T) - 1
<1>1. Chosen(T) \in T
  BY DEF Chosen
<1>2. Cardinality(T) \in Nat /\ Cardinality(T) # 0
  BY FS_CardinalityType, FS_EmptySet
<1> QED BY <1>1, <1>2, FS_RemoveElement

(* There is a function with the equation of the fold: one up to any size.  *)
LEMMA SumExists ==
  ASSUME NEW S, IsFiniteSet(S), NEW f, \A x \in S : f[x] \in Int
  PROVE  \E g : IsSum(g, f, S)
<1> DEFINE Sets(n) == {T \in SUBSET S : Cardinality(T) <= n}
           Sums(g, n) == g \in [Sets(n) -> Int] /\ \A T \in Sets(n) : g[T] = SumOf(g, f, T)
           Bad == {n \in Nat : ~ \E g : Sums(g, n)}
<1>1. \A T \in SUBSET S : IsFiniteSet(T) /\ Cardinality(T) \in Nat
  BY FS_Subset, FS_CardinalityType
<1>2. Bad = {}
  <2> SUFFICES ASSUME Bad # {} PROVE FALSE
    OBVIOUS
  <2>1. PICK n \in Bad : \A m \in Bad : n <= m
    <3> HIDE DEF Bad
    <3>1. Bad \subseteq Nat
      BY DEF Bad
    <3> QED BY <3>1, Least
  <2>2. n \in Nat /\ ~ \E g : Sums(g, n)
    BY <2>1
  <2>3. CASE n = 0
    <3> DEFINE g == [T \in Sets(0) |-> 0]
    <3>1. \A T \in Sets(0) : T = {}
      BY <1>1, FS_EmptySet
    <3>2. Sums(g, 0)
      BY <3>1 DEF SumOf
    <3> QED BY <3>2, <2>2, <2>3
  <2>4. CASE n # 0
    <3>1. n - 1 \in Nat /\ n - 1 \notin Bad
      <4> HIDE DEF Bad
      <4> QED BY <2>1, <2>2, <2>4
    <3>2. PICK h : Sums(h, n - 1)
      BY <3>1
    <3> DEFINE g == [T \in Sets(n) |-> SumOf(h, f, T)]
    <3>3. ASSUME NEW T \in Sets(n), T # {}
          PROVE  Chosen(T) \in S /\ T \ {Chosen(T)} \in Sets(n - 1)
      <4>1. Chosen(T) \in T /\ Cardinality(T \ {Chosen(T)}) = Cardinality(T) - 1 /\ Cardinality(T) \in Nat
        BY <1>1, <3>3, SmallerSet
      <4> QED BY <4>1, <2>2
    <3>4. \A T \in Sets(n) : SumOf(h, f, T) \in Int
      BY <3>2, <3>3 DEF SumOf
    <3>5. \A T \in Sets(n - 1) : T \in Sets(n) /\ g[T] = h[T]
      <4>1. Sets(n - 1) \subseteq Sets(n)
        BY <1>1, <2>2
      <4> QED BY <4>1, <3>2
    <3>6. \A T \in Sets(n) : g[T] = SumOf(g, f, T)
      <4> SUFFICES ASSUME NEW T \in Sets(n) PROVE SumOf(h, f, T) = SumOf(g, f, T)
        OBVIOUS
      <4> HIDE DEF g
      <4> QED BY <3>3, <3>5 DEF SumOf
    <3>7. g \in [Sets(n) -> Int]
      BY <3>4
    <3>8. Sums(g, n)
      <4> HIDE DEF g
      <4> QED BY <3>6, <3>7
    <3> QED BY <3>8, <2>2
  <2> QED BY <2>3, <2>4
<1> DEFINE c == Cardinality(S)
<1>3. c \in Nat
  BY <1>1
<1>4. PICK g : Sums(g, c)
  <2> HIDE DEF c
  <2> QED BY <1>2, <1>3
<1>5. Sets(c) = SUBSET S
  BY FS_Subset
<1>6. g \in [SUBSET S -> Int] /\ \A T \in SUBSET S : g[T] = SumOf(g, f, T)
  BY <1>4, <1>5
<1>7. g = [T \in SUBSET S |-> SumOf(g, f, T)]
  BY <1>6
<1> QED BY <1>7 DEF IsSum

(* The sum over a set depends on the values in the set only.               *)
LEMMA SumLocal ==
  ASSUME NEW S, NEW f, NEW g, IsSum(g, f, S),
         NEW S2, NEW f2, NEW g2, IsSum(g2, f2, S2),
         NEW U, IsFiniteSet(U), U \subseteq S, U \subseteq S2,
         \A x \in U : f[x] \in Int /\ f[x] = f2[x]
  PROVE  g[U] \in Int /\ g[U] = g2[U]
<1> DEFINE Ok(T) == g[T] \in Int /\ g[T] = g2[T]
           Bad == {n \in Nat : \E T \in SUBSET U : Cardinality(T) = n /\ ~Ok(T)}
<1>1. \A T \in SUBSET U : IsFiniteSet(T) /\ Cardinality(T) \in Nat
  BY FS_Subset, FS_CardinalityType
<1>2. \A T \in SUBSET U : g[T] = SumOf(g, f, T) /\ g2[T] = SumOf(g2, f2, T)
  <2>1. \A T \in SUBSET S : g[T] = SumOf(g, f, T)
    BY DEF IsSum
  <2>2. \A T \in SUBSET S2 : g2[T] = SumOf(g2, f2, T)
    BY DEF IsSum
  <2> QED BY <2>1, <2>2
<1>3. Bad = {}
  <2> SUFFICES ASSUME Bad # {} PROVE FALSE
    OBVIOUS
  <2>1. PICK n \in Bad : \A m \in Bad : n <= m
    <3> HIDE DEF Bad
    <3>1. Bad \subseteq Nat
      BY DEF Bad
    <3> QED BY <3>1, Least
  <2>2. PICK T \in SUBSET U : Cardinality(T) = n /\ ~Ok(T)
    BY <2>1
  <2> HIDE DEF Ok
  <2>3. g[T] = SumOf(g, f, T) /\ g2[T] = SumOf(g2, f2, T)
    BY <1>2
  <2>10. T # {}
    <3> SUFFICES ASSUME T = {} PROVE FALSE
      OBVIOUS
    <3>1. g[T] = 0 /\ g2[T] = 0
      BY <2>3 DEF SumOf
    <3> QED BY <3>1, <2>2 DEF Ok
  <2> DEFINE V == T \ {Chosen(T)}
  <2>4. Chosen(T) \in T /\ Cardinality(V) = n - 1 /\ n - 1 \in Nat
    BY <1>1, <2>2, <2>10, SmallerSet
  <2>5. n - 1 \notin Bad
    BY <2>1, <2>4
  <2>6. V \in SUBSET U /\ Ok(V)
    BY <2>4, <2>5
  <2>7. g[T] = f[Chosen(T)] + g[V] /\ g2[T] = f2[Chosen(T)] + g2[V]
    BY <2>3, <2>10 DEF SumOf
  <2>8. f[Chosen(T)] \in Int /\ f[Chosen(T)] = f2[Chosen(T)]
    BY <2>4
  <2> HIDE DEF V
  <2>9. Ok(T)
    BY <2>6, <2>7, <2>8 DEF Ok
  <2> QED BY <2>2, <2>9
<1>4. Ok(U)
  BY <1>1, <1>3
<1> QED BY <1>4

(* A sum is an integer, the sum of nothing is 0, and any member's value    *)
(* can be taken out.                                                       *)
LEMMA SumWithout ==
  ASSUME NEW S, IsFiniteSet(S), NEW f, \A x \in S : f[x] \in Int
  PROVE  /\ SumFunctionOnSet(f, S) \in Int
         /\ SumFunctionOnSet(f, {}) = 0
         /\ \A x \in S : SumFunctionOnSet(f, S) = f[x] + SumFunctionOnSet(f, S \ {x})
         /\ \A f2 : (\A x \in S : f2[x] = f[x]) =>
                SumFunctionOnSet(f2, S) = SumFunctionOnSet(f, S)
<1>1. PICK g : IsSum(g, f, S)
  BY SumExists
<1>2. ASSUME NEW T \in SUBSET S, NEW f2, \A x \in T : f2[x] = f[x]
      PROVE  g[T] \in Int /\ SumFunctionOnSet(f2, T) = g[T]
  <2>1. IsFiniteSet(T)
    BY FS_Subset
  <2>2. PICK g2 : IsSum(g2, f2, T)
    BY <1>2, <2>1, SumExists
  <2> DEFINE g3 == CHOOSE h : IsSum(h, f2, T)
  <2>3. IsSum(g3, f2, T)
    BY <2>2
  <2>4. SumFunctionOnSet(f2, T) = g3[T]
    BY SumIs
  <2> HIDE DEF g3
  <2>5. g[T] \in Int /\ g[T] = g3[T]
    BY <1>1, <1>2, <2>1, <2>3, SumLocal
  <2> QED BY <2>4, <2>5
<1>3. \A T \in SUBSET S : g[T] \in Int /\ SumFunctionOnSet(f, T) = g[T]
  BY <1>2
<1>4. \A T \in SUBSET S : g[T] = SumOf(g, f, T)
  BY <1>1 DEF IsSum
<1>5. g[{}] = 0
  BY <1>4 DEF SumOf
<1> DEFINE Ok(T) == \A x \in T : g[T] = f[x] + g[T \ {x}]
           Bad == {n \in Nat : \E T \in SUBSET S : Cardinality(T) = n /\ ~Ok(T)}
<1>6. \A T \in SUBSET S : IsFiniteSet(T) /\ Cardinality(T) \in Nat
  BY FS_Subset, FS_CardinalityType
<1>7. Bad = {}
  <2> SUFFICES ASSUME Bad # {} PROVE FALSE
    OBVIOUS
  <2>1. PICK n \in Bad : \A m \in Bad : n <= m
    <3> HIDE DEF Bad
    <3>1. Bad \subseteq Nat
      BY DEF Bad
    <3> QED BY <3>1, Least
  <2>2. PICK T \in SUBSET S : Cardinality(T) = n /\ ~Ok(T)
    BY <2>1
  <2>3. PICK x \in T : g[T] # f[x] + g[T \ {x}]
    BY <2>2
  <2> DEFINE y == Chosen(T)
  <2>4. y \in T /\ n \in Nat \ {0} /\ g[T] = f[y] + g[T \ {y}]
    BY <1>4, <1>6, <2>2, <2>3, SmallerSet DEF SumOf
  <2> HIDE DEF y
  <2>5. x # y
    BY <2>3, <2>4
  <2>6. \A z \in T : Cardinality(T \ {z}) = n - 1 /\ T \ {z} \in SUBSET S
    BY <2>2, <1>6, FS_RemoveElement
  <2>7. n - 1 \notin Bad /\ n - 1 \in Nat
    BY <2>1, <2>4
  <2>8. \A z \in T : Ok(T \ {z})
    BY <2>6, <2>7
  <2>9. g[T \ {y}] = f[x] + g[(T \ {y}) \ {x}]
    BY <2>8, <2>4, <2>5
  <2>10. g[T \ {x}] = f[y] + g[(T \ {x}) \ {y}]
    BY <2>8, <2>4, <2>5
  <2>11. (T \ {y}) \ {x} = (T \ {x}) \ {y} /\ (T \ {x}) \ {y} \in SUBSET S
    OBVIOUS
  <2>12. f[x] \in Int /\ f[y] \in Int /\ g[(T \ {x}) \ {y}] \in Int
    BY <1>3, <2>4, <2>11
  <2> DEFINE w == g[(T \ {x}) \ {y}]
  <2>13. w \in Int /\ g[T \ {y}] = f[x] + w /\ g[T \ {x}] = f[y] + w
    BY <2>9, <2>10, <2>11, <2>12
  <2> HIDE DEF w
  <2>14. g[T] = f[y] + (f[x] + w)
    BY <2>4, <2>13
  <2>15. f[x] + g[T \ {x}] = f[x] + (f[y] + w)
    BY <2>13
  <2>16. \A a, b, c \in Int : a + (b + c) = b + (a + c)
    OBVIOUS
  <2> QED BY <2>3, <2>12, <2>13, <2>14, <2>15, <2>16
<1>8. Ok(S)
  BY <1>6, <1>7
<1>9. \A x \in S : SumFunctionOnSet(f, S) = f[x] + SumFunctionOnSet(f, S \ {x})
  BY <1>3, <1>8
<1>10. SumFunctionOnSet(f, S) \in Int /\ SumFunctionOnSet(f, {}) = 0
  BY <1>3, <1>5
<1> QED BY <1>2, <1>3, <1>9, <1>10

(* Induction over the subsets of a finite set: a family that has the empty *)
(* set, and with a set also the sets of one member more, has the whole.    *)
LEMMA Grown ==
  ASSUME NEW S, IsFiniteSet(S), NEW G, {} \in G,
         \A T \in SUBSET S : \A x \in S \ T : T \in G => T \cup {x} \in G
  PROVE  S \in G
<1> DEFINE Bad == {n \in Nat : \E T \in SUBSET S : Cardinality(T) = n /\ T \notin G}
<1>1. \A T \in SUBSET S : IsFiniteSet(T) /\ Cardinality(T) \in Nat
  BY FS_Subset, FS_CardinalityType
<1>2. Bad = {}
  <2> SUFFICES ASSUME Bad # {} PROVE FALSE
    OBVIOUS
  <2>1. PICK n \in Bad : \A m \in Bad : n <= m
    <3> HIDE DEF Bad
    <3>1. Bad \subseteq Nat
      BY DEF Bad
    <3> QED BY <3>1, Least
  <2>2. PICK T \in SUBSET S : Cardinality(T) = n /\ T \notin G
    BY <2>1
  <2>3. PICK x \in T : TRUE
    BY <2>2
  <2>4. Cardinality(T \ {x}) = n - 1 /\ Cardinality(T \ {x}) \in Nat /\ n \in Nat
    BY <2>1, <2>2, <2>3, <1>1, FS_RemoveElement
  <2>5. T \ {x} \in G
    <3>1. n - 1 \notin Bad
      <4> HIDE DEF Bad
      <4> QED BY <2>1, <2>4
    <3> QED BY <3>1, <2>4
  <2>6. (T \ {x}) \cup {x} \in G /\ (T \ {x}) \cup {x} = T
    BY <2>5
  <2> QED BY <2>2, <2>6
<1> QED BY <1>1, <1>2

(* The sum with one member more.                                           *)
LEMMA SumWith ==
  ASSUME NEW T, NEW x, IsFiniteSet(T), x \notin T,
         NEW f, \A y \in T \cup {x} : f[y] \in Int
  PROVE  SumFunctionOnSet(f, T \cup {x}) = SumFunctionOnSet(f, T) + f[x]
<1> DEFINE U == T \cup {x}
<1>1. IsFiniteSet(U)
  BY FS_AddElement
<1>2. U \ {x} = T /\ x \in U /\ \A y \in U : f[y] \in Int
  OBVIOUS
<1>3. SumFunctionOnSet(f, T) \in Int /\ f[x] \in Int
  BY SumWithout
<1> HIDE DEF U
<1>4. SumFunctionOnSet(f, U) = f[x] + SumFunctionOnSet(f, U \ {x})
  BY <1>1, <1>2, SumWithout
<1>5. SumFunctionOnSet(f, U) = f[x] + SumFunctionOnSet(f, T)
  BY <1>2, <1>4, ZenonT(40)
<1>6. SumFunctionOnSet(f, U) = SumFunctionOnSet(f, T) + f[x]
  BY <1>3, <1>5
<1> QED BY <1>6 DEF U

(* Adding c to some of the values adds c as many times to the sum.         *)
AddedTo(h, f, S, R, c) ==
    /\ R \in SUBSET S /\ c \in Int
    /\ \A x \in S : f[x] \in Int /\ h[x] = IF x \in R THEN f[x] + c ELSE f[x]

(* By induction over the set.                                              *)
LEMMA SumRaised ==
  ASSUME NEW S, IsFiniteSet(S), NEW f, NEW R, NEW c, NEW h, AddedTo(h, f, S, R, c)
  PROVE  SumFunctionOnSet(h, S) = SumFunctionOnSet(f, S) + Cardinality(R) * c
<1>0. /\ R \in SUBSET S /\ c \in Int
      /\ \A x \in S : f[x] \in Int
      /\ \A x \in S : h[x] = IF x \in R THEN f[x] + c ELSE f[x]
  BY DEF AddedTo
<1> USE <1>0
<1> DEFINE G == {T \in SUBSET S : SumFunctionOnSet(h, T) =
                    SumFunctionOnSet(f, T) + Cardinality(R \cap T) * c}
<1>1. {} \in G
  <2>1. SumFunctionOnSet(h, {}) = 0 /\ SumFunctionOnSet(f, {}) = 0
    BY SumWithout, FS_EmptySet
  <2>2. Cardinality(R \cap {}) = 0
    BY FS_EmptySet
  <2> QED BY <2>1, <2>2
<1>2. ASSUME NEW T \in SUBSET S, NEW x \in S \ T, T \in G PROVE T \cup {x} \in G
  <2>1. IsFiniteSet(T) /\ IsFiniteSet(R \cap T)
    BY FS_Subset
  <2>2. \A y \in S : h[y] \in Int
    OBVIOUS
  <2> DEFINE a == SumFunctionOnSet(f, T)
             b == SumFunctionOnSet(h, T)
             k == Cardinality(R \cap T)
  <2>8. (\A y \in T \cup {x} : f[y] \in Int) /\ (\A y \in T : f[y] \in Int)
        /\ (\A y \in T \cup {x} : h[y] \in Int) /\ (\A y \in T : h[y] \in Int)
    BY <2>2
  <2>3. SumFunctionOnSet(f, T \cup {x}) = a + f[x] /\ a \in Int
    <3>1. a \in Int
      BY <2>1, <2>8, SumWithout
    <3>2. SumFunctionOnSet(f, T \cup {x}) = a + f[x]
      BY <2>1, <2>8, SumWith
    <3> QED BY <3>1, <3>2
  <2>4. SumFunctionOnSet(h, T \cup {x}) = b + h[x] /\ b \in Int
    <3>1. b \in Int
      BY <2>1, <2>8, SumWithout
    <3>2. SumFunctionOnSet(h, T \cup {x}) = b + h[x]
      BY <2>1, <2>8, SumWith
    <3> QED BY <3>1, <3>2
  <2>5. k \in Nat /\ b = a + k * c
    BY <2>1, <1>2, FS_CardinalityType
  <2>6. CASE x \in R
    <3>1. R \cap (T \cup {x}) = (R \cap T) \cup {x} /\ x \notin R \cap T
      BY <2>6
    <3>2. Cardinality(R \cap (T \cup {x})) = k + 1
      BY <3>1, <2>1, FS_AddElement
    <3>3. h[x] = f[x] + c /\ f[x] \in Int
      BY <2>6
    <3> HIDE DEF a, b, k
    <3>4. (k + 1) * c = k * c + c /\ k * c \in Int
      BY <2>5
    <3>5. b + h[x] = (a + f[x]) + (k + 1) * c
      BY <2>3, <2>4, <2>5, <3>3, <3>4
    <3> QED BY <2>3, <2>4, <3>2, <3>5
  <2>7. CASE x \notin R
    <3>1. R \cap (T \cup {x}) = R \cap T
      BY <2>7
    <3>2. h[x] = f[x] /\ f[x] \in Int
      BY <2>7
    <3> HIDE DEF a, b
    <3>3. k * c \in Int
      BY <2>5
    <3> HIDE DEF k
    <3>4. b + h[x] = (a + f[x]) + k * c
      BY <2>3, <2>4, <2>5, <3>2, <3>3
    <3> QED BY <2>3, <2>4, <3>1, <3>4 DEF k
  <2> QED BY <2>6, <2>7
<1>3. S \in G
  <2> HIDE DEF G
  <2> QED BY <1>1, <1>2, Grown
<1>4. R \cap S = R
  OBVIOUS
<1> QED BY <1>3, <1>4

(* The sum of equal values.                                                *)
LEMMA SumSame ==
  ASSUME NEW S, IsFiniteSet(S), NEW c \in Int, NEW f, \A x \in S : f[x] = c
  PROVE  SumFunctionOnSet(f, S) = Cardinality(S) * c
<1> DEFINE z == [x \in S |-> 0]
           G == {T \in SUBSET S : SumFunctionOnSet(z, T) = 0}
<1>1. {} \in G
  BY SumWithout, FS_EmptySet
<1>2. ASSUME NEW T \in SUBSET S, NEW x \in S \ T, T \in G PROVE T \cup {x} \in G
  <2>1. IsFiniteSet(T)
    BY FS_Subset
  <2>2. SumFunctionOnSet(z, T \cup {x}) = SumFunctionOnSet(z, T) + z[x]
    <3>1. \A y \in T \cup {x} : z[y] \in Int
      OBVIOUS
    <3> HIDE DEF z
    <3> QED BY <3>1, <2>1, SumWith
  <2> QED BY <2>2, <1>2
<1>3. SumFunctionOnSet(z, S) = 0
  <2>1. S \in G
    <3> HIDE DEF G
    <3> QED BY <1>1, <1>2, Grown
  <2> QED BY <2>1
<1>4. AddedTo(f, z, S, S, c)
  BY DEF AddedTo
<1>5. SumFunctionOnSet(f, S) = SumFunctionOnSet(z, S) + Cardinality(S) * c
  <2> HIDE DEF z
  <2> QED BY <1>4, SumRaised
<1>6. Cardinality(S) \in Nat
  BY FS_CardinalityType
<1> QED BY <1>3, <1>5, <1>6

(* The sum over two sets that have nothing in common.                      *)
LEMMA SumJoined ==
  ASSUME NEW S, IsFiniteSet(S), NEW U, IsFiniteSet(U), S \cap U = {},
         NEW f, \A x \in S \cup U : f[x] \in Int
  PROVE  SumFunctionOnSet(f, S \cup U) = SumFunctionOnSet(f, S) + SumFunctionOnSet(f, U)
<1> DEFINE G == {T \in SUBSET U : SumFunctionOnSet(f, S \cup T) =
                    SumFunctionOnSet(f, S) + SumFunctionOnSet(f, T)}
<1>1. {} \in G
  <2>1. SumFunctionOnSet(f, {}) = 0 /\ SumFunctionOnSet(f, S) \in Int
    BY SumWithout
  <2>2. S \cup {} = S
    OBVIOUS
  <2> QED BY <2>1, <2>2
<1>2. ASSUME NEW T \in SUBSET U, NEW x \in U \ T, T \in G PROVE T \cup {x} \in G
  <2>1. IsFiniteSet(T) /\ IsFiniteSet(S \cup T)
    BY FS_Subset, FS_Union
  <2>2. x \notin S \cup T /\ S \cup (T \cup {x}) = (S \cup T) \cup {x}
    OBVIOUS
  <2>3. SumFunctionOnSet(f, (S \cup T) \cup {x}) = SumFunctionOnSet(f, S \cup T) + f[x]
    BY <2>1, <2>2, SumWith
  <2>4. SumFunctionOnSet(f, T \cup {x}) = SumFunctionOnSet(f, T) + f[x]
    BY <2>1, <2>2, SumWith
  <2>5. SumFunctionOnSet(f, S) \in Int /\ SumFunctionOnSet(f, T) \in Int /\ f[x] \in Int
    BY <2>1, SumWithout
  <2> DEFINE a == SumFunctionOnSet(f, S)
             b == SumFunctionOnSet(f, T)
  <2>6. SumFunctionOnSet(f, S \cup T) = a + b
    BY <1>2
  <2>7. SumFunctionOnSet(f, S \cup (T \cup {x})) = SumFunctionOnSet(f, S \cup T) + f[x]
    BY <2>2, <2>3
  <2> HIDE DEF a, b
  <2>8. (a + b) + f[x] = a + (b + f[x])
    BY <2>5 DEF a, b
  <2>9. SumFunctionOnSet(f, S \cup (T \cup {x})) = a + (b + f[x])
    BY <2>6, <2>7, <2>8
  <2> QED BY <2>4, <2>9 DEF a, b
<1>3. U \in G
  <2> HIDE DEF G
  <2> QED BY <1>1, <1>2, Grown
<1> QED BY <1>3

(* The order of the values does not matter.                                *)
Moved(h, f, S, p) ==
    /\ p \in [S -> S] /\ \A x, y \in S : p[x] = p[y] => x = y
    /\ \A x \in S : f[x] \in Int /\ h[x] = f[p[x]]

(* The sum is the same after the values are exchanged.                     *)
LEMMA SumMoved ==
  ASSUME NEW S, IsFiniteSet(S), NEW f, NEW p, NEW h, Moved(h, f, S, p)
  PROVE  SumFunctionOnSet(h, S) = SumFunctionOnSet(f, S)
<1>0. /\ p \in [S -> S] /\ \A x, y \in S : p[x] = p[y] => x = y
      /\ \A x \in S : f[x] \in Int
      /\ \A x \in S : h[x] = f[p[x]]
  BY DEF Moved
<1> USE <1>0
<1> DEFINE Image(T) == {p[x] : x \in T}
           G == {T \in SUBSET S : SumFunctionOnSet(h, T) = SumFunctionOnSet(f, Image(T))}
<1>1. {} \in G
  <2>1. Image({}) = {}
    OBVIOUS
  <2>2. SumFunctionOnSet(h, {}) = 0 /\ SumFunctionOnSet(f, {}) = 0
    BY SumWithout, FS_EmptySet
  <2> QED BY <2>1, <2>2
<1>2. ASSUME NEW T \in SUBSET S, NEW x \in S \ T, T \in G PROVE T \cup {x} \in G
  <2>1. IsFiniteSet(T) /\ Image(T) \in SUBSET S /\ IsFiniteSet(Image(T))
    BY FS_Subset
  <2>2. p[x] \notin Image(T) /\ Image(T \cup {x}) = Image(T) \cup {p[x]}
    OBVIOUS
  <2>3. \A y \in S : h[y] \in Int
    OBVIOUS
  <2>4. SumFunctionOnSet(h, T \cup {x}) = SumFunctionOnSet(h, T) + h[x]
    BY <2>1, <2>3, SumWith
  <2>5. SumFunctionOnSet(f, Image(T) \cup {p[x]}) = SumFunctionOnSet(f, Image(T)) + f[p[x]]
    <3> HIDE DEF Image
    <3> DEFINE I == Image(T)
               z == p[x]
    <3>1. IsFiniteSet(I) /\ z \notin I /\ \A y \in I \cup {z} : f[y] \in Int
      BY <2>1, <2>2
    <3> HIDE DEF I, z
    <3>2. SumFunctionOnSet(f, I \cup {z}) = SumFunctionOnSet(f, I) + f[z]
      BY <3>1, SumWith
    <3> QED BY <3>2 DEF I, z
  <2> HIDE DEF Image
  <2> QED BY <2>2, <2>4, <2>5, <1>2
<1>3. S \in G
  <2> HIDE DEF G
  <2> QED BY <1>1, <1>2, Grown
<1>4. p \in Surjection(S, S)
  <2>1. p \in Injection(S, S)
    BY DEF Injection, IsInjective
  <2> QED BY <2>1, FS_Injection
<1>5. Image(S) = S
  BY <1>4 DEF Surjection
<1> QED BY <1>3, <1>5

(* The sum of naturals is one; of positive ones it is at least their       *)
(* number.                                                                 *)
LEMMA SumAtLeast ==
  ASSUME NEW S, IsFiniteSet(S), NEW f, \A x \in S : f[x] \in Nat
  PROVE  /\ SumFunctionOnSet(f, S) \in Nat
         /\ (\A x \in S : f[x] >= 1) => SumFunctionOnSet(f, S) >= Cardinality(S)
<1> DEFINE sum(T) == SumFunctionOnSet(f, T)
           G == {T \in SUBSET S :
                    /\ sum(T) \in Nat
                    /\ (\A x \in S : f[x] >= 1) => sum(T) >= Cardinality(T)}
<1>1. {} \in G
  BY SumWithout, FS_EmptySet
<1>2. ASSUME NEW T \in SUBSET S, NEW x \in S \ T, T \in G PROVE T \cup {x} \in G
  <2>1. IsFiniteSet(T)
    BY FS_Subset
  <2>2. \A y \in T \cup {x} : f[y] \in Int
    OBVIOUS
  <2>3. sum(T \cup {x}) = sum(T) + f[x]
    BY <2>1, <2>2, SumWith
  <2>4. Cardinality(T \cup {x}) = Cardinality(T) + 1 /\ Cardinality(T) \in Nat
    BY <2>1, FS_AddElement, FS_CardinalityType
  <2>5. f[x] \in Nat /\ sum(T) \in Nat
    BY <1>2
  <2> HIDE DEF sum
  <2>6. sum(T \cup {x}) \in Nat
    BY <2>3, <2>5
  <2>7. (\A y \in S : f[y] >= 1) => sum(T \cup {x}) >= Cardinality(T \cup {x})
    BY <2>3, <2>4, <2>5, <1>2
  <2> QED BY <2>6, <2>7
<1>3. S \in G
  <2> HIDE DEF G
  <2> QED BY <1>1, <1>2, Grown
<1> QED BY <1>3

-----------------------------------------------------------------------------
(* Lists of lists.                                                         *)

(* Induction over the naturals, for a set.                                 *)
LEMMA Upward ==
  ASSUME NEW G, 0 \in G, \A n \in Nat : n \in G => n + 1 \in G
  PROVE  \A n \in Nat : n \in G
<1> SUFFICES ASSUME Nat \ G # {} PROVE FALSE
  OBVIOUS
<1>1. PICK n \in Nat \ G : \A m \in Nat \ G : n <= m
  BY Least
<1>2. n # 0 /\ n - 1 \in Nat
  BY <1>1
<1>3. n - 1 \in G
  BY <1>1, <1>2
<1>4. n \in G
  BY <1>2, <1>3
<1> QED BY <1>1, <1>4

(* FlattenSeq puts the lists one behind the other: each keeps its place,   *)
(* and there is nothing else.                                              *)
IsFlat(f, s) == f = [i \in 1 .. Len(s) |-> IF i = 1 THEN s[i] ELSE f[i - 1] \o s[i]]

(* FlattenSeq takes some function that has the equation of IsFlat.         *)
LEMMA FlattenIs ==
  ASSUME NEW s, Len(s) # 0
  PROVE  FlattenSeq(s) = (CHOOSE f : IsFlat(f, s))[Len(s)]
BY DEF FlattenSeq, IsFlat

(* There is one, up to any number of lists.                                *)
LEMMA FlatExists ==
  ASSUME NEW S, NEW s \in Seq(Seq(S))
  PROVE  \E f : IsFlat(f, s)
<1> DEFINE Step(f, i) == IF i = 1 THEN s[i] ELSE f[i - 1] \o s[i]
           Flat(f, n) == f \in [1 .. n -> Seq(S)] /\ \A i \in 1 .. n : f[i] = Step(f, i)
           G == {n \in Nat : n <= Len(s) => \E f : Flat(f, n)}
<1>1. 0 \in G
  <2>1. Flat([i \in 1 .. 0 |-> <<>>], 0)
    OBVIOUS
  <2> QED BY <2>1
<1>2. ASSUME NEW n \in Nat, n \in G PROVE n + 1 \in G
  <2> SUFFICES ASSUME n + 1 <= Len(s) PROVE \E f : Flat(f, n + 1)
    <3> HIDE DEF Flat
    <3> QED BY DEF G
  <2>1. PICK f : Flat(f, n)
    <3>1. n <= Len(s)
      OBVIOUS
    <3> HIDE DEF Flat
    <3> QED BY <1>2, <3>1
  <2> DEFINE h == [i \in 1 .. n + 1 |-> IF i <= n THEN f[i] ELSE Step(f, i)]
  <2>2. Step(f, n + 1) \in Seq(S)
    <3>1. s[n + 1] \in Seq(S)
      OBVIOUS
    <3>2. CASE n = 0
      BY <3>1, <3>2
    <3>3. CASE n # 0
      <4>1. f[n] \in Seq(S)
        BY <2>1, <3>3
      <4>2. f[(n + 1) - 1] = f[n]
        OBVIOUS
      <4>3. f[n] \o s[n + 1] \in Seq(S)
        BY <4>1, <3>1
      <4> QED BY <3>3, <4>2, <4>3
    <3> QED BY <3>2, <3>3
  <2>3. h \in [1 .. n + 1 -> Seq(S)]
    <3> HIDE DEF Step
    <3>1. ASSUME NEW i \in 1 .. n + 1 PROVE (IF i <= n THEN f[i] ELSE Step(f, i)) \in Seq(S)
      <4>1. CASE i <= n
        BY <2>1, <4>1
      <4>2. CASE ~(i <= n)
        <5>1. i = n + 1
          BY <4>2
        <5> QED BY <2>2, <5>1, <4>2
      <4> QED BY <4>1, <4>2
    <3> QED BY <3>1
  <2>4. ASSUME NEW i \in 1 .. n + 1 PROVE h[i] = Step(h, i)
    <3>1. i = 1 \/ h[i - 1] = f[i - 1]
      OBVIOUS
    <3>2. Step(h, i) = Step(f, i)
      BY <3>1
    <3>3. h[i] = Step(f, i)
      <4> HIDE DEF Step
      <4>1. i <= n => f[i] = Step(f, i)
        BY <2>1
      <4> QED BY <4>1
    <3> QED BY <3>2, <3>3
  <2>5. Flat(h, n + 1)
    <3> HIDE DEF h, Step
    <3> QED BY <2>3, <2>4
  <2> QED BY <2>5
<1>3. PICK f : Flat(f, Len(s))
  <2>1. \A n \in Nat : n \in G
    <3> HIDE DEF G
    <3> QED BY <1>1, <1>2, Upward
  <2>2. Len(s) \in Nat /\ Len(s) <= Len(s)
    OBVIOUS
  <2> HIDE DEF Flat
  <2> QED BY <2>1, <2>2
<1>4. f = [i \in 1 .. Len(s) |-> Step(f, i)]
  BY <1>3
<1> QED BY <1>4 DEF IsFlat

Offsets(s, o) ==
    LET F == FlattenSeq(s) IN
    /\ o \in [1 .. Len(s) -> Nat]
    /\ \A i \in 1 .. Len(s) : \A k \in 1 .. Len(s[i]) :
          o[i] + k \in 1 .. Len(F) /\ F[o[i] + k] = s[i][k]
    /\ \A n \in 1 .. Len(F) : \E i \in 1 .. Len(s) : \E k \in 1 .. Len(s[i]) : n = o[i] + k

(* By induction over the number of lists.                                  *)
LEMMA Flattened ==
  ASSUME NEW S, NEW s \in Seq(Seq(S))
  PROVE  FlattenSeq(s) \in Seq(S) /\ \E o : Offsets(s, o)
<1>1. CASE Len(s) = 0
  <2>1. FlattenSeq(s) = s /\ s = <<>>
    BY <1>1 DEF FlattenSeq
  <2>2. [i \in 1 .. Len(s) |-> 0] \in [1 .. Len(s) -> Nat]
    OBVIOUS
  <2>3. 1 .. Len(s) = {} /\ 1 .. Len(FlattenSeq(s)) = {}
    BY <1>1, <2>1
  <2>4. FlattenSeq(s) \in Seq(S)
    BY <2>1
  <2>5. Offsets(s, [i \in 1 .. Len(s) |-> 0])
    BY <2>2, <2>3 DEF Offsets
  <2> QED BY <2>4, <2>5
<1>2. CASE Len(s) # 0
  <2>1. PICK f : f = CHOOSE h : IsFlat(h, s)
    OBVIOUS
  <2>2. IsFlat(f, s)
    BY <2>1, FlatExists
  <2>3. FlattenSeq(s) = f[Len(s)]
    BY <2>1, <1>2, FlattenIs
  <2> DEFINE o == [i \in 1 .. Len(s) |-> IF i = 1 THEN 0 ELSE Len(f[i - 1])]
             Laid(m) ==
                /\ f[m] \in Seq(S)
                /\ \A i \in 1 .. m : o[i] \in Nat
                /\ \A i \in 1 .. m : \A k \in 1 .. Len(s[i]) :
                      o[i] + k \in 1 .. Len(f[m]) /\ f[m][o[i] + k] = s[i][k]
                /\ \A n \in 1 .. Len(f[m]) :
                      \E i \in 1 .. m : \E k \in 1 .. Len(s[i]) : n = o[i] + k
             G == {m \in Nat : m \in 1 .. Len(s) => Laid(m)}
  <2>4. 0 \in G
    OBVIOUS
  <2>5. ASSUME NEW m \in Nat, m \in G PROVE m + 1 \in G
    <3> SUFFICES ASSUME m + 1 \in 1 .. Len(s) PROVE Laid(m + 1)
      <4> HIDE DEF Laid
      <4> QED OBVIOUS
    <3>1. s[m + 1] \in Seq(S)
      OBVIOUS
    <3>2. CASE m = 0
      <4>1. f[1] = s[1] /\ o[1] = 0
        BY <2>2, <1>2 DEF IsFlat
      <4> HIDE DEF o
      <4>2. \A i \in 1 .. 1 : i = 1
        OBVIOUS
      <4> QED BY <3>1, <3>2, <4>1, <4>2
    <3>3. CASE m # 0
      <4>1. Laid(m) /\ m \in 1 .. Len(s)
        <5>1. m \in 1 .. Len(s)
          BY <3>3
        <5> HIDE DEF Laid
        <5> QED BY <2>5, <5>1
      <4>2. f[m + 1] = f[m] \o s[m + 1]
        <5>1. f[m + 1] = f[(m + 1) - 1] \o s[m + 1]
          <6>1. m + 1 # 1
            BY <3>3
          <6>2. \A i \in 1 .. Len(s) : i # 1 => f[i] = f[i - 1] \o s[i]
            BY <2>2 DEF IsFlat
          <6> QED BY <6>1, <6>2
        <5>2. (m + 1) - 1 = m
          OBVIOUS
        <5> QED BY <5>1, <5>2
      <4>3. o[m + 1] = Len(f[m])
        <5>1. (m + 1) - 1 = m /\ m + 1 # 1
          BY <3>3
        <5> QED BY <5>1
      <4> HIDE DEF o
      <4> DEFINE a == f[m]
                 b == s[m + 1]
                 c == f[m + 1]
      <4>4. a \in Seq(S) /\ b \in Seq(S) /\ c = a \o b
        BY <3>1, <4>1, <4>2
      <4>5. /\ c \in Seq(S) /\ Len(a) \in Nat /\ Len(b) \in Nat
            /\ Len(c) = Len(a) + Len(b)
            /\ \A n \in 1 .. Len(a) : c[n] = a[n]
            /\ \A n \in 1 .. Len(b) : c[Len(a) + n] = b[n]
        <5> HIDE DEF a, b, c
        <5> QED BY <4>4
      <4>6. /\ \A i \in 1 .. m : o[i] \in Nat
            /\ \A i \in 1 .. m : \A k \in 1 .. Len(s[i]) :
                   o[i] + k \in 1 .. Len(a) /\ a[o[i] + k] = s[i][k]
            /\ \A n \in 1 .. Len(a) : \E i \in 1 .. m : \E k \in 1 .. Len(s[i]) : n = o[i] + k
        BY <4>1
      <4>7. o[m + 1] = Len(a) /\ b = s[m + 1]
        BY <4>3
      <4> HIDE DEF a, b
      <4>8. \A i \in 1 .. m + 1 : i \in 1 .. m \/ i = m + 1
        OBVIOUS
      <4>9. \A i \in 1 .. m : i \in 1 .. m + 1
        OBVIOUS
      <4>10. c \in Seq(S) /\ \A i \in 1 .. m + 1 : o[i] \in Nat
        BY <4>5, <4>6, <4>7, <4>8
      <4>11. ASSUME NEW i \in 1 .. m + 1, NEW k \in 1 .. Len(s[i])
             PROVE  o[i] + k \in 1 .. Len(c) /\ c[o[i] + k] = s[i][k]
        <5>1. CASE i \in 1 .. m
          <6>1. o[i] + k \in 1 .. Len(a) /\ a[o[i] + k] = s[i][k]
            BY <4>6, <5>1
          <6> HIDE DEF c
          <6> QED BY <6>1, <4>5
        <5>2. CASE i = m + 1
          <6>1. k \in 1 .. Len(b) /\ o[i] = Len(a)
            BY <4>7, <5>2
          <6>2. c[Len(a) + k] = b[k]
            BY <6>1, <4>5
          <6> HIDE DEF c
          <6>3. Len(a) + k \in 1 .. Len(c)
            BY <6>1, <4>5
          <6> QED BY <6>1, <6>2, <6>3, <4>7, <5>2
        <5> QED BY <4>8, <5>1, <5>2
      <4>12. ASSUME NEW n \in 1 .. Len(c)
             PROVE  \E i \in 1 .. m + 1 : \E k \in 1 .. Len(s[i]) : n = o[i] + k
        <5> HIDE DEF c
        <5>1. CASE n \in 1 .. Len(a)
          BY <5>1, <4>6, <4>9
        <5>2. CASE n \notin 1 .. Len(a)
          <6>1. n - Len(a) \in 1 .. Len(b) /\ n = Len(a) + (n - Len(a))
            BY <5>2, <4>5
          <6>2. m + 1 \in 1 .. m + 1
            OBVIOUS
          <6> QED BY <6>1, <6>2, <4>7
        <5> QED BY <5>1, <5>2
      <4> QED BY <4>10, <4>11, <4>12
    <3> QED BY <3>2, <3>3
  <2>6. Laid(Len(s))
    <3>1. \A m \in Nat : m \in G
      <4> HIDE DEF G
      <4> QED BY <2>4, <2>5, Upward
    <3>2. Len(s) \in Nat /\ Len(s) \in 1 .. Len(s)
      BY <1>2
    <3> HIDE DEF Laid
    <3> QED BY <3>1, <3>2
  <2>7. o \in [1 .. Len(s) -> Nat]
    BY <2>6
  <2> HIDE DEF o
  <2> DEFINE F == FlattenSeq(s)
  <2>8. /\ F \in Seq(S)
        /\ \A i \in 1 .. Len(s) : \A k \in 1 .. Len(s[i]) :
               o[i] + k \in 1 .. Len(F) /\ F[o[i] + k] = s[i][k]
        /\ \A n \in 1 .. Len(F) : \E i \in 1 .. Len(s) : \E k \in 1 .. Len(s[i]) : n = o[i] + k
    BY <2>3, <2>6
  <2> HIDE DEF F
  <2>9. Offsets(s, o)
    BY <2>7, <2>8 DEF Offsets, F
  <2> QED BY <2>8, <2>9 DEF F
<1> QED BY <1>1, <1>2

-----------------------------------------------------------------------------
(* What a job asks for, and how it is packed.                              *)

(* Intervals from 1 and from 0.                                            *)
LEMMA UpTo ==
  ASSUME NEW n \in Nat
  PROVE  /\ IsFiniteSet(1 .. n) /\ Cardinality(1 .. n) = n
         /\ IsFiniteSet(0 .. n - 1) /\ Cardinality(0 .. n - 1) = n
BY FS_Interval

(* MaxCores is the largest flavor of the resource.                         *)
LEMMA MaxCoresIs ==
  ASSUME NEW r \in CloudResources
  PROVE  MaxCores(r) \in Flavors[r] /\ MaxCores(r) \in Nat \ {0} /\ \A f \in Flavors[r] : f <= MaxCores(r)
<1>1. Flavors[r] \subseteq Nat \ {0} /\ Flavors[r] # {} /\ IsFiniteSet(Flavors[r])
  BY FlavorsAssumption
<1>2. Flavors[r] \subseteq Nat
  BY <1>1
<1>3. Max(Flavors[r]) \in Flavors[r] /\ \A y \in Flavors[r] : Max(Flavors[r]) >= y
  BY <1>1, <1>2, MaxOf
<1> QED BY <1>1, <1>3 DEF MaxCores

(* What a job asks for: parts of the same size.                            *)
LEMMA RequirementParts ==
  ASSUME NEW kind \in JobKinds, ~Unreadable(kind)
  PROVE  /\ Requirement(kind) \in Seq(Nat)
         /\ \A i \in DOMAIN Requirement(kind) : Requirement(kind)[i] = Requirement(kind)[1]
<1>1. /\ kind.neednodes \in Attributes /\ kind.ncpus \in Attributes /\ kind.nodes \in Attributes
  BY JobsAssumption DEF Kinds
<1>2. Absent \notin Nat /\ Text \notin Nat /\ Absent # Text
  BY DEF Absent, Text
<1>3. CASE kind.neednodes # Absent /\ kind.ncpus # Absent
  <2> DEFINE n == Number(kind.neednodes)
             c == Number(kind.ncpus)
  <2>1. n \in Nat /\ c \in Nat
    BY <1>1, <1>3 DEF Number, Attributes
  <2>2. Requirement(kind) = [i \in 1 .. n |-> c]
    BY <1>3 DEF Requirement
  <2> HIDE DEF n, c
  <2> QED BY <2>1, <2>2
<1>4. CASE ~(kind.neednodes # Absent /\ kind.ncpus # Absent) /\ kind.nodes # Absent
  <2>1. kind.nodes \in Nat
    BY <1>1, <1>4 DEF Unreadable, Attributes
  <2>2. Requirement(kind) = <<kind.nodes>>
    BY <1>4 DEF Requirement
  <2> QED BY <2>1, <2>2
<1>5. CASE ~(kind.neednodes # Absent /\ kind.ncpus # Absent) /\ kind.nodes = Absent
  <2>1. Requirement(kind) \in {<<1>>, <<>>}
    BY <1>5 DEF Requirement
  <2>2. CASE Requirement(kind) = <<1>>
    BY <2>2
  <2>3. CASE Requirement(kind) = <<>>
    BY <2>3
  <2> QED BY <2>1, <2>2, <2>3
<1> QED BY <1>3, <1>4, <1>5

(* A job is sized for one of the resources.                                *)
LEMMA AccountIs == ASSUME NEW kind PROVE Account(kind) \in CloudResources
BY ResourcesAssumption DEF Account

(* The cores on a node, when there is nothing on it, and when one more     *)
(* part is put onto it.                                                    *)
LEMMA TotalOne ==
  ASSUME NEW l, NEW j, NEW c \in Nat
  PROVE  Total([location |-> l, vcpu_list |-> <<[job |-> j, cores |-> c]>>]) = c
<1> DEFINE v == <<[job |-> j, cores |-> c]>>
           f == [i \in DOMAIN v |-> v[i].cores]
<1>1. DOMAIN f = {} \cup {1} /\ f[1] = c
  OBVIOUS
<1>2. SumFunctionOnSet(f, {}) = 0
  <2> HIDE DEF f
  <2> QED BY SumWithout, FS_EmptySet
<1>3. SumFunctionOnSet(f, {} \cup {1}) = SumFunctionOnSet(f, {}) + f[1]
  <2> HIDE DEF f
  <2>1. \A y \in {} \cup {1} : f[y] \in Int
    BY <1>1
  <2> QED BY <2>1, SumWith, FS_EmptySet
<1>4. SumFunction(f) = c
  <2> HIDE DEF f
  <2> QED BY <1>1, <1>2, <1>3 DEF SumFunction
<1> QED BY <1>4 DEF Total

(* The cores on a node are a natural; one part more adds its cores.        *)
LEMMA TotalIs ==
  ASSUME NEW res, res.vcpu_list \in Seq(Chunks)
  PROVE  /\ Total(res) \in Nat
         /\ \A chunk \in Chunks : \A more : more.vcpu_list = Append(res.vcpu_list, chunk) =>
                Total(more) = Total(res) + chunk.cores
<1> DEFINE v == res.vcpu_list
           D == 1 .. Len(v)
           f == [i \in DOMAIN v |-> v[i].cores]
<1>0. v \in Seq(Chunks)
  OBVIOUS
<1>1. v \in Seq(Chunks) /\ DOMAIN v = D /\ Len(v) \in Nat /\ IsFiniteSet(D)
  <2> HIDE DEF v
  <2>1. DOMAIN v = D /\ Len(v) \in Nat
    BY <1>0
  <2> QED BY <1>0, <2>1, UpTo
<1>2. \A i \in D : f[i] \in Nat
  <2> HIDE DEF v
  <2>1. \A i \in D : v[i] \in Chunks
    BY <1>1
  <2>2. \A c \in Chunks : c.cores \in Nat
    BY DEF Chunks
  <2> QED BY <1>1, <2>1, <2>2
<1>3. Total(res) = SumFunctionOnSet(f, D)
  BY <1>1 DEF Total, SumFunction
<1>4. Total(res) \in Nat
  <2> HIDE DEF f, D
  <2> QED BY <1>1, <1>2, <1>3, SumAtLeast
<1>5. ASSUME NEW chunk \in Chunks, NEW more, more.vcpu_list = Append(v, chunk)
      PROVE  Total(more) = Total(res) + chunk.cores
  <2> DEFINE w == more.vcpu_list
             h == [i \in DOMAIN w |-> w[i].cores]
             x == Len(v) + 1
  <2>1. DOMAIN w = D \cup {x} /\ x \notin D /\ w[x] = chunk /\ \A i \in D : w[i] = v[i]
    BY <1>1, <1>5
  <2>2. DOMAIN h = D \cup {x} /\ h[x] = chunk.cores /\ \A i \in D : h[i] = f[i]
    <3> HIDE DEF w, D, x, v
    <3> QED BY <1>1, <2>1
  <2>3. chunk.cores \in Nat
    BY DEF Chunks
  <2>4. Total(more) = SumFunctionOnSet(h, D \cup {x})
    <3>1. Total(more) = SumFunctionOnSet(h, DOMAIN h)
      BY DEF Total, SumFunction
    <3> HIDE DEF h, D, x
    <3> QED BY <3>1, <2>2
  <2> HIDE DEF f, h, D, x, v, w
  <2>5. SumFunctionOnSet(h, D \cup {x}) = SumFunctionOnSet(h, D) + h[x]
    <3>1. \A y \in D \cup {x} : h[y] \in Int
      BY <1>2, <2>2, <2>3
    <3> QED BY <3>1, <1>1, <2>1, SumWith
  <2>6. SumFunctionOnSet(h, D) = SumFunctionOnSet(f, D)
    <3>1. \A y \in D : f[y] \in Int
      BY <1>2
    <3>2. \A y \in D : h[y] = f[y]
      BY <2>2
    <3> QED BY <1>1, <3>1, <3>2, SumWithout, ZenonT(40)
  <2> QED BY <1>3, <2>2, <2>4, <2>5, <2>6
<1> QED BY <1>4, <1>5

(* No more nodes take a part than the job has parts.                       *)
LEMMA TakersIs ==
  ASSUME NEW r, NEW list \in Seq(Allocations), NEW location, NEW req \in Seq(Nat)
  PROVE  LET takers == Takers(r, list, location, req)
         IN  /\ takers \in SUBSET WithRoom(r, list, location, req[1])
             /\ takers \in SUBSET (1 .. Len(list))
             /\ IsFiniteSet(takers)
             /\ Cardinality(takers) \in 0 .. Len(req)
<1> DEFINE room == WithRoom(r, list, location, req[1])
           takers == Takers(r, list, location, req)
           n == Len(req)
           before(i) == {k \in room : k < i}
           rank == [i \in takers |-> Cardinality(before(i))]
<1>1. room \in SUBSET (1 .. Len(list)) /\ Len(list) \in Nat /\ n \in Nat
  BY DEF WithRoom
<1>2. takers = {i \in room : Cardinality({k \in room : k < i}) < n}
  BY DEF Takers
<1> HIDE DEF room, takers, n
<1>3. IsFiniteSet(room) /\ takers \in SUBSET room /\ IsFiniteSet(takers) /\ takers \in SUBSET (1 .. Len(list))
  <2>1. IsFiniteSet(1 .. Len(list))
    BY <1>1, UpTo
  <2>2. takers \in SUBSET room
    BY <1>2
  <2>3. IsFiniteSet(room)
    BY <1>1, <2>1, FS_Subset
  <2> QED BY <1>1, <2>2, <2>3, FS_Subset
<1>4. ASSUME NEW i \in room PROVE IsFiniteSet(before(i)) /\ Cardinality(before(i)) \in Nat
  BY <1>3, FS_Subset, FS_CardinalityType
<1>5. ASSUME NEW i \in takers PROVE rank[i] \in 0 .. n - 1
  <2>1. i \in room /\ Cardinality(before(i)) < n
    BY <1>2, <1>5
  <2> HIDE DEF before
  <2>2. Cardinality(before(i)) \in Nat
    BY <1>4, <2>1
  <2> QED BY <1>1, <2>1, <2>2
<1>6. ASSUME NEW i \in takers, NEW j \in takers, i < j PROVE rank[i] # rank[j]
  <2>1. before(i) \in SUBSET before(j) /\ i \in before(j) /\ i \notin before(i)
    <3>1. i \in room /\ \A k \in room : k \in Int
      BY <1>1, <1>3
    <3>2. \A k \in room : k < i => k < j
      BY <1>1, <1>3, <1>6, <3>1
    <3> QED BY <1>6, <3>1, <3>2
  <2>2. IsFiniteSet(before(j))
    BY <1>3, <1>4
  <2> HIDE DEF before
  <2>3. Cardinality(before(i)) # Cardinality(before(j))
    BY <2>1, <2>2, FS_Subset
  <2> QED BY <2>3
<1>7. rank \in Injection(takers, 0 .. n - 1)
  <2>1. rank \in [takers -> 0 .. n - 1]
    BY <1>5
  <2>2. ASSUME NEW i \in takers, NEW j \in takers, rank[i] = rank[j] PROVE i = j
    <3>1. i \in Int /\ j \in Int
      BY <1>1, <1>3
    <3> HIDE DEF rank
    <3> QED BY <3>1, <1>6, <2>2
  <2> HIDE DEF rank
  <2> QED BY <2>1, <2>2 DEF Injection, IsInjective
<1>8. IsFiniteSet(0 .. n - 1) /\ Cardinality(0 .. n - 1) = n
  BY <1>1, UpTo
<1>9. Cardinality(takers) <= n
  <2> HIDE DEF rank
  <2> QED BY <1>7, <1>8, FS_Injection
<1>10. Cardinality(takers) \in Nat
  BY <1>3, FS_CardinalityType
<1> QED BY <1>1, <1>3, <1>9, <1>10 DEF takers, room, n

(* The nodes of a resource after a job of k parts was packed onto them:    *)
(* the old ones (p says which is where), those in t with a part of the     *)
(* job, and a new node for each other part.                                *)
Packed(old, new, part, k, most, p, t) ==
    LET n == Len(old)
        m == k - Cardinality(t)
    IN  /\ new \in Seq(Allocations)
        /\ Len(new) = n + m /\ m \in Nat
        /\ p \in [1 .. n -> 1 .. n] /\ \A i, j \in 1 .. n : p[i] = p[j] => i = j
        /\ t \in SUBSET (1 .. n) /\ IsFiniteSet(t) /\ Cardinality(t) \in Nat
        /\ \A i \in t : /\ new[i].vcpu_list = Append(old[p[i]].vcpu_list, part)
                        /\ Total(old[p[i]]) + part.cores <= most
        /\ \A i \in 1 .. n \ t : new[i].vcpu_list = old[p[i]].vcpu_list
        /\ \A i \in n + 1 .. n + m :
              new[i].vcpu_list = <<part>> /\ new[i].location \in Locations
              /\ new[i] = [location |-> new[i].location, vcpu_list |-> <<part>>]

(* A function on 1 .. n is a list of n entries.                            *)
LEMMA ListIs ==
  ASSUME NEW S, NEW n \in Nat, NEW f \in [1 .. n -> S]
  PROVE  f \in Seq(S) /\ Len(f) = n
OBVIOUS

(* Where the entries of two lists are when they are joined.                *)
LEMMA ConcatIs ==
  ASSUME NEW S, NEW a \in Seq(S), NEW b \in Seq(S), NEW n, NEW m, Len(a) = n, Len(b) = m
  PROVE  /\ a \o b \in Seq(S) /\ Len(a \o b) = n + m
         /\ \A i \in 1 .. n : (a \o b)[i] = a[i]
         /\ \A i \in 1 .. m : (a \o b)[n + i] = b[i]
OBVIOUS

(* AddNewRequirement packs the parts of the job.                           *)
LEMMA AddIs ==
  ASSUME NEW r \in CloudResources, NEW location \in Locations,
         NEW req \in Seq(Nat), req # <<>>, next \in Nat,
         req_list[r] \in Seq(Allocations)
  PROVE  \E p, t : Packed(req_list[r], AddNewRequirement(r, location, req),
                          [job |-> next, cores |-> req[1]], Len(req), MaxCores(r), p, t)
<1> DEFINE old == req_list[r]
           list == Fullest(old)
           t == Takers(r, list, location, req)
           part == [job |-> next, cores |-> req[1]]
           n == Len(old)
           m == Len(req) - Cardinality(t)
           new == AddNewRequirement(r, location, req)
           key == [i \in DOMAIN old |-> Total(old[i])]
           head == [i \in DOMAIN list |->
                      IF i \in t THEN [list[i] EXCEPT !.vcpu_list = Append(@, part)] ELSE list[i]]
           tail == [i \in 1 .. m |-> [location |-> location, vcpu_list |-> <<part>>]]
<1>1. new = head \o tail
  BY DEF AddNewRequirement
<1>2. old \in Seq(Allocations) /\ n \in Nat /\ DOMAIN old = 1 .. n
  OBVIOUS
<1>3. key \in [DOMAIN old -> Int]
  <2> SUFFICES ASSUME NEW i \in DOMAIN old PROVE Total(old[i]) \in Int
    OBVIOUS
  <2>1. old[i].vcpu_list \in Seq(Chunks)
    <3> HIDE DEF old
    <3>1. old[i] \in Allocations
      BY <1>2
    <3> QED BY <3>1 DEF Allocations
  <2> QED BY <2>1, TotalIs
<1>4. list = Descending(old, key)
  BY DEF Fullest
<1>5. PICK p : Sorted(old, key, p)
  <2> HIDE DEF key, old
  <2> QED BY <1>2, <1>3, DescendingMoves
<1>6. list \in Seq(Allocations) /\ Len(list) = n
  <2> HIDE DEF key, old, list
  <2>1. Descending(old, key) \in Seq(Allocations) /\ Len(Descending(old, key)) = Len(old)
    BY <1>2, <1>3, DescendingMoves
  <2> QED BY <2>1, <1>4 DEF list, old
<1>7. /\ p \in [1 .. n -> 1 .. n] /\ \A i, j \in 1 .. n : p[i] = p[j] => i = j
      /\ \A i \in 1 .. n : list[i] = old[p[i]]
  <2> HIDE DEF key, old, list
  <2> QED BY <1>2, <1>4, <1>5 DEF Sorted, old
<1>8. /\ t \in SUBSET WithRoom(r, list, location, req[1])
      /\ t \in SUBSET (1 .. n) /\ IsFiniteSet(t) /\ Cardinality(t) \in 0 .. Len(req)
  <2> HIDE DEF list, n
  <2> QED BY <1>6, TakersIs
<1>9. m \in Nat /\ Cardinality(t) \in Nat /\ Len(req) \in Nat
  <2> HIDE DEF t
  <2> QED BY <1>8
<1>10. req[1] \in Nat /\ part \in Chunks /\ part.cores = req[1]
  <2>1. req[1] \in Nat
    OBVIOUS
  <2> QED BY <2>1 DEF Chunks
<1>11. ASSUME NEW i \in t PROVE Total(old[p[i]]) + req[1] <= MaxCores(r)
  <2>1. i \in 1 .. n /\ Total(list[i]) + req[1] <= MaxCores(r)
    <3> HIDE DEF t, list
    <3> QED BY <1>8 DEF WithRoom
  <2>2. list[i] = old[p[i]]
    <3> HIDE DEF t, list
    <3> QED BY <2>1, <1>7
  <2> QED BY <2>1, <2>2
<1>12. ASSUME NEW res \in Allocations
       PROVE  /\ [res EXCEPT !.vcpu_list = Append(@, part)] \in Allocations
              /\ [res EXCEPT !.vcpu_list = Append(@, part)].vcpu_list = Append(res.vcpu_list, part)
  <2> HIDE DEF part
  <2>1. res.vcpu_list \in Seq(Chunks) /\ res.location \in Locations
    BY DEF Allocations
  <2>2. Append(res.vcpu_list, part) \in Seq(Chunks)
    BY <2>1, <1>10
  <2> QED BY <2>1, <2>2 DEF Allocations
<1>13. head \in Seq(Allocations) /\ Len(head) = n
  <2>1. DOMAIN list = 1 .. n
    BY <1>6
  <2>2. \A i \in 1 .. n : list[i] \in Allocations
    <3> HIDE DEF list, n
    <3> QED BY <1>6
  <2> HIDE DEF list, t, n, part
  <2>3. head \in [1 .. n -> Allocations]
    BY <2>1, <2>2, <1>12
  <2> HIDE DEF head
  <2> QED BY <2>3, <1>2, ListIs
<1>14. tail \in Seq(Allocations) /\ Len(tail) = m
  <2>1. <<part>> \in Seq(Chunks)
    <3> HIDE DEF part
    <3> QED BY <1>10
  <2> HIDE DEF part, m
  <2>2. [location |-> location, vcpu_list |-> <<part>>] \in Allocations
    BY <2>1 DEF Allocations
  <2>3. tail \in [1 .. m -> Allocations]
    BY <2>2
  <2> QED BY <2>3, <1>9
<1>15. \A i \in 1 .. n : head[i] = IF i \in t THEN [list[i] EXCEPT !.vcpu_list = Append(@, part)] ELSE list[i]
  <2>1. DOMAIN list = 1 .. n
    BY <1>6
  <2> HIDE DEF list, t, n, part
  <2> QED BY <2>1
<1>16. \A i \in 1 .. m : tail[i] = [location |-> location, vcpu_list |-> <<part>>]
  <2> HIDE DEF t, m, part
  <2> QED OBVIOUS
<1> HIDE DEF head, tail, new, list, t, n, part, old
<1>17. /\ new \in Seq(Allocations) /\ Len(new) = n + m
       /\ \A i \in 1 .. n : new[i] = head[i]
       /\ \A i \in 1 .. m : new[n + i] = tail[i]
  <2> HIDE DEF m
  <2>1. /\ head \o tail \in Seq(Allocations) /\ Len(head \o tail) = n + m
        /\ \A i \in 1 .. n : (head \o tail)[i] = head[i]
        /\ \A i \in 1 .. m : (head \o tail)[n + i] = tail[i]
    BY <1>13, <1>14, ConcatIs
  <2> QED BY <1>1, <2>1
<1> HIDE DEF m
<1>18. \A i \in 1 .. n : list[i] \in Allocations
  BY <1>6
<1>19. ASSUME NEW i \in t
       PROVE  /\ new[i].vcpu_list = Append(old[p[i]].vcpu_list, part)
              /\ Total(old[p[i]]) + part.cores <= MaxCores(r)
  <2>1. i \in 1 .. n
    BY <1>8
  <2>2. new[i] = [list[i] EXCEPT !.vcpu_list = Append(@, part)] /\ list[i] = old[p[i]]
    BY <2>1, <1>7, <1>15, <1>17
  <2>3. new[i].vcpu_list = Append(old[p[i]].vcpu_list, part)
    BY <2>1, <2>2, <1>12, <1>18
  <2> QED BY <2>3, <1>10, <1>11
<1>20. \A i \in 1 .. n \ t : new[i].vcpu_list = old[p[i]].vcpu_list
  BY <1>7, <1>15, <1>17
<1>21. ASSUME NEW i \in n + 1 .. n + m
       PROVE  new[i] = [location |-> location, vcpu_list |-> <<part>>]
  <2>1. i - n \in 1 .. m /\ i = n + (i - n)
    BY <1>2, <1>9
  <2> QED BY <2>1, <1>16, <1>17
<1>22. m = Len(req) - Cardinality(t) /\ n = Len(old)
  BY DEF m, n
<1>23. Packed(old, new, part, Len(req), MaxCores(r), p, t)
  BY <1>7, <1>8, <1>9, <1>17, <1>19, <1>20, <1>21, <1>22 DEF Packed
<1> QED BY <1>23 DEF old, new, part

(* The list where the inner loop stops: everything before is smaller.      *)
LEMMA AdvanceIs ==
  ASSUME job_priorities \in Seq(Listings), job_priorities # <<>>, idx \in Nat \ {0}, NEW id \in Nat
  PROVE  /\ Advance(id) \in 1 .. Len(job_priorities)
         /\ idx <= Len(job_priorities) => idx <= Advance(id)
         /\ \A m \in idx .. Len(job_priorities) : m < Advance(id) => job_priorities[m].id < id
         /\ job_priorities[Advance(id)].id < id => Advance(id) = Len(job_priorities)
<1> DEFINE n == Len(job_priorities)
           stops == {k \in idx .. n : job_priorities[k].id >= id}
<1>1. n \in Nat \ {0} /\ \A k \in 1 .. n : job_priorities[k].id \in Nat
  <2>1. \A k \in 1 .. n : job_priorities[k] \in Listings
    OBVIOUS
  <2>2. n \in Nat \ {0}
    OBVIOUS
  <2> HIDE DEF n
  <2>3. \A k \in 1 .. n : job_priorities[k].id \in Nat
    BY <2>1, JobsAssumption DEF Listings
  <2> QED BY <2>2, <2>3
<1>2. Advance(id) = IF stops = {} THEN n ELSE Min(stops)
  BY DEF Advance
<1> HIDE DEF n
<1>3. CASE stops = {}
  <2>1. Advance(id) = n
    BY <1>2, <1>3
  <2>2. \A m \in idx .. n : job_priorities[m].id < id
    <3> SUFFICES ASSUME NEW m \in idx .. n PROVE job_priorities[m].id < id
      OBVIOUS
    <3>1. m \in 1 .. n /\ ~(job_priorities[m].id >= id)
      BY <1>1, <1>3
    <3> QED BY <3>1, <1>1
  <2> QED BY <2>1, <2>2, <1>1 DEF n
<1>4. CASE stops # {}
  <2>1. stops \subseteq Nat
    BY <1>1
  <2> DEFINE k == Min(stops)
  <2>2. k \in stops /\ \A m \in stops : k <= m
    <3> HIDE DEF stops
    <3> QED BY <2>1, <1>4, MinOf
  <2> HIDE DEF k
  <2>3. k \in idx .. n /\ k \in 1 .. n /\ job_priorities[k].id >= id
    BY <2>2, <1>1
  <2>4. ASSUME NEW m \in idx .. n, m < k PROVE job_priorities[m].id < id
    <3>1. m \notin stops
      BY <2>2, <2>3, <2>4, <1>1
    <3>2. m \in 1 .. n /\ ~(job_priorities[m].id >= id)
      BY <3>1, <1>1
    <3> QED BY <3>2, <1>1
  <2>5. Advance(id) = k
    BY <1>2, <1>4 DEF k
  <2>6. ~(job_priorities[k].id < id)
    BY <2>3, <1>1
  <2> QED BY <2>3, <2>4, <2>5, <2>6, <1>1 DEF n
<1> QED BY <1>3, <1>4

(* The flavor that is requested holds the node, if any does.               *)
LEMMA BestFlavorIs ==
  ASSUME NEW r \in CloudResources, NEW res
  PROVE  /\ BestFlavor(r, res) \in Nat
         /\ (Total(res) \in Nat /\ Total(res) <= MaxCores(r)) => BestFlavor(r, res) >= Total(res)
<1> DEFINE holding == {f \in Flavors[r] : f >= Total(res)}
<1>1. Flavors[r] \subseteq Nat /\ Flavors[r] # {}
  BY FlavorsAssumption
<1>2. CASE holding = {}
  <2>1. BestFlavor(r, res) = Min(Flavors[r])
    BY <1>2 DEF BestFlavor
  <2>2. Min(Flavors[r]) \in Nat
    BY <1>1, MinOf
  <2>3. ~(Total(res) \in Nat /\ Total(res) <= MaxCores(r))
    BY <1>1, <1>2, MaxCoresIs
  <2> QED BY <2>1, <2>2, <2>3
<1>3. CASE holding # {}
  <2>1. BestFlavor(r, res) = Min(holding)
    BY <1>3 DEF BestFlavor
  <2>2. Min(holding) \in holding
    <3>1. holding \subseteq Nat
      BY <1>1
    <3> HIDE DEF holding
    <3> QED BY <3>1, <1>3, MinOf
  <2> QED BY <2>1, <2>2, <1>1
<1> QED BY <1>2, <1>3

(* One step of sizing: the job is passed over, or packed onto the nodes of *)
(* one resource that has the cores, or it ends the thread.                 *)
Served(r, p, t) ==
    LET req == Requirement(Job.kind)
    IN  /\ r \in CloudResources /\ ~Unreadable(Job.kind)
        /\ req \in Seq(Nat) /\ req # <<>>
        /\ \A i \in DOMAIN req : req[i] = req[1]
        /\ HaveEnoughCores(r, req)
        /\ Packed(req_list[r], req_list'[r], [job |-> next, cores |-> req[1]],
                  Len(req), MaxCores(r), p, t)
        /\ req_list' = [req_list EXCEPT ![r] = req_list'[r]]

(* The job that is looked at is one.                                       *)
LEMMA JobIs ==
  ASSUME SchedulerTypeOK, next <= Len(idle_jobs)
  PROVE  next \in 1 .. Len(idle_jobs) /\ Job \in Jobs /\ Job.kind \in JobKinds /\ Job.id \in Nat
<1>1. next \in 1 .. Len(idle_jobs) /\ idle_jobs \in Seq(Jobs)
  BY DEF SchedulerTypeOK
<1>2. Job \in Jobs
  BY <1>1 DEF Job
<1> QED BY <1>1, <1>2, JobsAssumption DEF Jobs

(* What SizeJob may do.                                                    *)
LEMMA SizeStep ==
  ASSUME SchedulerTypeOK, SizeJob
  PROVE  /\ phase = "size" /\ next <= Len(idle_jobs)
         /\ UNCHANGED <<idle_jobs, job_priorities, number_of_wn, idx, flavor_list>>
         /\ \/ phase' = phase /\ next' = next + 1 /\ UNCHANGED req_list
            \/ phase' = "IndexError" /\ UNCHANGED <<next, req_list>>
            \/ phase' = phase /\ next' = next + 1 /\ \E r, p, t : Served(r, p, t)
<1>1. /\ phase = "size" /\ next <= Len(idle_jobs)
      /\ ~Passed(Job) /\ ~Unreadable(Job.kind)
      /\ UNCHANGED <<idle_jobs, job_priorities, number_of_wn, idx, flavor_list>>
  BY DEF SizeJob
<1> DEFINE req == Requirement(Job.kind)
<1>2. req \in Seq(Nat) /\ req # <<>> /\ \A i \in DOMAIN req : req[i] = req[1]
  BY <1>1, JobIs, RequirementParts DEF Passed
<1>3. PICK location \in Locations :
        \/ Targets(Job.kind, location) = {} /\ next' = next + 1 /\ UNCHANGED <<phase, req_list>>
        \/ \E r \in Targets(Job.kind, location) :
              IF Overruns(r, location, req)
              THEN phase' = "IndexError" /\ UNCHANGED <<next, req_list>>
              ELSE /\ req_list' = [req_list EXCEPT ![r] = AddNewRequirement(r, location, req)]
                   /\ next' = next + 1
                   /\ UNCHANGED phase
  BY DEF SizeJob
<1>4. CASE Targets(Job.kind, location) = {} /\ next' = next + 1 /\ UNCHANGED <<phase, req_list>>
  BY <1>1, <1>4
<1>5. ASSUME NEW r \in Targets(Job.kind, location), Overruns(r, location, req),
             phase' = "IndexError" /\ UNCHANGED <<next, req_list>>
      PROVE  phase' = "IndexError" /\ UNCHANGED <<next, req_list>>
  BY <1>5
<1>6. ASSUME NEW r \in Targets(Job.kind, location),
             req_list' = [req_list EXCEPT ![r] = AddNewRequirement(r, location, req)]
      PROVE  \E p, t : Served(r, p, t)
  <2>1. r \in CloudResources /\ HaveEnoughCores(r, req)
    BY AccountIs, ResourcesAssumption DEF Targets
  <2>2. next \in Nat /\ req_list[r] \in Seq(Allocations) /\ req_list \in [CloudResources -> Seq(Allocations)]
    BY <2>1 DEF SchedulerTypeOK
  <2> HIDE DEF req
  <2> DEFINE new == AddNewRequirement(r, location, req)
  <2>3. PICK p, t : Packed(req_list[r], new, [job |-> next, cores |-> req[1]],
                           Len(req), MaxCores(r), p, t)
    BY <1>2, <2>1, <2>2, AddIs
  <2> HIDE DEF new
  <2>4. req_list'[r] = new /\ req_list' = [req_list EXCEPT ![r] = req_list'[r]]
    BY <1>6, <2>1, <2>2 DEF new
  <2>5. Served(r, p, t)
    BY <1>1, <1>2, <2>1, <2>3, <2>4 DEF Served, req
  <2> QED BY <2>5
<1> HIDE DEF req
<1> QED BY <1>1, <1>3, <1>4, <1>5, <1>6

-----------------------------------------------------------------------------
(* Types.                                                                  *)

(* Bounded sequences are sequences.                                        *)
LEMMA BoundedIs ==
  ASSUME NEW S, NEW n \in Nat, NEW s \in BoundedSeq(S, n)
  PROVE  s \in Seq(S) /\ Len(s) <= n
<1>1. PICK m \in 0 .. n : s \in [1 .. m -> S]
  BY DEF BoundedSeq, SeqOf
<1> QED BY <1>1, ListIs

(* A round begins with values of their types.                              *)
LEMMA InitTyped == ASSUME Init PROVE SchedulerTypeOK
<1>1. PICK s \in IdLists : idle_jobs \in NewJobs(s)
  BY DEF Init
<1>2. s \in Seq(Ids)
  BY <1>1, BoundedIs, JobsAssumption DEF IdLists
<1>3. PICK k \in [DOMAIN s -> JobKinds] :
        idle_jobs = [i \in DOMAIN s |-> [id |-> s[i], kind |-> k[i], priority |-> NoPriority]]
  BY <1>1 DEF NewJobs
<1>4. idle_jobs \in Seq(Jobs)
  <2>1. Len(s) \in Nat /\ DOMAIN s = 1 .. Len(s) /\ \A i \in DOMAIN s : s[i] \in Ids
    BY <1>2
  <2>2. \A i \in DOMAIN s : [id |-> s[i], kind |-> k[i], priority |-> NoPriority] \in Jobs
    BY <2>1 DEF Jobs
  <2>3. idle_jobs \in [1 .. Len(s) -> Jobs]
    BY <1>3, <2>1, <2>2
  <2> QED BY <2>1, <2>3, ListIs
<1>5. job_priorities \in Seq(Listings)
  BY BoundedIs, JobsAssumption DEF Init, MauiLists
<1>6. req_list \in [CloudResources -> Seq(Allocations)]
  <2>1. <<>> \in Seq(Allocations)
    OBVIOUS
  <2> QED BY <2>1 DEF Init
<1>7. flavor_list \in Seq(Wanted)
  BY DEF Init
<1> QED BY <1>4, <1>5, <1>6, <1>7 DEF Init, SchedulerTypeOK

(* The merge reads inside both lists.                                      *)
LEMMA MergeTyped == ASSUME SchedulerTypeOK, MergeJob PROVE SchedulerTypeOK'
<1> DEFINE id == idle_jobs[next].id
           k == Advance(id)
           found == job_priorities[k].id = id
           after == IF found THEN k + 1 ELSE k
<1>1. next \in 1 .. Len(idle_jobs) /\ job_priorities # <<>> /\ phase = "merge"
  BY DEF MergeJob, SchedulerTypeOK
<1>2. idle_jobs[next] \in Jobs /\ id \in Nat
  <2>1. idle_jobs[next] \in Jobs
    BY <1>1 DEF SchedulerTypeOK
  <2> QED BY <2>1, JobsAssumption DEF Jobs
<1>3. k \in 1 .. Len(job_priorities)
  BY <1>1, <1>2, AdvanceIs DEF SchedulerTypeOK
<1>4. after \in Nat \ {0}
  BY <1>3
<1>5. idle_jobs' \in Seq(Jobs)
  <2>1. job_priorities[k].priority \in Priorities
    <3>1. job_priorities[k] \in Listings
      BY <1>3 DEF SchedulerTypeOK
    <3> QED BY <3>1 DEF Listings
  <2>2. [idle_jobs[next] EXCEPT !.priority = <<job_priorities[k].priority>>] \in Jobs
    BY <1>2, <2>1 DEF Jobs
  <2>3. [idle_jobs EXCEPT ![next].priority = <<job_priorities[k].priority>>]
          = [idle_jobs EXCEPT ![next] = [idle_jobs[next] EXCEPT !.priority = <<job_priorities[k].priority>>]]
    OBVIOUS
  <2> DEFINE new == [idle_jobs[next] EXCEPT !.priority = <<job_priorities[k].priority>>]
  <2>4. new \in Jobs /\ idle_jobs \in Seq(Jobs)
    BY <2>2 DEF SchedulerTypeOK
  <2>5. [idle_jobs EXCEPT ![next] = new] \in Seq(Jobs)
    <3> HIDE DEF new
    <3> QED BY <2>4, <1>1
  <2>6. idle_jobs' = idle_jobs \/ idle_jobs' = [idle_jobs EXCEPT ![next].priority = <<job_priorities[k].priority>>]
    BY DEF MergeJob
  <2> QED BY <2>3, <2>4, <2>5, <2>6
<1>6. /\ idx' = after
      /\ phase' \in {"merge", "sort"}
      /\ next' \in {1, next + 1}
      /\ UNCHANGED <<job_priorities, number_of_wn, req_list, flavor_list>>
  <2> HIDE DEF after
  <2> QED BY <1>1 DEF MergeJob, after
<1> HIDE DEF after
<1> QED BY <1>4, <1>5, <1>6 DEF SchedulerTypeOK

(* The keys of the sort are numbers.                                       *)
LEMMA PriorityIs ==
  ASSUME SchedulerTypeOK, \A i \in DOMAIN idle_jobs : idle_jobs[i].priority # NoPriority
  PROVE  [i \in DOMAIN idle_jobs |-> idle_jobs[i].priority[1]] \in [DOMAIN idle_jobs -> Int]
<1> SUFFICES ASSUME NEW i \in DOMAIN idle_jobs PROVE idle_jobs[i].priority[1] \in Int
  OBVIOUS
<1>1. idle_jobs[i] \in Jobs
  BY DEF SchedulerTypeOK
<1>2. PICK p \in Priorities : idle_jobs[i].priority = <<p>>
  BY <1>1 DEF Jobs
<1> QED BY <1>2, PriorityAssumption

(* Sorting keeps the types.                                                *)
LEMMA SortTyped == ASSUME SchedulerTypeOK, SortJobs PROVE SchedulerTypeOK'
<1> DEFINE key == [i \in DOMAIN idle_jobs |-> idle_jobs[i].priority[1]]
<1>1. UNCHANGED <<job_priorities, number_of_wn, next, idx, req_list, flavor_list>>
  BY DEF SortJobs
<1>2. CASE \E i \in DOMAIN idle_jobs : idle_jobs[i].priority = NoPriority
  <2>1. phase' = "KeyError" /\ UNCHANGED idle_jobs
    BY <1>2 DEF SortJobs
  <2> QED BY <1>1, <2>1 DEF SchedulerTypeOK, Raised
<1>3. CASE ~ \E i \in DOMAIN idle_jobs : idle_jobs[i].priority = NoPriority
  <2>1. phase' = "size" /\ idle_jobs' = Descending(idle_jobs, key)
    BY <1>3 DEF SortJobs
  <2>2. key \in [DOMAIN idle_jobs -> Int]
    BY <1>3, PriorityIs
  <2>3. idle_jobs' \in Seq(Jobs)
    <3> HIDE DEF key
    <3> QED BY <2>1, <2>2, DescendingMoves DEF SchedulerTypeOK
  <2> QED BY <1>1, <2>1, <2>3 DEF SchedulerTypeOK
<1> QED BY <1>2, <1>3

(* Packing keeps the types.                                                *)
LEMMA SizeTyped == ASSUME SchedulerTypeOK, SizeJob PROVE SchedulerTypeOK'
<1>1. /\ phase = "size"
      /\ UNCHANGED <<idle_jobs, job_priorities, number_of_wn, idx, flavor_list>>
  BY SizeStep
<1>2. phase' \in {"size", "IndexError"} /\ next' \in {next, next + 1}
  BY SizeStep
<1>3. req_list' \in [CloudResources -> Seq(Allocations)]
  <2>1. UNCHANGED req_list \/ \E r, p, t : Served(r, p, t)
    BY SizeStep
  <2>2. ASSUME NEW r, NEW p, NEW t, Served(r, p, t) PROVE req_list' \in [CloudResources -> Seq(Allocations)]
    <3>1. r \in CloudResources /\ req_list'[r] \in Seq(Allocations)
          /\ req_list' = [req_list EXCEPT ![r] = req_list'[r]]
      BY <2>2 DEF Served, Packed
    <3> QED BY <3>1 DEF SchedulerTypeOK
  <2> QED BY <2>1, <2>2 DEF SchedulerTypeOK
<1> QED BY <1>1, <1>2, <1>3 DEF SchedulerTypeOK, Raised

(* The requests are the nodes of each resource in turn.                    *)
Turn(r) == [i \in DOMAIN req_list[r] |->
              [flavor |-> BestFlavor(r, req_list[r][i]), location |-> req_list[r][i].location,
               resource |-> r]]
Turns(order) == [n \in DOMAIN order |-> Turn(order[n])]

(* What Convert does, with its turns.                                      *)
LEMMA ConvertStep ==
  ASSUME SchedulerTypeOK, Convert
  PROVE  /\ phase = "convert" /\ phase' = "done"
         /\ UNCHANGED <<idle_jobs, job_priorities, number_of_wn, next, idx, req_list>>
         /\ \E order \in SetToSeqs(CloudResources) :
               /\ flavor_list' = FlattenSeq(Turns(order))
               /\ Turns(order) \in Seq(Seq(Wanted))
<1>1. PICK order \in SetToSeqs(CloudResources) : flavor_list' = FlattenSeq(Turns(order))
  BY DEF Convert, Turns, Turn
<1>2. /\ Cardinality(CloudResources) \in Nat
      /\ order \in [1 .. Cardinality(CloudResources) -> CloudResources]
  BY ResourcesAssumption, FS_CardinalityType DEF SetToSeqs
<1>3. ASSUME NEW r \in CloudResources PROVE Turn(r) \in Seq(Wanted)
  <2>1. req_list[r] \in Seq(Allocations)
    BY DEF SchedulerTypeOK
  <2>2. ASSUME NEW i \in DOMAIN req_list[r]
        PROVE  [flavor |-> BestFlavor(r, req_list[r][i]), location |-> req_list[r][i].location,
                resource |-> r] \in Wanted
    <3>1. req_list[r][i] \in Allocations
      BY <2>1
    <3>2. req_list[r][i].location \in Locations
      BY <3>1 DEF Allocations
    <3> QED BY <3>2, BestFlavorIs DEF Wanted
  <2>3. DOMAIN req_list[r] = 1 .. Len(req_list[r]) /\ Len(req_list[r]) \in Nat
    BY <2>1
  <2>4. Turn(r) \in [1 .. Len(req_list[r]) -> Wanted]
    BY <2>2, <2>3 DEF Turn
  <2> QED BY <2>3, <2>4, ListIs
<1>4. Turns(order) \in Seq(Seq(Wanted))
  <2>1. Turns(order) \in [1 .. Cardinality(CloudResources) -> Seq(Wanted)]
    BY <1>2, <1>3 DEF Turns
  <2> QED BY <1>2, <2>1, ListIs
<1> QED BY <1>1, <1>4 DEF Convert

(* So does every step.                                                     *)
LEMMA NextTyped == ASSUME SchedulerTypeOK, [Next]_vars PROVE SchedulerTypeOK'
<1>1. CASE MergeJob
  BY <1>1, MergeTyped
<1>2. CASE MergeEnd
  BY <1>2 DEF MergeEnd, SchedulerTypeOK
<1>3. CASE SortJobs
  BY <1>3, SortTyped
<1>4. CASE PassJob
  BY <1>4 DEF PassJob, SchedulerTypeOK
<1>5. CASE FailJob
  BY <1>5 DEF FailJob, SchedulerTypeOK, Raised
<1>6. CASE SizeJob
  BY <1>6, SizeTyped
<1>7. CASE SizeEnd
  BY <1>7 DEF SizeEnd, SchedulerTypeOK
<1>8. CASE Convert
  <2>1. flavor_list' \in Seq(Wanted)
    BY <1>8, ConvertStep, Flattened
  <2> QED BY <1>8, <2>1, ConvertStep DEF SchedulerTypeOK
<1>9. CASE UNCHANGED vars
  BY <1>9 DEF vars, SchedulerTypeOK
<1> QED BY <1>1, <1>2, <1>3, <1>4, <1>5, <1>6, <1>7, <1>8, <1>9 DEF Next

(* Every round works on values of their types, whatever the jobs ask for   *)
(* and however many there are: sorting only moves jobs and nodes, no node  *)
(* gets a part that is not a number of cores, and every request is for a   *)
(* flavor of its resource.                                                 *)
THEOREM SchedulerTyped == Spec => []SchedulerTypeOK
BY InitTyped, NextTyped, PTL DEF Spec

-----------------------------------------------------------------------------
(* Priorities.                                                             *)

Matched(i) ==
    \E k \in DOMAIN job_priorities :
        /\ job_priorities[k].id = idle_jobs[i].id
        /\ idle_jobs[i].priority = <<job_priorities[k].priority>>
Excused(i) ==
    ~Listed(idle_jobs[i].id) \/ \E j \in DOMAIN idle_jobs \ {i} : idle_jobs[j].id = idle_jobs[i].id
Settled(i) == Matched(i) \/ (idle_jobs[i].priority = NoPriority /\ Excused(i))

(* Entry m of Maui's list is of no use to job i, which is behind the first *)
(* n: its number is smaller, or one of these jobs has it.                  *)
Used(m, i, n) ==
    \/ job_priorities[m].id < idle_jobs[i].id
    \/ \E j \in 1 .. n : idle_jobs[j].id = job_priorities[m].id

(* The merge: the jobs before the one that is looked at are settled, the   *)
(* others have no priority yet, and the entries of Maui's list that the    *)
(* position has passed are of no use to them.                              *)
Merging ==
    /\ \A i, j \in DOMAIN idle_jobs : i < j => idle_jobs[i].id <= idle_jobs[j].id
    /\ job_priorities # <<>> => idx <= Len(job_priorities)
    /\ \A i \in DOMAIN idle_jobs :
          IF i < next THEN Settled(i) ELSE idle_jobs[i].priority = NoPriority
    /\ \A m \in 1 .. idx - 1 : \A i \in next .. Len(idle_jobs) : Used(m, i, next - 1)

MergeInv ==
    /\ \A i, j \in DOMAIN job_priorities : i < j => job_priorities[i].id < job_priorities[j].id
    /\ phase = "merge" => Merging
    /\ phase = "sort" => \A i \in DOMAIN idle_jobs : Settled(i)
    /\ phase = "KeyError" => \E i \in DOMAIN idle_jobs : Excused(i)
    /\ phase \in {"size", "convert", "done"} => \A i \in DOMAIN idle_jobs : Matched(i)

(* Job numbers can be compared.                                            *)
LEMMA IdsAreNumbers ==
  ASSUME SchedulerTypeOK
  PROVE  /\ \A i \in DOMAIN idle_jobs : idle_jobs[i].id \in Nat
         /\ \A m \in DOMAIN job_priorities : job_priorities[m].id \in Nat
         /\ DOMAIN idle_jobs = 1 .. Len(idle_jobs) /\ Len(idle_jobs) \in Nat
         /\ DOMAIN job_priorities = 1 .. Len(job_priorities) /\ Len(job_priorities) \in Nat
<1>1. \A i \in DOMAIN idle_jobs : idle_jobs[i] \in Jobs
  BY DEF SchedulerTypeOK
<1>2. \A m \in DOMAIN job_priorities : job_priorities[m] \in Listings
  BY DEF SchedulerTypeOK
<1>3. \A i \in DOMAIN idle_jobs : idle_jobs[i].id \in Nat
  BY <1>1, JobsAssumption DEF Jobs
<1>4. \A m \in DOMAIN job_priorities : job_priorities[m].id \in Nat
  BY <1>2, JobsAssumption DEF Listings
<1> QED BY <1>3, <1>4 DEF SchedulerTypeOK

(* Before the merge no job has a priority, and no entry is passed.         *)
LEMMA InitMerging == ASSUME Init PROVE MergeInv
<1>1. PICK s \in IdLists : idle_jobs \in NewJobs(s)
  BY DEF Init
<1>2. \A i, j \in DOMAIN s : i < j => s[i] <= s[j]
  BY <1>1 DEF IdLists
<1>3. PICK k \in [DOMAIN s -> JobKinds] :
        idle_jobs = [i \in DOMAIN s |-> [id |-> s[i], kind |-> k[i], priority |-> NoPriority]]
  BY <1>1 DEF NewJobs
<1>4. /\ \A i, j \in DOMAIN idle_jobs : i < j => idle_jobs[i].id <= idle_jobs[j].id
      /\ \A i \in DOMAIN idle_jobs : idle_jobs[i].priority = NoPriority
  BY <1>2, <1>3
<1>5. \A i, j \in DOMAIN job_priorities : i < j => job_priorities[i].id < job_priorities[j].id
  BY DEF Init, MauiLists
<1>6. next = 1 /\ idx = 1 /\ phase = "merge"
  BY DEF Init
<1>7. SchedulerTypeOK
  BY InitTyped
<1>8. job_priorities # <<>> => idx <= Len(job_priorities)
  <2>1. job_priorities \in Seq(Listings)
    BY <1>7 DEF SchedulerTypeOK
  <2>2. job_priorities # <<>> => 1 <= Len(job_priorities)
    BY <2>1
  <2> QED BY <1>6, <2>2
<1>9. \A i \in DOMAIN idle_jobs : ~(i < 1)
  BY <1>7, IdsAreNumbers
<1>10. \A m \in 1 .. idx - 1 : FALSE
  BY <1>6
<1> QED BY <1>4, <1>5, <1>6, <1>8, <1>9, <1>10 DEF MergeInv, Merging

(* One pass of the loop: the job at next is settled, and what the position *)
(* passes is of no use to the jobs behind it.  If Maui's list ends here,   *)
(* all of them are missing from it or share a number with a job that took  *)
(* the entry.                                                              *)
LEMMA MergeMerging ==
  ASSUME SchedulerTypeOK, MergeInv, MergeJob
  PROVE  MergeInv'
<1>0. PICK n : n = next
  OBVIOUS
<1> DEFINE id == idle_jobs[n].id
           k == Advance(id)
           found == job_priorities[k].id = id
           after == IF found THEN k + 1 ELSE k
           N == Len(idle_jobs)
           L == Len(job_priorities)
<1>1. /\ n \in 1 .. N /\ N \in Nat /\ n \in Nat /\ L \in Nat /\ DOMAIN idle_jobs = 1 .. N
      /\ DOMAIN job_priorities = 1 .. L
      /\ job_priorities # <<>> /\ phase = "merge" /\ Merging
      /\ job_priorities \in Seq(Listings) /\ idx \in Nat \ {0}
      /\ \A i \in 1 .. N : idle_jobs[i].id \in Nat
      /\ \A m \in 1 .. L : job_priorities[m].id \in Nat
  BY <1>0, IdsAreNumbers DEF MergeJob, SchedulerTypeOK, MergeInv
<1>2. /\ \A i, j \in 1 .. N : i < j => idle_jobs[i].id <= idle_jobs[j].id
      /\ idx \in 1 .. L
      /\ \A i \in 1 .. N : i < n => Settled(i)
      /\ \A i \in 1 .. N : ~(i < n) => idle_jobs[i].priority = NoPriority
      /\ \A m \in 1 .. idx - 1 : \A i \in n .. N : Used(m, i, n - 1)
      /\ \A i, j \in 1 .. L : i < j => job_priorities[i].id < job_priorities[j].id
  <2>1. \A i, j \in DOMAIN job_priorities : i < j => job_priorities[i].id < job_priorities[j].id
    BY DEF MergeInv
  <2>2. /\ \A i, j \in DOMAIN idle_jobs : i < j => idle_jobs[i].id <= idle_jobs[j].id
        /\ idx <= L
        /\ \A i \in DOMAIN idle_jobs :
              IF i < n THEN Settled(i) ELSE idle_jobs[i].priority = NoPriority
        /\ \A m \in 1 .. idx - 1 : \A i \in n .. N : Used(m, i, n - 1)
    BY <1>0, <1>1 DEF Merging
  <2> HIDE DEF L, N
  <2>3. idx \in 1 .. L
    BY <1>1, <2>2
  <2> QED BY <1>1, <2>1, <2>2, <2>3
<1>3. /\ k \in 1 .. L /\ idx <= k
      /\ \A m \in idx .. L : m < k => job_priorities[m].id < id
      /\ job_priorities[k].id < id => k = L
  <2>1. PICK a : a = idle_jobs[n].id
    OBVIOUS
  <2>2. a \in Nat /\ idx \in Nat \ {0} /\ job_priorities # <<>> /\ job_priorities \in Seq(Listings)
    BY <1>1, <2>1
  <2>3. idx <= Len(job_priorities)
    BY <1>1, <1>2
  <2>4. /\ Advance(a) \in 1 .. Len(job_priorities)
        /\ idx <= Advance(a)
        /\ \A m \in idx .. Len(job_priorities) : m < Advance(a) => job_priorities[m].id < a
        /\ job_priorities[Advance(a)].id < a => Advance(a) = Len(job_priorities)
    BY <2>2, <2>3, AdvanceIs
  <2> QED BY <2>1, <2>4
<1>4. /\ IF found THEN idle_jobs' = [idle_jobs EXCEPT ![n].priority = <<job_priorities[k].priority>>]
         ELSE idle_jobs' = idle_jobs
      /\ idx' = after
      /\ IF after > L \/ job_priorities[k].id < id
         THEN phase' = "sort" /\ next' = 1
         ELSE next' = n + 1 /\ phase' = phase
      /\ UNCHANGED job_priorities
  BY <1>0 DEF MergeJob
<1> HIDE DEF k
<1>5. id \in Nat
  BY <1>1
<1>14. k \in Nat /\ idx \in Nat /\ k <= L /\ idx <= k
  <2>1. k \in 1 .. L /\ idx \in Nat /\ L \in Nat /\ idx <= k
    BY <1>1, <1>3
  <2> HIDE DEF L
  <2> QED BY <2>1
<1>6. /\ DOMAIN idle_jobs' = 1 .. N /\ Len(idle_jobs') = N
      /\ \A i \in 1 .. N : idle_jobs'[i].id = idle_jobs[i].id
      /\ \A i \in 1 .. N \ {n} : idle_jobs'[i] = idle_jobs[i]
      /\ found => idle_jobs'[n].priority = <<job_priorities[k].priority>>
      /\ ~found => idle_jobs'[n] = idle_jobs[n]
  <2>1. idle_jobs \in Seq(Jobs) /\ idle_jobs[n] \in Jobs
    BY <1>1 DEF SchedulerTypeOK
  <2>2. CASE found
    <3>1. idle_jobs' = [idle_jobs EXCEPT ![n].priority = <<job_priorities[k].priority>>]
      BY <1>4, <2>2
    <3>2. idle_jobs[n] = [id |-> idle_jobs[n].id, kind |-> idle_jobs[n].kind, priority |-> idle_jobs[n].priority]
      BY <2>1 DEF Jobs
    <3>3. idle_jobs'[n].id = idle_jobs[n].id /\ idle_jobs'[n].priority = <<job_priorities[k].priority>>
      BY <1>1, <3>1, <3>2
    <3>4. DOMAIN idle_jobs' = 1 .. N /\ \A i \in 1 .. N \ {n} : idle_jobs'[i] = idle_jobs[i]
      BY <1>1, <3>1
    <3>5. Len(idle_jobs') = N
      BY MergeTyped, <1>1, <3>4 DEF SchedulerTypeOK
    <3> QED BY <2>2, <3>3, <3>4, <3>5
  <2>3. CASE ~found
    BY <1>1, <1>4, <2>3
  <2> QED BY <2>2, <2>3
<1>7. ASSUME NEW i \in 1 .. N, Excused(i) PROVE Excused(i)'
  BY <1>1, <1>4, <1>6, <1>7 DEF Excused, Listed
<1>8. ASSUME NEW i \in 1 .. N, i < n PROVE Settled(i)'
  <2>1. Settled(i) /\ idle_jobs'[i] = idle_jobs[i]
    BY <1>1, <1>2, <1>6, <1>8
  <2>2. CASE Matched(i)
    BY <1>4, <2>1, <2>2 DEF Settled, Matched
  <2>3. CASE idle_jobs[i].priority = NoPriority /\ Excused(i)
    BY <1>7, <2>1, <2>3 DEF Settled
  <2> QED BY <2>1, <2>2, <2>3 DEF Settled
(* The job itself.                                                         *)
<1>9. Settled(n)'
  <2>1. CASE found
    <3>1. Matched(n)'
      BY <1>1, <1>3, <1>4, <1>6, <2>1 DEF Matched
    <3> QED BY <3>1 DEF Settled
  <2>2. CASE ~found
    <3>1. idle_jobs'[n].priority = NoPriority
      BY <1>1, <1>2, <1>6, <2>2
    <3>2. Excused(n)
      <4> SUFFICES ASSUME NEW m \in 1 .. L, job_priorities[m].id = id
                   PROVE  \E j \in DOMAIN idle_jobs \ {n} : idle_jobs[j].id = id
        BY <1>1 DEF Excused, Listed
      <4>1. m # k
        BY <2>2
      <4>2. CASE m < idx
        <5>1. m \in 1 .. idx - 1 /\ n \in n .. N
          BY <1>1, <4>2
        <5>2. Used(m, n, n - 1)
          BY <1>2, <5>1
        <5>3. PICK j \in 1 .. n - 1 : idle_jobs[j].id = job_priorities[m].id
          BY <1>5, <5>2 DEF Used
        <5>4. j \in 1 .. N /\ j # n
          BY <1>1
        <5> QED BY <1>1, <5>3, <5>4
      <4>3. CASE ~(m < idx) /\ m < k
        <5>1. m \in idx .. L
          BY <1>1, <4>3
        <5> QED BY <1>3, <1>5, <4>3, <5>1
      <4>4. CASE k < m
        <5>1. job_priorities[k].id < job_priorities[m].id
          BY <1>2, <1>3, <4>4
        <5>2. job_priorities[k].id < id /\ k # L
          BY <1>3, <4>4, <5>1
        <5> QED BY <1>3, <5>2
      <4>5. m < idx \/ (~(m < idx) /\ m < k) \/ k < m
        BY <1>14, <4>1
      <4> QED BY <4>2, <4>3, <4>4, <4>5
    <3> QED BY <1>1, <1>7, <3>1, <3>2 DEF Settled
  <2> QED BY <2>1, <2>2
(* The entries that are passed in this round of the loop.                  *)
<1>10. ASSUME NEW i \in n + 1 .. N, NEW m \in 1 .. L,
              m < after \/ job_priorities[k].id < id
       PROVE  Used(m, i, n)'
  <2>1. i \in 1 .. N /\ n < i /\ i \in n .. N /\ id <= idle_jobs[i].id
    BY <1>1, <1>2
  <2>2. idle_jobs'[i].id = idle_jobs[i].id
    BY <1>6, <2>1
  <2>3. CASE m < idx
    <3>1. Used(m, i, n - 1)
      BY <1>1, <1>2, <2>1, <2>3
    <3>2. CASE \E j \in 1 .. n - 1 : idle_jobs[j].id = job_priorities[m].id
      <4>1. PICK j \in 1 .. n - 1 : idle_jobs[j].id = job_priorities[m].id
        BY <3>2
      <4>2. j \in 1 .. n /\ j \in 1 .. N
        BY <1>1
      <4>3. idle_jobs'[j].id = job_priorities'[m].id
        BY <1>4, <1>6, <4>1, <4>2
      <4> QED BY <4>2, <4>3 DEF Used
    <3>3. CASE job_priorities[m].id < idle_jobs[i].id
      BY <1>4, <2>2, <3>3 DEF Used
    <3> QED BY <3>1, <3>2, <3>3 DEF Used
  <2>4. CASE ~(m < idx) /\ m < k
    <3>1. job_priorities[m].id < id
      <4>1. m \in idx .. L
        BY <1>14, <2>4
      <4> QED BY <1>3, <2>4, <4>1
    <3>2. job_priorities[m].id < idle_jobs[i].id
      BY <1>1, <1>5, <2>1, <3>1
    <3> QED BY <1>4, <2>2, <3>2 DEF Used
  <2>5. CASE ~(m < k)
    <3>1. CASE found
      <4>1. m = k
        <5>1. ~(job_priorities[k].id < id)
          BY <1>5, <3>1
        <5>2. m < k + 1
          BY <1>10, <3>1, <5>1
        <5> QED BY <1>14, <2>5, <5>2
      <4>2. idle_jobs'[n].id = job_priorities'[m].id /\ n \in 1 .. n
        BY <1>1, <1>4, <1>6, <3>1, <4>1
      <4> QED BY <4>2 DEF Used
    <3>2. CASE ~found
      <4>1. job_priorities[k].id < id /\ k = L
        BY <1>1, <1>3, <1>10, <2>5, <3>2
      <4>2. m = k
        <5>1. m \in Nat /\ m <= L
          BY <1>1
        <5> HIDE DEF L
        <5> QED BY <1>14, <2>5, <4>1, <5>1
      <4>3. job_priorities[m].id < idle_jobs[i].id
        BY <1>1, <1>5, <2>1, <4>1, <4>2
      <4> QED BY <1>4, <2>2, <4>3 DEF Used
    <3> QED BY <3>1, <3>2
  <2> QED BY <1>1, <1>3, <2>3, <2>4, <2>5
<1>11. ASSUME NEW i \in n + 1 .. N PROVE idle_jobs'[i].priority = NoPriority
  <2>1. i \in 1 .. N \ {n} /\ ~(i < n)
    BY <1>1
  <2> QED BY <1>2, <1>6, <2>1
<1> HIDE DEF found, id
<1>12. CASE after > L \/ job_priorities[k].id < id
  <2>1. phase' = "sort"
    BY <1>4, <1>12
  <2>2. \A m \in 1 .. L : m < after \/ job_priorities[k].id < id
    BY <1>1, <1>3, <1>12
  <2>3. ASSUME NEW i \in 1 .. N PROVE Settled(i)'
    <3>1. CASE i < n
      BY <1>8, <3>1
    <3>2. CASE i = n
      BY <1>9, <3>2
    <3>3. CASE i > n
      <4>1. i \in n + 1 .. N
        BY <1>1, <3>3
      <4>2. \A m \in 1 .. L : Used(m, i, n)'
        BY <1>10, <2>2, <4>1
      <4> DEFINE jobs == idle_jobs'
      <4>3. SchedulerTypeOK'
        BY MergeTyped
      <4>4. i \in DOMAIN idle_jobs' /\ DOMAIN job_priorities' = 1 .. L
        BY <1>1, <1>4, <1>6
      <4>5. Excused(i)'
        <5> SUFFICES ASSUME Listed(idle_jobs[i].id)'
                     PROVE  \E j \in DOMAIN idle_jobs' \ {i} : idle_jobs'[j].id = idle_jobs'[i].id
          BY DEF Excused
        <5>1. PICK m \in 1 .. L : job_priorities'[m].id = idle_jobs'[i].id
          BY <4>4 DEF Listed
        <5>2. idle_jobs'[i].id \in Nat
          BY <1>1, <1>6
        <5>3. ~(job_priorities'[m].id < idle_jobs'[i].id)
          BY <5>1, <5>2
        <5>4. PICK j \in 1 .. n : idle_jobs'[j].id = job_priorities'[m].id
          BY <4>2, <5>3 DEF Used
        <5>5. j \in DOMAIN idle_jobs' \ {i}
          BY <1>1, <1>6, <3>3
        <5> QED BY <5>1, <5>4, <5>5
      <4> QED BY <1>11, <4>1, <4>5 DEF Settled
    <3> QED BY <1>1, <3>1, <3>2, <3>3
  <2> QED BY <1>2, <1>4, <1>6, <1>1, <2>1, <2>3 DEF MergeInv
<1>13. CASE ~(after > L \/ job_priorities[k].id < id)
  <2>1. next' = n + 1 /\ phase' = "merge"
    BY <1>1, <1>4, <1>13
  <2>2. after \in Nat /\ after <= L /\ idx' = after
    BY <1>1, <1>3, <1>4, <1>13
  <2>3. \A i, j \in DOMAIN idle_jobs' : i < j => idle_jobs'[i].id <= idle_jobs'[j].id
    BY <1>2, <1>6
  <2>4. ASSUME NEW i \in 1 .. N
        PROVE  IF i < next' THEN Settled(i)' ELSE idle_jobs'[i].priority = NoPriority
    <3>1. CASE i < n
      BY <1>1, <1>8, <2>1, <3>1
    <3>2. CASE i = n
      BY <1>1, <1>9, <2>1, <3>2
    <3>3. CASE i > n
      <4>1. i \in n + 1 .. N /\ ~(i < n + 1)
        BY <1>1, <3>3
      <4> QED BY <1>11, <2>1, <4>1
    <3> QED BY <1>1, <3>1, <3>2, <3>3
  <2>5. ASSUME NEW m \in 1 .. idx' - 1, NEW i \in next' .. Len(idle_jobs')
        PROVE  Used(m, i, next - 1)'
    <3>1. m \in 1 .. L /\ m < after /\ i \in n + 1 .. N
      BY <1>1, <1>6, <2>1, <2>2
    <3>2. Used(m, i, n)'
      BY <1>10, <3>1
    <3>3. next' - 1 = n
      BY <1>1, <2>1
    <3> QED BY <3>2, <3>3 DEF Used
  <2>6. Merging'
    BY <1>1, <1>4, <1>6, <2>2, <2>3, <2>4, <2>5 DEF Merging
  <2> QED BY <1>1, <1>2, <1>4, <2>1, <2>6 DEF MergeInv
<1> QED BY <1>12, <1>13

(* The sort moves the jobs with their priorities, or fails at one without. *)
LEMMA SortMerging ==
  ASSUME SchedulerTypeOK, MergeInv, SortJobs
  PROVE  MergeInv'
<1>1. phase = "sort" /\ UNCHANGED job_priorities /\ \A i \in DOMAIN idle_jobs : Settled(i)
  BY DEF SortJobs, MergeInv
<1>2. CASE \E i \in DOMAIN idle_jobs : idle_jobs[i].priority = NoPriority
  <2>1. phase' = "KeyError" /\ UNCHANGED idle_jobs
    BY <1>2 DEF SortJobs
  <2>2. PICK i \in DOMAIN idle_jobs : idle_jobs[i].priority = NoPriority
    BY <1>2
  <2>3. Excused(i)
    <3>1. ~Matched(i)
      BY <2>2 DEF Matched, NoPriority
    <3> QED BY <1>1, <3>1 DEF Settled
  <2>4. Excused(i)'
    BY <1>1, <2>1, <2>3 DEF Excused, Listed
  <2> QED BY <1>1, <2>1, <2>4 DEF MergeInv
<1>3. CASE ~ \E i \in DOMAIN idle_jobs : idle_jobs[i].priority = NoPriority
  <2> DEFINE key == [i \in DOMAIN idle_jobs |-> idle_jobs[i].priority[1]]
  <2>1. phase' = "size" /\ idle_jobs' = Descending(idle_jobs, key)
    BY <1>3 DEF SortJobs
  <2>2. key \in [DOMAIN idle_jobs -> Int]
    BY <1>3, PriorityIs
  <2> HIDE DEF key
  <2>3. PICK p : Sorted(idle_jobs, key, p)
    BY <2>2, DescendingMoves DEF SchedulerTypeOK
  <2>4. DOMAIN idle_jobs' = DOMAIN idle_jobs
    <3>1. Len(idle_jobs') = Len(idle_jobs) /\ idle_jobs' \in Seq(Jobs) /\ idle_jobs \in Seq(Jobs)
      BY <2>1, <2>2, DescendingMoves DEF SchedulerTypeOK
    <3> QED BY <3>1
  <2>5. ASSUME NEW n \in DOMAIN idle_jobs' PROVE Matched(n)'
    <3>1. n \in DOMAIN idle_jobs /\ p[n] \in DOMAIN idle_jobs /\ idle_jobs'[n] = idle_jobs[p[n]]
      BY <2>1, <2>3, <2>4 DEF Sorted
    <3>2. Matched(p[n])
      BY <1>1, <1>3, <3>1 DEF Settled
    <3> QED BY <1>1, <3>1, <3>2 DEF Matched
  <2> QED BY <1>1, <2>1, <2>5 DEF MergeInv
<1> QED BY <1>2, <1>3

(* When the loop ends every job is settled.                                *)
LEMMA MergeEndMerging ==
  ASSUME SchedulerTypeOK, MergeInv, MergeEnd
  PROVE  MergeInv'
<1>1. /\ phase = "merge" /\ phase' = "sort" /\ UNCHANGED <<idle_jobs, job_priorities>>
      /\ job_priorities = <<>> \/ next > Len(idle_jobs)
      /\ Merging
  BY DEF MergeEnd, MergeInv
<1>2. ASSUME NEW i \in DOMAIN idle_jobs PROVE Settled(i)
  <2>1. CASE i < next
    BY <1>1, <2>1 DEF Merging
  <2>2. CASE ~(i < next)
    <3>1. job_priorities = <<>> /\ idle_jobs[i].priority = NoPriority
      <4>1. ~(next > Len(idle_jobs))
        BY <2>2, IdsAreNumbers DEF SchedulerTypeOK
      <4> QED BY <1>1, <2>2, <4>1 DEF Merging
    <3>2. DOMAIN job_priorities = {}
      BY <3>1
    <3> QED BY <3>1, <3>2 DEF Settled, Excused, Listed
  <2> QED BY <2>1, <2>2
<1>3. ASSUME NEW i \in DOMAIN idle_jobs PROVE Settled(i)'
  BY <1>1, <1>2 DEF Settled, Matched, Excused, Listed
<1> QED BY <1>1, <1>3 DEF MergeInv

(* No other step changes a priority.                                       *)
LEMMA NextMerging ==
  ASSUME SchedulerTypeOK, MergeInv, [Next]_vars
  PROVE  MergeInv'
<1>1. CASE MergeJob
  BY <1>1, MergeMerging
<1>2. CASE MergeEnd
  BY <1>2, MergeEndMerging
<1>3. CASE SortJobs
  BY <1>3, SortMerging
<1>4. ASSUME UNCHANGED <<idle_jobs, job_priorities>>,
             \/ phase \in {"size", "convert"} /\ phase' \in {"size", "convert", "done"} \cup {"ValueError", "IndexError"}
             \/ UNCHANGED vars
      PROVE  MergeInv'
  <2>1. CASE UNCHANGED vars
    BY <2>1 DEF MergeInv, Merging, Settled, Matched, Excused, Listed, Used, vars
  <2>2. CASE ~UNCHANGED vars
    <3>1. \A i \in DOMAIN idle_jobs : Matched(i)
      BY <1>4, <2>2 DEF MergeInv
    <3>2. \A i \in DOMAIN idle_jobs : Matched(i)'
      BY <1>4, <3>1 DEF Matched
    <3> QED BY <1>4, <2>2, <3>2 DEF MergeInv
  <2> QED BY <2>1, <2>2
<1>5. CASE PassJob
  BY <1>4, <1>5 DEF PassJob
<1>6. CASE FailJob
  BY <1>4, <1>6 DEF FailJob
<1>7. CASE SizeJob
  <2>1. phase = "size" /\ phase' \in {"size", "IndexError"} /\ UNCHANGED <<idle_jobs, job_priorities>>
    BY <1>7, SizeStep
  <2> QED BY <1>4, <2>1
<1>8. CASE SizeEnd
  BY <1>4, <1>8 DEF SizeEnd
<1>9. CASE Convert
  BY <1>4, <1>9 DEF Convert
<1>10. CASE UNCHANGED vars
  BY <1>4, <1>10 DEF vars
<1> QED BY <1>1, <1>2, <1>3, <1>5, <1>6, <1>7, <1>8, <1>9, <1>10 DEF Next

(* The invariant says it.                                                  *)
LEMMA MergeShows == ASSUME MergeInv PROVE PrioritiesMatch
BY DEF MergeInv, PrioritiesMatch, Matched, Excused

(* prioritise_jobs gives every idle job that Maui lists the priority Maui  *)
(* has for its number, for lists of any length; the sort fails with        *)
(* KeyError only if a job is missing there or shares its number.           *)
THEOREM PrioritiesAlwaysMatch == Spec => []PrioritiesMatch
<1>1. Init => SchedulerTypeOK /\ MergeInv
  BY InitTyped, InitMerging
<1>2. SchedulerTypeOK /\ MergeInv /\ [Next]_vars => (SchedulerTypeOK /\ MergeInv)'
  BY NextTyped, NextMerging
<1>3. SchedulerTypeOK /\ MergeInv => PrioritiesMatch
  BY MergeShows
<1> QED BY <1>1, <1>2, <1>3, PTL DEF Spec

-----------------------------------------------------------------------------
(* Cores.                                                                  *)

(* What the nodes have after packing.                                      *)
LEMMA PackedTotals ==
  ASSUME NEW old \in Seq(Allocations), NEW new, NEW part \in Chunks,
         NEW k \in Nat, NEW most, NEW p, NEW t, Packed(old, new, part, k, most, p, t)
  PROVE  /\ \A i \in t : Total(new[i]) = Total(old[p[i]]) + part.cores
         /\ \A i \in (1 .. Len(old)) \ t : Total(new[i]) = Total(old[p[i]])
         /\ \A i \in Len(old) + 1 .. Len(new) : Total(new[i]) = part.cores
         /\ \A i \in 1 .. Len(old) : Total(old[i]) \in Nat
<1>1. part = [job |-> part.job, cores |-> part.cores] /\ part.cores \in Nat
  BY DEF Chunks
<1>2. \A i \in 1 .. Len(old) : old[i] \in Allocations
  OBVIOUS
<1>3. \A i \in 1 .. Len(old) : old[i].vcpu_list \in Seq(Chunks)
  BY <1>2 DEF Allocations
<1>4. \A i \in 1 .. Len(old) : Total(old[i]) \in Nat
  BY <1>3, TotalIs
<1>5. ASSUME NEW i \in t PROVE Total(new[i]) = Total(old[p[i]]) + part.cores
  <2>1. p[i] \in 1 .. Len(old) /\ new[i].vcpu_list = Append(old[p[i]].vcpu_list, part)
    BY DEF Packed
  <2> QED BY <2>1, <1>3, TotalIs
<1>6. ASSUME NEW i \in (1 .. Len(old)) \ t PROVE Total(new[i]) = Total(old[p[i]])
  <2>1. new[i].vcpu_list = old[p[i]].vcpu_list
    BY DEF Packed
  <2> QED BY <2>1 DEF Total
<1>7. ASSUME NEW i \in Len(old) + 1 .. Len(new) PROVE Total(new[i]) = part.cores
  <2>1. new[i] = [location |-> new[i].location, vcpu_list |-> <<part>>]
    BY DEF Packed
  <2>2. \A l : Total([location |-> l, vcpu_list |-> <<[job |-> part.job, cores |-> part.cores]>>]) = part.cores
    BY <1>1, TotalOne
  <2> QED BY <1>1, <2>1, <2>2
<1> QED BY <1>4, <1>5, <1>6, <1>7

(* The cores of a list of nodes are a sum over its positions.              *)
LEMMA CoresIs ==
  ASSUME NEW list \in Seq(Allocations)
  PROVE  /\ Cores(list) = SumFunctionOnSet([i \in 1 .. Len(list) |-> Total(list[i])], 1 .. Len(list))
         /\ \A i \in 1 .. Len(list) : Total(list[i]) \in Nat
         /\ Len(list) \in Nat
<1>1. DOMAIN list = 1 .. Len(list) /\ Len(list) \in Nat /\ \A i \in 1 .. Len(list) : list[i] \in Allocations
  OBVIOUS
<1>2. \A i \in 1 .. Len(list) : list[i].vcpu_list \in Seq(Chunks)
  BY <1>1 DEF Allocations
<1>3. \A i \in 1 .. Len(list) : Total(list[i]) \in Nat
  BY <1>2, TotalIs
<1> DEFINE f == [i \in DOMAIN list |-> Total(list[i])]
<1>4. Cores(list) = SumFunctionOnSet(f, DOMAIN f)
  BY DEF Cores, SumFunction
<1>5. f = [i \in 1 .. Len(list) |-> Total(list[i])] /\ DOMAIN f = 1 .. Len(list)
  BY <1>1
<1> QED BY <1>1, <1>3, <1>4, <1>5

(* Packing a job of k parts takes k times the cores of a part.             *)
LEMMA PackedCores ==
  ASSUME NEW old \in Seq(Allocations), NEW new \in Seq(Allocations), NEW part \in Chunks,
         NEW k \in Nat, NEW most, NEW p, NEW t, Packed(old, new, part, k, most, p, t)
  PROVE  Cores(old) \in Nat /\ Cores(new) = Cores(old) + k * part.cores
<1> DEFINE n == Len(old)
           m == k - Cardinality(t)
           A == 1 .. n
           B == n + 1 .. n + m
           f == [i \in 1 .. Len(old) |-> Total(old[i])]
           h == [i \in A |-> f[p[i]]]
           g == [i \in 1 .. Len(new) |-> Total(new[i])]
           c == part.cores
<1>1. /\ n \in Nat /\ m \in Nat /\ c \in Nat /\ Len(new) = n + m
      /\ p \in [A -> A] /\ \A i, j \in A : p[i] = p[j] => i = j
      /\ t \in SUBSET A /\ IsFiniteSet(t) /\ Cardinality(t) \in Nat
  BY DEF Packed, Chunks
<1>2. /\ \A i \in t : Total(new[i]) = Total(old[p[i]]) + c
      /\ \A i \in A \ t : Total(new[i]) = Total(old[p[i]])
      /\ \A i \in B : Total(new[i]) = c
  <2>1. /\ \A i \in t : Total(new[i]) = Total(old[p[i]]) + part.cores
        /\ \A i \in (1 .. Len(old)) \ t : Total(new[i]) = Total(old[p[i]])
        /\ \A i \in Len(old) + 1 .. Len(new) : Total(new[i]) = part.cores
    BY PackedTotals
  <2>2. Len(new) = n + m
    BY <1>1
  <2> QED BY <2>1, <2>2
<1>3. Cores(old) = SumFunctionOnSet(f, A) /\ \A i \in A : f[i] \in Nat
  BY CoresIs
<1>4. Cores(new) = SumFunctionOnSet(g, 1 .. Len(new))
  BY CoresIs
<1>5. 1 .. Len(new) = A \cup B /\ A \cap B = {}
  <2> HIDE DEF n, m
  <2> QED BY <1>1
<1>6. IsFiniteSet(A) /\ IsFiniteSet(B) /\ Cardinality(B) = m
  <2> HIDE DEF n, m
  <2>1. n + m < n + 1 => m = 0
    BY <1>1
  <2> QED BY <1>1, <2>1, FS_Interval
<1>7. /\ \A i \in A : h[i] \in Nat /\ h[i] = f[p[i]]
      /\ \A i \in A : g[i] = IF i \in t THEN h[i] + c ELSE h[i]
      /\ \A i \in B : g[i] = c
  <2>1. \A i \in A : h[i] = f[p[i]] /\ p[i] \in A /\ f[p[i]] = Total(old[p[i]])
    BY <1>1
  <2>2. \A i \in A \cup B : g[i] = Total(new[i])
    BY <1>5
  <2> HIDE DEF A, B, h, f, g, c, n, m
  <2>3. \A i \in A : h[i] \in Nat
    BY <1>3, <2>1
  <2>4. \A i \in A : g[i] = IF i \in t THEN h[i] + c ELSE h[i]
    BY <1>2, <2>1, <2>2
  <2> QED BY <1>2, <2>1, <2>2, <2>3, <2>4
<1> HIDE DEF n, m, A, B, h, g, f, c
<1>8. SumFunctionOnSet(h, A) = SumFunctionOnSet(f, A)
  <2>1. Moved(h, f, A, p)
    BY <1>1, <1>3, <1>7 DEF Moved
  <2> QED BY <2>1, <1>6, SumMoved
<1>9. SumFunctionOnSet(g, A) = SumFunctionOnSet(h, A) + Cardinality(t) * c
  <2>1. AddedTo(g, h, A, t, c)
    BY <1>1, <1>7 DEF AddedTo
  <2> QED BY <2>1, <1>6, SumRaised
<1>10. SumFunctionOnSet(g, B) = m * c
  <2>1. c \in Int
    BY <1>1
  <2> QED BY <2>1, <1>6, <1>7, SumSame
<1>11. SumFunctionOnSet(g, A \cup B) = SumFunctionOnSet(g, A) + SumFunctionOnSet(g, B)
  <2>1. \A i \in A \cup B : g[i] \in Int
    BY <1>1, <1>7
  <2> QED BY <2>1, <1>5, <1>6, SumJoined
<1>12. SumFunctionOnSet(f, A) \in Nat
  BY <1>3, <1>6, SumAtLeast
<1> DEFINE a == SumFunctionOnSet(f, A)
           x == Cardinality(t)
<1>13. Cores(new) = (a + x * c) + m * c
  BY <1>4, <1>5, <1>8, <1>9, <1>10, <1>11
<1>14. a \in Nat /\ x \in Nat /\ Cores(old) = a /\ m = k - x
  BY <1>1, <1>3, <1>12 DEF m
<1> HIDE DEF a, x
<1>15. (a + x * c) + m * c = a + (x + m) * c /\ x + m = k
  BY <1>1, <1>14
<1> QED BY <1>13, <1>14, <1>15 DEF c

(* The nodes of a round: none before the jobs are sized, none with more    *)
(* than a flavor has, no more cores than are left, and on every one a part *)
(* of a job.                                                               *)
Sizing ==
    /\ phase \in {"merge", "sort", "KeyError"} => \A r \in CloudResources : req_list[r] = <<>>
    /\ phase # "done" => flavor_list = <<>>
    /\ \A r \in CloudResources :
          req_list[r] # <<>> => Cores(req_list[r]) <= Available[r] * MaxCores(r)
    /\ \A r \in CloudResources : \A i \in DOMAIN req_list[r] :
          /\ Total(req_list[r][i]) <= MaxCores(r)
          /\ PartsHaveCores => Total(req_list[r][i]) >= 1

(* A round begins without nodes and requests.                              *)
LEMMA InitSizing == ASSUME Init PROVE Sizing
<1>1. /\ phase = "merge" /\ flavor_list = <<>>
      /\ \A r \in CloudResources : req_list[r] = <<>>
  BY DEF Init
<1>2. \A r \in CloudResources : DOMAIN req_list[r] = {}
  BY <1>1
<1> QED BY <1>1, <1>2 DEF Sizing

(* A job of k equal parts asks for k times the cores of a part.            *)
LEMMA SumOfParts ==
  ASSUME NEW req \in Seq(Nat), req # <<>>, \A i \in DOMAIN req : req[i] = req[1]
  PROVE  req[1] \in Nat /\ Len(req) \in Nat \ {0} /\ SumFunction(req) = Len(req) * req[1]
<1>1. DOMAIN req = 1 .. Len(req) /\ Len(req) \in Nat \ {0} /\ req[1] \in Nat
  OBVIOUS
<1>2. IsFiniteSet(1 .. Len(req)) /\ Cardinality(1 .. Len(req)) = Len(req)
  BY <1>1, UpTo
<1>3. SumFunctionOnSet(req, 1 .. Len(req)) = Cardinality(1 .. Len(req)) * req[1]
  <2>1. \A i \in 1 .. Len(req) : req[i] = req[1]
    BY <1>1
  <2>2. req[1] \in Int
    BY <1>1
  <2> QED BY <1>2, <2>1, <2>2, SumSame
<1>4. SumFunction(req) = SumFunctionOnSet(req, 1 .. Len(req))
  BY <1>1 DEF SumFunction
<1> QED BY <1>1, <1>2, <1>3, <1>4

(* Packing keeps within what HaveEnoughCores has tested, on every node and *)
(* in the resource.                                                        *)
LEMMA PackedFits ==
  ASSUME SchedulerTypeOK, Sizing, next <= Len(idle_jobs), NEW r, NEW p, NEW t, Served(r, p, t)
  PROVE  /\ Cores(req_list'[r]) <= Available[r] * MaxCores(r)
         /\ \A i \in DOMAIN req_list'[r] :
               /\ Total(req_list'[r][i]) <= MaxCores(r)
               /\ PartsHaveCores => Total(req_list'[r][i]) >= 1
<1> DEFINE req == Requirement(Job.kind)
           old == req_list[r]
           new == req_list'[r]
           part == [job |-> next, cores |-> req[1]]
           k == Len(req)
           c == req[1]
           n == Len(old)
           most == MaxCores(r)
<1>1. /\ r \in CloudResources /\ ~Unreadable(Job.kind)
      /\ req \in Seq(Nat) /\ req # <<>> /\ \A i \in DOMAIN req : req[i] = req[1]
      /\ Packed(old, new, part, k, most, p, t)
      /\ Cores(old) + SumFunction(req) <= Available[r] * MaxCores(r) /\ c <= most
  BY DEF Served, HaveEnoughCores
<1>2. c \in Nat /\ k \in Nat \ {0} /\ SumFunction(req) = k * c
  <2> HIDE DEF req
  <2> QED BY <1>1, SumOfParts
<1>3. old \in Seq(Allocations) /\ new \in Seq(Allocations) /\ part \in Chunks /\ part.cores = c
  <2>1. new \in Seq(Allocations)
    <3> HIDE DEF new, old, part, k, most
    <3> QED BY <1>1 DEF Packed
  <2>2. old \in Seq(Allocations) /\ next \in Nat
    BY <1>1 DEF SchedulerTypeOK
  <2> HIDE DEF c
  <2> QED BY <2>1, <2>2, <1>2 DEF Chunks, c
<1> HIDE DEF new, old, part, k, most, c
<1>4. Cores(old) \in Nat /\ Cores(new) = Cores(old) + k * c
  <2>1. k \in Nat
    BY <1>2
  <2>2. Cores(old) \in Nat /\ Cores(new) = Cores(old) + k * part.cores
    BY <1>1, <1>3, <2>1, PackedCores
  <2> QED BY <1>3, <2>2
<1>5. PartsHaveCores => c >= 1
  <2> SUFFICES ASSUME PartsHaveCores PROVE c >= 1
    OBVIOUS
  <2>1. Job.kind \in JobKinds
    BY JobIs
  <2>2. 1 \in DOMAIN req
    <3> HIDE DEF req
    <3> QED BY <1>1
  <2>3. req[1] > 0
    BY <1>1, <2>1, <2>2 DEF PartsHaveCores
  <2>4. c > 0
    BY <2>3 DEF c
  <2> QED BY <1>2, <2>4
<1>6. /\ \A i \in t : Total(new[i]) = Total(old[p[i]]) + c
      /\ \A i \in 1 .. n \ t : Total(new[i]) = Total(old[p[i]])
      /\ \A i \in n + 1 .. Len(new) : Total(new[i]) = c
      /\ \A i \in 1 .. n : Total(old[i]) \in Nat
  <2>1. k \in Nat
    BY <1>2
  <2>2. /\ \A i \in t : Total(new[i]) = Total(old[p[i]]) + part.cores
        /\ \A i \in (1 .. Len(old)) \ t : Total(new[i]) = Total(old[p[i]])
        /\ \A i \in Len(old) + 1 .. Len(new) : Total(new[i]) = part.cores
        /\ \A i \in 1 .. Len(old) : Total(old[i]) \in Nat
    BY <1>1, <1>3, <2>1, PackedTotals
  <2> QED BY <1>3, <2>2
<1>7. /\ p \in [1 .. n -> 1 .. n] /\ t \in SUBSET (1 .. n)
      /\ \A i \in t : Total(old[p[i]]) + c <= most
      /\ n \in Nat /\ Len(new) \in Nat /\ DOMAIN new = 1 .. Len(new) /\ DOMAIN old = 1 .. n
  <2>1. /\ p \in [1 .. n -> 1 .. n] /\ t \in SUBSET (1 .. n)
        /\ \A i \in t : Total(old[p[i]]) + part.cores <= most
    BY <1>1 DEF Packed
  <2> QED BY <1>3, <2>1
<1>8. most \in Nat
  BY <1>1, MaxCoresIs DEF most
<1>9. \A i \in 1 .. n : Total(old[i]) <= most /\ (PartsHaveCores => Total(old[i]) >= 1)
  <2>1. \A i \in DOMAIN req_list[r] :
            /\ Total(req_list[r][i]) <= MaxCores(r)
            /\ PartsHaveCores => Total(req_list[r][i]) >= 1
    BY <1>1 DEF Sizing
  <2> QED BY <2>1, <1>7 DEF old, most
<1> HIDE DEF n
<1>10. ASSUME NEW i \in 1 .. Len(new)
       PROVE  Total(new[i]) <= most /\ (PartsHaveCores => Total(new[i]) >= 1)
  <2>1. CASE i \in t
    <3>1. p[i] \in 1 .. n
      BY <1>7, <2>1
    <3>2. Total(new[i]) = Total(old[p[i]]) + c /\ Total(old[p[i]]) + c <= most /\ Total(old[p[i]]) \in Nat
      BY <1>6, <1>7, <2>1, <3>1
    <3>3. PartsHaveCores => Total(new[i]) >= 1
      BY <1>2, <1>5, <3>2
    <3> QED BY <3>2, <3>3
  <2>2. CASE i \in 1 .. n \ t
    <3>1. p[i] \in 1 .. n
      BY <1>7, <2>2
    <3>2. Total(new[i]) = Total(old[p[i]])
      BY <1>6, <2>2
    <3> QED BY <1>9, <3>1, <3>2
  <2>3. CASE i \in n + 1 .. Len(new)
    <3>1. Total(new[i]) = c
      BY <1>6, <2>3
    <3> QED BY <1>1, <1>5, <3>1
  <2>4. i \in 1 .. n \/ i \in n + 1 .. Len(new)
    BY <1>7
  <2> QED BY <2>1, <2>2, <2>3, <2>4
<1>11. Cores(new) <= Available[r] * MaxCores(r)
  BY <1>1, <1>2, <1>4
<1>12. \A i \in DOMAIN new : Total(new[i]) <= most /\ (PartsHaveCores => Total(new[i]) >= 1)
  BY <1>7, <1>10
<1> QED BY <1>11, <1>12 DEF new, most

(* No other step changes the nodes.                                        *)
LEMMA NextSizing ==
  ASSUME SchedulerTypeOK, Sizing, [Next]_vars
  PROVE  Sizing'
<1>1. ASSUME UNCHANGED <<req_list, flavor_list>>,
             \/ phase \in {"merge", "sort"} /\ phase' # "done"
             \/ phase' \notin {"merge", "sort", "KeyError", "done"} /\ phase # "done"
             \/ phase' = phase
      PROVE  Sizing'
  BY <1>1 DEF Sizing, PartsHaveCores
<1>2. CASE MergeJob
  BY <1>1, <1>2 DEF MergeJob
<1>3. CASE MergeEnd
  BY <1>1, <1>3 DEF MergeEnd
<1>4. CASE SortJobs
  BY <1>1, <1>4 DEF SortJobs
<1>5. CASE PassJob
  BY <1>1, <1>5 DEF PassJob
<1>6. CASE FailJob
  BY <1>1, <1>6 DEF FailJob
<1>7. CASE SizeJob
  <2>1. /\ phase = "size" /\ next <= Len(idle_jobs)
        /\ UNCHANGED <<idle_jobs, flavor_list>>
        /\ \/ phase' = phase /\ UNCHANGED req_list
           \/ phase' = "IndexError" /\ UNCHANGED req_list
           \/ phase' = phase /\ \E r, p, t : Served(r, p, t)
    BY <1>7, SizeStep
  <2>2. CASE UNCHANGED req_list
    BY <1>1, <2>1, <2>2
  <2>3. ASSUME NEW r, NEW p, NEW t, Served(r, p, t), phase' = phase
        PROVE  Sizing'
    <3>1. r \in CloudResources /\ req_list' = [req_list EXCEPT ![r] = req_list'[r]]
      BY <2>3 DEF Served
    <3>2. \A q \in CloudResources \ {r} : req_list'[q] = req_list[q]
      <4>1. req_list \in [CloudResources -> Seq(Allocations)]
        BY DEF SchedulerTypeOK
      <4> QED BY <3>1, <4>1
    <3>3. /\ Cores(req_list'[r]) <= Available[r] * MaxCores(r)
          /\ \A i \in DOMAIN req_list'[r] :
                /\ Total(req_list'[r][i]) <= MaxCores(r)
                /\ PartsHaveCores => Total(req_list'[r][i]) >= 1
      BY <2>1, <2>3, PackedFits
    <3> QED BY <2>1, <2>3, <3>1, <3>2, <3>3 DEF Sizing, PartsHaveCores
  <2> QED BY <2>1, <2>2, <2>3
<1>8. CASE SizeEnd
  BY <1>1, <1>8 DEF SizeEnd
<1>9. CASE Convert
  <2>1. phase = "convert" /\ phase' = "done" /\ UNCHANGED req_list
    BY <1>9 DEF Convert
  <2> QED BY <2>1 DEF Sizing, PartsHaveCores
<1>10. CASE UNCHANGED vars
  BY <1>1, <1>10 DEF vars
<1> QED BY <1>2, <1>3, <1>4, <1>5, <1>6, <1>7, <1>8, <1>9, <1>10 DEF Next

(* The requests to a resource stand one behind the other, in the order of  *)
(* its nodes.                                                              *)
Requested(o, r) ==
    /\ o \in Nat
    /\ RequestsTo(r) = o + 1 .. o + Len(req_list[r])
    /\ \A k \in 1 .. Len(req_list[r]) :
          flavor_list[o + k].flavor = BestFlavor(r, req_list[r][k])
AllRequested == phase = "done" => \A r \in CloudResources : \E o : Requested(o, r)

(* Every resource has one turn, and its requests follow one another.       *)
LEMMA ConvertRequests ==
  ASSUME SchedulerTypeOK, Convert
  PROVE  AllRequested'
<1>1. PICK order \in SetToSeqs(CloudResources) :
        flavor_list' = FlattenSeq(Turns(order)) /\ Turns(order) \in Seq(Seq(Wanted))
  BY ConvertStep
<1>2. UNCHANGED req_list
  BY DEF Convert
<1> DEFINE N == Cardinality(CloudResources)
           s == Turns(order)
           F == FlattenSeq(s)
<1>3. /\ N \in Nat /\ order \in [1 .. N -> CloudResources] /\ DOMAIN order = 1 .. N
      /\ \A i, j \in 1 .. N : order[i] = order[j] => i = j
  <2>1. N \in Nat
    BY ResourcesAssumption, FS_CardinalityType
  <2>2. order \in [1 .. N -> CloudResources] /\ \A i, j \in 1 .. N : i # j => order[i] # order[j]
    BY DEF SetToSeqs
  <2> HIDE DEF N
  <2> QED BY <2>1, <2>2
<1>4. /\ s \in Seq(Seq(Wanted)) /\ DOMAIN s = 1 .. N /\ Len(s) = N
      /\ \A i \in 1 .. N : s[i] = Turn(order[i])
  <2>1. s \in Seq(Seq(Wanted)) /\ s = [i \in 1 .. N |-> Turn(order[i])]
    BY <1>1, <1>3 DEF Turns
  <2> HIDE DEF s, N
  <2> QED BY <1>3, <2>1
<1> HIDE DEF N, s
<1>5. PICK o : /\ o \in [1 .. Len(s) -> Nat]
               /\ \A i \in 1 .. Len(s) : \A k \in 1 .. Len(s[i]) :
                     o[i] + k \in 1 .. Len(F) /\ F[o[i] + k] = s[i][k]
               /\ \A n \in 1 .. Len(F) :
                     \E i \in 1 .. Len(s) : \E k \in 1 .. Len(s[i]) : n = o[i] + k
  <2>1. PICK o : Offsets(s, o)
    BY <1>4, Flattened
  <2> QED BY <2>1 DEF Offsets
<1>6. flavor_list' = F /\ DOMAIN F = 1 .. Len(F)
  <2>1. F \in Seq(Wanted)
    BY <1>4, Flattened
  <2> HIDE DEF F
  <2>2. DOMAIN F = 1 .. Len(F)
    BY <2>1
  <2> QED BY <1>1, <2>2 DEF F, s
<1> HIDE DEF F
<1>7. ASSUME NEW r \in CloudResources
      PROVE  /\ Len(Turn(r)) = Len(req_list[r]) /\ Len(req_list[r]) \in Nat
             /\ \A k \in 1 .. Len(req_list[r]) :
                   Turn(r)[k].resource = r /\ Turn(r)[k].flavor = BestFlavor(r, req_list[r][k])
  <2>1. DOMAIN req_list[r] = 1 .. Len(req_list[r]) /\ Len(req_list[r]) \in Nat
    <3>1. req_list[r] \in Seq(Allocations)
      BY DEF SchedulerTypeOK
    <3> QED BY <3>1
  <2>2. Turn(r) = [i \in 1 .. Len(req_list[r]) |->
                    [flavor |-> BestFlavor(r, req_list[r][i]), location |-> req_list[r][i].location,
                     resource |-> r]]
    BY <2>1 DEF Turn
  <2>3. Len(Turn(r)) = Len(req_list[r])
    BY <2>1, <2>2
  <2> QED BY <2>1, <2>2, <2>3
<1>8. \A r \in CloudResources : \E i \in 1 .. N : order[i] = r
  <2>1. order \in Injection(1 .. N, CloudResources)
    BY <1>3 DEF Injection, IsInjective
  <2>2. IsFiniteSet(1 .. N) /\ Cardinality(1 .. N) = N
    BY <1>3, UpTo
  <2>3. order \in Surjection(1 .. N, CloudResources)
    BY <2>1, <2>2, ResourcesAssumption, FS_Injection DEF N
  <2> QED BY <2>3 DEF Surjection
<1>9. ASSUME NEW r \in CloudResources
      PROVE  \E q : Requested(q, r)'
  <2>1. PICK i \in 1 .. N : order[i] = r
    BY <1>8
  <2>2. PICK b : b = o[i]
    OBVIOUS
  <2>3. PICK l : l = Len(req_list[r])
    OBVIOUS
  <2>4. b \in Nat /\ l \in Nat /\ s[i] = Turn(r) /\ Len(s[i]) = l
    BY <1>4, <1>5, <1>7, <2>1, <2>2, <2>3
  <2>5. \A k \in 1 .. l :
           /\ b + k \in 1 .. Len(F) /\ F[b + k].resource = r
           /\ F[b + k].flavor = BestFlavor(r, req_list[r][k])
    <3> SUFFICES ASSUME NEW k \in 1 .. l
                 PROVE  /\ b + k \in 1 .. Len(F) /\ F[b + k].resource = r
                        /\ F[b + k].flavor = BestFlavor(r, req_list[r][k])
      OBVIOUS
    <3>1. b + k \in 1 .. Len(F) /\ F[b + k] = Turn(r)[k]
      BY <1>4, <1>5, <2>1, <2>2, <2>4
    <3> QED BY <3>1, <1>7, <2>3
  <2>6. ASSUME NEW n \in 1 .. Len(F), F[n].resource = r PROVE n \in b + 1 .. b + l
    <3>1. PICK j \in 1 .. N : \E k \in 1 .. Len(s[j]) : n = o[j] + k
      BY <1>4, <1>5
    <3>7. PICK k \in 1 .. Len(s[j]) : n = o[j] + k
      BY <3>1
    <3>2. n = o[j] + k /\ F[n] = s[j][k]
      BY <1>4, <1>5, <3>7
    <3>3. order[j] \in CloudResources /\ s[j] = Turn(order[j])
      BY <1>3, <1>4
    <3>4. k \in 1 .. Len(req_list[order[j]]) /\ F[n].resource = order[j]
      BY <1>7, <3>2, <3>3
    <3>5. j = i
      BY <1>3, <2>1, <2>6, <3>4
    <3>6. n = b + k /\ k \in 1 .. l
      BY <2>2, <2>4, <3>2, <3>5
    <3> QED BY <2>4, <3>6
  <2>7. {n \in 1 .. Len(F) : F[n].resource = r} = b + 1 .. b + l
    <3> SUFFICES ASSUME NEW n \in b + 1 .. b + l PROVE n \in 1 .. Len(F) /\ F[n].resource = r
      BY <2>6
    <3>1. n - b \in 1 .. l /\ n = b + (n - b)
      BY <2>4
    <3> QED BY <2>5, <3>1
  <2>8. RequestsTo(r)' = b + 1 .. b + Len(req_list'[r])
    BY <1>2, <1>6, <2>3, <2>7 DEF RequestsTo
  <2>10. \A k \in 1 .. Len(req_list'[r]) :
            flavor_list'[b + k].flavor = BestFlavor(r, req_list'[r][k])
    BY <1>2, <1>6, <2>3, <2>5
  <2>11. Requested(b, r)'
    BY <2>4, <2>8, <2>10 DEF Requested
  <2> QED BY <2>11
<1> QED BY <1>9 DEF AllRequested

(* Nothing is requested before the end,                                    *)
LEMMA InitRequested == ASSUME Init PROVE AllRequested
BY DEF Init, AllRequested

(* and nothing changes after it.                                           *)
LEMMA NextRequested ==
  ASSUME SchedulerTypeOK, AllRequested, [Next]_vars
  PROVE  AllRequested'
<1>1. CASE Convert
  BY <1>1, ConvertRequests
<1>2. CASE UNCHANGED vars
  BY <1>2 DEF vars, AllRequested, Requested, RequestsTo
<1>3. CASE SizeJob
  <2>1. phase' # "done"
    BY <1>3, SizeStep
  <2> QED BY <2>1 DEF AllRequested
<1>4. CASE MergeJob \/ MergeEnd \/ SortJobs \/ PassJob \/ FailJob \/ SizeEnd
  <2>1. phase' # "done"
    BY <1>4 DEF MergeJob, MergeEnd, SortJobs, PassJob, FailJob, SizeEnd
  <2> QED BY <2>1 DEF AllRequested
<1> QED BY <1>1, <1>2, <1>3, <1>4 DEF Next

(* The position of a request among those to its resource.                  *)
LEMMA RankIs ==
  ASSUME NEW o \in Nat, NEW l \in Nat, NEW n \in o + 1 .. o + l
  PROVE  /\ n - o \in 1 .. l /\ n = o + (n - o)
         /\ Cardinality({m \in o + 1 .. o + l : m <= n}) = n - o
         /\ Cardinality(o + 1 .. o + l) = l
<1>1. {m \in o + 1 .. o + l : m <= n} = o + 1 .. n
  OBVIOUS
<1>2. Cardinality(o + 1 .. n) = n - o /\ Cardinality(o + 1 .. o + l) = l
  BY FS_Interval
<1>3. n - o \in 1 .. l /\ n = o + (n - o)
  OBVIOUS
<1> QED BY <1>1, <1>2, <1>3

(* The number of requests to a resource.                                   *)
LEMMA NumberOf ==
  ASSUME NEW o \in Nat, NEW l \in Nat
  PROVE  Cardinality(o + 1 .. o + l) = l
<1>1. CASE l = 0
  BY <1>1, FS_EmptySet
<1>2. CASE l # 0
  BY <1>2, FS_Interval
<1> QED BY <1>1, <1>2

(* The requests are the nodes: as many, in their order, each with the      *)
(* flavor that BestFlavor gives its node.                                  *)
LEMMA SizingShows ==
  ASSUME SchedulerTypeOK, Sizing, AllRequested
  PROVE  NodesFit /\ RequestsBounded
<1>1. ASSUME NEW r \in CloudResources
      PROVE  /\ req_list[r] \in Seq(Allocations) /\ Len(req_list[r]) \in Nat
             /\ DOMAIN req_list[r] = 1 .. Len(req_list[r])
             /\ \A k \in 1 .. Len(req_list[r]) :
                   Total(req_list[r][k]) \in Nat /\ Total(req_list[r][k]) <= MaxCores(r)
  <2>1. req_list[r] \in Seq(Allocations)
    BY DEF SchedulerTypeOK
  <2>2. DOMAIN req_list[r] = 1 .. Len(req_list[r]) /\ Len(req_list[r]) \in Nat
    BY <2>1
  <2>3. \A i \in 1 .. Len(req_list[r]) : Total(req_list[r][i]) \in Nat
    BY <2>1, CoresIs
  <2> QED BY <2>1, <2>2, <2>3 DEF Sizing
<1>2. ASSUME NEW r \in CloudResources, NEW o, Requested(o, r)
      PROVE  /\ Cardinality(RequestsTo(r)) = Len(req_list[r])
             /\ \A n \in RequestsTo(r) :
                   flavor_list[n].flavor >= Total(req_list[r][Cardinality({m \in RequestsTo(r) : m <= n})])
  <2>1. PICK l : l = Len(req_list[r])
    OBVIOUS
  <2>2. o \in Nat /\ l \in Nat /\ RequestsTo(r) = o + 1 .. o + l
    BY <1>1, <1>2, <2>1 DEF Requested
  <2>3. Cardinality(RequestsTo(r)) = l
    BY <2>2, NumberOf
  <2>4. ASSUME NEW n \in RequestsTo(r)
        PROVE  flavor_list[n].flavor >= Total(req_list[r][Cardinality({m \in RequestsTo(r) : m <= n})])
    <3>1. /\ n - o \in 1 .. l /\ n = o + (n - o)
          /\ Cardinality({m \in RequestsTo(r) : m <= n}) = n - o
      BY <2>2, RankIs
    <3>2. flavor_list[n].flavor = BestFlavor(r, req_list[r][n - o])
      BY <1>2, <2>1, <3>1 DEF Requested
    <3>3. BestFlavor(r, req_list[r][n - o]) >= Total(req_list[r][n - o])
      BY <1>1, <2>1, <3>1, BestFlavorIs
    <3> QED BY <3>1, <3>2, <3>3
  <2> QED BY <2>1, <2>3, <2>4
<1>3. NodesFit
  BY <1>2 DEF NodesFit, AllRequested
<1>4. ASSUME NEW r \in CloudResources, PartsHaveCores, RequestsTo(r) # {}
      PROVE  Cardinality(RequestsTo(r)) <= Available[r] * MaxCores(r)
  <2>1. phase = "done"
    <3> SUFFICES ASSUME phase # "done" PROVE FALSE
      OBVIOUS
    <3>1. flavor_list = <<>>
      BY DEF Sizing
    <3>2. RequestsTo(r) = {}
      BY <3>1 DEF RequestsTo
    <3> QED BY <1>4, <3>2
  <2>2. Cardinality(RequestsTo(r)) = Len(req_list[r])
    BY <1>2, <2>1 DEF AllRequested
  <2>3. PICK list : list = req_list[r]
    OBVIOUS
  <2>4. /\ list \in Seq(Allocations) /\ Len(list) \in Nat
        /\ Cores(list) = SumFunctionOnSet([i \in 1 .. Len(list) |-> Total(list[i])], 1 .. Len(list))
        /\ \A i \in 1 .. Len(list) : Total(list[i]) \in Nat /\ Total(list[i]) >= 1
    <3>1. \A i \in 1 .. Len(list) : Total(list[i]) >= 1
      BY <1>1, <1>4, <2>3 DEF Sizing
    <3> QED BY <1>1, <2>3, <3>1, CoresIs
  <2>5. Cores(list) >= Len(list)
    <3> DEFINE f == [i \in 1 .. Len(list) |-> Total(list[i])]
               D == 1 .. Len(list)
    <3>1. \A i \in D : f[i] \in Nat /\ f[i] >= 1
      BY <2>4
    <3>2. IsFiniteSet(D) /\ Cardinality(D) = Len(list)
      BY <2>4, UpTo
    <3> HIDE DEF f, D
    <3>3. SumFunctionOnSet(f, D) >= Cardinality(D)
      BY <3>1, <3>2, SumAtLeast
    <3> QED BY <2>4, <3>2, <3>3 DEF f, D
  <2>6. CASE list = <<>>
    <3>1. IsFiniteSet(RequestsTo(r)) /\ Cardinality(RequestsTo(r)) = 0
      <4>1. PICK o : Requested(o, r)
        BY <2>1 DEF AllRequested
      <4>2. RequestsTo(r) = {}
        <5>1. Len(req_list[r]) = 0
          BY <2>3, <2>6
        <5> QED BY <4>1, <5>1 DEF Requested
      <4> QED BY <1>4, <4>2
    <3>2. RequestsTo(r) = {}
      BY <3>1, FS_EmptySet
    <3> QED BY <1>4, <3>2
  <2>7. CASE list # <<>>
    <3>1. Cores(list) <= Available[r] * MaxCores(r)
      BY <2>3, <2>7 DEF Sizing
    <3>2. Cores(list) \in Int /\ Available[r] * MaxCores(r) \in Int
      <4>1. Available[r] \in Int /\ MaxCores(r) \in Int
        BY AvailableAssumption, MaxCoresIs
      <4>2. Cores(list) \in Int
        <5> DEFINE f == [i \in 1 .. Len(list) |-> Total(list[i])]
                   D == 1 .. Len(list)
        <5>1. \A i \in D : f[i] \in Nat
          BY <2>4
        <5>2. IsFiniteSet(D)
          BY <2>4, UpTo
        <5> HIDE DEF f, D
        <5>3. SumFunctionOnSet(f, D) \in Nat
          BY <5>1, <5>2, SumAtLeast
        <5> QED BY <2>4, <5>3 DEF f, D
      <4> QED BY <4>1, <4>2
    <3> QED BY <2>2, <2>3, <2>4, <2>5, <3>1, <3>2
  <2> QED BY <2>6, <2>7
<1>5. RequestsBounded
  BY <1>4 DEF RequestsBounded, Sizing
<1> QED BY <1>3, <1>5

(* Every node that was packed is requested once, in the order of the list, *)
(* from a flavor with room for all that is on it, for any jobs, flavors    *)
(* and number of resources: the smallest flavor that                       *)
(* convert_req_list_to_flavor falls back to when none is large enough is   *)
(* never taken.                                                            *)
THEOREM NodesAlwaysFit == Spec => []NodesFit
<1>1. Init => SchedulerTypeOK /\ Sizing /\ AllRequested
  BY InitTyped, InitSizing, InitRequested
<1>2. SchedulerTypeOK /\ Sizing /\ AllRequested /\ [Next]_vars
        => (SchedulerTypeOK /\ Sizing /\ AllRequested)'
  BY NextTyped, NextSizing, NextRequested
<1>3. SchedulerTypeOK /\ Sizing /\ AllRequested => NodesFit
  BY SizingShows
<1> QED BY <1>1, <1>2, <1>3, PTL DEF Spec

(* The nodes of a round take no more cores of a resource than it has left, *)
(* whatever the jobs ask for; and when no job asks for a part without      *)
(* cores, the round asks for no more instances than there are cores left.  *)
THEOREM RequestsAlwaysBounded == Spec => []RequestsBounded
<1>1. Init => SchedulerTypeOK /\ Sizing /\ AllRequested
  BY InitTyped, InitSizing, InitRequested
<1>2. SchedulerTypeOK /\ Sizing /\ AllRequested /\ [Next]_vars
        => (SchedulerTypeOK /\ Sizing /\ AllRequested)'
  BY NextTyped, NextSizing, NextRequested
<1>3. SchedulerTypeOK /\ Sizing /\ AllRequested => RequestsBounded
  BY SizingShows
<1> QED BY <1>1, <1>2, <1>3, PTL DEF Spec

-----------------------------------------------------------------------------
(* The parts of a job.                                                     *)

(* The nodes of a list with a part of job j, no node with two parts of one *)
(* job, and nothing on them of a job that is not looked at yet.            *)
On(list, j) ==
    {i \in DOMAIN list : \E k \in DOMAIN list[i].vcpu_list : list[i].vcpu_list[k].job = j}
OnePart(list) ==
    \A i \in DOMAIN list : \A k, l \in DOMAIN list[i].vcpu_list :
        list[i].vcpu_list[k].job = list[i].vcpu_list[l].job => k = l
OnlyBelow(list, j) ==
    \A i \in DOMAIN list : \A k \in DOMAIN list[i].vcpu_list : list[i].vcpu_list[k].job < j

(* The nodes with parts of a job are finitely many.                        *)
LEMMA OnIs ==
  ASSUME NEW list \in Seq(Allocations), NEW j
  PROVE  On(list, j) \in SUBSET (1 .. Len(list)) /\ IsFiniteSet(On(list, j))
<1>1. DOMAIN list = 1 .. Len(list) /\ Len(list) \in Nat
  OBVIOUS
<1>2. On(list, j) \in SUBSET (1 .. Len(list))
  BY <1>1 DEF On
<1>3. IsFiniteSet(1 .. Len(list))
  BY <1>1, UpTo
<1> QED BY <1>2, <1>3, FS_Subset

(* What is on the nodes after a job was packed.                            *)
LEMMA PackedLists ==
  ASSUME NEW old \in Seq(Allocations), NEW new, NEW part \in Chunks,
         NEW k \in Nat, NEW most, NEW p, NEW t, Packed(old, new, part, k, most, p, t)
  PROVE  LET n == Len(old) IN
         /\ DOMAIN old = 1 .. n /\ n \in Nat /\ Len(new) \in Nat /\ n <= Len(new)
         /\ DOMAIN new = 1 .. Len(new)
         /\ p \in [1 .. n -> 1 .. n] /\ t \in SUBSET (1 .. n)
         /\ \A i \in t : LET v == old[p[i]].vcpu_list
                             w == new[i].vcpu_list
                         IN  /\ DOMAIN w = DOMAIN v \cup {Len(v) + 1}
                             /\ Len(v) + 1 \notin DOMAIN v
                             /\ w[Len(v) + 1] = part
                             /\ \A l \in DOMAIN v : w[l] = v[l]
         /\ \A i \in 1 .. n \ t : new[i].vcpu_list = old[p[i]].vcpu_list
         /\ \A i \in n + 1 .. Len(new) :
               DOMAIN new[i].vcpu_list = {1} /\ new[i].vcpu_list[1] = part
<1> DEFINE n == Len(old)
<1>1. DOMAIN old = 1 .. n /\ n \in Nat /\ \A i \in 1 .. n : old[i] \in Allocations
  OBVIOUS
<1>2. /\ new \in Seq(Allocations) /\ Len(new) = n + (k - Cardinality(t)) /\ k - Cardinality(t) \in Nat
      /\ p \in [1 .. n -> 1 .. n] /\ t \in SUBSET (1 .. n)
      /\ \A i \in t : new[i].vcpu_list = Append(old[p[i]].vcpu_list, part)
      /\ \A i \in 1 .. n \ t : new[i].vcpu_list = old[p[i]].vcpu_list
      /\ \A i \in n + 1 .. n + (k - Cardinality(t)) : new[i].vcpu_list = <<part>>
  BY DEF Packed
<1>3. DOMAIN new = 1 .. Len(new) /\ Len(new) \in Nat
  BY <1>2
<1>4. n <= Len(new)
  <2> HIDE DEF n
  <2> QED BY <1>1, <1>2
<1>5. ASSUME NEW i \in t
      PROVE  LET v == old[p[i]].vcpu_list
                 w == new[i].vcpu_list
             IN  /\ DOMAIN w = DOMAIN v \cup {Len(v) + 1}
                 /\ Len(v) + 1 \notin DOMAIN v
                 /\ w[Len(v) + 1] = part
                 /\ \A l \in DOMAIN v : w[l] = v[l]
  <2>1. p[i] \in 1 .. n
    BY <1>2
  <2>2. old[p[i]].vcpu_list \in Seq(Chunks)
    BY <1>1, <2>1 DEF Allocations
  <2>3. PICK v : v = old[p[i]].vcpu_list
    OBVIOUS
  <2>4. v \in Seq(Chunks) /\ new[i].vcpu_list = Append(v, part)
    BY <1>2, <2>2, <2>3
  <2>5. /\ DOMAIN Append(v, part) = DOMAIN v \cup {Len(v) + 1}
        /\ Len(v) + 1 \notin DOMAIN v
        /\ Append(v, part)[Len(v) + 1] = part
        /\ \A l \in DOMAIN v : Append(v, part)[l] = v[l]
    BY <2>4
  <2> QED BY <2>3, <2>4, <2>5
<1>6. \A i \in n + 1 .. Len(new) : new[i].vcpu_list = <<part>>
  BY <1>2
<1>7. DOMAIN <<part>> = {1} /\ <<part>>[1] = part
  OBVIOUS
<1>8. \A i \in n + 1 .. Len(new) : DOMAIN new[i].vcpu_list = {1} /\ new[i].vcpu_list[1] = part
  BY <1>6, <1>7
<1> QED BY <1>1, <1>2, <1>3, <1>4, <1>5, <1>8

(* Packing puts exactly k parts of the job on as many nodes and moves the  *)
(* nodes of the others.                                                    *)
LEMMA PackedOn ==
  ASSUME NEW old \in Seq(Allocations), NEW new, NEW part \in Chunks,
         NEW k \in Nat, NEW most, NEW p, NEW t, Packed(old, new, part, k, most, p, t),
         OnePart(old), OnlyBelow(old, part.job)
  PROVE  /\ OnePart(new) /\ OnlyBelow(new, part.job + 1)
         /\ Cardinality(On(new, part.job)) = k
         /\ \A j : j # part.job =>
               /\ Cardinality(On(new, j)) = Cardinality(On(old, j))
               /\ On(new, j) # {} => On(old, j) # {}
<1>0. PICK n : n = Len(old)
  OBVIOUS
<1>00. PICK N : N = Len(new)
  OBVIOUS
<1> DEFINE V(i) == old[p[i]].vcpu_list
           W(i) == new[i].vcpu_list
           x(i) == Len(V(i)) + 1
           job == part.job
<1>1. /\ DOMAIN old = 1 .. n /\ n \in Nat /\ N \in Nat /\ n <= N /\ DOMAIN new = 1 .. N
      /\ p \in [1 .. n -> 1 .. n] /\ t \in SUBSET (1 .. n)
      /\ \A i \in t : /\ DOMAIN W(i) = DOMAIN V(i) \cup {x(i)} /\ x(i) \notin DOMAIN V(i)
                      /\ W(i)[x(i)] = part /\ \A l \in DOMAIN V(i) : W(i)[l] = V(i)[l]
      /\ \A i \in 1 .. n \ t : W(i) = V(i)
      /\ \A i \in n + 1 .. N : DOMAIN W(i) = {1} /\ W(i)[1] = part
  BY <1>0, <1>00, PackedLists
<1>2. \A i \in 1 .. N : i \in t \/ i \in 1 .. n \ t \/ i \in n + 1 .. N
  BY <1>1
<1>3. \A i \in 1 .. n : p[i] \in DOMAIN old
  BY <1>1
<1>4. job \in Nat
  BY DEF Chunks
<1>5. ASSUME NEW i \in 1 .. n
      PROVE  /\ \A a, b \in DOMAIN V(i) : V(i)[a].job = V(i)[b].job => a = b
             /\ \A a \in DOMAIN V(i) : V(i)[a].job < job
  BY <1>3 DEF OnePart, OnlyBelow
<1>15. \A i \in 1 .. n : \A a \in DOMAIN V(i) : V(i)[a].job \in Nat /\ V(i)[a].job # job
  <2> SUFFICES ASSUME NEW i \in 1 .. n, NEW a \in DOMAIN V(i)
               PROVE  V(i)[a].job \in Nat /\ V(i)[a].job # job
    OBVIOUS
  <2>1. V(i) \in Seq(Chunks)
    <3>1. old[p[i]] \in Allocations
      BY <1>0, <1>1
    <3> QED BY <3>1 DEF Allocations
  <2> DEFINE v == V(i)
  <2>2. v \in Seq(Chunks) /\ a \in DOMAIN v
    BY <2>1
  <2>3. v[a] \in Chunks
    <3> HIDE DEF v
    <3> QED BY <2>2
  <2>4. V(i)[a].job \in Nat
    BY <2>3 DEF Chunks
  <2>5. V(i)[a].job < job
    BY <1>5
  <2> HIDE DEF V, v
  <2> QED BY <1>4, <2>4, <2>5
<1> HIDE DEF V, x
<1>6. OnePart(new)
  <2> SUFFICES ASSUME NEW i \in 1 .. N, NEW a \in DOMAIN W(i), NEW b \in DOMAIN W(i),
                      W(i)[a].job = W(i)[b].job
               PROVE  a = b
    BY <1>1 DEF OnePart
  <2> HIDE DEF W
  <2>1. CASE i \in t
    <3>1. i \in 1 .. n
      BY <1>1, <2>1
    <3>2. a \in DOMAIN V(i) => W(i)[a] = V(i)[a] /\ V(i)[a].job # job
      BY <1>1, <1>15, <2>1, <3>1
    <3>3. b \in DOMAIN V(i) => W(i)[b] = V(i)[b] /\ V(i)[b].job # job
      BY <1>1, <1>15, <2>1, <3>1
    <3>4. W(i)[x(i)].job = job /\ DOMAIN W(i) = DOMAIN V(i) \cup {x(i)}
      BY <1>1, <2>1
    <3> QED BY <1>5, <3>1, <3>2, <3>3, <3>4
  <2>2. CASE i \in 1 .. n \ t
    BY <1>1, <1>5, <2>2
  <2>3. CASE i \in n + 1 .. N
    BY <1>1, <2>3
  <2> QED BY <1>2, <2>1, <2>2, <2>3
<1>7. OnlyBelow(new, job + 1)
  <2> SUFFICES ASSUME NEW i \in 1 .. N, NEW a \in DOMAIN W(i) PROVE W(i)[a].job < job + 1
    BY <1>1 DEF OnlyBelow
  <2> HIDE DEF W
  <2>1. CASE i \in t
    <3>1. i \in 1 .. n
      BY <1>1, <2>1
    <3>2. CASE a \in DOMAIN V(i)
      <4>1. W(i)[a] = V(i)[a] /\ V(i)[a].job \in Nat /\ V(i)[a].job < job
        BY <1>1, <1>5, <1>15, <2>1, <3>1, <3>2
      <4> HIDE DEF job
      <4> QED BY <1>4, <4>1
    <3>3. CASE a = x(i)
      <4>1. W(i)[a].job = job
        BY <1>1, <2>1, <3>3
      <4> HIDE DEF job
      <4> QED BY <1>4, <4>1
    <3> QED BY <1>1, <2>1, <3>2, <3>3
  <2>2. CASE i \in 1 .. n \ t
    <3>1. W(i)[a] = V(i)[a] /\ V(i)[a].job \in Nat /\ V(i)[a].job < job
      BY <1>1, <1>5, <1>15, <2>2
    <3> HIDE DEF job
    <3> QED BY <1>4, <3>1
  <2>3. CASE i \in n + 1 .. N
    <3>1. W(i)[a].job = job
      BY <1>1, <2>3
    <3> HIDE DEF job
    <3> QED BY <1>4, <3>1
  <2> QED BY <1>2, <2>1, <2>2, <2>3
<1>8. \A j : On(new, j) = {i \in 1 .. N : \E a \in DOMAIN W(i) : W(i)[a].job = j}
  BY <1>1 DEF On
<1>9. \A j : On(old, j) = {i \in 1 .. n : \E a \in DOMAIN old[i].vcpu_list : old[i].vcpu_list[a].job = j}
  BY <1>1 DEF On
<1> HIDE DEF W
(* The nodes with the job.                                                 *)
<1>10. On(new, job) = t \cup (n + 1 .. N)
  <2>1. ASSUME NEW i \in t PROVE i \in On(new, job)
    <3>1. x(i) \in DOMAIN W(i) /\ W(i)[x(i)].job = job
      BY <1>1
    <3>2. i \in 1 .. n
      BY <1>1
    <3>3. i \in 1 .. N
      BY <1>1, <3>2
    <3> QED BY <1>8, <3>1, <3>3
  <2>2. ASSUME NEW i \in n + 1 .. N PROVE i \in On(new, job)
    <3>1. 1 \in DOMAIN W(i) /\ W(i)[1].job = job /\ i \in 1 .. N
      BY <1>1
    <3> QED BY <1>8, <3>1
  <2>3. ASSUME NEW i \in 1 .. n \ t PROVE i \notin On(new, job)
    <3>1. \A a \in DOMAIN W(i) : W(i)[a].job # job
      BY <1>1, <1>15
    <3> QED BY <1>8, <3>1
  <2>4. On(new, job) \in SUBSET (1 .. N)
    BY <1>8
  <2> QED BY <1>2, <2>1, <2>2, <2>3, <2>4
<1>11. Cardinality(On(new, job)) = k
  <2>1. PICK c : c = Cardinality(t)
    OBVIOUS
  <2>2. IsFiniteSet(t) /\ c \in Nat /\ N = n + (k - c) /\ k - c \in Nat
    BY <1>0, <1>00, <2>1 DEF Packed
  <2>3. IsFiniteSet(n + 1 .. N) /\ Cardinality(n + 1 .. N) = k - c
    <3>1. CASE n + 1 <= N + 1
      <4>1. n + 1 <= N \/ N = n
        BY <1>1, <2>2
      <4>2. n \in Int /\ N \in Int
        BY <1>1
      <4> QED BY <4>1, <4>2, <2>2, FS_Interval
    <3> QED BY <1>1, <3>1
  <2>4. t \cap (n + 1 .. N) = {}
    BY <1>1
  <2>5. Cardinality(t \cup (n + 1 .. N)) = c + (k - c)
    <3>1. Cardinality(t \cup (n + 1 .. N))
            = Cardinality(t) + Cardinality(n + 1 .. N) - Cardinality(t \cap (n + 1 .. N))
      BY <2>2, <2>3, FS_Union
    <3>2. Cardinality(t \cap (n + 1 .. N)) = 0
      BY <2>4, FS_EmptySet
    <3> QED BY <2>1, <2>2, <2>3, <3>1, <3>2
  <2> QED BY <1>10, <2>2, <2>5
(* Those with another.                                                     *)
<1>12. \A i \in 1 .. n : V(i) = old[p[i]].vcpu_list
  BY DEF V
<1>13. ASSUME NEW j, j # job
       PROVE  \A i \in 1 .. N : i \in On(new, j) <=> i \in 1 .. n /\ p[i] \in On(old, j)
  <2>1. ASSUME NEW i \in 1 .. n PROVE p[i] \in On(old, j) <=> \E a \in DOMAIN V(i) : V(i)[a].job = j
    <3>1. p[i] \in 1 .. n
      BY <1>1
    <3>2. p[i] \in On(old, j)
            <=> \E a \in DOMAIN old[p[i]].vcpu_list : old[p[i]].vcpu_list[a].job = j
      BY <1>9, <3>1
    <3> QED BY <1>12, <3>2
  <2>2. ASSUME NEW i \in t PROVE i \in On(new, j) <=> p[i] \in On(old, j)
    <3>1. i \in 1 .. n /\ i \in 1 .. N
      BY <1>1
    <3>2. i \in On(new, j) <=> \E a \in DOMAIN W(i) : W(i)[a].job = j
      BY <1>8, <3>1
    <3>3. (\E a \in DOMAIN W(i) : W(i)[a].job = j) <=> \E a \in DOMAIN V(i) : V(i)[a].job = j
      BY <1>1, <1>13
    <3> QED BY <2>1, <3>1, <3>2, <3>3
  <2>3. ASSUME NEW i \in 1 .. n \ t PROVE i \in On(new, j) <=> p[i] \in On(old, j)
    <3>1. i \in 1 .. N /\ W(i) = V(i)
      BY <1>1
    <3> QED BY <1>8, <2>1, <3>1
  <2>4. ASSUME NEW i \in n + 1 .. N PROVE i \notin On(new, j) /\ i \notin 1 .. n
    <3>1. \A a \in DOMAIN W(i) : W(i)[a].job = job
      BY <1>1
    <3>2. i \notin 1 .. n
      BY <1>1
    <3> QED BY <1>8, <1>13, <3>1, <3>2
  <2>5. \A i \in t : i \in 1 .. n
    BY <1>1
  <2> QED BY <1>2, <2>2, <2>3, <2>4, <2>5
<1>14. ASSUME NEW j, j # job
       PROVE  /\ Cardinality(On(new, j)) = Cardinality(On(old, j))
              /\ On(new, j) # {} => On(old, j) # {}
  <2> DEFINE A == On(new, j)
             B == On(old, j)
             f == [i \in A |-> p[i]]
  <2>1. A \in SUBSET (1 .. n) /\ B \in SUBSET (1 .. n) /\ \A i \in A : p[i] \in B
    <3>1. A \in SUBSET (1 .. N)
      BY <1>8
    <3> QED BY <1>9, <1>13, <1>14, <3>1
  <2>2. IsFiniteSet(1 .. n) /\ IsFiniteSet(A) /\ IsFiniteSet(B)
    <3>1. IsFiniteSet(1 .. n)
      BY <1>1, UpTo
    <3> HIDE DEF A, B
    <3> QED BY <2>1, <3>1, FS_Subset
  <2>3. \A i, l \in 1 .. n : p[i] = p[l] => i = l
    BY <1>0 DEF Packed
  <2>4. p \in Surjection(1 .. n, 1 .. n)
    <3>1. p \in Injection(1 .. n, 1 .. n)
      BY <1>1, <2>3 DEF Injection, IsInjective
    <3> QED BY <2>2, <3>1, FS_Injection
  <2>5. ASSUME NEW b \in B PROVE \E i \in A : p[i] = b
    <3>1. PICK i \in 1 .. n : p[i] = b
      BY <2>1, <2>4 DEF Surjection
    <3>2. i \in 1 .. N
      BY <1>1
    <3>3. i \in A
      BY <1>13, <1>14, <3>1, <3>2
    <3> QED BY <3>1, <3>3
  <2> HIDE DEF A, B
  <2>6. f \in Bijection(A, B)
    <3>1. f \in [A -> B] /\ \A i, l \in A : f[i] = f[l] => i = l
      BY <2>1, <2>3
    <3>2. \A b \in B : \E i \in A : f[i] = b
      BY <2>5
    <3> HIDE DEF f
    <3> QED BY <3>1, <3>2 DEF Bijection, Injection, Surjection, IsInjective
  <2>7. Cardinality(A) = Cardinality(B)
    <3>1. ExistsBijection(A, B)
      BY <2>6 DEF ExistsBijection
    <3> QED BY <2>2, <3>1, FS_Bijection
  <2> QED BY <2>1, <2>7 DEF A, B
<1> QED BY <1>6, <1>7, <1>11, <1>14

(* A node has one part of a job at most, and none of a job that is not     *)
(* looked at yet; the nodes with parts of a job are all in one resource,   *)
(* as many as the job asks for.                                            *)
Placing ==
    /\ \A r \in CloudResources : OnePart(req_list[r]) /\ OnlyBelow(req_list[r], next)
    /\ \A r, q \in CloudResources : \A j \in Nat :
          On(req_list[r], j) # {} /\ On(req_list[q], j) # {} => r = q
    /\ \A r \in CloudResources : \A j \in DOMAIN idle_jobs :
          On(req_list[r], j) # {} =>
              Cardinality(On(req_list[r], j)) = Len(Requirement(idle_jobs[j].kind))

(* It holds where no node is.                                              *)
LEMMA EmptyPlacing ==
  ASSUME \A r \in CloudResources : req_list[r] = <<>>
  PROVE  Placing
<1>1. \A r \in CloudResources : DOMAIN req_list[r] = {}
  OBVIOUS
<1>2. \A r \in CloudResources : \A j : On(req_list[r], j) = {}
  BY <1>1 DEF On
<1> QED BY <1>1, <1>2 DEF Placing, OnePart, OnlyBelow

(* No node has a part of a job that is not looked at yet.                  *)
LEMMA Below ==
  ASSUME NEW list \in Seq(Allocations), NEW n \in Nat, OnlyBelow(list, n)
  PROVE  OnlyBelow(list, n + 1) /\ On(list, n) = {}
<1>1. ASSUME NEW i \in DOMAIN list, NEW k \in DOMAIN list[i].vcpu_list
      PROVE  list[i].vcpu_list[k].job \in Nat /\ list[i].vcpu_list[k].job < n
  <2>1. list[i] \in Allocations
    OBVIOUS
  <2>2. list[i].vcpu_list \in Seq(Chunks)
    BY <2>1 DEF Allocations
  <2>3. PICK v : v = list[i].vcpu_list
    OBVIOUS
  <2>4. v[k] \in Chunks
    BY <2>2, <2>3
  <2> QED BY <2>3, <2>4 DEF Chunks, OnlyBelow
<1>2. ASSUME NEW i \in DOMAIN list, NEW k \in DOMAIN list[i].vcpu_list
      PROVE  list[i].vcpu_list[k].job < n + 1 /\ list[i].vcpu_list[k].job # n
  <2>1. PICK j : j = list[i].vcpu_list[k].job
    OBVIOUS
  <2>2. j \in Nat /\ j < n
    BY <1>1, <2>1
  <2>3. j < n + 1 /\ j # n
    BY <2>2
  <2> QED BY <2>1, <2>3
<1> QED BY <1>2 DEF OnlyBelow, On

(* The job at next gets its parts in one resource and had none before; the *)
(* nodes of the other jobs are as many as they were.                       *)
LEMMA ServedPlacing ==
  ASSUME SchedulerTypeOK, Placing, next <= Len(idle_jobs), NEW r, NEW p, NEW t, Served(r, p, t),
         next' = next + 1, UNCHANGED idle_jobs
  PROVE  Placing'
<1>0. PICK n : n = next
  OBVIOUS
<1>00. PICK old : old = req_list[r]
  OBVIOUS
<1>000. PICK new : new = req_list'[r]
  OBVIOUS
<1> DEFINE req == Requirement(Job.kind)
           part == [job |-> next, cores |-> req[1]]
<1>1. /\ r \in CloudResources /\ req \in Seq(Nat) /\ req # <<>>
      /\ Packed(old, new, part, Len(req), MaxCores(r), p, t)
      /\ req_list' = [req_list EXCEPT ![r] = new]
  BY <1>00, <1>000 DEF Served
<1>2. /\ n \in Nat /\ n \in DOMAIN idle_jobs /\ req = Requirement(idle_jobs[n].kind)
      /\ req[1] \in Nat /\ Len(req) \in Nat \ {0}
  <2>1. n \in 1 .. Len(idle_jobs) /\ idle_jobs \in Seq(Jobs)
    BY <1>0, JobIs DEF SchedulerTypeOK
  <2>2. req[1] \in Nat /\ Len(req) \in Nat \ {0}
    <3> HIDE DEF req
    <3> QED BY <1>1
  <2> QED BY <1>0, <2>1, <2>2 DEF Job
<1> HIDE DEF req
<1>3. part \in Chunks /\ part.job = n
  BY <1>0, <1>2 DEF Chunks
<1>4. req_list \in [CloudResources -> Seq(Allocations)]
  BY DEF SchedulerTypeOK
<1>5. req_list'[r] = new /\ \A q \in CloudResources \ {r} : req_list'[q] = req_list[q]
  BY <1>1, <1>4
<1>6. old \in Seq(Allocations) /\ OnePart(old) /\ OnlyBelow(old, n)
  BY <1>0, <1>00, <1>1, <1>4 DEF Placing
<1> HIDE DEF part
<1>7. /\ OnePart(new) /\ OnlyBelow(new, n + 1)
      /\ Cardinality(On(new, n)) = Len(req)
      /\ \A j : j # n => /\ Cardinality(On(new, j)) = Cardinality(On(old, j))
                         /\ On(new, j) # {} => On(old, j) # {}
  <2>1. OnlyBelow(old, part.job) /\ Len(req) \in Nat
    BY <1>2, <1>3, <1>6
  <2>2. /\ OnePart(new) /\ OnlyBelow(new, part.job + 1)
        /\ Cardinality(On(new, part.job)) = Len(req)
        /\ \A j : j # part.job =>
              /\ Cardinality(On(new, j)) = Cardinality(On(old, j))
              /\ On(new, j) # {} => On(old, j) # {}
    BY <1>1, <1>3, <1>6, <2>1, PackedOn
  <2> QED BY <1>3, <2>2
<1>8. \A q \in CloudResources : OnlyBelow(req_list[q], n + 1) /\ On(req_list[q], n) = {}
  <2>1. \A q \in CloudResources : req_list[q] \in Seq(Allocations) /\ OnlyBelow(req_list[q], n)
    BY <1>0, <1>4 DEF Placing
  <2> QED BY <1>2, <2>1, Below
<1>9. ASSUME NEW q \in CloudResources
      PROVE  OnePart(req_list'[q]) /\ OnlyBelow(req_list'[q], next')
  <2>1. CASE q = r
    BY <1>0, <1>5, <1>7, <2>1
  <2>2. CASE q # r
    BY <1>0, <1>5, <1>8, <2>2 DEF Placing
  <2> QED BY <2>1, <2>2
<1>10. ASSUME NEW q \in CloudResources, NEW j \in Nat, On(req_list'[q], j) # {}
       PROVE  \/ j # n /\ On(req_list[q], j) # {}
              \/ j = n /\ q = r
  <2>1. CASE q = r
    BY <1>00, <1>5, <1>7, <1>10, <2>1
  <2>2. CASE q # r
    BY <1>5, <1>8, <1>10, <2>2
  <2> QED BY <2>1, <2>2
<1>11. ASSUME NEW q \in CloudResources, NEW s \in CloudResources, NEW j \in Nat,
              On(req_list'[q], j) # {}, On(req_list'[s], j) # {}
       PROVE  q = s
  BY <1>10, <1>11 DEF Placing
<1>12. ASSUME NEW q \in CloudResources, NEW j \in DOMAIN idle_jobs, On(req_list'[q], j) # {}
       PROVE  Cardinality(On(req_list'[q], j)) = Len(Requirement(idle_jobs[j].kind))
  <2>0. j \in Nat
    <3>1. idle_jobs \in Seq(Jobs)
      BY DEF SchedulerTypeOK
    <3> QED BY <3>1
  <2>1. CASE j = n
    <3>1. q = r
      BY <1>10, <1>12, <2>0, <2>1
    <3> QED BY <1>2, <1>5, <1>7, <2>1, <3>1
  <2>2. CASE j # n /\ q = r
    <3>1. On(old, j) # {}
      BY <1>5, <1>7, <1>12, <2>2
    <3>2. Cardinality(On(old, j)) = Len(Requirement(idle_jobs[j].kind))
      BY <1>00, <3>1, <2>2 DEF Placing
    <3> QED BY <1>5, <1>7, <2>2, <3>2
  <2>3. CASE q # r
    BY <1>5, <1>12, <2>3 DEF Placing
  <2> QED BY <2>1, <2>2, <2>3
<1> QED BY <1>9, <1>11, <1>12 DEF Placing

(* No other step changes the nodes, or the jobs while there are nodes.     *)
LEMMA NextPlacing ==
  ASSUME SchedulerTypeOK, Sizing, Placing, [Next]_vars
  PROVE  Placing'
<1>1. ASSUME phase \in {"merge", "sort"}, UNCHANGED req_list PROVE Placing'
  <2>1. \A r \in CloudResources : req_list'[r] = <<>>
    BY <1>1 DEF Sizing
  <2>2. \A r \in CloudResources : DOMAIN req_list'[r] = {}
    BY <2>1
  <2>3. \A r \in CloudResources : \A j : On(req_list'[r], j) = {}
    BY <2>2 DEF On
  <2> QED BY <2>2, <2>3 DEF Placing, OnePart, OnlyBelow
<1>2. ASSUME UNCHANGED <<idle_jobs, req_list>>, next' \in {next, next + 1} PROVE Placing'
  <2>1. next \in Nat /\ \A r \in CloudResources : req_list[r] \in Seq(Allocations)
    BY DEF SchedulerTypeOK
  <2>2. \A r \in CloudResources : OnlyBelow(req_list[r], next + 1)
    BY <2>1, Below DEF Placing
  <2>3. \A r \in CloudResources : OnlyBelow(req_list'[r], next')
    BY <1>2, <2>2 DEF Placing
  <2>4. /\ \A r \in CloudResources : OnePart(req_list'[r])
        /\ \A r, q \in CloudResources : \A j \in Nat :
              On(req_list'[r], j) # {} /\ On(req_list'[q], j) # {} => r = q
        /\ \A r \in CloudResources : \A j \in DOMAIN idle_jobs' :
              On(req_list'[r], j) # {} =>
                  Cardinality(On(req_list'[r], j)) = Len(Requirement(idle_jobs'[j].kind))
    BY <1>2 DEF Placing
  <2> QED BY <2>3, <2>4 DEF Placing
<1>3. CASE MergeJob
  BY <1>1, <1>3 DEF MergeJob
<1>4. CASE MergeEnd
  BY <1>1, <1>4 DEF MergeEnd
<1>5. CASE SortJobs
  BY <1>1, <1>5 DEF SortJobs
<1>6. CASE PassJob
  BY <1>2, <1>6 DEF PassJob
<1>7. CASE FailJob
  BY <1>2, <1>7 DEF FailJob
<1>8. CASE SizeJob
  <2>1. /\ next <= Len(idle_jobs) /\ UNCHANGED idle_jobs
        /\ \/ next' = next + 1 /\ UNCHANGED req_list
           \/ UNCHANGED <<next, req_list>>
           \/ next' = next + 1 /\ \E r, p, t : Served(r, p, t)
    BY <1>8, SizeStep
  <2>2. CASE UNCHANGED req_list /\ next' \in {next, next + 1}
    BY <1>2, <2>1, <2>2
  <2>3. CASE next' = next + 1 /\ \E r, p, t : Served(r, p, t)
    BY <2>1, <2>3, ServedPlacing
  <2> QED BY <2>1, <2>2, <2>3
<1>9. CASE SizeEnd
  BY <1>2, <1>9 DEF SizeEnd
<1>10. CASE Convert
  BY <1>2, <1>10 DEF Convert
<1>11. CASE UNCHANGED vars
  BY <1>2, <1>11 DEF vars
<1> QED BY <1>3, <1>4, <1>5, <1>6, <1>7, <1>8, <1>9, <1>10, <1>11 DEF Next

(* Parts and nodes with a part are the same number.                        *)
LEMMA PartsOnNodes ==
  ASSUME NEW r \in CloudResources, NEW j, req_list[r] \in Seq(Allocations), OnePart(req_list[r])
  PROVE  /\ {p[1] : p \in PartsOn(r, j)} = On(req_list[r], j)
         /\ IsFiniteSet(On(req_list[r], j))
         /\ Cardinality(PartsOn(r, j)) = Cardinality(On(req_list[r], j))
<1>0. PICK list : list = req_list[r]
  OBVIOUS
<1> DEFINE P == PartsOn(r, j)
           N == On(list, j)
           K(i) == {k \in DOMAIN list[i].vcpu_list : list[i].vcpu_list[k].job = j}
           f == [p \in P |-> p[1]]
<1>1. P = UNION {{i} \X K(i) : i \in DOMAIN list}
  BY <1>0 DEF PartsOn
<1>2. N = {i \in DOMAIN list : K(i) # {}}
  BY DEF On
<1>3. \A i \in DOMAIN list : \A k, l \in K(i) : k = l
  BY <1>0 DEF OnePart
<1> HIDE DEF K, P, N
<1>4. ASSUME NEW p \in P PROVE p[1] \in N /\ p[2] \in K(p[1]) /\ p = <<p[1], p[2]>>
  <2>1. PICK i \in DOMAIN list : p \in {i} \X K(i)
    BY <1>1
  <2> QED BY <1>2, <2>1
<1>5. ASSUME NEW i \in N PROVE \E p \in P : p[1] = i
  <2>1. PICK k \in K(i) : TRUE
    BY <1>2
  <2>2. <<i, k>> \in P
    BY <1>1, <1>2
  <2> QED BY <2>2
<1>6. {p[1] : p \in P} = N
  BY <1>4, <1>5
<1>7. f \in Bijection(P, N)
  <2>1. f \in [P -> N]
    BY <1>4
  <2>2. ASSUME NEW p \in P, NEW q \in P, f[p] = f[q] PROVE p = q
    <3>1. p[1] = q[1]
      BY <2>2
    <3>2. p[2] = q[2]
      BY <1>2, <1>3, <1>4, <3>1
    <3> QED BY <1>4, <3>1, <3>2
  <2>3. \A i \in N : \E p \in P : f[p] = i
    BY <1>5
  <2> HIDE DEF f
  <2> QED BY <2>1, <2>2, <2>3 DEF Bijection, Injection, Surjection, IsInjective
<1>8. IsFiniteSet(N)
  BY <1>0, OnIs DEF N
<1>9. Cardinality(N) = Cardinality(P)
  <2>1. ExistsBijection(N, P)
    <3>1. ExistsBijection(P, N)
      BY <1>7 DEF ExistsBijection
    <3> QED BY <3>1, Fun_ExistsBijSymmetric
  <2> QED BY <1>8, <2>1, FS_Bijection
<1> QED BY <1>0, <1>6, <1>8, <1>9 DEF P, N

(* What the invariant says of nodes holds of the parts on them.            *)
LEMMA PlacingShows ==
  ASSUME SchedulerTypeOK, Placing
  PROVE  JobsPlaced
<1>1. ASSUME NEW q \in CloudResources, NEW j
      PROVE  /\ {p[1] : p \in PartsOn(q, j)} = On(req_list[q], j)
             /\ Cardinality(PartsOn(q, j)) = Cardinality(On(req_list[q], j))
  BY PartsOnNodes DEF Placing, SchedulerTypeOK
<1>2. \A q \in CloudResources : \A j : PartsOn(q, j) # {} <=> On(req_list[q], j) # {}
  <2> SUFFICES ASSUME NEW q \in CloudResources, NEW j
               PROVE  PartsOn(q, j) # {} <=> On(req_list[q], j) # {}
    OBVIOUS
  <2>1. PICK P : P = PartsOn(q, j)
    OBVIOUS
  <2>2. {p[1] : p \in P} = On(req_list[q], j)
    BY <1>1, <2>1
  <2> QED BY <2>1, <2>2
<1> SUFFICES ASSUME NEW r \in CloudResources, NEW j \in DOMAIN idle_jobs, PartsOn(r, j) # {}
             PROVE  /\ Cardinality(PartsOn(r, j)) = Len(Requirement(idle_jobs[j].kind))
                    /\ Cardinality({p[1] : p \in PartsOn(r, j)}) = Cardinality(PartsOn(r, j))
                    /\ \A q \in CloudResources \ {r} : PartsOn(q, j) = {}
  BY DEF JobsPlaced
<1>3. On(req_list[r], j) # {} /\ j \in Nat
  <2>1. idle_jobs \in Seq(Jobs)
    BY DEF SchedulerTypeOK
  <2>2. j \in Nat
    BY <2>1
  <2> QED BY <1>2, <2>2
<1>4. Cardinality(On(req_list[r], j)) = Len(Requirement(idle_jobs[j].kind))
  BY <1>3 DEF Placing
<1>5. \A q \in CloudResources \ {r} : On(req_list[q], j) = {}
  BY <1>3 DEF Placing
<1> QED BY <1>1, <1>2, <1>4, <1>5

(* Every job that is served gets all its parts, each on a node of its own, *)
(* all in one resource, for any jobs, resources and flavors: sorting the   *)
(* nodes and packing later jobs onto them moves no part, splits no job and *)
(* puts no two parts of a job onto one node.                               *)
THEOREM JobsAlwaysPlaced == Spec => []JobsPlaced
<1>1. Init => SchedulerTypeOK /\ Sizing /\ Placing
  <2>1. Init => \A r \in CloudResources : req_list[r] = <<>>
    BY DEF Init
  <2> QED BY <2>1, InitTyped, InitSizing, EmptyPlacing
<1>2. SchedulerTypeOK /\ Sizing /\ Placing /\ [Next]_vars
        => (SchedulerTypeOK /\ Sizing /\ Placing)'
  BY NextTyped, NextSizing, NextPlacing
<1>3. SchedulerTypeOK /\ Placing => JobsPlaced
  BY PlacingShows
<1> QED BY <1>1, <1>2, <1>3, PTL DEF Spec
=============================================================================
