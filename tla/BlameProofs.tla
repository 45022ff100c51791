---------------------------- MODULE BlameProofs -----------------------------
(***************************************************************************)
(* Proofs about the blame engine over the traces that the SDK emits, for   *)
(* any spans, strands and objects. The engine's recursions end because the *)
(* spans of a trace finish in an order; that order is an invariant of the  *)
(* SDK. The properties of the report then follow for each orderly trace.   *)
(***************************************************************************)
EXTENDS TraceProofs, BlameProps, WellFoundedInduction, FiniteSetTheorems, TLAPS

(***************************************************************************)
(* Recursion over the spans.  An operator of the engine is defined as the  *)
(* function that satisfies a recursive equation. That there is one follows *)
(* from a rank that falls with every recursive call, because a set of      *)
(* numbers has a least element (WFMin): the solutions that are right below *)
(* a rank extend to the next one.                                          *)
(***************************************************************************)

(* A nonempty set of numbers has a least element.                          *)
LEMMA NonemptyHasLeast ==
  ASSUME NEW S \in SUBSET Nat, S # {}
  PROVE  \E c \in S : \A d \in S : c <= d
<1>1. PICK c \in S : \A d \in S : ~ (<<d, c>> \in OpToRel(<, Nat))
  BY NatLessThanWellFounded, WFMin
<1>2. c \in Nat /\ \A d \in S : d \in Nat /\ ~ (d < c)
  BY <1>1 DEF OpToRel
<1> QED
  BY <1>2

(* Max is the maximum of a nonempty set of numbers that has a bound.       *)
LEMMA BoundedHasMax ==
  ASSUME NEW S \in SUBSET Nat, S # {}, NEW b \in Nat, \A n \in S : n <= b
  PROVE  Max(S) \in S /\ \A n \in S : n <= Max(S)
<1> DEFINE Bounds == {c \in Nat : \A n \in S : n <= c}
<1>1. PICK c \in Bounds : \A d \in Bounds : c <= d
  <2>1. Bounds \in SUBSET Nat /\ b \in Bounds
    OBVIOUS
  <2> HIDE DEF Bounds
  <2> QED
    BY <2>1, NonemptyHasLeast
<1>2. c \in S
  <2> SUFFICES ASSUME c \notin S PROVE FALSE
    OBVIOUS
  <2>1. PICK n \in S : TRUE
    OBVIOUS
  <2>2. \A m \in S : m \in Nat /\ m < c
    BY <1>1
  <2>3. c - 1 \in Bounds /\ ~ (c <= c - 1)
    BY <1>1, <2>1, <2>2
  <2> QED
    BY <1>1, <2>3
<1>3. Max(S) \in S /\ \A n \in S : Max(S) >= n
  BY <1>1, <1>2 DEF Max
<1> QED
  BY <1>3

(* A nonempty set of spans has one of least rank.                          *)
LEMMA LeastOf ==
  ASSUME NEW S, NEW rank, \A n \in S : rank[n] \in Nat, S # {}
  PROVE  \E n \in S : \A m \in S : rank[n] <= rank[m]
<1> DEFINE R == {rank[n] : n \in S}
<1>1. R \in SUBSET Nat /\ R # {}
  OBVIOUS
<1>2. PICK c \in R : \A d \in R : c <= d
  <2> HIDE DEF R
  <2> QED
    BY <1>1, NonemptyHasLeast
<1> QED
  BY <1>2

(* step[n] computes the value of n from the values of dep[n], whose ranks  *)
(* are smaller.                                                            *)
Guided(ids, V, rank, dep, step) ==
  /\ V # {}
  /\ rank \in [ids -> Nat]
  /\ dep \in [ids -> SUBSET ids]
  /\ \A n \in ids : \A m \in dep[n] : rank[m] < rank[n]
  /\ step \in [ids -> [[ids -> V] -> V]]
  /\ \A n \in ids : \A f, g \in [ids -> V] :
       (\A m \in dep[n] : f[m] = g[m]) => step[n][f] = step[n][g]

(* Then there is a function that satisfies the recursive equation.         *)
LEMMA Recursion ==
  ASSUME NEW ids, NEW V, NEW rank, NEW dep, NEW step, Guided(ids, V, rank, dep, step)
  PROVE  \E f \in [ids -> V] : \A n \in ids : f[n] = step[n][f]
<1> USE DEF Guided
<1> PICK v \in V : TRUE
  OBVIOUS
<1> DEFINE Sols(k) == {f \in [ids -> V] : \A n \in ids : rank[n] < k => f[n] = step[n][f]}
<1>1. ASSUME NEW k \in Nat, NEW j \in Nat, NEW f \in Sols(k), NEW g \in Sols(j), NEW n \in ids,
             rank[n] < k, rank[n] < j
      PROVE  f[n] = g[n]
  <2> DEFINE D == {m \in ids : rank[m] < k /\ rank[m] < j /\ f[m] # g[m]}
  <2> SUFFICES ASSUME D # {} PROVE FALSE
    BY <1>1
  <2>1. PICK m \in D : \A l \in D : rank[m] <= rank[l]
    <3>1. \A l \in D : rank[l] \in Nat
      OBVIOUS
    <3> HIDE DEF D
    <3> QED
      BY <3>1, LeastOf
  <2>2. m \in ids /\ rank[m] \in Nat /\ rank[m] < k /\ rank[m] < j
    BY <2>1
  <2>3. \A l \in dep[m] : f[l] = g[l]
    <3> SUFFICES ASSUME NEW l \in dep[m], f[l] # g[l] PROVE FALSE
      OBVIOUS
    <3>1. l \in ids /\ rank[l] \in Nat /\ rank[l] < rank[m]
      BY <2>2
    <3>2. rank[l] < k /\ rank[l] < j
      BY <2>2, <3>1
    <3>3. l \in D
      BY <3>1, <3>2
    <3> QED
      BY <2>1, <2>2, <3>1, <3>3
  <2>4. step[m][f] = step[m][g]
    BY <2>1, <2>3
  <2> QED
    BY <2>1, <2>4
<1>2. \A k \in Nat : Sols(k) # {}
  <2> DEFINE D == {k \in Nat : Sols(k) = {}}
  <2> SUFFICES ASSUME D # {} PROVE FALSE
    OBVIOUS
  <2>1. PICK k \in D : \A l \in D : k <= l
    <3>1. D \in SUBSET Nat
      OBVIOUS
    <3> HIDE DEF D
    <3> QED
      BY <3>1, NonemptyHasLeast
  <2>2. k # 0
    <3>1. \A n \in ids : ~ (rank[n] < 0)
      OBVIOUS
    <3>2. [n \in ids |-> v] \in Sols(0)
      BY <3>1
    <3> QED
      BY <2>1, <3>2
  <2>3. k \in Nat /\ k - 1 \in Nat
    BY <2>1, <2>2
  <2>4. PICK f \in Sols(k - 1) : TRUE
    <3>1. k - 1 \notin D
      <4> HIDE DEF D
      <4> QED
        BY <2>1, <2>3
    <3> HIDE DEF Sols
    <3> QED
      BY <2>3, <3>1
  <2> DEFINE g == [n \in ids |-> IF rank[n] = k - 1 THEN step[n][f] ELSE f[n]]
  <2>5. g \in [ids -> V] /\ f \in [ids -> V]
    BY <2>4
  <2>6. ASSUME NEW n \in ids, rank[n] < k PROVE g[n] = step[n][g]
    <3>1. rank[n] \in Nat /\ \A m \in dep[n] : m \in ids /\ rank[m] \in Nat /\ rank[m] < rank[n]
      OBVIOUS
    <3>2. \A m \in dep[n] : g[m] = f[m]
      <4> SUFFICES ASSUME NEW m \in dep[n] PROVE g[m] = f[m]
        OBVIOUS
      <4>1. rank[m] # k - 1
        BY <2>3, <2>6, <3>1
      <4> QED
        BY <3>1, <4>1
    <3> HIDE DEF g, D, Sols
    <3>3. step[n][g] = step[n][f]
      BY <2>5, <3>2
    <3>4. rank[n] = k - 1 \/ rank[n] < k - 1
      BY <2>3, <2>6, <3>1
    <3>5. g[n] = step[n][f]
      BY <2>4, <3>4 DEF g, Sols
    <3> QED
      BY <3>3, <3>5
  <2>7. g \in Sols(k)
    BY <2>5, <2>6
  <2> QED
    BY <2>1, <2>7
<1> DEFINE sol(n) == CHOOSE f : f \in Sols(rank[n] + 1)
           F == [n \in ids |-> sol(n)[n]]
<1>3. \A n \in ids : sol(n) \in Sols(rank[n] + 1)
  <2> HIDE DEF Sols
  <2> QED
    BY <1>2
<1>4. F \in [ids -> V]
  BY <1>3
<1>5. ASSUME NEW n \in ids PROVE F[n] = step[n][F]
  <2>1. /\ rank[n] \in Nat
        /\ \A m \in dep[n] : m \in ids /\ rank[m] \in Nat /\ rank[m] < rank[n]
    OBVIOUS
  <2>2. \A m \in dep[n] : F[m] = sol(n)[m]
    <3> SUFFICES ASSUME NEW m \in dep[n] PROVE sol(m)[m] = sol(n)[m]
      BY <2>1
    <3> HIDE DEF Sols, sol
    <3>1. rank[m] + 1 \in Nat /\ rank[n] + 1 \in Nat /\ sol(m) \in Sols(rank[m] + 1) /\ sol(n) \in Sols(rank[n] + 1)
      BY <1>3, <2>1
    <3>2. rank[m] < rank[m] + 1 /\ rank[m] < rank[n] + 1
      BY <2>1
    <3> QED
      BY <1>1, <2>1, <3>1, <3>2
  <2>3. sol(n) \in [ids -> V] /\ sol(n)[n] = step[n][sol(n)]
    <3>1. rank[n] < rank[n] + 1
      BY <2>1
    <3> HIDE DEF sol
    <3> QED
      BY <1>3, <3>1
  <2> HIDE DEF Sols, sol, F
  <2>4. step[n][F] = step[n][sol(n)]
    BY <1>4, <2>2, <2>3
  <2>5. F[n] = sol(n)[n]
    BY DEF F
  <2> QED
    BY <2>3, <2>4, <2>5
<1> QED
  BY <1>4, <1>5

(***************************************************************************)
(* The sum of BelowCounts.  MapThenSumSet folds over a finite set one      *)
(* chosen element at a time: the sum is a number, is positive exactly when *)
(* one of its terms is, and depends on the terms alone.                    *)
(***************************************************************************)

Chosen(s) == CHOOSE x \in s : TRUE
Weight(f, bad, c) == f[c] + (IF c \in bad THEN 1 ELSE 0)
Total(f, bad, S) == MapThenSumSet(LAMBDA c : f[c] + (IF c \in bad THEN 1 ELSE 0), S)
Adds(it, f, bad, S) ==
  it = [s \in SUBSET S |-> IF s = {} THEN 0 ELSE Weight(f, bad, Chosen(s)) + it[s \ {Chosen(s)}]]

LEMMA TotalIsChosen ==
  ASSUME NEW f, NEW bad, NEW S
  PROVE  Total(f, bad, S) = (CHOOSE it : Adds(it, f, bad, S))[S]
BY Zenon DEF Total, Adds, MapThenSumSet, MapThenFoldSet, Weight, Chosen

LEMMA ChosenIn == ASSUME NEW s, s # {} PROVE Chosen(s) \in s
BY DEF Chosen

(* The recursive sum of the fold exists.                                   *)
LEMMA AddsExists ==
  ASSUME NEW S, IsFiniteSet(S), NEW f, \A c \in S : f[c] \in Nat, NEW bad
  PROVE  \E it : Adds(it, f, bad, S)
<1> DEFINE ids == SUBSET S
           rank == [s \in ids |-> Cardinality(s)]
           dep == [s \in ids |-> IF s = {} THEN {} ELSE {s \ {Chosen(s)}}]
           step == [s \in ids |-> [g \in [ids -> Nat] |->
                      IF s = {} THEN 0 ELSE Weight(f, bad, Chosen(s)) + g[s \ {Chosen(s)}]]]
<1>1. rank \in [ids -> Nat]
  BY FS_Subset, FS_CardinalityType
<1>2. dep \in [ids -> SUBSET ids]
  OBVIOUS
<1>3. ASSUME NEW s \in ids, NEW m \in dep[s] PROVE rank[m] < rank[s]
  <2>1. s # {} /\ m = s \ {Chosen(s)} /\ m \in ids /\ Chosen(s) \in s
    BY ChosenIn
  <2>2. IsFiniteSet(s)
    BY FS_Subset
  <2>3. Cardinality(m) = Cardinality(s) - 1 /\ Cardinality(s) \in Nat
    BY <2>1, <2>2, FS_RemoveElement, FS_CardinalityType
  <2> QED
    BY <2>1, <2>3
<1>4. \A s \in ids : s # {} => Weight(f, bad, Chosen(s)) \in Nat
  BY ChosenIn DEF Weight
<1>5. step \in [ids -> [[ids -> Nat] -> Nat]]
  BY <1>4
<1>6. \A s \in ids : \A g, h \in [ids -> Nat] : (\A m \in dep[s] : g[m] = h[m]) => step[s][g] = step[s][h]
  OBVIOUS
<1>7. Guided(ids, Nat, rank, dep, step)
  <2> HIDE DEF rank, dep, step, ids
  <2>1. Nat # {}
    OBVIOUS
  <2> QED
    BY <1>1, <1>2, <1>3, <1>5, <1>6, <2>1 DEF Guided
<1>8. PICK it \in [ids -> Nat] : \A s \in ids : it[s] = step[s][it]
  <2> HIDE DEF ids, rank, dep, step
  <2> QED
    BY <1>7, Recursion
<1>9. Adds(it, f, bad, S)
  <2>1. \A s \in SUBSET S : it[s] = IF s = {} THEN 0 ELSE Weight(f, bad, Chosen(s)) + it[s \ {Chosen(s)}]
    <3>1. \A s \in ids : step[s][it] = IF s = {} THEN 0 ELSE Weight(f, bad, Chosen(s)) + it[s \ {Chosen(s)}]
      OBVIOUS
    <3> HIDE DEF step
    <3> QED
      BY <1>8, <3>1
  <2>2. it = [s \in SUBSET S |-> it[s]]
    BY <1>8
  <2> QED
    BY <2>1, <2>2, Zenon DEF Adds
<1> QED
  BY <1>9

LEMMA TotalPositive ==
  ASSUME NEW S, IsFiniteSet(S), NEW f, \A c \in S : f[c] \in Nat, NEW bad
  PROVE  /\ Total(f, bad, S) \in Nat
         /\ Total(f, bad, S) > 0 <=> \E c \in S : c \in bad \/ f[c] > 0
<1> DEFINE it == CHOOSE g : Adds(g, f, bad, S)
           Right(s) == it[s] \in Nat /\ (it[s] > 0 <=> \E c \in s : c \in bad \/ f[c] > 0)
           Wrong == {s \in SUBSET S : ~ Right(s)}
<1>1. Adds(it, f, bad, S)
  BY AddsExists
<1>2. \A s \in SUBSET S : it[s] = IF s = {} THEN 0 ELSE Weight(f, bad, Chosen(s)) + it[s \ {Chosen(s)}]
  <2> HIDE DEF it
  <2> QED
    BY <1>1 DEF Adds
<1> HIDE DEF it
<1>3. Wrong = {}
  <2> SUFFICES ASSUME Wrong # {} PROVE FALSE
    OBVIOUS
  <2> DEFINE size == [s \in SUBSET S |-> Cardinality(s)]
  <2>1. \A s \in SUBSET S : IsFiniteSet(s) /\ size[s] = Cardinality(s) /\ size[s] \in Nat
    BY FS_Subset, FS_CardinalityType
  <2>2. Wrong \subseteq SUBSET S
    OBVIOUS
  <2>3. PICK s \in Wrong : \A r \in Wrong : size[s] <= size[r]
    <3> HIDE DEF Wrong, size
    <3> QED
      BY <2>1, <2>2, LeastOf
  <2>4. s \in SUBSET S /\ ~ Right(s)
    BY <2>3
  <2>5. s # {}
    BY <1>2, <2>4
  <2> DEFINE c == Chosen(s)
             r == s \ {c}
  <2>6. c \in s /\ c \in S
    BY <2>4, <2>5, ChosenIn
  <2>7. r \in SUBSET S /\ size[r] = size[s] - 1
    <3>1. Cardinality(s \ {c}) = Cardinality(s) - 1
      BY <2>1, <2>4, <2>6, FS_RemoveElement
    <3> HIDE DEF size, c
    <3> QED
      BY <2>1, <2>4, <3>1
  <2> HIDE DEF c
  <2>8. Right(r)
    <3>1. ~ (size[s] <= size[r])
      <4> HIDE DEF size, r
      <4> QED
        BY <2>1, <2>4, <2>7
    <3>2. r \notin Wrong
      <4> HIDE DEF Wrong, size, r
      <4> QED
        BY <2>3, <3>1
    <3> QED
      BY <2>7, <3>2
  <2>9. it[s] = Weight(f, bad, c) + it[r]
    BY <1>2, <2>4, <2>5 DEF c
  <2>10. Weight(f, bad, c) \in Nat /\ (Weight(f, bad, c) > 0 <=> c \in bad \/ f[c] > 0)
    BY <2>6 DEF Weight
  <2>11. it[s] \in Nat /\ (it[s] > 0 <=> (Weight(f, bad, c) > 0 \/ it[r] > 0))
    <3>1. it[r] \in Nat
      BY <2>8
    <3> HIDE DEF r
    <3> QED
      BY <2>9, <2>10, <3>1
  <2>12. (\E d \in s : d \in bad \/ f[d] > 0) <=> (c \in bad \/ f[c] > 0) \/ \E d \in r : d \in bad \/ f[d] > 0
    BY <2>6, Zenon
  <2>13. it[r] > 0 <=> \E d \in r : d \in bad \/ f[d] > 0
    BY <2>8
  <2> QED
    BY <2>4, <2>10, <2>11, <2>12, <2>13
<1>4. Right(S)
  BY <1>3
<1> QED
  BY <1>4, TotalIsChosen DEF it

LEMMA TotalAgrees ==
  ASSUME NEW S, NEW f, NEW g, NEW bad, \A c \in S : f[c] = g[c]
  PROVE  Total(f, bad, S) = Total(g, bad, S)
<1>1. ASSUME NEW s \in SUBSET S, s # {} PROVE Weight(f, bad, Chosen(s)) = Weight(g, bad, Chosen(s))
  BY <1>1, ChosenIn DEF Weight
<1>2. ASSUME NEW it PROVE Adds(it, f, bad, S) <=> Adds(it, g, bad, S)
  <2> DEFINE F == [s \in SUBSET S |-> IF s = {} THEN 0 ELSE Weight(f, bad, Chosen(s)) + it[s \ {Chosen(s)}]]
             G == [s \in SUBSET S |-> IF s = {} THEN 0 ELSE Weight(g, bad, Chosen(s)) + it[s \ {Chosen(s)}]]
  <2>1. F = G
    BY <1>1
  <2> QED
    BY <2>1 DEF Adds
<1>3. (CHOOSE it : Adds(it, f, bad, S)) = (CHOOSE it : Adds(it, g, bad, S))
  BY <1>2, Zenon
<1> QED
  BY <1>3, TotalIsChosen

(***************************************************************************)
(* The trees that a trace sends.  A trace is orderly when its spans finish *)
(* in an order fin in which a span finishes before its parent and after    *)
(* its lineage sources: then every recursion of the engine, up to the root *)
(* or down to the leaves, is well founded.                                 *)
(***************************************************************************)

Orderly(T, fin, b) ==
  /\ IsFiniteSet(T.ids)
  /\ Bad(T) \subseteq T.ids
  /\ b \in Nat /\ fin \in [T.ids -> 0 .. b]
  /\ \A n \in T.ids : ~ IsRoot(T, n) => fin[n] < fin[T.parent[n]]
  /\ \A n \in T.ids : \A m \in T.sources[n] \cap T.ids : fin[m] < fin[n]

Steps(T, V, next) == next \in [T.ids -> [V -> V]]
Descends(T, f, base, next) ==
  \A n \in T.ids : f[n] = IF IsRoot(T, n) THEN base ELSE next[n][f[T.parent[n]]]

(* A recursion from the root down to the spans has a solution.             *)
LEMMA TopDown ==
  ASSUME NEW T, NEW fin, NEW b, Orderly(T, fin, b),
         NEW V, NEW base \in V, NEW next, Steps(T, V, next)
  PROVE  \E f \in [T.ids -> V] : Descends(T, f, base, next)
<1> USE DEF Steps, Descends
<1> DEFINE ids == T.ids
           rank == [n \in ids |-> b - fin[n]]
           dep == [n \in ids |-> {T.parent[n]} \cap ids]
           step == [n \in ids |-> [f \in [ids -> V] |->
                      IF IsRoot(T, n) THEN base ELSE next[n][f[T.parent[n]]]]]
<1>1. \A n \in ids : ~ IsRoot(T, n) <=> T.parent[n] \in ids
  BY DEF IsRoot
<1>2. rank \in [ids -> Nat]
  BY DEF Orderly
<1>3. dep \in [ids -> SUBSET ids]
  OBVIOUS
<1>4. ASSUME NEW n \in ids, NEW m \in dep[n] PROVE rank[m] < rank[n]
  <2>1. m \in ids /\ fin[n] \in 0 .. b /\ fin[m] \in 0 .. b /\ fin[n] < fin[m] /\ b \in Nat
    BY <1>1 DEF Orderly
  <2> QED
    BY <2>1
<1>5. step \in [ids -> [[ids -> V] -> V]]
  BY <1>1
<1>6. \A n \in ids : \A f, g \in [ids -> V] : (\A m \in dep[n] : f[m] = g[m]) => step[n][f] = step[n][g]
  BY <1>1
<1>7. Guided(ids, V, rank, dep, step)
  <2> HIDE DEF rank, dep, step, ids
  <2> QED
    BY <1>2, <1>3, <1>4, <1>5, <1>6 DEF Guided
<1>8. PICK f \in [ids -> V] : \A n \in ids : f[n] = step[n][f]
  <2> HIDE DEF ids, rank, dep, step
  <2> QED
    BY <1>7, Recursion
<1> QED
  BY <1>8

LEMMA DepthUnfolds ==
  ASSUME NEW T, NEW fin, NEW b, Orderly(T, fin, b)
  PROVE  \A n \in T.ids : Depth(T)[n] = IF IsRoot(T, n) THEN 0 ELSE 1 + Depth(T)[T.parent[n]]
<1> DEFINE Is(f) == f = [n \in T.ids |-> IF IsRoot(T, n) THEN 0 ELSE 1 + f[T.parent[n]]]
           next == [n \in T.ids |-> [d \in Nat |-> 1 + d]]
<1>1. Steps(T, Nat, next) /\ 0 \in Nat
  BY DEF Steps
<1>2. PICK f \in [T.ids -> Nat] : Descends(T, f, 0, next)
  <2> HIDE DEF next
  <2> QED
    BY <1>1, TopDown
<1>3. \A n \in T.ids : f[n] = IF IsRoot(T, n) THEN 0 ELSE 1 + f[T.parent[n]]
  BY <1>2 DEF IsRoot, Descends
<1>4. f = [n \in T.ids |-> f[n]]
  BY <1>2
<1>5. Is(f)
  BY <1>3, <1>4, Zenon
<1>6. Depth(T) = CHOOSE g : Is(g)
  BY Zenon DEF Depth
<1>7. Is(Depth(T))
  <2> HIDE DEF Is
  <2> QED
    BY <1>5, <1>6
<1> QED
  BY <1>7

LEMMA DepthBounded ==
  ASSUME NEW T, NEW fin, NEW b, Orderly(T, fin, b), NEW n \in T.ids
  PROVE  Depth(T)[n] \in 0 .. b
<1> DEFINE rank == [m \in T.ids |-> b - fin[m]]
           Wrong == {m \in T.ids : ~ (Depth(T)[m] \in Nat /\ Depth(T)[m] <= rank[m])}
<1>1. \A m \in T.ids : rank[m] \in 0 .. b /\ (~ IsRoot(T, m) => T.parent[m] \in T.ids /\ rank[T.parent[m]] < rank[m])
  <2> SUFFICES ASSUME NEW m \in T.ids
               PROVE  rank[m] \in 0 .. b /\ (~ IsRoot(T, m) => T.parent[m] \in T.ids /\ rank[T.parent[m]] < rank[m])
    OBVIOUS
  <2>1. b \in Nat /\ \A l \in T.ids : fin[l] \in 0 .. b
    BY DEF Orderly
  <2>2. ~ IsRoot(T, m) => T.parent[m] \in T.ids /\ fin[m] < fin[T.parent[m]]
    BY DEF IsRoot, Orderly
  <2> QED
    BY <2>1, <2>2
<1>2. Wrong = {}
  <2> SUFFICES ASSUME Wrong # {} PROVE FALSE
    OBVIOUS
  <2>1. b \in Nat
    BY DEF Orderly
  <2>2. PICK m \in Wrong : \A l \in Wrong : rank[m] <= rank[l]
    <3>1. \A l \in Wrong : rank[l] \in Nat
      BY <1>1, <2>1
    <3> HIDE DEF Wrong, rank
    <3> QED
      BY <3>1, LeastOf
  <2>3. m \in T.ids /\ ~ (Depth(T)[m] \in Nat /\ Depth(T)[m] <= rank[m])
    BY <2>2
  <2> DEFINE p == T.parent[m]
  <2>4. CASE IsRoot(T, m)
    BY <1>1, <2>1, <2>3, <2>4, DepthUnfolds
  <2>5. CASE ~ IsRoot(T, m)
    <3>1. p \in T.ids /\ rank[p] \in 0 .. b /\ rank[m] \in 0 .. b /\ rank[p] < rank[m]
      BY <1>1, <2>3, <2>5
    <3>2. Depth(T)[m] = 1 + Depth(T)[p]
      BY <2>3, <2>5, DepthUnfolds
    <3>3. ~ (rank[m] <= rank[p])
      <4> HIDE DEF rank
      <4> QED
        BY <2>1, <3>1
    <3>4. p \notin Wrong
      <4> HIDE DEF Wrong, rank
      <4> QED
        BY <2>2, <3>3
    <3>5. Depth(T)[p] \in Nat /\ Depth(T)[p] <= rank[p]
      BY <3>1, <3>4
    <3> HIDE DEF rank
    <3> QED
      BY <2>1, <2>3, <3>1, <3>2, <3>5
  <2> QED
    BY <2>4, <2>5
<1>3. Depth(T)[n] \in Nat /\ Depth(T)[n] <= rank[n]
  BY <1>2
<1>4. rank[n] \in 0 .. b /\ b \in Nat
  BY <1>1 DEF Orderly
<1> HIDE DEF rank
<1> QED
  BY <1>3, <1>4

(***************************************************************************)
(* Ancestors.  What only climbs or only descends comes to an end; Above(T, *)
(* n) is the path from n to its root, in the order of finishing.           *)
(***************************************************************************)

(* No nonempty set of spans is closed under the parent,                    *)
LEMMA ClimbingEnds ==
  ASSUME NEW T, NEW fin, NEW b, Orderly(T, fin, b), NEW W \in SUBSET T.ids,
         \A n \in W : T.parent[n] \in W
  PROVE  W = {}
<1> DEFINE rank == [n \in T.ids |-> b - fin[n]]
<1> SUFFICES ASSUME W # {} PROVE FALSE
  OBVIOUS
<1>1. \A n \in W : rank[n] \in Nat
  BY DEF Orderly
<1>2. PICK n \in W : \A m \in W : rank[n] <= rank[m]
  <2> HIDE DEF rank
  <2> QED
    BY <1>1, LeastOf
<1>3. T.parent[n] \in W /\ T.parent[n] \in T.ids /\ n \in T.ids
  OBVIOUS
<1>4. fin[n] < fin[T.parent[n]] /\ fin[n] \in 0 .. b /\ fin[T.parent[n]] \in 0 .. b /\ b \in Nat
  BY <1>3 DEF Orderly, IsRoot
<1>5. rank[n] = b - fin[n] /\ rank[T.parent[n]] = b - fin[T.parent[n]]
  BY <1>3
<1>6. rank[n] <= rank[T.parent[n]]
  BY <1>2, <1>3
<1> HIDE DEF rank
<1> QED
  BY <1>4, <1>5, <1>6

(* and none holds a child of each of its members.                          *)
LEMMA DescendingEnds ==
  ASSUME NEW T, NEW fin, NEW b, Orderly(T, fin, b), NEW W \in SUBSET T.ids,
         \A n \in W : \E c \in ChildrenOf(T, n) : c \in W
  PROVE  W = {}
<1> SUFFICES ASSUME W # {} PROVE FALSE
  OBVIOUS
<1>1. \A n \in W : fin[n] \in Nat
  BY DEF Orderly
<1>2. PICK n \in W : \A m \in W : fin[n] <= fin[m]
  BY <1>1, LeastOf
<1>3. PICK c \in ChildrenOf(T, n) : c \in W
  OBVIOUS
<1>4. c \in T.ids /\ T.parent[c] = n /\ n \in T.ids
  BY <1>3 DEF ChildrenOf
<1>5. fin[c] < fin[n] /\ fin[n] \in 0 .. b /\ fin[c] \in 0 .. b
  BY <1>4 DEF Orderly, IsRoot
<1> QED
  BY <1>2, <1>3, <1>5

LEMMA AboveUnfolds ==
  ASSUME NEW T, NEW n \in T.ids
  PROVE  /\ Above(T, n) \subseteq T.ids
         /\ IsRoot(T, n) => Above(T, n) = {n}
         /\ ~ IsRoot(T, n) => Above(T, n) = {n} \cup Above(T, T.parent[n])
<1> USE DEF Above, IsRoot
<1>1. Above(T, n) \subseteq T.ids
  OBVIOUS
<1>2. n \in Above(T, n)
  <2> DEFINE P == {n}
  <2>1. P \in SUBSET T.ids /\ n \in P /\ \A p \in P \ {n} : T.parent[p] \in P
    OBVIOUS
  <2> QED
    BY <2>1
<1>3. ASSUME NEW m \in Above(T, n), m # n PROVE ~ IsRoot(T, n) /\ m \in Above(T, T.parent[n])
  <2>1. PICK P \in SUBSET T.ids : m \in P /\ n \in P /\ \A p \in P \ {m} : T.parent[p] \in P
    OBVIOUS
  <2>2. T.parent[n] \in P
    BY <1>3, <2>1
  <2> QED
    BY <2>1, <2>2
<1>4. ASSUME ~ IsRoot(T, n), NEW m \in Above(T, T.parent[n]) PROVE m \in Above(T, n)
  <2>1. PICK P \in SUBSET T.ids : m \in P /\ T.parent[n] \in P /\ \A p \in P \ {m} : T.parent[p] \in P
    OBVIOUS
  <2> DEFINE Q == P \cup {n}
  <2>2. Q \in SUBSET T.ids /\ m \in Q /\ n \in Q /\ \A p \in Q \ {m} : T.parent[p] \in Q
    BY <2>1
  <2> QED
    BY <2>1, <2>2
<1> HIDE DEF Above
<1> QED
  BY <1>1, <1>2, <1>3, <1>4

LEMMA AboveIsLater ==
  ASSUME NEW T, NEW fin, NEW b, Orderly(T, fin, b), NEW n \in T.ids, NEW m \in Above(T, n)
  PROVE  fin[n] <= fin[m] /\ (m # n => fin[n] < fin[m])
<1> DEFINE W == {q \in T.ids : m \in Above(T, q) /\ q # m /\ ~ (fin[q] < fin[m])}
<1>1. m \in T.ids /\ \A q \in T.ids : fin[q] \in Nat
  BY AboveUnfolds DEF Orderly
<1>2. ASSUME NEW q \in W PROVE T.parent[q] \in W
  <2>1. ~ IsRoot(T, q) /\ m \in Above(T, T.parent[q]) /\ T.parent[q] \in T.ids
    BY AboveUnfolds DEF IsRoot
  <2>2. fin[q] < fin[T.parent[q]]
    BY <2>1 DEF Orderly
  <2>3. T.parent[q] # m /\ ~ (fin[T.parent[q]] < fin[m])
    BY <1>1, <2>1, <2>2
  <2> QED
    BY <2>1, <2>3
<1>3. W = {}
  <2>1. W \in SUBSET T.ids
    OBVIOUS
  <2> HIDE DEF W
  <2> QED
    BY <1>2, <2>1, ClimbingEnds
<1>4. m # n => fin[n] < fin[m]
  BY <1>3
<1> QED
  BY <1>1, <1>4

LEMMA AboveIsTransitive ==
  ASSUME NEW T, NEW fin, NEW b, Orderly(T, fin, b), NEW n \in T.ids,
         NEW m \in Above(T, n), NEW l \in Above(T, m)
  PROVE  l \in Above(T, n)
<1> DEFINE W == {q \in T.ids : m \in Above(T, q) /\ l \notin Above(T, q)}
<1>1. ASSUME NEW q \in W PROVE T.parent[q] \in W
  <2>1. ~ IsRoot(T, q) /\ m \in Above(T, T.parent[q]) /\ T.parent[q] \in T.ids
    BY AboveUnfolds DEF IsRoot
  <2>2. l \notin Above(T, T.parent[q])
    BY <2>1, AboveUnfolds
  <2> QED
    BY <2>1, <2>2
<1>2. W = {}
  <2>1. W \in SUBSET T.ids
    OBVIOUS
  <2> HIDE DEF W
  <2> QED
    BY <1>1, <2>1, ClimbingEnds
<1> QED
  BY <1>2

(* Pass 3: the recursive count of the bad spans below exists,              *)
LEMMA BelowCounts ==
  ASSUME NEW T, NEW fin, NEW b, Orderly(T, fin, b)
  PROVE  \E count : /\ BadBelow(T) = {n \in T.ids : count[n] > 0}
                    /\ \A n \in T.ids : count[n] = Total(count, Bad(T), ChildrenOf(T, n))
<1> DEFINE ids == T.ids
           Is(f) == f = [n \in ids |-> Total(f, Bad(T), ChildrenOf(T, n))]
           dep == [n \in ids |-> ChildrenOf(T, n)]
           step == [n \in ids |-> [f \in [ids -> Nat] |-> Total(f, Bad(T), ChildrenOf(T, n))]]
<1>1. \A n \in ids : IsFiniteSet(ChildrenOf(T, n)) /\ ChildrenOf(T, n) \in SUBSET ids
  BY FS_Subset DEF ChildrenOf, Orderly
<1>2. fin \in [ids -> Nat]
  BY DEF Orderly
<1>3. dep \in [ids -> SUBSET ids]
  BY <1>1
<1>4. \A n \in ids : \A m \in dep[n] : fin[m] < fin[n]
  BY DEF ChildrenOf, Orderly, IsRoot
<1>5. ASSUME NEW n \in ids, NEW f \in [ids -> Nat]
      PROVE  Total(f, Bad(T), ChildrenOf(T, n)) \in Nat
  <2>1. \A c \in ChildrenOf(T, n) : f[c] \in Nat
    BY <1>1
  <2> QED
    BY <1>1, <2>1, TotalPositive
<1>6. step \in [ids -> [[ids -> Nat] -> Nat]]
  BY <1>5
<1>7. ASSUME NEW n \in ids, NEW f \in [ids -> Nat], NEW g \in [ids -> Nat], \A m \in dep[n] : f[m] = g[m]
      PROVE  step[n][f] = step[n][g]
  <2>1. \A m \in ChildrenOf(T, n) : f[m] = g[m]
    BY <1>7
  <2>2. Total(f, Bad(T), ChildrenOf(T, n)) = Total(g, Bad(T), ChildrenOf(T, n))
    BY <2>1, TotalAgrees
  <2> QED
    BY <2>2
<1>8. Guided(ids, Nat, fin, dep, step)
  <2>1. Nat # {}
    OBVIOUS
  <2> HIDE DEF dep, step, ids
  <2> QED
    BY <1>2, <1>3, <1>4, <1>6, <1>7, <2>1 DEF Guided
<1>9. PICK f \in [ids -> Nat] : \A n \in ids : f[n] = step[n][f]
  <2> HIDE DEF ids, dep, step
  <2> QED
    BY <1>8, Recursion
<1>10. Is(f)
  <2>1. \A n \in ids : f[n] = Total(f, Bad(T), ChildrenOf(T, n))
    BY <1>9
  <2>2. f = [n \in ids |-> f[n]]
    BY <1>9
  <2> QED
    BY <2>1, <2>2, Zenon
<1> DEFINE count == CHOOSE g : Is(g)
<1>11. BadBelow(T) = {n \in ids : count[n] > 0}
  BY Zenon DEF BadBelow, Total
<1>12. Is(count)
  <2> HIDE DEF Is
  <2> QED
    BY <1>10
<1>13. \A n \in T.ids : count[n] = Total(count, Bad(T), ChildrenOf(T, n))
  <2> HIDE DEF count
  <2> QED
    BY <1>12
<1> QED
  BY <1>11, <1>13

LEMMA BelowUnfolds ==
  ASSUME NEW T, NEW fin, NEW b, Orderly(T, fin, b), NEW n \in T.ids
  PROVE  n \in BadBelow(T) <=> \E c \in ChildrenOf(T, n) : c \in Bad(T) \/ c \in BadBelow(T)
<1>1. PICK count : /\ BadBelow(T) = {m \in T.ids : count[m] > 0}
                   /\ \A m \in T.ids : count[m] = Total(count, Bad(T), ChildrenOf(T, m))
  BY BelowCounts
<1> DEFINE W == {m \in T.ids : count[m] \notin Nat}
<1>2. \A m \in T.ids : IsFiniteSet(ChildrenOf(T, m)) /\ ChildrenOf(T, m) \in SUBSET T.ids
  BY FS_Subset DEF ChildrenOf, Orderly
<1>3. ASSUME NEW m \in T.ids, \A c \in ChildrenOf(T, m) : count[c] \in Nat
      PROVE  count[m] \in Nat /\ (count[m] > 0 <=> \E c \in ChildrenOf(T, m) : c \in Bad(T) \/ count[c] > 0)
  <2>1. IsFiniteSet(ChildrenOf(T, m)) /\ count[m] = Total(count, Bad(T), ChildrenOf(T, m))
    BY <1>1, <1>2
  <2> QED
    BY <1>3, <2>1, TotalPositive
<1>4. W = {}
  <2>1. \A m \in W : \E c \in ChildrenOf(T, m) : c \in W
    BY <1>2, <1>3
  <2>2. W \in SUBSET T.ids
    OBVIOUS
  <2> HIDE DEF W
  <2> QED
    BY <2>1, <2>2, DescendingEnds
<1>5. \A m \in T.ids : count[m] \in Nat
  BY <1>4
<1>6. count[n] > 0 <=> \E c \in ChildrenOf(T, n) : c \in Bad(T) \/ count[c] > 0
  BY <1>2, <1>3, <1>5
<1> QED
  BY <1>1, <1>2, <1>6

(* and BadBelow is the spans that are above a bad span.                    *)
LEMMA BelowIsUnder ==
  ASSUME NEW T, NEW fin, NEW b, Orderly(T, fin, b), NEW n \in T.ids
  PROVE  n \in BadBelow(T) <=> \E m \in Bad(T) \ {n} : n \in Above(T, m)
<1>0. Bad(T) \subseteq T.ids /\ \A q \in T.ids : fin[q] \in Nat
  BY DEF Orderly
<1>1. ASSUME n \in BadBelow(T) PROVE \E m \in Bad(T) \ {n} : n \in Above(T, m)
  <2> DEFINE W == {q \in T.ids : q \in BadBelow(T) /\ \A m \in Bad(T) \ {q} : q \notin Above(T, m)}
  <2>1. ASSUME NEW q \in W PROVE \E c \in ChildrenOf(T, q) : c \in W
    <3>1. PICK c \in ChildrenOf(T, q) : c \in Bad(T) \/ c \in BadBelow(T)
      BY BelowUnfolds
    <3>2. c \in T.ids /\ ~ IsRoot(T, c) /\ T.parent[c] = q /\ q \in T.ids
      BY <3>1 DEF ChildrenOf, IsRoot
    <3>3. q \in Above(T, c)
      BY <3>2, AboveUnfolds
    <3>4. fin[c] < fin[q]
      BY <3>2 DEF Orderly
    <3>5. c \notin Bad(T)
      BY <1>0, <3>2, <3>3, <3>4
    <3>6. ASSUME NEW m \in Bad(T) \ {c}, c \in Above(T, m) PROVE FALSE
      <4>1. m \in T.ids /\ q \in Above(T, m) /\ fin[m] < fin[c]
        BY <1>0, <3>3, <3>6, AboveIsTransitive, AboveIsLater
      <4>2. m # q
        BY <1>0, <3>2, <3>4, <4>1
      <4> QED
        BY <3>6, <4>1, <4>2
    <3> QED
      BY <3>1, <3>2, <3>5, <3>6
  <2>2. W = {}
    <3>1. W \in SUBSET T.ids
      OBVIOUS
    <3> HIDE DEF W
    <3> QED
      BY <2>1, <3>1, DescendingEnds
  <2> QED
    BY <1>1, <2>2
<1>2. ASSUME NEW m \in Bad(T) \ {n}, n \in Above(T, m), n \notin BadBelow(T) PROVE FALSE
  <2> DEFINE W == {q \in T.ids : q # n /\ n \in Above(T, q) /\ (q \in Bad(T) \/ q \in BadBelow(T))}
  <2>1. ASSUME NEW q \in W PROVE T.parent[q] \in W
    <3>1. ~ IsRoot(T, q) /\ n \in Above(T, T.parent[q]) /\ T.parent[q] \in T.ids
      BY AboveUnfolds DEF IsRoot
    <3>2. q \in ChildrenOf(T, T.parent[q])
      BY DEF ChildrenOf
    <3>3. T.parent[q] \in BadBelow(T)
      BY <3>1, <3>2, BelowUnfolds
    <3> QED
      BY <1>2, <3>1, <3>3
  <2>2. W = {}
    <3>1. W \in SUBSET T.ids
      OBVIOUS
    <3> HIDE DEF W
    <3> QED
      BY <2>1, <3>1, ClimbingEnds
  <2> QED
    BY <1>0, <1>2, <2>2
<1> QED
  BY <1>1, <1>2

(***************************************************************************)
(* Pass 3 and pass 4: what is passed on from above never reaches a bad     *)
(* span, so the roles of bad spans depend on Bad, BadBelow and Givers      *)
(* alone. Where no span has introduced the failure, the bad span that      *)
(* finished first is an originator.                                        *)
(***************************************************************************)

(* Pass 4: the recursion of what is passed on to the children exists.      *)
LEMMA PassedUnfolds ==
  ASSUME NEW T, NEW fin, NEW b, Orderly(T, fin, b)
  PROVE  \E passed : /\ FromAbove(T) = {n \in T.ids : passed[n]}
                     /\ \A n \in T.ids : passed[n] =
                          IF IsRoot(T, n) THEN FALSE
                          ELSE PassesOn(Bad(T), BadBelow(T), T.parent[n], passed[T.parent[n]])
<1> DEFINE Is(f) == f = [n \in T.ids |->
                          IF IsRoot(T, n) THEN FALSE
                          ELSE PassesOn(Bad(T), BadBelow(T), T.parent[n], f[T.parent[n]])]
           next == [n \in T.ids |-> [a \in BOOLEAN |-> PassesOn(Bad(T), BadBelow(T), T.parent[n], a)]]
<1>1. Steps(T, BOOLEAN, next) /\ FALSE \in BOOLEAN
  BY DEF Steps, PassesOn
<1>2. PICK f \in [T.ids -> BOOLEAN] : Descends(T, f, FALSE, next)
  <2> HIDE DEF next
  <2> QED
    BY <1>1, TopDown
<1>3. \A n \in T.ids : f[n] = IF IsRoot(T, n) THEN FALSE
                              ELSE PassesOn(Bad(T), BadBelow(T), T.parent[n], f[T.parent[n]])
  <2> SUFFICES ASSUME NEW n \in T.ids
               PROVE  f[n] = IF IsRoot(T, n) THEN FALSE
                             ELSE PassesOn(Bad(T), BadBelow(T), T.parent[n], f[T.parent[n]])
    OBVIOUS
  <2>1. ~ IsRoot(T, n) => f[T.parent[n]] \in BOOLEAN
    BY DEF IsRoot
  <2>2. \A a \in BOOLEAN : next[n][a] = PassesOn(Bad(T), BadBelow(T), T.parent[n], a)
    OBVIOUS
  <2>3. f[n] = IF IsRoot(T, n) THEN FALSE ELSE next[n][f[T.parent[n]]]
    BY <1>2 DEF Descends
  <2> HIDE DEF next
  <2> QED
    BY <2>1, <2>2, <2>3
<1>4. f = [n \in T.ids |-> f[n]]
  BY <1>2
<1>5. Is(f)
  BY <1>3, <1>4, Zenon
<1> DEFINE passed == CHOOSE g : Is(g)
<1>6. FromAbove(T) = {n \in T.ids : passed[n]}
  BY Zenon DEF FromAbove
<1>7. Is(passed)
  <2> HIDE DEF Is
  <2> QED
    BY <1>5
<1>8. \A n \in T.ids : passed[n] = IF IsRoot(T, n) THEN FALSE
                                   ELSE PassesOn(Bad(T), BadBelow(T), T.parent[n], passed[T.parent[n]])
  <2> HIDE DEF passed
  <2> QED
    BY <1>7
<1> QED
  BY <1>6, <1>8

(* What is above a bad span has a bad span below it and passes on no more  *)
(* than it was passed, so no bad span is passed a failure from above.      *)
LEMMA BadIsNotFromAbove ==
  ASSUME NEW T, NEW fin, NEW b, Orderly(T, fin, b)
  PROVE  Bad(T) \cap FromAbove(T) = {}
<1>1. PICK passed : /\ FromAbove(T) = {n \in T.ids : passed[n]}
                    /\ \A n \in T.ids : passed[n] =
                         IF IsRoot(T, n) THEN FALSE
                         ELSE PassesOn(Bad(T), BadBelow(T), T.parent[n], passed[T.parent[n]])
  BY PassedUnfolds
<1> DEFINE W == {n \in T.ids : n \in Bad(T) \cup BadBelow(T) /\ passed[n]}
<1>2. ASSUME NEW n \in W PROVE T.parent[n] \in W
  <2>1. ~ IsRoot(T, n)
    BY <1>1
  <2> DEFINE p == T.parent[n]
  <2>2. p \in T.ids /\ n \in ChildrenOf(T, p)
    BY <2>1 DEF IsRoot, ChildrenOf
  <2>3. p \in BadBelow(T)
    BY <2>2, BelowUnfolds
  <2>4. PassesOn(Bad(T), BadBelow(T), p, passed[p])
    BY <1>1, <2>1
  <2>5. passed[p]
    BY <2>3, <2>4, Zenon DEF PassesOn
  <2> QED
    BY <2>2, <2>3, <2>5
<1>3. W = {}
  <2>1. W \in SUBSET T.ids
    OBVIOUS
  <2> HIDE DEF W
  <2> QED
    BY <1>2, <2>1, ClimbingEnds
<1> QED
  BY <1>1, <1>3

LEMMA RolesAre ==
  ASSUME NEW T, NEW fin, NEW b, Orderly(T, fin, b)
  PROVE  /\ Roles(T).originator = {n \in Bad(T) \ BadBelow(T) : Givers(T, n) = {}}
         /\ Roles(T).propagator = Bad(T) \cap BadBelow(T)
         /\ Roles(T).manifestor = {n \in Bad(T) \ BadBelow(T) : Givers(T, n) # {}}
         /\ Failing(T, Roles(T)) = Bad(T)
<1>1. /\ Roles(T).originator = {n \in Bad(T) \ BadBelow(T) : Givers(T, n) = {}}
      /\ Roles(T).propagator = Bad(T) \cap BadBelow(T)
      /\ Roles(T).manifestor = {n \in Bad(T) \ BadBelow(T) : Givers(T, n) # {}}
  BY BadIsNotFromAbove DEF Roles
<1> QED
  BY <1>1 DEF Failing

(* The bad span that finished first has no bad span below it, and the      *)
(* sources it was given finished before it, so none of them is bad.        *)
LEMMA TraceFounded ==
  ASSUME NEW T, NEW fin, NEW b, Orderly(T, fin, b), Bad(T) # {}
  PROVE  Founded(T, Roles(T))
<1> SUFFICES ASSUME \A n \in T.ids : Introducers(T, n) = {} PROVE Roles(T).originator # {}
  BY DEF Founded
<1>1. Bad(T) \subseteq T.ids /\ \A n \in Bad(T) : fin[n] \in Nat
  BY DEF Orderly
<1>2. PICK n \in Bad(T) : \A m \in Bad(T) : fin[n] <= fin[m]
  BY <1>1, LeastOf
<1>3. n \notin BadBelow(T)
  <2> SUFFICES ASSUME NEW m \in Bad(T) \ {n}, n \in Above(T, m) PROVE FALSE
    BY <1>1, BelowIsUnder
  <2>1. fin[m] < fin[n]
    BY <1>1, AboveIsLater
  <2> QED
    BY <1>1, <1>2, <2>1
<1>4. Feeders(T, n) = {}
  <2> SUFFICES ASSUME NEW m \in Feeders(T, n) PROVE FALSE
    OBVIOUS
  <2>1. m \in Bad(T) /\ fin[m] < fin[n]
    BY <1>1 DEF Feeders, Orderly
  <2> QED
    BY <1>1, <1>2, <2>1
<1>5. Givers(T, n) = {}
  BY <1>1, <1>4 DEF Givers
<1> QED
  BY <1>3, <1>5, RolesAre

(* What the depth adds to a score, and what the kind of failure adds.      *)
Placing(T, n) ==
  LET deepest == Max({Depth(T)[m] : m \in T.ids})
  IN  IF deepest = 0 THEN 42 ELSE (84 * Depth(T)[n]) \div deepest

(* The quotient of a depth by the depth of the deepest.                    *)
LEMMA QuotientBounded ==
  ASSUME NEW d \in Nat, NEW e \in Nat, d <= e, e # 0
  PROVE  (84 * d) \div e \in 0 .. 84
<1> DEFINE q == (84 * d) \div e
<1>1. 84 * d \in Nat
  OBVIOUS
<1>2. q \in Int /\ e * q <= 84 * d /\ 84 * d < e * q + e
  BY <1>1
<1> HIDE DEF q
<1>3. q <= 84
  BY <1>2
<1>4. q >= 0
  BY <1>2
<1> QED
  BY <1>2, <1>3, <1>4

LEMMA PlacingBounded ==
  ASSUME NEW T, NEW fin, NEW b, Orderly(T, fin, b), NEW n \in T.ids
  PROVE  Placing(T, n) \in 0 .. 84
<1> DEFINE S == {Depth(T)[m] : m \in T.ids}
<1>1. S \in SUBSET Nat /\ b \in Nat /\ (\A d \in S : d <= b) /\ Depth(T)[n] \in S
  <2>1. b \in Nat
    BY DEF Orderly
  <2>2. \A m \in T.ids : Depth(T)[m] \in 0 .. b
    BY DepthBounded
  <2> QED
    BY <2>1, <2>2
<1>2. Max(S) \in Nat /\ Depth(T)[n] \in Nat /\ Depth(T)[n] <= Max(S)
  <2> HIDE DEF S
  <2> QED
    BY <1>1, BoundedHasMax
<1>3. Placing(T, n) = IF Max(S) = 0 THEN 42 ELSE (84 * Depth(T)[n]) \div Max(S)
  BY DEF Placing
<1> HIDE DEF S
<1>4. Max(S) # 0 => (84 * Depth(T)[n]) \div Max(S) \in 0 .. 84
  BY <1>2, QuotientBounded
<1> QED
  BY <1>3, <1>4

KindNames == {"full", "dict", "text", "list"}
Failure(T, n) == IF n \in T.error \cup T.null THEN 240 ELSE Deviation[T.kind[n]]

LEMMA ScoreIs ==
  ASSUME NEW T, NEW roles, NEW first, NEW n \in T.ids
  PROVE  Score(T, roles, first)[n] =
           IF n \in Storms(T) \ first THEN 0
           ELSE Failure(T, n) + Worth(roles, n) + Placing(T, n) + T.signals[n]
BY DEF Score, Failure, Placing, Suppressed

Undisturbed(T) ==
  T.tight = {} /\ \A n \in T.ids : T.signals[n] = 0 /\ T.kind[n] \in KindNames

(* Without anomalies the worth of the roles outweighs what depth and the   *)
(* kind of failure add.                                                    *)
LEMMA TraceApportioned ==
  ASSUME NEW T, NEW fin, NEW b, Orderly(T, fin, b),
         Undisturbed(T)
  PROVE  Apportioned(T, Roles(T))
<1> DEFINE roles == Roles(T)
           score == Score(T, roles, {})
<1>0. Bad(T) \subseteq T.ids
  BY DEF Orderly
<1>1. ASSUME NEW n \in roles.originator \cup roles.manifestor, NEW m \in Bad(T), n \in Above(T, m)
      PROVE  n \in {m}
  <2>1. n \in T.ids /\ n \notin BadBelow(T)
    BY <1>0, RolesAre
  <2> QED
    BY <1>1, <2>1, BelowIsUnder
<1>2. \A n \in Bad(T) \ roles.propagator : n \in roles.manifestor <=> Givers(T, n) # {}
  BY RolesAre
<1>3. ASSUME NEW o \in roles.originator, NEW v \in roles.manifestor
      PROVE  score[o] > score[v]
  <2>1. /\ o \in T.ids /\ v \in T.ids /\ o \in Bad(T) /\ v \in Bad(T)
        /\ o \notin roles.propagator /\ o \notin roles.manifestor
        /\ v \notin roles.originator /\ v \notin roles.propagator
    <3>1. /\ o \in Bad(T) \ BadBelow(T) /\ Givers(T, o) = {}
          /\ v \in Bad(T) \ BadBelow(T) /\ Givers(T, v) # {}
      BY RolesAre
    <3> QED
      BY <1>0, <3>1, RolesAre
  <2>2. Storms(T) = {}
    BY DEF Storms, Undisturbed
  <2>3. /\ score[o] = Failure(T, o) + Worth(roles, o) + Placing(T, o)
        /\ score[v] = Failure(T, v) + Worth(roles, v) + Placing(T, v)
    <3>1. T.signals[o] = 0 /\ T.signals[v] = 0 /\ o \notin Storms(T) \ {} /\ v \notin Storms(T) \ {}
      BY <2>1, <2>2 DEF Undisturbed
    <3>2. /\ score[o] = Failure(T, o) + Worth(roles, o) + Placing(T, o) + T.signals[o]
          /\ score[v] = Failure(T, v) + Worth(roles, v) + Placing(T, v) + T.signals[v]
      <4> HIDE DEF roles
      <4> QED
        BY <2>1, <3>1, ScoreIs
    <3>3. Failure(T, o) \in Int /\ Failure(T, v) \in Int
      BY <2>1 DEF Failure, Deviation, KindNames, Undisturbed
    <3>4. Worth(roles, o) \in Int /\ Worth(roles, v) \in Int
      BY DEF Worth
    <3>5. Placing(T, o) \in Int /\ Placing(T, v) \in Int
      BY <2>1, PlacingBounded
    <3> HIDE DEF roles, score
    <3> QED
      BY <3>1, <3>2, <3>3, <3>4, <3>5
  <2>4. Worth(roles, o) = 420 /\ Worth(roles, v) = 84
    <3>1. o \in roles.originator /\ v \in roles.manifestor
      OBVIOUS
    <3> HIDE DEF roles
    <3> QED
      BY <2>1, <3>1 DEF Worth
  <2>5. Failure(T, o) \in 0 .. 240 /\ Failure(T, v) \in 0 .. 240
    BY <2>1 DEF Failure, Deviation, KindNames, Undisturbed
  <2>6. Placing(T, o) \in 0 .. 84 /\ Placing(T, v) \in 0 .. 84
    BY <2>1, PlacingBounded
  <2> HIDE DEF score, roles
  <2>7. /\ Failure(T, o) \in Nat /\ Placing(T, o) \in Nat
        /\ Failure(T, v) \in Nat /\ Placing(T, v) \in Nat
        /\ Failure(T, v) <= 240 /\ Placing(T, v) <= 84
    BY <2>5, <2>6
  <2> QED
    BY <2>3, <2>4, <2>7
<1> QED
  BY <1>1, <1>2, <1>3 DEF Apportioned

(***************************************************************************)
(* The chain and the causes that the report shows.                         *)
(***************************************************************************)

LEMMA ChainUnfolds ==
  ASSUME NEW T, NEW fin, NEW b, Orderly(T, fin, b), NEW roles
  PROVE  /\ FullChain(T, roles) \subseteq T.ids
         /\ \A n \in T.ids : n \in FullChain(T, roles) <=>
              n \in Failing(T, roles) \/ \E c \in ChildrenOf(T, n) : c \in FullChain(T, roles)
<1> DEFINE ids == T.ids
           Is(f) == f = [n \in ids |-> n \in Failing(T, roles) \/ \E c \in ChildrenOf(T, n) : f[c]]
           dep == [n \in ids |-> ChildrenOf(T, n)]
           step == [n \in ids |-> [f \in [ids -> BOOLEAN] |->
                      n \in Failing(T, roles) \/ \E c \in ChildrenOf(T, n) : f[c]]]
<1>1. fin \in [ids -> Nat]
  BY DEF Orderly
<1>2. dep \in [ids -> SUBSET ids]
  BY DEF ChildrenOf
<1>3. \A n \in ids : \A m \in dep[n] : fin[m] < fin[n]
  BY DEF ChildrenOf, Orderly, IsRoot
<1>4. step \in [ids -> [[ids -> BOOLEAN] -> BOOLEAN]]
  OBVIOUS
<1>5. ASSUME NEW n \in ids, NEW f \in [ids -> BOOLEAN], NEW g \in [ids -> BOOLEAN], \A m \in dep[n] : f[m] = g[m]
      PROVE  step[n][f] = step[n][g]
  <2>1. (\E c \in ChildrenOf(T, n) : f[c]) <=> \E c \in ChildrenOf(T, n) : g[c]
    BY <1>5
  <2> QED
    BY <2>1
<1>6. Guided(ids, BOOLEAN, fin, dep, step)
  <2>1. BOOLEAN # {}
    OBVIOUS
  <2> HIDE DEF dep, step, ids
  <2> QED
    BY <1>1, <1>2, <1>3, <1>4, <1>5, <2>1 DEF Guided
<1>7. PICK f \in [ids -> BOOLEAN] : \A n \in ids : f[n] = step[n][f]
  <2> HIDE DEF ids, dep, step
  <2> QED
    BY <1>6, Recursion
<1>8. Is(f)
  <2>1. \A n \in ids : f[n] = (n \in Failing(T, roles) \/ \E c \in ChildrenOf(T, n) : f[c])
    BY <1>7
  <2>2. f = [n \in ids |-> f[n]]
    BY <1>7
  <2> QED
    BY <2>1, <2>2, Zenon
<1> DEFINE onPath == CHOOSE g : Is(g)
<1>9. FullChain(T, roles) = {n \in ids : onPath[n]}
  BY Zenon DEF FullChain
<1>10. Is(onPath)
  <2> HIDE DEF Is
  <2> QED
    BY <1>8
<1>11. \A n \in ids : onPath[n] = (n \in Failing(T, roles) \/ \E c \in ChildrenOf(T, n) : onPath[c])
  <2> HIDE DEF onPath
  <2> QED
    BY <1>10, Zenon
<1> HIDE DEF onPath
<1> QED
  BY <1>9, <1>11, Zenon DEF ChildrenOf

(* The spans on a path to a failing span are the failing spans and all     *)
(* that is above them.                                                     *)
LEMMA ChainIsAboveBad ==
  ASSUME NEW T, NEW fin, NEW b, Orderly(T, fin, b)
  PROVE  FullChain(T, Roles(T)) = UNION {Above(T, n) : n \in Bad(T)}
<1> DEFINE chain == FullChain(T, Roles(T))
<1>1. /\ Failing(T, Roles(T)) = Bad(T) /\ Bad(T) \subseteq T.ids /\ chain \subseteq T.ids
      /\ \A n \in T.ids : n \in chain <=> n \in Bad(T) \/ \E c \in ChildrenOf(T, n) : c \in chain
  BY RolesAre, ChainUnfolds DEF Orderly
<1> HIDE DEF chain
<1>2. ASSUME NEW n \in chain PROVE \E m \in Bad(T) : n \in Above(T, m)
  <2> DEFINE W == {q \in chain : \A m \in Bad(T) : q \notin Above(T, m)}
  <2>1. ASSUME NEW q \in W PROVE \E c \in ChildrenOf(T, q) : c \in W
    <3>1. q \in T.ids /\ q \notin Bad(T)
      BY <1>1, AboveUnfolds
    <3>2. PICK c \in ChildrenOf(T, q) : c \in chain
      BY <1>1, <3>1
    <3>3. c \in T.ids /\ q \in Above(T, c)
      BY <3>1, <3>2, AboveUnfolds DEF ChildrenOf, IsRoot
    <3>4. \A m \in Bad(T) : c \notin Above(T, m)
      BY <1>1, <3>3, AboveIsTransitive
    <3> QED
      BY <3>2, <3>4
  <2>2. W = {}
    <3>1. W \in SUBSET T.ids
      BY <1>1
    <3> HIDE DEF W
    <3> QED
      BY <2>1, <3>1, DescendingEnds
  <2> QED
    BY <2>2
<1>3. ASSUME NEW m \in Bad(T), NEW n \in Above(T, m), n \notin chain PROVE FALSE
  <2> DEFINE W == {q \in T.ids : n \in Above(T, q) /\ q \in chain}
  <2>1. ASSUME NEW q \in W PROVE T.parent[q] \in W
    <3>1. ~ IsRoot(T, q) /\ n \in Above(T, T.parent[q]) /\ T.parent[q] \in T.ids
      BY <1>3, AboveUnfolds DEF IsRoot
    <3>2. q \in ChildrenOf(T, T.parent[q])
      BY DEF ChildrenOf
    <3> QED
      BY <1>1, <3>1, <3>2
  <2>2. W = {}
    <3>1. W \in SUBSET T.ids
      OBVIOUS
    <3> HIDE DEF W
    <3> QED
      BY <2>1, <3>1, ClimbingEnds
  <2> QED
    BY <1>1, <2>2
<1>4. chain = UNION {Above(T, n) : n \in Bad(T)}
  BY <1>2, <1>3, Zenon
<1> QED
  BY <1>4 DEF chain

Cause(T, roles, cause) ==
  \A n \in T.ids : cause[n] =
    IF IsRoot(T, n) THEN {}
    ELSE IF T.parent[n] \in roles.originator \cup roles.propagator
         THEN {T.parent[n]} ELSE cause[T.parent[n]]

LEMMA CauseUnfolds ==
  ASSUME NEW T, NEW fin, NEW b, Orderly(T, fin, b), NEW roles
  PROVE  \E cause : CausedBy(T, roles) = [n \in roles.manifestor |-> cause[n]] /\ Cause(T, roles, cause)
<1> DEFINE Blamed == roles.originator \cup roles.propagator
           Is(f) == f = [n \in T.ids |->
                          IF IsRoot(T, n) THEN {}
                          ELSE IF T.parent[n] \in roles.originator \cup roles.propagator
                               THEN {T.parent[n]} ELSE f[T.parent[n]]]
           next == [n \in T.ids |-> [c \in SUBSET T.ids |->
                      IF T.parent[n] \in Blamed THEN {T.parent[n]} \cap T.ids ELSE c]]
<1>1. Steps(T, SUBSET T.ids, next) /\ {} \in SUBSET T.ids
  BY DEF Steps
<1>2. PICK f \in [T.ids -> SUBSET T.ids] : Descends(T, f, {}, next)
  <2> HIDE DEF next
  <2> QED
    BY <1>1, TopDown
<1>3. \A n \in T.ids : f[n] = IF IsRoot(T, n) THEN {}
                              ELSE IF T.parent[n] \in Blamed THEN {T.parent[n]} ELSE f[T.parent[n]]
  <2> SUFFICES ASSUME NEW n \in T.ids
               PROVE  f[n] = IF IsRoot(T, n) THEN {}
                             ELSE IF T.parent[n] \in Blamed THEN {T.parent[n]} ELSE f[T.parent[n]]
    OBVIOUS
  <2>1. ~ IsRoot(T, n) => T.parent[n] \in T.ids /\ f[T.parent[n]] \in SUBSET T.ids
    BY DEF IsRoot
  <2>2. \A c \in SUBSET T.ids : next[n][c] = IF T.parent[n] \in Blamed THEN {T.parent[n]} \cap T.ids ELSE c
    OBVIOUS
  <2>3. f[n] = IF IsRoot(T, n) THEN {} ELSE next[n][f[T.parent[n]]]
    <3> HIDE DEF next
    <3> QED
      BY <1>2 DEF Descends
  <2>4. ~ IsRoot(T, n) => {T.parent[n]} \cap T.ids = {T.parent[n]}
    BY <2>1
  <2>5. ~ IsRoot(T, n) => next[n][f[T.parent[n]]] =
                            IF T.parent[n] \in Blamed THEN {T.parent[n]} \cap T.ids ELSE f[T.parent[n]]
    <3> HIDE DEF next, Blamed
    <3> QED
      BY <2>1, <2>2
  <2> HIDE DEF next, Blamed
  <2> QED
    BY <2>3, <2>4, <2>5
<1>4. f = [n \in T.ids |-> f[n]]
  BY <1>2
<1>5. Is(f)
  BY <1>3, <1>4, Zenon
<1> DEFINE cause == CHOOSE g : Is(g)
<1>6. CausedBy(T, roles) = [n \in roles.manifestor |-> cause[n]]
  BY Zenon DEF CausedBy
<1>7. Is(cause)
  <2> HIDE DEF Is
  <2> QED
    BY <1>5
<1>8. Cause(T, roles, cause)
  <2> HIDE DEF cause
  <2> QED
    BY <1>7 DEF Cause
<1> QED
  BY <1>6, <1>8

(***************************************************************************)
(* The nearest failing span above a victim, and what a storm of retries    *)
(* leaves of the scores: one originator keeps its score and the others     *)
(* have none.                                                              *)
(***************************************************************************)

(* The failing spans above n, and the nearest of them.                     *)
Failed(T, n) == (Above(T, n) \cap Bad(T)) \ {n}
Nearest(T, n) == {m \in Failed(T, n) : Failed(T, n) \subseteq Above(T, m)}

LEMMA CauseIsNearest ==
  ASSUME NEW T, NEW fin, NEW b, Orderly(T, fin, b), NEW cause, Cause(T, Roles(T), cause), NEW v \in Bad(T)
  PROVE  cause[v] = Nearest(T, v)
<1> DEFINE roles == Roles(T)
           W == {n \in T.ids : n \in Bad(T) \cup BadBelow(T) /\ cause[n] # Nearest(T, n)}
<1>0. Bad(T) \subseteq T.ids /\ \A n \in T.ids : fin[n] \in Nat
  BY DEF Orderly
<1>1. ASSUME NEW n \in W PROVE T.parent[n] \in W
  <2> DEFINE p == T.parent[n]
  <2>1. CASE IsRoot(T, n)
    <3>1. cause[n] = {}
      BY <2>1 DEF Cause
    <3>2. Nearest(T, n) = {}
      BY <2>1, AboveUnfolds DEF Nearest, Failed
    <3> QED
      BY <3>1, <3>2
  <2>2. CASE ~ IsRoot(T, n)
    <3>1. p \in T.ids /\ n \in ChildrenOf(T, p) /\ fin[n] < fin[p]
      BY <2>2 DEF IsRoot, ChildrenOf, Orderly
    <3>2. p \in BadBelow(T)
      BY <3>1, BelowUnfolds
    <3>3. Above(T, n) = {n} \cup Above(T, p) /\ p \in Above(T, p) /\ Above(T, p) \subseteq T.ids
      BY <2>2, <3>1, AboveUnfolds
    <3>4. \A m \in Above(T, p) : fin[p] <= fin[m]
      BY <3>1, AboveIsLater
    <3>5. n \notin Above(T, p)
      BY <1>0, <3>1, <3>4
    <3>6. Failed(T, n) = Above(T, p) \cap Bad(T)
      BY <3>3, <3>5 DEF Failed
    <3>7. p \in roles.originator \cup roles.propagator <=> p \in Bad(T)
      BY <3>2, RolesAre
    <3>8. cause[n] = IF p \in Bad(T) THEN {p} ELSE cause[p]
      <4> HIDE DEF roles
      <4> QED
        BY <2>2, <3>7 DEF Cause, roles
    <3>9. CASE p \in Bad(T)
      <4>1. p \in Nearest(T, n)
        BY <3>3, <3>6, <3>9 DEF Nearest
      <4>2. ASSUME NEW m \in Nearest(T, n) PROVE m = p
        <5>1. m \in Above(T, p) /\ p \in Above(T, m) /\ m \in T.ids
          BY <3>3, <3>6, <3>9 DEF Nearest
        <5>2. fin[m] <= fin[p] /\ (m # p => fin[p] < fin[m])
          BY <3>1, <5>1, AboveIsLater
        <5> QED
          BY <1>0, <3>1, <5>1, <5>2
      <4>3. Nearest(T, n) = {p}
        BY <4>1, <4>2
      <4> QED
        BY <3>8, <3>9, <4>3
    <3>10. CASE p \notin Bad(T)
      <4>1. Failed(T, p) = Failed(T, n)
        BY <3>6, <3>10 DEF Failed
      <4>2. Nearest(T, p) = Nearest(T, n)
        BY <4>1 DEF Nearest
      <4> QED
        BY <3>1, <3>2, <3>8, <3>10, <4>2
    <3> QED
      BY <3>9, <3>10
  <2> QED
    BY <2>1, <2>2
<1>2. W = {}
  <2>1. W \in SUBSET T.ids
    OBVIOUS
  <2> HIDE DEF W
  <2> QED
    BY <1>1, <2>1, ClimbingEnds
<1> QED
  BY <1>0, <1>2

LEMMA TraceChained ==
  ASSUME NEW T, NEW fin, NEW b, Orderly(T, fin, b)
  PROVE  Chained(T, Roles(T))
<1>1. PICK cause : /\ CausedBy(T, Roles(T)) = [n \in Roles(T).manifestor |-> cause[n]]
                   /\ Cause(T, Roles(T), cause)
  BY CauseUnfolds
<1>2. Roles(T).manifestor \subseteq Bad(T)
  BY RolesAre
<1>3. \A v \in Roles(T).manifestor : CausedBy(T, Roles(T))[v] = Nearest(T, v)
  BY <1>1, <1>2, CauseIsNearest
<1> QED
  BY <1>3, ChainIsAboveBad DEF Chained, Nearest, Failed

(* When all originators are one storm, only its first failure has a score. *)
LEMMA StormIsOneFailure ==
  ASSUME NEW T, NEW fin, NEW b, Orderly(T, fin, b), \A m \in T.ids : T.signals[m] \in Nat,
         NEW first \in FirstOf(T), NEW n \in Roles(T).originator, n \in first,
         Roles(T).originator \subseteq Retries(T, n)
  PROVE  Confidence(T, Roles(T), Score(T, Roles(T), first)) = "high"
<1> DEFINE roles == Roles(T)
           O == roles.originator
           score == Score(T, roles, first)
           rest == O \ {n}
<1>1. O \subseteq T.ids /\ n \in O /\ n \notin roles.propagator /\ n \notin roles.manifestor
  BY RolesAre DEF Orderly
<1>2. score[n] \in Nat /\ score[n] > 600
  <2>1. score[n] = Failure(T, n) + Worth(roles, n) + Placing(T, n) + T.signals[n]
    <3>1. n \notin Storms(T) \ first
      OBVIOUS
    <3> HIDE DEF roles
    <3> QED
      BY <1>1, <3>1, ScoreIs
  <2>2. Failure(T, n) = 240
    BY DEF Failure, FirstOf, Storms
  <2>3. Worth(roles, n) = 420
    <3> HIDE DEF roles
    <3> QED
      BY <1>1 DEF Worth
  <2>4. Placing(T, n) \in 0 .. 84 /\ T.signals[n] \in Nat
    BY <1>1, PlacingBounded
  <2> HIDE DEF score
  <2> QED
    BY <2>1, <2>2, <2>3, <2>4
<1>3. \A m \in rest : score[m] = 0
  <2> SUFFICES ASSUME NEW m \in rest PROVE score[m] = 0
    OBVIOUS
  <2>1. m \in T.ids /\ m \in Retries(T, n) /\ n \in Storms(T)
    BY <1>1 DEF FirstOf
  <2>2. Retries(T, m) = Retries(T, n) /\ n \in Retries(T, n)
    BY <2>1 DEF Retries, Storms
  <2>3. m \in Storms(T)
    BY <2>1, <2>2 DEF Storms, Retries
  <2>4. m \notin first
    BY <2>1, <2>2 DEF FirstOf
  <2> HIDE DEF roles
  <2> QED
    BY <2>1, <2>3, <2>4, ScoreIs
<1> HIDE DEF score
<1>4. Highest(O, score) = {n}
  <2>1. \A m \in O : m = n \/ score[m] = 0
    BY <1>3
  <2> HIDE DEF O
  <2> QED
    BY <1>1, <1>2, <2>1 DEF Highest
<1>5. Lead(O, score) = score[n] - 0
  <2>1. rest # {} => {score[m] : m \in rest} = {0}
    BY <1>3
  <2>2. Max({0}) = 0
    BY DEF Max
  <2>3. (CHOOSE m \in Highest(O, score) : TRUE) = n
    BY <1>4
  <2> HIDE DEF O
  <2> QED
    BY <2>1, <2>2, <2>3 DEF Lead
<1>6. Delta(T, roles, score) > 300
  <2>1. O # {}
    BY <1>1
  <2> QED
    BY <1>2, <1>5, <2>1 DEF Delta
<1>7. Confidence(T, roles, score) = "high"
  <2> HIDE DEF roles
  <2> QED
    BY <1>6 DEF Confidence
<1> QED
  BY <1>7 DEF score

LEMMA TraceSettled ==
  ASSUME NEW T, NEW fin, NEW b, Orderly(T, fin, b), \A m \in T.ids : T.signals[m] \in Nat,
         NEW first \in FirstOf(T)
  PROVE  Settled(T, Roles(T), first)
<1> DEFINE roles == Roles(T)
           score == Score(T, roles, first)
<1> SUFFICES ASSUME roles.originator # {}
             PROVE  /\ \A t \in Highest(T.ids, score) : \A u \in Highest(T.ids \ {t}, score) :
                         Named(T, roles, score, t, u) \subseteq FullChain(T, roles)
                    /\ (\E n \in roles.originator \cap first : roles.originator \subseteq Retries(T, n))
                         => Confidence(T, roles, score) = "high"
  BY DEF Settled
<1>1. roles.originator \cup roles.propagator \subseteq Bad(T)
  BY RolesAre
<1>2. Bad(T) \subseteq FullChain(T, roles)
  <2>1. Bad(T) \subseteq T.ids
    BY DEF Orderly
  <2>2. \A n \in Bad(T) : n \in Above(T, n)
    BY <2>1, AboveUnfolds
  <2> QED
    BY <2>2, ChainIsAboveBad
<1>3. ASSUME NEW t, NEW u PROVE Named(T, roles, score, t, u) \subseteq FullChain(T, roles)
  <2> HIDE DEF roles, score
  <2> QED
    BY <1>1, <1>2 DEF Named
<1>4. ASSUME NEW n \in roles.originator \cap first, roles.originator \subseteq Retries(T, n)
      PROVE  Confidence(T, roles, score) = "high"
  BY <1>4, StormIsOneFailure
<1> QED
  BY <1>3, <1>4

(***************************************************************************)
(* The SDK sends orderly traces.  Finitely many spans are in use, lineage  *)
(* points at spans that are closed, a span that closed after its parent is *)
(* in no trace, and there is an order of finishing that agrees with the    *)
(* tree and with the lineage: the spans in the order in which they were    *)
(* closed.                                                                 *)
(***************************************************************************)

FewSpans == IsFiniteSet({s \in Span : InUse(s)})
SourcesClosed == \A s \in Span : sources[s] # {} => InUse(s) /\ \A t \in sources[s] : Closed(t)
LateApart ==
  /\ \A s \in late : Closed(s)
  /\ \A p \in Span : ~ Closed(p) => children[p] \cap late = {}
  /\ \A r \in Span : trace[r] \cap late = {}

InOrder(fin, b) ==
  \A s \in Span : Closed(s) =>
    /\ fin[s] <= b
    /\ \A t \in sources[s] : fin[t] < fin[s]
    /\ \A p \in Span : p = span[s].parent /\ s \notin late /\ Closed(p) => fin[s] < fin[p]

Ordered == \E b \in Nat : \E fin \in [Span -> Nat] : InOrder(fin, b)

OrderInv == FewSpans /\ SourcesClosed /\ LateApart /\ Ordered

LEMMA OrderInitially == Init => OrderInv
<1> SUFFICES ASSUME Init PROVE OrderInv
  OBVIOUS
<1>1. \A s \in Span : span[s].pc = "unused"
  BY DEF Init, Unused
<1>2. FewSpans
  <2>1. {s \in Span : InUse(s)} = {}
    BY <1>1 DEF InUse
  <2> QED
    BY <2>1, FS_EmptySet DEF FewSpans
<1>3. SourcesClosed /\ LateApart
  BY DEF Init, SourcesClosed, LateApart
<1>4. Ordered
  <2>1. [s \in Span |-> 0] \in [Span -> Nat] /\ InOrder([s \in Span |-> 0], 0)
    BY <1>1 DEF InOrder, Closed
  <2> QED
    BY <2>1 DEF Ordered
<1> QED
  BY <1>2, <1>3, <1>4 DEF OrderInv

LEMMA OrderIdle ==
  ASSUME OrderInv, UNCHANGED <<span, children, sources, trace, late>> PROVE OrderInv'
BY DEF OrderInv, FewSpans, SourcesClosed, LateApart, Ordered, InOrder, InUse, Closed

(* A step takes at most one span into use.                                 *)
LEMMA OneMoreSpan ==
  ASSUME FewSpans, NEW s \in Span, \A t \in Span \ {s} : span'[t] = span[t]
  PROVE  FewSpans'
<1> DEFINE now == {t \in Span : InUse(t)}
<1>1. IsFiniteSet(now \cup {s})
  BY FS_AddElement DEF FewSpans
<1>2. now' \in SUBSET (now \cup {s})
  BY DEF InUse
<1>3. IsFiniteSet(now')
  <2> HIDE DEF now
  <2> QED
    BY <1>1, <1>2, FS_Subset
<1> QED
  BY <1>3 DEF FewSpans

LEMMA OrderCall ==
  ASSUME TraceInv, OrderInv, NEW k \in Strand, NEW s \in Span, NEW A \in SUBSET alive, Call(k, s, A)
  PROVE  OrderInv'
<1>1. /\ span[s].pc = "unused" /\ span'[s].pc = "open"
      /\ \A t \in Span \ {s} : span'[t] = span[t] /\ sources'[t] = sources[t]
      /\ UNCHANGED <<children, trace, late>>
  BY DEF Call, TraceInv, LineageInv, LineageTypes, TreeInv, TreeTypes
<1>2. FewSpans'
  BY <1>1, OneMoreSpan DEF OrderInv
<1>3. \A t \in Span : Closed(t) => t # s /\ Closed(t)'
  BY <1>1 DEF Closed
<1>4. \A t \in Span : Closed(t)' => t # s /\ Closed(t)
  BY <1>1 DEF Closed
<1>5. \A t \in sources'[s] : t \in Span /\ Closed(t)
  <2>1. \A t \in sources'[s] : \E o \in Object : t \in Holders(o)
    BY CallDetects DEF TraceInv, LineageInv, LineageTypes
  <2> QED
    BY <2>1, HoldersTyped DEF TraceInv, LineageInv, Known
<1>6. SourcesClosed'
  <2> SUFFICES ASSUME NEW t \in Span, NEW u \in sources'[t] PROVE InUse(t)' /\ Closed(u)'
    BY DEF SourcesClosed
  <2>1. CASE t = s
    BY <1>1, <1>3, <1>5, <2>1 DEF InUse
  <2>2. CASE t # s
    <3>1. u \in sources[t] /\ u \in Span
      BY <1>1, <2>2 DEF TraceInv, LineageInv, LineageTypes
    <3>2. InUse(t) /\ Closed(u)
      BY <3>1 DEF OrderInv, SourcesClosed
    <3> QED
      BY <1>1, <1>3, <2>2, <3>1, <3>2 DEF InUse
  <2> QED
    BY <2>1, <2>2
<1>7. LateApart'
  BY <1>1, <1>3, <1>4 DEF OrderInv, LateApart, TraceInv, TreeInv, TreeTypes
<1>8. Ordered'
  <2>1. PICK b \in Nat : \E fin \in [Span -> Nat] : InOrder(fin, b)
    BY DEF OrderInv, Ordered
  <2>2. PICK fin \in [Span -> Nat] : InOrder(fin, b)
    BY <2>1
  <2>3. InOrder(fin, b)'
    BY <1>1, <1>4, <2>2 DEF InOrder
  <2> QED
    BY <2>3 DEF Ordered
<1> QED
  BY <1>2, <1>6, <1>7, <1>8 DEF OrderInv

(* A span that is closed is the last in the order, unless it is late.      *)
LEMMA OrderClosing ==
  ASSUME TraceInv, OrderInv, NEW s \in Span, ~ Closed(s), Closed(s)', sources' = sources,
         \A t \in Span \ {s} : span'[t] = span[t],
         span'[s].parent # s, late' = LateUnder(s, span'[s].parent)
  PROVE  FewSpans' /\ SourcesClosed' /\ Ordered' /\ \A t \in late' : Closed(t)'
<1>1. FewSpans'
  BY OneMoreSpan DEF OrderInv
<1>2. \A t \in Span : Closed(t)' <=> t = s \/ Closed(t)
  BY DEF Closed
<1>3. \A t \in Span : InUse(t) => InUse(t)'
  BY DEF InUse, Closed
<1>4. SourcesClosed'
  BY <1>2, <1>3 DEF OrderInv, SourcesClosed, TraceInv, LineageInv, LineageTypes
<1>5. late \subseteq late' /\ \A t \in late' : t = s \/ t \in late
  BY DEF LateUnder
<1>6. \A t \in late' : Closed(t)'
  BY <1>2, <1>5 DEF OrderInv, LateApart, TraceInv, TreeInv, TreeTypes
<1>7. Ordered'
  <2>1. PICK b \in Nat : \E f \in [Span -> Nat] : InOrder(f, b)
    BY DEF OrderInv, Ordered
  <2>2. PICK f \in [Span -> Nat] : InOrder(f, b)
    BY <2>1
  <2> DEFINE fin == [f EXCEPT ![s] = b + 1]
  <2>3. fin \in [Span -> Nat] /\ fin[s] = b + 1 /\ (\A t \in Span \ {s} : fin[t] = f[t]) /\ b + 1 \in Nat
    OBVIOUS
  <2>4. \A t \in Span : Closed(t) => fin[t] = f[t] /\ f[t] \in Nat /\ f[t] <= b
    BY <2>2, <2>3 DEF InOrder
  <2> HIDE DEF fin
  <2>5. ASSUME NEW t \in Span, Closed(t)'
        PROVE  /\ fin[t] <= b + 1
               /\ \A u \in sources'[t] : fin[u] < fin[t]
               /\ \A p \in Span : p = span'[t].parent /\ t \notin late' /\ Closed(p)' => fin[t] < fin[p]
    <3>1. \A u \in sources'[t] : u \in Span /\ Closed(u)
      BY DEF OrderInv, SourcesClosed, TraceInv, LineageInv, LineageTypes
    <3>2. CASE t = s
      <4>1. \A u \in sources'[t] : fin[u] < fin[t]
        BY <2>3, <2>4, <3>1, <3>2
      <4>2. ASSUME NEW p \in Span, p = span'[t].parent, t \notin late', Closed(p)' PROVE FALSE
        <5>1. p # s /\ Closed(p)
          BY <1>2, <3>2, <4>2
        <5>2. p # Nil
          BY TraceConstants
        <5> QED
          BY <3>2, <4>2, <5>1, <5>2 DEF LateUnder, Closed
      <4> QED
        BY <2>3, <3>2, <4>1, <4>2
    <3>3. CASE t # s
      <4>1. Closed(t) /\ fin[t] = f[t] /\ f[t] \in Nat /\ f[t] <= b
        BY <1>2, <2>4, <2>5, <3>3
      <4>2. \A u \in sources'[t] : fin[u] < fin[t]
        BY <2>2, <2>4, <3>1, <4>1 DEF InOrder
      <4>3. ASSUME NEW p \in Span, p = span'[t].parent, t \notin late', Closed(p)' PROVE fin[t] < fin[p]
        <5>1. p = span[t].parent /\ t \notin late
          BY <1>5, <3>3, <4>3
        <5>2. CASE p = s
          BY <2>3, <4>1, <5>2
        <5>3. CASE p # s
          BY <1>2, <2>2, <2>4, <4>1, <4>3, <5>1, <5>3 DEF InOrder
        <5> QED
          BY <5>2, <5>3
      <4> QED
        BY <4>1, <4>2, <4>3
    <3> QED
      BY <3>2, <3>3
  <2>6. InOrder(fin, b + 1)'
    BY <2>5 DEF InOrder
  <2> QED
    BY <2>3, <2>6 DEF Ordered
<1> QED
  BY <1>1, <1>4, <1>6, <1>7

LEMMA OrderFinalize ==
  ASSUME TraceInv, OrderInv, NEW k \in Strand, NEW s \in Span, Running(k, s), NEW failed \in BOOLEAN,
         NEW o \in Object \cup {Nil}, Finalize(k, s, failed, o), sources' = sources
  PROVE  OrderInv'
<1> DEFINE p == span[s].parent
<1>1. /\ ~ Closed(s) /\ Closed(s)' /\ span'[s].parent = p
      /\ \A t \in Span \ {s} : span'[t] = span[t]
  BY DEF Running, Closed, Finalize, TraceInv, TreeInv, TreeTypes, SpanType
<1>2. p # s /\ late' = LateUnder(s, p)
  BY DEF Running, Finalize, TraceInv, TreeInv, Rooted, InUse
<1>3. FewSpans' /\ SourcesClosed' /\ Ordered' /\ \A t \in late' : Closed(t)'
  BY <1>1, <1>2, OrderClosing
<1>4. \A t \in Span : ~ Closed(t)' => t # s /\ ~ Closed(t)
  BY <1>1 DEF Closed
<1>5. \A t \in late' : t \in late \/ (t = s /\ p # Nil /\ span[p].pc = "closed")
  BY <1>2 DEF LateUnder
<1>6. s \notin late /\ children[s] \cap late = {} /\ \A q \in Span : ~ Closed(q) => children[q] \cap late = {}
  BY <1>1 DEF OrderInv, LateApart
<1>7. ASSUME NEW q \in Span, s \in children[q] \/ s \in trace[q] PROVE FALSE
  BY <1>1, <1>7 DEF TraceInv, TreeInv, TreeTypes, HandedUp, TraceIsWhole, TraceIsTree, Closed
<1>8. ASSUME NEW q \in Span, ~ Closed(q)', NEW t \in children'[q], t \in late' PROVE FALSE
  <2>1. t \in children[q] \/ (q = p /\ p # Nil /\ (t = s \/ t \in children[s]))
    BY <1>4 DEF Finalize, Subtree, TraceInv, TreeInv, TreeTypes
  <2>2. q = p => late' = late
    BY <1>2, <1>4, <1>8 DEF LateUnder, Closed
  <2> QED
    BY <1>4, <1>5, <1>6, <1>7, <1>8, <2>1, <2>2
<1>9. ASSUME NEW r \in Span, NEW t \in trace'[r], t \in late' PROVE FALSE
  <2>1. t \in trace[r] \/ (p = Nil /\ (t = s \/ t \in children[s]))
    BY <1>9 DEF Finalize, TraceInv, TreeInv, TreeTypes
  <2>2. trace[r] \cap late = {}
    BY DEF OrderInv, LateApart
  <2> QED
    BY <1>5, <1>6, <1>7, <1>9, <2>1, <2>2
<1> QED
  BY <1>3, <1>8, <1>9 DEF OrderInv, LateApart

LEMMA OrderRecorded ==
  ASSUME TraceInv, OrderInv, NEW k \in Strand, NEW s \in Span, NEW failed \in BOOLEAN,
         PatchedCall(k, s, failed) \/ InstrumentedCall(k, s, failed)
  PROVE  OrderInv'
<1> DEFINE p == span'[s].parent
<1>1. /\ span[s].pc = "unused" /\ ~ Closed(s) /\ Closed(s)'
      /\ \A t \in Span \ {s} : span'[t] = span[t]
      /\ sources' = sources
  BY DEF PatchedCall, InstrumentedCall, Recorded, Closed, TraceInv, TreeInv, TreeTypes
<1>2. \/ InstrumentedCall(k, s, failed) /\ p = Nil
      \/ PatchedCall(k, s, failed) /\ p = Active(k) /\ Active(k) \in Span
  <2>1. InstrumentedCall(k, s, failed) => p = Nil
    BY DEF InstrumentedCall, Recorded, TraceInv, TreeInv, TreeTypes
  <2>2. PatchedCall(k, s, failed) => p = Active(k) /\ Active(k) \in Span
    BY DEF PatchedCall, Recorded, Patched, Active, TraceInv, TreeInv, TreeTypes, StrandType
  <2> QED
    BY <2>1, <2>2
<1>3. p # s /\ late' = LateUnder(s, p)
  <2>1. p # s
    BY <1>1, <1>2, TraceConstants DEF TraceInv, TreeInv, Under, InUse
  <2>2. late' = LateUnder(s, p)
    <3> HIDE DEF p
    <3> QED
      BY <1>2 DEF PatchedCall, InstrumentedCall, LateUnder
  <2> QED
    BY <2>1, <2>2
<1>4. FewSpans' /\ SourcesClosed' /\ Ordered' /\ \A t \in late' : Closed(t)'
  BY <1>1, <1>2, <1>3, OrderClosing
<1>5. s \notin late /\ \A q \in Span : s \notin children[q] /\ s \notin trace[q]
  BY <1>1 DEF TraceInv, TreeInv, TreeTypes, HandedUp, TraceIsWhole, TraceIsTree, Closed, OrderInv, LateApart
<1>6. /\ \A q \in Span : \A t \in children'[q] : t \in children[q] \/ (t = s /\ q = p)
      /\ \A r \in Span : \A t \in trace'[r] : t \in trace[r] \/ (t = s /\ p = Nil)
  <2> HIDE DEF p
  <2>1. CASE PatchedCall(k, s, failed) /\ p = Active(k) /\ Active(k) \in Span
    BY <2>1 DEF PatchedCall, TraceInv, TreeInv, TreeTypes
  <2>2. CASE InstrumentedCall(k, s, failed) /\ p = Nil
    BY <2>2 DEF InstrumentedCall, TraceInv, TreeInv, TreeTypes
  <2> QED
    BY <1>2, <2>1, <2>2
<1>7. \A t \in late' : t \in late \/ (t = s /\ p # Nil /\ span[p].pc = "closed")
  BY <1>1, <1>2, <1>3 DEF LateUnder
<1>8. \A q \in Span : ~ Closed(q)' => q # s /\ ~ Closed(q)
  BY <1>1 DEF Closed
<1>9. ASSUME NEW q \in Span, ~ Closed(q)', NEW t \in children'[q], t \in late' PROVE FALSE
  <2>1. children[q] \cap late = {}
    BY <1>8, <1>9 DEF OrderInv, LateApart
  <2>2. q = p => span[p].pc # "closed"
    BY <1>8, <1>9 DEF Closed
  <2> HIDE DEF p
  <2> QED
    BY <1>5, <1>6, <1>7, <1>9, <2>1, <2>2
<1>10. ASSUME NEW r \in Span, NEW t \in trace'[r], t \in late' PROVE FALSE
  <2>1. trace[r] \cap late = {}
    BY DEF OrderInv, LateApart
  <2> HIDE DEF p
  <2> QED
    BY <1>5, <1>6, <1>7, <1>10, <2>1
<1> QED
  BY <1>4, <1>9, <1>10 DEF OrderInv, LateApart

LEMMA OrderStep == TraceInv /\ OrderInv /\ [Next]_vars => OrderInv'
<1> SUFFICES ASSUME TraceInv, OrderInv, [Next]_vars PROVE OrderInv'
  OBVIOUS
<1>1. ASSUME NEW k \in Strand, NEW s \in Span, NEW o \in Object, Return(k, s, o) PROVE OrderInv'
  BY <1>1, OrderFinalize DEF Return
<1>2. ASSUME NEW k \in Strand, NEW s \in Span, ReturnSmall(k, s) PROVE OrderInv'
  BY <1>2, OrderFinalize DEF ReturnSmall
<1>3. ASSUME NEW k \in Strand, NEW s \in Span, Raise(k, s) PROVE OrderInv'
  BY <1>3, OrderFinalize, TraceConstants DEF Raise
<1>4. ASSUME NEW k \in Strand, NEW j \in Strand, NEW copied \in BOOLEAN, Spawn(k, j, copied) \/ EndStrand(k)
      PROVE  OrderInv'
  BY <1>4, OrderIdle DEF Spawn, EndStrand
<1>5. ASSUME NEW o \in Object, Collect(o) PROVE OrderInv'
  BY <1>5, OrderIdle DEF Collect
<1>6. CASE UNCHANGED vars
  BY <1>6, OrderIdle DEF vars
<1> QED
  BY <1>1, <1>2, <1>3, <1>4, <1>5, <1>6, OrderCall, OrderRecorded DEF Next

(* The order exists in every reachable state.                              *)
LEMMA OrderAlways == Spec => [](TraceInv /\ OrderInv)
BY TraceInitially, TraceStep, OrderInitially, OrderStep, PTL DEF Spec

(* So every trace that is emitted is orderly.                              *)
LEMMA EmittedOrderly ==
  ASSUME TraceInv, OrderInv, NEW r \in Span, NEW kind, NEW B, NEW S, NEW tight
  PROVE  \E fin, b : Orderly(Emitted(r, kind, B, S, tight), fin, b)
<1> DEFINE T == Emitted(r, kind, B, S, tight)
           ids == trace[r]
<1>1. /\ T.ids = ids /\ T.tight = tight
      /\ T.parent = [s \in ids |-> span[s].parent]
      /\ T.sources = [s \in ids |-> sources[s]]
      /\ Bad(T) \subseteq ids
  BY DEF Emitted, Bad, Empty
<1>2. PICK b \in Nat : \E f \in [Span -> Nat] : InOrder(f, b)
  BY DEF OrderInv, Ordered
<1>3. PICK f \in [Span -> Nat] : InOrder(f, b)
  BY <1>2
<1> DEFINE fin == [s \in ids |-> f[s]]
<1>4. \A s \in ids : s \in Span /\ Closed(s) /\ s \notin late
  BY DEF TraceInv, TreeInv, TreeTypes, TraceIsWhole, TraceIsTree, Closed, OrderInv, LateApart
<1>5. IsFiniteSet(ids)
  <2>1. ids \in SUBSET {s \in Span : InUse(s)}
    BY <1>4 DEF Closed, InUse
  <2> QED
    BY <2>1, FS_Subset DEF OrderInv, FewSpans
<1>6. fin \in [ids -> 0 .. b]
  BY <1>3, <1>4 DEF InOrder
<1> HIDE DEF T
<1>7. ASSUME NEW n \in ids, ~ IsRoot(T, n) PROVE fin[n] < fin[T.parent[n]]
  <2>1. T.parent[n] = span[n].parent /\ span[n].parent \in ids
    BY <1>1, <1>7 DEF IsRoot
  <2>2. f[n] < f[span[n].parent]
    BY <1>3, <1>4, <2>1 DEF InOrder
  <2> QED
    BY <2>1, <2>2
<1>8. ASSUME NEW n \in ids, NEW m \in T.sources[n] \cap ids PROVE fin[m] < fin[n]
  <2>1. m \in sources[n]
    BY <1>1
  <2>2. f[m] < f[n]
    BY <1>3, <1>4, <2>1 DEF InOrder
  <2> QED
    BY <2>2
<1>9. Orderly(T, fin, b)
  <2> HIDE DEF ids, fin
  <2> QED
    BY <1>1, <1>5, <1>6, <1>7, <1>8 DEF Orderly
<1> QED
  BY <1>9 DEF T

(***************************************************************************)
(* Every emitted trace.                                                    *)
(***************************************************************************)
PlainBlamed ==
  \A r \in Span : \A T \in Plain(r) :
    Bad(T) # {} => Founded(T, Roles(T)) /\ Apportioned(T, Roles(T))

AnomalousBlamed ==
  \A r \in Span : \A T \in Anomalous(r) :
    Bad(T) # {} =>
      Chained(T, Roles(T)) /\ \A first \in FirstOf(T) : Settled(T, Roles(T), first)

LEMMA BlamesPlain == TraceInv /\ OrderInv => PlainBlamed
<1> SUFFICES ASSUME TraceInv, OrderInv, NEW r \in Span, NEW T \in Plain(r), Bad(T) # {}
             PROVE  Founded(T, Roles(T)) /\ Apportioned(T, Roles(T))
  BY DEF PlainBlamed
<1>1. PICK kind \in Kinds, B \in SUBSET GivenNull(r) : T = Emitted(r, kind, B, {}, {})
  BY DEF Plain
<1>2. PICK fin, b : Orderly(T, fin, b)
  BY <1>1, EmittedOrderly
<1>3. Undisturbed(T)
  <2>1. \A n \in trace[r] : n \in Span /\ Closed(n)
    BY DEF TraceInv, TreeInv, TreeTypes, TraceIsWhole, TraceIsTree, Closed
  <2>2. \A n \in trace[r] : span[n].out \in Object \cup {Nil}
    BY <2>1 DEF TraceInv, TreeInv, TreeTypes, SpanType
  <2>3. \A n \in trace[r] : span[n].out # Null => kind[span[n].out] \in KindNames
    BY <2>2 DEF Kinds, Results, Deviation, KindNames
  <2>4. "full" \in KindNames
    BY DEF KindNames
  <2> QED
    BY <1>1, <2>3, <2>4 DEF Emitted, Undisturbed
<1> QED
  BY <1>2, <1>3, TraceFounded, TraceApportioned

LEMMA BlamesAnomalous == TraceInv /\ OrderInv => AnomalousBlamed
<1> SUFFICES ASSUME TraceInv, OrderInv, NEW r \in Span, NEW T \in Anomalous(r)
             PROVE  Chained(T, Roles(T)) /\ \A first \in FirstOf(T) : Settled(T, Roles(T), first)
  BY DEF AnomalousBlamed
<1>1. PICK a, B, tight : T = Emitted(r, AllFull, B, {a}, tight)
  BY DEF Anomalous
<1>2. PICK fin, b : Orderly(T, fin, b)
  BY <1>1, EmittedOrderly
<1>3. \A n \in T.ids : T.signals[n] \in Nat
  BY <1>1 DEF Emitted
<1> QED
  BY <1>2, <1>3, TraceChained, TraceSettled

(* Every trace with a bad span that the SDK emits has an originator,       *)
(* unless a span inherits from a sibling (blame_engine.py:294,             *)
(* blame_engine.py:352); the blame goes to the bottom, and no victim       *)
(* outranks an originator (blame_engine.py:380, blame_engine.py:409).      *)
THEOREM BlameIsFounded == Spec => BlameFounded
<1>1. PlainBlamed' =>
        [\A r \in Span : trace'[r] # trace[r] =>
           \A T \in Plain(r)' :
             LET roles == Roles(T) IN
             Bad(T) # {} => Founded(T, roles) /\ Apportioned(T, roles)]_vars
  BY DEF PlainBlamed
<1> QED
  BY <1>1, OrderAlways, BlamesPlain, PTL DEF BlameFounded

(* The chain shown is the failing spans with all that is above them, a     *)
(* victim is said to be caused by the nearest failing span above it        *)
(* (blame_engine.py:653, blame_engine.py:917), only spans of the chain are *)
(* named, and one storm of retries counts as one failure: the code keeps   *)
(* the first of every group (blame_engine.py:511).                         *)
THEOREM BlameIsNamed == Spec => BlameNamed
<1>1. AnomalousBlamed' =>
        [\A r \in Span : trace'[r] # trace[r] =>
           \A T \in Anomalous(r)' :
             LET roles == Roles(T) IN
             Bad(T) # {} =>
               Chained(T, roles) /\ \A first \in FirstOf(T) : Settled(T, roles, first)]_vars
  BY DEF AnomalousBlamed
<1> QED
  BY <1>1, OrderAlways, BlamesAnomalous, PTL DEF BlameNamed
=============================================================================
