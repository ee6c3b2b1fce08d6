--------------------------- MODULE FiniteInduction ---------------------------
(***************************************************************************)
(* Induction over finite sets and intervals, and the recursive functions   *)
(* the models define over them.  The facts are stated about sets and       *)
(* functions, not about operators: a proof names the set of arguments for  *)
(* which its claim holds, or the function that makes one value from the    *)
(* one before.                                                             *)
(***************************************************************************)
EXTENDS Orders, Integers, FiniteSets, FiniteSetsExt, FiniteSetTheorems, TLAPS

(* A nonempty set of subsets of a finite set has a minimal element.          *)
LEMMA MinimalSubset ==
  ASSUME NEW S, IsFiniteSet(S), NEW F \in SUBSET SUBSET S, F # {}
  PROVE  \E N \in F : \A M \in F : M \subseteq N => M = N
<1>1. F \subseteq FiniteSubsetsOf(S)
  BY FS_Subset DEF FiniteSubsetsOf
<1>2. PICK N \in F : \A M \in F : ~(<<M, N>> \in StrictSubsetOrdering(S))
  BY <1>1, FS_StrictSubsetOrderingWellFounded, WFMin
<1> QED
  BY <1>2 DEF StrictSubsetOrdering

LEMMA FiniteImage ==
  ASSUME NEW S, IsFiniteSet(S), NEW f
  PROVE  IsFiniteSet({f[x] : x \in S})
<1> DEFINE T == {f[x] : x \in S}
           g == [x \in S |-> f[x]]
<1>1. g \in Surjection(S, T)
  BY DEF Surjection
<1> HIDE DEF T, g
<1>2. IsFiniteSet(T)
  BY <1>1, FS_Surjection
<1> QED
  BY <1>2 DEF T

(* Of the sets a function gives the members of a finite set, one is minimal. *)
LEMMA MinimalImage ==
  ASSUME NEW S, IsFiniteSet(S), S # {}, NEW G \in [S -> SUBSET S]
  PROVE  \E k \in S : \A y \in S : G[y] \subseteq G[k] => G[y] = G[k]
<1> DEFINE F == {G[k] : k \in S}
<1>0. F \in SUBSET SUBSET S /\ F # {}
  OBVIOUS
<1>1. PICK N \in F : \A M \in F : M \subseteq N => M = N
  <2> HIDE DEF F
  <2> QED
    BY <1>0, MinimalSubset
<1> QED
  BY <1>1

(* A nonempty finite set of integers has a greatest and a least element, so *)
(* Max and Min name one.                                                     *)
LEMMA GreatestMember ==
  ASSUME NEW S, \A x \in S : x \in Int, IsFiniteSet(S), S # {}
  PROVE  Max(S) \in S /\ \A y \in S : Max(S) >= y
<1> DEFINE From == [k \in S |-> {y \in S : y >= k}]
<1>1. \A x \in S : x \in Int
  OBVIOUS
<1>2. PICK k \in S : \A y \in S : From[y] \subseteq From[k] => From[y] = From[k]
  <2>1. From \in [S -> SUBSET S]
    OBVIOUS
  <2> HIDE DEF From
  <2> QED
    BY <2>1, MinimalImage
<1>3. \A y \in S : k >= y
  <2> SUFFICES ASSUME NEW y \in S, ~(k >= y)
               PROVE  FALSE
    OBVIOUS
  <2>1. y > k
    BY <1>1
  <2>2. From[y] \subseteq From[k]
    <3> SUFFICES ASSUME NEW x \in S, x >= y
                 PROVE  x >= k
      OBVIOUS
    <3>1. x \in Int /\ y \in Int /\ k \in Int
      BY <1>1
    <3> QED
      BY <2>1, <3>1
  <2>3. k \in From[k] /\ k \notin From[y]
    BY <2>1
  <2> QED
    BY <1>2, <2>2, <2>3
<1> QED
  BY <1>3 DEF Max

LEMMA LeastMember ==
  ASSUME NEW S, \A x \in S : x \in Int, IsFiniteSet(S), S # {}
  PROVE  Min(S) \in S /\ \A y \in S : Min(S) <= y
<1> DEFINE To == [k \in S |-> {y \in S : y <= k}]
<1>1. \A x \in S : x \in Int
  OBVIOUS
<1>2. PICK k \in S : \A y \in S : To[y] \subseteq To[k] => To[y] = To[k]
  <2>1. To \in [S -> SUBSET S]
    OBVIOUS
  <2> HIDE DEF To
  <2> QED
    BY <2>1, MinimalImage
<1>3. \A y \in S : k <= y
  <2> SUFFICES ASSUME NEW y \in S, ~(k <= y)
               PROVE  FALSE
    OBVIOUS
  <2>1. y < k
    BY <1>1
  <2>2. To[y] \subseteq To[k]
    <3> SUFFICES ASSUME NEW x \in S, x <= y
                 PROVE  x <= k
      OBVIOUS
    <3>1. x \in Int /\ y \in Int /\ k \in Int
      BY <1>1
    <3> QED
      BY <2>1, <3>1
  <2>3. k \in To[k] /\ k \notin To[y]
    BY <2>1
  <2> QED
    BY <1>2, <2>2, <2>3
<1> QED
  BY <1>3 DEF Min

(* What holds of the empty set, and of a set whenever it holds of the set    *)
(* without some element, holds of every subset of a finite set.              *)
LEMMA FiniteSubsetInduction ==
  ASSUME NEW S, IsFiniteSet(S), NEW T \in SUBSET SUBSET S, {} \in T,
         \A N \in SUBSET S : N # {} => \E x \in N : N \ {x} \in T => N \in T
  PROVE  T = SUBSET S
<1> SUFFICES ASSUME (SUBSET S) \ T # {}
             PROVE  FALSE
  OBVIOUS
<1> DEFINE F == (SUBSET S) \ T
<1>0. F \in SUBSET SUBSET S /\ F # {}
  OBVIOUS
<1>1. PICK N \in F : \A M \in F : M \subseteq N => M = N
  <2> HIDE DEF F
  <2> QED
    BY <1>0, MinimalSubset
<1>2. N \in SUBSET S /\ N \notin T
  OBVIOUS
<1>3. ASSUME N = {}
      PROVE  FALSE
  <2>1. N \in T
    BY <1>3
  <2> QED
    BY <1>2, <2>1
<1>4. PICK x \in N : N \ {x} \in T => N \in T
  BY <1>3
<1>5. N \ {x} \in F
  BY <1>4
<1>6. N \ {x} = N
  BY <1>1, <1>5
<1> QED
  BY <1>4, <1>6

(* The same for the numbers up to n. *)
LEMMA IntervalInduction ==
  ASSUME NEW n \in Nat, NEW T, 0 \in T,
         \A i \in 1..n : i - 1 \in T => i \in T
  PROVE  \A i \in 0..n : i \in T
<1> SUFFICES ASSUME NEW k \in 0..n, k \notin T
             PROVE  FALSE
  OBVIOUS
<1> DEFINE U == {i \in 0..n : i \notin T}
           F == {0..i : i \in U}
<1>1. F \in SUBSET SUBSET (0..n) /\ F # {} /\ IsFiniteSet(0..n)
  <2>1. IsFiniteSet(0..n)
    BY FS_Interval
  <2>2. \A i \in U : 0..i \subseteq 0..n
    OBVIOUS
  <2> QED
    BY <2>1, <2>2
<1>2. PICK N \in F : \A M \in F : M \subseteq N => M = N
  <2> DEFINE R == 0..n
  <2>1. F \in SUBSET SUBSET R /\ F # {} /\ IsFiniteSet(R)
    BY <1>1
  <2> HIDE DEF F, R
  <2> QED
    BY <2>1, MinimalSubset
<1>3. PICK i \in U : N = 0..i
  OBVIOUS
<1>4. i \in 1..n /\ i - 1 \in 0..n
  OBVIOUS
<1>5. i - 1 \notin T
  BY <1>4
<1>6. 0..(i - 1) \in F
  BY <1>4, <1>5
<1>7. 0..(i - 1) \subseteq N /\ i \in N /\ i \notin 0..(i - 1)
  BY <1>3, <1>4
<1> QED
  BY <1>2, <1>6, <1>7
-----------------------------------------------------------------------------
(* A function on 0..n may be defined by its value at 0 and from each value   *)
(* to the next.                                                              *)
IntervalStep(step, n, V) == step \in [(1..n) \X V -> V]

SolvesOnInterval(f, n, V, base, step) ==
  /\ f \in [0..n -> V]
  /\ \A i \in 0..n : f[i] = IF i = 0 THEN base ELSE step[<<i, f[i - 1]>>]

LEMMA IntervalRecursion ==
  ASSUME NEW n, n \in Nat, NEW V, NEW base, base \in V, NEW step, IntervalStep(step, n, V)
  PROVE  \E f : SolvesOnInterval(f, n, V, base, step)
<1>0. step \in [(1..n) \X V -> V]
  BY DEF IntervalStep
<1> DEFINE Solves(f, k) ==
             \A i \in 0..k : f[i] = IF i = 0 THEN base ELSE step[<<i, f[i - 1]>>]
           T == {k \in 0..n : \E f \in [0..k -> V] : Solves(f, k)}
<1>1. 0 \in T
  <2> DEFINE f == [i \in 0..0 |-> base]
  <2>1. f \in [0..0 -> V] /\ Solves(f, 0)
    OBVIOUS
  <2> HIDE DEF f, Solves
  <2> QED
    BY <2>1
<1>2. ASSUME NEW k \in 1..n, k - 1 \in T
      PROVE  k \in T
  <2>1. PICK f \in [0..(k-1) -> V] : Solves(f, k - 1)
    BY <1>2
  <2> DEFINE g == [i \in 0..k |-> IF i = k THEN step[<<k, f[k - 1]>>] ELSE f[i]]
  <2>2. g \in [0..k -> V]
    <3>1. k - 1 \in 0..(k - 1) /\ \A i \in 0..k : i # k => i \in 0..(k - 1)
      OBVIOUS
    <3>2. step[<<k, f[k - 1]>>] \in V /\ \A i \in 0..(k - 1) : f[i] \in V
      BY <1>0, <3>1
    <3> HIDE DEF Solves
    <3> QED
      BY <3>1, <3>2
  <2>3. ASSUME NEW i \in 0..k
        PROVE  g[i] = IF i = 0 THEN base ELSE step[<<i, g[i - 1]>>]
    <3>1. CASE i = k
      <4>1. k # 0 /\ k - 1 \in 0..k /\ k - 1 # k
        OBVIOUS
      <4> QED
        BY <3>1, <4>1
    <3>2. CASE i # k
      <4>1. i \in 0..(k - 1) /\ (i # 0 => i - 1 \in 0..k /\ i - 1 # k)
        BY <3>2
      <4>2. f[i] = IF i = 0 THEN base ELSE step[<<i, f[i - 1]>>]
        BY <2>1, <4>1
      <4> QED
        BY <3>2, <4>1, <4>2
    <3> QED
      BY <3>1, <3>2
  <2>4. Solves(g, k)
    BY <2>2, <2>3
  <2> HIDE DEF g, Solves
  <2> QED
    BY <2>2, <2>4
<1>3. n \in T
  <2> HIDE DEF T
  <2>1. \A i \in 0..n : i \in T
    BY <1>1, <1>2, IntervalInduction
  <2> QED
    BY <2>1
<1> QED
  BY <1>3 DEF SolvesOnInterval

(* A function on the subsets of a finite set may be defined by its value at  *)
(* the empty set and from the value of a set without the element that is     *)
(* picked from it.                                                           *)
Picks(pick, S) == \A N \in SUBSET S : N # {} => pick[N] \in N

SubsetStep(step, S, V) == step \in [(SUBSET S) \X V -> V]

SolvesOnSubsets(f, S, V, base, step, pick) ==
  /\ f \in [SUBSET S -> V]
  /\ \A N \in SUBSET S : f[N] = IF N = {} THEN base ELSE step[<<N, f[N \ {pick[N]}]>>]

LEMMA SubsetRecursion ==
  ASSUME NEW S, IsFiniteSet(S), NEW V, NEW base, base \in V,
         NEW step, SubsetStep(step, S, V), NEW pick, Picks(pick, S)
  PROVE  \E f : SolvesOnSubsets(f, S, V, base, step, pick)
<1>0. /\ step \in [(SUBSET S) \X V -> V]
      /\ \A N \in SUBSET S : N # {} => pick[N] \in N
  BY DEF SubsetStep, Picks
<1> DEFINE Solves(f, D) ==
             /\ f \in [D -> V]
             /\ \A N \in D :
                  /\ N # {} => N \ {pick[N]} \in D
                  /\ f[N] = IF N = {} THEN base ELSE step[<<N, f[N \ {pick[N]}]>>]
           Covered == {N \in SUBSET S : \E D \in SUBSET SUBSET S : \E f \in [D -> V] :
                                         N \in D /\ Solves(f, D)}
<1> HIDE DEF Solves, Covered
\* Any two solutions agree where both are defined.
<1>1. ASSUME NEW D \in SUBSET SUBSET S, NEW E \in SUBSET SUBSET S, NEW f, NEW g,
             Solves(f, D), Solves(g, E)
      PROVE  \A N \in D \cap E : f[N] = g[N]
  <2> DEFINE Differ == {N \in D \cap E : f[N] # g[N]}
  <2> SUFFICES ASSUME Differ # {}
               PROVE  FALSE
    OBVIOUS
  <2>1. PICK N \in Differ : \A M \in Differ : M \subseteq N => M = N
    <3>1. Differ \in SUBSET SUBSET S
      OBVIOUS
    <3> HIDE DEF Differ
    <3> QED
      BY <3>1, MinimalSubset
  <2>2. N # {}
    BY <1>1 DEF Solves
  <2> DEFINE M == N \ {pick[N]}
  <2>3. pick[N] \in N /\ M \in D \cap E
    BY <1>0, <1>1, <2>2 DEF Solves
  <2>4. f[M] = g[M]
    BY <2>1, <2>3
  <2>5. f[N] = step[<<N, f[M]>>] /\ g[N] = step[<<N, g[M]>>]
    BY <1>1, <2>2 DEF Solves
  <2> QED
    BY <2>4, <2>5
\* Every subset is in the domain of one.
<1>2. {} \in Covered
  <2> DEFINE D == {{}}
             f == [N \in D |-> base]
  <2>1. D \in SUBSET SUBSET S /\ f \in [D -> V] /\ Solves(f, D)
    BY DEF Solves
  <2> QED
    BY <2>1 DEF Covered
<1>3. ASSUME NEW N \in SUBSET S, N # {}, N \ {pick[N]} \in Covered
      PROVE  N \in Covered
  <2> DEFINE M == N \ {pick[N]}
  <2>0. PICK D \in SUBSET SUBSET S : \E f \in [D -> V] : M \in D /\ Solves(f, D)
    BY <1>3 DEF Covered
  <2>1. PICK f \in [D -> V] : M \in D /\ Solves(f, D)
    BY <2>0
  <2>2. CASE N \in D
    BY <2>1, <2>2 DEF Covered
  <2>3. CASE N \notin D
    <3> DEFINE E == D \cup {N}
               g == [K \in E |-> IF K = N THEN step[<<N, f[M]>>] ELSE f[K]]
    <3>1. E \in SUBSET SUBSET S /\ g \in [E -> V]
      BY <1>0, <2>1
    <3>2. M # N /\ g[M] = f[M] /\ g[N] = step[<<N, g[M]>>] /\ M \in E
      BY <1>0, <1>3, <2>1
    <3>3. ASSUME NEW K \in D
          PROVE  /\ K # {} => K \ {pick[K]} \in E
                 /\ g[K] = IF K = {} THEN base ELSE step[<<K, g[K \ {pick[K]}]>>]
      <4>1. g[K] = f[K] /\ (K # {} => K \ {pick[K]} \in D)
        BY <2>1, <2>3 DEF Solves
      <4>2. K # {} => g[K \ {pick[K]}] = f[K \ {pick[K]}]
        BY <2>3, <4>1
      <4> QED
        BY <2>1, <4>1, <4>2 DEF Solves
    <3>4. Solves(g, E)
      <4> HIDE DEF g
      <4> QED
        BY <1>3, <3>1, <3>2, <3>3 DEF Solves
    <3>5. N \in E
      OBVIOUS
    <3> HIDE DEF E, g
    <3> QED
      BY <3>1, <3>4, <3>5 DEF Covered
  <2> QED
    BY <2>2, <2>3
<1>4. Covered = SUBSET S
  <2>1. \A N \in SUBSET S : N # {} => \E x \in N : N \ {x} \in Covered => N \in Covered
    BY <1>0, <1>3
  <2>2. Covered \in SUBSET SUBSET S
    BY DEF Covered
  <2> QED
    BY <1>2, <2>1, <2>2, FiniteSubsetInduction
\* Together they are the function.
<1> DEFINE Value(N) ==
             CHOOSE v \in V : \E D \in SUBSET SUBSET S : \E f \in [D -> V] :
                               N \in D /\ Solves(f, D) /\ v = f[N]
           h == [N \in SUBSET S |-> Value(N)]
<1> HIDE DEF Value
<1>5. ASSUME NEW D \in SUBSET SUBSET S, NEW f \in [D -> V], Solves(f, D), NEW N \in D
      PROVE  h[N] = f[N]
  <2>1. \E v \in V : \E E \in SUBSET SUBSET S : \E g \in [E -> V] :
          N \in E /\ Solves(g, E) /\ v = g[N]
    BY <1>5
  <2>2. PICK E \in SUBSET SUBSET S :
               \E g \in [E -> V] : N \in E /\ Solves(g, E) /\ Value(N) = g[N]
    BY <2>1 DEF Value
  <2>3. PICK g \in [E -> V] : N \in E /\ Solves(g, E) /\ Value(N) = g[N]
    BY <2>2
  <2>4. g[N] = f[N]
    BY <1>1, <1>5, <2>3
  <2> QED
    BY <2>3, <2>4
<1>6. ASSUME NEW N \in SUBSET S
      PROVE  h[N] \in V /\ h[N] = IF N = {} THEN base ELSE step[<<N, h[N \ {pick[N]}]>>]
  <2>0. PICK D \in SUBSET SUBSET S : \E f \in [D -> V] : N \in D /\ Solves(f, D)
    BY <1>4 DEF Covered
  <2>1. PICK f \in [D -> V] : N \in D /\ Solves(f, D)
    BY <2>0
  <2>2. h[N] = f[N] /\ (N # {} => h[N \ {pick[N]}] = f[N \ {pick[N]}])
    <3>1. N # {} => N \ {pick[N]} \in D
      BY <2>1 DEF Solves
    <3> HIDE DEF h
    <3> QED
      BY <1>5, <2>1, <3>1
  <2> HIDE DEF h
  <2> QED
    BY <2>1, <2>2 DEF Solves
<1>7. h \in [SUBSET S -> V]
  BY <1>6
<1> HIDE DEF h
<1> QED
  BY <1>6, <1>7 DEF SolvesOnSubsets

-----------------------------------------------------------------------------
LEMMA CardUpTo ==
  ASSUME NEW n \in Nat
  PROVE  IsFiniteSet(1..n) /\ Cardinality(1..n) = n
<1>1. IsFiniteSet(1..n)
  BY FS_Interval
<1>2. Cardinality(1..n) = n
  BY FS_Interval
<1> QED
  BY <1>1, <1>2

(* Ascending lists each member of a finite set of numbers once, least first. *)
LEMMA RankFacts ==
  ASSUME NEW S, \A x \in S : x \in Int, IsFiniteSet(S)
  PROVE  \A i \in S : /\ Rank(S, i) \in 0..(Cardinality(S) - 1)
                      /\ \A j \in S : i < j => Rank(S, i) < Rank(S, j)
<1> DEFINE Below(i) == {j \in S : j < i}
<1>1. \A i : IsFiniteSet(Below(i)) /\ Cardinality(Below(i)) \in Nat
  <2> TAKE i
  <2>1. Below(i) \in SUBSET S
    OBVIOUS
  <2> HIDE DEF Below
  <2> QED
    BY <2>1, FS_Subset, FS_CardinalityType
<1>2. ASSUME NEW i \in S, NEW T \in SUBSET S, Below(i) \subseteq T, i \in T
      PROVE  Rank(S, i) < Cardinality(T)
  <2>1. i \notin Below(i)
    OBVIOUS
  <2>2. IsFiniteSet(T) /\ Cardinality(T) \in Nat
    BY FS_Subset, FS_CardinalityType
  <2> HIDE DEF Below
  <2>3. Cardinality(Below(i)) <= Cardinality(T) /\ Cardinality(Below(i)) # Cardinality(T)
    <3>1. Below(i) \in SUBSET T /\ Below(i) # T
      BY <1>2, <2>1
    <3> QED
      BY <2>2, <3>1, FS_Subset
  <2>4. Cardinality(Below(i)) < Cardinality(T)
    BY <1>1, <2>2, <2>3
  <2> QED
    BY <2>4 DEF Rank, Below
<1> TAKE i \in S
<1>3. Rank(S, i) \in 0..(Cardinality(S) - 1)
  <2>1. Rank(S, i) \in Nat /\ Cardinality(S) \in Nat
    BY <1>1, FS_CardinalityType DEF Rank
  <2>2. Rank(S, i) < Cardinality(S)
    BY <1>2
  <2> QED
    BY <2>1, <2>2
<1>4. ASSUME NEW j \in S, i < j
      PROVE  Rank(S, i) < Rank(S, j)
  <2>1. Below(i) \subseteq Below(j) /\ i \in Below(j) /\ Below(j) \in SUBSET S
    BY <1>4
  <2>2. Rank(S, i) < Cardinality(Below(j))
    <3> HIDE DEF Below
    <3> QED
      BY <1>2, <2>1
  <2> QED
    BY <2>2 DEF Rank
<1> QED
  BY <1>3, <1>4

LEMMA AscendingRank ==
  ASSUME NEW S, \A x \in S : x \in Int, IsFiniteSet(S)
  PROVE  /\ Cardinality(S) \in Nat
         /\ Ascending(S) \in [1..Cardinality(S) -> S]
         /\ Len(Ascending(S)) = Cardinality(S)
         /\ \A k \in 1..Cardinality(S) : Rank(S, Ascending(S)[k]) = k - 1
         /\ \A i \in S : \E k \in 1..Cardinality(S) : Ascending(S)[k] = i
         /\ \A k, l \in 1..Cardinality(S) : k < l => Ascending(S)[k] < Ascending(S)[l]
<1> DEFINE n == Cardinality(S)
           r == [i \in S |-> Rank(S, i) + 1]
<1>1. n \in Nat
  BY FS_CardinalityType
<1>2. /\ \A i \in S : r[i] \in 1..n
      /\ \A i, j \in S : i < j => r[i] < r[j]
  <2>1. \A i \in S : /\ Rank(S, i) \in 0..(n - 1)
                     /\ \A j \in S : i < j => Rank(S, i) < Rank(S, j)
    BY RankFacts
  <2> QED
    BY <1>1, <2>1
<1>3. \A k \in 1..n : \E i \in S : r[i] = k
  <2> DEFINE N == 1..n
  <2>1. r \in Injection(S, N)
    <3>1. \A i, j \in S : i = j \/ i < j \/ j < i
      OBVIOUS
    <3>2. r \in [S -> N]
      BY <1>2
    <3>3. \A i, j \in S : r[i] = r[j] => i = j
      BY <1>1, <1>2, <3>1, <3>2
    <3> HIDE DEF r, N
    <3> QED
      BY <3>2, <3>3 DEF Injection, IsInjective
  <2>2. IsFiniteSet(N) /\ Cardinality(N) = Cardinality(S)
    BY <1>1, FS_Interval
  <2>3. r \in Surjection(S, N)
    <3> HIDE DEF r, N
    <3> QED
      BY <2>1, <2>2, FS_Injection
  <2> QED
    BY <2>3 DEF Surjection
<1>4. Ascending(S) = [k \in 1..n |-> CHOOSE i \in S : r[i] = k]
  <2>1. ASSUME NEW k \in 1..n
        PROVE  (CHOOSE i \in S : Rank(S, i) = k - 1) = CHOOSE i \in S : r[i] = k
    <3>1. \A i \in S : Rank(S, i) = k - 1 <=> r[i] = k
      <4> TAKE i \in S
      <4>1. Rank(S, i) \in 0..(n - 1)
        BY RankFacts
      <4> QED
        BY <1>1, <4>1
    <3> HIDE DEF r
    <3> QED
      BY <3>1
  <2> QED
    BY <2>1 DEF Ascending
<1> HIDE DEF r
<1> DEFINE a == Ascending(S)
<1>5. \A k \in 1..n : a[k] \in S /\ r[a[k]] = k
  BY <1>3, <1>4
<1>6. a \in [1..n -> S]
  BY <1>4, <1>5
<1>7. Len(a) = n
  BY <1>1, <1>4
<1>8. \A k, l \in 1..n : k < l => a[k] < a[l]
  <2> TAKE k, l \in 1..n
  <2> HAVE k < l
  <2>1. a[k] \in Int /\ a[l] \in Int
    BY <1>5
  <2>2. ~(a[l] < a[k]) /\ a[k] # a[l]
    <3>1. r[a[k]] = k /\ r[a[l]] = l /\ a[k] \in S /\ a[l] \in S
      BY <1>5
    <3> QED
      BY <1>1, <1>2, <3>1
  <2> QED
    BY <2>1, <2>2
<1>9. \A i \in S : \E k \in 1..n : a[k] = i
  <2> TAKE i \in S
  <2>1. r[i] \in 1..n
    BY <1>2
  <2>2. a[r[i]] \in S /\ r[a[r[i]]] = r[i]
    BY <1>5, <2>1
  <2>3. ~(a[r[i]] < i) /\ ~(i < a[r[i]])
    BY <1>1, <1>2, <2>1, <2>2
  <2>4. a[r[i]] = i
    BY <2>2, <2>3
  <2> QED
    BY <2>1, <2>4
<1>10. \A k \in 1..n : Rank(S, a[k]) = k - 1
  <2> TAKE k \in 1..n
  <2>1. a[k] \in S /\ Rank(S, a[k]) + 1 = k
    BY <1>5 DEF r
  <2>2. Rank(S, a[k]) \in 0..(n - 1)
    BY <2>1, RankFacts
  <2>3. Rank(S, a[k]) \in Nat
    BY <1>1, <2>2
  <2> QED
    BY <2>1, <2>3
<1> QED
  BY <1>1, <1>6, <1>7, <1>8, <1>9, <1>10

LEMMA AscendingFacts ==
  ASSUME NEW S, \A x \in S : x \in Int, IsFiniteSet(S)
  PROVE  /\ Cardinality(S) \in Nat
         /\ Ascending(S) \in [1..Cardinality(S) -> S]
         /\ Len(Ascending(S)) = Cardinality(S)
         /\ \A i \in S : \E k \in 1..Cardinality(S) : Ascending(S)[k] = i
         /\ \A k, l \in 1..Cardinality(S) : k < l => Ascending(S)[k] < Ascending(S)[l]
  BY AscendingRank

(* ElementsAt keeps the elements at the positions in I, and their order.     *)
LEMMA ElementsAtFacts ==
  ASSUME NEW V, NEW s \in Seq(V), NEW I \in SUBSET (1..Len(s))
  PROVE  /\ IsFiniteSet(I) /\ Cardinality(I) \in 0..Len(s)
         /\ ElementsAt(s, I) \in Seq(V) /\ Len(ElementsAt(s, I)) = Cardinality(I)
         /\ Ascending(I) \in [1..Cardinality(I) -> I]
         /\ \A k \in 1..Cardinality(I) : ElementsAt(s, I)[k] = s[Ascending(I)[k]]
<1>1. IsFiniteSet(1..Len(s)) /\ Cardinality(1..Len(s)) = Len(s) /\ Len(s) \in Nat
  <2>1. Len(s) \in Nat
    OBVIOUS
  <2> QED
    BY <2>1, CardUpTo
<1>2. IsFiniteSet(I) /\ Cardinality(I) \in Nat /\ Cardinality(I) <= Len(s)
  <2> DEFINE N == 1..Len(s)
  <2>1. IsFiniteSet(N) /\ Cardinality(N) = Len(s) /\ I \in SUBSET N
    BY <1>1
  <2> HIDE DEF N
  <2> QED
    BY <2>1, FS_Subset, FS_CardinalityType
<1>3. /\ Ascending(I) \in [1..Cardinality(I) -> I]
      /\ Len(Ascending(I)) = Cardinality(I)
  <2>1. \A x \in I : x \in Int
    OBVIOUS
  <2> QED
    BY <1>2, <2>1, AscendingFacts
<1>4. \A k \in 1..Cardinality(I) : s[Ascending(I)[k]] \in V
  <2> TAKE k \in 1..Cardinality(I)
  <2>1. Ascending(I)[k] \in 1..Len(s)
    BY <1>3
  <2>2. \A j \in 1..Len(s) : s[j] \in V
    OBVIOUS
  <2> QED
    BY <2>1, <2>2
<1>5. ElementsAt(s, I) = [k \in 1..Cardinality(I) |-> s[Ascending(I)[k]]]
  BY <1>3 DEF ElementsAt
<1> QED
  BY <1>1, <1>2, <1>3, <1>4, <1>5
=============================================================================
