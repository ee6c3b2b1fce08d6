---------------------------- MODULE EngineProofs ----------------------------
(***************************************************************************)
(* What is true of the document operations for any pages, transactions,      *)
(* documents, edits and page size.                                           *)
(*                                                                           *)
(* Of a text in pieces first: the pieces make it up, and so do the pages     *)
(* they are on.  Then the inductive invariant, in two halves.  LInv is       *)
(* about locks: a request holds its pages from the first one on, in the      *)
(* order of their numbers, and waits for the one behind them at most.        *)
(* DInv is about data: what is committed stays as a request found it until   *)
(* the request ends, because it holds the first page.  The lemmas whose      *)
(* names end in L or in D are about one operation and one half each.         *)
(***************************************************************************)
EXTENDS Engine, LockManagerProofs, SequenceTheorems

(* Joining sequences, one after the other.                                   *)
Joins(f, s, V) ==
  /\ f \in [0..Len(s) -> Seq(V)]
  /\ f[0] = << >>
  /\ \A i \in 1..Len(s) : f[i] = f[i - 1] \o s[i]

(* FlattenSeq is such a join.                                                *)
LEMMA FlattenJoins ==
  ASSUME NEW V, NEW s \in Seq(Seq(V))
  PROVE  \E f : Joins(f, s, V) /\ FlattenSeq(s) = f[Len(s)]
<1> DEFINE n == Len(s)
           W == Seq(V)
           base == << >>
           step == [x \in (1..n) \X W |-> x[2] \o s[x[1]]]
<1>1. n \in Nat /\ base \in W /\ \A i \in 1..n : s[i] \in W
  BY EmptySeq, ElementOfSeq
<1>2. IntervalStep(step, n, W)
  <2>1. \A x \in (1..n) \X W : x[2] \o s[x[1]] \in W
    BY <1>1, ConcatProperties
  <2> QED
    BY <2>1 DEF IntervalStep
<1>3. PICK f : SolvesOnInterval(f, n, W, base, step)
  <2> HIDE DEF n, W, base, step
  <2> QED
    BY <1>1, <1>2, IntervalRecursion
<1>4. /\ f \in [0..n -> W] /\ f[0] = << >>
      /\ \A i \in 1..n : f[i] = f[i - 1] \o s[i]
  <2>1. /\ f \in [0..n -> W]
        /\ \A i \in 0..n : f[i] = IF i = 0 THEN base ELSE step[<<i, f[i - 1]>>]
    BY <1>3 DEF SolvesOnInterval
  <2>2. ASSUME NEW i \in 1..n PROVE f[i] = f[i - 1] \o s[i]
    <3>1. i \in 0..n /\ i # 0 /\ i - 1 \in 0..n
      BY <1>1
    <3>2. f[i] = step[<<i, f[i - 1]>>] /\ f[i - 1] \in W
      BY <2>1, <3>1
    <3>3. <<i, f[i - 1]>> \in (1..n) \X W
      BY <3>2
    <3> QED
      BY <3>2, <3>3
  <2>3. 0 \in 0..n
    BY <1>1
  <2> QED
    BY <2>1, <2>2, <2>3
<1>5. FlattenSeq(s) = f[n]
  <2>1. CASE n = 0
    <3>1. s = << >>
      BY <2>1
    <3> QED
      BY <1>4, <2>1, <3>1 DEF FlattenSeq
  <2>2. CASE n # 0
    <3> DEFINE Flat(g) == g = [i \in 1..n |-> IF i = 1 THEN s[i] ELSE g[i - 1] \o s[i]]
               h == [i \in 1..n |-> f[i]]
               g == CHOOSE g : Flat(g)
    <3>1. FlattenSeq(s) = g[n]
      BY <2>2 DEF FlattenSeq
    <3>2. Flat(h)
      <4>1. ASSUME NEW i \in 1..n PROVE h[i] = IF i = 1 THEN s[i] ELSE h[i - 1] \o s[i]
        <5>1. CASE i = 1
          <6>1. f[i] = << >> \o s[i]
            <7>1. i - 1 = 0
              BY <5>1
            <7> QED
              BY <1>4, <7>1
          <6> QED
            BY <1>1, <5>1, <6>1, ConcatEmptySeq
        <5>2. CASE i # 1
          <6>1. i - 1 \in 1..n
            BY <1>1, <5>2
          <6> QED
            BY <1>4, <5>2, <6>1
        <5> QED
          BY <5>1, <5>2
      <4> QED
        BY <4>1
    <3>3. Flat(g)
      <4> HIDE DEF Flat, h
      <4> QED
        BY <3>2
    <3>4. g[n] = f[n]
      <4> HIDE DEF g
      <4> DEFINE T == {i \in 0..n : i = 0 \/ g[i] = f[i]}
      <4>1. 0 \in T
        BY <1>1
      <4>2. ASSUME NEW i \in 1..n, i - 1 \in T PROVE i \in T
        <5>0. g[i] = IF i = 1 THEN s[i] ELSE g[i - 1] \o s[i]
          BY <3>3
        <5>1. h[i] = IF i = 1 THEN s[i] ELSE h[i - 1] \o s[i]
          BY <3>2
        <5>2. CASE i = 1
          BY <5>0, <5>1, <5>2
        <5>3. CASE i # 1
          <6>1. i - 1 \in 1..n
            BY <1>1, <5>3
          <6>2. g[i - 1] = f[i - 1]
            BY <4>2, <6>1
          <6>3. g[i] = g[i - 1] \o s[i]
            BY <5>0, <5>3
          <6>4. f[i] = f[i - 1] \o s[i]
            BY <1>4
          <6>5. g[i] = f[i]
            BY <6>2, <6>3, <6>4
          <6> QED
            BY <1>1, <6>5
        <5> QED
          BY <5>2, <5>3
      <4> HIDE DEF T, n
      <4>3. \A i \in 0..n : i \in T
        BY <1>1, <4>1, <4>2, IntervalInduction
      <4> QED
        BY <1>1, <2>2, <4>3 DEF T
    <3> QED
      BY <3>1, <3>4
  <2> QED
    BY <2>1, <2>2
<1> QED
  BY <1>4, <1>5 DEF Joins

(* Sequences that agree up to k join alike up to k.                          *)
LEMMA JoinsAgree ==
  ASSUME NEW V, NEW s, NEW t, NEW f, NEW g, Joins(f, s, V), Joins(g, t, V),
         Len(s) \in Nat, Len(t) \in Nat,
         NEW k \in Nat, k <= Len(s), k <= Len(t), \A i \in 1..k : s[i] = t[i]
  PROVE  f[k] = g[k]
<1> DEFINE T == {i \in 0..k : f[i] = g[i]}
<1>1. 0 \in T
  BY DEF Joins
<1>2. ASSUME NEW i \in 1..k, i - 1 \in T PROVE i \in T
  <2>1. i \in 1..Len(s) /\ i \in 1..Len(t) /\ i \in 0..k
    OBVIOUS
  <2>2. f[i] = f[i - 1] \o s[i] /\ g[i] = g[i - 1] \o t[i]
    BY <2>1 DEF Joins
  <2>3. f[i - 1] = g[i - 1] /\ s[i] = t[i]
    BY <1>2
  <2>4. f[i] = g[i]
    BY <2>2, <2>3
  <2> QED
    BY <2>1, <2>4
<1> HIDE DEF T
<1>3. \A i \in 0..k : i \in T
  BY <1>1, <1>2, IntervalInduction
<1> QED
  BY <1>3 DEF T

(* ... and a join stays the same over blanks.                                *)
LEMMA JoinsBlank ==
  ASSUME NEW V, NEW s, NEW f, Joins(f, s, V), Len(s) \in Nat,
         NEW k \in 0..Len(s), \A i \in (k+1)..Len(s) : s[i] = << >>
  PROVE  f[Len(s)] = f[k]
<1> DEFINE m == Len(s) - k
           T == {i \in 0..m : f[k + i] = f[k]}
<1>1. m \in Nat /\ 0 \in T
  OBVIOUS
<1>2. ASSUME NEW i \in 1..m, i - 1 \in T PROVE i \in T
  <2>1. k + i \in 1..Len(s) /\ k + i \in (k+1)..Len(s) /\ (k + i) - 1 = k + (i - 1)
        /\ k + (i - 1) \in 0..Len(s)
    BY <1>1
  <2>2. f[k + i] = f[k + (i - 1)] \o << >>
    BY <2>1 DEF Joins
  <2>3. f[k + (i - 1)] \in Seq(V)
    BY <2>1 DEF Joins
  <2>4. f[k + i] = f[k + (i - 1)]
    BY <2>2, <2>3, ConcatEmptySeq
  <2>5. f[k + (i - 1)] = f[k] /\ i \in 0..m
    BY <1>1, <1>2
  <2> QED
    BY <2>4, <2>5
<1>3. \A i \in 0..m : i \in T
  <2> HIDE DEF T, m
  <2> QED
    BY <1>1, <1>2, IntervalInduction
<1>4. m \in T /\ k + m = Len(s)
  <2>1. m \in 0..m /\ k + m = Len(s)
    BY <1>1
  <2> QED
    BY <1>3, <2>1
<1> QED
  BY <1>4

(* It is a sequence of what its parts are sequences of.                      *)
LEMMA FlattenType ==
  ASSUME NEW V, NEW s \in Seq(Seq(V))
  PROVE  FlattenSeq(s) \in Seq(V)
<1>1. PICK f : Joins(f, s, V) /\ FlattenSeq(s) = f[Len(s)]
  BY FlattenJoins
<1> QED
  BY <1>1 DEF Joins

(* One more part is joined at the end, ...                                   *)
LEMMA FlattenAppend ==
  ASSUME NEW V, NEW s \in Seq(Seq(V)), NEW x \in Seq(V)
  PROVE  FlattenSeq(Append(s, x)) = FlattenSeq(s) \o x
<1>0. PICK t : t = Append(s, x)
  OBVIOUS
<1>1. /\ t \in Seq(Seq(V)) /\ Len(t) = Len(s) + 1 /\ Len(s) \in Nat
      /\ \A i \in 1..Len(s) : s[i] = t[i]
      /\ t[Len(s) + 1] = x
  BY <1>0, AppendProperties
<1>2. PICK f : Joins(f, s, V) /\ FlattenSeq(s) = f[Len(s)]
  BY FlattenJoins
<1>3. PICK g : Joins(g, t, V) /\ FlattenSeq(t) = g[Len(t)]
  BY <1>1, FlattenJoins
<1>4. f[Len(s)] = g[Len(s)]
  <2>1. PICK k : k = Len(s)
    OBVIOUS
  <2>2. /\ Len(s) \in Nat /\ Len(t) \in Nat /\ k \in Nat /\ k <= Len(s) /\ k <= Len(t)
        /\ \A i \in 1..k : s[i] = t[i]
    BY <1>1, <2>1
  <2>3. f[k] = g[k]
    BY <1>2, <1>3, <2>2, JoinsAgree
  <2> QED
    BY <2>1, <2>3
<1>5. g[Len(t)] = g[Len(s)] \o x
  <2>1. Len(t) \in 1..Len(t) /\ Len(t) - 1 = Len(s) /\ t[Len(t)] = x
    BY <1>1
  <2> QED
    BY <1>3, <2>1 DEF Joins
<1> QED
  BY <1>0, <1>2, <1>3, <1>4, <1>5

(* Blanks at the end add nothing.                                            *)
LEMMA FlattenPadded ==
  ASSUME NEW V, NEW s \in Seq(Seq(V)), NEW t \in Seq(Seq(V)), Len(t) <= Len(s),
         \A i \in 1..Len(s) : s[i] = IF i <= Len(t) THEN t[i] ELSE << >>
  PROVE  FlattenSeq(s) = FlattenSeq(t)
<1>2. PICK f : Joins(f, s, V) /\ FlattenSeq(s) = f[Len(s)]
  BY FlattenJoins
<1>3. PICK g : Joins(g, t, V) /\ FlattenSeq(t) = g[Len(t)]
  BY FlattenJoins
<1>1. PICK k : k = Len(t)
  OBVIOUS
<1>4. k \in Nat /\ Len(s) \in Nat /\ Len(t) \in Nat /\ k <= Len(s) /\ k <= Len(t)
      /\ \A i \in 1..k : s[i] = t[i]
  <2>1. k \in Nat /\ Len(s) \in Nat /\ k <= Len(s)
    BY <1>1, LenProperties
  <2>2. ASSUME NEW i \in 1..k PROVE s[i] = t[i]
    <3>1. i \in 1..Len(s) /\ i <= Len(t)
      BY <1>1, <2>1
    <3> QED
      BY <3>1
  <2> QED
    BY <1>1, <2>1, <2>2
<1>5. f[k] = g[k]
  BY <1>1, <1>2, <1>3, <1>4, JoinsAgree
<1>6. k \in 0..Len(s)
  BY <1>4
<1>7. f[Len(s)] = f[k]
  <2>1. ASSUME NEW i \in (k + 1)..Len(s) PROVE s[i] = << >>
    <3>1. i \in 1..Len(s) /\ ~(i <= Len(t))
      BY <1>1, <1>4
    <3> QED
      BY <3>1
  <2>2. \A i \in (k + 1)..Len(s) : s[i] = << >>
    BY <2>1
  <2>3. Joins(f, s, V) /\ Len(s) \in Nat /\ k \in 0..Len(s)
    BY <1>2, <1>4, <1>6
  <2> QED
    BY <2>2, <2>3, JoinsBlank
<1> QED
  BY <1>1, <1>2, <1>3, <1>5, <1>7

(* ... or in front.                                                          *)
LEMMA FlattenCons ==
  ASSUME NEW V, NEW s \in Seq(Seq(V)), NEW x \in Seq(V)
  PROVE  FlattenSeq(<<x>> \o s) = x \o FlattenSeq(s)
<1>0. PICK t : t = <<x>> \o s
  OBVIOUS
<1>1. /\ t \in Seq(Seq(V)) /\ Len(t) = Len(s) + 1 /\ Len(s) \in Nat
      /\ \A i \in 1..Len(s) : t[i + 1] = s[i]
      /\ t[1] = x
  <2>1. <<x>> \in Seq(Seq(V)) /\ Len(<<x>>) = 1
    OBVIOUS
  <2> QED
    BY <1>0, <2>1, ConcatProperties
<1>2. PICK f : Joins(f, s, V) /\ FlattenSeq(s) = f[Len(s)]
  BY FlattenJoins
<1>3. PICK g : Joins(g, t, V) /\ FlattenSeq(t) = g[Len(t)]
  BY <1>1, FlattenJoins
<1> DEFINE n == Len(s)
           T == {i \in 0..n : g[i + 1] = x \o f[i]}
<1>4. 0 \in T
  <2>1. g[1] = << >> \o x /\ f[0] = << >>
    <3>1. 1 \in 1..Len(t) /\ 1 - 1 = 0
      BY <1>1
    <3>2. g[1] = g[1 - 1] \o t[1] /\ g[0] = << >> /\ f[0] = << >>
      BY <1>2, <1>3, <3>1 DEF Joins
    <3> QED
      BY <1>1, <3>1, <3>2
  <2>2. << >> \o x = x /\ x \o << >> = x
    BY ConcatEmptySeq
  <2> QED
    BY <1>1, <2>1, <2>2
<1>5. ASSUME NEW i \in 1..n, i - 1 \in T PROVE i \in T
  <2>1. i + 1 \in 1..Len(t) /\ i \in 1..Len(s) /\ (i + 1) - 1 = i /\ (i - 1) + 1 = i
        /\ i - 1 \in 0..Len(s)
    BY <1>1
  <2>2. g[i + 1] = g[i] \o s[i] /\ f[i] = f[i - 1] \o s[i]
    BY <1>1, <1>2, <1>3, <2>1 DEF Joins
  <2>3. g[i] = x \o f[i - 1]
    BY <1>5, <2>1
  <2>4. f[i - 1] \in Seq(V) /\ s[i] \in Seq(V)
    BY <1>2, <2>1, ElementOfSeq DEF Joins
  <2>5. (x \o f[i - 1]) \o s[i] = x \o (f[i - 1] \o s[i])
    <3>1. PICK a : a = f[i - 1]
      OBVIOUS
    <3>2. PICK b : b = s[i]
      OBVIOUS
    <3>3. a \in Seq(V) /\ b \in Seq(V)
      BY <2>4, <3>1, <3>2
    <3>4. (x \o a) \o b = x \o (a \o b)
      BY <3>3, ConcatAssociative
    <3> QED
      BY <3>1, <3>2, <3>4
  <2>6. g[i + 1] = x \o f[i] /\ i \in 0..n
    BY <1>1, <2>2, <2>3, <2>5
  <2> QED
    BY <2>6
<1>6. \A i \in 0..n : i \in T
  <2>1. n \in Nat
    BY <1>1
  <2> HIDE DEF T, n
  <2> QED
    BY <1>4, <1>5, <2>1, IntervalInduction
<1>7. g[n + 1] = x \o f[n]
  BY <1>1, <1>6
<1> QED
  BY <1>0, <1>1, <1>2, <1>3, <1>7

(* A text is cut into pieces that make it up again, whatever fits on a page: *)
(* the recursion ends because a page behind the first one holds at least one *)
(* byte.                                                                     *)
LEMMA PieceEnds ==
  ASSUME NEW n \in Nat, NEW o \in 0..n, NEW c \in Nat, NEW P,
         P = {end \in o..Min({n, o + c}) : TRUE}
  PROVE  Max(P) \in (IF c > 0 /\ o < n THEN o + 1 ELSE o)..n
<1>1. Min({n, o + c}) \in o..n /\ (c > 0 /\ o < n => Min({n, o + c}) > o)
  <2> DEFINE S == {n, o + c}
  <2>1. IsFiniteSet(S) /\ S # {} /\ \A x \in S : x \in Int
    <3>1. S \subseteq 0..(n + o + c) /\ IsFiniteSet(0..(n + o + c))
      BY FS_Interval
    <3>2. IsFiniteSet(S)
      <4> HIDE DEF S
      <4> QED
        BY <3>1, FS_Subset
    <3> QED
      BY <3>2
  <2>2. Min(S) \in S /\ \A y \in S : Min(S) <= y
    <3> HIDE DEF S
    <3> QED
      BY <2>1, LeastMember
  <2> QED
    BY <2>2
<1>2. PICK m : m = Min({n, o + c})
  OBVIOUS
<1>3. P = o..m /\ m \in P /\ m \in Nat
  BY <1>1, <1>2
<1>4. IsFiniteSet(P) /\ P # {} /\ \A x \in P : x \in Int
  <2>1. IsFiniteSet(o..m)
    BY <1>3, FS_Interval
  <2>2. IsFiniteSet(P)
    BY <1>3, <2>1
  <2>3. \A x \in P : x \in Int
    BY <1>3
  <2> QED
    BY <1>3, <2>2, <2>3
<1>5. Max(P) \in P /\ \A y \in P : Max(P) >= y
  BY <1>4, GreatestMember
<1>6. PICK z : z = Max(P)
  OBVIOUS
<1>7. z \in o..m /\ z >= m
  BY <1>3, <1>5, <1>6
<1>8. m \in o..n /\ (c > 0 /\ o < n => m > o)
  BY <1>1, <1>2
<1>9. z = m
  BY <1>7, <1>8
<1> QED
  BY <1>6, <1>8, <1>9

(* What splitIntoChunks (Engine.js) returns, of bytes that may be cut        *)
(* anywhere.                                                                 *)
LEMMA PiecesMakeUp ==
  ASSUME NEW V, NEW bytes \in Seq(V), NEW m,
         chunkCapacity(0, m) \in Nat, chunkCapacity(1, m) \in Nat, chunkCapacity(1, m) > 0
  PROVE  /\ splitIntoChunks(bytes, m, {}) \in Seq(Seq(V))
         /\ Len(splitIntoChunks(bytes, m, {})) >= 1
         /\ FlattenSeq(splitIntoChunks(bytes, m, {})) = bytes
         /\ bytes = << >> => Len(splitIntoChunks(bytes, m, {})) = 1
<1> DEFINE n == Len(bytes)
           W == Seq(Seq(V))
           End(o, p) == Max({end \in o..Min({Len(bytes), o + chunkCapacity(p, m)}) :
                               end = o \/ end = Len(bytes) \/ bytes[end + 1] \notin {}})
           Piece(o) == <<SubSeq(bytes, o + 1, End(o, 1))>>
           Rest(r) == r = [o \in 0..Len(bytes) |->
                             IF o = Len(bytes) THEN << >> ELSE Piece(o) \o r[End(o, 1)]]
           rest == CHOOSE r : Rest(r)
<1>1. n \in Nat
  OBVIOUS
<1>2. splitIntoChunks(bytes, m, {}) = <<SubSeq(bytes, 1, End(0, 0))>> \o rest[End(0, 0)]
  BY DEF splitIntoChunks
<1>3. ASSUME NEW o \in 0..n
      PROVE  /\ End(o, 0) \in o..n
             /\ End(o, 1) \in o..n
             /\ o < n => End(o, 1) \in (o + 1)..n
  <2> DEFINE P(p) == {end \in o..Min({n, o + chunkCapacity(p, m)}) : TRUE}
  <2>1. End(o, 0) = Max(P(0)) /\ End(o, 1) = Max(P(1))
    OBVIOUS
  <2>2. Max(P(0)) \in o..n
    <3>1. Max(P(0)) \in (IF chunkCapacity(0, m) > 0 /\ o < n THEN o + 1 ELSE o)..n
      BY <1>1, PieceEnds
    <3> HIDE DEF P
    <3> QED
      BY <1>1, <3>1
  <2>3. Max(P(1)) \in o..n /\ (o < n => Max(P(1)) > o)
    <3>1. Max(P(1)) \in (IF chunkCapacity(1, m) > 0 /\ o < n THEN o + 1 ELSE o)..n
      BY <1>1, PieceEnds
    <3> HIDE DEF P
    <3> QED
      BY <1>1, <3>1
  <2> HIDE DEF P, End
  <2> QED
    BY <1>1, <2>1, <2>2, <2>3
<1> HIDE DEF End
<1>4. ASSUME NEW o \in 0..n, NEW e \in o..n
      PROVE  SubSeq(bytes, o + 1, e) \in Seq(V) /\ <<SubSeq(bytes, o + 1, e)>> \in W
  <2>1. \A i \in (o + 1)..e : bytes[i] \in V
    BY <1>1, ElementOfSeq
  <2>2. SubSeq(bytes, o + 1, e) \in Seq(V)
    BY <1>1, <2>1, SubSeqProperties
  <2> QED
    BY <2>2
<1>5. \E r : Rest(r)
  <2> DEFINE Solves(f, k) ==
               /\ f \in [(n - k)..n -> W]
               /\ \A o \in (n - k)..n : f[o] = IF o = n THEN << >> ELSE Piece(o) \o f[End(o, 1)]
             T == {k \in 0..n : \E f : Solves(f, k)}
  <2>1. 0 \in T
    <3> DEFINE f == [o \in (n - 0)..n |-> << >>]
    <3>1. << >> \in W
      BY EmptySeq
    <3>2. Solves(f, 0)
      BY <1>1, <3>1
    <3> HIDE DEF Solves, f
    <3> QED
      BY <1>1, <3>2
  <2>2. ASSUME NEW k \in 1..n, k - 1 \in T PROVE k \in T
    <3>1. PICK f : Solves(f, k - 1)
      BY <2>2
    <3> DEFINE b == n - k
               g == [o \in b..n |-> IF o = b THEN Piece(o) \o f[End(o, 1)] ELSE f[o]]
    <3>2. /\ b \in 0..n /\ b # n /\ n - (k - 1) = b + 1
          /\ End(b, 1) \in (b + 1)..n
      <4>1. b \in 0..n /\ b # n /\ n - (k - 1) = b + 1 /\ b < n
        BY <1>1
      <4> HIDE DEF b, n
      <4> QED
        BY <1>3, <4>1
    <3>3. /\ f \in [(b + 1)..n -> W]
          /\ \A o \in (b + 1)..n : f[o] = IF o = n THEN << >> ELSE Piece(o) \o f[End(o, 1)]
      BY <3>1, <3>2
    <3>4. g \in [b..n -> W]
      <4>1. Piece(b) \in W
        BY <1>3, <1>4, <3>2
      <4>2. Piece(b) \o f[End(b, 1)] \in W
        <5>1. f[End(b, 1)] \in W
          BY <3>2, <3>3
        <5> HIDE DEF Piece, W
        <5> QED
          BY <4>1, <5>1, ConcatProperties DEF W
      <4>3. \A o \in b..n : o # b => o \in (b + 1)..n
        BY <3>2
      <4> HIDE DEF Piece, W, b
      <4> QED
        BY <3>3, <4>2, <4>3
    <3>5. ASSUME NEW o \in b..n
          PROVE  g[o] = IF o = n THEN << >> ELSE Piece(o) \o g[End(o, 1)]
      <4>1. CASE o = b
        <5>1. g[End(b, 1)] = f[End(b, 1)]
          BY <3>2
        <5> QED
          BY <3>2, <4>1, <5>1
      <4>2. CASE o # b
        <5>1. o \in (b + 1)..n /\ o \in 0..n
          BY <3>2, <4>2
        <5>2. g[o] = f[o]
          BY <4>2
        <5>3. o # n => End(o, 1) \in b..n /\ End(o, 1) # b
          <6>1. PICK e : e = End(o, 1)
            OBVIOUS
          <6>2. o # n => o < n
            BY <1>1, <5>1
          <6>3. o # n => e \in (o + 1)..n
            BY <1>3, <5>1, <6>1, <6>2
          <6> QED
            BY <1>1, <3>2, <5>1, <6>1, <6>3
        <5>4. o # n => g[End(o, 1)] = f[End(o, 1)]
          BY <5>3
        <5> HIDE DEF g, Piece
        <5> QED
          BY <3>3, <5>1, <5>2, <5>4
      <4> QED
        BY <4>1, <4>2
    <3>6. Solves(g, k)
      BY <3>4, <3>5
    <3> HIDE DEF Solves, g
    <3> QED
      BY <3>6
  <2>3. n \in T
    <3> HIDE DEF T, n
    <3>1. \A k \in 0..n : k \in T
      BY <1>1, <2>1, <2>2, IntervalInduction
    <3> QED
      BY <1>1, <3>1
  <2>4. PICK f : Solves(f, n)
    BY <2>3
  <2>5. /\ f \in [0..n -> W]
        /\ \A o \in 0..n : f[o] = IF o = n THEN << >> ELSE Piece(o) \o f[End(o, 1)]
    <3>1. n - n = 0
      BY <1>1
    <3> QED
      BY <2>4, <3>1
  <2>6. Rest(f)
    <3> HIDE DEF Piece, W
    <3> QED
      BY <2>5
  <2> HIDE DEF Rest
  <2> QED
    BY <2>6
<1>6. Rest(rest)
  <2> HIDE DEF Rest
  <2> QED
    BY <1>5
<1>7. \A o \in 0..n : rest[o] = IF o = n THEN << >> ELSE Piece(o) \o rest[End(o, 1)]
  <2> HIDE DEF rest, Piece
  <2> QED
    BY <1>6
<1> HIDE DEF rest, Rest
<1> DEFINE Made(o) == rest[o] \in W /\ FlattenSeq(rest[o]) = SubSeq(bytes, o + 1, n)
<1>8. ASSUME NEW o \in 0..n, NEW e \in o..n, Made(e)
      PROVE  /\ <<SubSeq(bytes, o + 1, e)>> \o rest[e] \in W
             /\ Len(<<SubSeq(bytes, o + 1, e)>> \o rest[e]) >= 1
             /\ FlattenSeq(<<SubSeq(bytes, o + 1, e)>> \o rest[e]) = SubSeq(bytes, o + 1, n)
  <2>1. PICK x : x = SubSeq(bytes, o + 1, e)
    OBVIOUS
  <2>2. PICK y : y = rest[e]
    OBVIOUS
  <2>3. x \in Seq(V) /\ <<x>> \in W /\ y \in W /\ FlattenSeq(y) = SubSeq(bytes, e + 1, n)
    BY <1>4, <1>8, <2>1, <2>2
  <2>4. <<x>> \o y \in W /\ Len(<<x>> \o y) >= 1
    <3>1. Len(<<x>>) = 1 /\ Len(y) \in Nat
      BY <2>3, LenProperties
    <3> QED
      BY <2>3, <3>1, ConcatProperties
  <2>5. FlattenSeq(<<x>> \o y) = x \o FlattenSeq(y)
    BY <2>3, FlattenCons
  <2>6. x \o SubSeq(bytes, e + 1, n) = SubSeq(bytes, o + 1, n)
    <3>1. o + 1 \in 1..(Len(bytes) + 1) /\ e \in ((o + 1) - 1)..Len(bytes) /\ n \in e..Len(bytes)
      BY <1>1
    <3>2. PICK a : a = o + 1
      OBVIOUS
    <3>3. SubSeq(bytes, a, e) \o SubSeq(bytes, e + 1, n) = SubSeq(bytes, a, n)
      <4> HIDE DEF n
      <4> QED
        BY <3>1, <3>2, ConcatAdjacentSubSeq
    <3> QED
      BY <2>1, <3>2, <3>3
  <2> QED
    BY <2>1, <2>2, <2>3, <2>4, <2>5, <2>6
<1>9. \A o \in 0..n : Made(o)
  <2> DEFINE T == {k \in 0..n : \A o \in (n - k)..n : Made(o)}
  <2>0. Made(n)
    <3>1. rest[n] = << >>
      <4>1. n \in 0..n
        BY <1>1
      <4> HIDE DEF n, Piece
      <4> QED
        BY <1>7, <4>1
    <3>2. << >> \in W /\ FlattenSeq(<< >>) = << >>
      BY EmptySeq DEF FlattenSeq
    <3>3. SubSeq(bytes, n + 1, n) = << >>
      BY <1>1, SubSeqEmpty
    <3> QED
      BY <3>1, <3>2, <3>3
  <2>1. 0 \in T
    <3>1. \A o \in (n - 0)..n : o = n
      BY <1>1
    <3> HIDE DEF Made
    <3> QED
      BY <1>1, <2>0, <3>1
  <2>2. ASSUME NEW k \in 1..n, k - 1 \in T PROVE k \in T
    <3>1. PICK b : b = n - k
      OBVIOUS
    <3>2. b \in 0..n /\ b # n /\ n - (k - 1) = b + 1 /\ End(b, 1) \in (b + 1)..n /\ End(b, 1) \in b..n
      <4>1. b \in 0..n /\ b # n /\ n - (k - 1) = b + 1 /\ b < n
        BY <1>1, <3>1
      <4> HIDE DEF n
      <4> QED
        BY <1>3, <4>1
    <3>3. \A o \in (b + 1)..n : Made(o)
      BY <2>2, <3>2
    <3>4. Made(b)
      <4>1. PICK e \in b..n : e = End(b, 1) /\ Made(e)
        <5> HIDE DEF Made
        <5> QED
          BY <3>2, <3>3
      <4>2. rest[b] = <<SubSeq(bytes, b + 1, e)>> \o rest[e]
        BY <1>7, <3>2, <4>1
      <4> QED
        BY <1>8, <3>2, <4>1, <4>2
    <3>5. \A o \in (n - k)..n : o = b \/ o \in (b + 1)..n
      BY <1>1, <3>1
    <3>6. \A o \in (n - k)..n : Made(o)
      <4> HIDE DEF Made
      <4> QED
        BY <3>3, <3>4, <3>5
    <3> HIDE DEF Made
    <3> QED
      BY <3>6
  <2>3. n \in T
    <3> HIDE DEF T, n
    <3>1. \A k \in 0..n : k \in T
      BY <1>1, <2>1, <2>2, IntervalInduction
    <3> QED
      BY <1>1, <3>1
  <2>4. n - n = 0
    BY <1>1
  <2> HIDE DEF Made
  <2> QED
    BY <2>3, <2>4
<1>10. PICK e \in 0..n : e = End(0, 0)
  BY <1>1, <1>3
<1>11. splitIntoChunks(bytes, m, {}) = <<SubSeq(bytes, 0 + 1, e)>> \o rest[e]
  <2>1. 0 + 1 = 1
    OBVIOUS
  <2> QED
    BY <1>2, <1>10, <2>1
<1>12. 0 \in 0..n /\ SubSeq(bytes, 0 + 1, n) = bytes
  BY <1>1, SubSeqFull
<1>13. bytes = << >> => Len(splitIntoChunks(bytes, m, {})) = 1
  <2> SUFFICES ASSUME bytes = << >> PROVE Len(splitIntoChunks(bytes, m, {})) = 1
    OBVIOUS
  <2>1. e = n
    BY <1>10
  <2>2. rest[e] = << >>
    BY <1>7, <1>10, <2>1
  <2>3. PICK x : x = SubSeq(bytes, 0 + 1, e)
    OBVIOUS
  <2>4. x \in Seq(V)
    BY <1>1, <1>4, <1>10, <1>12, <2>3
  <2> QED
    BY <1>11, <2>2, <2>3, <2>4, ConcatEmptySeq
<1> HIDE DEF n, Made
<1>14. Made(e)
  BY <1>9
<1> QED
  BY <1>8, <1>10, <1>11, <1>12, <1>13, <1>14

(* Pages are numbers, in the order they are allocated.                       *)
Ascends(s) == \A i, j \in 1..Len(s) : i < j => s[i] < s[j]

(* The pages are the first numbers.                                          *)
LEMMA ResourceNat == /\ Cardinality(Resource) \in Nat
                     /\ \A p \in Resource : p \in Nat
<1>1. Cardinality(Resource) \in Nat
  BY SweepAssumption, FS_CardinalityType
<1> QED
  BY <1>1, EngineAssumption

(* A text is made up by the pieces it is stored in.                          *)
LEMMA ChunksMakeUp ==
  ASSUME NEW x \in Text
  PROVE  /\ Chunks(x) \in Seq(Text) /\ Len(Chunks(x)) >= 1 /\ FlattenSeq(Chunks(x)) = x
         /\ x = << >> => Len(Chunks(x)) = 1
<1>1. /\ chunkCapacity(0, MetadataLength) \in Nat
      /\ chunkCapacity(1, MetadataLength) \in Nat /\ chunkCapacity(1, MetadataLength) > 0
  BY EngineAssumption, PageAssumption DEF chunkCapacity, AreaSize
<1> QED
  BY <1>1, PiecesMakeUp DEF Chunks, Text

(* What an edit makes of a text is a text.                                   *)
LEMMA ApplyType ==
  ASSUME NEW x \in Text, NEW t \in Tx, NEW c \in Changes
  PROVE  applyOperation(x, OperationOf(t, c)) \in Text
<1>1. c.position \in Nat /\ c.delete \in Nat /\ c.insert \in Nat
  BY EngineAssumption
<1> DEFINE p == IF c.position <= Len(x) THEN c.position ELSE Len(x)
           y == [i \in 1..c.insert |-> t]
<1>2. p \in 0..Len(x)
  BY <1>1 DEF Text
<1>3. applyOperation(x, OperationOf(t, c))
        = SubSeq(x, 1, p) \o y \o SubSeq(x, p + c.delete + 1, Len(x))
  BY DEF applyOperation, OperationOf
<1>4. y \in Text
  BY <1>1 DEF Text
<1> HIDE DEF p, y
<1>5. SubSeq(x, 1, p) \in Text
  BY <1>2, SubSeqProperties DEF Text
<1>6. SubSeq(x, p + c.delete + 1, Len(x)) \in Text
  <2>1. PICK m : m = p + c.delete + 1
    OBVIOUS
  <2>2. m \in Int /\ Len(x) \in Int /\ \A i \in m..Len(x) : x[i] \in Tx
    BY <1>1, <1>2, <2>1, ElementOfSeq DEF Text
  <2>3. SubSeq(x, m, Len(x)) \in Text
    BY <2>2, SubSeqProperties DEF Text
  <2> QED
    BY <2>1, <2>3
<1>7. SubSeq(x, 1, p) \o y \in Text
  BY <1>4, <1>5, ConcatProperties DEF Text
<1> QED
  BY <1>3, <1>6, <1>7, ConcatProperties DEF Text

-----------------------------------------------------------------------------
(* The text on a list of pages.                                              *)
Pieces(images, pages) == [i \in 1..Len(pages) |-> images[pages[i]].chunk]

(* What all pages hold.                                                      *)
Pictures == [Resource -> Image]

(* The pieces, and the text, on a list of pages.                             *)
LEMMA PiecesType ==
  ASSUME NEW images \in Pictures, NEW pages \in Seq(Resource)
  PROVE  /\ Pieces(images, pages) \in Seq(Text)
         /\ Len(Pieces(images, pages)) = Len(pages) /\ Len(pages) \in Nat
         /\ \A i \in 1..Len(pages) : Pieces(images, pages)[i] = images[pages[i]].chunk
         /\ TextOn(images, pages) = FlattenSeq(Pieces(images, pages))
<1>1. Len(pages) \in Nat /\ \A i \in 1..Len(pages) : images[pages[i]].chunk \in Text
  BY ElementOfSeq DEF Pictures, Image
<1> QED
  BY <1>1 DEF Pieces, TextOn

(* A text is on any pages.                                                   *)
LEMMA TextOnType ==
  ASSUME NEW images \in Pictures, NEW pages \in Seq(Resource)
  PROVE  TextOn(images, pages) \in Text
  BY PiecesType, FlattenType DEF Text

(* It is told by the images of these pages.                                  *)
LEMMA TextOnSame ==
  ASSUME NEW images \in Pictures, NEW others \in Pictures, NEW pages \in Seq(Resource),
         \A i \in 1..Len(pages) : images[pages[i]].chunk = others[pages[i]].chunk
  PROVE  TextOn(images, pages) = TextOn(others, pages)
  BY DEF TextOn

(* One more page adds what is on it.                                         *)
LEMMA TextOnMore ==
  ASSUME NEW images \in Pictures, NEW pages \in Seq(Resource), NEW p \in Resource
  PROVE  TextOn(images, Append(pages, p)) = TextOn(images, pages) \o images[p].chunk
<1>1. images[p].chunk \in Text
  BY DEF Pictures, Image
<1>2. PICK q : q = Append(pages, p)
  OBVIOUS
<1>3. /\ q \in Seq(Resource) /\ Len(q) = Len(pages) + 1
      /\ \A i \in 1..Len(pages) : q[i] = pages[i]
      /\ q[Len(pages) + 1] = p
  BY <1>2, AppendProperties
<1>4. PICK s : s = Pieces(images, pages)
  OBVIOUS
<1>5. PICK x : x = images[p].chunk
  OBVIOUS
<1>6. s \in Seq(Text) /\ x \in Text /\ Len(s) = Len(pages) /\ Len(pages) \in Nat
  BY <1>1, <1>4, <1>5, PiecesType
<1>7. Pieces(images, q) = Append(s, x)
  <2>1. Pieces(images, q) \in Seq(Text) /\ Append(s, x) \in Seq(Text)
    BY <1>3, <1>6, PiecesType, AppendProperties
  <2>2. Len(Pieces(images, q)) = Len(Append(s, x)) /\ Len(Append(s, x)) = Len(pages) + 1
    BY <1>3, <1>6, PiecesType, AppendProperties
  <2>3. ASSUME NEW i \in 1..(Len(pages) + 1)
        PROVE  Pieces(images, q)[i] = Append(s, x)[i]
    <3>1. Pieces(images, q)[i] = images[q[i]].chunk
      BY <1>3, PiecesType
    <3>2. CASE i \in 1..Len(pages)
      <4>1. Append(s, x)[i] = s[i] /\ s[i] = images[pages[i]].chunk
        BY <1>4, <1>6, <3>2, PiecesType, AppendProperties
      <4> QED
        BY <1>3, <3>1, <3>2, <4>1
    <3>3. CASE i = Len(pages) + 1
      BY <1>3, <1>5, <1>6, <3>1, <3>3, AppendProperties
    <3> QED
      BY <1>6, <3>2, <3>3
  <2> QED
    BY <2>1, <2>2, <2>3, SeqEqual
<1>8. FlattenSeq(Append(s, x)) = FlattenSeq(s) \o x
  BY <1>6, FlattenAppend DEF Text
<1> QED
  BY <1>2, <1>3, <1>4, <1>5, <1>7, <1>8, PiecesType

(* Pages that hold the pieces of a text, and nothing beyond, hold the text.  *)
LEMMA TextOnWritten ==
  ASSUME NEW images \in Pictures, NEW pages \in Seq(Resource), NEW x \in Text,
         Len(Chunks(x)) <= Len(pages),
         \A i \in 1..Len(pages) :
           images[pages[i]].chunk = IF i <= Len(Chunks(x)) THEN Chunks(x)[i] ELSE << >>
  PROVE  TextOn(images, pages) = x
<1>1. PICK s : s = Pieces(images, pages)
  OBVIOUS
<1>2. PICK t : t = Chunks(x)
  OBVIOUS
<1>3. s \in Seq(Seq(Tx)) /\ t \in Seq(Seq(Tx)) /\ Len(t) <= Len(s) /\ FlattenSeq(t) = x
  BY <1>1, <1>2, PiecesType, ChunksMakeUp DEF Text
<1>4. \A i \in 1..Len(s) : s[i] = IF i <= Len(t) THEN t[i] ELSE << >>
  BY <1>1, <1>2, PiecesType
<1>5. FlattenSeq(s) = FlattenSeq(t)
  BY <1>3, <1>4, FlattenPadded
<1> QED
  BY <1>1, <1>3, <1>5, PiecesType

(* Blank pages in between add nothing.                                       *)
LEMMA TextOnSparse ==
  ASSUME NEW images \in Pictures, NEW P \in Seq(Resource), NEW Q \in Seq(Resource),
         Ascends(P), Ascends(Q), ToSet(P) \subseteq ToSet(Q),
         \A q \in ToSet(Q) \ ToSet(P) : images[q].chunk = << >>
  PROVE  TextOn(images, P) = TextOn(images, Q)
<1> DEFINE m == Len(P)
           n == Len(Q)
           s == Pieces(images, P)
           t == Pieces(images, Q)
<1>1. /\ m \in Nat /\ n \in Nat
      /\ \A i \in 1..m : P[i] \in Nat /\ P[i] \in ToSet(P)
      /\ \A i \in 1..n : Q[i] \in Nat /\ Q[i] \in ToSet(Q)
      /\ \A q \in ToSet(Q) : \E l \in 1..n : Q[l] = q
  <2>1. /\ m \in Nat /\ n \in Nat
        /\ \A i \in 1..m : P[i] \in Nat /\ P[i] \in ToSet(P)
        /\ \A i \in 1..n : Q[i] \in Nat /\ Q[i] \in ToSet(Q)
    BY ResourceNat, ElementOfSeq DEF ToSet
  <2>2. \A q \in ToSet(Q) : \E l \in 1..n : Q[l] = q
    BY DEF ToSet
  <2> QED
    BY <2>1, <2>2
<1>2. s \in Seq(Seq(Tx)) /\ t \in Seq(Seq(Tx)) /\ Len(s) = m /\ Len(t) = n
  BY PiecesType DEF Text
<1>3. PICK f : Joins(f, s, Tx) /\ FlattenSeq(s) = f[Len(s)]
  BY <1>2, FlattenJoins
<1>4. PICK g : Joins(g, t, Tx) /\ FlattenSeq(t) = g[Len(t)]
  BY <1>2, FlattenJoins
<1>5. \A i \in 1..m : s[i] = images[P[i]].chunk
  BY PiecesType
<1>6. \A i \in 1..n : t[i] = images[Q[i]].chunk
  BY PiecesType
<1> HIDE DEF s, t
<1> DEFINE Upto(k, j) == \A i \in 1..m : i <= k <=> \E l \in 1..j : Q[l] = P[i]
           T == {j \in 0..n : \E k \in 0..m : g[j] = f[k] /\ Upto(k, j)}
<1>7. 0 \in T
  <2>1. g[0] = f[0]
    BY <1>3, <1>4 DEF Joins
  <2>2. Upto(0, 0)
    OBVIOUS
  <2>3. 0 \in 0..m /\ 0 \in 0..n
    BY <1>1
  <2> HIDE DEF Upto
  <2> QED
    BY <2>1, <2>2, <2>3
<1>8. ASSUME NEW j \in 1..n, j - 1 \in T PROVE j \in T
  <2>1. PICK k \in 0..m : g[j - 1] = f[k] /\ Upto(k, j - 1)
    BY <1>8
  <2>2. g[j] = g[j - 1] \o t[j]
    BY <1>2, <1>4 DEF Joins
  <2>3. \A i \in 1..m : (\E l \in 1..j : Q[l] = P[i]) <=> i <= k \/ Q[j] = P[i]
    <3>1. \A l \in 1..j : l = j \/ l \in 1..(j - 1)
      BY <1>1
    <3>2. \A l \in 1..(j - 1) : l \in 1..j
      BY <1>1
    <3>3. j \in 1..j
      BY <1>1
    <3> QED
      BY <2>1, <3>1, <3>2, <3>3
  <2>4. CASE Q[j] \notin ToSet(P)
    <3>1. t[j] = << >>
      BY <1>1, <1>6, <2>4
    <3>2. f[k] \in Seq(Tx)
      BY <1>2, <1>3 DEF Joins
    <3>3. g[j] = f[k]
      BY <2>1, <2>2, <3>1, <3>2, ConcatEmptySeq
    <3>4. Upto(k, j)
      BY <1>1, <2>3, <2>4
    <3> HIDE DEF Upto
    <3> QED
      BY <3>3, <3>4
  <2>5. CASE Q[j] \in ToSet(P)
    <3>1. PICK i \in 1..m : P[i] = Q[j]
      BY <2>5 DEF ToSet
    <3>2. ~(i <= k)
      <4>1. SUFFICES ASSUME i <= k PROVE FALSE
        OBVIOUS
      <4>2. PICK l \in 1..(j - 1) : Q[l] = P[i]
        BY <2>1, <4>1
      <4>3. l \in 1..n /\ j \in 1..n /\ l < j
        BY <1>1
      <4>4. Q[l] < Q[j]
        BY <4>3 DEF Ascends
      <4> QED
        BY <1>1, <3>1, <4>2, <4>3, <4>4
    <3>3. i = k + 1
      <4>1. SUFFICES ASSUME i # k + 1 PROVE FALSE
        OBVIOUS
      <4>2. k + 1 \in 1..m /\ k + 1 < i /\ ~(k + 1 <= k)
        BY <1>1, <3>2, <4>1
      <4>3. P[k + 1] < P[i]
        BY <4>2 DEF Ascends
      <4>4. P[k + 1] \in ToSet(Q)
        BY <1>1, <4>2
      <4>5. PICK l \in 1..n : Q[l] = P[k + 1]
        BY <1>1, <4>4
      <4>6. l \notin 1..(j - 1)
        BY <2>1, <4>2, <4>5
      <4>7. l = j \/ Q[j] < Q[l]
        BY <1>1, <4>6 DEF Ascends
      <4> QED
        BY <1>1, <3>1, <4>2, <4>3, <4>5, <4>7
    <3>4. k + 1 \in 0..m /\ k + 1 \in 1..m /\ (k + 1) - 1 = k
      BY <3>3
    <3>5. f[k + 1] = f[k] \o s[k + 1]
      BY <1>2, <1>3, <3>4 DEF Joins
    <3>6. s[k + 1] = t[j]
      BY <1>5, <1>6, <3>1, <3>3, <3>4
    <3>7. g[j] = f[k + 1]
      BY <2>1, <2>2, <3>5, <3>6
    <3>8. Upto(k + 1, j)
      <4>1. ASSUME NEW h \in 1..m PROVE h <= k + 1 <=> h <= k \/ Q[j] = P[h]
        <5>1. h = i => Q[j] = P[h]
          BY <3>1
        <5>2. Q[j] = P[h] => h = i
          <6>1. h < i => P[h] < P[i]
            BY DEF Ascends
          <6>2. i < h => P[i] < P[h]
            BY DEF Ascends
          <6> QED
            BY <1>1, <3>1, <6>1, <6>2
        <5> QED
          BY <1>1, <3>3, <5>1, <5>2
      <4> QED
        BY <2>3, <4>1
    <3> HIDE DEF Upto
    <3> QED
      BY <3>4, <3>7, <3>8
  <2> QED
    BY <2>4, <2>5
<1>9. n \in T
  <2> HIDE DEF T, n
  <2>1. \A j \in 0..n : j \in T
    BY <1>1, <1>7, <1>8, IntervalInduction
  <2> QED
    BY <1>1, <2>1
<1>10. PICK k \in 0..m : g[n] = f[k] /\ Upto(k, n)
  BY <1>9
<1>11. k = m
  <2>1. SUFFICES ASSUME k # m PROVE FALSE
    OBVIOUS
  <2>2. m \in 1..m /\ ~(m <= k)
    BY <1>1, <2>1
  <2>3. P[m] \in ToSet(Q)
    BY <1>1, <2>2
  <2>4. \E l \in 1..n : Q[l] = P[m]
    BY <2>3 DEF ToSet
  <2> QED
    BY <1>10, <2>2, <2>4
<1>12. TextOn(images, P) = FlattenSeq(s) /\ TextOn(images, Q) = FlattenSeq(t)
  BY PiecesType DEF s, t
<1> QED
  BY <1>2, <1>3, <1>4, <1>10, <1>11, <1>12
-----------------------------------------------------------------------------

(* The phases of a request that has a transaction, ...                       *)
Active == {"locking", "growing", "writing", "finishing", "reading"}

(* ... and those in which it may wait for a lock.                            *)
Queues == {"locking", "reading"}

(* What the queue holds.                                                     *)
Event == [type : {"edit"}, doc : Doc, sequence : Nat, version : Nat]

(* The types, in full.                                                       *)
ShapeOK ==
  /\ phase \in [Tx -> Phase]
  /\ request \in [Tx -> Request \cup {Nobody}]
  /\ local \in [Tx -> Local \cup {Nobody}]
  /\ reply \in [Tx -> Reply \cup {Nobody}]
  /\ page \in Pictures
  /\ DOMAIN undoLog = Tx
  /\ \A t \in Tx : DOMAIN undoLog[t] \subseteq Resource /\ undoLog[t] \in [DOMAIN undoLog[t] -> Image]
  /\ indexed \in [Doc -> Text]
  /\ buffer \in Seq(Event) /\ delivered \in Seq(Event) /\ Len(buffer) <= Capacity
  /\ sequences \in [Doc -> Nat] /\ draining \in BOOLEAN

(* The pages of all documents.                                               *)
Allocated == UNION {ToSet(directory[d]) : d \in Doc}

(* A page belongs to one document, pages are given out in ascending order,   *)
(* and there is no gap.                                                      *)
DirectoryOK ==
  /\ directory \in [Doc -> Seq(Resource)]
  /\ \A d \in Doc : Ascends(directory[d])
  /\ \A d, e \in Doc : d # e => ToSet(directory[d]) \cap ToSet(directory[e]) = {}
  /\ \E k \in Nat : Allocated = 1..k

(* The version an edit was made against: one or, where edits carry none,     *)
(* none.                                                                     *)
Base(t) == IF Versioned THEN \E v \in Nat : request[t].base = {v} ELSE request[t].base = {}

(* What a request may have come for.                                         *)
Operations(t) ==
  CASE phase[t] = "reading" -> {"read"}
    [] phase[t] \in {"locking", "growing"} -> {"edit"}
    [] OTHER -> {"create", "edit"}

(* The page list of a request is part of the chain of its document, from the *)
(* same first page on and in its order.                                      *)
PathOK(t) ==
  phase[t] \in Active =>
    /\ request[t] \in Request /\ request[t].op \in Operations(t)
    /\ local[t] \in Local /\ local[t].at \in 1..Len(local[t].pages)
    /\ Ascends(local[t].pages)
    /\ ToSet(local[t].pages) \subseteq ToSet(directory[request[t].doc])
    /\ local[t].pages[1] = directory[request[t].doc][1]

(* The variables of a request.                                               *)
RequestOK(t) ==
  /\ phase[t] # "unborn" => request[t] \in Request
  /\ phase[t] # "unborn" /\ request[t].op = "edit" => Base(t)
  /\ phase[t] # "unborn" => local[t] \in Local
  /\ phase[t] = "replied" => reply[t] \in Reply

(* The mode of the locks of a request, ...                                   *)
LockMode(t) == IF phase[t] = "reading" THEN "S" ELSE "X"

(* ... and how many pages it has asked for.                                  *)
Top(t) == IF phase[t] \in Queues THEN local[t].at ELSE Len(local[t].pages)

(* A request holds the pages up to the one it is at, in one mode, and waits  *)
(* for that one or has it; a request that has ended holds nothing.           *)
LocksOK(t) ==
  IF phase[t] \in Active
  THEN /\ \A p \in Resource : lockTable[p].holders[t] # "none" =>
            /\ lockTable[p].holders[t] = LockMode(t)
            /\ \E i \in 1..Top(t) : local[t].pages[i] = p
       /\ \A p \in Resource, m \in {"S", "X"} : Asks(lockTable[p], t, m) =>
            phase[t] \in Queues /\ p = local[t].pages[local[t].at] /\ m = LockMode(t)
       /\ \A i \in 1..Top(t) :
            lockTable[local[t].pages[i]].holders[t] = LockMode(t)
              \/ (phase[t] \in Queues /\ i = local[t].at /\ promise[t] # "granted")
       /\ phase[t] \notin Queues => promise[t] = "granted"
  ELSE /\ promise[t] # "pending"
       /\ \A p \in Resource : lockTable[p].holders[t] = "none"

(* How many pages it has written.                                            *)
Done(t) ==
  CASE phase[t] = "writing" -> local[t].at - 1
    [] phase[t] = "finishing" -> Len(local[t].pages)
    [] OTHER -> 0

(* The undo log has the before-images of these.                              *)
UndoOK(t) == DOMAIN undoLog[t] = {local[t].pages[i] : i \in 1..Done(t)}

(* What the locks say: the first half of the inductive invariant.            *)
LInv ==
  /\ IInv /\ ShapeOK /\ DirectoryOK
  /\ \A t \in Tx : RequestOK(t) /\ PathOK(t) /\ LocksOK(t) /\ UndoOK(t)

-----------------------------------------------------------------------------

(* Pages that are not allocated are blank.                                   *)
FreshIsBlank == \A p \in Resource \ Allocated : page[p] = Blank

(* Requests that have computed their text, ...                               *)
Working(t) == phase[t] \in {"growing", "writing", "finishing"}

(* ... the piece of it on a page, ...                                        *)
ChunkAt(x, i) == IF i <= Len(Chunks(x)) THEN Chunks(x)[i] ELSE << >>

(* ... and what they know: nobody commits to their document before they end. *)
WorkOK(t) ==
  LET l == local[t]  d == request[t].doc IN
  Working(t) =>
    /\ IF request[t].op = "edit"
       THEN /\ l.version = CommittedVersion(d) + 1
            /\ request[t].base \subseteq {CommittedVersion(d)}
            /\ l.text = applyOperation(TextOn(CommittedPage, l.pages), OperationOf(t, request[t].change))
       ELSE l.version = 1 /\ l.text = << >> /\ CommittedVersion(d) = 0
    /\ phase[t] # "growing" => Len(Chunks(l.text)) <= Len(l.pages)
    /\ \A i \in 1..Done(t) : page[l.pages[i]] = [version |-> l.version, chunk |-> ChunkAt(l.text, i)]

(* A read has the committed text of the pages behind it, in one version.     *)
ReadOK(t) ==
  LET l == local[t] IN
  phase[t] = "reading" =>
    /\ l.text = TextOn(CommittedPage, SubSeq(l.pages, 1, l.at - 1))
    /\ l.at > 1 => l.version = CommittedVersion(request[t].doc)

(* An answer in the committed version has the text that is committed.        *)
ReplyOK(t) ==
  LET r == reply[t]  d == request[t].doc IN
  phase[t] = "replied" =>
    /\ Ascends(r.pages) /\ ToSet(r.pages) \subseteq ToSet(directory[d])
    /\ r.version <= CommittedVersion(d)
    /\ r.version = CommittedVersion(d) => r.text = TextOn(CommittedPage, r.pages)

(* No other page of the document has a part of the text.                     *)
BlankBeyond(d, pages) ==
  \A p \in ToSet(directory[d]) \ ToSet(pages) : CommittedPage[p].chunk = << >>

(* A page list that is older than the chain misses no text, as long as the   *)
(* version is the one it was made against.                                   *)
StaleOK(t) ==
  LET d == request[t].doc IN
  /\ request[t] # Nobody /\ request[t].op = "edit" => \A v \in request[t].base : v <= CommittedVersion(d)
  /\ phase[t] \in Active \ {"reading"} =>
       (request[t].op = "create" \/ request[t].base = {CommittedVersion(d)}
          => BlankBeyond(d, local[t].pages))
  /\ Versioned /\ phase[t] = "replied" /\ request[t].op # "read"
       /\ reply[t].version = CommittedVersion(d) => BlankBeyond(d, reply[t].pages)

(* A document without a version has no text.                                 *)
VersionZero == \A d \in Doc : CommittedVersion(d) = 0 => BlankBeyond(d, << >>)

(* Where the announcements of a document are, ...                            *)
EventsOf(d) == {i \in 1..Len(Events) : Events[i].doc = d}

(* ... the version that is not announced, ...                                *)
FirstVersion(d) == IF Created(d) THEN 1 ELSE 0

(* ... and what they count.                                                  *)
EventsOK ==
  \A d \in Doc :
    /\ sequences[d] = Cardinality(EventsOf(d))
    /\ CommittedVersion(d) = FirstVersion(d) + Cardinality(EventsOf(d))
    /\ \A i \in EventsOf(d) : /\ Events[i].version = FirstVersion(d) + 1 + Rank(EventsOf(d), i)
                              /\ Events[i].sequence = 1 + Rank(EventsOf(d), i)

(* What is committed, answered and announced: the second half.               *)
DInv ==
  /\ FreshIsBlank /\ VersionZero /\ EventsOK /\ AnswersAgree /\ EditsBuildOnBase
  /\ \A t \in Tx : WorkOK(t) /\ ReadOK(t) /\ ReplyOK(t) /\ StaleOK(t)

(* What a step does to the locks of a request it is not a turn of: one it    *)
(* waits for may be granted.                                                 *)
Undisturbed(u) ==
  /\ \A p \in Resource : \/ lockTable'[p].holders[u] = lockTable[p].holders[u]
                         \/ Asks(lockTable[p], u, lockTable'[p].holders[u])
  /\ \A p \in Resource, m \in {"S", "X"} :
       AlreadyHolds(lockTable[p], u, m) => AlreadyHolds(lockTable'[p], u, m)
  /\ \A p \in Resource, m \in {"S", "X"} : Asks(lockTable'[p], u, m) => Asks(lockTable[p], u, m)
  /\ promise'[u] # promise[u] =>
       /\ promise[u] = "pending" /\ promise'[u] = "granted"
       /\ \A p \in Resource, m \in {"S", "X"} :
            Asks(lockTable[p], u, m) => AlreadyHolds(lockTable'[p], u, m)

(* ... and to those of a request that asks for page r.                       *)
Takes(t, r, mode) ==
  /\ promise'[t] \in {"granted", "pending"}
  /\ \A p \in Resource : \/ lockTable'[p].holders[t] = lockTable[p].holders[t]
                         \/ p = r /\ lockTable'[p].holders[t] = mode
  /\ promise'[t] = "granted" => AlreadyHolds(lockTable'[r], t, mode)
  /\ promise'[t] = "pending" => lockTable'[r].holders[t] = lockTable[r].holders[t]
  /\ \A p \in Resource, m \in {"S", "X"} : Asks(lockTable'[p], t, m) => p = r /\ m = mode

(* ... and to those of one that ends.                                        *)
Released(t) == promise'[t] # "pending" /\ \A p \in Resource : lockTable'[p].holders[t] = "none"

(* What a transaction may hold of a page.                                    *)
LEMMA HolderType ==
  ASSUME IInv, NEW p \in Resource, NEW t \in Tx
  PROVE  lockTable[p].holders[t] \in {"none", "S", "X"} /\ lockTable[p] \in LockInfo
  BY DEF IInv, TableOK, LockInfo

(* Who asks for a lock waits for it, ...                                     *)
LEMMA AsksIsPending ==
  ASSUME IInv, NEW p \in Resource, NEW t \in Tx, NEW m, Asks(lockTable[p], t, m)
  PROVE  promise[t] = "pending"
  BY DEF IInv, Asks, Queued

(* ... and who waits asks for one.                                           *)
LEMMA PendingAsks ==
  ASSUME IInv, NEW t \in Tx, promise[t] = "pending"
  PROVE  \E p \in Resource, m \in {"S", "X"} : Asks(lockTable[p], t, m)
<1>1. PICK p \in Resource : Queued(lockTable[p], t)
  BY DEF IInv
<1>2. lockTable[p] \in LockInfo
  BY DEF IInv, TableOK
<1> QED
  BY <1>1, <1>2, QueuedAsks

(* What a drain grants, to those who wait.                                   *)
LEMMA DrainsUndisturbed ==
  ASSUME IInv, IInv', NEW t \in Tx, Drains({t}), promise' = Settle(lockTable', {t}),
         NEW u \in Tx \ {t}
  PROVE  Undisturbed(u)
<1>1. PICK V : V = {t}
  OBVIOUS
<1>2. Drains(V) /\ promise' = Settle(lockTable', V) /\ u \in Tx \ V /\ u \notin V
  BY <1>1
<1>3. /\ \A p \in Resource, m \in {"S", "X"} :
           AlreadyHolds(lockTable[p], u, m) => AlreadyHolds(lockTable'[p], u, m)
      /\ \A p \in Resource, m \in {"S", "X"} : Asks(lockTable'[p], u, m) => Asks(lockTable[p], u, m)
      /\ promise'[u] # promise[u] =>
           /\ promise[u] = "pending" /\ promise'[u] = "granted"
           /\ \A p \in Resource, m \in {"S", "X"} :
                Asks(lockTable[p], u, m) => AlreadyHolds(lockTable'[p], u, m)
  BY <1>2, DrainEffect
<1>4. \A p \in Resource : \/ lockTable'[p].holders[u] = lockTable[p].holders[u]
                         \/ Asks(lockTable[p], u, lockTable'[p].holders[u])
  BY <1>1 DEF Drains, Follows
<1> QED
  BY <1>3, <1>4 DEF Undisturbed

(* A request for a lock disturbs nobody else.                                *)
LEMMA AcquireUndisturbed ==
  ASSUME IInv, NEW t \in Tx, NEW r \in Resource, NEW mode \in {"S", "X"}, Acquire(t, r, mode),
         NEW u \in Tx \ {t}
  PROVE  Undisturbed(u)
<1>1. mode \in Mode
  BY EngineAssumption
<1>2. /\ \A s \in Resource :
              /\ lockTable'[s].holders[u] = lockTable[s].holders[u]
              /\ \A m \in {"S", "X"} : Asks(lockTable'[s], u, m) => Asks(lockTable[s], u, m)
      /\ promise'[u] = promise[u]
  BY <1>1, AcquireEffect
<1> QED
  BY <1>2 DEF Undisturbed, AlreadyHolds

(* It keeps the invariant of the lock table.                                 *)
LEMMA AcquireInv ==
  ASSUME IInv, NEW t \in Tx, NEW r \in Resource, NEW mode \in {"S", "X"}, Acquire(t, r, mode)
  PROVE  IInv'
  BY EngineAssumption, AcquireNowStep, AcquireWaitStep DEF Acquire

(* What it gets for who makes it.                                            *)
LEMMA AcquireTakes ==
  ASSUME IInv, NEW t \in Tx, NEW r \in Resource, NEW mode \in {"S", "X"}, Acquire(t, r, mode)
  PROVE  Takes(t, r, mode)
<1>1. mode \in Mode
  BY EngineAssumption
<1>2. /\ promise'[t] \in {"granted", "pending"}
      /\ promise'[t] = "granted" => AlreadyHolds(lockTable'[r], t, mode)
      /\ \A s \in Resource, m \in {"S", "X"} : Asks(lockTable'[s], t, m) => s = r /\ m = mode
  BY <1>1, AcquireEffect
<1>3. lockTable \in [Resource -> LockInfo] /\ promise \in [Tx -> Promise]
  BY DEF IInv, TableOK
<1>4. CASE AcquireNow(t, r, mode)
  <2>1. promise'[t] = "granted"
    BY <1>3, <1>4 DEF AcquireNow
  <2>2. \A p \in Resource : \/ lockTable'[p].holders[t] = lockTable[p].holders[t]
                            \/ p = r /\ lockTable'[p].holders[t] = mode
    BY <1>3, <1>4 DEF AcquireNow, WithHolder, LockInfo
  <2> QED
    BY <1>2, <2>1, <2>2 DEF Takes
<1>5. CASE AcquireWait(t, r, mode)
  <2>1. \A p \in Resource : lockTable'[p].holders[t] = lockTable[p].holders[t]
    BY <1>3, <1>5 DEF AcquireWait, Enqueue, LockInfo
  <2> QED
    BY <1>2, <2>1 DEF Takes
<1> QED
  BY <1>4, <1>5 DEF Acquire

(* A lock one has, and one nobody else has or waits for, is given at once.   *)
LEMMA AcquireHeld ==
  ASSUME IInv, NEW t \in Tx, NEW r \in Resource, NEW mode \in {"S", "X"}, Acquire(t, r, mode),
         AlreadyHolds(lockTable[r], t, mode)
  PROVE  UNCHANGED lockTable /\ promise'[t] = "granted"
<1>1. promise \in [Tx -> Promise]
  BY DEF IInv
<1>2. AcquireNow(t, r, mode)
  BY DEF Acquire, AcquireWait
<1> QED
  BY <1>1, <1>2 DEF AcquireNow

(* A lock of a page that nobody holds or waits for.                          *)
LEMMA AcquireFree ==
  ASSUME IInv, NEW t \in Tx, NEW r \in Resource, NEW mode \in {"S", "X"}, Acquire(t, r, mode),
         \A u \in Tx : lockTable[r].holders[u] = "none" /\ ~Queued(lockTable[r], u)
  PROVE  promise'[t] = "granted"
<1>1. promise \in [Tx -> Promise] /\ lockTable[r] \in LockInfo
  BY DEF IInv, TableOK
<1>2. \A i \in 1..Len(lockTable[r].waitQueue) : lockTable[r].waitQueue[i].tx \in Tx
  <2>1. lockTable[r].waitQueue \in Seq(LockRequest)
    BY <1>1 DEF LockInfo
  <2>2. \A i \in 1..Len(lockTable[r].waitQueue) : lockTable[r].waitQueue[i] \in LockRequest
    BY <2>1, ElementOfSeq
  <2> QED
    BY <2>2 DEF LockRequest
<1>3. canGrant(lockTable[r], t, mode)
  BY <1>2 DEF canGrant, OthersAllow, Queued
<1> QED
  BY <1>1, <1>3 DEF Acquire, AcquireNow, AcquireWait

(* What the end of a transaction does to the locks.                          *)
LEMMA ReleaseAllReleases ==
  ASSUME IInv, NEW t \in Tx, ReleaseAll(t)
  PROVE  IInv' /\ Released(t) /\ \A u \in Tx \ {t} : Undisturbed(u)
<1>1. IInv' /\ Drains({t}) /\ promise' = Settle(lockTable', {t})
  BY ReleaseAllStep DEF ReleaseAll
<1>2. \A r \in Resource : ~Queued(lockTable'[r], t) /\ lockTable'[r].holders[t] = "none"
  BY ReleasedTableFollows DEF ReleaseAll, IInv
<1>3. promise'[t] # "pending"
  BY <1>1, <1>2 DEF IInv
<1> QED
  BY <1>1, <1>2, <1>3, DrainsUndisturbed DEF Released

(* What a lock timeout does to them.                                         *)
LEMMA TimeoutRejects ==
  ASSUME IInv, NEW t \in Tx, NEW r \in Resource, Timeout(t, r)
  PROVE  /\ IInv' /\ promise[t] = "pending" /\ promise'[t] = "rejected"
         /\ \A p \in Resource : lockTable'[p].holders[t] = lockTable[p].holders[t]
         /\ \A u \in Tx \ {t} : Undisturbed(u)
<1>1. /\ IInv' /\ Drains({t}) /\ promise' = Settle(lockTable', {t})
      /\ \A p \in Resource : lockTable'[p].holders[t] = lockTable[p].holders[t]
  BY TimeoutStep DEF Timeout
<1>2. promise[t] = "pending"
  BY DEF Timeout, IInv
<1>3. promise'[t] = "rejected"
  BY <1>1, <1>2 DEF Settle
<1> QED
  BY <1>1, <1>2, <1>3, DrainsUndisturbed

-----------------------------------------------------------------------------
(* A request keeps what it needs of the locks while others take their turns. *)
LEMMA LocksFrame ==
  ASSUME IInv, IInv', NEW u \in Tx, LocksOK(u), Undisturbed(u),
         phase'[u] = phase[u], local'[u] = local[u],
         phase[u] \in Active => local[u].pages \in Seq(Resource) /\ Top(u) \in 1..Len(local[u].pages)
  PROVE  LocksOK(u)'
<1>0. Top(u)' = Top(u) /\ LockMode(u)' = LockMode(u) /\ LockMode(u) \in {"S", "X"}
  BY DEF Top, LockMode
<1>1. CASE phase[u] \in Active
  <2> DEFINE pages == local[u].pages
  <2>0. \A i \in 1..Top(u) : pages[i] \in Resource
    BY <1>1, ElementOfSeq
  <2>1. ASSUME NEW p \in Resource, lockTable'[p].holders[u] # "none"
        PROVE  /\ lockTable'[p].holders[u] = LockMode(u)
               /\ \E i \in 1..Top(u) : pages[i] = p
    <3>1. CASE lockTable'[p].holders[u] = lockTable[p].holders[u]
      BY <1>1, <2>1, <3>1 DEF LocksOK
    <3>2. CASE Asks(lockTable[p], u, lockTable'[p].holders[u])
      <4>1. lockTable'[p].holders[u] \in {"S", "X"}
        <5>1. lockTable'[p] \in LockInfo
          BY DEF IInv, TableOK
        <5> QED
          BY <2>1, <5>1 DEF LockInfo
      <4>2. phase[u] \in Queues /\ p = pages[local[u].at] /\ lockTable'[p].holders[u] = LockMode(u)
        BY <1>1, <3>2, <4>1 DEF LocksOK
      <4>3. Top(u) = local[u].at /\ Top(u) \in 1..Top(u)
        BY <1>1, <4>2 DEF Top
      <4> QED
        BY <4>2, <4>3
    <3> QED
      BY <3>1, <3>2 DEF Undisturbed
  <2>2. \A p \in Resource, m \in {"S", "X"} : Asks(lockTable'[p], u, m) =>
            phase[u] \in Queues /\ p = pages[local[u].at] /\ m = LockMode(u)
    BY <1>1 DEF LocksOK, Undisturbed
  <2>3. ASSUME NEW i \in 1..Top(u)
        PROVE  lockTable'[pages[i]].holders[u] = LockMode(u)
                 \/ (phase[u] \in Queues /\ i = local[u].at /\ promise'[u] # "granted")
    <3>1. AlreadyHolds(lockTable'[pages[i]], u, LockMode(u)) => lockTable'[pages[i]].holders[u] = LockMode(u)
      <4>1. AlreadyHolds(lockTable'[pages[i]], u, LockMode(u)) => lockTable'[pages[i]].holders[u] # "none"
        BY <1>0 DEF AlreadyHolds
      <4> QED
        BY <2>0, <2>1, <4>1
    <3>2. CASE lockTable[pages[i]].holders[u] = LockMode(u)
      <4>1. AlreadyHolds(lockTable[pages[i]], u, LockMode(u))
        BY <3>2 DEF AlreadyHolds
      <4> QED
        BY <1>0, <2>0, <3>1, <4>1 DEF Undisturbed
    <3>3. CASE phase[u] \in Queues /\ i = local[u].at /\ promise[u] # "granted" /\ promise'[u] = "granted"
      <4>1. promise[u] = "pending" /\ \A p \in Resource, m \in {"S", "X"} :
                 Asks(lockTable[p], u, m) => AlreadyHolds(lockTable'[p], u, m)
        BY <3>3 DEF Undisturbed
      <4>2. PICK p \in Resource, m \in {"S", "X"} : Asks(lockTable[p], u, m)
        BY <4>1, PendingAsks
      <4>3. p = pages[i] /\ m = LockMode(u)
        BY <1>1, <3>3, <4>2 DEF LocksOK
      <4> QED
        BY <3>1, <4>1, <4>2, <4>3
    <3> QED
      BY <1>1, <3>2, <3>3 DEF LocksOK
  <2>4. phase[u] \notin Queues => promise'[u] = "granted"
    BY <1>1 DEF LocksOK, Undisturbed
  <2> QED
    BY <1>0, <1>1, <2>1, <2>2, <2>3, <2>4 DEF LocksOK
<1>2. CASE phase[u] \notin Active
  <2>1. promise[u] # "pending" /\ \A p \in Resource : lockTable[p].holders[u] = "none"
    BY <1>2 DEF LocksOK
  <2>2. promise'[u] # "pending"
    BY <2>1 DEF Undisturbed
  <2>3. ASSUME NEW p \in Resource PROVE lockTable'[p].holders[u] = "none"
    <3>1. ~Asks(lockTable[p], u, lockTable'[p].holders[u])
      BY <2>1, AsksIsPending
    <3> QED
      BY <2>1, <3>1 DEF Undisturbed
  <2> QED
    BY <1>2, <2>2, <2>3 DEF LocksOK
<1> QED
  BY <1>1, <1>2

(* The pages of a request, and the request it is.                            *)
LEMMA ActiveFacts ==
  ASSUME LInv, NEW t \in Tx, phase[t] \in Active
  PROVE  /\ request[t] \in Request /\ request[t].op \in Operations(t) /\ request[t].doc \in Doc
         /\ local[t] \in Local /\ local[t].pages \in Seq(Resource)
         /\ local[t].at \in 1..Len(local[t].pages) /\ Len(local[t].pages) \in Nat /\ local[t].at \in Nat
         /\ Ascends(local[t].pages)
         /\ \A i \in 1..Len(local[t].pages) :
              /\ local[t].pages[i] \in Resource /\ local[t].pages[i] \in Nat
              /\ local[t].pages[i] \in ToSet(directory[request[t].doc])
              /\ local[t].pages[i] \in Allocated
         /\ local[t].pages[1] = directory[request[t].doc][1]
         /\ Top(t) \in 1..Len(local[t].pages) /\ Top(t) \in Nat
         /\ LockMode(t) \in {"S", "X"}
<1>1. PathOK(t)
  BY DEF LInv
<1>2. request[t] \in Request /\ request[t].op \in Operations(t) /\ request[t].doc \in Doc
  BY <1>1 DEF PathOK, Request
<1>3. local[t] \in Local /\ local[t].pages \in Seq(Resource) /\ local[t].at \in Nat
  BY <1>1 DEF PathOK, Local
<1>4. /\ local[t].at \in 1..Len(local[t].pages) /\ Len(local[t].pages) \in Nat
      /\ Ascends(local[t].pages) /\ local[t].pages[1] = directory[request[t].doc][1]
  BY <1>1, <1>3 DEF PathOK
<1>5. ASSUME NEW i \in 1..Len(local[t].pages)
      PROVE  /\ local[t].pages[i] \in Resource /\ local[t].pages[i] \in Nat
             /\ local[t].pages[i] \in ToSet(directory[request[t].doc])
             /\ local[t].pages[i] \in Allocated
  <2>1. local[t].pages[i] \in ToSet(local[t].pages)
    BY DEF ToSet
  <2>2. local[t].pages[i] \in ToSet(directory[request[t].doc])
    BY <1>1, <2>1 DEF PathOK
  <2>3. local[t].pages[i] \in Resource
    BY <1>3, ElementOfSeq
  <2> QED
    BY <1>2, <2>2, <2>3, ResourceNat DEF Allocated
<1>6. Top(t) \in 1..Len(local[t].pages) /\ Top(t) \in Nat
  BY <1>3, <1>4 DEF Top
<1> QED
  BY <1>2, <1>3, <1>4, <1>5, <1>6 DEF LockMode

-----------------------------------------------------------------------------
(* The directory only grows.                                                 *)
Extends ==
  \A d \in Doc : /\ ToSet(directory[d]) \subseteq ToSet(directory'[d])
                 /\ directory[d] # << >> => directory'[d][1] = directory[d][1]

(* What allocatePage does to the directory.                                  *)
LEMMA AllocateStep ==
  ASSUME DirectoryOK, NEW d \in Doc, allocatePage(d)
  PROVE  /\ DirectoryOK' /\ Extends
         /\ NewPage \in Resource /\ NewPage \notin Allocated
         /\ Allocated' = Allocated \cup {NewPage}
         /\ \A p \in Allocated : p \in Nat /\ p < NewPage
         /\ directory'[d] = Append(directory[d], NewPage)
         /\ ToSet(directory'[d]) = ToSet(directory[d]) \cup {NewPage}
         /\ \A e \in Doc \ {d} : directory'[e] = directory[e]
<1> DEFINE n == NewPage
<1>1. PICK k \in Nat : Allocated = 1..k
  BY DEF DirectoryOK
<1>2. n = k + 1
  <2>1. Cardinality(Allocated) = k
    BY <1>1, CardUpTo
  <2>2. NewPage = 1 + Cardinality(Allocated)
    BY DEF NewPage, Allocated
  <2> QED
    BY <2>1, <2>2
<1>3. n \in Resource /\ n \notin Allocated /\ \A p \in Allocated : p \in Nat /\ p < n
  BY <1>1, <1>2 DEF allocatePage
<1>4. directory' = [directory EXCEPT ![d] = Append(@, n)] /\ directory \in [Doc -> Seq(Resource)]
  BY DEF allocatePage, DirectoryOK
<1> HIDE DEF n
<1>5. directory'[d] = Append(directory[d], n) /\ \A e \in Doc \ {d} : directory'[e] = directory[e]
  BY <1>4
<1>6. PICK s : s = directory[d]
  OBVIOUS
<1>7. /\ s \in Seq(Resource) /\ Len(s) \in Nat
      /\ \A i \in 1..Len(s) : s[i] \in ToSet(s) /\ s[i] \in Allocated /\ s[i] \in Nat
      /\ Ascends(s)
  <2>1. s \in Seq(Resource) /\ Ascends(s)
    BY <1>4, <1>6 DEF DirectoryOK
  <2>2. \A i \in 1..Len(s) : s[i] \in ToSet(s)
    BY <2>1 DEF ToSet
  <2>3. ToSet(s) \subseteq Allocated
    BY <1>6 DEF Allocated
  <2> QED
    BY <1>3, <2>1, <2>2, <2>3
<1>8. PICK r : r = Append(s, n)
  OBVIOUS
<1>9. /\ r \in Seq(Resource) /\ Len(r) = Len(s) + 1 /\ r[Len(s) + 1] = n
      /\ \A i \in 1..Len(s) : r[i] = s[i]
  BY <1>3, <1>7, <1>8, AppendProperties
<1>10. Ascends(r)
  <2> SUFFICES ASSUME NEW i \in 1..Len(r), NEW j \in 1..Len(r), i < j
               PROVE  r[i] < r[j]
    BY DEF Ascends
  <2>1. i \in 1..Len(s) /\ r[i] = s[i]
    BY <1>7, <1>9
  <2>2. CASE j \in 1..Len(s)
    BY <1>7, <1>9, <2>1, <2>2 DEF Ascends
  <2>3. CASE j = Len(s) + 1
    BY <1>3, <1>7, <1>9, <2>1, <2>3
  <2> QED
    BY <1>7, <1>9, <2>2, <2>3
<1>11. ToSet(r) = ToSet(s) \cup {n}
  BY <1>7, <1>9 DEF ToSet
<1>12. directory'[d] = r
  BY <1>5, <1>6, <1>8
<1>13. directory' \in [Doc -> Seq(Resource)]
  BY <1>4, <1>5, <1>9, <1>12
<1>14. Allocated' = Allocated \cup {n}
  <2>1. \A e \in Doc : ToSet(directory'[e]) = IF e = d THEN ToSet(directory[e]) \cup {n} ELSE ToSet(directory[e])
    BY <1>5, <1>6, <1>11, <1>12
  <2> QED
    BY <2>1 DEF Allocated
<1>15. DirectoryOK'
  <2>1. \A e \in Doc : Ascends(directory'[e])
    BY <1>5, <1>10, <1>12 DEF DirectoryOK
  <2>2. ASSUME NEW e \in Doc, NEW f \in Doc, e # f
        PROVE  ToSet(directory'[e]) \cap ToSet(directory'[f]) = {}
    <3>1. ToSet(directory[e]) \cap ToSet(directory[f]) = {}
      BY <2>2 DEF DirectoryOK
    <3>2. n \notin ToSet(directory[e]) /\ n \notin ToSet(directory[f])
      BY <1>3 DEF Allocated
    <3> QED
      BY <1>5, <1>6, <1>11, <1>12, <2>2, <3>1, <3>2
  <2>3. Allocated' = 1..(k + 1) /\ k + 1 \in Nat
    BY <1>1, <1>2, <1>14 DEF n
  <2> QED
    BY <1>13, <2>1, <2>2, <2>3 DEF DirectoryOK
<1>16. Extends
  <2>1. s # << >> => r[1] = s[1]
    BY <1>7, <1>9
  <2> QED
    BY <1>5, <1>6, <1>11, <1>12, <2>1 DEF Extends
<1> QED
  BY <1>3, <1>5, <1>6, <1>11, <1>12, <1>14, <1>15, <1>16 DEF n

(* A page that is allocated only now is nobody's.                            *)
LEMMA FreshIsFree ==
  ASSUME LInv, NEW p \in Resource, p \notin Allocated
  PROVE  \A u \in Tx : lockTable[p].holders[u] = "none" /\ ~Queued(lockTable[p], u)
<1> SUFFICES ASSUME NEW u \in Tx
             PROVE  lockTable[p].holders[u] = "none" /\ ~Queued(lockTable[p], u)
  OBVIOUS
<1>1. IInv /\ LocksOK(u)
  BY DEF LInv
<1>2. lockTable[p] \in LockInfo
  BY <1>1, HolderType
<1>3. CASE phase[u] \in Active
  <2>1. \A i \in 1..Len(local[u].pages) : local[u].pages[i] # p
    BY <1>3, ActiveFacts
  <2>2. Top(u) \in 1..Len(local[u].pages) /\ local[u].at \in 1..Len(local[u].pages)
         /\ Len(local[u].pages) \in Nat
    BY <1>3, ActiveFacts
  <2>3. lockTable[p].holders[u] = "none"
    <3>1. \A i \in 1..Top(u) : i \in 1..Len(local[u].pages)
      BY <2>2
    <3> QED
      BY <1>1, <1>3, <2>1, <3>1 DEF LocksOK
  <2>4. \A m \in {"S", "X"} : ~Asks(lockTable[p], u, m)
    BY <1>1, <1>3, <2>1, <2>2 DEF LocksOK
  <2> QED
    BY <1>2, <2>3, <2>4, QueuedAsks
<1>4. CASE phase[u] \notin Active
  <2>1. promise[u] # "pending" /\ lockTable[p].holders[u] = "none"
    BY <1>1, <1>4 DEF LocksOK
  <2> QED
    BY <1>1, <2>1 DEF IInv
<1> QED
  BY <1>3, <1>4

-----------------------------------------------------------------------------
(* The requests that take no part in a step.                                 *)
Same(u) ==
  /\ phase'[u] = phase[u] /\ local'[u] = local[u] /\ request'[u] = request[u]
  /\ reply'[u] = reply[u] /\ undoLog'[u] = undoLog[u]

(* They keep what LInv says of them.                                         *)
LEMMA Bystander ==
  ASSUME LInv, Extends, NEW u \in Tx, Same(u)
  PROVE  RequestOK(u)' /\ PathOK(u)' /\ UndoOK(u)'
<1>1. RequestOK(u)'
  BY DEF LInv, RequestOK, Same, Base
<1>2. UndoOK(u)'
  BY DEF LInv, UndoOK, Done, Same
<1>3. PathOK(u)'
  <2>1. CASE phase[u] \in Active
    <3>1. /\ request[u] \in Request /\ request[u].op \in Operations(u) /\ request[u].doc \in Doc
          /\ local[u] \in Local /\ local[u].at \in 1..Len(local[u].pages)
          /\ Len(local[u].pages) \in Nat
          /\ Ascends(local[u].pages) /\ local[u].pages[1] = directory[request[u].doc][1]
          /\ \A i \in 1..Len(local[u].pages) : local[u].pages[i] \in ToSet(directory[request[u].doc])
      BY <2>1, ActiveFacts
    <3>2. ToSet(local[u].pages) \subseteq ToSet(directory[request[u].doc])
      BY <2>1 DEF LInv, PathOK
    <3>3. directory[request[u].doc] # << >>
      <4>1. 1 \in 1..Len(local[u].pages)
        BY <3>1
      <4> QED
        BY <3>1, <4>1 DEF ToSet
    <3>4. Operations(u)' = Operations(u)
      BY DEF Operations, Same
    <3> QED
      BY <3>1, <3>2, <3>3, <3>4 DEF PathOK, Same, Extends
  <2>2. CASE phase[u] \notin Active
    BY <2>2 DEF PathOK, Same
  <2> QED
    BY <2>1, <2>2
<1> QED
  BY <1>1, <1>2, <1>3

(* A step is the turn of one request: the others need no second look.        *)
LEMMA OneTurn ==
  ASSUME LInv, IInv', ShapeOK', DirectoryOK', Extends, NEW t \in Tx,
         \A u \in Tx \ {t} : Undisturbed(u) /\ Same(u),
         RequestOK(t)', PathOK(t)', LocksOK(t)', UndoOK(t)'
  PROVE  LInv'
<1> SUFFICES ASSUME NEW u \in Tx \ {t}
             PROVE  RequestOK(u)' /\ PathOK(u)' /\ LocksOK(u)' /\ UndoOK(u)'
  BY DEF LInv
<1>1. Undisturbed(u) /\ Same(u) /\ u \in Tx
  OBVIOUS
<1>2. RequestOK(u)' /\ PathOK(u)' /\ UndoOK(u)'
  BY <1>1, Bystander
<1>3. LocksOK(u)'
  <2>1. phase[u] \in Active => local[u].pages \in Seq(Resource) /\ Top(u) \in 1..Len(local[u].pages)
    BY ActiveFacts
  <2> QED
    BY <1>1, <2>1, LocksFrame DEF LInv, Same
<1> QED
  BY <1>2, <1>3

(* A directory that stays extends itself.                                    *)
LEMMA SameDirectory ==
  ASSUME UNCHANGED directory, DirectoryOK
  PROVE  DirectoryOK' /\ Extends
  BY DEF DirectoryOK, Allocated, Extends

(* The locks of a request that has asked for its next page, ...              *)
LEMMA AsksNext ==
  ASSUME LInv, NEW t \in Tx, NEW mode \in {"S", "X"}, NEW r \in Resource, Takes(t, r, mode),
         phase'[t] \in Queues, LockMode(t)' = mode, local'[t].at \in Nat \ {0},
         r = local'[t].pages[local'[t].at],
         IF local'[t].at = 1 THEN phase[t] = "unborn"
         ELSE /\ phase[t] = phase'[t] /\ promise[t] = "granted"
              /\ local'[t].pages = local[t].pages /\ local'[t].at = local[t].at + 1
  PROVE  LocksOK(t)'
<1> DEFINE pages == local'[t].pages
           at == local'[t].at
<1>1. phase'[t] \in Active /\ Top(t)' = at /\ at \in Nat \ {0}
  BY DEF Top, Queues, Active
<1>2. /\ \A p \in Resource : \/ lockTable'[p].holders[t] = lockTable[p].holders[t]
                             \/ p = r /\ lockTable'[p].holders[t] = mode
      /\ \A p \in Resource, m \in {"S", "X"} : Asks(lockTable'[p], t, m) => p = r /\ m = mode
      /\ promise'[t] = "granted" => lockTable'[r].holders[t] \in {mode, "X"}
  BY DEF Takes, AlreadyHolds
<1>3. \A p \in Resource : lockTable[p].holders[t] # "none" =>
          /\ lockTable[p].holders[t] = mode
          /\ at # 1 /\ \E i \in 1..(at - 1) : pages[i] = p
  <2>1. CASE at = 1
    BY <2>1 DEF LInv, LocksOK, Active
  <2>2. CASE at # 1
    <3>1. phase[t] \in Active /\ Top(t) = at - 1 /\ LockMode(t) = mode /\ pages = local[t].pages
      <4>1. local[t].at \in Nat
        BY <2>2, ActiveFacts DEF Queues, Active
      <4> QED
        BY <2>2, <4>1 DEF Top, LockMode, Queues, Active
    <3> QED
      BY <2>2, <3>1 DEF LInv, LocksOK
  <2> QED
    BY <2>1, <2>2
<1>4. ASSUME NEW i \in 1..at, i # at
      PROVE  lockTable'[pages[i]].holders[t] = mode
  <2>1. at # 1 /\ i \in 1..(at - 1)
    BY <1>1, <1>4
  <2>2. phase[t] \in Active /\ local[t].at = at - 1 /\ local[t].at \in Nat
    <3>1. phase[t] \in Active
      BY <2>1 DEF Queues, Active
    <3>2. local[t].at \in Nat
      BY <3>1, ActiveFacts
    <3> QED
      BY <2>1, <3>1, <3>2
  <2>3. Top(t) = at - 1 /\ LockMode(t) = mode /\ pages = local[t].pages
    BY <2>1, <2>2 DEF Top, LockMode
  <2>4. lockTable[pages[i]].holders[t] = mode
    BY <2>1, <2>2, <2>3 DEF LInv, LocksOK
  <2>5. pages[i] \in Resource
    <3>1. Top(t) \in 1..Len(local[t].pages) /\ Len(local[t].pages) \in Nat
      BY <2>2, ActiveFacts
    <3>2. i \in 1..Len(local[t].pages)
      BY <1>1, <2>1, <2>3, <3>1
    <3> QED
      BY <2>2, <2>3, <3>2, ActiveFacts
  <2> QED
    BY <1>2, <2>4, <2>5
<1>5. ASSUME NEW p \in Resource, lockTable'[p].holders[t] # "none"
      PROVE  /\ lockTable'[p].holders[t] = mode
             /\ \E i \in 1..at : pages[i] = p
  <2>1. CASE lockTable'[p].holders[t] = lockTable[p].holders[t]
    <3>1. \A i \in 1..(at - 1) : i \in 1..at
      BY <1>1
    <3> QED
      BY <1>3, <1>5, <2>1, <3>1
  <2>2. CASE p = r /\ lockTable'[p].holders[t] = mode
    <3>1. at \in 1..at /\ pages[at] = r
      BY <1>1
    <3> QED
      BY <2>2, <3>1
  <2> QED
    BY <1>2, <2>1, <2>2
<1>6. promise'[t] = "granted" => lockTable'[r].holders[t] = mode
  <2>1. lockTable'[r].holders[t] # "none" => lockTable'[r].holders[t] = mode
    BY <1>5
  <2> QED
    BY <1>2, <2>1
<1> QED
  BY <1>1, <1>2, <1>4, <1>5, <1>6 DEF LocksOK

(* ... has a lock more, ...                                                  *)
LEMMA HasMore ==
  ASSUME LInv, NEW t \in Tx, NEW r \in Resource, Takes(t, r, "X"), IInv', promise'[t] = "granted",
         phase'[t] \in Active \ Queues,
         local'[t].pages \in Seq(Resource),
         Len(local'[t].pages) \in Nat \ {0}, local'[t].pages[Len(local'[t].pages)] = r,
         IF Len(local'[t].pages) = 1 THEN phase[t] = "unborn"
         ELSE /\ phase[t] \in {"locking", "growing"} /\ promise[t] = "granted"
              /\ phase[t] = "locking" => local[t].at = Len(local[t].pages)
              /\ Len(local'[t].pages) = Len(local[t].pages) + 1
              /\ \A i \in 1..Len(local[t].pages) : local'[t].pages[i] = local[t].pages[i]
  PROVE  LocksOK(t)'
<1> DEFINE pages == local'[t].pages
           n == Len(pages)
<1>1. phase'[t] \in Active /\ phase'[t] \notin Queues /\ Top(t)' = n /\ n \in Nat \ {0} /\ LockMode(t)' = "X"
  BY DEF Top, Queues, Active, LockMode
<1>2. /\ \A p \in Resource : \/ lockTable'[p].holders[t] = lockTable[p].holders[t]
                             \/ p = r /\ lockTable'[p].holders[t] = "X"
      /\ lockTable'[r].holders[t] = "X"
  BY DEF Takes, AlreadyHolds
<1>3. \A p \in Resource, m \in {"S", "X"} : ~Asks(lockTable'[p], t, m)
  BY DEF IInv, Asks, Queued
<1>4. CASE n = 1
  <2>1. \A p \in Resource : lockTable[p].holders[t] = "none"
    BY <1>4 DEF LInv, LocksOK, Active
  <2>2. \A p \in Resource : lockTable'[p].holders[t] # "none" => p = r
    BY <1>2, <2>1
  <2>3. 1 \in 1..n /\ pages[1] = r /\ \A i \in 1..n : i = 1
    BY <1>4
  <2> QED
    BY <1>1, <1>2, <1>3, <2>2, <2>3 DEF LocksOK
<1>5. CASE n # 1
  <2>1. phase[t] \in Active /\ LockMode(t) = "X"
    BY <1>5 DEF Active, LockMode
  <2>2. Len(local[t].pages) \in Nat /\ \A i \in 1..Len(local[t].pages) : local[t].pages[i] \in Resource
    BY <2>1, ActiveFacts
  <2>3. Top(t) = n - 1 /\ n - 1 = Len(local[t].pages)
    BY <1>1, <1>5, <2>2 DEF Top, Queues
  <2>4. \A i \in 1..(n - 1) : pages[i] = local[t].pages[i] /\ pages[i] \in Resource
    BY <1>5, <2>2, <2>3
  <2>5. \A i \in 1..(n - 1) : lockTable[pages[i]].holders[t] = "X"
    BY <1>5, <2>1, <2>3, <2>4 DEF LInv, LocksOK
  <2>6. \A i \in 1..n : i = n \/ i \in 1..(n - 1)
    BY <1>1
  <2>7. \A i \in 1..n : lockTable'[pages[i]].holders[t] = "X"
    BY <1>2, <2>4, <2>5, <2>6
  <2>8. ASSUME NEW p \in Resource, lockTable'[p].holders[t] # "none"
        PROVE  lockTable'[p].holders[t] = "X" /\ \E i \in 1..n : pages[i] = p
    <3>1. CASE lockTable'[p].holders[t] = lockTable[p].holders[t]
      <4>1. lockTable[p].holders[t] = "X" /\ \E i \in 1..(n - 1) : local[t].pages[i] = p
        BY <2>1, <2>3, <2>8, <3>1 DEF LInv, LocksOK
      <4>2. \A i \in 1..(n - 1) : i \in 1..n
        BY <1>1
      <4> QED
        BY <2>4, <3>1, <4>1, <4>2
    <3>2. CASE p = r /\ lockTable'[p].holders[t] = "X"
      <4>1. n \in 1..n
        BY <1>1
      <4> QED
        BY <3>2, <4>1
    <3> QED
      BY <1>2, <3>1, <3>2
  <2> QED
    BY <1>1, <1>3, <2>7, <2>8 DEF LocksOK
<1> QED
  BY <1>4, <1>5

(* ... has all it had, ...                                                   *)
LEMMA HasAll ==
  ASSUME LInv, NEW t \in Tx, lockTable' = lockTable, promise'[t] = "granted", promise[t] = "granted",
         phase[t] \in Active \ {"reading"}, phase'[t] \in Active \ Queues,
         phase[t] = "locking" => local[t].at = Len(local[t].pages),
         local'[t].pages = local[t].pages
  PROVE  LocksOK(t)'
<1>1. LockMode(t)' = "X" /\ Top(t)' = Len(local[t].pages) /\ LockMode(t) = "X" /\ Top(t) = Len(local[t].pages)
  BY DEF LockMode, Top, Queues, Active
<1>2. phase[t] \in Active /\ phase'[t] \in Active /\ phase'[t] \notin Queues
  OBVIOUS
<1>3. \A p \in Resource, m \in {"S", "X"} : ~Asks(lockTable[p], t, m)
  BY DEF LInv, IInv, Asks, Queued
<1> QED
  BY <1>1, <1>2, <1>3 DEF LInv, LocksOK

(* ... has none left, or no longer waits.                                    *)
LEMMA HasNone ==
  ASSUME NEW t \in Tx, Released(t), phase'[t] \notin Active
  PROVE  LocksOK(t)'
  BY DEF Released, LocksOK

(* Whose lock request was rejected asks for nothing.                         *)
LEMMA GivesUp ==
  ASSUME LInv, IInv', NEW t \in Tx, promise[t] = "pending", promise'[t] = "rejected",
         \A p \in Resource : lockTable'[p].holders[t] = lockTable[p].holders[t],
         phase'[t] = phase[t], local'[t] = local[t]
  PROVE  LocksOK(t)'
<1>1. \A p \in Resource, m \in {"S", "X"} : ~Asks(lockTable'[p], t, m)
  BY DEF IInv, Asks, Queued
<1>2. Top(t)' = Top(t) /\ LockMode(t)' = LockMode(t)
  BY DEF Top, LockMode
<1>3. phase[t] \in Active /\ phase[t] \in Queues
  BY DEF LInv, LocksOK
<1>4. \A i \in 1..Top(t) : local[t].pages[i] \in Resource
  <2>1. Top(t) \in 1..Len(local[t].pages) /\ Len(local[t].pages) \in Nat
    BY <1>3, ActiveFacts
  <2>2. \A i \in 1..Top(t) : i \in 1..Len(local[t].pages)
    BY <2>1
  <2> QED
    BY <1>3, <2>2, ActiveFacts
<1> QED
  BY <1>1, <1>2, <1>3, <1>4 DEF LInv, LocksOK

(* LInv holds at the start, and every step keeps it.                         *)
LEMMA LInvInit ==
  ASSUME Init
  PROVE  LInv
<1>1. IInv
  BY LockInitInv DEF Init
<1>2. ShapeOK
  <2>1. Blank \in Image
    BY DEF Blank, Image, Text
  <2>2. buffer \in Seq(Event) /\ delivered \in Seq(Event) /\ Len(buffer) = 0
    BY DEF Init, QueueInit
  <2>3. /\ phase \in [Tx -> Phase] /\ request \in [Tx -> Request \cup {Nobody}]
        /\ local \in [Tx -> Local \cup {Nobody}] /\ reply \in [Tx -> Reply \cup {Nobody}]
        /\ page \in Pictures /\ indexed \in [Doc -> Text]
    BY <2>1 DEF Init, Pictures, Phase, Text
  <2>4. /\ DOMAIN undoLog = Tx
        /\ \A t \in Tx : DOMAIN undoLog[t] \subseteq Resource /\ undoLog[t] \in [DOMAIN undoLog[t] -> Image]
    BY DEF Init, Empty
  <2>5. sequences \in [Doc -> Nat] /\ draining \in BOOLEAN
    BY DEF Init, QueueInit
  <2> QED
    BY <2>2, <2>3, <2>4, <2>5, CapacityAssumption DEF ShapeOK
<1>3. DirectoryOK
  <2>1. \A d \in Doc : directory[d] = << >> /\ Len(directory[d]) = 0 /\ ToSet(directory[d]) = {}
    BY DEF Init, ToSet
  <2>2. Allocated = 1..0
    BY <2>1 DEF Allocated
  <2> QED
    BY <2>1, <2>2 DEF DirectoryOK, Ascends, Init
<1>4. ASSUME NEW t \in Tx
      PROVE  RequestOK(t) /\ PathOK(t) /\ LocksOK(t) /\ UndoOK(t)
  <2>1. phase[t] = "unborn" /\ undoLog[t] = Empty /\ promise[t] = "none"
    BY <1>4 DEF Init, LockInit, NoPromise
  <2>2. \A p \in Resource : lockTable[p].holders[t] = "none"
    BY DEF Init, LockInit, EmptyTable
  <2>3. DOMAIN undoLog[t] = {} /\ Done(t) = 0
    BY <2>1 DEF Empty, Done
  <2> QED
    BY <2>1, <2>2, <2>3 DEF RequestOK, PathOK, LocksOK, UndoOK, Active
<1> QED
  BY <1>1, <1>2, <1>3, <1>4 DEF LInv

(* createDocument.                                                           *)
LEMMA CreateL ==
  ASSUME LInv, NEW t \in Tx, NEW d \in Doc, createDocument(t, d)
  PROVE  LInv'
<1> DEFINE r == NewPage
           l == [pages |-> <<r>>, at |-> 1, version |-> 1, text |-> << >>]
           q == [op |-> "create", doc |-> d]
<1>1. /\ phase[t] = "unborn" /\ ~hasDocument(d) /\ allocatePage(d) /\ Acquire(t, r, "X")
      /\ request' = [request EXCEPT ![t] = q]
      /\ phase' = [phase EXCEPT ![t] = "writing"] /\ local' = [local EXCEPT ![t] = l]
      /\ UNCHANGED <<eventVars, page, undoLog, reply, indexed>>
  BY DEF createDocument, begin, Enters
<1>2. ShapeOK /\ DirectoryOK /\ IInv
  BY DEF LInv
<1>3. /\ DirectoryOK' /\ Extends /\ r \in Resource /\ r \notin Allocated
      /\ directory'[d] = Append(directory[d], r) /\ ToSet(directory'[d]) = ToSet(directory[d]) \cup {r}
  BY <1>1, <1>2, AllocateStep
<1> HIDE DEF r
<1>4. IInv' /\ Takes(t, r, "X") /\ \A u \in Tx \ {t} : Undisturbed(u)
  BY <1>1, <1>2, <1>3, AcquireInv, AcquireTakes, AcquireUndisturbed
<1>5. promise'[t] = "granted"
  BY <1>1, <1>2, <1>3, FreshIsFree, AcquireFree
<1>6. phase'[t] = "writing" /\ local'[t] = l /\ request'[t] = q
  BY <1>1, <1>2 DEF ShapeOK
<1>7. \A u \in Tx \ {t} : Same(u)
  BY <1>1, <1>2 DEF ShapeOK, Same
<1>8. l \in Local /\ l.pages \in Seq(Resource) /\ Len(l.pages) = 1 /\ l.pages[1] = r
      /\ l.at = 1 /\ ToSet(l.pages) = {r} /\ Ascends(l.pages)
  <2>1. <<r>> \in Seq(Resource) /\ Len(<<r>>) = 1 /\ <<r>>[1] = r
    BY <1>3
  <2>2. Ascends(<<r>>)
    BY <2>1 DEF Ascends
  <2>3. ToSet(<<r>>) = {r}
    BY <2>1 DEF ToSet
  <2> QED
    BY <2>1, <2>2, <2>3 DEF Local, Text
<1>9. q \in Request /\ q.op = "create" /\ q.doc = d
  BY DEF Request
<1>10. directory'[d][1] = r
  BY <1>1, <1>3 DEF hasDocument
<1> HIDE DEF l, q
<1>11. ShapeOK'
  BY <1>1, <1>2, <1>8, <1>9 DEF ShapeOK, eventVars, queueVars, Phase
<1>12. RequestOK(t)'
  BY <1>6, <1>8, <1>9 DEF RequestOK
<1>13. PathOK(t)'
  <2>1. request'[t].op \in Operations(t)'
    BY <1>6, <1>9 DEF Operations
  <2>2. ToSet(local'[t].pages) \subseteq ToSet(directory'[request'[t].doc])
    BY <1>3, <1>6, <1>8, <1>9
  <2>3. local'[t].pages[1] = directory'[request'[t].doc][1]
    BY <1>6, <1>8, <1>9, <1>10
  <2>4. local'[t].at \in 1..Len(local'[t].pages)
    BY <1>6, <1>8
  <2> QED
    BY <1>6, <1>8, <1>9, <2>1, <2>2, <2>3, <2>4 DEF PathOK
<1>14. LocksOK(t)'
  BY <1>1, <1>3, <1>4, <1>5, <1>6, <1>8, HasMore DEF Active, Queues
<1>15. UndoOK(t)'
  <2>1. undoLog'[t] = undoLog[t] /\ DOMAIN undoLog[t] = {}
    BY <1>1 DEF LInv, UndoOK, Done
  <2>2. Done(t)' = 0
    BY <1>6, <1>8 DEF Done
  <2> QED
    BY <2>1, <2>2 DEF UndoOK
<1> QED
  BY <1>3, <1>4, <1>7, <1>11, <1>12, <1>13, <1>14, <1>15, OneTurn

(* executeEdit and readDocument ask for the first page.                      *)
LEMMA OpensL ==
  ASSUME LInv, NEW t \in Tx, NEW req \in Request, NEW mode \in {"S", "X"}, NEW to \in Queues,
         Opens(t, req, mode, to),
         req.op = IF to = "reading" THEN "read" ELSE "edit",
         mode = IF to = "reading" THEN "S" ELSE "X",
         req.op = "edit" => IF Versioned THEN \E v \in Nat : req.base = {v} ELSE req.base = {}
  PROVE  LInv'
<1> DEFINE d == req.doc
           r == directory[d][1]
           l == [pages |-> directory[d], at |-> 1, version |-> 0, text |-> << >>]
<1>1. /\ phase[t] = "unborn" /\ directory[d] # << >> /\ Acquire(t, r, mode)
      /\ request' = [request EXCEPT ![t] = req]
      /\ phase' = [phase EXCEPT ![t] = to] /\ local' = [local EXCEPT ![t] = l]
      /\ UNCHANGED <<eventVars, directory, page, undoLog, reply, indexed>>
  BY DEF Opens, begin, Enters, hasDocument
<1>2. ShapeOK /\ DirectoryOK /\ IInv
  BY DEF LInv
<1>3. d \in Doc /\ directory[d] \in Seq(Resource) /\ Ascends(directory[d])
  BY <1>2 DEF Request, DirectoryOK
<1>4. Len(directory[d]) \in Nat \ {0} /\ r \in Resource
  BY <1>1, <1>3
<1>5. IInv' /\ Takes(t, r, mode) /\ \A u \in Tx \ {t} : Undisturbed(u)
  BY <1>1, <1>2, <1>4, AcquireInv, AcquireTakes, AcquireUndisturbed
<1>6. phase'[t] = to /\ local'[t] = l /\ request'[t] = req
  BY <1>1, <1>2 DEF ShapeOK
<1>7. \A u \in Tx \ {t} : Same(u)
  BY <1>1, <1>2 DEF ShapeOK, Same
<1>8. l \in Local /\ l.pages = directory[d] /\ l.at = 1
  BY <1>3 DEF Local, Text
<1> HIDE DEF l
<1>9. ShapeOK'
  BY <1>1, <1>2, <1>8 DEF ShapeOK, eventVars, queueVars, Phase, Queues
<1>10. DirectoryOK' /\ Extends
  BY <1>1, <1>2, SameDirectory
<1>11. RequestOK(t)'
  BY <1>6, <1>8 DEF RequestOK, Base, Queues
<1>12. PathOK(t)'
  BY <1>1, <1>3, <1>4, <1>6, <1>8 DEF PathOK, Operations, Queues
<1>13. LocksOK(t)'
  <2>1. LockMode(t)' = mode
    BY <1>6 DEF LockMode
  <2> QED
    BY <1>1, <1>4, <1>5, <1>6, <1>8, <2>1, AsksNext
<1>14. UndoOK(t)'
  <2>1. undoLog'[t] = undoLog[t] /\ DOMAIN undoLog[t] = {}
    BY <1>1 DEF LInv, UndoOK, Done
  <2>2. Done(t)' = 0
    BY <1>6 DEF Done, Queues
  <2> QED
    BY <2>1, <2>2 DEF UndoOK
<1> QED
  BY <1>5, <1>7, <1>9, <1>10, <1>11, <1>12, <1>13, <1>14, OneTurn

(* Clients know numbers of versions.                                         *)
LEMMA KnownVersionsType ==
  ASSUME LInv, NEW d
  PROVE  KnownVersions(d) \subseteq Nat
  BY DEF LInv, RequestOK, KnownVersions, Reply

(* executeEdit.                                                              *)
LEMMA ExecuteEditL ==
  ASSUME LInv, NEW t \in Tx, NEW d \in Doc, executeEdit(t, d)
  PROVE  LInv'
<1>1. PICK change \in Changes, base \in IF Versioned THEN {{v} : v \in KnownVersions(d)} ELSE {{}} :
        Opens(t, [op |-> "edit", doc |-> d, change |-> change, base |-> base], "X", "locking")
  BY DEF executeEdit
<1>2. PICK req : req = [op |-> "edit", doc |-> d, change |-> change, base |-> base]
  OBVIOUS
<1>3. base \in SUBSET Nat /\ IF Versioned THEN \E v \in Nat : base = {v} ELSE base = {}
  BY KnownVersionsType
<1>4. req \in Request /\ req.op = "edit" /\ req.base = base
  BY <1>2, <1>3 DEF Request
<1> QED
  BY <1>1, <1>2, <1>3, <1>4, OpensL DEF Queues

(* readDocument.                                                             *)
LEMMA ReadDocumentL ==
  ASSUME LInv, NEW t \in Tx, NEW d \in Doc, readDocument(t, d)
  PROVE  LInv'
<1>1. PICK req : req = [op |-> "read", doc |-> d]
  OBVIOUS
<1>2. req \in Request /\ req.op = "read"
  BY <1>1 DEF Request
<1> QED
  BY <1>1, <1>2, OpensL DEF Queues, readDocument

(* executeEdit, the lock of the next page on the list.                       *)
LEMMA LockNextL ==
  ASSUME LInv, NEW t \in Tx, lockNextPage(t)
  PROVE  LInv'
<1> DEFINE next == local[t].at + 1
           r == local[t].pages[next]
           l == [local[t] EXCEPT !.at = next]
<1>1. /\ phase[t] = "locking" /\ promise[t] = "granted" /\ local[t].at # Len(local[t].pages)
      /\ Acquire(t, r, "X")
      /\ phase' = [phase EXCEPT ![t] = "locking"] /\ local' = [local EXCEPT ![t] = l]
      /\ UNCHANGED <<eventVars, directory, page, request, undoLog, reply, indexed>>
  BY DEF lockNextPage, Granted, AllLocked, Enters
<1>2. ShapeOK /\ DirectoryOK /\ IInv
  BY DEF LInv
<1>3. /\ local[t] \in Local /\ local[t].at \in 1..Len(local[t].pages)
      /\ Len(local[t].pages) \in Nat /\ local[t].at \in Nat
  BY <1>1, ActiveFacts DEF Active
<1>4. next \in 1..Len(local[t].pages) /\ next \in Nat \ {0} /\ next # 1
  BY <1>1, <1>3
<1>5. r \in Resource
  BY <1>1, <1>4, ActiveFacts DEF Active
<1>6. IInv' /\ Takes(t, r, "X") /\ \A u \in Tx \ {t} : Undisturbed(u)
  BY <1>1, <1>2, <1>5, AcquireInv, AcquireTakes, AcquireUndisturbed
<1>7. phase'[t] = "locking" /\ local'[t] = l /\ request'[t] = request[t] /\ undoLog'[t] = undoLog[t]
  BY <1>1, <1>2 DEF ShapeOK
<1>8. \A u \in Tx \ {t} : Same(u)
  BY <1>1, <1>2 DEF ShapeOK, Same
<1>9. l \in Local /\ l.pages = local[t].pages /\ l.at = next
  BY <1>3, <1>4 DEF Local
<1> HIDE DEF l
<1>10. ShapeOK'
  BY <1>1, <1>2, <1>9 DEF ShapeOK, eventVars, queueVars, Phase
<1>11. DirectoryOK' /\ Extends
  BY <1>1, <1>2, SameDirectory
<1>12. RequestOK(t)'
  BY <1>1, <1>7, <1>9 DEF RequestOK, Base, LInv
<1>13. PathOK(t)'
  BY <1>1, <1>4, <1>7, <1>9 DEF PathOK, Operations, LInv, Active
<1>14. LocksOK(t)'
  <2>1. LockMode(t)' = "X"
    BY <1>7 DEF LockMode
  <2> QED
    BY <1>1, <1>4, <1>5, <1>6, <1>7, <1>9, <2>1, AsksNext DEF Queues
<1>15. UndoOK(t)'
  BY <1>1, <1>7 DEF LInv, UndoOK, Done
<1> QED
  BY <1>6, <1>8, <1>10, <1>11, <1>12, <1>13, <1>14, <1>15, OneTurn

(* The new text is computed once, from the pages as they are.                *)
LEMMA PlannedFacts ==
  ASSUME LInv, NEW t \in Tx, Decided(t)
  PROVE  /\ phase[t] \in {"locking", "growing"} /\ promise[t] = "granted"
         /\ phase[t] = "locking" => local[t].at = Len(local[t].pages) /\ assertNoConflict(t)
         /\ request[t].op = "edit" /\ request[t].change \in Changes /\ request[t].doc \in Doc
         /\ Planned(t) \in Local /\ Planned(t).pages = local[t].pages /\ Planned(t).at = local[t].at
         /\ phase[t] = "growing" => Planned(t) = local[t]
         /\ phase[t] = "locking" =>
              /\ Planned(t).version = CurrentVersion(t) + 1
              /\ Planned(t).text = applyOperation(TextOn(page, local[t].pages),
                                                  OperationOf(t, request[t].change))
<1>1. /\ phase[t] \in {"locking", "growing"} /\ promise[t] = "granted"
      /\ phase[t] = "locking" => local[t].at = Len(local[t].pages) /\ assertNoConflict(t)
  BY DEF Decided, Granted, AllLocked
<1>2. phase[t] \in Active
  BY <1>1 DEF Active
<1>3. /\ request[t] \in Request /\ request[t].op \in Operations(t) /\ request[t].doc \in Doc
      /\ local[t] \in Local /\ local[t].pages \in Seq(Resource)
      /\ local[t].at \in 1..Len(local[t].pages) /\ Len(local[t].pages) \in Nat
  BY <1>2, ActiveFacts
<1>4. request[t].op = "edit" /\ request[t].change \in Changes
  <2>1. request[t].op = "edit"
    BY <1>1, <1>3 DEF Operations
  <2> QED
    BY <1>3, <2>1 DEF Request
<1>5. CASE phase[t] = "growing"
  BY <1>1, <1>3, <1>4, <1>5 DEF Planned
<1>6. CASE phase[t] = "locking"
  <2> DEFINE v == CurrentVersion(t) + 1
             x == applyOperation(TextOn(page, local[t].pages), OperationOf(t, request[t].change))
  <2>1. v \in Nat
    <3>1. local[t].pages[1] \in Resource
      <4>1. 1 \in 1..Len(local[t].pages)
        BY <1>3
      <4> QED
        BY <1>2, <4>1, ActiveFacts
    <3> QED
      BY <3>1 DEF CurrentVersion, LInv, ShapeOK, Pictures, Image
  <2>2. x \in Text
    BY <1>3, <1>4, TextOnType, ApplyType DEF LInv, ShapeOK
  <2>3. Planned(t) = [local[t] EXCEPT !.version = v, !.text = x]
    BY <1>6 DEF Planned
  <2> HIDE DEF v, x
  <2>4. Planned(t) \in Local /\ Planned(t).pages = local[t].pages /\ Planned(t).at = local[t].at
        /\ Planned(t).version = v /\ Planned(t).text = x
    BY <1>3, <2>1, <2>2, <2>3 DEF Local
  <2> QED
    BY <1>1, <1>3, <1>4, <1>6, <2>4 DEF v, x
<1> QED
  BY <1>1, <1>5, <1>6

(* executeEdit, one page more.                                               *)
LEMMA GrowL ==
  ASSUME LInv, NEW t \in Tx, grow(t)
  PROVE  LInv'
<1> DEFINE d == request[t].doc
           r == NewPage
           l == [Planned(t) EXCEPT !.pages = Append(@, r)]
<1>1. /\ Decided(t) /\ allocatePage(d) /\ Acquire(t, r, "X")
      /\ phase' = [phase EXCEPT ![t] = "growing"] /\ local' = [local EXCEPT ![t] = l]
      /\ UNCHANGED <<eventVars, page, request, undoLog, reply, indexed>>
  BY DEF grow, Enters
<1>2. ShapeOK /\ DirectoryOK /\ IInv
  BY DEF LInv
<1>3. /\ phase[t] \in {"locking", "growing"} /\ promise[t] = "granted"
      /\ phase[t] = "locking" => local[t].at = Len(local[t].pages)
      /\ request[t].op = "edit" /\ d \in Doc
      /\ Planned(t) \in Local /\ Planned(t).pages = local[t].pages /\ Planned(t).at = local[t].at
  BY <1>1, PlannedFacts
<1>4. phase[t] \in Active
  BY <1>3 DEF Active
<1>5. /\ DirectoryOK' /\ Extends /\ r \in Resource /\ r \notin Allocated
      /\ \A p \in Allocated : p \in Nat /\ p < r
      /\ directory'[d] = Append(directory[d], r)
      /\ ToSet(directory'[d]) = ToSet(directory[d]) \cup {r}
  BY <1>1, <1>2, <1>3, AllocateStep
<1> HIDE DEF r
<1>6. IInv' /\ Takes(t, r, "X") /\ \A u \in Tx \ {t} : Undisturbed(u)
  BY <1>1, <1>2, <1>5, AcquireInv, AcquireTakes, AcquireUndisturbed
<1>7. promise'[t] = "granted"
  BY <1>1, <1>2, <1>5, FreshIsFree, AcquireFree
<1>8. phase'[t] = "growing" /\ local'[t] = l /\ request'[t] = request[t] /\ undoLog'[t] = undoLog[t]
  BY <1>1, <1>2 DEF ShapeOK
<1>9. \A u \in Tx \ {t} : Same(u)
  BY <1>1, <1>2 DEF ShapeOK, Same
<1> DEFINE s == local[t].pages
<1>10. /\ s \in Seq(Resource) /\ Len(s) \in Nat /\ local[t].at \in 1..Len(s) /\ Ascends(s)
       /\ \A i \in 1..Len(s) : s[i] \in Nat /\ s[i] \in Allocated /\ s[i] \in ToSet(directory[d])
       /\ s[1] = directory[d][1]
  BY <1>4, ActiveFacts
<1>11. PICK q : q = Append(s, r)
  OBVIOUS
<1>12. /\ q \in Seq(Resource) /\ Len(q) = Len(s) + 1 /\ q[Len(s) + 1] = r
       /\ \A i \in 1..Len(s) : q[i] = s[i]
  BY <1>5, <1>10, <1>11, AppendProperties
<1>13. l \in Local /\ l.pages = q /\ l.at = local[t].at
  BY <1>3, <1>11, <1>12 DEF Local
<1> HIDE DEF l, s
<1>14. Ascends(q)
  <2> SUFFICES ASSUME NEW i \in 1..Len(q), NEW j \in 1..Len(q), i < j
               PROVE  q[i] < q[j]
    BY DEF Ascends
  <2>1. i \in 1..Len(s) /\ q[i] = s[i]
    BY <1>10, <1>12
  <2>2. CASE j \in 1..Len(s)
    BY <1>10, <1>12, <2>1, <2>2 DEF Ascends
  <2>3. CASE j = Len(s) + 1
    BY <1>5, <1>10, <1>12, <2>1, <2>3
  <2> QED
    BY <1>10, <1>12, <2>2, <2>3
<1>15. ShapeOK'
  BY <1>1, <1>2, <1>13 DEF ShapeOK, eventVars, queueVars, Phase
<1>16. RequestOK(t)'
  BY <1>3, <1>4, <1>8, <1>13 DEF RequestOK, Base, LInv, Active
<1>17. PathOK(t)'
  <2>1. request'[t].op \in Operations(t)'
    BY <1>3, <1>8 DEF Operations
  <2>2. ToSet(local'[t].pages) \subseteq ToSet(directory'[request'[t].doc])
    <3>1. \A i \in 1..Len(q) : q[i] \in ToSet(directory[d]) \cup {r}
      BY <1>10, <1>12
    <3>2. ToSet(q) \subseteq ToSet(directory[d]) \cup {r}
      BY <1>12, <3>1 DEF ToSet
    <3>3. request'[t].doc = d
      BY <1>8
    <3> QED
      BY <1>5, <1>8, <1>13, <3>2, <3>3
  <2>3. local'[t].pages[1] = directory'[request'[t].doc][1]
    <3>1. 1 \in 1..Len(s)
      BY <1>10
    <3>2. directory[d] # << >>
      BY <1>10, <3>1 DEF ToSet
    <3> QED
      BY <1>3, <1>5, <1>8, <1>10, <1>12, <1>13, <3>1, <3>2 DEF Extends
  <2>4. local'[t].at \in 1..Len(local'[t].pages)
    BY <1>8, <1>10, <1>12, <1>13
  <2>5. request'[t] \in Request
    BY <1>4, <1>8 DEF LInv, PathOK
  <2> QED
    BY <1>8, <1>13, <1>14, <2>1, <2>2, <2>3, <2>4, <2>5 DEF PathOK
<1>18. LocksOK(t)'
  <2>1. phase'[t] \in Active \ Queues
    BY <1>8 DEF Active, Queues
  <2>2. Len(local'[t].pages) \in Nat \ {0} /\ Len(local'[t].pages) # 1
    BY <1>8, <1>10, <1>12, <1>13
  <2>3. /\ Len(local'[t].pages) = Len(local[t].pages) + 1
        /\ local'[t].pages[Len(local'[t].pages)] = r
        /\ \A i \in 1..Len(local[t].pages) : local'[t].pages[i] = local[t].pages[i]
    BY <1>8, <1>12, <1>13 DEF s
  <2>4. local'[t].pages \in Seq(Resource)
    BY <1>8, <1>12, <1>13
  <2> QED
    BY <1>3, <1>5, <1>6, <1>7, <2>1, <2>2, <2>3, <2>4, HasMore
<1>19. UndoOK(t)'
  BY <1>3, <1>8 DEF LInv, UndoOK, Done
<1> QED
  BY <1>5, <1>6, <1>9, <1>15, <1>16, <1>17, <1>18, <1>19, OneTurn

(* The lock of a page that is on the list of a request that has all of them. *)
LEMMA AcquireOwn ==
  ASSUME LInv, NEW t \in Tx, phase[t] \in Active \ {"reading"}, promise[t] = "granted",
         phase[t] = "locking" => local[t].at = Len(local[t].pages),
         NEW i \in 1..Len(local[t].pages), Acquire(t, local[t].pages[i], "X")
  PROVE  IInv' /\ lockTable' = lockTable /\ promise'[t] = "granted" /\ \A u \in Tx \ {t} : Undisturbed(u)
<1> DEFINE r == local[t].pages[i]
<1>1. r \in Resource /\ IInv
  BY ActiveFacts DEF LInv
<1>2. Top(t) = Len(local[t].pages) /\ LockMode(t) = "X"
  BY DEF Top, LockMode, Queues
<1>3. AlreadyHolds(lockTable[r], t, "X")
  BY <1>2 DEF LInv, LocksOK, AlreadyHolds
<1> QED
  BY <1>1, <1>3, AcquireInv, AcquireHeld, AcquireUndisturbed

(* executeEdit, all pages at hand.                                           *)
LEMMA StartWritingL ==
  ASSUME LInv, NEW t \in Tx, startWriting(t)
  PROVE  LInv'
<1> DEFINE l == [Planned(t) EXCEPT !.at = 1]
<1>1. /\ Decided(t) /\ Acquire(t, Planned(t).pages[1], "X")
      /\ phase' = [phase EXCEPT ![t] = "writing"] /\ local' = [local EXCEPT ![t] = l]
      /\ UNCHANGED <<eventVars, directory, page, request, undoLog, reply, indexed>>
  BY DEF startWriting, Enters
<1>2. ShapeOK /\ DirectoryOK /\ IInv
  BY DEF LInv
<1>3. /\ phase[t] \in {"locking", "growing"} /\ promise[t] = "granted"
      /\ phase[t] = "locking" => local[t].at = Len(local[t].pages)
      /\ request[t].op = "edit"
      /\ Planned(t) \in Local /\ Planned(t).pages = local[t].pages
  BY <1>1, PlannedFacts
<1>4. phase[t] \in Active /\ phase[t] # "reading"
  BY <1>3 DEF Active
<1>5. /\ 1 \in 1..Len(local[t].pages) /\ Ascends(local[t].pages) /\ request[t] \in Request
      /\ ToSet(local[t].pages) \subseteq ToSet(directory[request[t].doc])
      /\ local[t].pages[1] = directory[request[t].doc][1]
  BY <1>4, ActiveFacts DEF LInv, PathOK
<1>6. IInv' /\ lockTable' = lockTable /\ promise'[t] = "granted" /\ \A u \in Tx \ {t} : Undisturbed(u)
  BY <1>1, <1>3, <1>4, <1>5, AcquireOwn
<1>7. phase'[t] = "writing" /\ local'[t] = l /\ request'[t] = request[t] /\ undoLog'[t] = undoLog[t]
  BY <1>1, <1>2 DEF ShapeOK
<1>8. \A u \in Tx \ {t} : Same(u)
  BY <1>1, <1>2 DEF ShapeOK, Same
<1>9. l \in Local /\ l.pages = local[t].pages /\ l.at = 1
  BY <1>3 DEF Local
<1> HIDE DEF l
<1>10. ShapeOK'
  BY <1>1, <1>2, <1>9 DEF ShapeOK, eventVars, queueVars, Phase
<1>11. DirectoryOK' /\ Extends
  BY <1>1, <1>2, SameDirectory
<1>12. RequestOK(t)'
  BY <1>3, <1>4, <1>7, <1>9 DEF RequestOK, Base, LInv, Active
<1>13. PathOK(t)'
  BY <1>1, <1>3, <1>5, <1>7, <1>9 DEF PathOK, Operations
<1>14. LocksOK(t)'
  BY <1>3, <1>4, <1>6, <1>7, <1>9, HasAll DEF Active, Queues
<1>15. UndoOK(t)'
  BY <1>3, <1>7, <1>9 DEF LInv, UndoOK, Done
<1> QED
  BY <1>6, <1>8, <1>10, <1>11, <1>12, <1>13, <1>14, <1>15, OneTurn

(* What a write does to the page and to the undo log.                        *)
LEMMA WriteFacts ==
  ASSUME LInv, NEW t \in Tx, write(t)
  PROVE  LET l == local[t]
             p == l.pages[l.at]
             image == [version |-> l.version, chunk |-> ChunkFor(l)]
         IN  /\ phase[t] = "writing" /\ promise[t] = "granted" /\ p \in Resource
             /\ image \in Image
             /\ page' = [page EXCEPT ![p] = image] /\ page' \in Pictures
             /\ DOMAIN undoLog' = Tx /\ \A u \in Tx \ {t} : undoLog'[u] = undoLog[u]
             /\ DOMAIN undoLog'[t] = DOMAIN undoLog[t] \cup {p}
             /\ p \notin DOMAIN undoLog[t] => undoLog'[t][p] = page[p]
             /\ \A q \in DOMAIN undoLog[t] : q # p => undoLog'[t][q] = undoLog[t][q]
             /\ undoLog'[t] \in [DOMAIN undoLog'[t] -> Image]
             /\ p \notin DOMAIN undoLog[t]
<1> DEFINE l == local[t]
           p == l.pages[l.at]
           image == [version |-> l.version, chunk |-> ChunkFor(l)]
           f == [q \in DOMAIN undoLog[t] \cup {p} |-> IF q = p THEN page[p] ELSE undoLog[t][q]]
<1>1. /\ phase[t] = "writing" /\ promise[t] = "granted"
      /\ page' = [page EXCEPT ![p] = image]
      /\ undoLog' = [undoLog EXCEPT ![t] = f]
  BY DEF write, Granted
<1>2. ShapeOK /\ phase[t] \in Active
  BY <1>1 DEF LInv, Active
<1>3. l \in Local /\ l.at \in 1..Len(l.pages) /\ p \in Resource /\ Len(l.pages) \in Nat /\ Ascends(l.pages)
      /\ \A i \in 1..Len(l.pages) : l.pages[i] \in Nat
  BY <1>2, ActiveFacts
<1>4. image \in Image
  <2>1. Chunks(l.text) \in Seq(Text) /\ l.version \in Nat /\ l.at \in 1..Len(l.pages)
    BY <1>3, ChunksMakeUp DEF Local
  <2>2. ChunkFor(l) \in Text
    <3>1. CASE l.at <= Len(Chunks(l.text))
      <4>1. l.at \in 1..Len(Chunks(l.text))
        BY <1>3, <2>1, <3>1
      <4>2. Chunks(l.text)[l.at] \in Text
        BY <2>1, <4>1, ElementOfSeq
      <4> QED
        BY <3>1, <4>2 DEF ChunkFor
    <3>2. CASE ~(l.at <= Len(Chunks(l.text)))
      BY <3>2 DEF ChunkFor, Text
    <3> QED
      BY <3>1, <3>2
  <2> QED
    BY <2>1, <2>2 DEF Image
<1>5. page[p] \in Image /\ undoLog[t] \in [DOMAIN undoLog[t] -> Image]
  BY <1>2, <1>3 DEF ShapeOK, Pictures
<1>6. p \notin DOMAIN undoLog[t]
  <2> SUFFICES ASSUME p \in DOMAIN undoLog[t] PROVE FALSE
    OBVIOUS
  <2>1. PICK i \in 1..(l.at - 1) : l.pages[i] = p
    BY <1>1 DEF LInv, UndoOK, Done
  <2>2. i \in 1..Len(l.pages) /\ i < l.at
    BY <1>3
  <2>3. l.pages[i] < p
    BY <1>3, <2>2 DEF Ascends
  <2> QED
    BY <1>3, <2>1, <2>3
<1> HIDE DEF p, l, image
<1>7. f \in [DOMAIN undoLog[t] \cup {p} -> Image]
  BY <1>5
<1>8. undoLog'[t] = f /\ DOMAIN undoLog' = Tx /\ \A u \in Tx \ {t} : undoLog'[u] = undoLog[u]
  BY <1>1, <1>2 DEF ShapeOK
<1>9. page' \in Pictures
  BY <1>1, <1>2, <1>3, <1>4 DEF ShapeOK, Pictures
<1> QED
  BY <1>1, <1>3, <1>4, <1>6, <1>7, <1>8, <1>9 DEF p, l, image

(* executeEdit, a page written.                                              *)
LEMMA WriteL ==
  ASSUME LInv, NEW t \in Tx, write(t)
  PROVE  LInv'
<1> DEFINE l == local[t]
           p == l.pages[l.at]
<1>1. /\ phase[t] = "writing" /\ promise[t] = "granted" /\ p \in Resource
      /\ page' \in Pictures
      /\ DOMAIN undoLog' = Tx /\ \A u \in Tx \ {t} : undoLog'[u] = undoLog[u]
      /\ DOMAIN undoLog'[t] = DOMAIN undoLog[t] \cup {p}
      /\ undoLog'[t] \in [DOMAIN undoLog'[t] -> Image]
  BY WriteFacts
<1>2. ShapeOK /\ DirectoryOK /\ IInv /\ phase[t] \in Active
  BY <1>1 DEF LInv, Active
<1>3. /\ l \in Local /\ l.at \in 1..Len(l.pages) /\ Len(l.pages) \in Nat /\ l.at \in Nat
      /\ Ascends(l.pages) /\ request[t] \in Request /\ request[t].op \in {"create", "edit"}
      /\ ToSet(l.pages) \subseteq ToSet(directory[request[t].doc])
      /\ l.pages[1] = directory[request[t].doc][1]
  BY <1>1, <1>2, ActiveFacts DEF LInv, PathOK, Operations
<1>4. UNCHANGED <<eventVars, directory, request, reply, indexed>>
  BY DEF write
<1>5. DirectoryOK' /\ Extends
  BY <1>2, <1>4, SameDirectory
<1>6. PICK to \in {"writing", "finishing"}, at \in {l.at, l.at + 1} :
        /\ at \in 1..Len(l.pages)
        /\ phase' = [phase EXCEPT ![t] = to]
        /\ local' = [local EXCEPT ![t] = [l EXCEPT !.at = at]]
        /\ IInv' /\ lockTable' = lockTable /\ promise'[t] = "granted" /\ \A u \in Tx \ {t} : Undisturbed(u)
        /\ IF to = "writing" THEN at = l.at + 1 ELSE l.at = Len(l.pages)
  <2>1. CASE /\ l.at < Len(l.pages) /\ Acquire(t, l.pages[l.at + 1], "X")
             /\ Enters(t, "writing", [l EXCEPT !.at = @ + 1])
    <3>1. l.at + 1 \in 1..Len(l.pages)
      BY <1>3, <2>1
    <3>2. IInv' /\ lockTable' = lockTable /\ promise'[t] = "granted" /\ \A u \in Tx \ {t} : Undisturbed(u)
      BY <1>1, <1>2, <2>1, <3>1, AcquireOwn
    <3>3. phase' = [phase EXCEPT ![t] = "writing"] /\ local' = [local EXCEPT ![t] = [l EXCEPT !.at = l.at + 1]]
      BY <2>1 DEF Enters
    <3> QED
      BY <3>1, <3>2, <3>3
  <2>2. CASE /\ l.at = Len(l.pages) /\ Enters(t, "finishing", l) /\ UNCHANGED lockVars
    <3>1. lockTable' = lockTable /\ promise' = promise
      BY <2>2 DEF lockVars
    <3>2. IInv'
      BY <1>2, <3>1 DEF IInv
    <3>3. \A u \in Tx \ {t} : Undisturbed(u)
      BY <3>1 DEF Undisturbed
    <3>4. [l EXCEPT !.at = l.at] = l
      BY <1>3 DEF Local
    <3>5. phase' = [phase EXCEPT ![t] = "finishing"] /\ local' = [local EXCEPT ![t] = [l EXCEPT !.at = l.at]]
      BY <2>2, <3>4 DEF Enters
    <3> QED
      BY <1>1, <1>3, <2>2, <3>1, <3>2, <3>3, <3>5
  <2> QED
    BY <2>1, <2>2 DEF write
<1> DEFINE m == [l EXCEPT !.at = at]
<1>7. phase'[t] = to /\ local'[t] = m /\ request'[t] = request[t]
  BY <1>2, <1>4, <1>6 DEF ShapeOK
<1>8. \A u \in Tx \ {t} : Same(u)
  BY <1>1, <1>2, <1>4, <1>6 DEF ShapeOK, Same
<1>9. m \in Local /\ m.pages = l.pages /\ m.at = at /\ at \in Nat
  BY <1>3, <1>6 DEF Local
<1> HIDE DEF m
<1>10. ShapeOK'
  <2>1. phase' \in [Tx -> Phase] /\ local' \in [Tx -> Local \cup {Nobody}]
    BY <1>2, <1>6, <1>9 DEF ShapeOK, Phase, m
  <2>2. \A u \in Tx : DOMAIN undoLog'[u] \subseteq Resource /\ undoLog'[u] \in [DOMAIN undoLog'[u] -> Image]
    BY <1>1, <1>2 DEF ShapeOK
  <2> QED
    BY <1>1, <1>2, <1>4, <2>1, <2>2 DEF ShapeOK, eventVars, queueVars
<1>11. RequestOK(t)'
  BY <1>1, <1>4, <1>6, <1>7, <1>9 DEF RequestOK, Base, LInv
<1>12. PathOK(t)'
  BY <1>3, <1>4, <1>6, <1>7, <1>9 DEF PathOK, Operations
<1>13. LocksOK(t)'
  BY <1>1, <1>6, <1>7, <1>9, HasAll DEF Active, Queues
<1>14. UndoOK(t)'
  <2>1. DOMAIN undoLog[t] = {l.pages[i] : i \in 1..(l.at - 1)}
    BY <1>1 DEF LInv, UndoOK, Done
  <2>2. \A i \in 1..l.at : i = l.at \/ i \in 1..(l.at - 1)
    BY <1>3
  <2>3. l.at \in 1..l.at /\ \A i \in 1..(l.at - 1) : i \in 1..l.at
    BY <1>3
  <2>4. DOMAIN undoLog'[t] = {l.pages[i] : i \in 1..l.at}
    BY <1>1, <2>1, <2>2, <2>3
  <2>5. Done(t)' = l.at
    BY <1>3, <1>6, <1>7, <1>9 DEF Done
  <2> QED
    BY <1>7, <1>9, <2>4, <2>5 DEF UndoOK
<1> QED
  BY <1>5, <1>6, <1>8, <1>10, <1>11, <1>12, <1>13, <1>14, OneTurn

(* A request that ends, with an answer or without.                           *)
LEMMA EndsL ==
  ASSUME LInv, NEW t \in Tx, phase[t] # "unborn", NEW to \in {"replied", "failed"},
         phase' = [phase EXCEPT ![t] = to], ReleaseAll(t),
         undoLog' = [undoLog EXCEPT ![t] = Empty],
         NEW r, IF to = "replied" THEN r \in Reply /\ reply' = [reply EXCEPT ![t] = r] ELSE UNCHANGED reply,
         UNCHANGED <<directory, request, local>>, page' \in Pictures, indexed' \in [Doc -> Text],
         buffer' \in Seq(Event), delivered' \in Seq(Event), Len(buffer') <= Capacity,
         sequences' \in [Doc -> Nat], draining' \in BOOLEAN
  PROVE  LInv'
<1>1. ShapeOK /\ DirectoryOK /\ IInv
  BY DEF LInv
<1>2. IInv' /\ Released(t) /\ \A u \in Tx \ {t} : Undisturbed(u)
  BY <1>1, ReleaseAllReleases
<1>3. DirectoryOK' /\ Extends
  BY <1>1, SameDirectory
<1>4. /\ phase'[t] = to /\ to \notin Active /\ to # "unborn"
      /\ local'[t] = local[t] /\ request'[t] = request[t] /\ undoLog'[t] = Empty
  BY <1>1 DEF ShapeOK, Active
<1>5. to = "replied" => reply'[t] \in Reply
  BY <1>1 DEF ShapeOK
<1>6. \A u \in Tx \ {t} : Same(u)
  BY <1>1 DEF ShapeOK, Same
<1>7. ShapeOK'
  <2>1. phase' \in [Tx -> Phase] /\ reply' \in [Tx -> Reply \cup {Nobody}]
    BY <1>1 DEF ShapeOK, Phase
  <2>2. /\ DOMAIN undoLog' = Tx
        /\ \A u \in Tx : DOMAIN undoLog'[u] \subseteq Resource /\ undoLog'[u] \in [DOMAIN undoLog'[u] -> Image]
    BY <1>1 DEF ShapeOK, Empty
  <2> QED
    BY <1>1, <2>1, <2>2 DEF ShapeOK
<1>8. RequestOK(t)' /\ PathOK(t)'
  BY <1>4, <1>5 DEF RequestOK, PathOK, Base, LInv
<1>9. LocksOK(t)'
  BY <1>2, <1>4, HasNone
<1>10. UndoOK(t)'
  <2>1. Done(t)' = 0 /\ DOMAIN undoLog'[t] = {}
    BY <1>4 DEF Done, Active, Empty
  <2> QED
    BY <2>1 DEF UndoOK
<1> QED
  BY <1>2, <1>3, <1>6, <1>7, <1>8, <1>9, <1>10, OneTurn

(* The index is given texts, ...                                             *)
LEMMA IndexesType ==
  ASSUME LInv, NEW t \in Tx, phase[t] \in Active, Indexes(t)
  PROVE  indexed' \in [Doc -> Text]
  BY ActiveFacts DEF LInv, ShapeOK, Indexes, Local

(* ... and the caller an answer.                                             *)
LEMMA ReplyType ==
  ASSUME NEW l \in Local
  PROVE  [version |-> l.version, text |-> l.text, pages |-> l.pages] \in Reply
  BY DEF Local, Reply

(* The end of createDocument.                                                *)
LEMMA FinishCreateL ==
  ASSUME LInv, NEW t \in Tx, finishCreate(t)
  PROVE  LInv'
<1> DEFINE l == local[t]
           r == [version |-> l.version, text |-> l.text, pages |-> l.pages]
<1>1. phase[t] \in Active /\ phase[t] # "unborn"
  BY DEF finishCreate, Active
<1>2. l \in Local /\ indexed' \in [Doc -> Text]
  BY <1>1, ActiveFacts, IndexesType DEF finishCreate
<1>3. r \in Reply
  BY <1>2, ReplyType
<1>4. /\ phase' = [phase EXCEPT ![t] = "replied"] /\ ReleaseAll(t)
      /\ undoLog' = [undoLog EXCEPT ![t] = Empty] /\ reply' = [reply EXCEPT ![t] = r]
      /\ UNCHANGED <<directory, request, local>> /\ page' = page
      /\ buffer' = buffer /\ delivered' = delivered /\ sequences' = sequences /\ draining' = draining
  BY DEF finishCreate, Replies, eventVars, queueVars
<1>5. /\ page \in Pictures /\ buffer \in Seq(Event) /\ delivered \in Seq(Event) /\ Len(buffer) <= Capacity
      /\ sequences \in [Doc -> Nat] /\ draining \in BOOLEAN
  BY DEF LInv, ShapeOK
<1> HIDE DEF r
<1>6. "replied" \in {"replied", "failed"}
  OBVIOUS
<1> QED
  BY <1>1, <1>2, <1>3, <1>4, <1>5, <1>6, EndsL

(* What publish appends.                                                     *)
LEMMA PublishFacts ==
  ASSUME LInv, NEW t \in Tx, phase[t] = "finishing", request[t].op = "edit", publish(EditEvent(t))
  PROVE  LET d == request[t].doc
             e == [type |-> "edit", doc |-> d, sequence |-> sequences[d] + 1, version |-> local[t].version]
         IN  /\ e \in Event /\ buffer' = Append(buffer, e) /\ buffer' \in Seq(Event) /\ Len(buffer') <= Capacity
             /\ sequences' = [sequences EXCEPT ![d] = @ + 1] /\ sequences' \in [Doc -> Nat]
             /\ draining' = TRUE
<1> DEFINE d == request[t].doc
           e == [type |-> "edit", doc |-> d, sequence |-> sequences[d] + 1, version |-> local[t].version]
<1>1. phase[t] \in Active
  BY DEF Active
<1>2. d \in Doc /\ local[t] \in Local /\ ShapeOK
  BY <1>1, ActiveFacts DEF LInv
<1>3. Enveloped(EditEvent(t)) = e /\ EditEvent(t).doc = d
  BY DEF Enveloped, EditEvent
<1>4. e \in Event
  BY <1>2 DEF Event, ShapeOK, Local
<1>5. /\ ~Full /\ sequences' = [sequences EXCEPT ![d] = @ + 1]
      /\ buffer' = Append(buffer, e) /\ draining' = TRUE
  BY <1>3 DEF publish
<1> HIDE DEF e, d
<1>6. buffer' \in Seq(Event) /\ Len(buffer') = Len(buffer) + 1 /\ Len(buffer) \in Nat
  BY <1>2, <1>4, <1>5, AppendProperties DEF ShapeOK
<1>7. Len(buffer') <= Capacity
  BY <1>5, <1>6, CapacityAssumption DEF Full
<1>8. sequences' \in [Doc -> Nat]
  BY <1>2, <1>5 DEF ShapeOK
<1> QED
  BY <1>4, <1>5, <1>6, <1>7, <1>8 DEF e, d

(* The end of executeEdit.                                                   *)
LEMMA FinishEditL ==
  ASSUME LInv, NEW t \in Tx, finishEdit(t)
  PROVE  LInv'
<1> DEFINE l == local[t]
           r == [version |-> l.version, text |-> l.text, pages |-> l.pages]
<1>1. phase[t] \in Active /\ phase[t] # "unborn" /\ phase[t] = "finishing" /\ request[t].op = "edit"
  BY DEF finishEdit, Active
<1>2. l \in Local /\ indexed' \in [Doc -> Text]
  BY <1>1, ActiveFacts, IndexesType DEF finishEdit
<1>3. r \in Reply
  BY <1>2, ReplyType
<1>4. /\ phase' = [phase EXCEPT ![t] = "replied"] /\ ReleaseAll(t)
      /\ undoLog' = [undoLog EXCEPT ![t] = Empty] /\ reply' = [reply EXCEPT ![t] = r]
      /\ UNCHANGED <<directory, request, local>> /\ page' = page
      /\ delivered' = delivered /\ publish(EditEvent(t))
  BY DEF finishEdit, Replies
<1>5. page \in Pictures /\ delivered \in Seq(Event)
  BY DEF LInv, ShapeOK
<1>6. /\ buffer' \in Seq(Event) /\ Len(buffer') <= Capacity
      /\ sequences' \in [Doc -> Nat] /\ draining' \in BOOLEAN
  BY <1>1, <1>4, PublishFacts
<1> HIDE DEF r
<1>7. "replied" \in {"replied", "failed"}
  OBVIOUS
<1> QED
  BY <1>1, <1>2, <1>3, <1>4, <1>5, <1>6, <1>7, EndsL

(* An abort puts pictures of pages back.                                     *)
LEMMA FailsType ==
  ASSUME LInv, NEW t \in Tx, Fails(t)
  PROVE  page' \in Pictures
  BY DEF LInv, ShapeOK, Fails, Pictures

(* abort.                                                                    *)
LEMMA FailsL ==
  ASSUME LInv, NEW t \in Tx, phase[t] # "unborn", Fails(t), indexed' \in [Doc -> Text],
         UNCHANGED <<eventVars, directory, request, local, reply>>
  PROVE  LInv'
<1>1. /\ phase' = [phase EXCEPT ![t] = "failed"] /\ ReleaseAll(t)
      /\ undoLog' = [undoLog EXCEPT ![t] = Empty] /\ UNCHANGED reply
      /\ buffer' = buffer /\ delivered' = delivered /\ sequences' = sequences /\ draining' = draining
  BY DEF Fails, eventVars, queueVars
<1>2. /\ buffer \in Seq(Event) /\ delivered \in Seq(Event) /\ Len(buffer) <= Capacity
      /\ sequences \in [Doc -> Nat] /\ draining \in BOOLEAN /\ page' \in Pictures
  BY FailsType DEF LInv, ShapeOK
<1>3. PICK to \in {"replied", "failed"} : to = "failed"
  OBVIOUS
<1> QED
  BY <1>1, <1>2, <1>3, EndsL

(* The abort after publish has failed.                                       *)
LEMMA FailPublishL ==
  ASSUME LInv, NEW t \in Tx, failPublish(t)
  PROVE  LInv'
<1>1. phase[t] \in Active /\ phase[t] # "unborn"
  BY DEF failPublish, Active
<1> QED
  BY <1>1, IndexesType, FailsL DEF failPublish

(* Every other abort.                                                        *)
LEMMA FailL ==
  ASSUME LInv, NEW t \in Tx, fail(t)
  PROVE  LInv'
<1>1. phase[t] # "unborn"
  BY DEF fail, AllLocked, Granted
<1>2. indexed' \in [Doc -> Text]
  BY DEF fail, LInv, ShapeOK
<1> QED
  BY <1>1, <1>2, FailsL DEF fail

(* What a turn of a read adds to what it has read.                           *)
LEMMA ReadFacts ==
  ASSUME LInv, NEW t \in Tx, phase[t] = "reading"
  PROVE  LET p == local[t].pages[local[t].at]
             l == [local[t] EXCEPT !.version = IF local[t].at = 1 THEN page[p].version ELSE @,
                                   !.text = @ \o page[p].chunk]
         IN  /\ l \in Local /\ l.pages = local[t].pages /\ l.at = local[t].at /\ p \in Resource
             /\ l.version = IF local[t].at = 1 THEN page[p].version ELSE local[t].version
             /\ l.text = local[t].text \o page[p].chunk
<1> DEFINE p == local[t].pages[local[t].at]
           v == IF local[t].at = 1 THEN page[p].version ELSE local[t].version
           x == local[t].text \o page[p].chunk
<1>1. phase[t] \in Active
  BY DEF Active
<1>2. local[t] \in Local /\ p \in Resource /\ page \in Pictures
  BY <1>1, ActiveFacts DEF LInv, ShapeOK
<1>3. v \in Nat /\ page[p].chunk \in Text /\ local[t].text \in Text
  BY <1>2 DEF Pictures, Image, Local
<1>4. x \in Text
  BY <1>3, ConcatProperties DEF Text
<1>5. [local[t] EXCEPT !.version = IF local[t].at = 1 THEN page[p].version ELSE @,
                       !.text = @ \o page[p].chunk] = [local[t] EXCEPT !.version = v, !.text = x]
  BY <1>2 DEF Local
<1> HIDE DEF v, x, p
<1>6. LET l == [local[t] EXCEPT !.version = v, !.text = x]
      IN  l \in Local /\ l.pages = local[t].pages /\ l.at = local[t].at /\ l.version = v /\ l.text = x
  BY <1>2, <1>3, <1>4 DEF Local
<1> QED
  BY <1>2, <1>5, <1>6 DEF v, x, p

(* readDocument, a page read.                                                *)
LEMMA ReadPageL ==
  ASSUME LInv, NEW t \in Tx, readPage(t)
  PROVE  LInv'
<1> DEFINE p == local[t].pages[local[t].at]
           l == [local[t] EXCEPT !.version = IF local[t].at = 1 THEN page[p].version ELSE @,
                                 !.text = @ \o page[p].chunk]
<1>1. phase[t] = "reading" /\ promise[t] = "granted" /\ phase[t] \in Active
  BY DEF readPage, Granted, Active
<1>2. ShapeOK /\ DirectoryOK /\ IInv
  BY DEF LInv
<1>3. l \in Local /\ l.pages = local[t].pages /\ l.at = local[t].at
  BY <1>1, ReadFacts
<1>4. UNCHANGED <<eventVars, directory, page, request, indexed>>
  BY DEF readPage
<1>5. CASE /\ l.at < Len(l.pages) /\ Acquire(t, l.pages[l.at + 1], "S")
           /\ Enters(t, "reading", [l EXCEPT !.at = @ + 1])
           /\ UNCHANGED <<undoLog, reply>>
  <2> HIDE DEF l
  <2> DEFINE next == local[t].at + 1
             r == local[t].pages[next]
             m == [l EXCEPT !.at = next]
  <2>1. /\ Acquire(t, r, "S") /\ UNCHANGED <<undoLog, reply>>
        /\ phase' = [phase EXCEPT ![t] = "reading"] /\ local' = [local EXCEPT ![t] = m]
    BY <1>3, <1>5 DEF Enters
  <2>2. /\ local[t].at \in 1..Len(local[t].pages) /\ Len(local[t].pages) \in Nat /\ local[t].at \in Nat
    BY <1>1, ActiveFacts
  <2>3. next \in 1..Len(local[t].pages) /\ next \in Nat \ {0} /\ next # 1
    BY <1>3, <1>5, <2>2
  <2>4. r \in Resource
    BY <1>1, <2>3, ActiveFacts
  <2>5. IInv' /\ Takes(t, r, "S") /\ \A u \in Tx \ {t} : Undisturbed(u)
    BY <1>2, <2>1, <2>4, AcquireInv, AcquireTakes, AcquireUndisturbed
  <2>6. phase'[t] = "reading" /\ local'[t] = m /\ request'[t] = request[t] /\ undoLog'[t] = undoLog[t]
    BY <1>2, <1>4, <2>1 DEF ShapeOK
  <2>7. \A u \in Tx \ {t} : Same(u)
    BY <1>2, <1>4, <2>1 DEF ShapeOK, Same
  <2>8. m \in Local /\ m.pages = local[t].pages /\ m.at = next
    BY <1>3, <2>3 DEF Local
  <2> HIDE DEF m
  <2>9. ShapeOK'
    BY <1>2, <1>4, <2>1, <2>8 DEF ShapeOK, eventVars, queueVars, Phase
  <2>10. DirectoryOK' /\ Extends
    BY <1>2, <1>4, SameDirectory
  <2>11. RequestOK(t)'
    BY <1>1, <2>6, <2>8 DEF RequestOK, Base, LInv
  <2>12. PathOK(t)'
    BY <1>1, <1>4, <2>3, <2>6, <2>8 DEF PathOK, Operations, LInv
  <2>13. LocksOK(t)'
    <3>1. LockMode(t)' = "S"
      BY <2>6 DEF LockMode
    <3> QED
      BY <1>1, <2>3, <2>4, <2>5, <2>6, <2>8, <3>1, AsksNext DEF Queues
  <2>14. UndoOK(t)'
    BY <1>1, <2>6 DEF LInv, UndoOK, Done
  <2> QED
    BY <2>5, <2>7, <2>9, <2>10, <2>11, <2>12, <2>13, <2>14, OneTurn
<1>6. CASE l.at = Len(l.pages) /\ Replies(t, l) /\ UNCHANGED local
  <2> HIDE DEF l
  <2> DEFINE r == [version |-> l.version, text |-> l.text, pages |-> l.pages]
  <2>1. r \in Reply
    BY <1>3, ReplyType
  <2>2. /\ phase' = [phase EXCEPT ![t] = "replied"] /\ ReleaseAll(t)
        /\ undoLog' = [undoLog EXCEPT ![t] = Empty] /\ reply' = [reply EXCEPT ![t] = r]
        /\ UNCHANGED <<directory, request, local>> /\ page' = page /\ indexed' = indexed
        /\ buffer' = buffer /\ delivered' = delivered /\ sequences' = sequences /\ draining' = draining
    BY <1>4, <1>6 DEF Replies, eventVars, queueVars
  <2>3. /\ page \in Pictures /\ buffer \in Seq(Event) /\ delivered \in Seq(Event) /\ Len(buffer) <= Capacity
        /\ sequences \in [Doc -> Nat] /\ draining \in BOOLEAN /\ indexed \in [Doc -> Text]
    BY <1>2 DEF ShapeOK
  <2> HIDE DEF r
  <2>4. PICK to \in {"replied", "failed"} : to = "replied"
    OBVIOUS
  <2>5. phase[t] # "unborn"
    BY <1>1
  <2> QED
    BY <2>1, <2>2, <2>3, <2>4, <2>5, EndsL
<1> QED
  BY <1>5, <1>6 DEF readPage

(* A lock timeout.                                                           *)
LEMMA LockTimeoutL ==
  ASSUME LInv, NEW t \in Tx, NEW p \in Resource, lockTimeout(t, p)
  PROVE  LInv'
<1>1. ShapeOK /\ DirectoryOK /\ IInv
  BY DEF LInv
<1>2. Timeout(t, p) /\ UNCHANGED <<eventVars, docVars>>
  BY DEF lockTimeout
<1>3. /\ IInv' /\ promise[t] = "pending" /\ promise'[t] = "rejected"
      /\ \A q \in Resource : lockTable'[q].holders[t] = lockTable[q].holders[t]
      /\ \A u \in Tx \ {t} : Undisturbed(u)
  BY <1>1, <1>2, TimeoutRejects
<1>4. \A u \in Tx : Same(u)
  BY <1>2 DEF Same, docVars
<1>5. ShapeOK' /\ directory' = directory
  BY <1>1, <1>2 DEF ShapeOK, docVars, eventVars, queueVars
<1>6. DirectoryOK' /\ Extends
  BY <1>1, <1>5, SameDirectory
<1>7. RequestOK(t)' /\ PathOK(t)' /\ UndoOK(t)'
  BY <1>4, <1>6, Bystander
<1>8. LocksOK(t)'
  BY <1>3, <1>4, GivesUp DEF Same
<1> QED
  BY <1>3, <1>4, <1>5, <1>6, <1>7, <1>8, OneTurn

(* A step of the queue alone.                                                *)
LEMMA QuietL ==
  ASSUME LInv, UNCHANGED <<lockVars, docVars>>,
         buffer' \in Seq(Event), delivered' \in Seq(Event), Len(buffer') <= Capacity,
         sequences' \in [Doc -> Nat], draining' \in BOOLEAN
  PROVE  LInv'
<1>1. lockTable' = lockTable /\ promise' = promise /\ IInv /\ ShapeOK /\ DirectoryOK
  BY DEF lockVars, LInv
<1>2. /\ directory' = directory /\ page' = page /\ request' = request /\ phase' = phase /\ local' = local
      /\ undoLog' = undoLog /\ reply' = reply /\ indexed' = indexed
  BY DEF docVars
<1>3. IInv'
  BY <1>1 DEF IInv
<1>4. ShapeOK'
  BY <1>1, <1>2 DEF ShapeOK
<1>5. DirectoryOK' /\ Extends
  BY <1>1, <1>2, SameDirectory
<1>6. ASSUME NEW t \in Tx
      PROVE  RequestOK(t)' /\ PathOK(t)' /\ UndoOK(t)' /\ LocksOK(t)'
  <2>1. Same(t)
    BY <1>2 DEF Same
  <2>2. LocksOK(t)'
    BY <1>1, <1>2 DEF LInv, LocksOK, Top, LockMode
  <2> QED
    BY <1>5, <2>1, <2>2, Bystander
<1> QED
  BY <1>3, <1>4, <1>5, <1>6 DEF LInv

(* The drain of the queue.                                                   *)
LEMMA BroadcastL ==
  ASSUME LInv, broadcast
  PROVE  LInv'
<1>1. /\ buffer' = << >> /\ draining' = FALSE /\ sequences' = sequences /\ delivered' = delivered \o buffer
      /\ UNCHANGED <<lockVars, docVars>>
  BY DEF broadcast, deliver
<1>2. buffer \in Seq(Event) /\ delivered \in Seq(Event) /\ sequences \in [Doc -> Nat]
  BY DEF LInv, ShapeOK
<1>3. delivered' \in Seq(Event) /\ buffer' \in Seq(Event) /\ Len(buffer') <= Capacity
  BY <1>1, <1>2, ConcatProperties, CapacityAssumption
<1> QED
  BY <1>1, <1>2, <1>3, QuietL

(* All steps together.                                                       *)
LEMMA LInvStep ==
  ASSUME LInv, [Next]_vars
  PROVE  LInv'
<1>1. ASSUME NEW t \in Tx, NEW d \in Doc, createDocument(t, d) \/ executeEdit(t, d) \/ readDocument(t, d)
      PROVE  LInv'
  BY <1>1, CreateL, ExecuteEditL, ReadDocumentL
<1>2. ASSUME NEW t \in Tx, Turn(t)
      PROVE  LInv'
  BY <1>2, LockNextL, GrowL, StartWritingL, WriteL, FinishCreateL, FinishEditL, FailPublishL,
     FailL, ReadPageL DEF Turn
<1>3. ASSUME NEW t \in Tx, NEW p \in Resource, lockTimeout(t, p)
      PROVE  LInv'
  BY <1>3, LockTimeoutL
<1>4. CASE broadcast
  BY <1>4, BroadcastL
<1>5. CASE UNCHANGED vars
  <2>1. /\ buffer' = buffer /\ draining' = draining /\ sequences' = sequences /\ delivered' = delivered
        /\ UNCHANGED <<lockVars, docVars>>
    BY <1>5 DEF vars, eventVars, queueVars
  <2> QED
    BY <2>1, QuietL DEF LInv, ShapeOK
<1> QED
  BY <1>1, <1>2, <1>3, <1>4, <1>5 DEF Next

(* LInv always holds.                                                        *)
LEMMA AlwaysLInv == Spec => []LInv
<1>1. Init => LInv
  BY LInvInit
<1>2. LInv /\ [Next]_vars => LInv'
  BY LInvStep
<1> QED
  BY <1>1, <1>2, PTL DEF Spec

(* Every variable of the document operations keeps its type.                 *)
THEOREM DocTypeCorrect == Spec => []DocTypeOK
<1>1. LInv => DocTypeOK
  <2> SUFFICES ASSUME LInv
               PROVE  DocTypeOK
    OBVIOUS
  <2>1. LockTypeOK
    BY DEF LInv, IInv, TableOK, LockTypeOK
  <2>2. \A t \in Tx : /\ phase[t] # "unborn" => local[t] \in Local
                      /\ phase[t] = "replied" => reply[t] \in Reply
    BY DEF LInv, RequestOK
  <2>3. \A t \in Tx : DOMAIN undoLog[t] \subseteq Resource /\ \A p \in DOMAIN undoLog[t] : undoLog[t][p] \in Image
    BY DEF LInv, ShapeOK
  <2>4. page \in [Resource -> Image]
    BY DEF LInv, ShapeOK, Pictures
  <2> QED
    BY <2>1, <2>2, <2>3, <2>4 DEF LInv, ShapeOK, DirectoryOK, DocTypeOK
<1> QED
  BY <1>1, AlwaysLInv, PTL

-----------------------------------------------------------------------------
(* The page a request waits for is behind all it holds.                      *)
Wanted(t) == local[t].pages[local[t].at]

(* It is the last one a waiting request has asked for.                       *)
LEMMA WaiterFacts ==
  ASSUME LInv, NEW t \in Tx, promise[t] = "pending"
  PROVE  /\ Wanted(t) \in Resource /\ Wanted(t) \in Nat
         /\ Queued(lockTable[Wanted(t)], t)
         /\ \A r \in Resource : Queued(lockTable[r], t) => r = Wanted(t)
         /\ \A r \in Resource : lockTable[r].holders[t] # "none" => r < Wanted(t)
<1>1. IInv /\ LocksOK(t) /\ Sensible(lockTable[Wanted(t)])
  <2>1. phase[t] \in Active
    BY DEF LInv, LocksOK
  <2> QED
    BY <2>1, ActiveFacts DEF LInv, IInv, TableOK, Wanted
<1>2. phase[t] \in Active /\ phase[t] \in Queues
  BY <1>1 DEF LocksOK
<1>3. /\ local[t].at \in 1..Len(local[t].pages) /\ Len(local[t].pages) \in Nat /\ local[t].at \in Nat
      /\ Ascends(local[t].pages) /\ LockMode(t) \in {"S", "X"} /\ Top(t) = local[t].at
      /\ \A i \in 1..Len(local[t].pages) : local[t].pages[i] \in Resource /\ local[t].pages[i] \in Nat
  BY <1>2, ActiveFacts DEF Top
<1>4. Wanted(t) \in Resource /\ Wanted(t) \in Nat
  BY <1>3 DEF Wanted
<1>5. \A r \in Resource, m \in {"S", "X"} : Asks(lockTable[r], t, m) => r = Wanted(t) /\ m = LockMode(t)
  BY <1>1, <1>2 DEF LocksOK, Wanted
<1>6. \A r \in Resource : lockTable[r] \in LockInfo
  BY <1>1 DEF IInv, TableOK
<1>7. \A r \in Resource : Queued(lockTable[r], t) => r = Wanted(t)
  BY <1>5, <1>6, QueuedAsks
<1>8. Queued(lockTable[Wanted(t)], t)
  BY <1>1, <1>7 DEF IInv
<1>9. Asks(lockTable[Wanted(t)], t, LockMode(t))
  BY <1>1, <1>4, <1>5, PendingAsks
<1>10. ASSUME NEW r \in Resource, lockTable[r].holders[t] # "none"
       PROVE  r < Wanted(t)
  <2>1. lockTable[r].holders[t] = LockMode(t) /\ \E i \in 1..Top(t) : local[t].pages[i] = r
    BY <1>1, <1>2, <1>10 DEF LocksOK
  <2>2. PICK i \in 1..Top(t) : local[t].pages[i] = r
    BY <2>1
  <2>3. i # local[t].at
    BY <1>1, <1>3, <1>9, <2>1, <2>2 DEF Sensible, AlreadyHolds, Wanted
  <2>4. i \in 1..Len(local[t].pages) /\ i < local[t].at
    BY <1>3, <2>3
  <2> QED
    BY <1>3, <2>2, <2>4 DEF Ascends, Wanted
<1> QED
  BY <1>4, <1>7, <1>8, <1>10

(* Nobody ever waits in a circle on the edit path (Engine.js:31): of a set   *)
(* of requests that wait for each other, take the one furthest ahead in the  *)
(* queue of the last page any of them wants; nobody in the set is in its way.*)
LEMMA NoCircle ==
  ASSUME LInv, NEW D \in SUBSET Waiting, \A t \in D : \E u \in D : BlockedBy(t, u)
  PROVE  D = {}
<1> SUFFICES ASSUME D # {} PROVE FALSE
  OBVIOUS
<1>1. \A t \in D : t \in Tx /\ promise[t] = "pending"
  BY DEF Waiting
<1> DEFINE W == [t \in D |-> Wanted(t)]
           P == {W[t] : t \in D}
<1>2. IsFiniteSet(D)
  BY <1>1, SweepAssumption, FS_Subset
<1>3. IsFiniteSet(P)
  <2> HIDE DEF W
  <2> QED
    BY <1>2, FiniteImage
<1>4. P # {} /\ \A p \in P : p \in Int /\ p \in Resource
  BY <1>1, WaiterFacts
<1> DEFINE M == Max(P)
<1>5. M \in P /\ \A p \in P : M >= p
  <2> HIDE DEF P
  <2> QED
    BY <1>3, <1>4, GreatestMember
<1>6. M \in Resource /\ M \in Int /\ \A t \in D : Wanted(t) \in Int /\ ~(M < Wanted(t))
  <2>1. M \in Resource /\ M \in Int
    BY <1>4, <1>5
  <2>2. ASSUME NEW t \in D PROVE Wanted(t) \in Int /\ ~(M < Wanted(t))
    <3>1. Wanted(t) \in P
      OBVIOUS
    <3>2. Wanted(t) \in Int /\ M >= Wanted(t)
      <4> HIDE DEF P
      <4> QED
        BY <1>4, <1>5, <3>1
    <3> HIDE DEF P, M
    <3> QED
      BY <2>1, <3>2
  <2> QED
    BY <2>1, <2>2
<1>7. PICK a \in D : Wanted(a) = M
  BY <1>5
<1> HIDE DEF M, P, W
<1> DEFINE queue == lockTable[M].waitQueue
           Q == {i \in 1..Len(queue) : queue[i].tx \in D}
<1>8. Len(queue) \in Nat /\ Sensible(lockTable[M])
  BY <1>6 DEF LInv, IInv, TableOK, LockInfo
<1>9. Q # {}
  <2>1. Queued(lockTable[M], a)
    BY <1>1, <1>7, WaiterFacts
  <2> QED
    BY <2>1 DEF Queued
<1>10. PICK i \in Q : \A j \in Q : i <= j
  <2>1. \A j \in Q : j \in Int
    OBVIOUS
  <2>2. IsFiniteSet(Q)
    <3>1. IsFiniteSet(1..Len(queue))
      BY <1>8, FS_Interval
    <3> QED
      BY <3>1, FS_Subset
  <2> HIDE DEF Q
  <2> QED
    BY <1>9, <2>1, <2>2, LeastMember
<1> DEFINE t == queue[i].tx
<1>11. t \in D /\ t \in Tx /\ Queued(lockTable[M], t) /\ Wanted(t) = M
  <2>1. t \in D /\ i \in 1..Len(queue)
    OBVIOUS
  <2>2. Queued(lockTable[M], t)
    BY <2>1 DEF Queued
  <2>3. t \in Tx /\ promise[t] = "pending"
    BY <1>1, <2>1
  <2> HIDE DEF t
  <2> QED
    BY <1>6, <2>1, <2>2, <2>3, WaiterFacts
<1>12. PICK u \in D : BlockedBy(t, u)
  BY <1>11
<1>13. u \in Tx /\ promise[u] = "pending"
  BY <1>1
<1>14. CASE WaitsFor(t, u)
  <2>1. PICK r \in Resource, k \in Nat :
          /\ k \in 1..Len(lockTable[r].waitQueue) /\ lockTable[r].waitQueue[k].tx = t
          /\ lockTable[r].holders[u] # "none"
    BY <1>14 DEF WaitsFor
  <2>2. Queued(lockTable[r], t)
    BY <2>1 DEF Queued
  <2>3. r = M
    BY <1>1, <1>11, <2>2, WaiterFacts
  <2>4. M < Wanted(u)
    BY <1>13, <2>1, <2>3, WaiterFacts
  <2> QED
    BY <1>6, <2>4
<1>15. CASE \E r \in Resource : \E k, j \in 1..Len(lockTable[r].waitQueue) :
              j < k /\ lockTable[r].waitQueue[k].tx = t /\ lockTable[r].waitQueue[j].tx = u
  <2>1. PICK r \in Resource : \E k, j \in 1..Len(lockTable[r].waitQueue) :
              j < k /\ lockTable[r].waitQueue[k].tx = t /\ lockTable[r].waitQueue[j].tx = u
    BY <1>15
  <2>2. r = M
    <3>1. Queued(lockTable[r], t)
      BY <2>1 DEF Queued
    <3> QED
      BY <1>1, <1>11, <3>1, WaiterFacts
  <2>3. PICK k \in 1..Len(queue), j \in 1..Len(queue) : j < k /\ queue[k].tx = t /\ queue[j].tx = u
    BY <2>1, <2>2
  <2>4. j \in Q /\ i <= j /\ i \in 1..Len(queue)
    BY <1>10, <2>3
  <2>5. i < k
    BY <1>8, <2>3, <2>4
  <2>6. Ahead(lockTable[M], t, t)
    BY <2>3, <2>4, <2>5 DEF Ahead
  <2> QED
    BY <1>8, <1>11, <2>6 DEF Sensible
<1> QED
  BY <1>12, <1>14, <1>15 DEF BlockedBy

(* EditPathDeadlockFree: the edit path has no deadlock (Engine.js:31), with  *)
(* any number of readers, growing chains and stale page lists.               *)
THEOREM NoDeadlockOnEditPath == Spec => []EditPathDeadlockFree
<1>1. LInv => EditPathDeadlockFree
  BY NoCircle DEF EditPathDeadlockFree, Deadlocked
<1> QED
  BY <1>1, AlwaysLInv, PTL

-----------------------------------------------------------------------------
(* The pages without the writes of edits under way.                          *)
LEMMA WriterFacts ==
  ASSUME LInv, NEW t \in Tx, NEW p, p \in DOMAIN undoLog[t]
  PROVE  /\ phase[t] \in {"writing", "finishing"} /\ p \in Resource /\ p \in Allocated
         /\ p \in ToSet(local[t].pages)
         /\ lockTable[p].holders[t] = "X"
<1>1. PICK i \in 1..Done(t) : local[t].pages[i] = p
  BY DEF LInv, UndoOK
<1>2. phase[t] \in {"writing", "finishing"}
  BY <1>1 DEF Done
<1>3. phase[t] \in Active
  BY <1>2 DEF Active
<1>4. /\ Len(local[t].pages) \in Nat /\ local[t].at \in 1..Len(local[t].pages)
      /\ \A j \in 1..Len(local[t].pages) : local[t].pages[j] \in Resource /\ local[t].pages[j] \in Allocated
      /\ local[t].pages \in Seq(Resource)
  BY <1>3, ActiveFacts
<1>5. i \in 1..Len(local[t].pages)
  BY <1>1, <1>2, <1>4 DEF Done
<1>6. LockMode(t) = "X" /\ Top(t) = Len(local[t].pages) /\ phase[t] \notin Queues
  BY <1>2 DEF LockMode, Top, Queues
<1>7. lockTable[p].holders[t] = "X"
  BY <1>1, <1>3, <1>5, <1>6 DEF LInv, LocksOK
<1>8. p \in ToSet(local[t].pages)
  BY <1>1, <1>4, <1>5 DEF ToSet
<1> QED
  BY <1>1, <1>2, <1>4, <1>5, <1>7, <1>8

(* A lock that excludes others does.                                         *)
LEMMA Excludes ==
  ASSUME LInv, NEW t \in Tx, NEW u \in Tx, NEW p \in Resource, lockTable[p].holders[t] = "X",
         lockTable[p].holders[u] # "none"
  PROVE  t = u
  BY DEF LInv, IInv, TableOK, Good, Compatible

(* A page under way was committed as the undo log has it, ...                *)
LEMMA CommittedWritten ==
  ASSUME LInv, NEW t \in Tx, NEW p, p \in DOMAIN undoLog[t]
  PROVE  CommittedPage[p] = undoLog[t][p]
<1>1. p \in Resource
  BY WriterFacts
<1>2. \A u \in Tx : p \in DOMAIN undoLog[u] => u = t
  BY WriterFacts, Excludes
<1>3. (CHOOSE u \in Tx : p \in DOMAIN undoLog[u]) = t
  BY <1>2
<1> QED
  BY <1>1, <1>3 DEF CommittedPage

(* ... any other one as it is.                                               *)
LEMMA CommittedUnwritten ==
  ASSUME NEW p \in Resource, \A u \in Tx : p \notin DOMAIN undoLog[u]
  PROVE  CommittedPage[p] = page[p]
  BY DEF CommittedPage

(* Who holds a page sees what is committed, but for what it wrote itself.    *)
LEMMA CommittedHeld ==
  ASSUME LInv, NEW t \in Tx, NEW p \in Resource, lockTable[p].holders[t] # "none",
         p \notin DOMAIN undoLog[t]
  PROVE  CommittedPage[p] = page[p]
<1>1. \A u \in Tx : p \notin DOMAIN undoLog[u]
  BY WriterFacts, Excludes
<1> QED
  BY <1>1, CommittedUnwritten

(* The committed pages are pages.                                            *)
LEMMA CommittedType ==
  ASSUME LInv
  PROVE  CommittedPage \in Pictures
<1> SUFFICES ASSUME NEW p \in Resource PROVE CommittedPage[p] \in Image
  BY DEF CommittedPage, Pictures
<1>1. CASE \E t \in Tx : p \in DOMAIN undoLog[t]
  <2>1. PICK t \in Tx : p \in DOMAIN undoLog[t]
    BY <1>1
  <2>2. CommittedPage[p] = undoLog[t][p]
    BY <2>1, CommittedWritten
  <2> QED
    BY <2>1, <2>2 DEF LInv, ShapeOK
<1>2. CASE ~ \E t \in Tx : p \in DOMAIN undoLog[t]
  BY <1>2, CommittedUnwritten DEF LInv, ShapeOK, Pictures
<1> QED
  BY <1>1, <1>2

(* A page that is not allocated yet is blank.                                *)
LEMMA CommittedFresh ==
  ASSUME LInv, FreshIsBlank, NEW p \in Resource, p \notin Allocated
  PROVE  CommittedPage[p] = Blank
<1>1. \A u \in Tx : p \notin DOMAIN undoLog[u]
  BY WriterFacts
<1> QED
  BY <1>1, CommittedUnwritten DEF FreshIsBlank

(* How the committed pages change: not at all, or all at once.               *)
LEMMA CommittedStays ==
  ASSUME UNCHANGED <<page, undoLog>>
  PROVE  CommittedPage' = CommittedPage
  BY DEF CommittedPage

(* A request that has written nothing leaves.                                *)
LEMMA CommittedLeft ==
  ASSUME LInv, NEW t \in Tx, page' = page, undoLog' = [undoLog EXCEPT ![t] = Empty], DOMAIN undoLog[t] = {}
  PROVE  CommittedPage' = CommittedPage
<1>1. DOMAIN undoLog = Tx /\ undoLog[t] \in [DOMAIN undoLog[t] -> Image]
  BY DEF LInv, ShapeOK
<1>2. \A u \in Tx : DOMAIN undoLog'[u] = DOMAIN undoLog[u]
  BY <1>1 DEF Empty
<1>3. \A u \in Tx : u # t => undoLog'[u] = undoLog[u]
  BY <1>1
<1> SUFFICES ASSUME NEW p \in Resource
             PROVE  CommittedPage'[p] = CommittedPage[p]
  BY DEF CommittedPage
<1>4. CASE \E u \in Tx : p \in DOMAIN undoLog[u]
  <2>1. PICK u \in Tx : u = CHOOSE v \in Tx : p \in DOMAIN undoLog[v]
    BY <1>4
  <2>2. (CHOOSE v \in Tx : p \in DOMAIN undoLog'[v]) = CHOOSE v \in Tx : p \in DOMAIN undoLog[v]
    BY <1>2
  <2>3. p \in DOMAIN undoLog[u] /\ u # t /\ undoLog'[u] = undoLog[u]
    BY <1>3, <1>4, <2>1
  <2>4. CommittedPage[p] = undoLog[u][p]
    BY <1>4, <2>1 DEF CommittedPage
  <2>5. CommittedPage'[p] = undoLog'[u][p]
    BY <1>2, <1>4, <2>1, <2>2 DEF CommittedPage
  <2> QED
    BY <2>3, <2>4, <2>5
<1>5. CASE ~ \E u \in Tx : p \in DOMAIN undoLog[u]
  BY <1>2, <1>5 DEF CommittedPage
<1> QED
  BY <1>4, <1>5

(* What there is to know of the committed pages, before and after a step.    *)
CommittedOK ==
  /\ \A t \in Tx : \A p \in DOMAIN undoLog[t] :
       /\ p \in Resource /\ CommittedPage[p] = undoLog[t][p]
       /\ \A u \in Tx : p \in DOMAIN undoLog[u] => u = t
  /\ \A p \in Resource : (\A u \in Tx : p \notin DOMAIN undoLog[u]) => CommittedPage[p] = page[p]
  /\ CommittedPage \in Pictures

(* LInv says so, ...                                                         *)
LEMMA CommittedInv == LInv => CommittedOK
<1> SUFFICES ASSUME LInv PROVE CommittedOK
  OBVIOUS
<1>1. ASSUME NEW t \in Tx, NEW p \in DOMAIN undoLog[t]
      PROVE  /\ p \in Resource /\ CommittedPage[p] = undoLog[t][p]
             /\ \A u \in Tx : p \in DOMAIN undoLog[u] => u = t
  BY WriterFacts, Excludes, CommittedWritten
<1> QED
  BY <1>1, CommittedUnwritten, CommittedType DEF CommittedOK

(* ... after the step as before it.                                          *)
LEMMA CommittedInvNext == LInv' => CommittedOK'
  BY CommittedInv, PTL

(* A write takes the committed image of the page to the undo log, ...        *)
LEMMA CommittedAfterWrite ==
  ASSUME LInv, LInv', NEW t \in Tx, write(t)
  PROVE  CommittedPage' = CommittedPage
<1> DEFINE p == local[t].pages[local[t].at]
<1>1. /\ phase[t] = "writing" /\ p \in Resource
      /\ \A q \in Resource : q # p => page'[q] = page[q]
      /\ DOMAIN undoLog' = Tx /\ \A u \in Tx \ {t} : undoLog'[u] = undoLog[u]
      /\ DOMAIN undoLog'[t] = DOMAIN undoLog[t] \cup {p}
      /\ undoLog'[t][p] = page[p]
      /\ \A q \in DOMAIN undoLog[t] : q # p => undoLog'[t][q] = undoLog[t][q]
      /\ p \notin DOMAIN undoLog[t]
  <2>1. page' = [page EXCEPT ![p] = [version |-> local[t].version, chunk |-> ChunkFor(local[t])]]
    BY WriteFacts
  <2>2. \A q \in Resource : q # p => page'[q] = page[q]
    BY <2>1 DEF LInv, ShapeOK, Pictures
  <2> QED
    BY <2>2, WriteFacts
<1>2. CommittedOK /\ CommittedOK'
  BY CommittedInv, CommittedInvNext
<1>3. CommittedPage[p] = page[p]
  <2>1. phase[t] \in Active /\ Top(t) = Len(local[t].pages) /\ LockMode(t) = "X" /\ phase[t] \notin Queues
    BY <1>1 DEF Active, Top, LockMode, Queues
  <2>2. local[t].at \in 1..Top(t)
    BY <2>1, ActiveFacts
  <2>3. lockTable[p].holders[t] = "X"
    BY <2>1, <2>2 DEF LInv, LocksOK
  <2> QED
    BY <1>1, <2>3, CommittedHeld
<1> HIDE DEF p
<1> SUFFICES ASSUME NEW q \in Resource
             PROVE  CommittedPage'[q] = CommittedPage[q]
  BY DEF CommittedPage
<1>4. CASE q = p
  BY <1>1, <1>2, <1>3, <1>4 DEF CommittedOK
<1>5. CASE q # p
  <2>1. \A u \in Tx : q \in DOMAIN undoLog'[u] <=> q \in DOMAIN undoLog[u]
    BY <1>1, <1>5
  <2>2. \A u \in Tx : q \in DOMAIN undoLog[u] => undoLog'[u][q] = undoLog[u][q]
    BY <1>1, <1>5
  <2> QED
    BY <1>1, <1>2, <1>5, <2>1, <2>2 DEF CommittedOK
<1> QED
  BY <1>4, <1>5

(* ... and a failure brings it back.                                         *)
LEMMA CommittedAfterFail ==
  ASSUME LInv, LInv', NEW t \in Tx, Fails(t)
  PROVE  CommittedPage' = CommittedPage
<1>1. /\ \A p \in Resource : page'[p] = IF p \in DOMAIN undoLog[t] THEN undoLog[t][p] ELSE page[p]
      /\ \A u \in Tx \ {t} : undoLog'[u] = undoLog[u]
      /\ DOMAIN undoLog'[t] = {}
  BY DEF Fails, LInv, ShapeOK, Empty
<1>2. CommittedOK /\ CommittedOK'
  BY CommittedInv, CommittedInvNext
<1> SUFFICES ASSUME NEW p \in Resource
             PROVE  CommittedPage'[p] = CommittedPage[p]
  BY DEF CommittedPage
<1>3. CASE p \in DOMAIN undoLog[t]
  <2>1. \A u \in Tx : p \notin DOMAIN undoLog'[u]
    BY <1>1, <1>2, <1>3 DEF CommittedOK
  <2> QED
    BY <1>1, <1>2, <1>3, <2>1 DEF CommittedOK
<1>4. CASE p \notin DOMAIN undoLog[t]
  <2>1. \A u \in Tx : p \in DOMAIN undoLog'[u] <=> p \in DOMAIN undoLog[u]
    BY <1>1, <1>4
  <2>2. \A u \in Tx : p \in DOMAIN undoLog[u] => undoLog'[u][p] = undoLog[u][p]
    BY <1>1, <1>4
  <2> QED
    BY <1>1, <1>2, <1>4, <2>1, <2>2 DEF CommittedOK
<1> QED
  BY <1>3, <1>4

(* A commit changes all pages of the request, and them alone.                *)
Commits(t) ==
  \A p \in Resource :
    CommittedPage'[p] = IF p \in ToSet(local[t].pages) THEN page[p] ELSE CommittedPage[p]

(* It does.                                                                  *)
LEMMA CommittedAfterFinish ==
  ASSUME LInv, LInv', NEW t \in Tx, phase[t] = "finishing", page' = page,
         undoLog' = [undoLog EXCEPT ![t] = Empty]
  PROVE  Commits(t)
<1>1. /\ \A u \in Tx \ {t} : undoLog'[u] = undoLog[u]
      /\ DOMAIN undoLog'[t] = {}
  BY DEF LInv, ShapeOK, Empty
<1>2. CommittedOK /\ CommittedOK'
  BY CommittedInv, CommittedInvNext
<1>3. DOMAIN undoLog[t] = ToSet(local[t].pages)
  <2>1. local[t].pages \in Seq(Resource)
    BY ActiveFacts DEF Active
  <2> QED
    BY <2>1 DEF LInv, UndoOK, Done, ToSet
<1> SUFFICES ASSUME NEW p \in Resource
             PROVE  CommittedPage'[p] = IF p \in DOMAIN undoLog[t] THEN page[p] ELSE CommittedPage[p]
  BY <1>3 DEF Commits
<1>4. CASE p \in DOMAIN undoLog[t]
  <2>1. \A u \in Tx : p \notin DOMAIN undoLog'[u]
    BY <1>1, <1>2, <1>4 DEF CommittedOK
  <2> QED
    BY <1>1, <1>2, <1>4, <2>1 DEF CommittedOK
<1>5. CASE p \notin DOMAIN undoLog[t]
  <2>1. \A u \in Tx : p \in DOMAIN undoLog'[u] <=> p \in DOMAIN undoLog[u]
    BY <1>1, <1>5
  <2>2. \A u \in Tx : p \in DOMAIN undoLog[u] => undoLog'[u][p] = undoLog[u][p]
    BY <1>1, <1>5
  <2> QED
    BY <1>1, <1>2, <1>5, <2>1, <2>2 DEF CommittedOK
<1> QED
  BY <1>4, <1>5

-----------------------------------------------------------------------------
(* Steps that commit nothing.  Pages they add to a document are blank.       *)
NewBlank ==
  \A d \in Doc : \A p \in ToSet(directory'[d]) : p \notin ToSet(directory[d]) => CommittedPage[p] = Blank

(* The version of a document stays.                                          *)
LEMMA QuietVersion ==
  ASSUME LInv, LInv', CommittedPage' = CommittedPage, Extends, NewBlank, NEW d \in Doc
  PROVE  CommittedVersion(d)' = CommittedVersion(d)
<1>1. directory[d] \in Seq(Resource) /\ directory'[d] \in Seq(Resource)
  BY DEF LInv, DirectoryOK
<1>2. CASE directory[d] # << >>
  <2>1. directory[d][1] \in ToSet(directory[d])
    BY <1>1, <1>2 DEF ToSet
  <2>2. directory'[d] # << >>
    <3>1. directory[d][1] \in ToSet(directory'[d])
      BY <2>1 DEF Extends
    <3> QED
      BY <3>1 DEF ToSet
  <2> QED
    BY <1>2, <2>2 DEF CommittedVersion, hasDocument, Extends
<1>3. CASE directory[d] = << >> /\ directory'[d] # << >>
  <2>1. directory'[d][1] \in ToSet(directory'[d])
    BY <1>1, <1>3 DEF ToSet
  <2>2. ToSet(directory[d]) = {}
    BY <1>3 DEF ToSet
  <2>3. CommittedPage[directory'[d][1]] = Blank
    BY <2>1, <2>2 DEF NewBlank
  <2> QED
    BY <1>3, <2>3 DEF CommittedVersion, hasDocument, Blank
<1>4. CASE directory[d] = << >> /\ directory'[d] = << >>
  BY <1>4 DEF CommittedVersion, hasDocument
<1> QED
  BY <1>2, <1>3, <1>4

(* Its blank pages stay blank.                                               *)
LEMMA QuietBlank ==
  ASSUME CommittedPage' = CommittedPage, NewBlank, NEW d \in Doc, NEW pages, BlankBeyond(d, pages)
  PROVE  \A p \in ToSet(directory'[d]) \ ToSet(pages) : CommittedPage'[p].chunk = << >>
  BY DEF BlankBeyond, NewBlank, Blank

(* The requests that take no part keep what DInv says of them.               *)
LEMMA QuietBystander ==
  ASSUME LInv, LInv', DInv, CommittedPage' = CommittedPage, Extends, NewBlank, NEW u \in Tx, Same(u),
         \A i \in 1..Done(u) : page'[local[u].pages[i]] = page[local[u].pages[i]]
  PROVE  WorkOK(u)' /\ ReadOK(u)' /\ ReplyOK(u)' /\ StaleOK(u)'
<1>0. PICK d : d = request[u].doc
  OBVIOUS
<1>1. ASSUME phase[u] # "unborn" \/ request[u] # Nobody
      PROVE  d \in Doc /\ CommittedVersion(d)' = CommittedVersion(d)
  <2>1. request[u] \in Request
    BY <1>1 DEF LInv, RequestOK, ShapeOK
  <2>2. d \in Doc
    BY <1>0, <2>1 DEF Request
  <2> QED
    BY <2>2, QuietVersion
<1>2. WorkOK(u) /\ ReadOK(u) /\ ReplyOK(u) /\ StaleOK(u)
  BY DEF DInv
<1>3. WorkOK(u)'
  <2>1. CASE Working(u)
    <3>1. CommittedVersion(d)' = CommittedVersion(d)
      BY <1>1, <2>1 DEF Working
    <3>2. Done(u)' = Done(u)
      BY DEF Done, Same
    <3> QED
      BY <1>0, <1>2, <2>1, <3>1, <3>2 DEF WorkOK, Working, Same
  <2>2. CASE ~Working(u)
    BY <2>2 DEF WorkOK, Working, Same
  <2> QED
    BY <2>1, <2>2
<1>4. ReadOK(u)'
  <2>1. CASE phase[u] = "reading"
    BY <1>0, <1>1, <1>2, <2>1 DEF ReadOK, Same
  <2>2. CASE phase[u] # "reading"
    BY <2>2 DEF ReadOK, Same
  <2> QED
    BY <2>1, <2>2
<1>5. ReplyOK(u)'
  <2>1. CASE phase[u] = "replied"
    <3>1. d \in Doc /\ CommittedVersion(d)' = CommittedVersion(d)
      BY <1>1, <2>1
    <3>2. ToSet(directory[d]) \subseteq ToSet(directory'[d])
      BY <3>1 DEF Extends
    <3> QED
      BY <1>0, <1>2, <2>1, <3>1, <3>2 DEF ReplyOK, Same
  <2>2. CASE phase[u] # "replied"
    BY <2>2 DEF ReplyOK, Same
  <2> QED
    BY <2>1, <2>2
<1>6. StaleOK(u)'
  <2>1. request[u] # Nobody /\ request[u].op = "edit"
            => \A v \in request[u].base : v <= CommittedVersion(d)'
    BY <1>0, <1>1, <1>2 DEF StaleOK
  <2>2. ASSUME phase[u] \in Active \ {"reading"},
               request[u].op = "create" \/ request[u].base = {CommittedVersion(d)'}
        PROVE  \A p \in ToSet(directory'[d]) \ ToSet(local[u].pages) : CommittedPage'[p].chunk = << >>
    <3>1. d \in Doc /\ CommittedVersion(d)' = CommittedVersion(d)
      BY <1>1, <2>2 DEF Active
    <3>2. BlankBeyond(d, local[u].pages)
      BY <1>0, <1>2, <2>2, <3>1 DEF StaleOK
    <3> QED
      BY <3>1, <3>2, QuietBlank
  <2>3. ASSUME Versioned, phase[u] = "replied", request[u].op # "read",
               reply[u].version = CommittedVersion(d)'
        PROVE  \A p \in ToSet(directory'[d]) \ ToSet(reply[u].pages) : CommittedPage'[p].chunk = << >>
    <3>1. d \in Doc /\ CommittedVersion(d)' = CommittedVersion(d)
      BY <1>1, <2>3
    <3>2. BlankBeyond(d, reply[u].pages)
      BY <1>0, <1>2, <2>3, <3>1 DEF StaleOK
    <3> QED
      BY <3>1, <3>2, QuietBlank
  <2> QED
    BY <1>0, <2>1, <2>2, <2>3 DEF StaleOK, BlankBeyond, Same
<1> QED
  BY <1>3, <1>4, <1>5, <1>6

(* An answer that comes is about the version there is.                       *)
LEMMA AnswersStep ==
  ASSUME AnswersAgree, NEW A \in SUBSET Tx, \A u \in Tx \ A : Same(u), \A u \in Tx : ReplyOK(u)',
         \A t \in A : phase'[t] = "replied" => reply'[t].version = CommittedVersion(request[t].doc)'
  PROVE  AnswersAgree'
<1> SUFFICES ASSUME NEW t \in Tx, NEW u \in Tx, SameVersion(t, u)', reply'[t].pages = reply'[u].pages
             PROVE  reply'[t].text = reply'[u].text
  BY DEF AnswersAgree
<1>1. /\ phase'[t] = "replied" /\ phase'[u] = "replied"
      /\ request'[t].doc = request'[u].doc /\ reply'[t].version = reply'[u].version
  BY DEF SameVersion, Answered
<1>2. CASE t \in A \/ u \in A
  <2>1. /\ reply'[t].version = CommittedVersion(request[t].doc)'
        /\ reply'[u].version = CommittedVersion(request[u].doc)'
    BY <1>1, <1>2
  <2>2. /\ reply'[t].text = TextOn(CommittedPage', reply'[t].pages)
        /\ reply'[u].text = TextOn(CommittedPage', reply'[u].pages)
    BY <1>1, <2>1 DEF ReplyOK
  <2> QED
    BY <2>2
<1>3. CASE t \notin A /\ u \notin A
  <2>1. Same(t) /\ Same(u)
    BY <1>3
  <2> QED
    BY <1>1, <2>1 DEF Same, AnswersAgree, SameVersion, Answered
<1> QED
  BY <1>2, <1>3

(* DInv after a step that commits nothing: only the requests in A, which     *)
(* take it, need a look.                                                     *)
LEMMA QuietStep ==
  ASSUME LInv, LInv', DInv, CommittedPage' = CommittedPage, Extends, NewBlank, FreshIsBlank',
         Events' = Events, sequences' = sequences,
         NEW A \in SUBSET Tx,
         \A u \in Tx \ A : Same(u) /\ \A i \in 1..Done(u) : page'[local[u].pages[i]] = page[local[u].pages[i]],
         \A t \in A : /\ phase[t] # "replied"
                      /\ phase'[t] = "replied" => /\ request'[t].op = "read" /\ request'[t].doc \in Doc
                                                  /\ reply'[t].version = CommittedVersion(request'[t].doc)
                      /\ WorkOK(t)' /\ ReadOK(t)' /\ ReplyOK(t)' /\ StaleOK(t)'
  PROVE  DInv'
<1>1. \A d \in Doc : CommittedVersion(d)' = CommittedVersion(d)
  BY QuietVersion
<1>2. \A u \in Tx : WorkOK(u)' /\ ReadOK(u)' /\ ReplyOK(u)' /\ StaleOK(u)'
  BY QuietBystander
<1>3. VersionZero'
  <2> SUFFICES ASSUME NEW d \in Doc, CommittedVersion(d)' = 0
               PROVE  \A p \in ToSet(directory'[d]) \ ToSet(<< >>) : CommittedPage'[p].chunk = << >>
    BY DEF VersionZero, BlankBeyond
  <2>1. BlankBeyond(d, << >>)
    BY <1>1 DEF DInv, VersionZero
  <2> QED
    BY <2>1, QuietBlank
<1>4. EventsOK'
  <2>1. \A d \in Doc : Created(d)' <=> Created(d)
    <3> TAKE d \in Doc
    <3>1. ASSUME NEW t \in Tx
          PROVE  phase'[t] = "replied" /\ request'[t] = [op |-> "create", doc |-> d]
                   <=> phase[t] = "replied" /\ request[t] = [op |-> "create", doc |-> d]
      <4>1. CASE t \in A
        BY <4>1
      <4>2. CASE t \notin A
        BY <4>2 DEF Same
      <4> QED
        BY <4>1, <4>2
    <3> QED
      BY <3>1 DEF Created
  <2>2. \A d \in Doc : FirstVersion(d)' = FirstVersion(d) /\ EventsOf(d)' = EventsOf(d)
    BY <2>1 DEF FirstVersion, EventsOf
  <2> QED
    BY <1>1, <2>2 DEF EventsOK, DInv
<1>5. AnswersAgree'
  <2>1. \A t \in A : phase'[t] = "replied" => reply'[t].version = CommittedVersion(request[t].doc)'
    BY <1>1
  <2> QED
    BY <1>2, <2>1, AnswersStep DEF DInv
<1>6. EditsBuildOnBase'
  <2> SUFFICES ASSUME NEW t \in Tx, NEW u \in Tx,
                      phase'[t] = "replied", request'[t].op = "edit",
                      phase'[u] = "replied", request'[u].op # "read", request'[u].doc = request'[t].doc,
                      reply'[u].version \in request'[t].base
               PROVE  /\ reply'[t].version = reply'[u].version + 1
                      /\ reply'[t].text = applyOperation(reply'[u].text, OperationOf(t, request'[t].change))
    BY DEF EditsBuildOnBase, Answered
  <2>1. t \notin A /\ u \notin A
    OBVIOUS
  <2>2. Same(t) /\ Same(u)
    BY <2>1
  <2> QED
    BY <2>2 DEF Same, DInv, EditsBuildOnBase, Answered
<1> QED
  BY <1>2, <1>3, <1>4, <1>5, <1>6 DEF DInv

(* The document of a request that is under way.                              *)
LEMMA ActiveDoc ==
  ASSUME LInv, NEW t \in Tx, phase[t] \in Active
  PROVE  /\ request[t].doc \in Doc /\ hasDocument(request[t].doc)
         /\ CommittedVersion(request[t].doc) = CommittedPage[local[t].pages[1]].version
         /\ 1 \in 1..Len(local[t].pages)
<1>1. /\ request[t].doc \in Doc /\ local[t].at \in 1..Len(local[t].pages) /\ Len(local[t].pages) \in Nat
      /\ local[t].pages[1] = directory[request[t].doc][1]
      /\ \A i \in 1..Len(local[t].pages) : local[t].pages[i] \in ToSet(directory[request[t].doc])
  BY ActiveFacts
<1>2. 1 \in 1..Len(local[t].pages)
  BY <1>1
<1>3. hasDocument(request[t].doc)
  BY <1>1, <1>2 DEF hasDocument, ToSet
<1> QED
  BY <1>1, <1>2, <1>3 DEF CommittedVersion

(* A request that has all its locks, and has written nothing, sees on its    *)
(* pages what is committed.                                                  *)
LEMMA SeesCommitted ==
  ASSUME LInv, NEW t \in Tx, phase[t] \in Active, promise[t] = "granted",
         NEW i \in 1..Len(local[t].pages), i \in 1..Top(t), i > Done(t)
  PROVE  /\ lockTable[local[t].pages[i]].holders[t] = LockMode(t)
         /\ CommittedPage[local[t].pages[i]] = page[local[t].pages[i]]
<1> DEFINE s == local[t].pages
<1>1. /\ s[i] \in Resource /\ LockMode(t) \in {"S", "X"} /\ Ascends(s) /\ Len(s) \in Nat
      /\ \A j \in 1..Len(s) : s[j] \in Nat
      /\ local[t].at \in 1..Len(s) /\ local[t].at \in Nat
  BY ActiveFacts
<1>2. lockTable[s[i]].holders[t] = LockMode(t)
  BY DEF LInv, LocksOK
<1>3. s[i] \notin DOMAIN undoLog[t]
  <2> SUFFICES ASSUME s[i] \in DOMAIN undoLog[t] PROVE FALSE
    OBVIOUS
  <2>1. PICK j \in 1..Done(t) : s[j] = s[i]
    BY DEF LInv, UndoOK
  <2>2. j \in 1..Len(s) /\ j < i
    BY <1>1 DEF Done
  <2>3. s[j] < s[i]
    BY <1>1, <2>2 DEF Ascends
  <2> QED
    BY <1>1, <2>1, <2>2, <2>3
<1> QED
  BY <1>1, <1>2, <1>3, CommittedHeld

(* A page that is allocated is blank.                                        *)
LEMMA AllocateBlank ==
  ASSUME LInv, DInv, NEW d \in Doc, allocatePage(d), page' = page
  PROVE  NewBlank /\ FreshIsBlank'
<1>1. /\ NewPage \in Resource /\ NewPage \notin Allocated /\ Allocated' = Allocated \cup {NewPage}
      /\ ToSet(directory'[d]) = ToSet(directory[d]) \cup {NewPage}
      /\ \A e \in Doc \ {d} : directory'[e] = directory[e]
  BY AllocateStep DEF LInv
<1>2. CommittedPage[NewPage] = Blank
  BY <1>1, CommittedFresh DEF DInv
<1>3. FreshIsBlank'
  BY <1>1 DEF DInv, FreshIsBlank
<1>4. NewBlank
  BY <1>1, <1>2 DEF NewBlank
<1> QED
  BY <1>3, <1>4

(* No page, none that is not.                                                *)
LEMMA SameBlank ==
  ASSUME DInv, directory' = directory, page' = page
  PROVE  NewBlank /\ FreshIsBlank'
  BY DEF DInv, NewBlank, FreshIsBlank, Allocated

(* What a request knew of its document stays so.                             *)
LEMMA StaleKept ==
  ASSUME LInv, LInv', DInv, CommittedPage' = CommittedPage, Extends, NewBlank,
         NEW t \in Tx, request'[t] = request[t], request[t] \in Request,
         phase'[t] = "replied" => request[t].op = "read",
         phase'[t] \in Active \ {"reading"} =>
           phase[t] \in Active \ {"reading"} /\ ToSet(local[t].pages) \subseteq ToSet(local'[t].pages)
  PROVE  StaleOK(t)'
<1>1. PICK d \in Doc : d = request[t].doc
  BY DEF Request
<1>2. CommittedVersion(d)' = CommittedVersion(d)
  BY QuietVersion
<1>3. ASSUME phase'[t] \in Active \ {"reading"},
             request[t].op = "create" \/ request[t].base = {CommittedVersion(d)'}
      PROVE  \A p \in ToSet(directory'[d]) \ ToSet(local'[t].pages) : CommittedPage'[p].chunk = << >>
  <2>1. BlankBeyond(d, local[t].pages)
    BY <1>1, <1>2, <1>3 DEF DInv, StaleOK
  <2>2. \A p \in ToSet(directory'[d]) \ ToSet(local[t].pages) : CommittedPage'[p].chunk = << >>
    BY <2>1, QuietBlank
  <2> QED
    BY <1>3, <2>2
<1>4. request[t] # Nobody /\ request[t].op = "edit" => \A v \in request[t].base : v <= CommittedVersion(d)'
  BY <1>1, <1>2 DEF DInv, StaleOK
<1> QED
  BY <1>1, <1>3, <1>4 DEF StaleOK, BlankBeyond

(* createDocument.                                                           *)
LEMMA CreateD ==
  ASSUME LInv, LInv', DInv, NEW t \in Tx, NEW d \in Doc, createDocument(t, d)
  PROVE  DInv'
<1> DEFINE r == NewPage
           l == [pages |-> <<r>>, at |-> 1, version |-> 1, text |-> << >>]
           q == [op |-> "create", doc |-> d]
<1>1. /\ phase[t] = "unborn" /\ ~hasDocument(d) /\ allocatePage(d)
      /\ request' = [request EXCEPT ![t] = q]
      /\ phase' = [phase EXCEPT ![t] = "writing"] /\ local' = [local EXCEPT ![t] = l]
      /\ page' = page /\ undoLog' = undoLog /\ reply' = reply
      /\ Events' = Events /\ sequences' = sequences
  BY DEF createDocument, begin, Enters, eventVars, queueVars, Events
<1>2. ShapeOK /\ DirectoryOK
  BY DEF LInv
<1>3. Extends /\ directory'[d] = Append(directory[d], r) /\ r \in Resource
  BY <1>1, <1>2, AllocateStep
<1>4. NewBlank /\ FreshIsBlank' /\ CommittedPage' = CommittedPage
  BY <1>1, AllocateBlank, CommittedStays
<1> HIDE DEF r
<1>5. phase'[t] = "writing" /\ local'[t] = l /\ request'[t] = q
  BY <1>1, <1>2 DEF ShapeOK
<1>6. \A u \in Tx \ {t} : Same(u)
  BY <1>1, <1>2 DEF ShapeOK, Same
<1>7. CommittedVersion(d)' = 0
  <2>1. CommittedVersion(d)' = CommittedVersion(d)
    BY <1>3, <1>4, QuietVersion
  <2> QED
    BY <1>1, <2>1 DEF CommittedVersion
<1>8. Len(Chunks(<< >>)) <= Len(<<r>>)
  <2>1. << >> \in Text
    BY DEF Text
  <2>2. Len(Chunks(<< >>)) = 1
    BY <2>1, ChunksMakeUp
  <2>3. Len(<<r>>) = 1
    OBVIOUS
  <2>4. 1 <= 1
    OBVIOUS
  <2>5. PICK m, n : m = Len(Chunks(<< >>)) /\ n = Len(<<r>>)
    OBVIOUS
  <2>6. m <= n
    BY <2>2, <2>3, <2>4, <2>5
  <2> QED
    BY <2>5, <2>6
<1>9. WorkOK(t)'
  <2>1. Done(t)' = 0
    BY <1>5 DEF Done
  <2>2. request'[t].op = "create" /\ request'[t].doc = d /\ l.version = 1 /\ l.text = << >> /\ l.pages = <<r>>
    BY <1>5
  <2> QED
    BY <1>5, <1>7, <1>8, <2>1, <2>2 DEF WorkOK
<1>10. ReadOK(t)' /\ ReplyOK(t)'
  BY <1>5 DEF ReadOK, ReplyOK
<1>11. StaleOK(t)'
  <2>1. directory'[d] = <<r>>
    <3>1. directory[d] = << >>
      BY <1>1 DEF hasDocument
    <3>2. Append(<< >>, r) = <<r>>
      OBVIOUS
    <3> QED
      BY <1>3, <3>1, <3>2
  <2>2. \A p \in ToSet(directory'[d]) \ ToSet(<<r>>) : CommittedPage'[p].chunk = << >>
    BY <2>1
  <2>3. request'[t].op = "create" /\ request'[t].doc = d /\ local'[t].pages = <<r>>
    BY <1>5
  <2> QED
    BY <1>5, <2>2, <2>3 DEF StaleOK, BlankBeyond
<1>12. PICK A \in SUBSET Tx : A = {t}
  OBVIOUS
<1> QED
  BY <1>1, <1>3, <1>4, <1>5, <1>6, <1>9, <1>10, <1>11, <1>12, QuietStep

(* No pages have no text.                                                    *)
LEMMA NoText ==
  ASSUME LInv, NEW s \in Seq(Resource)
  PROVE  TextOn(CommittedPage, SubSeq(s, 1, 0)) = << >>
<1>1. PICK z : z = SubSeq(s, 1, 0)
  OBVIOUS
<1>2. z \in Seq(Resource) /\ Len(z) = 0
  BY <1>1, SubSeqProperties
<1>3. PICK y : y = Pieces(CommittedPage, z)
  OBVIOUS
<1>4. y \in Seq(Text) /\ Len(y) = 0 /\ TextOn(CommittedPage, z) = FlattenSeq(y)
  BY <1>2, <1>3, CommittedType, PiecesType
<1>5. PICK f : Joins(f, y, Tx) /\ FlattenSeq(y) = f[Len(y)]
  BY <1>4, FlattenJoins DEF Text
<1> QED
  BY <1>1, <1>4, <1>5 DEF Joins

(* executeEdit and readDocument, the first lock.                             *)
LEMMA OpensD ==
  ASSUME LInv, LInv', DInv, NEW t \in Tx, NEW req \in Request, NEW mode, NEW to \in Queues,
         Opens(t, req, mode, to),
         req.op = "edit" => \A v \in req.base : v <= CommittedVersion(req.doc)
  PROVE  DInv'
<1>1. PICK d \in Doc : d = req.doc
  BY DEF Request
<1> DEFINE l == [pages |-> directory[d], at |-> 1, version |-> 0, text |-> << >>]
<1>2. /\ phase[t] = "unborn"
      /\ request' = [request EXCEPT ![t] = req]
      /\ phase' = [phase EXCEPT ![t] = to] /\ local' = [local EXCEPT ![t] = l]
      /\ directory' = directory /\ page' = page /\ undoLog' = undoLog /\ reply' = reply
      /\ Events' = Events /\ sequences' = sequences
  BY <1>1 DEF Opens, begin, Enters, eventVars, queueVars, Events
<1>3. ShapeOK /\ DirectoryOK /\ directory[d] \in Seq(Resource)
  BY DEF LInv, DirectoryOK
<1>4. NewBlank /\ FreshIsBlank' /\ CommittedPage' = CommittedPage /\ Extends
  BY <1>2, <1>3, SameBlank, SameDirectory, CommittedStays
<1>5. phase'[t] = to /\ local'[t] = l /\ request'[t] = req /\ to \in {"locking", "reading"}
  BY <1>2, <1>3 DEF ShapeOK, Queues
<1>6. \A u \in Tx \ {t} : Same(u)
  BY <1>2, <1>3 DEF ShapeOK, Same
<1>7. WorkOK(t)' /\ ReplyOK(t)'
  BY <1>5 DEF WorkOK, Working, ReplyOK
<1>8. ReadOK(t)'
  <2>1. l.pages = directory[d] /\ l.at = 1 /\ l.text = << >> /\ l.at - 1 = 0
    OBVIOUS
  <2>2. TextOn(CommittedPage, SubSeq(directory[d], 1, 0)) = << >>
    BY <1>3, NoText
  <2> HIDE DEF l
  <2> QED
    BY <1>4, <1>5, <2>1, <2>2 DEF ReadOK
<1>9. StaleOK(t)'
  <2>1. CommittedVersion(d)' = CommittedVersion(d)
    BY <1>4, QuietVersion
  <2>2. local'[t].pages = directory'[d]
    BY <1>2, <1>5
  <2> QED
    BY <1>1, <1>5, <2>1, <2>2 DEF StaleOK, BlankBeyond
<1>10. PICK A \in SUBSET Tx : A = {t}
  OBVIOUS
<1> QED
  BY <1>2, <1>4, <1>5, <1>6, <1>7, <1>8, <1>9, <1>10, QuietStep

(* executeEdit.                                                              *)
LEMMA ExecuteEditD ==
  ASSUME LInv, LInv', DInv, NEW t \in Tx, NEW d \in Doc, executeEdit(t, d)
  PROVE  DInv'
<1>1. PICK change \in Changes, base \in IF Versioned THEN {{v} : v \in KnownVersions(d)} ELSE {{}} :
        Opens(t, [op |-> "edit", doc |-> d, change |-> change, base |-> base], "X", "locking")
  BY DEF executeEdit
<1>2. PICK req : req = [op |-> "edit", doc |-> d, change |-> change, base |-> base]
  OBVIOUS
<1>3. \A v \in KnownVersions(d) : v \in Nat /\ v <= CommittedVersion(d)
  BY KnownVersionsType DEF KnownVersions, DInv, ReplyOK
<1>4. base \in SUBSET Nat /\ \A v \in base : v <= CommittedVersion(d)
  BY <1>3
<1>5. req \in Request /\ req.base = base /\ req.doc = d
  BY <1>2, <1>4 DEF Request
<1> QED
  BY <1>1, <1>2, <1>4, <1>5, OpensD DEF Queues

(* readDocument.                                                             *)
LEMMA ReadDocumentD ==
  ASSUME LInv, LInv', DInv, NEW t \in Tx, NEW d \in Doc, readDocument(t, d)
  PROVE  DInv'
<1>1. PICK req : req = [op |-> "read", doc |-> d]
  OBVIOUS
<1>2. req \in Request /\ req.op = "read"
  BY <1>1 DEF Request
<1> QED
  BY <1>1, <1>2, OpensD DEF Queues, readDocument

(* executeEdit, the next lock.                                               *)
LEMMA LockNextD ==
  ASSUME LInv, LInv', DInv, NEW t \in Tx, lockNextPage(t)
  PROVE  DInv'
<1>1. /\ phase[t] = "locking"
      /\ phase' = [phase EXCEPT ![t] = "locking"]
      /\ local' = [local EXCEPT ![t] = [local[t] EXCEPT !.at = local[t].at + 1]]
      /\ directory' = directory /\ page' = page /\ undoLog' = undoLog /\ reply' = reply
      /\ request' = request /\ Events' = Events /\ sequences' = sequences
  BY DEF lockNextPage, Granted, Enters, eventVars, queueVars, Events
<1>2. ShapeOK /\ DirectoryOK /\ request[t] \in Request /\ local[t] \in Local
  BY <1>1, ActiveFacts DEF LInv, Active
<1>3. NewBlank /\ FreshIsBlank' /\ CommittedPage' = CommittedPage /\ Extends
  BY <1>1, <1>2, SameBlank, SameDirectory, CommittedStays
<1>4. phase'[t] = "locking" /\ local'[t].pages = local[t].pages /\ request'[t] = request[t]
  BY <1>1, <1>2 DEF ShapeOK, Local
<1>5. \A u \in Tx \ {t} : Same(u)
  BY <1>1, <1>2 DEF ShapeOK, Same
<1>6. WorkOK(t)' /\ ReplyOK(t)' /\ ReadOK(t)'
  BY <1>4 DEF WorkOK, Working, ReplyOK, ReadOK
<1>7. StaleOK(t)'
  BY <1>1, <1>2, <1>3, <1>4, StaleKept DEF Active
<1>8. PICK A \in SUBSET Tx : A = {t}
  OBVIOUS
<1> QED
  BY <1>1, <1>3, <1>4, <1>5, <1>6, <1>7, <1>8, QuietStep

(* What a request plans is made from what is committed.                      *)
LEMMA PlannedWork ==
  ASSUME LInv, DInv, NEW t \in Tx, Decided(t)
  PROVE  LET l == Planned(t)  d == request[t].doc IN
         /\ l.version = CommittedVersion(d) + 1
         /\ request[t].base \subseteq {CommittedVersion(d)}
         /\ l.text = applyOperation(TextOn(CommittedPage, local[t].pages),
                                    OperationOf(t, request[t].change))
<1>1. /\ phase[t] \in {"locking", "growing"} /\ promise[t] = "granted"
      /\ phase[t] = "locking" => local[t].at = Len(local[t].pages) /\ assertNoConflict(t)
      /\ request[t].op = "edit"
      /\ phase[t] = "growing" => Planned(t) = local[t]
      /\ phase[t] = "locking" =>
           /\ Planned(t).version = CurrentVersion(t) + 1
           /\ Planned(t).text = applyOperation(TextOn(page, local[t].pages),
                                               OperationOf(t, request[t].change))
  BY PlannedFacts
<1>2. CASE phase[t] = "growing"
  <2>1. WorkOK(t) /\ Working(t)
    BY <1>2 DEF DInv, Working
  <2> QED
    BY <1>1, <1>2, <2>1 DEF WorkOK
<1>3. CASE phase[t] = "locking"
  <2>1. phase[t] \in Active /\ Done(t) = 0 /\ Top(t) = Len(local[t].pages)
    BY <1>1, <1>3 DEF Active, Done, Top, Queues
  <2>2. /\ local[t].pages \in Seq(Resource) /\ Len(local[t].pages) \in Nat
        /\ \A i \in 1..Len(local[t].pages) : local[t].pages[i] \in Resource
    BY <2>1, ActiveFacts
  <2>3. \A i \in 1..Len(local[t].pages) : CommittedPage[local[t].pages[i]] = page[local[t].pages[i]]
    <3> SUFFICES ASSUME NEW i \in 1..Len(local[t].pages)
                 PROVE  CommittedPage[local[t].pages[i]] = page[local[t].pages[i]]
      OBVIOUS
    <3>1. i \in 1..Top(t) /\ i > Done(t)
      BY <2>1, <2>2
    <3> QED
      BY <1>1, <2>1, <3>1, SeesCommitted
  <2>4. CommittedPage \in Pictures /\ page \in Pictures
    BY CommittedType DEF LInv, ShapeOK
  <2>5. TextOn(page, local[t].pages) = TextOn(CommittedPage, local[t].pages)
    BY <2>2, <2>3, <2>4, TextOnSame
  <2>6. CurrentVersion(t) = CommittedVersion(request[t].doc)
    BY <2>1, <2>3, ActiveDoc DEF CurrentVersion
  <2> QED
    BY <1>1, <1>3, <2>5, <2>6 DEF assertNoConflict
<1> QED
  BY <1>1, <1>2, <1>3

(* executeEdit, one page more.                                               *)
LEMMA GrowD ==
  ASSUME LInv, LInv', DInv, NEW t \in Tx, grow(t)
  PROVE  DInv'
<1> DEFINE r == NewPage
           l == [Planned(t) EXCEPT !.pages = Append(@, r)]
<1>1. PICK d : d = request[t].doc
  OBVIOUS
<1>2. /\ Decided(t) /\ allocatePage(d)
      /\ phase' = [phase EXCEPT ![t] = "growing"] /\ local' = [local EXCEPT ![t] = l]
      /\ page' = page /\ undoLog' = undoLog /\ reply' = reply /\ request' = request
      /\ Events' = Events /\ sequences' = sequences
  BY <1>1 DEF grow, Enters, eventVars, queueVars, Events
<1>3. /\ phase[t] \in {"locking", "growing"} /\ request[t].op = "edit" /\ d \in Doc
      /\ Planned(t) \in Local /\ Planned(t).pages = local[t].pages
  BY <1>1, <1>2, PlannedFacts
<1>4. phase[t] \in Active
  BY <1>3 DEF Active
<1>5. ShapeOK /\ DirectoryOK
  BY DEF LInv
<1>6. Extends /\ r \in Resource /\ r \notin Allocated
  BY <1>2, <1>3, <1>5, AllocateStep
<1>7. NewBlank /\ FreshIsBlank' /\ CommittedPage' = CommittedPage
  BY <1>2, <1>3, AllocateBlank, CommittedStays
<1>8. CommittedPage[r] = Blank
  BY <1>6, CommittedFresh DEF DInv
<1> HIDE DEF r
<1>9. PICK s : s = local[t].pages
  OBVIOUS
<1>10. /\ l.version = Planned(t).version /\ l.text = Planned(t).text /\ l.pages = Append(s, r)
  BY <1>3, <1>9 DEF Local
<1>11. phase'[t] = "growing" /\ local'[t] = l /\ request'[t] = request[t]
  BY <1>2, <1>5 DEF ShapeOK
<1> HIDE DEF l
<1>12. \A u \in Tx \ {t} : Same(u)
  BY <1>2, <1>5 DEF ShapeOK, Same
<1>13. s \in Seq(Resource) /\ request[t] \in Request
  BY <1>4, <1>9, ActiveFacts
<1>14. TextOn(CommittedPage, Append(s, r)) = TextOn(CommittedPage, s)
  <2>1. CommittedPage \in Pictures
    BY CommittedType
  <2>2. TextOn(CommittedPage, s) \in Text
    BY <1>13, <2>1, TextOnType
  <2>3. TextOn(CommittedPage, Append(s, r)) = TextOn(CommittedPage, s) \o << >>
    <3>1. TextOn(CommittedPage, Append(s, r)) = TextOn(CommittedPage, s) \o CommittedPage[r].chunk
      BY <1>6, <1>13, <2>1, TextOnMore
    <3>2. CommittedPage[r].chunk = << >>
      BY <1>8 DEF Blank
    <3> QED
      BY <3>1, <3>2
  <2>4. \A x \in Text : x \o << >> = x
    BY ConcatEmptySeq DEF Text
  <2> QED
    BY <2>2, <2>3, <2>4
<1>15. CommittedVersion(d)' = CommittedVersion(d)
  BY <1>3, <1>6, <1>7, QuietVersion
<1>16. WorkOK(t)'
  <2>1. /\ l.version = CommittedVersion(d)' + 1 /\ request'[t].base \subseteq {CommittedVersion(d)'}
        /\ l.text = applyOperation(TextOn(CommittedPage', l.pages), OperationOf(t, request'[t].change))
    BY <1>1, <1>2, <1>7, <1>9, <1>10, <1>11, <1>14, <1>15, PlannedWork
  <2>2. Done(t)' = 0
    BY <1>11 DEF Done
  <2> QED
    BY <1>1, <1>3, <1>11, <2>1, <2>2 DEF WorkOK
<1>17. ReadOK(t)' /\ ReplyOK(t)'
  BY <1>11 DEF ReadOK, ReplyOK
<1>18. StaleOK(t)'
  <2>1. ToSet(s) \subseteq ToSet(Append(s, r))
    <3>1. /\ Len(Append(s, r)) = Len(s) + 1 /\ Len(s) \in Nat
          /\ \A i \in 1..Len(s) : Append(s, r)[i] = s[i]
      BY <1>6, <1>13, AppendProperties
    <3> QED
      BY <3>1 DEF ToSet
  <2>2. phase[t] \in Active \ {"reading"} /\ ToSet(local[t].pages) \subseteq ToSet(local'[t].pages)
    BY <1>3, <1>4, <1>9, <1>10, <1>11, <2>1
  <2> QED
    BY <1>6, <1>7, <1>11, <1>13, <2>2, StaleKept
<1>19. PICK A \in SUBSET Tx : A = {t}
  OBVIOUS
<1> QED
  BY <1>2, <1>3, <1>6, <1>7, <1>11, <1>12, <1>16, <1>17, <1>18, <1>19, QuietStep

(* executeEdit, all pages at hand.                                           *)
LEMMA StartWritingD ==
  ASSUME LInv, LInv', DInv, NEW t \in Tx, startWriting(t)
  PROVE  DInv'
<1> DEFINE l == [Planned(t) EXCEPT !.at = 1]
<1>1. PICK d : d = request[t].doc
  OBVIOUS
<1>2. /\ Decided(t) /\ ~TooLong(Planned(t))
      /\ phase' = [phase EXCEPT ![t] = "writing"] /\ local' = [local EXCEPT ![t] = l]
      /\ directory' = directory
      /\ page' = page /\ undoLog' = undoLog /\ reply' = reply /\ request' = request
      /\ Events' = Events /\ sequences' = sequences
  BY DEF startWriting, Enters, eventVars, queueVars, Events
<1>3. /\ phase[t] \in {"locking", "growing"} /\ request[t].op = "edit" /\ d \in Doc
      /\ Planned(t) \in Local /\ Planned(t).pages = local[t].pages
  BY <1>1, <1>2, PlannedFacts
<1>4. phase[t] \in Active
  BY <1>3 DEF Active
<1>5. ShapeOK /\ DirectoryOK
  BY DEF LInv
<1>6. NewBlank /\ FreshIsBlank' /\ CommittedPage' = CommittedPage /\ Extends
  BY <1>2, <1>5, SameBlank, SameDirectory, CommittedStays
<1>7. /\ l.version = Planned(t).version /\ l.text = Planned(t).text /\ l.pages = local[t].pages /\ l.at = 1
  BY <1>3 DEF Local
<1>8. phase'[t] = "writing" /\ local'[t] = l /\ request'[t] = request[t]
  BY <1>2, <1>5 DEF ShapeOK
<1> HIDE DEF l
<1>9. \A u \in Tx \ {t} : Same(u)
  BY <1>2, <1>5 DEF ShapeOK, Same
<1>10. request[t] \in Request /\ Len(local[t].pages) \in Nat /\ Planned(t).text \in Text
  BY <1>3, <1>4, ActiveFacts DEF Local
<1>11. CommittedVersion(d)' = CommittedVersion(d)
  BY <1>3, <1>6, QuietVersion
<1>12. WorkOK(t)'
  <2>1. /\ l.version = CommittedVersion(d)' + 1 /\ request'[t].base \subseteq {CommittedVersion(d)'}
        /\ l.text = applyOperation(TextOn(CommittedPage', l.pages), OperationOf(t, request'[t].change))
    BY <1>1, <1>2, <1>6, <1>7, <1>8, <1>11, PlannedWork
  <2>2. Done(t)' = 0
    BY <1>7, <1>8 DEF Done
  <2>3. Len(Chunks(l.text)) <= Len(l.pages)
    <3>1. Len(Chunks(Planned(t).text)) \in Nat
      BY <1>10, ChunksMakeUp, LenProperties
    <3>2. ~(Len(Chunks(Planned(t).text)) > Len(local[t].pages))
      BY <1>2, <1>3 DEF TooLong
    <3>3. PICK m, n : m = Len(Chunks(Planned(t).text)) /\ n = Len(local[t].pages)
      OBVIOUS
    <3>4. m <= n
      BY <1>10, <3>1, <3>2, <3>3
    <3> QED
      BY <1>7, <3>3, <3>4
  <2> QED
    BY <1>1, <1>3, <1>8, <2>1, <2>2, <2>3 DEF WorkOK
<1>13. ReadOK(t)' /\ ReplyOK(t)'
  BY <1>8 DEF ReadOK, ReplyOK
<1>14. StaleOK(t)'
  <2>1. phase[t] \in Active \ {"reading"} /\ ToSet(local[t].pages) \subseteq ToSet(local'[t].pages)
    BY <1>3, <1>4, <1>7, <1>8
  <2> QED
    BY <1>6, <1>8, <1>10, <2>1, StaleKept
<1>15. PICK A \in SUBSET Tx : A = {t}
  OBVIOUS
<1> QED
  BY <1>2, <1>3, <1>6, <1>8, <1>9, <1>12, <1>13, <1>14, <1>15, QuietStep

(* executeEdit, a page written.                                              *)
LEMMA WriteD ==
  ASSUME LInv, LInv', DInv, NEW t \in Tx, write(t)
  PROVE  DInv'
<1> DEFINE p == local[t].pages[local[t].at]
           image == [version |-> local[t].version, chunk |-> ChunkFor(local[t])]
<1>1. PICK d, l : d = request[t].doc /\ l = local[t]
  OBVIOUS
<1>2. /\ phase[t] = "writing" /\ p \in Resource
      /\ page' = [page EXCEPT ![p] = image]
      /\ \A u \in Tx \ {t} : undoLog'[u] = undoLog[u]
  BY WriteFacts
<1>3. /\ directory' = directory /\ reply' = reply /\ request' = request
      /\ Events' = Events /\ sequences' = sequences
      /\ \/ /\ phase' = [phase EXCEPT ![t] = "writing"]
            /\ local' = [local EXCEPT ![t] = [l EXCEPT !.at = @ + 1]]
         \/ /\ l.at = Len(l.pages)
            /\ phase' = [phase EXCEPT ![t] = "finishing"]
            /\ local' = [local EXCEPT ![t] = l]
  BY <1>1 DEF write, Enters, eventVars, queueVars, Events
<1>4. phase[t] \in Active /\ ShapeOK /\ DirectoryOK
  BY <1>2 DEF Active, LInv
<1>5. /\ l \in Local /\ l.at \in 1..Len(l.pages) /\ Len(l.pages) \in Nat /\ l.at \in Nat
      /\ Ascends(l.pages) /\ request[t] \in Request /\ d \in Doc
      /\ \A i \in 1..Len(l.pages) : l.pages[i] \in Nat
      /\ p \in Allocated
  BY <1>1, <1>4, ActiveFacts
<1>6. /\ phase'[t] \in {"writing", "finishing"} /\ request'[t] = request[t]
      /\ local'[t].pages = l.pages /\ local'[t].text = l.text /\ local'[t].version = l.version
      /\ Done(t)' = l.at
  <2>1. \A x \in Local : \A n \in Nat : /\ [x EXCEPT !.at = n].pages = x.pages
                                       /\ [x EXCEPT !.at = n].text = x.text
                                       /\ [x EXCEPT !.at = n].version = x.version
                                       /\ [x EXCEPT !.at = n].at = n
    BY DEF Local
  <2>2. l.at + 1 \in Nat /\ l.at + 1 - 1 = l.at
    BY <1>5
  <2>3. phase \in [Tx -> Phase] /\ DOMAIN local = Tx
    BY <1>4 DEF ShapeOK
  <2>4. CASE /\ phase' = [phase EXCEPT ![t] = "writing"]
             /\ local' = [local EXCEPT ![t] = [l EXCEPT !.at = @ + 1]]
    <3>1. phase'[t] = "writing" /\ local'[t] = [l EXCEPT !.at = l.at + 1]
      BY <2>3, <2>4
    <3>2. Done(t)' = l.at
      BY <1>5, <2>1, <2>2, <3>1 DEF Done
    <3> QED
      BY <1>3, <1>5, <2>1, <2>2, <3>1, <3>2
  <2>5. CASE /\ l.at = Len(l.pages)
             /\ phase' = [phase EXCEPT ![t] = "finishing"]
             /\ local' = [local EXCEPT ![t] = l]
    <3>1. phase'[t] = "finishing" /\ local'[t] = l
      BY <2>3, <2>5
    <3>2. Done(t)' = l.at
      BY <2>5, <3>1 DEF Done
    <3> QED
      BY <1>3, <3>1, <3>2
  <2> QED
    BY <1>3, <2>4, <2>5
<1>7. \A u \in Tx \ {t} : Same(u)
  BY <1>2, <1>3, <1>4 DEF ShapeOK, Same
<1>8. CommittedPage' = CommittedPage /\ Extends
  BY <1>3, <1>4, CommittedAfterWrite, SameDirectory
<1>9. NewBlank /\ FreshIsBlank'
  <2>1. \A q \in Resource : q # p => page'[q] = page[q]
    BY <1>2, <1>4 DEF ShapeOK, Pictures
  <2>2. Allocated' = Allocated
    BY <1>3 DEF Allocated
  <2> QED
    BY <1>3, <1>5, <2>1, <2>2 DEF NewBlank, FreshIsBlank, DInv
<1>10. page'[p] = image /\ \A q \in Resource : q # p => page'[q] = page[q]
  BY <1>2, <1>4 DEF ShapeOK, Pictures
<1>11. lockTable[p].holders[t] = "X"
  <2>1. Top(t) = Len(local[t].pages) /\ LockMode(t) = "X" /\ phase[t] \notin Queues
    BY <1>2 DEF Top, LockMode, Queues
  <2>2. local[t].at \in 1..Top(t)
    BY <1>1, <1>5, <2>1
  <2> QED
    BY <1>4, <2>1, <2>2 DEF LInv, LocksOK
<1>12. ASSUME NEW u \in Tx \ {t}, NEW i \in 1..Done(u)
       PROVE  page'[local[u].pages[i]] = page[local[u].pages[i]]
  <2>1. local[u].pages[i] \in DOMAIN undoLog[u]
    BY DEF LInv, UndoOK
  <2>2. local[u].pages[i] \in Resource /\ lockTable[local[u].pages[i]].holders[u] = "X"
    BY <2>1, WriterFacts
  <2>3. local[u].pages[i] # p
    BY <1>2, <1>11, <2>2, Excludes
  <2> QED
    BY <1>10, <2>2, <2>3
<1>13. CommittedVersion(d)' = CommittedVersion(d)
  BY <1>5, <1>8, <1>9, QuietVersion
<1>14. WorkOK(t)'
  <2>1. /\ IF request[t].op = "edit"
           THEN /\ l.version = CommittedVersion(d) + 1
                /\ request[t].base \subseteq {CommittedVersion(d)}
                /\ l.text = applyOperation(TextOn(CommittedPage, l.pages), OperationOf(t, request[t].change))
           ELSE l.version = 1 /\ l.text = << >> /\ CommittedVersion(d) = 0
        /\ Len(Chunks(l.text)) <= Len(l.pages)
        /\ \A i \in 1..Done(t) : page[l.pages[i]] = [version |-> l.version, chunk |-> ChunkAt(l.text, i)]
    <3>1. WorkOK(t) /\ Working(t) /\ phase[t] # "growing"
      BY <1>2 DEF DInv, Working
    <3> QED
      BY <1>1, <3>1 DEF WorkOK
  <2>2. ASSUME NEW i \in 1..l.at
        PROVE  page'[l.pages[i]] = [version |-> l.version, chunk |-> ChunkAt(l.text, i)]
    <3>1. CASE i = l.at
      <4>1. page'[p] = image /\ p = l.pages[i]
        BY <1>1, <1>10, <3>1
      <4>2. ChunkFor(local[t]) = ChunkAt(l.text, i)
        BY <1>1, <3>1 DEF ChunkFor, ChunkAt
      <4> QED
        BY <1>1, <4>1, <4>2
    <3>2. CASE i # l.at
      <4>1. i \in 1..Done(t) /\ i < l.at /\ i \in 1..Len(l.pages)
        BY <1>1, <1>2, <1>5, <3>2 DEF Done
      <4>2. l.pages[i] < l.pages[l.at]
        BY <1>5, <4>1 DEF Ascends
      <4>3. l.pages[i] # p
        BY <1>1, <1>5, <4>1, <4>2
      <4>4. l.pages[i] \in Resource
        BY <1>1, <1>4, <4>1, ActiveFacts
      <4> QED
        BY <1>10, <2>1, <4>1, <4>3, <4>4
    <3> QED
      BY <3>1, <3>2
  <2> QED
    BY <1>1, <1>6, <1>8, <1>13, <2>1, <2>2 DEF WorkOK
<1>15. ReadOK(t)' /\ ReplyOK(t)'
  BY <1>6 DEF ReadOK, ReplyOK
<1>16. StaleOK(t)'
  <2>1. phase[t] \in Active \ {"reading"} /\ ToSet(local[t].pages) \subseteq ToSet(local'[t].pages)
    BY <1>1, <1>2, <1>4, <1>6
  <2> QED
    BY <1>5, <1>6, <1>8, <1>9, <2>1, StaleKept
<1>17. PICK A \in SUBSET Tx : A = {t}
  OBVIOUS
<1> QED
  BY <1>2, <1>3, <1>6, <1>7, <1>8, <1>9, <1>12, <1>14, <1>15, <1>16, <1>17, QuietStep

(* abort.                                                                    *)
LEMMA FailsD ==
  ASSUME LInv, LInv', DInv, NEW t \in Tx, phase[t] \notin {"unborn", "replied"}, Fails(t),
         UNCHANGED <<eventVars, directory, request, local, reply>>
  PROVE  DInv'
<1>1. /\ phase' = [phase EXCEPT ![t] = "failed"] /\ undoLog' = [undoLog EXCEPT ![t] = Empty]
      /\ \A p \in Resource : page'[p] = IF p \in DOMAIN undoLog[t] THEN undoLog[t][p] ELSE page[p]
      /\ directory' = directory /\ request' = request /\ local' = local /\ reply' = reply
      /\ Events' = Events /\ sequences' = sequences
  BY DEF Fails, eventVars, queueVars, Events
<1>2. ShapeOK /\ DirectoryOK /\ request[t] \in Request
  BY DEF LInv, RequestOK
<1>3. CommittedPage' = CommittedPage /\ Extends
  BY <1>1, <1>2, CommittedAfterFail, SameDirectory
<1>4. NewBlank /\ FreshIsBlank'
  <2>1. \A p \in Resource \ Allocated : page'[p] = page[p]
    BY <1>1, WriterFacts
  <2>2. Allocated' = Allocated
    BY <1>1 DEF Allocated
  <2> QED
    BY <1>1, <2>1, <2>2 DEF NewBlank, FreshIsBlank, DInv
<1>5. phase'[t] = "failed"
  BY <1>1, <1>2 DEF ShapeOK
<1>6. \A u \in Tx \ {t} : Same(u)
  BY <1>1, <1>2 DEF ShapeOK, Same
<1>7. ASSUME NEW u \in Tx \ {t}, NEW i \in 1..Done(u)
      PROVE  page'[local[u].pages[i]] = page[local[u].pages[i]]
  <2>1. local[u].pages[i] \in DOMAIN undoLog[u]
    BY DEF LInv, UndoOK
  <2>2. local[u].pages[i] \in Resource /\ lockTable[local[u].pages[i]].holders[u] = "X"
    BY <2>1, WriterFacts
  <2>3. local[u].pages[i] \notin DOMAIN undoLog[t]
    BY <2>2, WriterFacts, Excludes
  <2> QED
    BY <1>1, <2>2, <2>3
<1>8. WorkOK(t)' /\ ReadOK(t)' /\ ReplyOK(t)'
  BY <1>5 DEF WorkOK, Working, ReadOK, ReplyOK
<1>9. StaleOK(t)'
  BY <1>1, <1>2, <1>3, <1>4, <1>5, StaleKept DEF Active
<1>10. PICK A \in SUBSET Tx : A = {t}
  OBVIOUS
<1> QED
  BY <1>1, <1>3, <1>4, <1>5, <1>6, <1>7, <1>8, <1>9, <1>10, QuietStep

(* Every abort but that ...                                                  *)
LEMMA FailD ==
  ASSUME LInv, LInv', DInv, NEW t \in Tx, fail(t)
  PROVE  DInv'
<1>1. phase[t] \notin {"unborn", "replied"}
  BY DEF fail, AllLocked, Granted
<1> QED
  BY <1>1, FailsD DEF fail

(* ... after publish has failed.                                             *)
LEMMA FailPublishD ==
  ASSUME LInv, LInv', DInv, NEW t \in Tx, failPublish(t)
  PROVE  DInv'
<1>1. phase[t] \notin {"unborn", "replied"}
  BY DEF failPublish
<1> QED
  BY <1>1, FailsD DEF failPublish

(* Steps of the lock table and of the queue.                                 *)
LEMMA AloneD ==
  ASSUME LInv, LInv', DInv, UNCHANGED docVars, Events' = Events, sequences' = sequences
  PROVE  DInv'
<1>1. /\ phase' = phase /\ local' = local /\ request' = request /\ reply' = reply /\ undoLog' = undoLog
      /\ directory' = directory /\ page' = page
  BY DEF docVars
<1>2. \A u \in Tx : Same(u)
  BY <1>1 DEF Same
<1>3. NewBlank /\ FreshIsBlank' /\ CommittedPage' = CommittedPage /\ Extends
  BY <1>1, SameBlank, SameDirectory, CommittedStays DEF LInv
<1>4. PICK A \in SUBSET Tx : A = {}
  OBVIOUS
<1> QED
  BY <1>1, <1>2, <1>3, <1>4, QuietStep

(* A lock timeout.                                                           *)
LEMMA LockTimeoutD ==
  ASSUME LInv, LInv', DInv, NEW t \in Tx, NEW p \in Resource, lockTimeout(t, p)
  PROVE  DInv'
  BY AloneD DEF lockTimeout, eventVars, queueVars, Events

(* The drain of the queue: what was buffered is delivered.                   *)
LEMMA BroadcastD ==
  ASSUME LInv, LInv', DInv, broadcast
  PROVE  DInv'
<1>1. /\ buffer' = << >> /\ sequences' = sequences /\ delivered' = delivered \o buffer
      /\ UNCHANGED docVars
  BY DEF broadcast, deliver
<1>2. PICK e : e = delivered \o buffer
  OBVIOUS
<1>3. e \in Seq(Event)
  BY <1>2, ConcatProperties DEF LInv, ShapeOK
<1>4. e \o << >> = e
  BY <1>3, ConcatEmptySeq
<1>5. Events' = Events
  BY <1>1, <1>2, <1>4 DEF Events
<1> QED
  BY <1>1, <1>5, AloneD

(* What a read has read, with the page it is at.                             *)
LEMMA ReadWork ==
  ASSUME LInv, DInv, NEW t \in Tx, phase[t] = "reading", promise[t] = "granted"
  PROVE  LET p == local[t].pages[local[t].at] IN
         /\ (IF local[t].at = 1 THEN page[p].version ELSE local[t].version)
              = CommittedVersion(request[t].doc)
         /\ local[t].text \o page[p].chunk
              = TextOn(CommittedPage, SubSeq(local[t].pages, 1, local[t].at))
<1>1. PICK s, n : s = local[t].pages /\ n = local[t].at
  OBVIOUS
<1>2. phase[t] \in Active /\ Top(t) = n /\ Done(t) = 0
  BY <1>1 DEF Active, Top, Queues, Done
<1>3. s \in Seq(Resource) /\ n \in 1..Len(s) /\ Len(s) \in Nat /\ n \in Nat /\ s[n] \in Resource
  BY <1>1, <1>2, ActiveFacts
<1>4. CommittedPage[s[n]] = page[s[n]]
  <2>1. n \in 1..Top(t) /\ n > Done(t)
    BY <1>2, <1>3
  <2> QED
    BY <1>1, <1>2, <1>3, <2>1, SeesCommitted
<1>5. /\ local[t].text = TextOn(CommittedPage, SubSeq(s, 1, n - 1))
      /\ n > 1 => local[t].version = CommittedVersion(request[t].doc)
  BY <1>1 DEF DInv, ReadOK
<1>6. (IF n = 1 THEN page[s[n]].version ELSE local[t].version) = CommittedVersion(request[t].doc)
  <2>1. CASE n = 1
    BY <1>1, <1>2, <1>4, <2>1, ActiveDoc
  <2>2. CASE n # 1
    BY <1>3, <1>5, <2>2
  <2> QED
    BY <2>1, <2>2
<1>7. TextOn(CommittedPage, SubSeq(s, 1, n)) = TextOn(CommittedPage, SubSeq(s, 1, n - 1)) \o page[s[n]].chunk
  <2>1. PICK z : z = SubSeq(s, 1, n - 1)
    OBVIOUS
  <2>2. z \in Seq(Resource) /\ Len(z) = n - 1 /\ \A i \in 1..(n - 1) : z[i] = s[i]
    BY <1>3, <2>1, SubSeqProperties
  <2>3. SubSeq(s, 1, n) = Append(z, s[n])
    <3>1. PICK x, y : x = SubSeq(s, 1, n) /\ y = Append(z, s[n])
      OBVIOUS
    <3>2. x \in Seq(Resource) /\ Len(x) = n /\ \A i \in 1..n : x[i] = s[i]
      BY <1>3, <3>1, SubSeqProperties
    <3>3. y \in Seq(Resource) /\ Len(y) = n /\ (\A i \in 1..(n - 1) : y[i] = s[i]) /\ y[n] = s[n]
      <4>1. y \in Seq(Resource) /\ Len(y) = Len(z) + 1
            /\ (\A i \in 1..Len(z) : y[i] = z[i]) /\ y[Len(z) + 1] = s[n]
        BY <1>3, <2>2, <3>1, AppendProperties
      <4>2. n - 1 + 1 = n
        BY <1>3
      <4> QED
        BY <2>2, <4>1, <4>2
    <3>4. \A i \in 1..n : x[i] = y[i]
      BY <1>3, <3>2, <3>3
    <3> QED
      BY <3>1, <3>2, <3>3, <3>4, SeqEqual
  <2>4. TextOn(CommittedPage, Append(z, s[n])) = TextOn(CommittedPage, z) \o CommittedPage[s[n]].chunk
    BY <1>3, <2>2, CommittedType, TextOnMore
  <2> QED
    BY <1>4, <2>1, <2>3, <2>4
<1> QED
  BY <1>1, <1>5, <1>6, <1>7

(* readDocument, a page read.                                                *)
LEMMA ReadPageD ==
  ASSUME LInv, LInv', DInv, NEW t \in Tx, readPage(t)
  PROVE  DInv'
<1> DEFINE l == [local[t] EXCEPT !.version = IF local[t].at = 1
                                             THEN page[local[t].pages[local[t].at]].version ELSE @,
                                 !.text = @ \o page[local[t].pages[local[t].at]].chunk]
<1>1. PICK d : d = request[t].doc
  OBVIOUS
<1>2. phase[t] = "reading" /\ promise[t] = "granted" /\ phase[t] \in Active
  BY DEF readPage, Granted, Active
<1>3. ShapeOK /\ DirectoryOK
  BY DEF LInv
<1>4. /\ l \in Local /\ l.pages = local[t].pages /\ l.at = local[t].at
      /\ l.version = CommittedVersion(d)
      /\ l.text = TextOn(CommittedPage, SubSeq(l.pages, 1, l.at))
  BY <1>1, <1>2, ReadFacts, ReadWork
<1>11. \/ /\ l.at < Len(l.pages) /\ Enters(t, "reading", [l EXCEPT !.at = @ + 1])
          /\ UNCHANGED <<undoLog, reply>>
       \/ /\ l.at = Len(l.pages) /\ Replies(t, l) /\ UNCHANGED local
  BY DEF readPage
<1> HIDE DEF l
<1>5. /\ directory' = directory /\ page' = page /\ request' = request
      /\ Events' = Events /\ sequences' = sequences
  BY DEF readPage, eventVars, queueVars, Events
<1>6. /\ request[t] \in Request /\ d \in Doc /\ request[t].op = "read"
      /\ l.pages \in Seq(Resource) /\ l.at \in 1..Len(l.pages) /\ Len(l.pages) \in Nat /\ l.at \in Nat
  <2>1. Operations(t) = {"read"}
    BY <1>2 DEF Operations
  <2> QED
    BY <1>1, <1>2, <1>4, <2>1, ActiveFacts
<1>7. ASSUME CommittedPage' = CommittedPage
      PROVE  NewBlank /\ FreshIsBlank' /\ Extends /\ CommittedVersion(d)' = CommittedVersion(d)
  <2>1. NewBlank /\ FreshIsBlank' /\ Extends
    BY <1>3, <1>5, SameBlank, SameDirectory
  <2> QED
    BY <1>6, <1>7, <2>1, QuietVersion
<1>8. PICK A \in SUBSET Tx : A = {t}
  OBVIOUS
<1>9. CASE /\ l.at < Len(l.pages)
           /\ Enters(t, "reading", [l EXCEPT !.at = @ + 1])
           /\ UNCHANGED <<undoLog, reply>>
  <2>1. PICK k : k = [l EXCEPT !.at = l.at + 1]
    OBVIOUS
  <2>2. k.pages = l.pages /\ k.text = l.text /\ k.version = l.version /\ k.at = l.at + 1
    BY <1>4, <2>1 DEF Local
  <2>3. /\ phase' = [phase EXCEPT ![t] = "reading"] /\ local' = [local EXCEPT ![t] = k]
        /\ undoLog' = undoLog /\ reply' = reply
    BY <1>9, <2>1 DEF Enters
  <2>4. CommittedPage' = CommittedPage
    BY <1>5, <2>3, CommittedStays
  <2>5. phase'[t] = "reading" /\ local'[t] = k /\ request'[t] = request[t]
    BY <1>3, <1>5, <2>3 DEF ShapeOK
  <2>6. \A u \in Tx \ {t} : Same(u)
    BY <1>3, <1>5, <2>3 DEF ShapeOK, Same
  <2>7. ReadOK(t)'
    <3>1. k.at - 1 = l.at
      BY <1>6, <2>2
    <3>2. k.text = TextOn(CommittedPage', SubSeq(k.pages, 1, k.at - 1))
      BY <1>4, <2>2, <2>4, <3>1
    <3>3. k.version = CommittedVersion(d)'
      BY <1>4, <1>7, <2>2, <2>4
    <3> QED
      BY <1>1, <2>5, <3>2, <3>3 DEF ReadOK
  <2>8. WorkOK(t)' /\ ReplyOK(t)'
    BY <2>5 DEF WorkOK, Working, ReplyOK
  <2>9. StaleOK(t)'
    BY <1>6, <1>7, <2>4, <2>5, StaleKept
  <2> QED
    BY <1>2, <1>5, <1>7, <1>8, <2>4, <2>5, <2>6, <2>7, <2>8, <2>9, QuietStep
<1>10. CASE /\ l.at = Len(l.pages) /\ Replies(t, l) /\ UNCHANGED local
  <2>1. PICK r : r = [version |-> l.version, text |-> l.text, pages |-> l.pages]
    OBVIOUS
  <2>2. r.version = l.version /\ r.text = l.text /\ r.pages = l.pages
    BY <2>1
  <2>3. /\ phase' = [phase EXCEPT ![t] = "replied"] /\ reply' = [reply EXCEPT ![t] = r]
        /\ undoLog' = [undoLog EXCEPT ![t] = Empty] /\ local' = local
    BY <1>10, <2>1 DEF Replies
  <2>4. CommittedPage' = CommittedPage
    <3>1. DOMAIN undoLog[t] = {}
      BY <1>2 DEF LInv, UndoOK, Done
    <3> QED
      BY <1>5, <2>3, <3>1, CommittedLeft
  <2>5. phase'[t] = "replied" /\ reply'[t] = r /\ request'[t] = request[t]
    BY <1>3, <1>5, <2>3 DEF ShapeOK
  <2>6. \A u \in Tx \ {t} : Same(u)
    BY <1>3, <1>5, <2>3 DEF ShapeOK, Same
  <2>7. ReplyOK(t)'
    <3>1. Ascends(r.pages) /\ ToSet(r.pages) \subseteq ToSet(directory'[d])
      BY <1>1, <1>2, <1>4, <1>5, <2>2 DEF LInv, PathOK
    <3>2. r.text = TextOn(CommittedPage', r.pages)
      <4>1. SubSeq(l.pages, 1, Len(l.pages)) = l.pages
        BY <1>6, SubSeqFull
      <4> QED
        BY <1>4, <1>10, <2>2, <2>4, <4>1
    <3>3. r.version = CommittedVersion(d)' /\ r.version \in Nat
      BY <1>4, <1>7, <2>2, <2>4 DEF Local
    <3>4. r.version <= CommittedVersion(d)'
      BY <3>3
    <3> QED
      BY <1>1, <2>5, <3>1, <3>2, <3>4 DEF ReplyOK
  <2>8. WorkOK(t)' /\ ReadOK(t)'
    BY <2>5 DEF WorkOK, Working, ReadOK
  <2>9. StaleOK(t)'
    BY <1>6, <1>7, <2>4, <2>5, StaleKept DEF Active
  <2>10. reply'[t].version = CommittedVersion(request'[t].doc)
    BY <1>1, <1>4, <2>2, <2>5
  <2> QED
    BY <1>1, <1>2, <1>5, <1>6, <1>7, <1>8, <2>4, <2>5, <2>6, <2>7, <2>8, <2>9, <2>10, QuietStep
<1> QED
  BY <1>9, <1>10, <1>11

-----------------------------------------------------------------------------
(* The end of a create or of an edit, which commits.                         *)
Finishes(t) ==
  /\ phase[t] = "finishing" /\ phase' = [phase EXCEPT ![t] = "replied"]
  /\ reply' = [reply EXCEPT ![t] = [version |-> local[t].version, text |-> local[t].text,
                                    pages |-> local[t].pages]]
  /\ undoLog' = [undoLog EXCEPT ![t] = Empty]
  /\ UNCHANGED <<directory, page, request, local>>

(* Its pages hold the text it has made, in the version after the last one;   *)
(* the other pages, and the other documents, are as they were.               *)
CommitDone(t) ==
  LET l == local[t]  d == request[t].doc IN
  /\ l \in Local /\ Ascends(l.pages) /\ ToSet(l.pages) \subseteq ToSet(directory[d])
  /\ request[t] \in Request /\ d \in Doc /\ request[t].op \in {"create", "edit"}
  /\ l.version = CommittedVersion(d) + 1 /\ CommittedVersion(d) \in Nat
  /\ request[t].op = "create" => CommittedVersion(d) = 0 /\ l.text = << >>
  /\ request[t].op = "edit" =>
       /\ request[t].base \subseteq {CommittedVersion(d)}
       /\ l.text = applyOperation(TextOn(CommittedPage, l.pages), OperationOf(t, request[t].change))
  /\ CommittedPage \in Pictures /\ CommittedPage' \in Pictures
  /\ TextOn(CommittedPage', l.pages) = l.text
  /\ CommittedPage'[directory[d][1]].version = l.version /\ hasDocument(d)
  /\ \A p \in Resource : p \notin ToSet(l.pages) => CommittedPage'[p] = CommittedPage[p]
  /\ \A e \in Doc \ {d} : \A p \in ToSet(directory[e]) :
       p \in Resource /\ CommittedPage'[p] = CommittedPage[p]

(* Versions are numbers.                                                     *)
LEMMA VersionType ==
  ASSUME LInv, NEW d \in Doc
  PROVE  CommittedVersion(d) \in Nat
<1>1. CASE hasDocument(d)
  <2>1. directory[d] \in Seq(Resource) /\ directory[d] # << >>
    BY <1>1 DEF LInv, DirectoryOK, hasDocument
  <2>2. directory[d][1] \in Resource
    BY <2>1, ElementOfSeq
  <2> QED
    BY <1>1, <2>2, CommittedType DEF CommittedVersion, Pictures, Image
<1>2. CASE ~hasDocument(d)
  BY <1>2 DEF CommittedVersion
<1> QED
  BY <1>1, <1>2

(* A create and an edit end so.                                              *)
LEMMA CommitFacts ==
  ASSUME LInv, LInv', DInv, NEW t \in Tx, Finishes(t)
  PROVE  CommitDone(t)
<1>1. PICK l, d : l = local[t] /\ d = request[t].doc
  OBVIOUS
<1>2. phase[t] = "finishing" /\ phase[t] \in Active /\ Working(t) /\ phase[t] # "growing"
  BY DEF Finishes, Active, Working
<1>3. /\ l \in Local /\ Ascends(l.pages) /\ l.pages \in Seq(Resource) /\ Len(l.pages) \in Nat
      /\ request[t] \in Request /\ d \in Doc /\ request[t].op \in {"create", "edit"}
      /\ l.pages[1] = directory[d][1] /\ 1 \in 1..Len(l.pages) /\ hasDocument(d)
      /\ \A i \in 1..Len(l.pages) : l.pages[i] \in Resource
  <2>1. Operations(t) = {"create", "edit"}
    BY <1>2 DEF Operations
  <2> QED
    BY <1>1, <1>2, <2>1, ActiveFacts, ActiveDoc
<1>4. ToSet(l.pages) \subseteq ToSet(directory[d])
  BY <1>1, <1>2 DEF LInv, PathOK
<1>5. WorkOK(t) /\ Done(t) = Len(l.pages)
  BY <1>1, <1>2 DEF DInv, Done
<1>6. CommittedVersion(d) \in Nat
  BY <1>3, VersionType
<1>7. /\ l.version = CommittedVersion(d) + 1
      /\ request[t].op = "create" => CommittedVersion(d) = 0 /\ l.text = << >>
      /\ request[t].op = "edit" =>
           /\ request[t].base \subseteq {CommittedVersion(d)}
           /\ l.text = applyOperation(TextOn(CommittedPage, l.pages), OperationOf(t, request[t].change))
      /\ Len(Chunks(l.text)) <= Len(l.pages)
      /\ \A i \in 1..Len(l.pages) : page[l.pages[i]] = [version |-> l.version, chunk |-> ChunkAt(l.text, i)]
  <2>1. /\ IF request[t].op = "edit"
           THEN /\ l.version = CommittedVersion(d) + 1
                /\ request[t].base \subseteq {CommittedVersion(d)}
                /\ l.text = applyOperation(TextOn(CommittedPage, l.pages), OperationOf(t, request[t].change))
           ELSE l.version = 1 /\ l.text = << >> /\ CommittedVersion(d) = 0
        /\ Len(Chunks(l.text)) <= Len(l.pages)
        /\ \A i \in 1..Done(t) : page[l.pages[i]] = [version |-> l.version, chunk |-> ChunkAt(l.text, i)]
    BY <1>1, <1>2, <1>5 DEF WorkOK
  <2>2. 0 + 1 = 1
    OBVIOUS
  <2>3. CASE request[t].op = "edit"
    BY <1>5, <2>1, <2>3
  <2>4. CASE request[t].op # "edit"
    BY <1>5, <2>1, <2>2, <2>4
  <2> QED
    BY <2>3, <2>4
<1>8. CommittedPage \in Pictures /\ CommittedPage' \in Pictures
  BY CommittedInv, CommittedInvNext DEF CommittedOK
<1>9. Commits(t)
  BY <1>2, CommittedAfterFinish DEF Finishes
<1>10. ASSUME NEW i \in 1..Len(l.pages)
       PROVE  /\ CommittedPage'[l.pages[i]].version = l.version
              /\ CommittedPage'[l.pages[i]].chunk = ChunkAt(l.text, i)
  <2>1. l.pages[i] \in ToSet(l.pages) /\ l.pages[i] \in Resource
    BY <1>3 DEF ToSet
  <2>2. PICK x, c : x = page[l.pages[i]] /\ c = ChunkAt(l.text, i)
    OBVIOUS
  <2>3. x = [version |-> l.version, chunk |-> c]
    BY <1>7, <2>2
  <2>4. x.version = l.version /\ x.chunk = c
    BY <2>3
  <2>5. CommittedPage'[l.pages[i]] = x
    BY <1>1, <1>9, <2>1, <2>2 DEF Commits
  <2> QED
    BY <2>2, <2>4, <2>5
<1>11. TextOn(CommittedPage', l.pages) = l.text
  <2>1. l.text \in Text
    BY <1>3 DEF Local
  <2>2. \A i \in 1..Len(l.pages) :
          CommittedPage'[l.pages[i]].chunk = IF i <= Len(Chunks(l.text)) THEN Chunks(l.text)[i] ELSE << >>
    BY <1>10 DEF ChunkAt
  <2> QED
    BY <1>3, <1>7, <1>8, <2>1, <2>2, TextOnWritten
<1>12. CommittedPage'[directory[d][1]].version = l.version
  BY <1>3, <1>10
<1>13. \A p \in Resource : p \notin ToSet(l.pages) => CommittedPage'[p] = CommittedPage[p]
  BY <1>1, <1>9 DEF Commits
<1>14. ASSUME NEW e \in Doc \ {d}, NEW p \in ToSet(directory[e])
       PROVE  p \in Resource /\ CommittedPage'[p] = CommittedPage[p]
  <2>1. directory[e] \in Seq(Resource) /\ ToSet(directory[e]) \cap ToSet(directory[d]) = {}
    BY <1>3 DEF LInv, DirectoryOK
  <2>2. p \in Resource
    BY <2>1, ElementOfSeq DEF ToSet
  <2> QED
    BY <1>4, <1>13, <2>1, <2>2
<1> QED
  BY <1>1, <1>3, <1>4, <1>6, <1>7, <1>8, <1>11, <1>12, <1>13, <1>14 DEF CommitDone

(* The version of its document goes up by one, the others stay.              *)
LEMMA CommitVersions ==
  ASSUME LInv, NEW t \in Tx, Finishes(t), CommitDone(t), NEW e \in Doc
  PROVE  CommittedVersion(e)' = IF e = request[t].doc THEN local[t].version ELSE CommittedVersion(e)
<1>1. directory' = directory
  BY DEF Finishes
<1>2. CASE e = request[t].doc
  BY <1>1, <1>2 DEF CommitDone, CommittedVersion, hasDocument
<1>3. CASE e # request[t].doc
  <2>1. CASE hasDocument(e)
    <3>1. directory[e] \in Seq(Resource) /\ directory[e] # << >>
      BY <2>1 DEF LInv, DirectoryOK, hasDocument
    <3>2. directory[e][1] \in ToSet(directory[e])
      BY <3>1 DEF ToSet
    <3>3. CommittedPage'[directory[e][1]] = CommittedPage[directory[e][1]]
      BY <1>3, <3>2 DEF CommitDone
    <3> QED
      BY <1>1, <1>3, <2>1, <3>3 DEF CommittedVersion, hasDocument
  <2>2. CASE ~hasDocument(e)
    BY <1>1, <1>3, <2>2 DEF CommittedVersion, hasDocument
  <2> QED
    BY <2>1, <2>2
<1> QED
  BY <1>2, <1>3

(* Other documents are as they were.                                         *)
LEMMA CommitElsewhere ==
  ASSUME LInv, NEW t \in Tx, Finishes(t), CommitDone(t), NEW e \in Doc, e # request[t].doc
  PROVE  /\ \A pages \in Seq(Resource) : ToSet(pages) \subseteq ToSet(directory[e])
              => TextOn(CommittedPage', pages) = TextOn(CommittedPage, pages)
         /\ \A pages : BlankBeyond(e, pages)
              => \A p \in ToSet(directory'[e]) \ ToSet(pages) : CommittedPage'[p].chunk = << >>
<1>1. \A p \in ToSet(directory[e]) : CommittedPage'[p] = CommittedPage[p]
  BY DEF CommitDone
<1>2. directory' = directory
  BY DEF Finishes
<1>3. ASSUME NEW pages \in Seq(Resource), ToSet(pages) \subseteq ToSet(directory[e])
      PROVE  TextOn(CommittedPage', pages) = TextOn(CommittedPage, pages)
  <2>1. \A i \in 1..Len(pages) : pages[i] \in ToSet(directory[e])
    BY <1>3 DEF ToSet
  <2>2. \A i \in 1..Len(pages) : CommittedPage'[pages[i]].chunk = CommittedPage[pages[i]].chunk
    BY <1>1, <2>1
  <2>3. CommittedPage \in Pictures /\ CommittedPage' \in Pictures
    BY DEF CommitDone
  <2> QED
    BY <2>2, <2>3, TextOnSame
<1> QED
  BY <1>1, <1>2, <1>3 DEF BlankBeyond

(* Who else is at the document has only asked for its first page.            *)
LEMMA NobodyElse ==
  ASSUME LInv, NEW t \in Tx, Finishes(t), NEW u \in Tx, u # t,
         phase[u] \in Active, request[u].doc = request[t].doc
  PROVE  ~Working(u) /\ request[u].op # "create" /\ local[u].at = 1
<1>1. phase[t] \in Active /\ phase[t] = "finishing"
  BY DEF Finishes, Active
<1>2. /\ local[t].pages[1] = local[u].pages[1] /\ local[t].pages[1] \in Resource
      /\ 1 \in 1..Len(local[t].pages)
  BY <1>1, ActiveFacts, ActiveDoc
<1>3. lockTable[local[t].pages[1]].holders[t] = "X"
  <2>1. Top(t) = Len(local[t].pages) /\ LockMode(t) = "X" /\ phase[t] \notin Queues
    BY <1>1 DEF Top, LockMode, Queues
  <2> QED
    BY <1>1, <1>2, <2>1 DEF LInv, LocksOK
<1>4. lockTable[local[u].pages[1]].holders[u] = "none"
  BY <1>2, <1>3, Excludes
<1>5. /\ Top(u) \in 1..Len(local[u].pages) /\ Top(u) \in Nat /\ LockMode(u) \in {"S", "X"}
      /\ Len(local[u].pages) \in Nat /\ local[u].at \in Nat
  BY ActiveFacts
<1>6. phase[u] \in Queues /\ 1 = local[u].at
  <2>1. 1 \in 1..Top(u) /\ LockMode(u) # "none"
    BY <1>5
  <2> QED
    BY <1>4, <2>1 DEF LInv, LocksOK
<1>7. Operations(u) \subseteq {"read", "edit"}
  BY <1>6 DEF Operations, Queues
<1> QED
  BY <1>6, <1>7, ActiveFacts DEF Working, Queues

(* The other requests keep what DInv says of them.                           *)
LEMMA CommitBystander ==
  ASSUME LInv, LInv', DInv, NEW t \in Tx, Finishes(t), CommitDone(t), NEW u \in Tx, u # t
  PROVE  Same(u) /\ WorkOK(u)' /\ ReadOK(u)' /\ ReplyOK(u)' /\ StaleOK(u)'
<1>1. PICK d : d = request[u].doc
  OBVIOUS
<1>2. /\ directory' = directory /\ page' = page /\ request' = request /\ local' = local
      /\ Same(u)
  BY DEF Finishes, Same, LInv, ShapeOK
<1>3. WorkOK(u) /\ ReadOK(u) /\ ReplyOK(u) /\ StaleOK(u)
  BY DEF DInv
<1>4. ASSUME request[u] # Nobody
      PROVE  d \in Doc /\ request[u] \in Request
  BY <1>1, <1>4 DEF LInv, ShapeOK, Request
<1>5. ASSUME phase[u] # "unborn"
      PROVE  d \in Doc /\ request[u] \in Request
  BY <1>1, <1>5 DEF LInv, RequestOK, Request
<1>6. ASSUME phase[u] \in Active
      PROVE  /\ local[u].pages \in Seq(Resource) /\ ToSet(local[u].pages) \subseteq ToSet(directory[d])
             /\ local[u].at \in 1..Len(local[u].pages) /\ local[u].at \in Nat /\ phase[u] # "unborn"
             /\ Len(local[u].pages) \in Nat
             /\ phase[u] # "reading" => request[u].op \in {"create", "edit"}
  <2>1. ToSet(local[u].pages) \subseteq ToSet(directory[d])
    BY <1>1, <1>6 DEF LInv, PathOK
  <2>2. phase[u] # "reading" => Operations(u) \subseteq {"create", "edit"}
    BY DEF Operations
  <2> QED
    BY <1>6, <2>1, <2>2, ActiveFacts DEF Active
<1>7. CASE d # request[t].doc
  <2>1. ASSUME d \in Doc
        PROVE  /\ CommittedVersion(d)' = CommittedVersion(d)
               /\ \A pages \in Seq(Resource) : ToSet(pages) \subseteq ToSet(directory[d])
                    => TextOn(CommittedPage', pages) = TextOn(CommittedPage, pages)
               /\ \A pages : BlankBeyond(d, pages)
                    => \A p \in ToSet(directory'[d]) \ ToSet(pages) : CommittedPage'[p].chunk = << >>
    BY <1>7, <2>1, CommitVersions, CommitElsewhere
  <2>2. WorkOK(u)'
    <3>1. CASE Working(u)
      <4>1. phase[u] \in Active /\ phase[u] # "unborn"
        BY <3>1 DEF Working, Active
      <4>2. /\ CommittedVersion(d)' = CommittedVersion(d)
            /\ TextOn(CommittedPage', local[u].pages) = TextOn(CommittedPage, local[u].pages)
        BY <1>5, <1>6, <2>1, <4>1
      <4>3. Done(u)' = Done(u)
        BY <1>2 DEF Done, Same
      <4> QED
        BY <1>1, <1>2, <1>3, <3>1, <4>2, <4>3 DEF WorkOK, Working, Same
    <3>2. CASE ~Working(u)
      BY <1>2, <3>2 DEF WorkOK, Working, Same
    <3> QED
      BY <3>1, <3>2
  <2>3. ReadOK(u)'
    <3>1. CASE phase[u] = "reading"
      <4>1. phase[u] \in Active /\ phase[u] # "unborn"
        BY <3>1 DEF Active
      <4>2. PICK z : z = SubSeq(local[u].pages, 1, local[u].at - 1)
        OBVIOUS
      <4>3. z \in Seq(Resource) /\ ToSet(z) \subseteq ToSet(directory[d])
        <5>1. PICK s, n : s = local[u].pages /\ n = local[u].at
          OBVIOUS
        <5>2. s \in Seq(Resource) /\ n \in 1..Len(s) /\ n \in Nat /\ Len(s) \in Nat
          BY <1>6, <4>1, <5>1
        <5>3. z \in Seq(Resource) /\ Len(z) = n - 1 /\ \A i \in 1..(n - 1) : z[i] = s[i]
          BY <4>2, <5>1, <5>2, SubSeqProperties
        <5>4. \A i \in 1..(n - 1) : i \in 1..Len(s)
          BY <5>2
        <5>5. ToSet(z) \subseteq ToSet(s)
          BY <5>3, <5>4 DEF ToSet
        <5> QED
          BY <1>6, <4>1, <5>1, <5>3, <5>5
      <4>4. TextOn(CommittedPage', z) = TextOn(CommittedPage, z)
        BY <1>5, <2>1, <4>1, <4>3
      <4>5. CommittedVersion(d)' = CommittedVersion(d)
        BY <1>5, <2>1, <4>1
      <4> QED
        BY <1>1, <1>2, <1>3, <3>1, <4>2, <4>4, <4>5 DEF ReadOK, Same
    <3>2. CASE phase[u] # "reading"
      BY <1>2, <3>2 DEF ReadOK, Same
    <3> QED
      BY <3>1, <3>2
  <2>4. ReplyOK(u)'
    <3>1. CASE phase[u] = "replied"
      <4>1. d \in Doc /\ reply[u].pages \in Seq(Resource) /\ phase[u] # "unborn"
        BY <1>5, <3>1 DEF LInv, RequestOK, Reply
      <4>2. ToSet(reply[u].pages) \subseteq ToSet(directory[d])
        BY <1>1, <1>3, <3>1 DEF ReplyOK
      <4>3. /\ CommittedVersion(d)' = CommittedVersion(d)
            /\ TextOn(CommittedPage', reply[u].pages) = TextOn(CommittedPage, reply[u].pages)
        BY <2>1, <4>1, <4>2
      <4> QED
        BY <1>1, <1>2, <1>3, <3>1, <4>3 DEF ReplyOK, Same
    <3>2. CASE phase[u] # "replied"
      BY <1>2, <3>2 DEF ReplyOK, Same
    <3> QED
      BY <3>1, <3>2
  <2>5. StaleOK(u)'
    <3>1. request[u] # Nobody /\ request[u].op = "edit" => \A v \in request[u].base : v <= CommittedVersion(d)'
      BY <1>1, <1>3, <1>4, <2>1 DEF StaleOK
    <3>2. ASSUME phase[u] \in Active \ {"reading"},
                 request[u].op = "create" \/ request[u].base = {CommittedVersion(d)'}
          PROVE  \A p \in ToSet(directory'[d]) \ ToSet(local[u].pages) : CommittedPage'[p].chunk = << >>
      <4>1. d \in Doc
        BY <1>5, <1>6, <3>2
      <4>2. BlankBeyond(d, local[u].pages)
        BY <1>1, <1>3, <2>1, <3>2, <4>1 DEF StaleOK
      <4> QED
        BY <2>1, <4>1, <4>2
    <3>3. ASSUME Versioned, phase[u] = "replied", request[u].op # "read",
                 reply[u].version = CommittedVersion(d)'
          PROVE  \A p \in ToSet(directory'[d]) \ ToSet(reply[u].pages) : CommittedPage'[p].chunk = << >>
      <4>1. d \in Doc
        BY <1>5, <3>3
      <4>2. BlankBeyond(d, reply[u].pages)
        BY <1>1, <1>3, <2>1, <3>3, <4>1 DEF StaleOK
      <4> QED
        BY <2>1, <4>1, <4>2
    <3> QED
      BY <1>1, <1>2, <3>1, <3>2, <3>3 DEF StaleOK, BlankBeyond, Same
  <2> QED
    BY <1>2, <2>2, <2>3, <2>4, <2>5
<1>8. CASE d = request[t].doc
  <2>1. PICK v : v = CommittedVersion(d)
    OBVIOUS
  <2>2. d \in Doc /\ v \in Nat /\ CommittedVersion(d)' = v + 1
    <3>1. request[t].doc \in Doc /\ CommittedVersion(request[t].doc) \in Nat
          /\ local[t].version = CommittedVersion(request[t].doc) + 1
      BY DEF CommitDone
    <3> QED
      BY <1>8, <2>1, <3>1, CommitVersions
  <2>3. phase[u] \in Active => ~Working(u) /\ request[u].op # "create" /\ local[u].at = 1
    BY <1>1, <1>8, NobodyElse
  <2>4. WorkOK(u)'
    <3>1. ~Working(u)
      BY <2>3 DEF Working, Active
    <3> QED
      BY <1>2, <3>1 DEF WorkOK, Working, Same
  <2>5. ReadOK(u)'
    <3>1. CASE phase[u] = "reading"
      <4>1. phase[u] \in Active /\ local[u].at = 1 /\ local[u].at - 1 = 0 /\ ~(local[u].at > 1)
        BY <2>3, <3>1 DEF Active
      <4>2. PICK z : z = SubSeq(local[u].pages, 1, local[u].at - 1)
        OBVIOUS
      <4>3. z \in Seq(Resource) /\ Len(z) = 0
        <5>1. PICK s : s = local[u].pages
          OBVIOUS
        <5>2. s \in Seq(Resource) /\ z = SubSeq(s, 1, 0)
          BY <1>6, <4>1, <4>2, <5>1
        <5> QED
          BY <5>2, SubSeqProperties
      <4>4. TextOn(CommittedPage', z) = TextOn(CommittedPage, z)
        <5>1. \A i \in 1..Len(z) : FALSE
          BY <4>3
        <5>2. CommittedPage' \in Pictures /\ CommittedPage \in Pictures
          BY DEF CommitDone
        <5> QED
          BY <4>3, <5>1, <5>2, TextOnSame
      <4> QED
        BY <1>1, <1>2, <1>3, <3>1, <4>1, <4>2, <4>4 DEF ReadOK, Same
    <3>2. CASE phase[u] # "reading"
      BY <1>2, <3>2 DEF ReadOK, Same
    <3> QED
      BY <3>1, <3>2
  <2>6. phase[u] = "replied" => reply[u].version \in Nat /\ reply[u].version < v + 1
    <3>1. phase[u] = "replied" => reply[u].version \in Nat
      BY DEF LInv, RequestOK, Reply
    <3>2. phase[u] = "replied" => reply[u].version <= v
      BY <1>1, <1>3, <2>1 DEF ReplyOK
    <3> QED
      BY <2>2, <3>1, <3>2
  <2>7. ReplyOK(u)'
    <3>1. CASE phase[u] = "replied"
      <4>1. Ascends(reply[u].pages) /\ ToSet(reply[u].pages) \subseteq ToSet(directory[d])
        BY <1>1, <1>3, <3>1 DEF ReplyOK
      <4>2. reply[u].version <= CommittedVersion(d)' /\ reply[u].version # CommittedVersion(d)'
        BY <2>2, <2>6, <3>1
      <4> QED
        BY <1>1, <1>2, <4>1, <4>2 DEF ReplyOK, Same
    <3>2. CASE phase[u] # "replied"
      BY <1>2, <3>2 DEF ReplyOK, Same
    <3> QED
      BY <3>1, <3>2
  <2>8. StaleOK(u)'
    <3>1. ASSUME request[u] # Nobody, request[u].op = "edit", NEW w \in request[u].base
          PROVE  w <= v + 1 /\ w # v + 1
      <4>1. w <= v
        BY <1>1, <1>3, <2>1, <3>1 DEF StaleOK
      <4>2. w \in Nat
        BY <1>4, <3>1 DEF Request
      <4> QED
        BY <2>2, <4>1, <4>2
    <3>2. ~(phase[u] \in Active \ {"reading"} /\ (request[u].op = "create" \/ request[u].base = {v + 1}))
      <4> SUFFICES ASSUME phase[u] \in Active \ {"reading"}, request[u].base = {v + 1}
                   PROVE  FALSE
        BY <2>3
      <4>1. request[u].op = "edit" /\ request[u] \in Request
        BY <1>5, <1>6, <2>3
      <4>2. request[u] # Nobody
        BY <4>1 DEF Request, Nobody
      <4> QED
        BY <3>1, <4>1, <4>2
    <3>3. ~(phase[u] = "replied" /\ reply[u].version = v + 1)
      BY <2>2, <2>6
    <3> QED
      BY <1>1, <1>2, <2>2, <3>1, <3>2, <3>3 DEF StaleOK, Same
  <2> QED
    BY <1>2, <2>4, <2>5, <2>7, <2>8
<1> QED
  BY <1>7, <1>8

(* What the answer of the request that commits says.                         *)
LEMMA CommitSelf ==
  ASSUME LInv, LInv', DInv, NEW t \in Tx, Finishes(t), CommitDone(t)
  PROVE  /\ WorkOK(t)' /\ ReadOK(t)' /\ ReplyOK(t)' /\ StaleOK(t)'
         /\ phase'[t] = "replied" /\ reply'[t].version = local[t].version
         /\ reply'[t].text = local[t].text /\ reply'[t].pages = local[t].pages
         /\ Versioned /\ request[t].op = "edit" => request[t].base = {CommittedVersion(request[t].doc)}
<1>1. PICK l, d, v : l = local[t] /\ d = request[t].doc /\ v = CommittedVersion(d)
  OBVIOUS
<1>2. /\ directory' = directory /\ request' = request
      /\ phase'[t] = "replied" /\ phase[t] = "finishing"
      /\ reply'[t] = [version |-> l.version, text |-> l.text, pages |-> l.pages]
  BY <1>1 DEF Finishes, LInv, ShapeOK
<1>3. reply'[t].version = l.version /\ reply'[t].text = l.text /\ reply'[t].pages = l.pages
  BY <1>2
<1>4. /\ Ascends(l.pages) /\ ToSet(l.pages) \subseteq ToSet(directory[d])
      /\ request[t] \in Request /\ d \in Doc /\ request[t].op \in {"create", "edit"}
      /\ l.version = v + 1 /\ v \in Nat
      /\ request[t].op = "edit" => request[t].base \subseteq {v}
      /\ TextOn(CommittedPage', l.pages) = l.text
      /\ \A p \in Resource : p \notin ToSet(l.pages) => CommittedPage'[p] = CommittedPage[p]
  BY <1>1 DEF CommitDone
<1>5. CommittedVersion(d)' = v + 1
  BY <1>1, <1>4, CommitVersions
<1>6. WorkOK(t)' /\ ReadOK(t)'
  BY <1>2 DEF WorkOK, Working, ReadOK
<1>7. ReplyOK(t)'
  <2>1. l.version <= CommittedVersion(d)'
    BY <1>4, <1>5
  <2> QED
    BY <1>1, <1>2, <1>3, <1>4, <2>1 DEF ReplyOK
<1>8. Versioned /\ request[t].op = "edit" => request[t].base = {v}
  <2>1. Versioned /\ request[t].op = "edit" => \E w \in Nat : request[t].base = {w}
    BY <1>2 DEF LInv, RequestOK, Base
  <2> QED
    BY <1>4, <2>1
<1>9. StaleOK(t)'
  <2>1. request[t].op = "edit" => \A w \in request[t].base : w <= v + 1
    BY <1>4
  <2>2. ASSUME Versioned
        PROVE  \A p \in ToSet(directory[d]) \ ToSet(l.pages) : CommittedPage'[p].chunk = << >>
    <3>1. BlankBeyond(d, l.pages)
      BY <1>1, <1>2, <1>4, <1>8, <2>2 DEF DInv, StaleOK, Active
    <3>2. directory[d] \in Seq(Resource)
      BY <1>4 DEF LInv, DirectoryOK
    <3>3. \A p \in ToSet(directory[d]) : p \in Resource
      BY <3>2, ElementOfSeq DEF ToSet
    <3> QED
      BY <1>4, <3>1, <3>3 DEF BlankBeyond
  <2>3. phase'[t] \notin Active
    BY <1>2 DEF Active
  <2> QED
    BY <1>1, <1>2, <1>3, <1>5, <2>1, <2>2, <2>3 DEF StaleOK, BlankBeyond
<1> QED
  BY <1>1, <1>2, <1>3, <1>6, <1>7, <1>8, <1>9

(* An edit builds on the version it was made against.                        *)
LEMMA CommitBuilds ==
  ASSUME LInv, LInv', DInv, NEW t \in Tx, Finishes(t), CommitDone(t), request[t].op = "edit",
         NEW u \in Tx, u # t, phase[u] = "replied", request[u].op # "read",
         request[u].doc = request[t].doc, reply[u].version \in request[t].base
  PROVE  /\ local[t].version = reply[u].version + 1
         /\ local[t].text = applyOperation(reply[u].text, OperationOf(t, request[t].change))
<1>1. PICK l, d, v, q : l = local[t] /\ d = request[t].doc /\ v = CommittedVersion(d) /\ q = reply[u].pages
  OBVIOUS
<1>2. /\ Ascends(l.pages) /\ ToSet(l.pages) \subseteq ToSet(directory[d]) /\ l \in Local
      /\ d \in Doc /\ l.version = v + 1
      /\ request[t].base \subseteq {v}
      /\ l.text = applyOperation(TextOn(CommittedPage, l.pages), OperationOf(t, request[t].change))
      /\ CommittedPage \in Pictures
  BY <1>1 DEF CommitDone
<1>3. reply[u].version = v /\ request[t].base = {v}
  BY <1>2
<1>4. Versioned
  <2>1. phase[t] # "unborn"
    BY DEF Finishes
  <2> QED
    BY <1>3, <2>1 DEF LInv, RequestOK, Base
<1>5. BlankBeyond(d, l.pages)
  <2>1. phase[t] \in Active \ {"reading"}
    BY DEF Finishes, Active
  <2> QED
    BY <1>1, <1>3, <2>1 DEF DInv, StaleOK
<1>6. BlankBeyond(d, q) /\ Ascends(q) /\ ToSet(q) \subseteq ToSet(directory[d])
      /\ reply[u].text = TextOn(CommittedPage, q)
  BY <1>1, <1>3, <1>4 DEF DInv, StaleOK, ReplyOK
<1>7. l.pages \in Seq(Resource) /\ q \in Seq(Resource) /\ directory[d] \in Seq(Resource)
      /\ Ascends(directory[d])
  BY <1>1, <1>2 DEF Local, LInv, RequestOK, Reply, DirectoryOK
<1>8. TextOn(CommittedPage, l.pages) = TextOn(CommittedPage, directory[d])
  BY <1>2, <1>5, <1>7, TextOnSparse DEF BlankBeyond
<1>9. TextOn(CommittedPage, q) = TextOn(CommittedPage, directory[d])
  BY <1>2, <1>6, <1>7, TextOnSparse DEF BlankBeyond
<1> QED
  BY <1>1, <1>2, <1>3, <1>6, <1>8, <1>9

(* All of it but the events.                                                 *)
LEMMA CommitD ==
  ASSUME LInv, LInv', DInv, NEW t \in Tx, Finishes(t), CommitDone(t), EventsOK'
  PROVE  DInv'
<1>1. /\ directory' = directory /\ page' = page /\ request' = request
      /\ \A u \in Tx \ {t} : Same(u) /\ WorkOK(u)' /\ ReadOK(u)' /\ ReplyOK(u)' /\ StaleOK(u)'
  BY CommitBystander DEF Finishes
<1>2. /\ WorkOK(t)' /\ ReadOK(t)' /\ ReplyOK(t)' /\ StaleOK(t)'
      /\ phase'[t] = "replied" /\ reply'[t].version = local[t].version
      /\ reply'[t].text = local[t].text /\ reply'[t].pages = local[t].pages
  BY CommitSelf
<1>3. \A u \in Tx : WorkOK(u)' /\ ReadOK(u)' /\ ReplyOK(u)' /\ StaleOK(u)'
  BY <1>1, <1>2
<1>4. PICK d, v : d = request[t].doc /\ v = CommittedVersion(d)
  OBVIOUS
<1>5. /\ d \in Doc /\ v \in Nat /\ local[t].version = v + 1
      /\ request[t].op = "edit" => request[t].base \subseteq {v}
  BY <1>4 DEF CommitDone
<1>6. FreshIsBlank'
  BY <1>1 DEF DInv, FreshIsBlank, Allocated
<1>7. VersionZero'
  <2> SUFFICES ASSUME NEW e \in Doc, CommittedVersion(e)' = 0
               PROVE  \A p \in ToSet(directory'[e]) \ ToSet(<< >>) : CommittedPage'[p].chunk = << >>
    BY DEF VersionZero, BlankBeyond
  <2>1. v + 1 # 0
    BY <1>5
  <2>2. e # d /\ CommittedVersion(e) = 0
    BY <1>4, <1>5, <2>1, CommitVersions
  <2>3. BlankBeyond(e, << >>)
    BY <2>2 DEF DInv, VersionZero
  <2> QED
    BY <1>4, <2>2, <2>3, CommitElsewhere
<1>8. AnswersAgree'
  <2>1. PICK A \in SUBSET Tx : A = {t}
    OBVIOUS
  <2>2. local[t].version = CommittedVersion(request[t].doc)'
    BY <1>1, <1>4, <1>5, CommitVersions
  <2>3. \A u \in A : phase'[u] = "replied" => reply'[u].version = CommittedVersion(request[u].doc)'
    BY <1>2, <2>1, <2>2
  <2> QED
    BY <1>1, <1>3, <2>1, <2>3, AnswersStep DEF DInv
<1>9. EditsBuildOnBase'
  <2> SUFFICES ASSUME NEW w \in Tx, NEW u \in Tx,
                      phase'[w] = "replied", request'[w].op = "edit",
                      phase'[u] = "replied", request'[u].op # "read", request'[u].doc = request'[w].doc,
                      reply'[u].version \in request'[w].base
               PROVE  /\ reply'[w].version = reply'[u].version + 1
                      /\ reply'[w].text = applyOperation(reply'[u].text, OperationOf(w, request'[w].change))
    BY DEF EditsBuildOnBase, Answered
  <2>1. CASE w # t /\ u # t
    <3>1. Same(w) /\ Same(u)
      BY <1>1, <2>1
    <3> QED
      BY <3>1 DEF Same, DInv, EditsBuildOnBase, Answered
  <2>2. CASE w # t /\ u = t
    <3>1. Same(w)
      BY <1>1, <2>2
    <3>2. request[w] \in Request /\ request[w].op = "edit" /\ request[w].doc = d
          /\ v + 1 \in request[w].base
      BY <1>1, <1>2, <1>4, <1>5, <2>2, <3>1 DEF Same, LInv, RequestOK
    <3>3. request[w] # Nobody
      BY <3>2 DEF Request, Nobody
    <3>4. v + 1 <= v
      BY <1>4, <3>2, <3>3 DEF DInv, StaleOK
    <3> QED
      BY <1>5, <3>4
  <2>3. CASE w = t /\ u = t
    <3>1. v + 1 \in {v}
      BY <1>1, <1>2, <1>5, <2>3
    <3> QED
      BY <1>5, <3>1
  <2>4. CASE w = t /\ u # t
    <3>1. Same(u)
      BY <1>1, <2>4
    <3>2. /\ request[t].op = "edit" /\ phase[u] = "replied" /\ request[u].op # "read"
          /\ request[u].doc = request[t].doc /\ reply[u].version \in request[t].base
          /\ reply'[u] = reply[u]
      BY <1>1, <2>4, <3>1 DEF Same
    <3> QED
      BY <1>1, <1>2, <2>4, <3>2, CommitBuilds
  <2> QED
    BY <2>1, <2>2, <2>3, <2>4
<1> QED
  BY <1>3, <1>6, <1>7, <1>8, <1>9 DEF DInv

(* The announcements of a document, and the sequence of all of them.         *)
LEMMA EventsFacts ==
  ASSUME LInv, NEW d \in Doc
  PROVE  /\ Events \in Seq(Event) /\ Len(Events) \in Nat
         /\ EventsOf(d) \in SUBSET (1..Len(Events)) /\ IsFiniteSet(EventsOf(d))
         /\ Cardinality(EventsOf(d)) \in Nat
<1>1. Events \in Seq(Event) /\ Len(Events) \in Nat
  BY ConcatProperties DEF LInv, ShapeOK, Events
<1>2. PICK N, S : N = 1..Len(Events) /\ S = EventsOf(d)
  OBVIOUS
<1>3. S \in SUBSET N
  BY <1>2 DEF EventsOf
<1>4. IsFiniteSet(N)
  BY <1>1, <1>2, FS_Interval
<1>5. IsFiniteSet(S) /\ Cardinality(S) \in Nat
  BY <1>3, <1>4, FS_Subset, FS_CardinalityType
<1> QED
  BY <1>1, <1>2, <1>3, <1>5

(* The first version of a document is nobody's edit.                         *)
LEMMA CreateEvents ==
  ASSUME LInv, LInv', DInv, NEW t \in Tx, Finishes(t), CommitDone(t), request[t].op = "create",
         Events' = Events, sequences' = sequences
  PROVE  EventsOK'
<1>1. PICK d : d = request[t].doc
  OBVIOUS
<1>2. /\ d \in Doc /\ CommittedVersion(d) = 0 /\ local[t].version = 1 /\ request[t] \in Request
  <2>1. d \in Doc /\ CommittedVersion(d) = 0 /\ local[t].version = 0 + 1 /\ request[t] \in Request
    BY <1>1 DEF CommitDone
  <2> QED
    BY <2>1
<1>3. \A e \in Doc : EventsOf(e)' = EventsOf(e)
  BY DEF EventsOf
<1>4. /\ phase'[t] = "replied" /\ request' = request
      /\ \A u \in Tx \ {t} : phase'[u] = phase[u]
      /\ phase[t] # "replied"
  BY DEF Finishes, LInv, ShapeOK
<1>5. ASSUME NEW e \in Doc \ {d}
      PROVE  FirstVersion(e)' = FirstVersion(e) /\ CommittedVersion(e)' = CommittedVersion(e)
  <2>1. CommittedVersion(e)' = CommittedVersion(e)
    BY <1>1, CommitVersions
  <2>2. request[t] # [op |-> "create", doc |-> e]
    <3>1. [op |-> "create", doc |-> e].doc = e
      OBVIOUS
    <3> QED
      BY <1>1, <3>1
  <2>3. Created(e)' <=> Created(e)
    BY <1>4, <2>2 DEF Created
  <2> QED
    BY <2>1, <2>3 DEF FirstVersion
<1>6. FirstVersion(d)' = 1 /\ CommittedVersion(d)' = 1
  <2>1. CommittedVersion(d)' = 1
    BY <1>1, <1>2, CommitVersions
  <2>2. request[t] = [op |-> "create", doc |-> d]
    <3>1. \A q \in [op : {"edit"}, doc : Doc, change : Changes, base : SUBSET Nat] : q.op # "create"
      OBVIOUS
    <3>2. request[t] \in [op : {"create", "read"}, doc : Doc]
      BY <1>2, <3>1 DEF Request
    <3> QED
      BY <1>1, <3>2
  <2>3. Created(d)'
    BY <1>4, <2>2 DEF Created
  <2> QED
    BY <2>1, <2>3 DEF FirstVersion
<1>7. FirstVersion(d) = 0 /\ Cardinality(EventsOf(d)) = 0 /\ EventsOf(d) = {}
  <2>1. CommittedVersion(d) = FirstVersion(d) + Cardinality(EventsOf(d))
    BY <1>2 DEF DInv, EventsOK
  <2>2. PICK n, c : n = FirstVersion(d) /\ c = Cardinality(EventsOf(d))
    OBVIOUS
  <2>3. n \in {0, 1} /\ c \in Nat
    BY <1>2, <2>2, EventsFacts DEF FirstVersion
  <2>4. n = 0 /\ c = 0
    BY <1>2, <2>1, <2>2, <2>3
  <2>5. EventsOf(d) = {}
    <3>1. IsFiniteSet(EventsOf(d))
      BY <1>2, EventsFacts
    <3> QED
      BY <2>2, <2>4, <3>1, FS_EmptySet
  <2> QED
    BY <2>2, <2>4, <2>5
<1>8. ASSUME NEW e \in Doc
      PROVE  /\ sequences'[e] = Cardinality(EventsOf(e)')
             /\ CommittedVersion(e)' = FirstVersion(e)' + Cardinality(EventsOf(e)')
             /\ \A i \in EventsOf(e)' : /\ Events'[i].version = FirstVersion(e)' + 1 + Rank(EventsOf(e)', i)
                                        /\ Events'[i].sequence = 1 + Rank(EventsOf(e)', i)
  <2>1. /\ sequences[e] = Cardinality(EventsOf(e))
        /\ CommittedVersion(e) = FirstVersion(e) + Cardinality(EventsOf(e))
        /\ \A i \in EventsOf(e) : /\ Events[i].version = FirstVersion(e) + 1 + Rank(EventsOf(e), i)
                                  /\ Events[i].sequence = 1 + Rank(EventsOf(e), i)
    BY DEF DInv, EventsOK
  <2>2. CASE e = d
    <3>1. 1 = 1 + 0
      OBVIOUS
    <3> QED
      BY <1>3, <1>6, <1>7, <2>1, <2>2, <3>1
  <2>3. CASE e # d
    BY <1>3, <1>5, <2>1, <2>3
  <2> QED
    BY <2>2, <2>3
<1> QED
  BY <1>8 DEF EventsOK

(* An edit announces the version it makes.                                   *)
LEMMA EditEvents ==
  ASSUME LInv, LInv', DInv, NEW t \in Tx, Finishes(t), CommitDone(t), request[t].op = "edit",
         publish(EditEvent(t)), UNCHANGED delivered
  PROVE  EventsOK'
<1>1. PICK d, n, S : d = request[t].doc /\ n = Len(Events) /\ S = EventsOf(d)
  OBVIOUS
<1>2. PICK event : event = [type |-> "edit", doc |-> d, sequence |-> sequences[d] + 1,
                            version |-> local[t].version]
  OBVIOUS
<1>3. d \in Doc /\ local[t].version = CommittedVersion(d) + 1 /\ CommittedVersion(d) \in Nat
  BY <1>1 DEF CommitDone
<1>4. /\ event \in Event /\ buffer' = Append(buffer, event)
      /\ sequences' = [sequences EXCEPT ![d] = @ + 1]
  BY <1>1, <1>2, PublishFacts DEF Finishes
<1>5. /\ event.doc = d /\ event.version = local[t].version /\ event.sequence = sequences[d] + 1
  BY <1>2
<1>6. Events \in Seq(Event) /\ n \in Nat /\ S \in SUBSET (1..n) /\ IsFiniteSet(S) /\ Cardinality(S) \in Nat
  BY <1>1, <1>3, EventsFacts
<1>7. Events' = Append(Events, event)
  <2>1. buffer \in Seq(Event) /\ delivered \in Seq(Event)
    BY DEF LInv, ShapeOK
  <2>2. delivered \o Append(buffer, event) = Append(delivered \o buffer, event)
    BY <1>4, <2>1
  <2> QED
    BY <1>4, <2>2 DEF Events
<1>8. /\ Len(Events') = n + 1 /\ Events'[n + 1] = event
      /\ \A i \in 1..n : Events'[i] = Events[i]
  BY <1>1, <1>4, <1>6, <1>7, AppendProperties
<1>9. EventsOf(d)' = S \cup {n + 1} /\ n + 1 \notin S
  <2>1. EventsOf(d)' = {i \in 1..(n + 1) : Events'[i].doc = d}
    BY <1>8 DEF EventsOf
  <2>2. S = {i \in 1..n : Events[i].doc = d}
    BY <1>1 DEF EventsOf
  <2>3. \A i : i \in 1..(n + 1) <=> i \in 1..n \/ i = n + 1
    BY <1>6
  <2>4. n + 1 \notin 1..n
    BY <1>6
  <2> QED
    BY <1>5, <1>8, <2>1, <2>2, <2>3, <2>4
<1>10. \A e \in Doc \ {d} : EventsOf(e)' = EventsOf(e)
  <2> TAKE e \in Doc \ {d}
  <2>1. EventsOf(e)' = {i \in 1..(n + 1) : Events'[i].doc = e}
    BY <1>8 DEF EventsOf
  <2>2. EventsOf(e) = {i \in 1..n : Events[i].doc = e}
    BY <1>1 DEF EventsOf
  <2>3. \A i : i \in 1..(n + 1) <=> i \in 1..n \/ i = n + 1
    BY <1>6
  <2> QED
    BY <1>5, <1>8, <2>1, <2>2, <2>3
<1>11. /\ \A e \in Doc : FirstVersion(e)' = FirstVersion(e)
       /\ \A e \in Doc \ {d} : CommittedVersion(e)' = CommittedVersion(e)
       /\ CommittedVersion(d)' = CommittedVersion(d) + 1
  <2>1. /\ request' = request /\ \A u \in Tx \ {t} : phase'[u] = phase[u]
    BY DEF Finishes, LInv, ShapeOK
  <2>2. \A e \in Doc : request[t] # [op |-> "create", doc |-> e]
    <3>1. \A e \in Doc : [op |-> "create", doc |-> e].op = "create"
      OBVIOUS
    <3>2. \A e \in Doc : request[t] = [op |-> "create", doc |-> e] => request[t].op = "create"
      BY <3>1
    <3> QED
      BY <3>2
  <2>3. \A e \in Doc : Created(e)' <=> Created(e)
    BY <2>1, <2>2 DEF Created
  <2>4. \A e \in Doc : CommittedVersion(e)' = IF e = d THEN local[t].version ELSE CommittedVersion(e)
    BY <1>1, CommitVersions
  <2> QED
    BY <1>3, <2>3, <2>4 DEF FirstVersion
<1>12. Cardinality(EventsOf(d)') = Cardinality(S) + 1
  BY <1>6, <1>9, FS_AddElement
<1>13. /\ \A i \in S : Rank(EventsOf(d)', i) = Rank(S, i)
       /\ Rank(EventsOf(d)', n + 1) = Cardinality(S)
  <2>1. ASSUME NEW i \in S
        PROVE  {j \in EventsOf(d)' : j < i} = {j \in S : j < i}
    <3>1. ~(n + 1 < i)
      BY <1>6
    <3> QED
      BY <1>9, <3>1
  <2>2. {j \in EventsOf(d)' : j < n + 1} = S
    <3>1. \A j \in S : j < n + 1
      BY <1>6
    <3>2. ~(n + 1 < n + 1)
      BY <1>6
    <3> QED
      BY <1>9, <3>1, <3>2
  <2> QED
    BY <2>1, <2>2 DEF Rank
<1>14. /\ sequences[d] = Cardinality(S)
       /\ CommittedVersion(d) = FirstVersion(d) + Cardinality(S)
       /\ \A i \in S : /\ Events[i].version = FirstVersion(d) + 1 + Rank(S, i)
                       /\ Events[i].sequence = 1 + Rank(S, i)
  BY <1>1, <1>3 DEF DInv, EventsOK
<1>15. FirstVersion(d) \in {0, 1}
  BY DEF FirstVersion
<1>16. ASSUME NEW e \in Doc
      PROVE  /\ sequences'[e] = Cardinality(EventsOf(e)')
             /\ CommittedVersion(e)' = FirstVersion(e)' + Cardinality(EventsOf(e)')
             /\ \A i \in EventsOf(e)' : /\ Events'[i].version = FirstVersion(e)' + 1 + Rank(EventsOf(e)', i)
                                        /\ Events'[i].sequence = 1 + Rank(EventsOf(e)', i)
  <2>1. CASE e = d
    <3>1. sequences'[d] = sequences[d] + 1
      BY <1>3, <1>4 DEF LInv, ShapeOK
    <3>2. PICK f, c : f = FirstVersion(d) /\ c = Cardinality(S)
      OBVIOUS
    <3>3. f \in {0, 1} /\ c \in Nat /\ FirstVersion(d)' = f
      BY <1>3, <1>6, <1>11, <1>15, <3>2
    <3>4. sequences'[d] = Cardinality(EventsOf(d)')
      BY <1>12, <1>14, <3>1
    <3>5. CommittedVersion(d)' = f + Cardinality(EventsOf(d)')
      <4>1. f + c + 1 = f + (c + 1)
        BY <3>3
      <4> QED
        BY <1>11, <1>12, <1>14, <3>2, <4>1
    <3>6. ASSUME NEW i \in EventsOf(d)'
          PROVE  /\ Events'[i].version = f + 1 + Rank(EventsOf(d)', i)
                 /\ Events'[i].sequence = 1 + Rank(EventsOf(d)', i)
      <4>1. CASE i \in S
        BY <1>6, <1>8, <1>13, <1>14, <3>2, <4>1
      <4>2. CASE i = n + 1
        <5>1. f + c + 1 = f + 1 + c /\ c + 1 = 1 + c
          BY <3>3
        <5> QED
          BY <1>3, <1>5, <1>8, <1>13, <1>14, <3>2, <4>2, <5>1
      <4> QED
        BY <1>9, <4>1, <4>2
    <3> QED
      BY <2>1, <3>3, <3>4, <3>5, <3>6
  <2>2. CASE e # d
    <3>1. /\ sequences[e] = Cardinality(EventsOf(e))
          /\ CommittedVersion(e) = FirstVersion(e) + Cardinality(EventsOf(e))
          /\ \A i \in EventsOf(e) : /\ Events[i].version = FirstVersion(e) + 1 + Rank(EventsOf(e), i)
                                    /\ Events[i].sequence = 1 + Rank(EventsOf(e), i)
      BY DEF DInv, EventsOK
    <3>2. sequences'[e] = sequences[e]
      BY <1>4, <2>2 DEF LInv, ShapeOK
    <3>3. \A i \in EventsOf(e) : Events'[i] = Events[i]
      BY <1>1, <1>8, EventsFacts
    <3> QED
      BY <1>10, <1>11, <2>2, <3>1, <3>2, <3>3
  <2> QED
    BY <2>1, <2>2
<1> QED
  BY <1>16 DEF EventsOK

(* The end of createDocument.                                                *)
LEMMA FinishCreateD ==
  ASSUME LInv, LInv', DInv, NEW t \in Tx, finishCreate(t)
  PROVE  DInv'
<1>1. Finishes(t) /\ request[t].op = "create" /\ Events' = Events /\ sequences' = sequences
  BY DEF finishCreate, Finishes, Replies, eventVars, queueVars, Events
<1>2. CommitDone(t)
  BY <1>1, CommitFacts
<1>3. EventsOK'
  BY <1>1, <1>2, CreateEvents
<1> QED
  BY <1>1, <1>2, <1>3, CommitD

(* The end of executeEdit.                                                   *)
LEMMA FinishEditD ==
  ASSUME LInv, LInv', DInv, NEW t \in Tx, finishEdit(t)
  PROVE  DInv'
<1>1. Finishes(t) /\ request[t].op = "edit" /\ publish(EditEvent(t)) /\ UNCHANGED delivered
  BY DEF finishEdit, Finishes, Replies
<1>2. CommitDone(t)
  BY <1>1, CommitFacts
<1>3. EventsOK'
  BY <1>1, <1>2, EditEvents
<1> QED
  BY <1>1, <1>2, <1>3, CommitD

(* All steps together.                                                       *)
LEMMA DInvStep ==
  ASSUME LInv, LInv', DInv, [Next]_vars
  PROVE  DInv'
<1>1. ASSUME NEW t \in Tx, NEW d \in Doc, createDocument(t, d) \/ executeEdit(t, d) \/ readDocument(t, d)
      PROVE  DInv'
  BY <1>1, CreateD, ExecuteEditD, ReadDocumentD
<1>2. ASSUME NEW t \in Tx, Turn(t)
      PROVE  DInv'
  BY <1>2, LockNextD, GrowD, StartWritingD, WriteD, FinishCreateD, FinishEditD, FailPublishD,
     FailD, ReadPageD DEF Turn
<1>3. ASSUME NEW t \in Tx, NEW p \in Resource, lockTimeout(t, p)
      PROVE  DInv'
  BY <1>3, LockTimeoutD
<1>4. CASE broadcast
  BY <1>4, BroadcastD
<1>5. CASE UNCHANGED vars
  <2>1. UNCHANGED docVars /\ Events' = Events /\ sequences' = sequences
    BY <1>5 DEF vars, eventVars, queueVars, Events
  <2> QED
    BY <2>1, AloneD
<1> QED
  BY <1>1, <1>2, <1>3, <1>4, <1>5 DEF Next

(* DInv holds at the start.                                                  *)
LEMMA DInvInit == Init => DInv
<1> SUFFICES ASSUME Init PROVE DInv
  OBVIOUS
<1>1. /\ \A d \in Doc : directory[d] = << >> /\ ~hasDocument(d) /\ CommittedVersion(d) = 0
      /\ \A p \in Resource : page[p] = Blank
      /\ \A t \in Tx : phase[t] = "unborn" /\ request[t] = Nobody
      /\ delivered = << >> /\ buffer = << >> /\ \A d \in Doc : sequences[d] = 0
  BY DEF Init, QueueInit, hasDocument, CommittedVersion
<1>2. FreshIsBlank
  BY <1>1 DEF FreshIsBlank
<1>3. VersionZero
  <2>1. \A d \in Doc : ToSet(directory[d]) = {}
    BY <1>1 DEF ToSet
  <2> QED
    BY <2>1 DEF VersionZero, BlankBeyond
<1>4. EventsOK
  <2>1. Events = << >>
    <3>1. << >> \o << >> = << >>
      OBVIOUS
    <3> QED
      BY <1>1, <3>1 DEF Events
  <2>2. ASSUME NEW d \in Doc
        PROVE  EventsOf(d) = {} /\ FirstVersion(d) = 0
    <3>1. EventsOf(d) = {}
      BY <2>1 DEF EventsOf
    <3>2. ~Created(d)
      BY <1>1 DEF Created
    <3> QED
      BY <3>1, <3>2 DEF FirstVersion
  <2>3. Cardinality({}) = 0 /\ 0 = 0 + 0
    BY FS_EmptySet
  <2> QED
    BY <1>1, <2>2, <2>3 DEF EventsOK
<1>5. AnswersAgree /\ EditsBuildOnBase
  BY <1>1 DEF AnswersAgree, EditsBuildOnBase, SameVersion, Answered
<1>6. ASSUME NEW t \in Tx
      PROVE  WorkOK(t) /\ ReadOK(t) /\ ReplyOK(t) /\ StaleOK(t)
  BY <1>1 DEF WorkOK, Working, ReadOK, ReplyOK, StaleOK, Active
<1> QED
  BY <1>2, <1>3, <1>4, <1>5, <1>6 DEF DInv

(* LInv and DInv always hold.                                                *)
LEMMA AlwaysDInv == Spec => [](LInv /\ DInv)
<1>1. Init => LInv /\ DInv
  BY LInvInit, DInvInit
<1>2. LInv /\ DInv /\ [Next]_vars => LInv' /\ DInv'
  BY LInvStep, DInvStep
<1> QED
  BY <1>1, <1>2, PTL DEF Spec

(* AnswersAgree: an answer is what its pages held when its version was the   *)
(* committed one, whoever read or wrote it.                                  *)
THEOREM AnswersAlwaysAgree == Spec => []AnswersAgree
<1>1. LInv /\ DInv => AnswersAgree
  BY DEF DInv
<1> QED
  BY <1>1, AlwaysDInv, PTL

(* EditsBuildOnBase: an edit that carries a version is applied to the text   *)
(* that was answered with that version.                                      *)
THEOREM EditsAlwaysBuildOnBase == Spec => []EditsBuildOnBase
<1>1. LInv /\ DInv => EditsBuildOnBase
  BY DEF DInv
<1> QED
  BY <1>1, AlwaysDInv, PTL

(* The k-th announcement of a document is the one that has k - 1 before it.  *)
LEMMA AnnouncedInOrder ==
  ASSUME LInv, DInv
  PROVE  EveryVersionIsAnnounced
<1> SUFFICES ASSUME NEW d \in Doc
             PROVE  /\ CommittedVersion(d) = FirstVersion(d) + Len(Announced(d))
                    /\ \A i \in 1..Len(Announced(d)) :
                         Announced(d)[i].version = FirstVersion(d) + i /\ Announced(d)[i].sequence = i
  BY DEF EveryVersionIsAnnounced, FirstVersion
<1>1. PICK S, a, f : S = EventsOf(d) /\ a = Announced(d) /\ f = FirstVersion(d)
  OBVIOUS
<1>2. /\ Events \in Seq(Event) /\ S \in SUBSET (1..Len(Events)) /\ IsFiniteSet(S) /\ Cardinality(S) \in Nat
      /\ \A i \in S : i \in Int
  <2>1. Len(Events) \in Nat /\ S \in SUBSET (1..Len(Events))
    BY <1>1, EventsFacts
  <2> QED
    BY <1>1, <2>1, EventsFacts
<1>3. a = ElementsAt(Events, S)
  BY <1>1 DEF Announced, EventsOf
<1>4. /\ Len(a) = Cardinality(S) /\ Ascending(S) \in [1..Cardinality(S) -> S]
      /\ \A k \in 1..Cardinality(S) : a[k] = Events[Ascending(S)[k]]
  BY <1>2, <1>3, ElementsAtFacts
<1>5. \A k \in 1..Cardinality(S) : Rank(S, Ascending(S)[k]) = k - 1
  BY <1>2, AscendingRank
<1>6. /\ CommittedVersion(d) = f + Cardinality(S)
      /\ \A i \in S : /\ Events[i].version = f + 1 + Rank(S, i)
                      /\ Events[i].sequence = 1 + Rank(S, i)
  BY <1>1 DEF DInv, EventsOK
<1>7. f \in {0, 1}
  BY <1>1 DEF FirstVersion
<1>8. ASSUME NEW k \in 1..Cardinality(S)
      PROVE  a[k].version = f + k /\ a[k].sequence = k
  <2>1. PICK i \in S : i = Ascending(S)[k]
    BY <1>4
  <2>2. a[k] = Events[i] /\ Rank(S, i) = k - 1
    BY <1>4, <1>5, <2>1
  <2>3. f + 1 + (k - 1) = f + k /\ 1 + (k - 1) = k
    BY <1>2, <1>7
  <2> QED
    BY <1>6, <2>2, <2>3
<1> QED
  BY <1>1, <1>4, <1>6, <1>8

(* EveryVersionIsAnnounced: each version an edit makes is published once, in *)
(* order, and the sequence numbers have no gap.                              *)
THEOREM AnnouncementsAreComplete == Spec => []EveryVersionIsAnnounced
<1>1. LInv /\ DInv => EveryVersionIsAnnounced
  BY AnnouncedInOrder
<1> QED
  BY <1>1, AlwaysDInv, PTL

-----------------------------------------------------------------------------
(* The documents as their editors see them, ...                              *)
Texts    == [d \in Doc |-> CommittedText(d)]

(* ... and in which version.                                                 *)
Versions == [d \in Doc |-> CommittedVersion(d)]

(* applyOperation is the same one in the abstract specification.             *)
LEMMA SameApply ==
  \A x, op : Shared!applyOperation(x, op) = applyOperation(x, op)
  BY DEF applyOperation, Shared!applyOperation

(* A step that commits nothing changes neither.                              *)
LEMMA QuietTexts ==
  ASSUME LInv, LInv', CommittedPage' = CommittedPage, Extends, NewBlank
  PROVE  Texts' = Texts /\ Versions' = Versions
<1>1. ASSUME NEW d \in Doc
      PROVE  CommittedText(d)' = CommittedText(d) /\ CommittedVersion(d)' = CommittedVersion(d)
  <2>1. CommittedVersion(d)' = CommittedVersion(d)
    BY QuietVersion
  <2>2. /\ directory[d] \in Seq(Resource) /\ directory'[d] \in Seq(Resource)
        /\ Ascends(directory[d]) /\ Ascends(directory'[d])
        /\ ToSet(directory[d]) \subseteq ToSet(directory'[d])
    BY DEF LInv, DirectoryOK, Extends
  <2>3. \A p \in ToSet(directory'[d]) \ ToSet(directory[d]) : CommittedPage[p].chunk = << >>
    BY DEF NewBlank, Blank
  <2>4. TextOn(CommittedPage, directory[d]) = TextOn(CommittedPage, directory'[d])
    BY <2>2, <2>3, CommittedType, TextOnSparse
  <2> QED
    BY <2>1, <2>4 DEF CommittedText
<1> QED
  BY <1>1 DEF Texts, Versions

(* The one that commits creates or edits one document.                       *)
LEMMA CommitTexts ==
  ASSUME LInv, LInv', DInv, Versioned, NEW t \in Tx, Finishes(t), CommitDone(t)
  PROVE  Shared!SharedNext
<1>1. PICK l, d, v : l = local[t] /\ d = request[t].doc /\ v = CommittedVersion(d)
  OBVIOUS
<1>2. /\ l \in Local /\ Ascends(l.pages) /\ ToSet(l.pages) \subseteq ToSet(directory[d])
      /\ request[t] \in Request /\ d \in Doc /\ request[t].op \in {"create", "edit"}
      /\ l.version = v + 1 /\ v \in Nat
      /\ request[t].op = "create" => v = 0 /\ l.text = << >>
      /\ request[t].op = "edit" =>
           l.text = applyOperation(TextOn(CommittedPage, l.pages), OperationOf(t, request[t].change))
      /\ CommittedPage \in Pictures /\ CommittedPage' \in Pictures
      /\ TextOn(CommittedPage', l.pages) = l.text
      /\ \A p \in Resource : p \notin ToSet(l.pages) => CommittedPage'[p] = CommittedPage[p]
  BY <1>1 DEF CommitDone
<1>3. directory' = directory
  BY DEF Finishes
<1>4. /\ \A e \in Doc : directory[e] \in Seq(Resource) /\ Ascends(directory[e])
      /\ \A p \in ToSet(directory[d]) : p \in Resource
  <2>1. \A e \in Doc : directory[e] \in Seq(Resource) /\ Ascends(directory[e])
    BY DEF LInv, DirectoryOK
  <2> QED
    BY <1>2, <2>1, ElementOfSeq DEF ToSet
<1>5. l.pages \in Seq(Resource)
  BY <1>2 DEF Local
<1>6. \A e \in Doc : e # d => CommittedText(e)' = CommittedText(e)
  BY <1>1, <1>3, <1>4, CommitElsewhere DEF CommittedText
<1>7. \A e \in Doc : CommittedVersion(e)' = IF e = d THEN v + 1 ELSE CommittedVersion(e)
  BY <1>1, <1>2, CommitVersions
<1>8. BlankBeyond(d, l.pages)
  <2>1. phase[t] \in Active \ {"reading"}
    BY DEF Finishes, Active
  <2>2. request[t].op = "edit" => request[t].base = {v}
    BY <1>1, CommitSelf
  <2> QED
    BY <1>1, <1>2, <2>1, <2>2 DEF DInv, StaleOK
<1>9. CommittedText(d)' = l.text
  <2>1. \A p \in ToSet(directory[d]) \ ToSet(l.pages) : CommittedPage'[p].chunk = << >>
    BY <1>2, <1>4, <1>8 DEF BlankBeyond
  <2>2. TextOn(CommittedPage', l.pages) = TextOn(CommittedPage', directory[d])
    BY <1>2, <1>4, <1>5, <2>1, TextOnSparse
  <2> QED
    BY <1>2, <1>3, <2>2 DEF CommittedText
<1>10. CommittedText(d) = TextOn(CommittedPage, l.pages)
  BY <1>2, <1>4, <1>5, <1>8, TextOnSparse DEF BlankBeyond, CommittedText
<1>11. Versions' = [Versions EXCEPT ![d] = v + 1]
  BY <1>7 DEF Versions
<1>12. Texts' = [Texts EXCEPT ![d] = l.text]
  BY <1>6, <1>9 DEF Texts
<1>13. Texts[d] = CommittedText(d) /\ Versions[d] = v
  BY <1>1, <1>2 DEF Texts, Versions
<1>14. CASE request[t].op = "create"
  <2>1. v = 0 /\ l.text = << >> /\ v + 1 = 1
    BY <1>2, <1>14
  <2>2. BlankBeyond(d, << >>)
    BY <1>1, <1>2, <2>1 DEF DInv, VersionZero
  <2>3. CommittedText(d) = << >>
    <3>1. PICK z : z = << >>
      OBVIOUS
    <3>2. z \in Seq(Resource) /\ Len(z) = 0 /\ Ascends(z) /\ ToSet(z) = {}
      BY <3>1 DEF Ascends, ToSet
    <3>3. TextOn(CommittedPage, z) = CommittedText(d)
      BY <1>2, <1>4, <2>2, <3>1, <3>2, TextOnSparse DEF BlankBeyond, CommittedText
    <3>4. TextOn(CommittedPage, z) = << >>
      <4>1. SubSeq(z, 1, 0) = z
        BY <3>1
      <4> QED
        BY <3>2, <4>1, NoText
    <3> QED
      BY <3>3, <3>4
  <2>4. Texts' = Texts
    BY <1>2, <1>12, <1>13, <2>1, <2>3 DEF Texts
  <2>5. Versions[d] = 0 /\ Versions' = [Versions EXCEPT ![d] = 1]
    BY <1>11, <1>13, <2>1
  <2>6. Shared!Create(d)
    BY <2>4, <2>5 DEF Shared!Create, Texts, Versions
  <2> QED
    BY <1>2, <2>6 DEF Shared!SharedNext
<1>15. CASE request[t].op = "edit"
  <2>1. request[t].change \in Changes
    BY <1>2, <1>15 DEF Request
  <2>2. PICK op : op = OperationOf(t, request[t].change)
    OBVIOUS
  <2>3. Texts' = [Texts EXCEPT ![d] = Shared!applyOperation(Texts[d], op)]
    BY <1>2, <1>10, <1>12, <1>13, <1>15, <2>2, SameApply
  <2>4. Versions' = [Versions EXCEPT ![d] = Versions[d] + 1]
    BY <1>11, <1>13
  <2>5. Shared!Edit(d, op)
    BY <2>3, <2>4 DEF Shared!Edit, Texts, Versions
  <2> QED
    BY <1>2, <2>1, <2>2, <2>5 DEF Shared!SharedNext
<1> QED
  BY <1>2, <1>14, <1>15

(* A step that commits nothing.                                              *)
Quiet == CommittedPage' = CommittedPage /\ Extends /\ NewBlank

(* Such as one that allocates a page, ...                                    *)
LEMMA AllocatingIsQuiet ==
  ASSUME LInv, DInv, NEW d \in Doc, allocatePage(d), page' = page, undoLog' = undoLog
  PROVE  Quiet
<1>1. DirectoryOK
  BY DEF LInv
<1> QED
  BY <1>1, AllocateStep, AllocateBlank, CommittedStays DEF Quiet

(* ... and one that leaves the directory and what is committed.              *)
LEMMA StayingIsQuiet ==
  ASSUME LInv, directory' = directory, CommittedPage' = CommittedPage
  PROVE  Quiet
  BY SameDirectory DEF LInv, Quiet, NewBlank

(* Every step but the end of a create and of an edit.                        *)
LEMMA QuietSteps ==
  ASSUME LInv, LInv', DInv,
         \/ \E t \in Tx, d \in Doc : createDocument(t, d) \/ executeEdit(t, d) \/ readDocument(t, d)
         \/ \E t \in Tx : \/ lockNextPage(t) \/ grow(t) \/ startWriting(t) \/ write(t)
                          \/ failPublish(t) \/ fail(t) \/ readPage(t)
         \/ \E t \in Tx, p \in Resource : lockTimeout(t, p)
         \/ broadcast
         \/ UNCHANGED vars
  PROVE  Quiet
<1>1. ASSUME NEW t \in Tx, NEW d \in Doc, createDocument(t, d)
      PROVE  Quiet
  BY <1>1, AllocatingIsQuiet DEF createDocument
<1>2. ASSUME directory' = directory, page' = page, undoLog' = undoLog
      PROVE  Quiet
  BY <1>2, CommittedStays, StayingIsQuiet
<1>3. ASSUME NEW t \in Tx, NEW d \in Doc, executeEdit(t, d) \/ readDocument(t, d)
      PROVE  Quiet
  BY <1>2, <1>3 DEF executeEdit, readDocument, Opens
<1>4. ASSUME NEW t \in Tx, lockNextPage(t) \/ startWriting(t)
      PROVE  Quiet
  BY <1>2, <1>4 DEF lockNextPage, startWriting
<1>5. ASSUME NEW t \in Tx, grow(t)
      PROVE  Quiet
  <2>1. request[t].doc \in Doc
    BY <1>5, PlannedFacts DEF grow
  <2> QED
    BY <1>5, <2>1, AllocatingIsQuiet DEF grow
<1>6. ASSUME NEW t \in Tx, write(t)
      PROVE  Quiet
  <2>1. directory' = directory
    BY <1>6 DEF write
  <2> QED
    BY <1>6, <2>1, CommittedAfterWrite, StayingIsQuiet
<1>7. ASSUME NEW t \in Tx, fail(t) \/ failPublish(t)
      PROVE  Quiet
  <2>1. directory' = directory /\ Fails(t)
    BY <1>7 DEF fail, failPublish
  <2> QED
    BY <2>1, CommittedAfterFail, StayingIsQuiet
<1>8. ASSUME NEW t \in Tx, readPage(t)
      PROVE  Quiet
  <2>1. /\ directory' = directory /\ page' = page /\ phase[t] = "reading"
        /\ undoLog' = undoLog \/ undoLog' = [undoLog EXCEPT ![t] = Empty]
    BY <1>8 DEF readPage, Replies, Granted
  <2>2. DOMAIN undoLog[t] = {}
    BY <2>1 DEF LInv, UndoOK, Done
  <2>3. CommittedPage' = CommittedPage
    BY <2>1, <2>2, CommittedLeft, CommittedStays
  <2> QED
    BY <2>1, <2>3, StayingIsQuiet
<1>9. ASSUME NEW t \in Tx, NEW p \in Resource, lockTimeout(t, p)
      PROVE  Quiet
  BY <1>2, <1>9 DEF lockTimeout, docVars
<1>10. CASE broadcast
  BY <1>2, <1>10 DEF broadcast, docVars
<1>11. CASE UNCHANGED vars
  BY <1>2, <1>11 DEF vars, docVars
<1> QED
  BY <1>1, <1>3, <1>4, <1>5, <1>6, <1>7, <1>8, <1>9, <1>10, <1>11

(* Every step is one of SharedDocument, or none.                             *)
LEMMA SharedSteps ==
  ASSUME LInv, LInv', DInv, Versioned, [Next]_vars
  PROVE  [Shared!SharedNext]_<<Texts, Versions>>
<1>1. ASSUME NEW t \in Tx, finishCreate(t) \/ finishEdit(t)
      PROVE  Shared!SharedNext
  <2>1. Finishes(t)
    BY <1>1 DEF finishCreate, finishEdit, Finishes, Replies
  <2> QED
    BY <2>1, CommitFacts, CommitTexts
<1>2. CASE ~ \E t \in Tx : finishCreate(t) \/ finishEdit(t)
  <2>1. Quiet
    BY <1>2, QuietSteps DEF Next, Turn
  <2> QED
    BY <2>1, QuietTexts DEF Quiet
<1> QED
  BY <1>1, <1>2

(* The documents start empty.                                                *)
LEMMA SharedStart ==
  ASSUME Init
  PROVE  Shared!SharedInit
<1>1. LInv
  BY LInvInit
<1>2. \A d \in Doc : directory[d] = << >> /\ CommittedVersion(d) = 0
  BY DEF Init, hasDocument, CommittedVersion
<1>3. ASSUME NEW d \in Doc
      PROVE  CommittedText(d) = << >>
  <2>1. PICK z : z = directory[d]
    OBVIOUS
  <2>2. z = << >> /\ z \in Seq(Resource)
    <3>1. z = << >>
      BY <1>2, <2>1
    <3>2. << >> \in Seq(Resource)
      OBVIOUS
    <3> QED
      BY <3>1, <3>2
  <2>3. SubSeq(z, 1, 0) = z
    BY <2>2
  <2>4. TextOn(CommittedPage, z) = << >>
    BY <1>1, <2>2, <2>3, NoText
  <2> QED
    BY <2>1, <2>4 DEF CommittedText
<1> QED
  BY <1>2, <1>3 DEF Shared!SharedInit

(* ImplementsSharedDocument: no update is lost.  Edits carry their version:  *)
(* without it an edit may be made from a page list that misses the end of    *)
(* the text.                                                                 *)
THEOREM EditsAreShared ==
  ASSUME Versioned
  PROVE  Spec => ImplementsSharedDocument
<1>1. Init => Shared!SharedInit
  BY SharedStart
<1>2. LInv /\ LInv' /\ DInv /\ [Next]_vars => [Shared!SharedNext]_<<Texts, Versions>>
  BY SharedSteps
<1>3. LInv /\ LInv' /\ DInv /\ [Next]_vars
        => [Shared!SharedNext]_<<[d \in Doc |-> CommittedText(d)], [d \in Doc |-> CommittedVersion(d)]>>
  BY <1>2 DEF Texts, Versions
<1> QED
  BY <1>1, <1>3, AlwaysDInv, PTL DEF Spec, ImplementsSharedDocument, Shared!SharedSpec
=============================================================================
