--------------------------- MODULE DetectorProofs ---------------------------
(***************************************************************************)
(* Proofs about module DeadlockDetector, for every finite set of           *)
(* transactions and of pages: the sweep keeps the lock table correct, its  *)
(* victims are deadlocked, and it leaves no cycle.                         *)
(***************************************************************************)
EXTENDS DeadlockDetector, LockManagerProofs

(* Reaching is reflexive and transitive, contains the edges, and what t      *)
(* reaches apart from itself it reaches from the end of an edge of its own.  *)
LEMMA ReachRefl ==
  ASSUME NEW edges, NEW t \in Tx
  PROVE  t \in Reach(edges, t)
BY DEF Reach

LEMMA ReachEdge ==
  ASSUME NEW edges \in SUBSET (Tx \X Tx), NEW t \in Tx, NEW u \in Tx, <<t, u>> \in edges
  PROVE  u \in Reach(edges, t)
BY DEF Reach

LEMMA ReachTrans ==
  ASSUME NEW edges, NEW t, NEW u, NEW v,
         u \in Reach(edges, t), v \in Reach(edges, u)
  PROVE  v \in Reach(edges, t)
BY DEF Reach

LEMMA ReachFirst ==
  ASSUME NEW edges \in SUBSET (Tx \X Tx), NEW t \in Tx, NEW u \in Reach(edges, t), u # t
  PROVE  \E v \in Tx : <<t, v>> \in edges /\ u \in Reach(edges, v)
<1> DEFINE D == {t} \cup {w \in Tx : \E v \in Tx : <<t, v>> \in edges /\ w \in Reach(edges, v)}
<1>1. D \in SUBSET Tx /\ t \in D
  OBVIOUS
<1>2. ASSUME NEW e \in edges, e[1] \in D
      PROVE  e[2] \in D
  <2>1. e = <<e[1], e[2]>> /\ e[1] \in Tx /\ e[2] \in Tx
    OBVIOUS
  <2>2. CASE e[1] = t
    BY <2>1, <2>2, ReachRefl
  <2>3. CASE e[1] # t
    <3>1. PICK v \in Tx : <<t, v>> \in edges /\ e[1] \in Reach(edges, v)
      BY <1>2, <2>3
    <3>2. e[2] \in Reach(edges, e[1])
      BY <2>1, ReachEdge
    <3>3. e[2] \in Reach(edges, v)
      BY <3>1, <3>2, ReachTrans
    <3> QED
      BY <2>1, <3>1, <3>3
  <2> QED
    BY <2>2, <2>3
<1> HIDE DEF D
<1>3. u \in D
  BY <1>1, <1>2 DEF Reach
<1> QED
  BY <1>3 DEF D

-----------------------------------------------------------------------------
(* A cycle: its members reach one another, each by an edge to another one,   *)
(* and nobody else does.                                                     *)
LEMMA CycleFacts ==
  ASSUME NEW edges \in SUBSET (Tx \X Tx), NEW c \in findCycles(edges)
  PROVE  /\ c \in SUBSET Tx /\ c # {}
         /\ \A t \in c : \E u \in c : <<t, u>> \in edges
         /\ \A t \in c, u \in Tx : u \in c <=> u \in Reach(edges, t) /\ t \in Reach(edges, u)
<1> DEFINE Component(t) == {u \in Reach(edges, t) : t \in Reach(edges, u)}
<1>1. PICK s \in Tx : c = Component(s) /\ Cardinality(c) > 1
  BY DEF findCycles
<1>2. c \in SUBSET Tx /\ s \in c
  BY <1>1, ReachRefl DEF Reach
<1>3. ASSUME NEW t \in c, NEW u \in Tx
      PROVE  u \in c <=> u \in Reach(edges, t) /\ t \in Reach(edges, u)
  <2>1. t \in Reach(edges, s) /\ s \in Reach(edges, t)
    BY <1>1
  <2>2. u \in c <=> u \in Reach(edges, s) /\ s \in Reach(edges, u)
    BY <1>1
  <2> QED
    BY <2>1, <2>2, ReachTrans
<1> HIDE DEF Component
<1>4. ASSUME NEW t \in c
      PROVE  \E u \in c : <<t, u>> \in edges
  <2>1. PICK u \in c : u # t
    <3> SUFFICES ASSUME \A u \in c : u = t
                 PROVE  FALSE
      OBVIOUS
    <3>1. c = {t}
      OBVIOUS
    <3>2. Cardinality(c) = 1
      BY <3>1, FS_Singleton
    <3> QED
      BY <1>1, <3>2
  <2>2. u \in Reach(edges, t) /\ t \in Reach(edges, u) /\ t \in Tx
    BY <1>2, <1>3
  <2>3. PICK v \in Tx : <<t, v>> \in edges /\ u \in Reach(edges, v)
    BY <2>1, <2>2, ReachFirst
  <2>4. v \in Reach(edges, t)
    BY <2>2, <2>3, ReachEdge
  <2>5. t \in Reach(edges, v)
    BY <2>2, <2>3, ReachTrans
  <2> QED
    BY <1>3, <2>3, <2>4, <2>5
<1> QED
  BY <1>2, <1>3, <1>4

(* If everybody in a set has an edge to another one in the set, there is a   *)
(* cycle: that of a member that reaches the fewest.                          *)
LEMMA CycleExists ==
  ASSUME NEW edges \in SUBSET (Tx \X Tx), \A e \in edges : e[1] # e[2],
         NEW D \in SUBSET Tx, D # {}, \A t \in D : \E u \in D : <<t, u>> \in edges
  PROVE  findCycles(edges) # {}
<1> DEFINE G == [t \in D |-> Reach(edges, t) \cap D]
<1>1. IsFiniteSet(D)
  BY SweepAssumption, FS_Subset
<1>2. PICK t \in D : \A u \in D : G[u] \subseteq G[t] => G[u] = G[t]
  <2>1. G \in [D -> SUBSET D]
    OBVIOUS
  <2> HIDE DEF G
  <2> QED
    BY <1>1, <2>1, MinimalImage
<1>3. PICK u \in D : <<t, u>> \in edges
  OBVIOUS
<1>4. u \in Reach(edges, t) /\ u # t
  BY <1>3, ReachEdge
<1>5. t \in Reach(edges, u)
  <2>1. G[u] \subseteq G[t]
    BY <1>4, ReachTrans
  <2>2. t \in G[t]
    BY ReachRefl
  <2> QED
    BY <1>2, <2>1, <2>2
<1> DEFINE c == {w \in Reach(edges, t) : t \in Reach(edges, w)}
<1>6. t \in c /\ u \in c /\ c \in SUBSET Tx
  BY <1>4, <1>5, ReachRefl DEF Reach
<1>7. Cardinality(c) > 1
  <2> HIDE DEF c
  <2>1. IsFiniteSet(c)
    BY <1>6, SweepAssumption, FS_Subset
  <2>2. IsFiniteSet({t, u}) /\ Cardinality({t, u}) = 2
    <3>1. /\ IsFiniteSet({t}) /\ Cardinality({t}) = 1
      BY FS_Singleton
    <3>2. {t, u} = {t} \cup {u} /\ u \notin {t}
      BY <1>4
    <3>3. IsFiniteSet({t} \cup {u}) /\ Cardinality({t} \cup {u}) = 1 + 1
      BY <3>1, <3>2, FS_AddElement
    <3> QED
      BY <3>2, <3>3
  <2>3. Cardinality({t, u}) <= Cardinality(c)
    <3>1. {t, u} \subseteq c
      BY <1>6
    <3> QED
      BY <2>1, <3>1, FS_Subset
  <2>4. Cardinality(c) \in Nat
    BY <2>1, FS_CardinalityType
  <2> QED
    BY <2>2, <2>3, <2>4
<1>8. c \in findCycles(edges)
  BY <1>7 DEF findCycles
<1> QED
  BY <1>8
-----------------------------------------------------------------------------
(* The victim of a cycle is one of its members. *)
LEMMA LockCountType ==
  ASSUME NEW lt, NEW t
  PROVE  LockCount(lt, t) \in Nat
<1>1. IsFiniteSet({r \in Resource : lt[r].holders[t] # "none"})
  BY SweepAssumption, FS_Subset
<1> QED
  BY <1>1, FS_CardinalityType DEF LockCount

LEMMA VictimInCycle ==
  ASSUME NEW lt, NEW c \in SUBSET Tx, c # {}
  PROVE  selectVictim(lt, c) \in c
<1> DEFINE count == [t \in c |-> LockCount(lt, t)]
           counts == {count[t] : t \in c}
           least == {t \in c : count[t] = Min(counts)}
<1>1. IsFiniteSet(c)
  BY SweepAssumption, FS_Subset
<1>2. \A t \in c : count[t] \in Nat
  BY LockCountType
<1> HIDE DEF count
<1>3. /\ IsFiniteSet(counts) /\ counts # {}
      /\ \A n \in counts : n \in Int
  <2>1. IsFiniteSet(counts)
    BY <1>1, FiniteImage
  <2> QED
    BY <1>2, <2>1
<1>4. Min(counts) \in counts
  <2> HIDE DEF counts
  <2> QED
    BY <1>3, LeastMember
<1>5. IsFiniteSet(least) /\ least # {} /\ \A t \in least : t \in Int
  <2>1. IsFiniteSet(least)
    BY <1>1, FS_Subset
  <2>2. \A t \in Tx : t \in Int
    BY SweepAssumption
  <2> QED
    BY <1>4, <2>1, <2>2
<1>6. Max(least) \in least
  <2> HIDE DEF least
  <2> QED
    BY <1>5, GreatestMember
<1>7. selectVictim(lt, c) = Max(least)
  BY DEF selectVictim, count
<1> QED
  BY <1>6, <1>7

LEMMA VictimsType == Victims \in SUBSET Tx /\ Victims \subseteq InCycle
<1>1. getWaitForEdges \in SUBSET (Tx \X Tx)
  BY DEF getWaitForEdges
<1>2. \A c \in findCycles(getWaitForEdges) : c \in SUBSET Tx /\ selectVictim(lockTable, c) \in c
  BY <1>1, CycleFacts, VictimInCycle
<1> QED
  BY <1>2 DEF Victims, InCycle

-----------------------------------------------------------------------------
(* The table once everything the transactions N hold and ask for is          *)
(* released, in whatever order FoldSet takes them: it follows on the table   *)
(* there was, and nothing of N is left in it.                                *)
SweptTable(lt, N) == FoldSet(LAMBDA t, l : ReleasedTable(l, t), lt, N)

Swept(new, lt, N) ==
  /\ TableOK(new)
  /\ \A r \in Resource : /\ Follows(new[r], lt[r], N)
                        /\ \A t \in N : ~Queued(new[r], t) /\ new[r].holders[t] = "none"

LEMMA SweptMore ==
  ASSUME NEW lt, TableOK(lt), NEW N \in SUBSET Tx, NEW mid, Swept(mid, lt, N), NEW t \in Tx
  PROVE  Swept(ReleasedTable(mid, t), lt, N \cup {t})
<1> DEFINE new == ReleasedTable(mid, t)
<1>1. /\ TableOK(new) /\ TableOK(mid)
      /\ \A r \in Resource : /\ Follows(new[r], mid[r], {t})
                            /\ ~Queued(new[r], t) /\ new[r].holders[t] = "none"
  BY ReleasedTableFollows DEF Swept
<1> HIDE DEF new
<1>2. ASSUME NEW r \in Resource
      PROVE  Follows(new[r], lt[r], N \cup {t})
  <2>1. lt[r] \in LockInfo /\ mid[r] \in LockInfo /\ new[r] \in LockInfo /\ Sensible(lt[r])
    BY <1>1 DEF TableOK
  <2> QED
    BY <1>1, <2>1, FollowsTrans DEF Swept
<1>3. ASSUME NEW r \in Resource, NEW u \in N
      PROVE  ~Queued(new[r], u) /\ new[r].holders[u] = "none"
  <2>1. mid[r] \in LockInfo /\ new[r] \in LockInfo /\ u \in Tx
    BY <1>1 DEF TableOK
  <2>2. ~Queued(mid[r], u) /\ mid[r].holders[u] = "none"
    BY DEF Swept
  <2>3. ~Queued(new[r], u)
    BY <1>1, <2>1, <2>2, FollowsQueued
  <2>4. \A mode \in {"S", "X"} : ~Asks(mid[r], u, mode)
    BY <2>1, <2>2, QueuedAsks
  <2>5. new[r].holders[u] \in {"none", "S", "X"}
    BY <2>1 DEF LockInfo
  <2> QED
    BY <1>1, <2>1, <2>2, <2>3, <2>4, <2>5 DEF Follows
<1> QED
  BY <1>1, <1>2, <1>3 DEF Swept, new

LEMMA SweptTableFollows ==
  ASSUME NEW lt, TableOK(lt), NEW N \in SUBSET Tx
  PROVE  Swept(SweptTable(lt, N), lt, N)
<1> DEFINE V == {l \in [Resource -> LockInfo] : TableOK(l)}
           pick == [M \in SUBSET N |-> CHOOSE t \in M : TRUE]
           step == [x \in (SUBSET N) \X V |->
                      IF x[1] = {} THEN lt ELSE ReleasedTable(x[2], pick[x[1]])]
           body(f) == [M \in SUBSET N |->
                         IF M = {} THEN lt
                         ELSE LET t == CHOOSE t \in M : TRUE
                              IN  ReleasedTable(f[M \ {t}], t)]
           fold == CHOOSE f : f = body(f)
<1>1. IsFiniteSet(N) /\ lt \in V
  BY SweepAssumption, FS_Subset DEF TableOK
<1>2. \A M \in SUBSET N : M # {} => pick[M] \in M
  OBVIOUS
<1>3. step \in [(SUBSET N) \X V -> V]
  <2> SUFFICES ASSUME NEW M \in SUBSET N, NEW l \in V, M # {}
               PROVE  ReleasedTable(l, pick[M]) \in V
    BY <1>1
  <2>1. pick[M] \in Tx
    BY <1>2
  <2>2. TableOK(ReleasedTable(l, pick[M]))
    BY <2>1, ReleasedTableFollows
  <2> QED
    BY <2>2 DEF TableOK
<1>4. PICK f : SolvesOnSubsets(f, N, V, lt, step, pick)
  <2>1. SubsetStep(step, N, V) /\ Picks(pick, N)
    BY <1>2, <1>3 DEF SubsetStep, Picks
  <2> HIDE DEF V, pick, step
  <2> QED
    BY <1>1, <2>1, SubsetRecursion
<1>5. f = body(f)
  <2>1. ASSUME NEW M \in SUBSET N, M # {}
        PROVE  f[M] = ReleasedTable(f[M \ {pick[M]}], pick[M])
    <3>1. M \ {pick[M]} \in SUBSET N
      OBVIOUS
    <3>2. f[M \ {pick[M]}] \in V
      BY <1>4, <3>1 DEF SolvesOnSubsets
    <3> HIDE DEF V, pick
    <3> QED
      BY <1>4, <2>1, <3>2 DEF SolvesOnSubsets
  <2>2. f[{}] = lt
    BY <1>4 DEF SolvesOnSubsets
  <2>3. f = [M \in SUBSET N |-> f[M]]
    BY <1>4 DEF SolvesOnSubsets
  <2> QED
    BY <2>1, <2>2, <2>3
<1>6. fold = body(fold)
  BY <1>5
<1>7. SweptTable(lt, N) = fold[N]
  BY DEF SweptTable, FoldSet, MapThenFoldSet
<1> HIDE DEF fold, V, step
<1> DEFINE T == {M \in SUBSET N : Swept(fold[M], lt, M)}
<1>8. {} \in T
  <2>1. fold[{}] = lt
    BY <1>6
  <2> QED
    BY <2>1, FollowsSame DEF Swept
<1>9. ASSUME NEW M \in SUBSET N, M # {}
      PROVE  \E x \in M : M \ {x} \in T => M \in T
  <2> DEFINE t == CHOOSE t \in M : TRUE
  <2>1. t \in M /\ M \ {t} \in SUBSET Tx /\ t \in Tx
    BY <1>9
  <2>2. fold[M] = ReleasedTable(fold[M \ {t}], t)
    BY <1>6, <1>9
  <2> HIDE DEF t
  <2>3. ASSUME Swept(fold[M \ {t}], lt, M \ {t})
        PROVE  Swept(fold[M], lt, M)
    <3>1. Swept(ReleasedTable(fold[M \ {t}], t), lt, (M \ {t}) \cup {t})
      BY <2>1, <2>3, SweptMore
    <3>2. (M \ {t}) \cup {t} = M
      BY <2>1
    <3> QED
      BY <2>2, <3>1, <3>2
  <2> QED
    BY <2>1, <2>3
<1>10. T = SUBSET N
  <2>1. T \in SUBSET SUBSET N
    OBVIOUS
  <2> HIDE DEF T
  <2> QED
    BY <1>1, <1>8, <1>9, <2>1, FiniteSubsetInduction
<1> QED
  BY <1>7, <1>10

-----------------------------------------------------------------------------
(* A sweep keeps the invariant of the lock table, and only lets go. *)
LEMMA DetectStep ==
  ASSUME IInv, Detect
  PROVE  /\ IInv' /\ Drains(Victims)
         /\ \A t \in Victims, r \in Resource : lockTable'[r].holders[t] = "none"
<1>1. lockTable' = SweptTable(lockTable, Victims)
  BY DEF Detect, SweptTable
<1>2. Swept(lockTable', lockTable, Victims)
  BY <1>1, VictimsType, SweptTableFollows DEF IInv
<1>3. promise' = Settle(lockTable', Victims)
  BY DEF Detect
<1>4. \A t \in Tx, r \in Resource : t \in Victims => ~Queued(lockTable'[r], t)
  BY <1>2 DEF Swept
<1>5. TableOK(lockTable') /\ Drains(Victims)
  BY <1>2 DEF Swept, Drains
<1>6. IInv'
  BY <1>3, <1>4, <1>5, SettleStep DEF Drains
<1> QED
  BY <1>2, <1>5, <1>6 DEF Swept

LEMMA DeadlockInv == DeadlockSpec => []IInv
<1>1. LockInit => IInv
  BY LockInitInv
<1>2. IInv /\ [DeadlockNext]_lockVars => IInv'
  BY LockInvStep, DetectStep DEF DeadlockNext
<1> QED
  BY <1>1, <1>2, PTL DEF DeadlockSpec

(* The lock table stays correct under the sweep: types, mutual exclusion, no *)
(* lost wake-up, no orphan promise.                                          *)
THEOREM SweptTableIsCorrect ==
  DeadlockSpec => [](LockTypeOK /\ LockCompatible /\ HeadIsBlocked /\ PendingIffQueued)
<1>1. IInv => LockTypeOK /\ LockCompatible /\ HeadIsBlocked /\ PendingIffQueued
  BY OnePlace DEF IInv, TableOK, Good, LockTypeOK, LockCompatible, HeadIsBlocked, PendingIffQueued
<1> QED
  BY <1>1, DeadlockInv, PTL

(* The sweep lets nobody overtake either: what it frees goes to the requests *)
(* at the front of the queues.                                               *)
THEOREM SweepIsFair == DeadlockSpec => NoOvertaking
<1>1. IInv /\ [DeadlockNext]_lockVars => NoOvertakingStep
  BY FirstServedStep, DetectStep, DrainsNoOvertaking DEF DeadlockNext
<1> QED
  BY <1>1, DeadlockInv, PTL DEF NoOvertaking, DeadlockSpec

-----------------------------------------------------------------------------
(* Each member of a cycle is queued for a page that another member holds. *)
LEMMA CycleWaits ==
  ASSUME NEW c \in findCycles(getWaitForEdges)
  PROVE  /\ c \in SUBSET Tx /\ c # {}
         /\ \A t \in c : \E u \in c : WaitsFor(t, u)
<1>1. getWaitForEdges \in SUBSET (Tx \X Tx)
  BY DEF getWaitForEdges
<1>2. \A t, u \in Tx : <<t, u>> \in getWaitForEdges => WaitsFor(t, u)
  BY DEF getWaitForEdges
<1>3. c \in SUBSET Tx /\ c # {} /\ \A t \in c : \E u \in c : <<t, u>> \in getWaitForEdges
  BY <1>1, CycleFacts
<1> QED
  BY <1>2, <1>3

LEMMA WaitsIsPending ==
  ASSUME IInv, NEW t \in Tx, NEW u, WaitsFor(t, u)
  PROVE  promise[t] = "pending"
BY DEF IInv, WaitsFor, Queued

(* No false victim: a transaction of a detected cycle waits for others that  *)
(* wait, all of them among themselves.                                       *)
THEOREM NoFalseVictim == DeadlockSpec => []CycleIsDeadlock
<1>1. IInv => CycleIsDeadlock
  <2> SUFFICES ASSUME IInv, NEW c \in findCycles(getWaitForEdges), NEW t \in c
               PROVE  t \in Deadlocked
    BY DEF CycleIsDeadlock, InCycle
  <2>1. c \in SUBSET Waiting
    BY CycleWaits, WaitsIsPending DEF Waiting
  <2>2. \A s \in c : \E u \in c : BlockedBy(s, u)
    BY CycleWaits DEF BlockedBy
  <2> QED
    BY <2>1, <2>2 DEF Deadlocked
<1> QED
  BY <1>1, DeadlockInv, PTL

(* No cycle outlives a sweep: of each cycle it found, one transaction is     *)
(* rejected and holds nothing; nobody outside the cycles is rejected.        *)
THEOREM SweepIsEnough == DeadlockSpec => SweepBreaksEveryCycle
<1>1. IInv /\ [DeadlockNext]_lockVars => SweepStep
  <2> SUFFICES ASSUME IInv, Detect
               PROVE  SweepStep
    BY DEF SweepStep
  <2>1. ASSUME NEW c \in findCycles(getWaitForEdges)
        PROVE  \E t \in c : /\ promise'[t] = "rejected"
                            /\ \A r \in Resource : lockTable'[r].holders[t] = "none"
    <3> DEFINE t == selectVictim(lockTable, c)
    <3>1. t \in c /\ t \in Tx /\ t \in Victims
      BY CycleWaits, VictimInCycle DEF Victims
    <3>2. promise[t] = "pending"
      BY <3>1, CycleWaits, WaitsIsPending
    <3>3. promise'[t] = "rejected"
      BY <3>1, <3>2 DEF Detect, Settle
    <3> QED
      BY <3>1, <3>3, DetectStep
  <2>2. \A t \in Tx : promise[t] = "pending" /\ promise'[t] = "rejected" => t \in InCycle
    BY VictimsType DEF Detect, Settle
  <2> QED
    BY <2>1, <2>2 DEF SweepStep
<1> QED
  BY <1>1, DeadlockInv, PTL DEF SweepBreaksEveryCycle, DeadlockSpec

-----------------------------------------------------------------------------
(* While the locks are exclusive, a deadlock always shows: of the members of *)
(* a deadlocked set queued for a page, the first one can only wait for the   *)
(* holder, so the holder is a member, and every other one waits for it too.  *)
LEMMA HolderIsDeadlocked ==
  ASSUME IInv, \A r \in Resource, t \in Tx : lockTable[r].holders[t] # "S",
         NEW D \in SUBSET Waiting, \A t \in D : \E u \in D : BlockedBy(t, u),
         NEW t \in D
  PROVE  \E u \in D : WaitsFor(t, u)
<1>1. t \in Tx /\ promise[t] = "pending" /\ D \in SUBSET Tx
  BY DEF Waiting
<1>2. PICK r \in Resource : Queued(lockTable[r], t)
  BY <1>1 DEF IInv
<1> DEFINE info == lockTable[r]
           q == info.waitQueue
           n == Len(q)
           P == {i \in 1..n : q[i].tx \in D}
<1>3. info \in LockInfo /\ Sensible(info) /\ q \in Seq(LockRequest) /\ n \in Nat
  BY DEF IInv, TableOK, LockInfo
<1>4. Min(P) \in P /\ \A i \in P : Min(P) <= i
  <2>1. P # {} /\ \A i \in P : i \in Int
    BY <1>2 DEF Queued
  <2>2. IsFiniteSet(P)
    <3>1. IsFiniteSet(1..n) /\ P \subseteq 1..n
      BY <1>3, FS_Interval
    <3> HIDE DEF P
    <3> QED
      BY <3>1, FS_Subset
  <2> HIDE DEF P
  <2> QED
    BY <2>1, <2>2, LeastMember
<1> DEFINE i == Min(P)
           s == q[i].tx
<1>5. i \in 1..n /\ s \in D /\ \A j \in 1..n : q[j].tx \in D => i <= j
  BY <1>4
<1> HIDE DEF i, P, n, q, info
<1>6. PICK u \in D : BlockedBy(s, u)
  BY <1>5
<1>7. \A p \in Resource : Queued(lockTable[p], s) => p = r
  <2>1. Queued(lockTable[r], s)
    BY <1>5 DEF Queued, q, n, info
  <2> QED
    BY <1>1, <1>5, <2>1 DEF IInv, TableOK
<1>8. \A j \in 1..n : q[j].tx = s => j = i
  <2>1. ASSUME NEW j \in 1..n, q[j].tx = s
        PROVE  j = i
    <3>1. ~(i < j) /\ ~(j < i)
      BY <1>1, <1>3, <1>5, <2>1 DEF Sensible, Ahead, q, n
    <3> QED
      BY <1>3, <1>5, <3>1
  <2> QED
    BY <2>1
<1>9. WaitsFor(s, u)
  <2> SUFFICES ASSUME NEW p \in Resource, NEW j \in 1..Len(lockTable[p].waitQueue),
                      NEW k \in 1..Len(lockTable[p].waitQueue), k < j,
                      lockTable[p].waitQueue[j].tx = s, lockTable[p].waitQueue[k].tx = u
               PROVE  FALSE
    BY <1>6 DEF BlockedBy
  <2>1. p = r
    BY <1>7 DEF Queued
  <2>2. j = i
    BY <1>8, <2>1 DEF q, n, info
  <2>3. i <= k
    BY <1>5, <2>1 DEF q, n, info
  <2> QED
    BY <1>3, <1>5, <2>2, <2>3
<1>10. info.holders[u] = "X"
  <2>1. PICK p \in Resource : Queued(lockTable[p], s) /\ lockTable[p].holders[u] # "none"
    BY <1>9 DEF WaitsFor, Queued
  <2>2. p = r
    BY <1>7, <2>1
  <2>3. lockTable[r].holders[u] \in {"none", "S", "X"} /\ u \in Tx
    BY <1>1, <1>3 DEF LockInfo, info
  <2> QED
    BY <2>1, <2>2, <2>3 DEF info
<1>11. t # u
  <2>1. PICK mode \in {"S", "X"} : Asks(info, t, mode)
    BY <1>1, <1>2, <1>3, QueuedAsks DEF info
  <2> QED
    BY <1>1, <1>3, <1>10, <2>1 DEF Sensible, AlreadyHolds
<1>12. WaitsFor(t, u)
  BY <1>2, <1>10, <1>11 DEF WaitsFor, Queued, isCompatible, info
<1> QED
  BY <1>12

(* As far as it goes, "a cycle is precisely a deadlock" (DeadlockDetector.js *)
(* line 13): some cycle shows whenever transactions are deadlocked and every *)
(* lock held is exclusive.                                                   *)
THEOREM ExclusiveDeadlocksShow == DeadlockSpec => []ExclusiveDeadlockIsCycle
<1>1. IInv => ExclusiveDeadlockIsCycle
  <2> SUFFICES ASSUME IInv, \A r \in Resource, t \in Tx : lockTable[r].holders[t] # "S",
                      Deadlocked # {}
               PROVE  findCycles(getWaitForEdges) # {}
    BY DEF ExclusiveDeadlockIsCycle
  <2>1. PICK D \in SUBSET Waiting : D # {} /\ \A t \in D : \E u \in D : BlockedBy(t, u)
    BY DEF Deadlocked
  <2>2. \A t \in D : \E u \in D : WaitsFor(t, u)
    BY <2>1, HolderIsDeadlocked
  <2>3. D \in SUBSET Tx
    BY DEF Waiting
  <2>4. getWaitForEdges \in SUBSET (Tx \X Tx) /\ \A e \in getWaitForEdges : e[1] # e[2]
    BY DEF getWaitForEdges, WaitsFor
  <2>5. \A t \in D : \E u \in D : <<t, u>> \in getWaitForEdges
    BY <2>2, <2>3 DEF getWaitForEdges
  <2> QED
    BY <2>1, <2>3, <2>4, <2>5, CycleExists
<1> QED
  BY <1>1, DeadlockInv, PTL

-----------------------------------------------------------------------------
(* Releasing transactions outside a cycle leaves its members waiting, with   *)
(* the locks they hold.                                                      *)
CycleStands(c, N) ==
  LET lt == SweptTable(lockTable, N)
  IN  /\ \A t \in c : \E r \in Resource : Queued(lt[r], t)
      /\ \A t \in c, r \in Resource : lt[r].holders[t] = lockTable[r].holders[t]
      /\ selectVictim(lt, c) = selectVictim(lockTable, c)

(* A request that somebody outside N rules out is not granted by a drain. *)
LEMMA StillRuledOut ==
  ASSUME NEW old, Good(old), Sensible(old), NEW new, Good(new), NEW N, Follows(new, old, N),
         NEW t \in Tx, NEW u \in Tx \ N, t # u, NEW mode \in {"S", "X"}, Asks(old, t, mode),
         old.holders[u] # "none", ~isCompatible(mode, old.holders[u])
  PROVE  new.holders[t] # mode
<1> SUFFICES ASSUME new.holders[t] = mode
             PROVE  FALSE
  OBVIOUS
<1>1. new.holders[u] \in {"none", "S", "X"} /\ old.holders[u] \in {"none", "S", "X"}
  BY DEF Good, LockInfo
<1>2. CASE new.holders[u] = old.holders[u]
  BY <1>2 DEF Good, Compatible, isCompatible
<1>3. CASE Asks(old, u, new.holders[u])
  <2>1. new.holders[u] # "none"
    <3>1. \A i \in 1..Len(old.waitQueue) : old.waitQueue[i] \in LockRequest
      BY ElementOfSeq DEF Good, LockInfo
    <3> QED
      BY <1>3, <3>1 DEF Asks, LockRequest
  <2>2. new.holders[u] = "S"
    BY <2>1 DEF Good, Compatible
  <2>3. old.holders[u] \notin {"S", "X"}
    BY <1>3, <2>2 DEF Sensible, AlreadyHolds
  <2> QED
    BY <1>1, <2>3
<1> QED
  BY <1>2, <1>3 DEF Follows

(* The cycles of a sweep do not disturb each other: while the victims of     *)
(* other cycles are released, the members of a cycle go on waiting and hold  *)
(* what they held, so the victim selected before any release is the one the  *)
(* loop of detect() selects when it comes to the cycle.                      *)
SweepIsOrderless ==
  \A c \in findCycles(getWaitForEdges) : \A N \in SUBSET (Tx \ c) : CycleStands(c, N)

(* In every reachable state the order in which the sweep of detect() takes  *)
(* the cycles does not change whom it aborts.                               *)
THEOREM CyclesAreIndependent == DeadlockSpec => []SweepIsOrderless
<1>1. IInv => SweepIsOrderless
  <2> SUFFICES ASSUME IInv, NEW c \in findCycles(getWaitForEdges), NEW N \in SUBSET (Tx \ c)
               PROVE  CycleStands(c, N)
    BY DEF SweepIsOrderless
  <2> DEFINE lt == SweptTable(lockTable, N)
  <2>1. Swept(lt, lockTable, N)
    BY SweptTableFollows DEF IInv
  <2> HIDE DEF lt
  <2>2. \A r \in Resource : /\ Good(lockTable[r]) /\ Sensible(lockTable[r]) /\ lockTable[r] \in LockInfo
                            /\ Good(lt[r]) /\ lt[r] \in LockInfo /\ Follows(lt[r], lockTable[r], N)
    BY <2>1 DEF IInv, TableOK, Swept
  <2>3. c \in SUBSET Tx /\ \A t \in c : \E u \in c : WaitsFor(t, u)
    BY CycleWaits
  <2>4. ASSUME NEW t \in c
        PROVE  \E r \in Resource : Queued(lt[r], t) /\ lt[r].holders[t] = lockTable[r].holders[t]
    <3>1. PICK u \in c : WaitsFor(t, u)
      BY <2>3
    <3>2. PICK r \in Resource : \E i \in 1..Len(lockTable[r].waitQueue) :
            LET q == lockTable[r].waitQueue[i]
            IN  /\ q.tx = t
                /\ lockTable[r].holders[u] # "none"
                /\ ~isCompatible(q.mode, lockTable[r].holders[u])
      BY <3>1 DEF WaitsFor
    <3>3. PICK i \in 1..Len(lockTable[r].waitQueue) :
                 /\ lockTable[r].waitQueue[i].tx = t
                 /\ ~isCompatible(lockTable[r].waitQueue[i].mode, lockTable[r].holders[u])
      BY <3>2
    <3> DEFINE mode == lockTable[r].waitQueue[i].mode
    <3>4. mode \in {"S", "X"} /\ Asks(lockTable[r], t, mode)
      <4>1. lockTable[r].waitQueue[i] \in LockRequest
        BY <2>2, ElementOfSeq DEF LockInfo
      <4>2. lockTable[r].waitQueue[i] = [tx |-> t, mode |-> mode] /\ mode \in {"S", "X"}
        BY <3>3, <4>1 DEF LockRequest
      <4> QED
        BY <4>2 DEF Asks
    <3> HIDE DEF mode
    <3>5. t \in Tx \ N /\ u \in Tx \ N /\ t # u
      BY <2>3, <3>1 DEF WaitsFor
    <3>6. lt[r].holders[t] # mode
      BY <2>2, <3>2, <3>3, <3>4, <3>5, StillRuledOut DEF mode
    <3>7. Asks(lt[r], t, mode)
      BY <2>2, <3>4, <3>5, <3>6 DEF Follows
    <3>8. Queued(lt[r], t)
      BY <2>2, <3>4, <3>5, <3>7, QueuedAsks
    <3>9. lt[r].holders[t] = lockTable[r].holders[t]
      <4>1. ~Ahead(lockTable[r], t, t)
        BY <2>2, <3>5 DEF Sensible
      <4> QED
        BY <2>2, <3>5, <3>8, <4>1 DEF Follows
    <3> QED
      BY <3>8, <3>9
  <2>5. ASSUME NEW t \in c, NEW r \in Resource
        PROVE  lt[r].holders[t] = lockTable[r].holders[t]
    <3>1. PICK p \in Resource : Queued(lt[p], t) /\ lt[p].holders[t] = lockTable[p].holders[t]
      BY <2>4
    <3>2. CASE r = p
      BY <3>1, <3>2
    <3>3. CASE r # p
      <4>1. Queued(lockTable[p], t) /\ t \in Tx \ N
        BY <2>2, <2>3, <3>1, FollowsQueued
      <4>2. ~Queued(lockTable[r], t)
        BY <3>3, <4>1 DEF IInv, TableOK
      <4>3. \A mode \in {"S", "X"} : ~Asks(lockTable[r], t, mode)
        BY <2>2, <4>1, <4>2, QueuedAsks
      <4>4. ~Asks(lockTable[r], t, lt[r].holders[t])
        BY <4>2 DEF Asks, Queued
      <4> QED
        BY <2>2, <4>1, <4>4 DEF Follows
    <3> QED
      BY <3>2, <3>3
  <2>6. selectVictim(lt, c) = selectVictim(lockTable, c)
    <3>1. \A t \in c : LockCount(lt, t) = LockCount(lockTable, t)
      <4> SUFFICES ASSUME NEW t \in c
                   PROVE  {r \in Resource : lt[r].holders[t] # "none"}
                            = {r \in Resource : lockTable[r].holders[t] # "none"}
        BY DEF LockCount
      <4> QED
        BY <2>5
    <3>2. {LockCount(lt, t) : t \in c} = {LockCount(lockTable, t) : t \in c}
      BY <3>1
    <3> DEFINE fewest == Min({LockCount(lockTable, t) : t \in c})
    <3>3. {t \in c : LockCount(lt, t) = fewest} = {t \in c : LockCount(lockTable, t) = fewest}
      BY <3>1
    <3> QED
      BY <3>2, <3>3 DEF selectVictim
  <2> QED
    BY <2>4, <2>5, <2>6 DEF CycleStands, lt
<1> QED
  BY <1>1, DeadlockInv, PTL
=============================================================================
