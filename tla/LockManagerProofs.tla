------------------------- MODULE LockManagerProofs -------------------------
(***************************************************************************)
(* Proofs about module LockManager, for every set of transactions and of   *)
(* pages.                                                                  *)
(***************************************************************************)
EXTENDS LockManager, FiniteInduction, SequenceTheorems

LEMMA MaxInInterval ==
  ASSUME NEW n \in Nat, NEW S \in SUBSET (0..n), S # {}
  PROVE  Max(S) \in S /\ \A y \in S : Max(S) >= y
<1>1. S \in SUBSET Int
  OBVIOUS
<1>2. IsFiniteSet(0..n)
  BY FS_Interval
<1>3. IsFiniteSet(S)
  BY <1>2, FS_Subset
<1> QED
  BY <1>1, <1>3, GreatestMember

-----------------------------------------------------------------------------
(* Granting queued requests leaves a mode, or none, for each transaction. *)
LEMMA HoldersWithType ==
  ASSUME NEW info \in LockInfo, NEW n \in 0..Len(info.waitQueue)
  PROVE  HoldersWith(info, 1..n) \in [Tx -> {"none", "S", "X"}]
<1> SUFFICES ASSUME NEW t \in Tx
             PROVE  HoldersWith(info, 1..n)[t] \in {"none", "S", "X"}
  BY DEF HoldersWith
<1> DEFINE mine == {i \in 1..n : info.waitQueue[i].tx = t}
<1>1. CASE mine = {}
  BY <1>1 DEF HoldersWith, LockInfo
<1>2. CASE mine # {}
  <2>1. Max(mine) \in 1..n
    <3>1. mine \in SUBSET (0..n) /\ n \in Nat
      BY DEF LockInfo
    <3> QED
      BY <1>2, <3>1, MaxInInterval
  <2>2. info.waitQueue[Max(mine)] \in LockRequest
    BY <2>1, ElementOfSeq DEF LockInfo
  <2> QED
    BY <1>2, <2>2 DEF HoldersWith, LockRequest
<1> QED
  BY <1>1, <1>2

(* The drain loop grants the longest prefix of the queue whose requests the *)
(* holders, and the requests granted before each of them, allow.            *)
LEMMA DrainCountFacts ==
  ASSUME NEW info \in LockInfo
  PROVE  /\ DrainCount(info) \in 0..Len(info.waitQueue)
         /\ \A i \in 1..DrainCount(info) : Grantable(info, 1..(i-1), i)
         /\ DrainCount(info) < Len(info.waitQueue)
              => ~Grantable(info, 1..DrainCount(info), DrainCount(info) + 1)
<1> DEFINE n == Len(info.waitQueue)
           S == {k \in 0..n : \A i \in 1..k : Grantable(info, 1..(i-1), i)}
<1>1. n \in Nat
  BY DEF LockInfo
<1>2. S \in SUBSET (0..n) /\ S # {}
  <2>1. 0 \in S
    BY <1>1
  <2> QED
    BY <2>1
<1>3. Max(S) \in S /\ \A k \in S : Max(S) >= k
  BY <1>1, <1>2, MaxInInterval
<1>4. DrainCount(info) = Max(S)
  BY DEF DrainCount
<1> HIDE DEF S
<1>5. ASSUME Max(S) < n, Grantable(info, 1..Max(S), Max(S) + 1)
      PROVE  FALSE
  <2>1. Max(S) \in 0..n /\ \A i \in 1..Max(S) : Grantable(info, 1..(i-1), i)
    BY <1>3 DEF S
  <2>2. Max(S) + 1 \in 0..n
    BY <1>1, <1>5, <2>1
  <2>3. \A i \in 1..(Max(S) + 1) : Grantable(info, 1..(i-1), i)
    <3> TAKE i \in 1..(Max(S) + 1)
    <3>1. CASE i = Max(S) + 1
      <4>1. 1..(i-1) = 1..Max(S)
        BY <2>1, <3>1
      <4> QED
        BY <1>5, <3>1, <4>1
    <3>2. CASE i # Max(S) + 1
      BY <2>1, <3>2
    <3> QED
      BY <3>1, <3>2
  <2>4. Max(S) + 1 \in S
    BY <2>2, <2>3 DEF S
  <2> QED
    BY <1>1, <1>3, <2>1, <2>4
<1> QED
  BY <1>1, <1>3, <1>4, <1>5 DEF S

(* The drain loop leaves a well-formed entry. *)
LEMMA DrainType ==
  ASSUME NEW info \in LockInfo
  PROVE  drain(info) \in LockInfo
<1> DEFINE n == Len(info.waitQueue)
           k == DrainCount(info)
<1>1. n \in Nat /\ k \in 0..n /\ info.waitQueue \in Seq(LockRequest)
  BY DrainCountFacts DEF LockInfo
<1>2. HoldersWith(info, 1..k) \in [Tx -> {"none", "S", "X"}]
  BY <1>1, HoldersWithType
<1>3. SubSeq(info.waitQueue, k + 1, n) \in Seq(LockRequest)
  BY <1>1, SubSeqProperties
<1> QED
  BY <1>2, <1>3 DEF drain, LockInfo

(* Granting a prefix of the queue whose requests were each allowed by the   *)
(* holders at its turn keeps the holders compatible.                        *)
LEMMA DrainCompatible ==
  ASSUME NEW info \in LockInfo, Compatible(info.holders)
  PROVE  Compatible(drain(info).holders)
<1> DEFINE n == Len(info.waitQueue)
           k == DrainCount(info)
           h == HoldersWith(info, 1..k)
           Grants(t, m) == {i \in 1..m : info.waitQueue[i].tx = t}
<1>1. n \in Nat /\ k \in 0..n
  BY DrainCountFacts DEF LockInfo
<1>2. \A i \in 1..k : Grantable(info, 1..(i-1), i)
  BY DrainCountFacts
<1>3. ASSUME NEW t \in Tx, Grants(t, k) # {}
      PROVE  /\ Max(Grants(t, k)) \in Grants(t, k)
             /\ \A j \in Grants(t, k) : Max(Grants(t, k)) >= j
             /\ h[t] = info.waitQueue[Max(Grants(t, k))].mode
  <2>1. Grants(t, k) \in SUBSET (0..k) /\ k \in Nat
    BY <1>1
  <2>2. /\ Max(Grants(t, k)) \in Grants(t, k)
        /\ \A j \in Grants(t, k) : Max(Grants(t, k)) >= j
    BY <1>3, <2>1, MaxInInterval
  <2> QED
    BY <1>3, <2>2 DEF HoldersWith
<1>4. ASSUME NEW t \in Tx, Grants(t, k) = {}
      PROVE  h[t] = info.holders[t]
  BY <1>4 DEF HoldersWith
\* The request granted last decides: it was allowed by what u then held.
<1>5. ASSUME NEW t \in Tx, NEW u \in Tx, t # u, h[u] # "none", Grants(t, k) # {},
             \A j \in Grants(u, k) : j < Max(Grants(t, k))
      PROVE  h[t] = "S" /\ h[u] = "S"
  <2> DEFINE i == Max(Grants(t, k))
  <2>1. i \in 1..k /\ info.waitQueue[i].tx = t /\ h[t] = info.waitQueue[i].mode
    BY <1>3, <1>5
  <2>2. Grants(u, i-1) = Grants(u, k)
    <3>1. i \in Nat /\ k \in Nat /\ i <= k
      BY <1>1, <2>1
    <3>2. ASSUME NEW j \in Grants(u, k)
          PROVE  j \in 1..(i-1)
      <4>1. j \in 1..k /\ j < i
        BY <1>5
      <4> QED
        BY <3>1, <4>1
    <3>3. ASSUME NEW j \in 1..(i-1)
          PROVE  j \in 1..k
      <4> HIDE DEF i, k
      <4> QED
        BY <3>1
    <3> QED
      BY <3>2, <3>3
  <2>3. HoldersWith(info, 1..(i-1))[u] = h[u]
    BY <2>2 DEF HoldersWith
  <2>4. OthersAllow(HoldersWith(info, 1..(i-1)), t, info.waitQueue[i].mode)
    BY <1>2, <2>1 DEF Grantable
  <2>5. isCompatible(info.waitQueue[i].mode, h[u])
    BY <1>5, <2>3, <2>4 DEF OthersAllow
  <2> QED
    BY <2>1, <2>5 DEF isCompatible
<1>6. SUFFICES ASSUME NEW t \in Tx, NEW u \in Tx, t # u, h[t] # "none", h[u] # "none"
               PROVE  h[t] = "S" /\ h[u] = "S"
  BY DEF Compatible, drain
<1>7. CASE Grants(t, k) = {} /\ Grants(u, k) = {}
  BY <1>4, <1>6, <1>7 DEF Compatible
<1>8. CASE Grants(t, k) # {} /\ Grants(u, k) = {}
  BY <1>5, <1>6, <1>8
<1>9. CASE Grants(t, k) = {} /\ Grants(u, k) # {}
  BY <1>5, <1>6, <1>9
<1>10. CASE Grants(t, k) # {} /\ Grants(u, k) # {}
  <2>1. /\ Max(Grants(t, k)) \in Grants(t, k) /\ \A j \in Grants(t, k) : Max(Grants(t, k)) >= j
        /\ Max(Grants(u, k)) \in Grants(u, k) /\ \A j \in Grants(u, k) : Max(Grants(u, k)) >= j
    BY <1>3, <1>10
  <2>2. Max(Grants(t, k)) # Max(Grants(u, k))
    BY <1>6, <2>1
  <2>3. /\ Max(Grants(t, k)) \in Nat /\ Max(Grants(u, k)) \in Nat
        /\ \A j \in Grants(t, k) \cup Grants(u, k) : j \in Nat
    BY <1>1, <2>1
  <2>4. CASE Max(Grants(u, k)) < Max(Grants(t, k))
    <3>1. \A j \in Grants(u, k) : j < Max(Grants(t, k))
      <4> HIDE DEF Grants
      <4> QED
        BY <2>1, <2>3, <2>4
    <3> QED
      BY <1>5, <1>6, <1>10, <3>1
  <2>5. CASE Max(Grants(t, k)) < Max(Grants(u, k))
    <3>1. \A j \in Grants(t, k) : j < Max(Grants(u, k))
      <4> HIDE DEF Grants
      <4> QED
        BY <2>1, <2>3, <2>5
    <3> QED
      BY <1>5, <1>6, <1>10, <3>1
  <2> QED
    BY <2>2, <2>3, <2>4, <2>5
<1> QED
  BY <1>7, <1>8, <1>9, <1>10

(* The drain loop stops at a request it cannot grant. *)
LEMMA DrainHeadBlocked ==
  ASSUME NEW info \in LockInfo
  PROVE  HeadBlocked(drain(info))
<1> DEFINE n == Len(info.waitQueue)
           k == DrainCount(info)
           rest == SubSeq(info.waitQueue, k + 1, n)
<1>1. n \in Nat /\ k \in 0..n /\ info.waitQueue \in Seq(LockRequest)
  BY DrainCountFacts DEF LockInfo
<1>2. drain(info).holders = HoldersWith(info, 1..k) /\ drain(info).waitQueue = rest
  BY DEF drain
<1>3. SUFFICES ASSUME rest # << >>
               PROVE  ~Grantable(drain(info), {}, 1)
  BY <1>2 DEF HeadBlocked
<1>4. k < n
  BY <1>1, <1>3, SubSeqEmpty
<1>5. rest[1] = info.waitQueue[k + 1]
  BY <1>1, <1>4, SubSeqProperties
<1>6. HoldersWith(drain(info), {}) = HoldersWith(info, 1..k)
  <2>1. \A K : HoldersWith(info, K) = [t \in Tx |-> HoldersWith(info, K)[t]]
    BY DEF HoldersWith
  <2> QED
    BY <1>2, <2>1 DEF HoldersWith
<1>7. ~Grantable(info, 1..k, k + 1)
  BY <1>4, DrainCountFacts
<1> QED
  BY <1>2, <1>5, <1>6, <1>7 DEF Grantable
-----------------------------------------------------------------------------
(* What every lock table entry satisfies between two calls. *)
Good(info) == info \in LockInfo /\ Compatible(info.holders) /\ HeadBlocked(info)

(* Nothing granted, nothing changed. *)
LEMMA NoGrants ==
  ASSUME NEW info \in LockInfo
  PROVE  HoldersWith(info, {}) = info.holders
BY DEF HoldersWith, LockInfo

(* The drain loop restores all that every call relies on: it need not hold  *)
(* that the head of the queue was blocked before.                           *)
LEMMA DrainGood ==
  ASSUME NEW info \in LockInfo, Compatible(info.holders)
  PROVE  Good(drain(info))
BY DrainType, DrainCompatible, DrainHeadBlocked DEF Good

(* A request cancelled by a timer or by releaseAll. *)
LEMMA CancelGood ==
  ASSUME NEW info, Good(info), NEW t \in Tx
  PROVE  Good(cancelRequest(info, t))
<1>1. CASE ~Queued(info, t)
  BY <1>1 DEF cancelRequest
<1>2. CASE Queued(info, t)
  <2> DEFINE q == info.waitQueue
             i == Position(info, t)
  <2>1. q \in Seq(LockRequest) /\ i \in 1..Len(q) /\ Len(q) \in Nat
    BY <1>2 DEF Good, LockInfo, Queued, Position
  <2>2. RemoveAt(q, i) \in Seq(LockRequest)
    <3>1. SubSeq(q, 1, i-1) \in Seq(LockRequest)
      BY <2>1, SubSeqProperties
    <3>2. SubSeq(q, i+1, Len(q)) \in Seq(LockRequest)
      BY <2>1, SubSeqProperties
    <3> QED
      BY <3>1, <3>2, ConcatProperties DEF RemoveAt
  <2>3. Dequeue(info, t) \in LockInfo /\ Dequeue(info, t).holders = info.holders
    BY <2>2 DEF Dequeue, Good, LockInfo
  <2> QED
    BY <1>2, <2>3, DrainGood DEF cancelRequest, Good
<1> QED
  BY <1>1, <1>2

(* A lock given up. *)
LEMMA WithoutHolder ==
  ASSUME NEW info, Good(info), NEW t \in Tx
  PROVE  Good(drain(WithHolder(info, t, "none")))
<1> DEFINE new == WithHolder(info, t, "none")
<1>1. new \in LockInfo
  BY DEF WithHolder, Good, LockInfo
<1>2. Compatible(new.holders)
  BY DEF WithHolder, Good, LockInfo, Compatible
<1> QED
  BY <1>1, <1>2, DrainGood

(* releaseAll's part in one entry, once the request of t is cancelled. *)
LEMMA DeleteHolderGood ==
  ASSUME NEW info, Good(info), NEW t \in Tx
  PROVE  Good(DeleteHolder(info, t))
BY WithoutHolder DEF DeleteHolder

(* A lock granted at once, by rule 2 or rule 3 of acquire. *)
LEMMA GrantGood ==
  ASSUME NEW info, Good(info), NEW t \in Tx, NEW mode \in {"S", "X"},
         CanUpgrade(info, t, mode) \/ canGrant(info, t, mode)
  PROVE  Good(WithHolder(info, t, mode))
<1> DEFINE new == WithHolder(info, t, mode)
<1>1. /\ new \in LockInfo
      /\ new.holders = [info.holders EXCEPT ![t] = mode]
      /\ new.waitQueue = info.waitQueue
  BY DEF WithHolder, Good, LockInfo
<1>2. info \in LockInfo /\ info.holders \in [Tx -> {"none", "S", "X"}]
  BY DEF Good, LockInfo
<1>3. Compatible(new.holders)
  <2>1. OthersAllow(info.holders, t, mode)
    BY DEF CanUpgrade, canGrant, OthersAllow
  <2> QED
    BY <1>1, <1>2, <2>1 DEF Good, Compatible, OthersAllow, isCompatible
<1>4. ASSUME new.waitQueue # << >>
      PROVE  ~Grantable(new, {}, 1)
  <2> DEFINE q == info.waitQueue[1]
  <2>1. q \in LockRequest /\ 1 \in 1..Len(info.waitQueue)
    <3>1. info.waitQueue \in Seq(LockRequest) /\ Len(info.waitQueue) \in Nat \ {0}
      BY <1>1, <1>2, <1>4, EmptySeq DEF LockInfo
    <3> QED
      BY <3>1, ElementOfSeq
  <2>2. ~OthersAllow(info.holders, q.tx, q.mode)
    BY <1>1, <1>2, <1>4, NoGrants DEF Good, HeadBlocked, Grantable
  <2>3. PICK u \in Tx \ {q.tx} : info.holders[u] # "none" /\ ~isCompatible(q.mode, info.holders[u])
    BY <2>2 DEF OthersAllow
  <2>4. CASE CanUpgrade(info, t, mode)
    <3>1. u = t /\ mode = "X"
      BY <2>3, <2>4 DEF CanUpgrade
    <3>2. ~OthersAllow(new.holders, q.tx, q.mode)
      BY <1>1, <1>2, <2>3, <3>1 DEF OthersAllow, isCompatible
    <3> QED
      BY <1>1, <3>2, NoGrants DEF Grantable
  <2>5. CASE canGrant(info, t, mode)
    <3>1. q.tx = t
      BY <2>1, <2>5 DEF canGrant
    <3>2. ~OthersAllow(new.holders, q.tx, q.mode)
      BY <1>1, <1>2, <2>3, <3>1 DEF OthersAllow
    <3> QED
      BY <1>1, <3>2, NoGrants DEF Grantable
  <2> QED
    BY <2>4, <2>5
<1> QED
  BY <1>1, <1>3, <1>4 DEF Good, HeadBlocked

(* A request that has to wait. *)
LEMMA EnqueueGood ==
  ASSUME NEW info, Good(info), NEW t \in Tx, NEW mode \in {"S", "X"},
         ~canGrant(info, t, mode)
  PROVE  Good(Enqueue(info, t, mode))
<1> DEFINE req == [tx |-> t, mode |-> mode]
           new == Enqueue(info, t, mode)
<1>1. info.waitQueue \in Seq(LockRequest) /\ req \in LockRequest
  BY DEF Good, LockInfo, LockRequest
<1>2. new.waitQueue = Append(info.waitQueue, req) /\ new.holders = info.holders
  BY DEF Enqueue, Good, LockInfo
<1>3. new \in LockInfo
  BY <1>1, AppendProperties DEF Enqueue, Good, LockInfo
<1>4. ~Grantable(new, {}, 1)
  <2>1. CASE info.waitQueue = << >>
    <3>1. new.waitQueue[1] = req
      BY <1>1, <1>2, <2>1
    <3>2. ~OthersAllow(info.holders, t, mode)
      BY <2>1 DEF canGrant
    <3> QED
      BY <1>2, <1>3, <3>1, <3>2, NoGrants DEF Grantable
  <2>2. CASE info.waitQueue # << >>
    <3>1. new.waitQueue[1] = info.waitQueue[1]
      BY <1>1, <1>2, <2>2, AppendProperties, EmptySeq
    <3> QED
      BY <1>2, <1>3, <2>2, <3>1, NoGrants DEF Grantable, Good, HeadBlocked
  <2> QED
    BY <2>1, <2>2
<1> QED
  BY <1>2, <1>3, <1>4 DEF Good, HeadBlocked

(* An entry nobody uses. *)
LEMMA EmptyGood ==
  Good([holders |-> [t \in Tx |-> "none"], waitQueue |-> << >>])
BY DEF Good, LockInfo, Compatible, HeadBlocked

-----------------------------------------------------------------------------
(* What a call may do to the queue and the holders of an entry, apart from   *)
(* adding one request.  t has asked for the mode: *)
Asks(info, t, mode) ==
  \E i \in 1..Len(info.waitQueue) : info.waitQueue[i] = [tx |-> t, mode |-> mode]

(* An entry has at most one request of a transaction, and none for what the  *)
(* transaction holds already.                                                *)
Sensible(info) ==
  /\ \A t \in Tx : ~Ahead(info, t, t)
  /\ \A t \in Tx, mode \in {"S", "X"} : Asks(info, t, mode) => ~AlreadyHolds(info, t, mode)

(* From one entry to another requests have left, none has come and none was  *)
(* overtaken; a lock is new only where it was asked for, by a request ahead  *)
(* of all that are left; those outside V have lost no lock and no request.   *)
Follows(new, old, V) ==
  /\ \A t, u \in Tx : Ahead(new, t, u) => Ahead(old, t, u)
  /\ \A t \in Tx, mode \in {"S", "X"} : Asks(new, t, mode) => Asks(old, t, mode)
  /\ \A t \in Tx :
       \/ new.holders[t] = old.holders[t]
       \/ t \in V /\ new.holders[t] = "none"
       \/ /\ Asks(old, t, new.holders[t])
          /\ \A u \in Tx : Queued(new, u) => Ahead(old, t, u)
  /\ \A t \in Tx \ V, mode \in {"S", "X"} :
       Asks(old, t, mode) => Asks(new, t, mode) \/ new.holders[t] = mode

LEMMA QueuedAsks ==
  ASSUME NEW info \in LockInfo, NEW t \in Tx
  PROVE  Queued(info, t) <=> \E mode \in {"S", "X"} : Asks(info, t, mode)
<1>1. \A i \in 1..Len(info.waitQueue) : info.waitQueue[i] \in LockRequest
  BY ElementOfSeq DEF LockInfo
<1>2. \A q \in LockRequest : q = [tx |-> q.tx, mode |-> q.mode] /\ q.mode \in {"S", "X"}
  BY DEF LockRequest
<1> QED
  BY <1>1, <1>2 DEF Queued, Asks

(* A transaction asks for one mode only. *)
LEMMA AsksOnce ==
  ASSUME NEW info \in LockInfo, Sensible(info), NEW t \in Tx, NEW m, NEW k,
         Asks(info, t, m), Asks(info, t, k)
  PROVE  m = k
<1>1. PICK i \in 1..Len(info.waitQueue) : info.waitQueue[i] = [tx |-> t, mode |-> m]
  BY DEF Asks
<1>2. PICK j \in 1..Len(info.waitQueue) : info.waitQueue[j] = [tx |-> t, mode |-> k]
  BY DEF Asks
<1>3. ~(i < j) /\ ~(j < i)
  BY <1>1, <1>2 DEF Sensible, Ahead
<1>4. i = j
  BY <1>3 DEF LockInfo
<1> QED
  BY <1>1, <1>2, <1>4

LEMMA FollowsSame ==
  ASSUME NEW info, NEW V
  PROVE  Follows(info, info, V)
BY DEF Follows

LEMMA FollowsMore ==
  ASSUME NEW new, NEW old, NEW V, NEW W, Follows(new, old, V), V \subseteq W
  PROVE  Follows(new, old, W)
BY DEF Follows

LEMMA FollowsQueued ==
  ASSUME NEW old \in LockInfo, NEW new \in LockInfo, NEW V, Follows(new, old, V),
         NEW t \in Tx, Queued(new, t)
  PROVE  Queued(old, t)
BY QueuedAsks DEF Follows

LEMMA FollowsSensible ==
  ASSUME NEW old \in LockInfo, NEW new \in LockInfo, NEW V,
         Sensible(old), Follows(new, old, V)
  PROVE  Sensible(new)
<1>1. \A t \in Tx : ~Ahead(new, t, t)
  BY DEF Sensible, Follows
<1>2. ASSUME NEW t \in Tx, NEW mode \in {"S", "X"}, Asks(new, t, mode), AlreadyHolds(new, t, mode)
      PROVE  FALSE
  <2>1. Asks(old, t, mode) /\ ~AlreadyHolds(old, t, mode)
    BY <1>2 DEF Follows, Sensible
  <2>2. Queued(new, t) /\ ~Ahead(old, t, t)
    BY <1>2, QueuedAsks DEF Sensible
  <2>3. new.holders[t] = old.holders[t]
    BY <1>2, <2>2 DEF Follows, AlreadyHolds
  <2> QED
    BY <1>2, <2>1, <2>3 DEF AlreadyHolds
<1> QED
  BY <1>1, <1>2 DEF Sensible

LEMMA FollowsTrans ==
  ASSUME NEW a \in LockInfo, NEW b \in LockInfo, NEW c \in LockInfo, NEW V, NEW W,
         Sensible(a), Follows(b, a, V), Follows(c, b, W)
  PROVE  Follows(c, a, V \cup W)
<1>1. \A t, u \in Tx : Ahead(c, t, u) => Ahead(a, t, u)
  BY DEF Follows
<1>2. \A t \in Tx, mode \in {"S", "X"} : Asks(c, t, mode) => Asks(a, t, mode)
  BY DEF Follows
<1>3. ASSUME NEW t \in Tx
      PROVE  \/ c.holders[t] = a.holders[t]
             \/ t \in V \cup W /\ c.holders[t] = "none"
             \/ /\ Asks(a, t, c.holders[t])
                /\ \A u \in Tx : Queued(c, u) => Ahead(a, t, u)
  <2>1. \A u \in Tx : Queued(c, u) => Queued(b, u)
    BY FollowsQueued
  <2>2. CASE c.holders[t] = b.holders[t]
    BY <2>1, <2>2 DEF Follows
  <2>3. CASE t \in W /\ c.holders[t] = "none"
    BY <2>3
  <2>4. CASE /\ Asks(b, t, c.holders[t])
             /\ \A u \in Tx : Queued(c, u) => Ahead(b, t, u)
    <3>1. c.holders[t] \in {"S", "X"}
      <4>1. PICK i \in 1..Len(b.waitQueue) : b.waitQueue[i] = [tx |-> t, mode |-> c.holders[t]]
        BY <2>4 DEF Asks
      <4>2. b.waitQueue[i] \in LockRequest
        BY ElementOfSeq DEF LockInfo
      <4> QED
        BY <4>1, <4>2 DEF LockRequest
    <3> QED
      BY <2>4, <3>1 DEF Follows
  <2> QED
    BY <2>2, <2>3, <2>4 DEF Follows
<1>4. ASSUME NEW t \in Tx \ (V \cup W), NEW mode \in {"S", "X"}, Asks(a, t, mode)
      PROVE  Asks(c, t, mode) \/ c.holders[t] = mode
  <2>1. CASE Asks(b, t, mode)
    BY <2>1 DEF Follows
  <2>2. CASE b.holders[t] = mode
    <3>1. CASE c.holders[t] = b.holders[t]
      BY <2>2, <3>1
    <3>2. CASE Asks(b, t, c.holders[t])
      <4>1. c.holders[t] \in {"none", "S", "X"}
        BY DEF LockInfo
      <4>2. \A i \in 1..Len(b.waitQueue) : b.waitQueue[i].mode # "none"
        <5>1. \A i \in 1..Len(b.waitQueue) : b.waitQueue[i] \in LockRequest
          BY ElementOfSeq DEF LockInfo
        <5> QED
          BY <5>1 DEF LockRequest
      <4>3. c.holders[t] # "none"
        BY <3>2, <4>2 DEF Asks
      <4>4. Asks(a, t, c.holders[t])
        BY <3>2, <4>1, <4>3 DEF Follows
      <4> QED
        BY <1>4, <4>4, AsksOnce
    <3> QED
      BY <3>1, <3>2 DEF Follows
  <2> QED
    BY <1>4, <2>1, <2>2 DEF Follows
<1> QED
  BY <1>1, <1>2, <1>3, <1>4 DEF Follows

(* The drain loop takes requests from the front of the queue. *)
LEMMA DrainFollows ==
  ASSUME NEW info \in LockInfo, Sensible(info)
  PROVE  Follows(drain(info), info, {})
<1> DEFINE q == info.waitQueue
           n == Len(q)
           k == DrainCount(info)
           new == drain(info)
           rest == SubSeq(q, k + 1, n)
<1>1. n \in Nat /\ k \in 0..n /\ q \in Seq(LockRequest)
  BY DrainCountFacts DEF LockInfo
<1>2. new.waitQueue = rest /\ new.holders = HoldersWith(info, 1..k)
  BY DEF drain
<1>3. Len(rest) = n - k /\ \A i \in 1..(n - k) : rest[i] = q[i + k]
  <2>1. \A i \in (k + 1)..n : q[i] \in LockRequest
    BY <1>1, ElementOfSeq
  <2>2. Len(rest) = IF k + 1 <= n THEN n - (k + 1) + 1 ELSE 0
    BY <1>1, <2>1, SubSeqProperties
  <2>3. \A i \in 1..(n - (k + 1) + 1) : rest[i] = q[(k + 1) + i - 1]
    BY <1>1, <2>1, SubSeqProperties
  <2> HIDE DEF rest, q, n, k
  <2> QED
    BY <1>1, <2>2, <2>3
<1>4. \A i \in 1..(n - k) : i + k \in 1..n
  BY <1>1
<1> HIDE DEF rest, q, n, k, new
<1>5. ASSUME NEW t \in Tx, NEW u \in Tx, Ahead(new, t, u)
      PROVE  Ahead(info, t, u)
  <2>1. PICK i \in 1..Len(rest), j \in 1..Len(rest) : i < j /\ rest[i].tx = t /\ rest[j].tx = u
    BY <1>2, <1>5 DEF Ahead
  <2>2. i + k < j + k /\ q[i + k].tx = t /\ q[j + k].tx = u /\ i + k \in 1..n /\ j + k \in 1..n
    BY <1>1, <1>3, <1>4, <2>1
  <2> QED
    BY <2>2 DEF Ahead, q, n
<1>6. ASSUME NEW t \in Tx, NEW mode \in {"S", "X"}, Asks(new, t, mode)
      PROVE  Asks(info, t, mode)
  <2>1. PICK i \in 1..Len(rest) : rest[i] = [tx |-> t, mode |-> mode]
    BY <1>2, <1>6 DEF Asks
  <2> QED
    BY <1>3, <1>4, <2>1 DEF Asks, q, n
<1>7. ASSUME NEW t \in Tx, NEW i \in 1..k, q[i].tx = t
      PROVE  new.holders[t] = q[i].mode /\ \A u \in Tx : Queued(new, u) => Ahead(info, t, u)
  <2> DEFINE mine == {j \in 1..k : q[j].tx = t}
  <2>1. \A j \in mine : j = i
    <3>1. \A j \in mine : ~(i < j) /\ ~(j < i)
      BY <1>1, <1>7 DEF Sensible, Ahead, q, n
    <3> QED
      BY <1>1, <3>1
  <2>2. mine # {} /\ Max(mine) \in mine
    <3>1. mine \in SUBSET (0..k) /\ k \in Nat /\ i \in mine
      BY <1>1, <1>7
    <3> HIDE DEF mine
    <3> QED
      BY <3>1, MaxInInterval
  <2>3. new.holders[t] = q[Max(mine)].mode
    BY <1>2, <2>2 DEF HoldersWith, q, k
  <2>4. ASSUME NEW u \in Tx, Queued(new, u)
        PROVE  Ahead(info, t, u)
    <3>1. PICK j \in 1..Len(rest) : rest[j].tx = u
      BY <1>2, <2>4 DEF Queued
    <3>2. q[j + k].tx = u /\ j + k \in 1..n /\ i < j + k /\ i \in 1..n
      BY <1>1, <1>3, <1>4, <3>1
    <3> QED
      BY <1>7, <3>2 DEF Ahead, q, n
  <2> QED
    BY <2>1, <2>2, <2>3, <2>4
<1>8. ASSUME NEW t \in Tx, \A i \in 1..k : q[i].tx # t
      PROVE  new.holders[t] = info.holders[t]
  BY <1>2, <1>8 DEF HoldersWith, q, k
<1>9. ASSUME NEW t \in Tx
      PROVE  \/ new.holders[t] = info.holders[t]
             \/ /\ Asks(info, t, new.holders[t])
                /\ \A u \in Tx : Queued(new, u) => Ahead(info, t, u)
  <2>1. CASE \E i \in 1..k : q[i].tx = t
    <3>1. PICK i \in 1..k : q[i].tx = t
      BY <2>1
    <3>2. i \in 1..n /\ q[i] \in LockRequest
      <4>1. i \in 1..n
        BY <1>1
      <4> QED
        BY <1>1, <4>1, ElementOfSeq DEF n
    <3>3. q[i] = [tx |-> t, mode |-> q[i].mode]
      BY <3>1, <3>2 DEF LockRequest
    <3> QED
      BY <1>7, <3>1, <3>2, <3>3 DEF Asks, q, n
  <2> QED
    BY <1>8, <2>1
<1>10. ASSUME NEW t \in Tx, NEW mode \in {"S", "X"}, Asks(info, t, mode)
       PROVE  Asks(new, t, mode) \/ new.holders[t] = mode
  <2>1. PICK i \in 1..n : q[i] = [tx |-> t, mode |-> mode]
    BY <1>10 DEF Asks, q, n
  <2>2. CASE i <= k
    <3>1. i \in 1..k
      BY <1>1, <2>2
    <3> QED
      BY <1>7, <2>1, <3>1
  <2>3. CASE i > k
    <3>1. i - k \in 1..(n - k) /\ (i - k) + k = i
      BY <1>1, <2>3
    <3>2. rest[i - k] = [tx |-> t, mode |-> mode]
      BY <1>3, <2>1, <3>1
    <3> QED
      BY <1>2, <1>3, <3>1, <3>2 DEF Asks
  <2> QED
    BY <1>1, <2>2, <2>3
<1> QED
  BY <1>5, <1>6, <1>9, <1>10 DEF Follows, new

(* A request cancelled. *)
LEMMA CancelFollows ==
  ASSUME NEW info \in LockInfo, Compatible(info.holders), Sensible(info), NEW t \in Tx
  PROVE  /\ Follows(cancelRequest(info, t), info, {t})
         /\ ~Queued(cancelRequest(info, t), t)
         /\ cancelRequest(info, t).holders[t] = info.holders[t]
<1>1. CASE ~Queued(info, t)
  BY <1>1, FollowsSame DEF cancelRequest
<1>2. CASE Queued(info, t)
  <2> DEFINE q == info.waitQueue
             n == Len(q)
             p == Position(info, t)
             a == SubSeq(q, 1, p - 1)
             b == SubSeq(q, p + 1, n)
             new == Dequeue(info, t)
  <2>1. q \in Seq(LockRequest) /\ n \in Nat /\ p \in 1..n /\ q[p].tx = t
    BY <1>2 DEF LockInfo, Queued, Position
  <2>2. a \in Seq(LockRequest) /\ Len(a) = p - 1 /\ \A i \in 1..(p - 1) : a[i] = q[i]
    <3>1. \A i \in 1..(p - 1) : q[i] \in LockRequest
      BY <2>1, ElementOfSeq
    <3>2. /\ a \in Seq(LockRequest)
          /\ Len(a) = IF 1 <= p - 1 THEN (p - 1) - 1 + 1 ELSE 0
          /\ \A i \in 1..((p - 1) - 1 + 1) : a[i] = q[1 + i - 1]
      BY <2>1, <3>1, SubSeqProperties
    <3> HIDE DEF a, q, n, p
    <3> QED
      BY <2>1, <3>2
  <2>3. b \in Seq(LockRequest) /\ Len(b) = n - p /\ \A i \in 1..(n - p) : b[i] = q[i + p]
    <3>1. \A i \in (p + 1)..n : q[i] \in LockRequest
      BY <2>1, ElementOfSeq
    <3>2. /\ b \in Seq(LockRequest)
          /\ Len(b) = IF p + 1 <= n THEN n - (p + 1) + 1 ELSE 0
          /\ \A i \in 1..(n - (p + 1) + 1) : b[i] = q[(p + 1) + i - 1]
      BY <2>1, <3>1, SubSeqProperties
    <3> HIDE DEF b, q, n, p
    <3> QED
      BY <2>1, <3>2
  <2>4. /\ new.waitQueue = a \o b /\ new.holders = info.holders /\ new \in LockInfo
        /\ Len(a \o b) = n - 1
        /\ \A i \in 1..(n - 1) : (a \o b)[i] = IF i < p THEN q[i] ELSE q[i + 1]
    <3>1. /\ a \o b \in Seq(LockRequest)
          /\ Len(a \o b) = Len(a) + Len(b)
          /\ \A i \in 1..(Len(a) + Len(b)) :
               (a \o b)[i] = IF i <= Len(a) THEN a[i] ELSE b[i - Len(a)]
      BY <2>2, <2>3, ConcatProperties
    <3>2. new.waitQueue = a \o b /\ new.holders = info.holders /\ new \in LockInfo
      BY <3>1 DEF Dequeue, RemoveAt, LockInfo
    <3> HIDE DEF a, b, q, n, p, new
    <3>3. \A i \in 1..(n - 1) : (a \o b)[i] = IF i < p THEN q[i] ELSE q[i + 1]
      <4> TAKE i \in 1..(n - 1)
      <4>1. CASE i < p
        BY <2>1, <2>2, <2>3, <3>1, <4>1
      <4>2. CASE ~(i < p)
        <5>1. i - Len(a) \in 1..(n - p) /\ ~(i <= Len(a)) /\ (i - Len(a)) + p = i + 1
          BY <2>1, <2>2, <4>2
        <5> QED
          BY <2>1, <2>2, <2>3, <3>1, <4>2, <5>1
      <4> QED
        BY <4>1, <4>2
    <3> QED
      BY <2>1, <2>2, <2>3, <3>1, <3>2, <3>3
  <2> DEFINE at(i) == IF i < p THEN i ELSE i + 1
  <2>5. \A i \in 1..(n - 1) : at(i) \in 1..n /\ at(i) # p
    <3> HIDE DEF p, n
    <3> QED
      BY <2>1
  <2>6. \A i, j \in 1..(n - 1) : i < j => at(i) < at(j)
    <3> HIDE DEF p, n
    <3> QED
      BY <2>1
  <2>7. \A i \in 1..(n - 1) : new.waitQueue[i] = q[at(i)]
    <3> HIDE DEF a, b, q, n, p, new
    <3> QED
      BY <2>4
  <2>8. \A i \in 1..n : i # p => \E j \in 1..(n - 1) : at(j) = i
    <3> TAKE i \in 1..n
    <3> HIDE DEF p, n
    <3>1. CASE i < p
      BY <2>1, <3>1
    <3>2. CASE i > p
      <4>1. i - 1 \in 1..(n - 1) /\ at(i - 1) = i
        BY <2>1, <3>2
      <4> QED
        BY <4>1
    <3> QED
      BY <2>1, <3>1, <3>2
  <2>9. Len(new.waitQueue) = n - 1
    BY <2>4
  <2> HIDE DEF a, b, q, n, p, new, at
  <2>10. Follows(new, info, {t})
    <3>1. ASSUME NEW u \in Tx, NEW v \in Tx, Ahead(new, u, v)
          PROVE  Ahead(info, u, v)
      <4>1. PICK i \in 1..(n - 1), j \in 1..(n - 1) :
              i < j /\ new.waitQueue[i].tx = u /\ new.waitQueue[j].tx = v
        BY <2>9, <3>1 DEF Ahead
      <4>2. at(i) < at(j) /\ at(i) \in 1..n /\ at(j) \in 1..n /\ q[at(i)].tx = u /\ q[at(j)].tx = v
        BY <2>5, <2>6, <2>7, <4>1
      <4> QED
        BY <4>2 DEF Ahead, q, n
    <3>2. \A u \in Tx, mode \in {"S", "X"} : Asks(new, u, mode) => Asks(info, u, mode)
      BY <2>5, <2>7, <2>9 DEF Asks, q, n
    <3>3. ASSUME NEW u \in Tx \ {t}, NEW mode \in {"S", "X"}, Asks(info, u, mode)
          PROVE  Asks(new, u, mode)
      <4>1. PICK i \in 1..n : q[i] = [tx |-> u, mode |-> mode]
        BY <3>3 DEF Asks, q, n
      <4>2. i # p
        BY <2>1, <4>1
      <4>3. PICK j \in 1..(n - 1) : at(j) = i
        BY <2>8, <4>2
      <4> QED
        BY <2>7, <2>9, <4>1, <4>3 DEF Asks
    <3> QED
      BY <2>4, <3>1, <3>2, <3>3 DEF Follows
  <2>11. ~Queued(new, t)
    <3> SUFFICES ASSUME NEW i \in 1..(n - 1), new.waitQueue[i].tx = t
                 PROVE  FALSE
      BY <2>9 DEF Queued
    <3>1. at(i) \in 1..n /\ at(i) # p /\ q[at(i)].tx = t
      BY <2>5, <2>7
    <3>2. ~(at(i) < p) /\ ~(p < at(i))
      BY <2>1, <3>1 DEF Sensible, Ahead, q, n
    <3> QED
      BY <2>1, <3>1, <3>2
  <2>12. Sensible(new) /\ Compatible(new.holders)
    BY <2>4, <2>10, FollowsSensible
  <2>13. drain(new) \in LockInfo
    BY <2>4, <2>12, DrainGood DEF Good
  <2>14. Follows(drain(new), new, {})
    BY <2>4, <2>12, DrainFollows
  <2>15. Follows(drain(new), info, {t} \cup {})
    BY <2>4, <2>10, <2>13, <2>14, FollowsTrans
  <2>16. {t} \cup {} = {t}
    OBVIOUS
  <2>17. ~Queued(drain(new), t)
    BY <2>4, <2>11, <2>13, <2>14, FollowsQueued
  <2>18. drain(new).holders[t] = info.holders[t]
    <3>1. ~Asks(new, t, drain(new).holders[t])
      BY <2>11 DEF Asks, Queued
    <3> QED
      BY <2>4, <2>14, <3>1 DEF Follows
  <2> QED
    BY <1>2, <2>15, <2>16, <2>17, <2>18 DEF cancelRequest, new
<1> QED
  BY <1>1, <1>2

(* A lock given up by a transaction that is not in the queue. *)
LEMMA WithoutHolderFollows ==
  ASSUME NEW info, Good(info), Sensible(info), NEW t \in Tx, ~Queued(info, t)
  PROVE  /\ Follows(drain(WithHolder(info, t, "none")), info, {t})
         /\ drain(WithHolder(info, t, "none")).holders[t] = "none"
         /\ ~Queued(drain(WithHolder(info, t, "none")), t)
<1> DEFINE new == WithHolder(info, t, "none")
           end == drain(new)
<1>1. /\ info \in LockInfo /\ new \in LockInfo /\ new.waitQueue = info.waitQueue
      /\ new.holders = [info.holders EXCEPT ![t] = "none"]
      /\ info.holders \in [Tx -> {"none", "S", "X"}]
  BY DEF Good, WithHolder, LockInfo
<1>2. /\ \A u, v \in Tx : Ahead(new, u, v) <=> Ahead(info, u, v)
      /\ \A u \in Tx, mode \in {"S", "X"} : Asks(new, u, mode) <=> Asks(info, u, mode)
      /\ ~Queued(new, t)
  BY <1>1 DEF Ahead, Asks, Queued
<1>3. Follows(new, info, {t})
  BY <1>1, <1>2 DEF Follows
<1>4. Sensible(new) /\ Compatible(new.holders)
  BY <1>1, <1>3, FollowsSensible DEF Good, Compatible
<1>5. end \in LockInfo /\ Follows(end, new, {})
  BY <1>1, <1>4, DrainGood, DrainFollows DEF Good
<1> HIDE DEF new, end
<1>6. Follows(end, info, {t} \cup {}) /\ {t} \cup {} = {t}
  BY <1>1, <1>3, <1>5, FollowsTrans
<1>7. ~Queued(end, t)
  BY <1>1, <1>2, <1>5, FollowsQueued
<1>8. end.holders[t] = "none"
  <2>1. ~Asks(new, t, end.holders[t]) \/ end.holders[t] = "none"
    <3>1. end.holders[t] \in {"none", "S", "X"}
      BY <1>5 DEF LockInfo
    <3> QED
      BY <1>1, <1>2, <3>1, QueuedAsks
  <2>2. new.holders[t] = "none"
    BY <1>1
  <2> QED
    BY <1>5, <2>1, <2>2 DEF Follows
<1> QED
  BY <1>6, <1>7, <1>8 DEF end, new

(* releaseAll's part in one entry. *)
LEMMA ReleaseFollows ==
  ASSUME NEW info, Good(info), Sensible(info), NEW t \in Tx
  PROVE  LET new == DeleteHolder(cancelRequest(info, t), t)
         IN  /\ Good(new) /\ Sensible(new)
             /\ Follows(new, info, {t})
             /\ ~Queued(new, t) /\ new.holders[t] = "none"
<1> DEFINE mid == cancelRequest(info, t)
           new == DeleteHolder(mid, t)
<1>1. Good(mid) /\ Follows(mid, info, {t}) /\ ~Queued(mid, t)
  BY CancelGood, CancelFollows DEF Good
<1>2. info \in LockInfo /\ mid \in LockInfo /\ Sensible(mid)
  BY <1>1, FollowsSensible DEF Good
<1>3. Good(new)
  BY <1>1, DeleteHolderGood
<1> HIDE DEF mid
<1>4. Follows(new, mid, {t}) /\ ~Queued(new, t) /\ new.holders[t] = "none"
  <2>1. CASE mid.holders[t] = "none"
    BY <1>1, <2>1, FollowsSame DEF DeleteHolder
  <2>2. CASE mid.holders[t] # "none"
    BY <1>1, <1>2, <2>2, WithoutHolderFollows DEF DeleteHolder
  <2> QED
    BY <2>1, <2>2
<1> HIDE DEF new
<1>5. Follows(new, info, {t} \cup {t}) /\ {t} \cup {t} = {t}
  <2>1. new \in LockInfo
    BY <1>3 DEF Good
  <2> QED
    BY <1>1, <1>2, <1>4, <2>1, FollowsTrans
<1>6. Sensible(new)
  BY <1>2, <1>3, <1>4, FollowsSensible DEF Good
<1> QED
  BY <1>3, <1>4, <1>5, <1>6 DEF new, mid
-----------------------------------------------------------------------------
(* The inductive invariant.  Mutual exclusion alone is inductive, but that   *)
(* nobody waits in vain is not: a grant by rule 2 or 3 of acquire keeps the  *)
(* head blocked only because it cannot be an exclusive lock next to others.  *)
(* That a transaction waits in one place is what keeps the promises and the  *)
(* queues together, and a drain from overtaking anybody.                     *)
TableOK(lt) ==
  /\ lt \in [Resource -> LockInfo]
  /\ \A r \in Resource : Good(lt[r]) /\ Sensible(lt[r])
  /\ \A r, s \in Resource, t \in Tx : Queued(lt[r], t) /\ Queued(lt[s], t) => r = s

IInv ==
  /\ promise \in [Tx -> Promise]
  /\ TableOK(lockTable)
  /\ \A t \in Tx : promise[t] = "pending" <=> \E r \in Resource : Queued(lockTable[r], t)

(* Settling the promises leaves each of them in one of its four states. *)
LEMMA SettleType ==
  ASSUME promise \in [Tx -> Promise], NEW lt, NEW cancelled
  PROVE  Settle(lt, cancelled) \in [Tx -> Promise]
BY DEF Settle, Promise

(* A table that follows on a good one, entry by entry, is good.              *)
LEMMA FollowsTable ==
  ASSUME NEW old, TableOK(old), NEW new \in [Resource -> LockInfo], NEW V,
         \A r \in Resource : Good(new[r]) /\ Follows(new[r], old[r], V)
  PROVE  TableOK(new)
<1>1. \A r \in Resource : old[r] \in LockInfo /\ new[r] \in LockInfo
  BY DEF TableOK
<1>2. \A r \in Resource : Sensible(new[r])
  BY <1>1, FollowsSensible DEF TableOK
<1>3. \A r \in Resource, t \in Tx : Queued(new[r], t) => Queued(old[r], t)
  BY <1>1, FollowsQueued
<1> QED
  BY <1>2, <1>3 DEF TableOK

(* One entry changes. *)
LEMMA FollowsEntry ==
  ASSUME NEW old, TableOK(old), NEW r \in Resource, NEW info, Good(info), NEW V,
         Follows(info, old[r], V)
  PROVE  LET new == [old EXCEPT ![r] = info]
         IN  TableOK(new) /\ \A s \in Resource : Follows(new[s], old[s], V)
<1> DEFINE new == [old EXCEPT ![r] = info]
<1>1. new \in [Resource -> LockInfo]
  BY DEF TableOK, Good
<1>2. \A s \in Resource : new[s] = IF s = r THEN info ELSE old[s]
  BY DEF TableOK
<1>3. \A s \in Resource : Good(new[s]) /\ Follows(new[s], old[s], V)
  BY <1>2, FollowsSame DEF TableOK
<1> HIDE DEF new
<1>4. TableOK(new)
  BY <1>1, <1>3, FollowsTable
<1> QED
  BY <1>3, <1>4 DEF new

(* releaseAll. *)
LEMMA ReleasedTableFollows ==
  ASSUME NEW old, TableOK(old), NEW t \in Tx
  PROVE  LET new == ReleasedTable(old, t)
         IN  /\ TableOK(new)
             /\ \A r \in Resource : /\ Follows(new[r], old[r], {t})
                                   /\ ~Queued(new[r], t) /\ new[r].holders[t] = "none"
<1> DEFINE new == ReleasedTable(old, t)
<1>1. \A r \in Resource : new[r] = DeleteHolder(cancelRequest(old[r], t), t)
  BY DEF ReleasedTable
<1>2. \A r \in Resource : /\ Good(new[r]) /\ Follows(new[r], old[r], {t})
                          /\ ~Queued(new[r], t) /\ new[r].holders[t] = "none"
  BY <1>1, ReleaseFollows DEF TableOK
<1>3. new \in [Resource -> LockInfo]
  BY <1>1, <1>2 DEF ReleasedTable, Good
<1> HIDE DEF new
<1>4. TableOK(new)
  BY <1>2, <1>3, FollowsTable
<1> QED
  BY <1>2, <1>4 DEF new

(* Requests leave the queues, and those that were not cancelled are settled  *)
(* as granted.                                                               *)
LEMMA PrimedIInv ==
  ASSUME promise' \in [Tx -> Promise], TableOK(lockTable'),
         \A t \in Tx : promise'[t] = "pending" <=> \E r \in Resource : Queued(lockTable'[r], t)
  PROVE  IInv'
BY DEF IInv

LEMMA SettleStep ==
  ASSUME IInv, NEW V, NEW W, TableOK(lockTable'),
         \A r \in Resource : Follows(lockTable'[r], lockTable[r], V),
         \A t \in Tx, r \in Resource : t \in W => ~Queued(lockTable'[r], t),
         promise' = Settle(lockTable', W)
  PROVE  IInv'
<1>1. promise' \in [Tx -> Promise]
  BY SettleType DEF IInv
<1>2. \A t \in Tx, r \in Resource : Queued(lockTable'[r], t) => Queued(lockTable[r], t)
  BY FollowsQueued DEF IInv, TableOK
<1>3. \A t \in Tx : promise'[t] = "pending" <=>
        promise[t] = "pending" /\ t \notin W /\ \E r \in Resource : Queued(lockTable'[r], t)
  BY DEF Settle
<1>4. \A t \in Tx : promise'[t] = "pending" <=> \E r \in Resource : Queued(lockTable'[r], t)
  BY <1>2, <1>3 DEF IInv
<1> QED
  BY <1>1, <1>4, PrimedIInv

-----------------------------------------------------------------------------
(* Every step of the lock table keeps the invariant.  The steps that only    *)
(* take requests out of the queues, and what they do to the table:           *)
Drains(V) == \A r \in Resource : Follows(lockTable'[r], lockTable[r], V)

LEMMA AcquireNowStep ==
  ASSUME IInv, NEW t \in Tx, NEW r \in Resource, NEW mode \in Mode, AcquireNow(t, r, mode)
  PROVE  IInv'
<1> DEFINE info == lockTable[r]
<1>1. mode \in {"S", "X"} /\ info \in LockInfo /\ Good(info) /\ Sensible(info)
  BY LockAssumption DEF IInv, TableOK
<1>2. \A s \in Resource : ~Queued(lockTable[s], t)
  BY DEF IInv, AcquireNow
<1>3. promise' \in [Tx -> Promise] /\ \A u \in Tx : u # t => promise'[u] = promise[u]
  BY DEF AcquireNow, Promise, IInv
<1>4. promise'[t] # "pending"
  BY DEF AcquireNow, IInv
<1>5. CASE UNCHANGED lockTable
  BY <1>2, <1>3, <1>4, <1>5 DEF IInv
<1>6. CASE lockTable' # lockTable
  <2> DEFINE new == WithHolder(info, t, mode)
  <2>1. (CanUpgrade(info, t, mode) \/ canGrant(info, t, mode))
          /\ lockTable' = [lockTable EXCEPT ![r] = new]
    BY <1>6 DEF AcquireNow
  <2>2. Good(new)
    BY <1>1, <2>1, GrantGood
  <2>3. /\ new.waitQueue = info.waitQueue
        /\ new.holders = [info.holders EXCEPT ![t] = mode]
    BY <1>1 DEF WithHolder, LockInfo
  <2>4. Sensible(new)
    <3>1. \A u, v \in Tx : Ahead(new, u, v) <=> Ahead(info, u, v)
      BY <2>3 DEF Ahead
    <3>2. ASSUME NEW u \in Tx, NEW m \in {"S", "X"}, Asks(new, u, m)
          PROVE  ~AlreadyHolds(new, u, m)
      <4>1. Asks(info, u, m)
        BY <2>3, <3>2 DEF Asks
      <4>2. u # t
        BY <1>1, <1>2, <4>1, QueuedAsks
      <4>3. new.holders[u] = info.holders[u]
        BY <1>1, <2>3, <4>2 DEF LockInfo
      <4> QED
        BY <1>1, <4>1, <4>3 DEF Sensible, AlreadyHolds
    <3> QED
      BY <1>1, <3>1, <3>2 DEF Sensible
  <2>5. \A s \in Resource : lockTable'[s] = IF s = r THEN new ELSE lockTable[s]
    BY <2>1 DEF IInv, TableOK
  <2>6. \A s \in Resource, u \in Tx : Queued(lockTable'[s], u) <=> Queued(lockTable[s], u)
    BY <2>3, <2>5 DEF Queued
  <2>7. TableOK(lockTable')
    <3>1. lockTable' \in [Resource -> LockInfo]
      BY <2>1, <2>2 DEF IInv, TableOK, Good
    <3> QED
      BY <2>2, <2>4, <2>5, <2>6, <3>1 DEF IInv, TableOK
  <2>8. \A u \in Tx : promise'[u] = "pending" <=> \E s \in Resource : Queued(lockTable'[s], u)
    BY <1>2, <1>3, <1>4, <2>6 DEF IInv
  <2> QED
    BY <1>3, <2>7, <2>8, PrimedIInv
<1> QED
  BY <1>5, <1>6

LEMMA AcquireWaitStep ==
  ASSUME IInv, NEW t \in Tx, NEW r \in Resource, NEW mode \in Mode, AcquireWait(t, r, mode)
  PROVE  IInv'
<1> DEFINE info == lockTable[r]
           req == [tx |-> t, mode |-> mode]
           new == Enqueue(info, t, mode)
           n == Len(info.waitQueue)
<1>1. mode \in {"S", "X"} /\ info \in LockInfo /\ Good(info) /\ Sensible(info)
  BY LockAssumption DEF IInv, TableOK
<1>2. \A s \in Resource : ~Queued(lockTable[s], t)
  BY DEF IInv, AcquireWait
<1>3. /\ promise' \in [Tx -> Promise] /\ promise'[t] = "pending"
      /\ \A u \in Tx : u # t => promise'[u] = promise[u]
  BY DEF AcquireWait, Promise, IInv
<1>4. Good(new)
  BY <1>1, EnqueueGood DEF AcquireWait
<1>5. /\ new.holders = info.holders
      /\ n \in Nat /\ Len(new.waitQueue) = n + 1 /\ new.waitQueue[n + 1] = req
      /\ \A i \in 1..n : new.waitQueue[i] = info.waitQueue[i]
  <2>1. info.waitQueue \in Seq(LockRequest) /\ req \in LockRequest
    BY <1>1 DEF LockInfo, LockRequest
  <2>2. new.waitQueue = Append(info.waitQueue, req) /\ new.holders = info.holders
    BY <1>1 DEF Enqueue, LockInfo
  <2> QED
    BY <2>1, <2>2, AppendProperties
<1>6. \A s \in Resource : lockTable'[s] = IF s = r THEN new ELSE lockTable[s]
  BY DEF AcquireWait, IInv, TableOK
<1>7. lockTable' \in [Resource -> LockInfo]
  BY <1>4 DEF AcquireWait, IInv, TableOK, Good
<1>8. ~AlreadyHolds(info, t, mode)
  BY DEF AcquireWait
<1> HIDE DEF n, new, req
<1>9. \A i \in 1..n : info.waitQueue[i].tx # t
  BY <1>2 DEF Queued, n
<1>10. \A u \in Tx : Queued(new, u) <=> Queued(info, u) \/ u = t
  <2> TAKE u \in Tx
  <2>1. Queued(info, u) => Queued(new, u)
    <3>1. \A i \in 1..n : i \in 1..(n + 1)
      BY <1>5
    <3> QED
      BY <1>5, <3>1 DEF Queued, n
  <2>2. Queued(new, t)
    <3>1. n + 1 \in 1..(n + 1)
      BY <1>5
    <3> QED
      BY <1>5, <3>1 DEF Queued, req
  <2>3. ASSUME Queued(new, u), u # t
        PROVE  Queued(info, u)
    <3>1. PICK i \in 1..(n + 1) : new.waitQueue[i].tx = u
      BY <1>5, <2>3 DEF Queued
    <3>2. i \in 1..n
      BY <1>5, <2>3, <3>1 DEF req
    <3> QED
      BY <1>5, <3>1, <3>2 DEF Queued, n
  <2> QED
    BY <2>1, <2>2, <2>3
<1>11. Sensible(new)
  <2>1. ASSUME NEW u \in Tx, Ahead(new, u, u)
        PROVE  FALSE
    <3>1. PICK i \in 1..(n + 1), j \in 1..(n + 1) :
            i < j /\ new.waitQueue[i].tx = u /\ new.waitQueue[j].tx = u
      BY <1>5, <2>1 DEF Ahead
    <3>2. i \in 1..n /\ info.waitQueue[i].tx = u
      BY <1>5, <3>1
    <3>3. CASE j = n + 1
      BY <1>5, <1>9, <3>1, <3>2, <3>3 DEF req
    <3>4. CASE j # n + 1
      <4>1. j \in 1..n /\ info.waitQueue[j].tx = u
        BY <1>5, <3>1, <3>4
      <4> QED
        BY <1>1, <3>1, <3>2, <4>1 DEF Sensible, Ahead, n
    <3> QED
      BY <3>3, <3>4
  <2>2. ASSUME NEW u \in Tx, NEW m \in {"S", "X"}, Asks(new, u, m)
        PROVE  ~AlreadyHolds(new, u, m)
    <3>1. PICK i \in 1..(n + 1) : new.waitQueue[i] = [tx |-> u, mode |-> m]
      BY <1>5, <2>2 DEF Asks
    <3>2. CASE i = n + 1
      <4>1. u = t /\ m = mode
        BY <1>5, <3>1, <3>2 DEF req
      <4> QED
        BY <1>5, <1>8, <4>1 DEF AlreadyHolds
    <3>3. CASE i # n + 1
      <4>1. i \in 1..n /\ info.waitQueue[i] = [tx |-> u, mode |-> m]
        BY <1>5, <3>1, <3>3
      <4> QED
        BY <1>1, <1>5, <4>1 DEF Sensible, Asks, AlreadyHolds, n
    <3> QED
      BY <3>2, <3>3
  <2> QED
    BY <2>1, <2>2 DEF Sensible
<1>12. TableOK(lockTable')
  <2>1. \A s \in Resource : Good(lockTable'[s]) /\ Sensible(lockTable'[s])
    BY <1>4, <1>6, <1>11 DEF IInv, TableOK
  <2>2. \A s \in Resource, u \in Tx :
          Queued(lockTable'[s], u) <=> Queued(lockTable[s], u) \/ (s = r /\ u = t)
    BY <1>6, <1>10
  <2>3. \A q, s \in Resource, u \in Tx : Queued(lockTable'[q], u) /\ Queued(lockTable'[s], u) => q = s
    BY <1>2, <2>2 DEF IInv, TableOK
  <2> QED
    BY <1>7, <2>1, <2>3 DEF TableOK
<1>13. \A u \in Tx : promise'[u] = "pending" <=> \E s \in Resource : Queued(lockTable'[s], u)
  <2>1. \A s \in Resource, u \in Tx :
          Queued(lockTable'[s], u) <=> Queued(lockTable[s], u) \/ (s = r /\ u = t)
    BY <1>6, <1>10
  <2> QED
    BY <1>3, <2>1 DEF IInv
<1> QED
  BY <1>3, <1>12, <1>13, PrimedIInv

LEMMA ReleaseStep ==
  ASSUME IInv, NEW t \in Tx, NEW r \in Resource, Release(t, r)
  PROVE  IInv' /\ Drains({t})
<1> DEFINE info == lockTable[r]
           new == drain(WithHolder(info, t, "none"))
<1>1. Good(info) /\ Sensible(info) /\ ~Queued(info, t)
  BY DEF IInv, TableOK, Release
<1>2. Good(new) /\ Follows(new, info, {t})
  BY <1>1, WithoutHolder, WithoutHolderFollows
<1>3. lockTable' = [lockTable EXCEPT ![r] = new] /\ promise' = Settle(lockTable', {})
  BY DEF Release
<1> HIDE DEF new
<1>4. TableOK(lockTable') /\ Drains({t})
  BY <1>2, <1>3, FollowsEntry DEF IInv, Drains
<1>5. PICK W : W = {}
  OBVIOUS
<1>6. /\ \A u \in Tx, s \in Resource : u \in W => ~Queued(lockTable'[s], u)
      /\ promise' = Settle(lockTable', W)
  BY <1>3, <1>5
<1> QED
  BY <1>4, <1>6, SettleStep DEF Drains

LEMMA TimeoutStep ==
  ASSUME IInv, NEW t \in Tx, NEW r \in Resource, Timeout(t, r)
  PROVE  /\ IInv' /\ Drains({t})
         /\ \A s \in Resource : lockTable'[s].holders[t] = lockTable[s].holders[t]
<1> DEFINE info == lockTable[r]
           new == cancelRequest(info, t)
<1>1. Good(info) /\ Sensible(info) /\ Queued(info, t)
  BY DEF IInv, TableOK, Timeout
<1>2. Good(new) /\ Follows(new, info, {t}) /\ ~Queued(new, t) /\ new.holders[t] = info.holders[t]
  BY <1>1, CancelGood, CancelFollows DEF Good
<1>3. lockTable' = [lockTable EXCEPT ![r] = new] /\ promise' = Settle(lockTable', {t})
  BY DEF Timeout
<1> HIDE DEF new
<1>4. TableOK(lockTable') /\ Drains({t})
  BY <1>2, <1>3, FollowsEntry DEF IInv, Drains
<1>5. \A s \in Resource : ~Queued(lockTable'[s], t)
  BY <1>1, <1>2, <1>3 DEF IInv, TableOK
<1>6. \A s \in Resource : lockTable'[s].holders[t] = lockTable[s].holders[t]
  BY <1>2, <1>3 DEF IInv, TableOK
<1>7. IInv'
  BY <1>3, <1>4, <1>5, SettleStep DEF Drains
<1> QED
  BY <1>4, <1>6, <1>7

LEMMA ReleaseAllStep ==
  ASSUME IInv, NEW t \in Tx, ReleaseAll(t)
  PROVE  IInv' /\ Drains({t})
<1>1. /\ TableOK(lockTable') /\ Drains({t})
      /\ \A r \in Resource : ~Queued(lockTable'[r], t)
  BY ReleasedTableFollows DEF ReleaseAll, IInv, Drains
<1> QED
  BY <1>1, SettleStep DEF Drains, ReleaseAll

LEMMA EmptyTableOK == TableOK(EmptyTable) /\ \A r \in Resource, t \in Tx : ~Queued(EmptyTable[r], t)
<1> DEFINE info == [holders |-> [t \in Tx |-> "none"], waitQueue |-> << >>]
<1>1. Good(info) /\ info \in LockInfo /\ Len(info.waitQueue) = 0
  BY EmptyGood DEF Good
<1> HIDE DEF info
<1>2. Sensible(info) /\ \A t \in Tx : ~Queued(info, t)
  BY <1>1 DEF Sensible, Ahead, Asks, Queued
<1>3. EmptyTable = [r \in Resource |-> info]
  BY DEF EmptyTable, info
<1> QED
  BY <1>1, <1>2, <1>3 DEF TableOK

LEMMA ResetStep ==
  ASSUME IInv, Reset
  PROVE  IInv'
<1>1. lockTable' = EmptyTable
  BY DEF Reset
<1>2. PICK W : promise' = Settle(lockTable', W)
  BY DEF Reset
<1>3. promise' \in [Tx -> Promise]
  BY <1>2, SettleType DEF IInv
<1>4. \A t \in Tx : promise'[t] # "pending"
  BY <1>1, <1>2, EmptyTableOK DEF Settle
<1> QED
  BY <1>1, <1>3, <1>4, EmptyTableOK, PrimedIInv

(* What a request does to the transaction that makes it, and that it does    *)
(* nothing to the others.                                                    *)
LEMMA AcquireEffect ==
  ASSUME IInv, NEW t \in Tx, NEW r \in Resource, NEW mode \in Mode, Acquire(t, r, mode)
  PROVE  /\ \A u \in Tx \ {t}, s \in Resource :
              /\ lockTable'[s].holders[u] = lockTable[s].holders[u]
              /\ \A m \in {"S", "X"} : Asks(lockTable'[s], u, m) => Asks(lockTable[s], u, m)
         /\ \A u \in Tx \ {t} : promise'[u] = promise[u]
         /\ promise'[t] \in {"granted", "pending"}
         /\ promise'[t] = "granted" => AlreadyHolds(lockTable'[r], t, mode)
         /\ \A s \in Resource, m \in {"S", "X"} : Asks(lockTable'[s], t, m) => s = r /\ m = mode
         /\ \A s \in Resource : lockTable[s].holders[t] = "X" => lockTable'[s].holders[t] = "X"
<1> DEFINE info == lockTable[r]
<1>1. mode \in {"S", "X"} /\ info \in LockInfo /\ lockTable \in [Resource -> LockInfo]
  BY LockAssumption DEF IInv, TableOK
<1>2. \A s \in Resource, m \in {"S", "X"} : ~Asks(lockTable[s], t, m)
  <2>1. promise[t] # "pending"
    BY DEF Acquire, AcquireNow, AcquireWait
  <2> QED
    BY <2>1 DEF IInv, Asks, Queued
<1>3. CASE AcquireNow(t, r, mode)
  <2>1. promise' = [promise EXCEPT ![t] = "granted"] /\ promise \in [Tx -> Promise]
    BY <1>3 DEF AcquireNow, IInv
  <2>2. CASE AlreadyHolds(info, t, mode) /\ UNCHANGED lockTable
    BY <1>2, <2>1, <2>2
  <2>3. CASE ~AlreadyHolds(info, t, mode) /\ lockTable' = [lockTable EXCEPT ![r] = WithHolder(info, t, mode)]
    <3>1. \A s \in Resource, u \in Tx :
            lockTable'[s].holders[u] = IF s = r /\ u = t THEN mode ELSE lockTable[s].holders[u]
      BY <1>1, <2>3 DEF WithHolder, LockInfo
    <3>2. \A s \in Resource : lockTable'[s].waitQueue = lockTable[s].waitQueue
      BY <1>1, <2>3 DEF WithHolder, LockInfo
    <3>3. \A s \in Resource, u \in Tx, m \in {"S", "X"} : Asks(lockTable'[s], u, m) <=> Asks(lockTable[s], u, m)
      BY <3>2 DEF Asks
    <3>4. info.holders[t] # "X"
      BY <2>3 DEF AlreadyHolds
    <3> QED
      BY <1>2, <2>1, <3>1, <3>3, <3>4 DEF AlreadyHolds
  <2> QED
    BY <1>3, <2>2, <2>3 DEF AcquireNow
<1>4. CASE AcquireWait(t, r, mode)
  <2> DEFINE req == [tx |-> t, mode |-> mode]
             n == Len(info.waitQueue)
  <2>1. promise' = [promise EXCEPT ![t] = "pending"] /\ promise \in [Tx -> Promise]
    BY <1>4 DEF AcquireWait, IInv
  <2>2. lockTable' = [lockTable EXCEPT ![r] = Enqueue(info, t, mode)]
    BY <1>4 DEF AcquireWait
  <2>3. \A s \in Resource : lockTable'[s].holders = lockTable[s].holders
    BY <1>1, <2>2 DEF Enqueue, LockInfo
  <2>4. \A s \in Resource \ {r} : lockTable'[s].waitQueue = lockTable[s].waitQueue
    BY <1>1, <2>2
  <2>5. lockTable'[r].waitQueue = Append(info.waitQueue, req)
    BY <1>1, <2>2 DEF Enqueue, LockInfo
  <2>6. \A i \in 1..Len(lockTable'[r].waitQueue) :
          \/ i \in 1..n /\ lockTable'[r].waitQueue[i] = info.waitQueue[i]
          \/ lockTable'[r].waitQueue[i] = req
    <3>1. info.waitQueue \in Seq(LockRequest) /\ req \in LockRequest
      BY <1>1 DEF LockInfo, LockRequest
    <3>2. /\ n \in Nat /\ Len(lockTable'[r].waitQueue) = n + 1
          /\ lockTable'[r].waitQueue[n + 1] = req
          /\ \A i \in 1..n : lockTable'[r].waitQueue[i] = info.waitQueue[i]
      BY <2>5, <3>1, AppendProperties
    <3> HIDE DEF n, req, info
    <3> QED
      BY <3>2
  <2>7. \A s \in Resource, u \in Tx, m \in {"S", "X"} :
          Asks(lockTable'[s], u, m) => Asks(lockTable[s], u, m) \/ (s = r /\ u = t /\ m = mode)
    <3> SUFFICES ASSUME NEW s \in Resource, NEW u \in Tx, NEW m \in {"S", "X"}, Asks(lockTable'[s], u, m)
                 PROVE  Asks(lockTable[s], u, m) \/ (s = r /\ u = t /\ m = mode)
      OBVIOUS
    <3>1. CASE s = r
      <4>1. PICK i \in 1..Len(lockTable'[r].waitQueue) :
                   lockTable'[r].waitQueue[i] = [tx |-> u, mode |-> m]
        BY <3>1 DEF Asks
      <4> QED
        BY <2>6, <3>1, <4>1 DEF Asks
    <3>2. CASE s # r
      BY <2>4, <3>2 DEF Asks
    <3> QED
      BY <3>1, <3>2
  <2>8. promise'[t] = "pending" /\ \A u \in Tx \ {t} : promise'[u] = promise[u]
    BY <2>1
  <2>9. \A u \in Tx \ {t}, s \in Resource :
          /\ lockTable'[s].holders[u] = lockTable[s].holders[u]
          /\ \A m \in {"S", "X"} : Asks(lockTable'[s], u, m) => Asks(lockTable[s], u, m)
    BY <2>3, <2>7
  <2>10. \A s \in Resource, m \in {"S", "X"} : Asks(lockTable'[s], t, m) => s = r /\ m = mode
    BY <1>2, <2>7
  <2>11. \A s \in Resource : lockTable[s].holders[t] = "X" => lockTable'[s].holders[t] = "X"
    BY <2>3
  <2> QED
    BY <2>8, <2>9, <2>10, <2>11
<1> QED
  BY <1>3, <1>4 DEF Acquire

(* What a drain does to a transaction whose locks are not released: it keeps *)
(* them, and a request of its own that leaves a queue has been granted.      *)
LEMMA DrainEffect ==
  ASSUME IInv, IInv', NEW V, Drains(V), NEW u \in Tx \ V, NEW W, u \notin W,
         promise' = Settle(lockTable', W)
  PROVE  /\ \A s \in Resource, m \in {"S", "X"} :
              AlreadyHolds(lockTable[s], u, m) => AlreadyHolds(lockTable'[s], u, m)
         /\ \A s \in Resource, m \in {"S", "X"} : Asks(lockTable'[s], u, m) => Asks(lockTable[s], u, m)
         /\ promise'[u] # promise[u] =>
              /\ promise[u] = "pending" /\ promise'[u] = "granted"
              /\ \A s \in Resource, m \in {"S", "X"} :
                   Asks(lockTable[s], u, m) => AlreadyHolds(lockTable'[s], u, m)
<1>1. \A s \in Resource : /\ Follows(lockTable'[s], lockTable[s], V) /\ Sensible(lockTable[s])
                          /\ lockTable[s] \in LockInfo /\ lockTable'[s] \in LockInfo
  BY DEF Drains, IInv, TableOK
<1>2. ASSUME NEW s \in Resource, NEW m \in {"S", "X"}, AlreadyHolds(lockTable[s], u, m)
      PROVE  AlreadyHolds(lockTable'[s], u, m)
  <2>1. lockTable'[s].holders[u] \in {"none", "S", "X"} /\ lockTable[s].holders[u] \in {"none", "S", "X"}
    BY <1>1 DEF LockInfo
  <2>2. CASE lockTable'[s].holders[u] = lockTable[s].holders[u]
    BY <1>2, <2>2 DEF AlreadyHolds
  <2>3. CASE Asks(lockTable[s], u, lockTable'[s].holders[u])
    <3>1. lockTable'[s].holders[u] # "none"
      <4>1. \A i \in 1..Len(lockTable[s].waitQueue) : lockTable[s].waitQueue[i] \in LockRequest
        BY <1>1, ElementOfSeq DEF LockInfo
      <4> QED
        BY <2>3, <4>1 DEF Asks, LockRequest
    <3>2. ~AlreadyHolds(lockTable[s], u, lockTable'[s].holders[u])
      BY <1>1, <2>1, <2>3, <3>1 DEF Sensible
    <3> QED
      BY <1>2, <2>1, <3>1, <3>2 DEF AlreadyHolds
  <2> QED
    BY <1>1, <2>2, <2>3 DEF Follows
<1>3. \A s \in Resource, m \in {"S", "X"} : Asks(lockTable'[s], u, m) => Asks(lockTable[s], u, m)
  BY <1>1 DEF Follows
<1>4. ASSUME promise'[u] # promise[u]
      PROVE  /\ promise[u] = "pending" /\ promise'[u] = "granted"
             /\ \A s \in Resource, m \in {"S", "X"} :
                  Asks(lockTable[s], u, m) => AlreadyHolds(lockTable'[s], u, m)
  <2>1. promise[u] = "pending" /\ promise'[u] = "granted"
    BY <1>4 DEF Settle
  <2>2. \A s \in Resource : ~Queued(lockTable'[s], u)
    BY <2>1 DEF IInv
  <2>3. \A s \in Resource, m \in {"S", "X"} : ~Asks(lockTable'[s], u, m)
    BY <2>2 DEF Asks, Queued
  <2> QED
    BY <1>1, <2>1, <2>3 DEF Follows, AlreadyHolds
<1> QED
  BY <1>2, <1>3, <1>4

LEMMA LockInvStep ==
  ASSUME IInv, [LockNext]_lockVars
  PROVE  IInv'
<1>1. CASE UNCHANGED lockVars
  BY <1>1 DEF lockVars, IInv
<1>2. ASSUME NEW t \in Tx, NEW r \in Resource, NEW mode \in Mode, Acquire(t, r, mode)
      PROVE  IInv'
  BY <1>2, AcquireNowStep, AcquireWaitStep DEF Acquire
<1>3. ASSUME NEW t \in Tx, NEW r \in Resource, Release(t, r) \/ Timeout(t, r)
      PROVE  IInv'
  BY <1>3, ReleaseStep, TimeoutStep
<1>4. ASSUME NEW t \in Tx, ReleaseAll(t)
      PROVE  IInv'
  BY <1>4, ReleaseAllStep
<1>5. CASE Reset
  BY <1>5, ResetStep
<1> QED
  BY <1>1, <1>2, <1>3, <1>4, <1>5 DEF LockNext

LEMMA LockInitInv ==
  ASSUME LockInit
  PROVE  IInv
BY EmptyTableOK DEF LockInit, NoPromise, IInv, Promise

LEMMA LockInv == LockSpec => []IInv
<1>1. LockInit => IInv
  BY LockInitInv
<1>2. IInv /\ [LockNext]_lockVars => IInv'
  BY LockInvStep
<1> QED
  BY <1>1, <1>2, PTL DEF LockSpec

(* Type correctness of the lock table and of the promises. *)
THEOREM LockTypeCorrect == LockSpec => []LockTypeOK
<1>1. IInv => LockTypeOK
  BY DEF IInv, TableOK, LockTypeOK
<1> QED
  BY <1>1, LockInv, PTL

(* Mutual exclusion: whatever the calls and their order, two transactions    *)
(* hold a page at once only if both hold it shared.                          *)
THEOREM MutualExclusion == LockSpec => []LockCompatible
<1>1. IInv => LockCompatible
  BY DEF IInv, TableOK, Good, LockCompatible
<1> QED
  BY <1>1, LockInv, PTL

(* No lost wake-up: a queue whose front request could be granted never       *)
(* outlives the call that made it so.                                        *)
THEOREM NoLostWakeUp == LockSpec => []HeadIsBlocked
<1>1. IInv => HeadIsBlocked
  BY DEF IInv, TableOK, Good, HeadIsBlocked
<1> QED
  BY <1>1, LockInv, PTL

-----------------------------------------------------------------------------
(* A transaction has no request queued, or one. *)
LEMMA OnePlace ==
  ASSUME TableOK(lockTable), NEW t \in Tx
  PROVE  Cardinality(Places(t)) = IF \E r \in Resource : Queued(lockTable[r], t) THEN 1 ELSE 0
<1>1. CASE \A r \in Resource : ~Queued(lockTable[r], t)
  <2>1. Places(t) = {}
    BY <1>1 DEF Places, Queued
  <2> QED
    BY <1>1, <2>1, FS_EmptySet
<1>2. ASSUME NEW r \in Resource, Queued(lockTable[r], t)
      PROVE  Cardinality(Places(t)) = 1
  <2> DEFINE q(s) == lockTable[s].waitQueue
  <2>1. PICK i \in 1..Len(q(r)) : q(r)[i].tx = t
    BY <1>2 DEF Queued
  <2>2. ASSUME NEW s \in Resource, NEW j \in 1..Len(q(s)), q(s)[j].tx = t
        PROVE  s = r /\ j = i
    <3>1. s = r
      BY <1>2, <2>2 DEF TableOK, Queued
    <3>2. ~(i < j) /\ ~(j < i)
      BY <2>1, <2>2, <3>1 DEF TableOK, Sensible, Ahead
    <3>3. lockTable[r] \in LockInfo
      BY DEF TableOK
    <3> QED
      BY <2>1, <2>2, <3>1, <3>2, <3>3 DEF LockInfo
  <2>3. Places(t) = {<<r, i>>}
    <3>1. <<r, i>> \in Places(t)
      BY <2>1 DEF Places
    <3>2. \A x \in Places(t) : x = <<r, i>>
      BY <2>2 DEF Places
    <3> QED
      BY <3>1, <3>2
  <2> QED
    BY <2>3, FS_Singleton
<1> QED
  BY <1>1, <1>2

(* No orphan promise: a transaction awaits a promise exactly when one        *)
(* request of its own, and only one, is queued, after any mix of grants,     *)
(* drains, cancellations, timeouts and resets.                               *)
THEOREM NoOrphanPromise == LockSpec => []PendingIffQueued
<1>1. IInv => PendingIffQueued
  BY OnePlace DEF IInv, PendingIffQueued
<1> QED
  BY <1>1, LockInv, PTL

(* A drain lets nobody overtake. *)
LEMMA DrainsNoOvertaking ==
  ASSUME IInv, NEW V, Drains(V)
  PROVE  NoOvertakingStep
<1> SUFFICES ASSUME NEW r \in Resource, NEW t \in Tx, NEW u \in Tx,
                    lockTable'[r].holders[t] \notin {"none", lockTable[r].holders[t]},
                    Queued(lockTable'[r], u)
             PROVE  Ahead(lockTable[r], t, u)
  BY DEF NoOvertakingStep
<1> QED
  BY DEF Drains, Follows

LEMMA FirstServedStep ==
  ASSUME IInv, [LockNext]_lockVars
  PROVE  NoOvertakingStep
<1>1. CASE UNCHANGED lockVars
  BY <1>1 DEF lockVars, NoOvertakingStep
<1>2. ASSUME NEW t \in Tx, NEW r \in Resource, NEW mode \in Mode, AcquireNow(t, r, mode)
      PROVE  NoOvertakingStep
  <2> DEFINE info == lockTable[r]
  <2>1. CASE UNCHANGED lockTable
    BY <2>1 DEF NoOvertakingStep
  <2>2. CASE lockTable' # lockTable
    <3>1. /\ CanUpgrade(info, t, mode) \/ canGrant(info, t, mode)
          /\ lockTable' = [lockTable EXCEPT ![r] = WithHolder(info, t, mode)]
      BY <1>2, <2>2 DEF AcquireNow
    <3>2. info \in LockInfo
      BY DEF IInv, TableOK
    <3>3. \A s \in Resource, v \in Tx :
            lockTable'[s].holders[v] # lockTable[s].holders[v] => s = r /\ v = t
      BY <3>1, <3>2 DEF IInv, TableOK, WithHolder, LockInfo
    <3>4. ASSUME NEW u \in Tx, u # t, Queued(info, u)
          PROVE  CanUpgrade(info, t, "X")
      BY <3>1, <3>4 DEF canGrant, CanUpgrade, Queued
    <3> QED
      BY <3>3, <3>4 DEF NoOvertakingStep
  <2> QED
    BY <2>1, <2>2
<1>3. ASSUME NEW t \in Tx, NEW r \in Resource, NEW mode \in Mode, AcquireWait(t, r, mode)
      PROVE  NoOvertakingStep
  <2>1. \A s \in Resource : lockTable'[s].holders = lockTable[s].holders
    BY <1>3 DEF AcquireWait, Enqueue, IInv, TableOK, LockInfo
  <2> QED
    BY <2>1 DEF NoOvertakingStep
<1>4. ASSUME NEW t \in Tx, NEW r \in Resource, Release(t, r) \/ Timeout(t, r)
      PROVE  NoOvertakingStep
  BY <1>4, ReleaseStep, TimeoutStep, DrainsNoOvertaking
<1>5. ASSUME NEW t \in Tx, ReleaseAll(t)
      PROVE  NoOvertakingStep
  BY <1>5, ReleaseAllStep, DrainsNoOvertaking
<1>6. CASE Reset
  <2>1. \A r \in Resource, t \in Tx : lockTable'[r].holders[t] = "none"
    BY <1>6 DEF Reset, EmptyTable
  <2> QED
    BY <2>1 DEF NoOvertakingStep
<1> QED
  BY <1>1, <1>2, <1>3, <1>4, <1>5, <1>6 DEF LockNext, Acquire

(* First come, first served: only an upgrade by the sole holder passes a     *)
(* queued request.                                                           *)
THEOREM FirstComeFirstServed == LockSpec => NoOvertaking
<1>1. IInv /\ [LockNext]_lockVars => NoOvertakingStep
  BY FirstServedStep
<1> QED
  BY <1>1, LockInv, PTL DEF NoOvertaking, LockSpec
=============================================================================
