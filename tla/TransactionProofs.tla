------------------------- MODULE TransactionProofs -------------------------
(***************************************************************************)
(* Proofs about module TransactionManager, for every finite set of         *)
(* transactions and of pages, every capacity of the pool and every bound.  *)
(***************************************************************************)
EXTENDS TransactionManager, DetectorProofs

-----------------------------------------------------------------------------
(* The types of what the operators on the pool, the data file and the log   *)
(* return.                                                                  *)
UndoRecord == [page : Resource, before : Image]
Frame      == [page : Resource, image : Image, dirty : BOOLEAN]
PageWrite  == [page : Resource, image : Image]

PoolTypeOK == pool \in Seq(Frame) /\ disk \in [Resource -> Image]

LEMMA ResidentFrame ==
  ASSUME PoolTypeOK, NEW p, Resident(p)
  PROVE  \E i \in 1..Len(pool) : pool[i].page = p /\ FrameOf(p) = pool[i] /\ pool[i] \in Frame
<1>1. PICK i \in 1..Len(pool) : pool[i].page = p
  BY DEF Resident
<1> DEFINE j == CHOOSE j \in 1..Len(pool) : pool[j].page = p
<1>2. j \in 1..Len(pool) /\ pool[j].page = p
  BY <1>1
<1>3. \A k \in 1..Len(pool) : pool[k] \in Frame
  BY ElementOfSeq DEF PoolTypeOK
<1> HIDE DEF j
<1> QED
  BY <1>2, <1>3 DEF FrameOf, j

LEMMA ContentsType ==
  ASSUME PoolTypeOK, NEW p \in Resource
  PROVE  Contents(p) \in Image
<1>1. CASE Resident(p)
  <2>1. FrameOf(p).image \in Image
    BY <1>1, ResidentFrame DEF Frame
  <2> QED
    BY <1>1, <2>1 DEF Contents
<1>2. CASE ~Resident(p)
  BY <1>2 DEF Contents, PoolTypeOK
<1> QED
  BY <1>1, <1>2

LEMMA WithoutType ==
  ASSUME PoolTypeOK, NEW P
  PROVE  Without(P) \in Seq(Frame) /\ Len(Without(P)) <= Len(pool)
<1> DEFINE I == {i \in 1..Len(pool) : pool[i].page \notin P}
<1>1. pool \in Seq(Frame) /\ I \in SUBSET (1..Len(pool))
  BY DEF PoolTypeOK
<1>2. ElementsAt(pool, I) \in Seq(Frame) /\ Len(ElementsAt(pool, I)) <= Len(pool)
  <2> HIDE DEF I
  <2> QED
    BY <1>1, ElementsAtFacts
<1> QED
  BY <1>2 DEF Without

LEMMA PoolWithType ==
  ASSUME PoolTypeOK, NEW p \in Resource
  PROVE  /\ PoolWith(p) \in Seq(Frame) /\ PoolWith(p) # << >>
         /\ DiskAfterFetch(p) \in [Resource -> Image]
<1>1. CASE Resident(p)
  <2>1. FrameOf(p) \in Frame
    BY <1>1, ResidentFrame
  <2>2. Without({p}) \in Seq(Frame)
    BY WithoutType
  <2>3. PoolWith(p) = Append(Without({p}), FrameOf(p))
    BY <1>1 DEF PoolWith
  <2>4. DiskAfterFetch(p) = disk /\ disk \in [Resource -> Image]
    BY <1>1 DEF DiskAfterFetch, Evicts, PoolTypeOK
  <2>5. \A q \in Seq(Frame) : \A f \in Frame : Append(q, f) \in Seq(Frame) /\ Append(q, f) # << >>
    <3> TAKE q \in Seq(Frame)
    <3> TAKE f \in Frame
    <3>1. Len(Append(q, f)) = Len(q) + 1 /\ Len(q) \in Nat /\ Append(q, f) \in Seq(Frame)
      OBVIOUS
    <3> QED
      BY <3>1
  <2> QED
    BY <2>1, <2>2, <2>3, <2>4, <2>5
<1>2. CASE ~Resident(p)
  <2> DEFINE f == [page |-> p, image |-> disk[p], dirty |-> FALSE]
             rest == IF Evicts(p) THEN Tail(pool) ELSE pool
  <2>0. Evicts(p) => pool # << >>
    BY FramesAssumption DEF Evicts
  <2>1. f \in Frame
    BY DEF Frame, PoolTypeOK
  <2>2. rest \in Seq(Frame)
    BY <2>0 DEF PoolTypeOK
  <2>3. PoolWith(p) = Append(rest, f)
    BY <1>2 DEF PoolWith
  <2>4. DiskAfterFetch(p) \in [Resource -> Image]
    <3>1. pool # << >> => Head(pool) \in Frame
      BY DEF PoolTypeOK
    <3> QED
      BY <2>0, <3>1 DEF DiskAfterFetch, PoolTypeOK, Frame
  <2> HIDE DEF f, rest
  <2> QED
    BY <2>1, <2>2, <2>3, <2>4
<1> QED
  BY <1>1, <1>2

LEMMA FetchType ==
  ASSUME PoolTypeOK, NEW p \in Resource, fetchPage(p)
  PROVE  PoolTypeOK'
BY PoolWithType DEF fetchPage, PoolTypeOK

LEMMA ModifyType ==
  ASSUME PoolTypeOK, NEW p \in Resource, NEW image \in Image, modifyPage(p, image)
  PROVE  PoolTypeOK'
<1> DEFINE w == PoolWith(p)
           f == [page |-> p, image |-> image, dirty |-> TRUE]
<1>1. w \in Seq(Frame) /\ w # << >> /\ DiskAfterFetch(p) \in [Resource -> Image]
  BY PoolWithType
<1>2. f \in Frame
  BY DEF Frame
<1>3. pool' = [w EXCEPT ![Len(w)] = f] /\ disk' = DiskAfterFetch(p)
  BY DEF modifyPage
<1> HIDE DEF w, f
<1>4. [w EXCEPT ![Len(w)] = f] \in Seq(Frame)
  BY <1>1, <1>2
<1> QED
  BY <1>1, <1>3, <1>4 DEF PoolTypeOK

LEMMA FlushedType ==
  ASSUME PoolTypeOK, NEW P
  PROVE  Flushed(P) \in [Resource -> Image] /\ Cleaned(P) \in Seq(Frame)
<1>1. \A p \in Resource : Resident(p) => FrameOf(p).image \in Image
  BY ResidentFrame DEF Frame
<1>2. Flushed(P) \in [Resource -> Image]
  BY <1>1 DEF Flushed, isDirty, PoolTypeOK
<1>3. \A i \in 1..Len(pool) : pool[i] \in Frame /\ [pool[i] EXCEPT !.dirty = FALSE] \in Frame
  <2> TAKE i \in 1..Len(pool)
  <2>1. pool[i] \in Frame
    BY ElementOfSeq DEF PoolTypeOK
  <2> QED
    BY <2>1 DEF Frame
<1>4. Len(pool) \in Nat
  BY DEF PoolTypeOK
<1>5. Cleaned(P) \in Seq(Frame)
  BY <1>3, <1>4 DEF Cleaned
<1> QED
  BY <1>2, <1>5

LEMMA WrittenType ==
  ASSUME NEW file \in [Resource -> Image], NEW writes \in Seq(PageWrite)
  PROVE  Written(file, writes) \in [Resource -> Image]
<1> SUFFICES ASSUME NEW p \in Resource
             PROVE  Written(file, writes)[p] \in Image
  BY DEF Written
<1> DEFINE mine == {i \in 1..Len(writes) : writes[i].page = p}
<1>1. mine # {} => writes[Max(mine)].image \in Image
  <2> SUFFICES ASSUME mine # {}
               PROVE  writes[Max(mine)].image \in Image
    OBVIOUS
  <2>1. Max(mine) \in 1..Len(writes)
    <3> DEFINE n == Len(writes)
    <3>1. mine \in SUBSET (0..n) /\ n \in Nat
      OBVIOUS
    <3> HIDE DEF n
    <3>2. Max(mine) \in mine
      BY <3>1, MaxInInterval
    <3> QED
      BY <3>2
  <2>2. writes[Max(mine)] \in PageWrite
    BY <2>1, ElementOfSeq
  <2> QED
    BY <2>2 DEF PageWrite
<1> QED
  BY <1>1 DEF Written

(* A log: its UPDATE records name a page and have its images. *)
LogOK(w) ==
  /\ \E R : w \in Seq(R)
  /\ \A i \in 1..Len(w) : w[i].type = "UPDATE" =>
       w[i].page \in Resource /\ w[i].before \in Image /\ w[i].after \in Image

LEMMA AppendLog ==
  ASSUME NEW w, LogOK(w), NEW r,
         r.type = "UPDATE" => r.page \in Resource /\ r.before \in Image /\ r.after \in Image
  PROVE  /\ LogOK(Append(w, r))
         /\ Len(w) \in Nat /\ Len(Append(w, r)) = Len(w) + 1 /\ Append(w, r)[Len(w) + 1] = r
         /\ \A i \in 1..Len(w) : Append(w, r)[i] = w[i]
<1>1. PICK R : w \in Seq(R)
  BY DEF LogOK
<1>2. w \in Seq(R \cup {r}) /\ r \in R \cup {r}
  <2>1. Len(w) \in Nat /\ w = [i \in 1..Len(w) |-> w[i]] /\ \A i \in 1..Len(w) : w[i] \in R
    BY <1>1
  <2> QED
    BY <2>1
<1>3. /\ Append(w, r) \in Seq(R \cup {r})
      /\ Len(w) \in Nat /\ Len(Append(w, r)) = Len(w) + 1 /\ Append(w, r)[Len(w) + 1] = r
      /\ \A i \in 1..Len(w) : Append(w, r)[i] = w[i]
  BY <1>2
<1>4. \A i \in 1..(Len(w) + 1) : i \in 1..Len(w) \/ i = Len(w) + 1
  BY <1>3
<1>5. ASSUME NEW i \in 1..(Len(w) + 1), Append(w, r)[i].type = "UPDATE"
      PROVE  /\ Append(w, r)[i].page \in Resource
             /\ Append(w, r)[i].before \in Image /\ Append(w, r)[i].after \in Image
  BY <1>3, <1>4, <1>5 DEF LogOK
<1>6. LogOK(Append(w, r))
  BY <1>3, <1>5 DEF LogOK
<1> QED
  BY <1>3, <1>6

(* The same of a record other than an UPDATE.                                 *)
NoUpdate(r) == r.type # "UPDATE"

LEMMA AppendOther ==
  ASSUME NEW w, LogOK(w), NEW r, NoUpdate(r)
  PROVE  /\ LogOK(Append(w, r))
         /\ Len(w) \in Nat /\ Len(Append(w, r)) = Len(w) + 1 /\ Append(w, r)[Len(w) + 1] = r
         /\ \A i \in 1..Len(w) : Append(w, r)[i] = w[i]
<1>1. r.type # "UPDATE"
  BY DEF NoUpdate
<1> QED
  BY <1>1, AppendLog

(* A part of a log is a log. *)
LEMMA ReadableLog ==
  ASSUME NEW w, LogOK(w)
  PROVE  LogOK(readAll(w))
<1> DEFINE torn == {i \in 1..Len(w) : w[i].type = "TORN"}
<1>1. PICK R : w \in Seq(R)
  BY DEF LogOK
<1>2. CASE torn = {}
  BY <1>2 DEF readAll
<1>3. CASE torn # {}
  <2> DEFINE m == Min(torn)
  <2>1. m \in 1..Len(w)
    <3>1. \A i \in torn : i \in Int
      OBVIOUS
    <3>2. IsFiniteSet(torn)
      <4> DEFINE N == 1..Len(w)
      <4>1. IsFiniteSet(N) /\ torn \in SUBSET N
        BY <1>1, FS_Interval
      <4> HIDE DEF N, torn
      <4> QED
        BY <4>1, FS_Subset
    <3>3. m \in torn
      <4> HIDE DEF torn
      <4> QED
        BY <1>3, <3>1, <3>2, LeastMember
    <3> QED
      BY <3>3
  <2>2. readAll(w) = SubSeq(w, 1, m - 1)
    BY <1>3 DEF readAll
  <2> HIDE DEF m
  <2>3. /\ SubSeq(w, 1, m - 1) \in Seq(R) /\ Len(SubSeq(w, 1, m - 1)) = m - 1
        /\ \A i \in 1..(m - 1) : SubSeq(w, 1, m - 1)[i] = w[i]
    BY <1>1, <2>1
  <2>4. \A i \in 1..(m - 1) : i \in 1..Len(w)
    BY <2>1
  <2> QED
    BY <2>2, <2>3, <2>4 DEF LogOK
<1> QED
  BY <1>2, <1>3

(* The updates of a log, in the order of the log. *)
LEMMA UpdatesType ==
  ASSUME NEW w, LogOK(w), NEW txs
  PROVE  /\ \E R : UpdatesOf(w, txs) \in Seq(R)
         /\ \A k \in 1..Len(UpdatesOf(w, txs)) :
              LET u == UpdatesOf(w, txs)[k]
              IN  u.page \in Resource /\ u.before \in Image /\ u.after \in Image
<1> DEFINE I == {i \in 1..Len(w) : w[i].type = "UPDATE" /\ w[i].tx \in txs}
           s == UpdatesOf(w, txs)
<1>1. PICK R : w \in Seq(R)
  BY DEF LogOK
<1>2. s = ElementsAt(w, I) /\ I \in SUBSET (1..Len(w))
  BY DEF UpdatesOf
<1>3. /\ s \in Seq(R) /\ Len(s) = Cardinality(I)
      /\ Ascending(I) \in [1..Cardinality(I) -> I]
      /\ \A k \in 1..Cardinality(I) : s[k] = w[Ascending(I)[k]]
  <2> HIDE DEF I, s
  <2> QED
    BY <1>1, <1>2, ElementsAtFacts
<1>4. \A i \in I : w[i].page \in Resource /\ w[i].before \in Image /\ w[i].after \in Image
  BY DEF LogOK
<1> HIDE DEF I, s
<1>5. \A k \in 1..Len(s) : s[k].page \in Resource /\ s[k].before \in Image /\ s[k].after \in Image
  BY <1>3, <1>4
<1> QED
  BY <1>3, <1>5 DEF s

LEMMA RecoveryWritesType ==
  ASSUME NEW w, LogOK(w)
  PROVE  /\ RecoveryWrites(w) \in Seq(PageWrite)
         /\ redo(w) \in Seq(PageWrite) /\ undo(w) \in Seq(PageWrite)
<1>1. redo(w) \in Seq(PageWrite)
  <2> DEFINE s == UpdatesOf(w, winners(w))
  <2>1. /\ \E R : s \in Seq(R)
        /\ \A k \in 1..Len(s) : s[k].page \in Resource /\ s[k].after \in Image
    BY UpdatesType
  <2>2. redo(w) = [k \in 1..Len(s) |-> [page |-> s[k].page, image |-> s[k].after]]
    BY DEF redo
  <2>3. \A k \in 1..Len(s) : [page |-> s[k].page, image |-> s[k].after] \in PageWrite
    BY <2>1 DEF PageWrite
  <2>4. Len(s) \in Nat
    BY <2>1
  <2> HIDE DEF s
  <2> QED
    BY <2>2, <2>3, <2>4
<1>2. undo(w) \in Seq(PageWrite)
  <2> DEFINE s == UpdatesOf(w, losers(w))
             r == Reverse(s)
  <2>1. /\ \E R : s \in Seq(R)
        /\ \A k \in 1..Len(s) : s[k].page \in Resource /\ s[k].before \in Image
    BY UpdatesType
  <2>2. undo(w) = [k \in 1..Len(r) |-> [page |-> r[k].page, image |-> r[k].before]]
    BY DEF undo
  <2>3. Len(s) \in Nat
    BY <2>1
  <2> HIDE DEF s
  <2>4. r = [k \in 1..Len(s) |-> s[(Len(s) - k) + 1]] /\ Len(r) = Len(s)
    BY <2>3 DEF Reverse
  <2>5. \A k \in 1..Len(s) : (Len(s) - k) + 1 \in 1..Len(s)
    BY <2>3
  <2>6. \A k \in 1..Len(r) : [page |-> r[k].page, image |-> r[k].before] \in PageWrite
    BY <2>1, <2>4, <2>5 DEF PageWrite
  <2> HIDE DEF r
  <2> QED
    BY <2>2, <2>3, <2>4, <2>6
<1> QED
  BY <1>1, <1>2 DEF RecoveryWrites

-----------------------------------------------------------------------------
(* The types of the whole state, whatever the locks are. *)
MemoryTypeOK ==
  /\ txState \in [Tx -> TxState]
  /\ want \in [Tx -> Access \cup {NoAccess}]
  /\ undoLog \in [Tx -> Seq(UndoRecord)]
  /\ deadlockVictims \subseteq Tx
  /\ nextTxId \in Nat
  /\ up \in BOOLEAN /\ boot \in 1..MaxBoots

(* Every before-image kept has an UPDATE record in the log. *)
UndoIsLogged == \A t \in Tx : Len(undoLog[t]) <= Cardinality(Records("UPDATE"))

TypeInv == MemoryTypeOK /\ PoolTypeOK /\ LogOK(wal) /\ UndoIsLogged

LEMMA AccessFacts ==
  /\ NoAccess \notin Access
  /\ \A op \in {"read", "write"}, p \in Resource : [op |-> op, page |-> p] \in Access
  /\ \A a \in Access : a.op \in {"read", "write"} /\ a.page \in Resource
BY DEF Access, NoAccess

LEMMA RestoresType ==
  ASSUME NEW t \in Tx, undoLog \in [Tx -> Seq(UndoRecord)]
  PROVE  /\ Restores(t) \in Seq(PageWrite) /\ Len(Restores(t)) = Len(undoLog[t])
         /\ \A n \in 0..Len(undoLog[t]) : SubSeq(Restores(t), 1, n) \in Seq(PageWrite)
<1> DEFINE s == undoLog[t]
           r == Reverse(s)
<1>1. s \in Seq(UndoRecord) /\ Len(s) \in Nat
  OBVIOUS
<1>2. Restores(t) = [k \in 1..Len(r) |-> [page |-> r[k].page, image |-> r[k].before]]
  BY DEF Restores
<1>3. \A k \in 1..Len(s) : s[k].page \in Resource /\ s[k].before \in Image
  <2> TAKE k \in 1..Len(s)
  <2>1. s[k] \in UndoRecord
    BY <1>1, ElementOfSeq
  <2> QED
    BY <2>1 DEF UndoRecord
<1> HIDE DEF s
<1>4. r = [k \in 1..Len(s) |-> s[(Len(s) - k) + 1]] /\ Len(r) = Len(s)
  BY <1>1 DEF Reverse
<1>5. \A k \in 1..Len(s) : (Len(s) - k) + 1 \in 1..Len(s)
  BY <1>1
<1>6. \A k \in 1..Len(r) : [page |-> r[k].page, image |-> r[k].before] \in PageWrite
  BY <1>3, <1>4, <1>5 DEF PageWrite
<1> HIDE DEF r
<1>7. Restores(t) \in Seq(PageWrite) /\ Len(Restores(t)) = Len(s)
  BY <1>1, <1>2, <1>4, <1>6
<1>8. \A n \in 0..Len(s) : SubSeq(Restores(t), 1, n) \in Seq(PageWrite)
  BY <1>1, <1>7
<1> QED
  BY <1>7, <1>8 DEF s

LEMMA RecordsNat ==
  ASSUME NEW w, LogOK(w), NEW type
  PROVE  Cardinality({i \in 1..Len(w) : w[i].type = type}) \in Nat
<1> DEFINE N == 1..Len(w)
           U == {i \in 1..Len(w) : w[i].type = type}
<1>1. Len(w) \in Nat
  BY DEF LogOK
<1>2. IsFiniteSet(N) /\ U \in SUBSET N
  BY <1>1, FS_Interval
<1> HIDE DEF N, U
<1>3. Cardinality(U) \in Nat
  BY <1>2, FS_Subset, FS_CardinalityType
<1> QED
  BY <1>3 DEF U

(* Appending to the log does not lose UPDATE records. *)
LEMMA RecordsGrow ==
  ASSUME LogOK(wal), NEW r, wal' = Append(wal, r)
  PROVE  /\ Records("UPDATE") \subseteq Records("UPDATE")'
         /\ r.type = "UPDATE" => Len(wal) + 1 \in Records("UPDATE")'
         /\ Cardinality(Records("UPDATE")) \in Nat
         /\ Cardinality(Records("UPDATE")') \in Nat
         /\ Cardinality(Records("UPDATE")) <= Cardinality(Records("UPDATE")')
         /\ r.type = "UPDATE" => Cardinality(Records("UPDATE")) < Cardinality(Records("UPDATE")')
<1> DEFINE old == {i \in 1..Len(wal) : wal[i].type = "UPDATE"}
           new == {i \in 1..Len(wal') : wal'[i].type = "UPDATE"}
           a == Append(wal, r)
<1>1. /\ Len(wal) \in Nat /\ Len(a) = Len(wal) + 1 /\ a[Len(wal) + 1] = r
      /\ \A i \in 1..Len(wal) : a[i] = wal[i]
  <2>1. PICK R : wal \in Seq(R)
    BY DEF LogOK
  <2>2. wal \in Seq(R \cup {r}) /\ r \in R \cup {r}
    <3>1. Len(wal) \in Nat /\ wal = [i \in 1..Len(wal) |-> wal[i]] /\ \A i \in 1..Len(wal) : wal[i] \in R
      BY <2>1
    <3> QED
      BY <3>1
  <2> QED
    BY <2>2
<1>2. wal' = a
  OBVIOUS
<1> HIDE DEF a
<1>3. old \subseteq new /\ old \in SUBSET new
  BY <1>1, <1>2
<1>4. r.type = "UPDATE" => Len(wal) + 1 \in new /\ Len(wal) + 1 \notin old
  BY <1>1, <1>2
<1>5. IsFiniteSet(new) /\ IsFiniteSet(old)
  <2> DEFINE N == 1..Len(wal')
  <2>1. IsFiniteSet(N) /\ new \in SUBSET N
    BY <1>1, <1>2, FS_Interval
  <2> HIDE DEF N, new, old
  <2> QED
    BY <1>3, <2>1, FS_Subset
<1> HIDE DEF old, new
<1>6. Cardinality(old) \in Nat /\ Cardinality(new) \in Nat
  BY <1>5, FS_CardinalityType
<1>7. Cardinality(old) <= Cardinality(new)
  BY <1>3, <1>5, FS_Subset
<1>8. r.type = "UPDATE" => Cardinality(old) # Cardinality(new)
  BY <1>3, <1>4, <1>5, FS_Subset
<1>9. Records("UPDATE") = old /\ Records("UPDATE")' = new
  BY DEF Records, old, new
<1> QED
  BY <1>3, <1>4, <1>6, <1>7, <1>8, <1>9

(* The records a recovery appends, all of them ABORTs. *)
LEMMA TxOfFinite ==
  ASSUME NEW w, LogOK(w), NEW type
  PROVE  IsFiniteSet(TxOf(w, type))
<1> DEFINE J == {j \in 1..Len(w) : w[j].type = type}
           f == [j \in J |-> w[j].tx]
<1>1. IsFiniteSet(J)
  <2> DEFINE N == 1..Len(w)
  <2>1. Len(w) \in Nat
    BY DEF LogOK
  <2>2. IsFiniteSet(N) /\ J \in SUBSET N
    BY <2>1, FS_Interval
  <2> HIDE DEF N, J
  <2> QED
    BY <2>2, FS_Subset
<1>2. TxOf(w, type) = {f[j] : j \in J}
  BY DEF TxOf
<1> HIDE DEF J, f
<1> QED
  BY <1>1, <1>2, FiniteImage

LEMMA AbortRecordsType ==
  ASSUME NEW w, LogOK(w)
  PROVE  /\ \E R : AbortRecords(w) \in Seq(R)
         /\ \A k \in 1..Len(AbortRecords(w)) : AbortRecords(w)[k].type = "ABORT"
<1> DEFINE L == losers(w)
           order == Ascending(L)
           a == AbortRecords(w)
           Abort(t) == [type |-> "ABORT", tx |-> t]
<1>1. Cardinality(L) \in Nat
  <2>1. IsFiniteSet(TxOf(w, "BEGIN")) /\ L \in SUBSET TxOf(w, "BEGIN")
    BY TxOfFinite DEF losers
  <2> HIDE DEF L
  <2> QED
    BY <2>1, FS_Subset, FS_CardinalityType
<1>2. Len(order) = Cardinality(L)
  BY <1>1 DEF Ascending
<1>3. a = [k \in 1..Len(order) |-> Abort(order[k])]
  BY DEF AbortRecords
<1> HIDE DEF L, order, a
<1>4. a \in Seq({Abort(order[k]) : k \in 1..Len(order)}) /\ Len(a) = Len(order)
  BY <1>1, <1>2, <1>3
<1>5. \A k \in 1..Len(a) : a[k].type = "ABORT"
  BY <1>3, <1>4
<1> QED
  BY <1>4, <1>5 DEF a

LEMMA LogConcat ==
  ASSUME NEW w, LogOK(w), NEW R, NEW s \in Seq(R), \A k \in 1..Len(s) : s[k].type = "ABORT"
  PROVE  /\ LogOK(w \o s)
         /\ Len(w) \in Nat /\ Len(w \o s) = Len(w) + Len(s)
         /\ \A i \in 1..Len(w) : (w \o s)[i] = w[i]
         /\ \A i \in 1..Len(w \o s) : i \notin 1..Len(w) => (w \o s)[i].type = "ABORT"
<1>1. PICK Q : w \in Seq(Q)
  BY DEF LogOK
<1>2. w \in Seq(Q \cup R) /\ s \in Seq(Q \cup R)
  <2>1. w \in Seq(Q \cup R)
    <3>1. Len(w) \in Nat /\ w = [i \in 1..Len(w) |-> w[i]] /\ \A i \in 1..Len(w) : w[i] \in Q
      BY <1>1
    <3> QED
      BY <3>1
  <2>2. s \in Seq(Q \cup R)
    <3>1. Len(s) \in Nat /\ s = [i \in 1..Len(s) |-> s[i]] /\ \A i \in 1..Len(s) : s[i] \in R
      OBVIOUS
    <3> QED
      BY <3>1
  <2> QED
    BY <2>1, <2>2
<1>3. /\ w \o s \in Seq(Q \cup R)
      /\ Len(w) \in Nat /\ Len(s) \in Nat /\ Len(w \o s) = Len(w) + Len(s)
      /\ \A i \in 1..Len(w \o s) : (w \o s)[i] = IF i <= Len(w) THEN w[i] ELSE s[i - Len(w)]
  BY <1>2, ConcatProperties
<1>4. \A i \in 1..Len(w) : (w \o s)[i] = w[i]
  BY <1>3
<1>5. \A i \in 1..Len(w \o s) : i \notin 1..Len(w) => (w \o s)[i].type = "ABORT"
  <2> TAKE i \in 1..Len(w \o s)
  <2> HAVE i \notin 1..Len(w)
  <2>1. i - Len(w) \in 1..Len(s) /\ ~(i <= Len(w))
    BY <1>3
  <2> QED
    BY <1>3, <2>1
<1>6. ASSUME NEW i \in 1..Len(w \o s), (w \o s)[i].type = "UPDATE"
      PROVE  /\ (w \o s)[i].page \in Resource
             /\ (w \o s)[i].before \in Image /\ (w \o s)[i].after \in Image
  <2>1. i \in 1..Len(w)
    BY <1>5, <1>6
  <2> QED
    BY <1>4, <1>6, <2>1 DEF LogOK
<1>7. LogOK(w \o s)
  BY <1>3, <1>6 DEF LogOK
<1> QED
  BY <1>3, <1>4, <1>5, <1>7

(* A recovery appends ABORT records, the last of which may be torn. *)
LEMMA StartLog ==
  ASSUME LogOK(wal), NEW n, NEW k \in Nat, start(n, k)
  PROVE  /\ LogOK(wal')
         /\ Len(wal) \in Nat /\ Len(wal') \in Nat /\ Len(wal) <= Len(wal')
         /\ \A i \in 1..Len(wal) : wal'[i] = wal[i]
         /\ \A i \in 1..Len(wal') : i \notin 1..Len(wal) => wal'[i].type \in {"ABORT", "TORN"}
<1> DEFINE a == AbortRecords(readAll(wal))
           s == SubSeq(a, 1, k)
           logged == wal \o s
<1>1. PICK R : a \in Seq(R) /\ \A j \in 1..Len(a) : a[j].type = "ABORT"
  <2>1. LogOK(readAll(wal))
    BY ReadableLog
  <2> QED
    BY <2>1, AbortRecordsType
<1>2. k <= Len(a)
  BY DEF start
<1>3. s \in Seq(R) /\ \A j \in 1..Len(s) : s[j].type = "ABORT"
  <2> HIDE DEF a
  <2>1. s \in Seq(R) /\ Len(s) = k /\ \A j \in 1..k : s[j] = a[j]
    BY <1>1, <1>2
  <2>2. \A j \in 1..k : j \in 1..Len(a)
    BY <1>1, <1>2
  <2> QED
    BY <1>1, <2>1, <2>2
<1>4. wal' = logged \/ wal' = Append(logged, Torn)
  BY DEF start
<1> HIDE DEF a, s
<1>5. /\ LogOK(logged) /\ Len(wal) \in Nat /\ Len(logged) = Len(wal) + Len(s)
      /\ \A i \in 1..Len(wal) : logged[i] = wal[i]
      /\ \A i \in 1..Len(logged) : i \notin 1..Len(wal) => logged[i].type = "ABORT"
  BY <1>3, LogConcat
<1>6. Len(s) \in Nat
  BY <1>3
<1> HIDE DEF logged
<1>7. CASE wal' = logged
  BY <1>5, <1>6, <1>7
<1>8. CASE wal' = Append(logged, Torn)
  <2>1. Torn.type = "TORN"
    BY DEF Torn
  <2>6. ~(Torn.type = "UPDATE") /\ LogOK(logged)
    BY <1>5, <2>1
  <2>7. PICK c : c = Append(logged, Torn)
    OBVIOUS
  <2>8. /\ LogOK(c) /\ Len(c) = Len(logged) + 1 /\ c[Len(logged) + 1] = Torn
        /\ \A i \in 1..Len(logged) : c[i] = logged[i]
    BY <2>6, <2>7, AppendLog
  <2>2. /\ LogOK(wal') /\ Len(wal') = Len(logged) + 1 /\ wal'[Len(logged) + 1] = Torn
        /\ \A i \in 1..Len(logged) : wal'[i] = logged[i]
    BY <1>8, <2>7, <2>8
  <2>3. \A i \in 1..Len(wal') : i \in 1..Len(logged) \/ i = Len(logged) + 1
    BY <1>5, <1>6, <2>2
  <2>4. \A i \in 1..Len(wal') : i \notin 1..Len(wal) => wal'[i].type \in {"ABORT", "TORN"}
    BY <1>5, <2>1, <2>2, <2>3
  <2>5. \A i \in 1..Len(wal) : wal'[i] = wal[i]
    BY <1>5, <1>6, <2>2
  <2> QED
    BY <1>5, <1>6, <2>2, <2>4, <2>5
<1> QED
  BY <1>4, <1>7, <1>8

(* Nothing is in memory while the engine is down. *)
Down ==
  ~up => /\ pool = << >>
         /\ \A t \in Tx : txState[t] = "unborn" /\ want[t] = NoAccess /\ undoLog[t] = << >>

(* The image an update leaves is one of the images, since the log bounds the *)
(* writes of each transaction.                                               *)
LEMMA WriteImages ==
  ASSUME TypeInv, NEW t \in Tx, NEW p \in Resource, Cardinality(Records("UPDATE")) < MaxWrites
  PROVE  Contents(p) \cup {<<boot, t, Len(undoLog[t]) + 1>>} \in Image
<1>1. Contents(p) \in Image
  BY ContentsType DEF TypeInv
<1>2. Len(undoLog[t]) \in Nat
  BY DEF TypeInv, MemoryTypeOK
<1>3. Cardinality(Records("UPDATE")) \in Nat
  BY RecordsNat DEF TypeInv, Records
<1>4. Len(undoLog[t]) + 1 \in 1..MaxWrites
  BY <1>2, <1>3, TransactionAssumption DEF TypeInv, UndoIsLogged
<1>5. <<boot, t, Len(undoLog[t]) + 1>> \in Update
  BY <1>4 DEF TypeInv, MemoryTypeOK, Update
<1> QED
  BY <1>1, <1>5 DEF Image

(* The process dies, wherever it was. *)
LEMMA DiesStep ==
  ASSUME TypeInv, Dies, LogOK(wal'), disk' \in [Resource -> Image]
  PROVE  TypeInv' /\ Down'
<1>1. MemoryTypeOK'
  <2>1. undoLog' \in [Tx -> Seq(UndoRecord)]
    BY DEF Dies
  <2>2. txState' \in [Tx -> TxState] /\ want' \in [Tx -> Access \cup {NoAccess}]
    BY DEF Dies, TxState
  <2>3. deadlockVictims' \subseteq Tx /\ nextTxId' \in Nat /\ up' \in BOOLEAN
    BY DEF Dies
  <2>4. boot' \in 1..MaxBoots
    BY DEF Dies, TypeInv, MemoryTypeOK
  <2> QED
    BY <2>1, <2>2, <2>3, <2>4 DEF MemoryTypeOK
<1>2. pool' \in Seq(Frame)
  BY DEF Dies
<1>3. UndoIsLogged'
  <2>1. Cardinality(Records("UPDATE")') \in Nat
    BY RecordsNat DEF Records
  <2>2. \A t \in Tx : Len(undoLog'[t]) = 0
    BY DEF Dies
  <2> QED
    BY <2>1, <2>2 DEF UndoIsLogged
<1>4. Down'
  BY DEF Dies, Down
<1> QED
  BY <1>1, <1>2, <1>3, <1>4 DEF TypeInv, PoolTypeOK

(* A turn that appends a record other than an UPDATE, and adds nothing to    *)
(* undo.                                                                     *)
LEMMA LogStep ==
  ASSUME TypeInv, NEW r, Log(r), r.type # "UPDATE",
         \A t \in Tx : undoLog'[t] = undoLog[t] \/ undoLog'[t] = << >>
  PROVE  LogOK(wal') /\ UndoIsLogged'
<1>1. LogOK(wal')
  BY AppendLog DEF TypeInv, Log
<1>2. /\ Cardinality(Records("UPDATE")) \in Nat /\ Cardinality(Records("UPDATE")') \in Nat
      /\ Cardinality(Records("UPDATE")) <= Cardinality(Records("UPDATE")')
  BY RecordsGrow DEF TypeInv, Log
<1>3. ASSUME NEW t \in Tx
      PROVE  Len(undoLog'[t]) <= Cardinality(Records("UPDATE")')
  <2>1. Len(undoLog[t]) \in Nat /\ Len(undoLog[t]) <= Cardinality(Records("UPDATE"))
    BY DEF TypeInv, MemoryTypeOK, UndoIsLogged
  <2>2. CASE undoLog'[t] = undoLog[t]
    BY <1>2, <2>1, <2>2
  <2>3. CASE undoLog'[t] = << >>
    BY <1>2, <2>3
  <2> QED
    BY <2>2, <2>3
<1> QED
  BY <1>1, <1>3 DEF UndoIsLogged

(* The same of two such records, the COMMIT and the ABORT of a transaction.   *)
LEMMA TwoRecords ==
  ASSUME NEW v, LogOK(v), NEW r, NEW q, NoUpdate(r), NoUpdate(q)
  PROVE  LET w == Append(Append(v, r), q)
         IN  /\ LogOK(w)
             /\ Len(v) \in Nat /\ Len(w) = Len(v) + 2
             /\ \A i \in 1..Len(v) : w[i] = v[i]
             /\ w[Len(v) + 1] = r /\ w[Len(v) + 2] = q
<1> DEFINE u == Append(v, r)
           w == Append(u, q)
<1>1. /\ LogOK(u) /\ Len(v) \in Nat /\ Len(u) = Len(v) + 1 /\ u[Len(v) + 1] = r
      /\ \A i \in 1..Len(v) : u[i] = v[i]
  BY AppendOther
<1> HIDE DEF u
<1>2. /\ LogOK(w) /\ Len(w) = Len(u) + 1 /\ w[Len(u) + 1] = q
      /\ \A i \in 1..Len(u) : w[i] = u[i]
  BY <1>1, AppendOther
<1> HIDE DEF w
<1>3. /\ Len(w) = Len(v) + 2 /\ w[Len(v) + 2] = q /\ w[Len(v) + 1] = r
      /\ \A i \in 1..Len(v) : w[i] = v[i]
  BY <1>1, <1>2
<1> QED
  BY <1>1, <1>2, <1>3 DEF w, u

LEMMA TwoRecordsStep ==
  ASSUME TypeInv, NEW r, NEW q, wal' = Append(Append(wal, r), q),
         NoUpdate(r), NoUpdate(q),
         \A t \in Tx : undoLog'[t] = undoLog[t] \/ undoLog'[t] = << >>
  PROVE  LogOK(wal') /\ UndoIsLogged'
<1> DEFINE old == {i \in 1..Len(wal) : wal[i].type = "UPDATE"}
           new == {i \in 1..Len(wal') : wal'[i].type = "UPDATE"}
<1>1. /\ LogOK(wal') /\ Len(wal) \in Nat /\ Len(wal') = Len(wal) + 2
      /\ \A i \in 1..Len(wal) : wal'[i] = wal[i]
  BY TwoRecords DEF TypeInv
<1>2. old \in SUBSET new
  BY <1>1
<1>3. IsFiniteSet(new)
  <2> DEFINE N == 1..Len(wal')
  <2>1. IsFiniteSet(N) /\ new \in SUBSET N
    BY <1>1, FS_Interval
  <2> HIDE DEF N, new
  <2> QED
    BY <2>1, FS_Subset
<1>4. Cardinality(old) \in Nat /\ Cardinality(new) \in Nat /\ Cardinality(old) <= Cardinality(new)
  <2> HIDE DEF old, new
  <2> QED
    BY <1>2, <1>3, FS_Subset, FS_CardinalityType
<1>5. Records("UPDATE") = old /\ Records("UPDATE")' = new
  BY DEF Records
<1> HIDE DEF old, new
<1>6. ASSUME NEW t \in Tx
      PROVE  Len(undoLog'[t]) <= Cardinality(Records("UPDATE")')
  <2>1. Len(undoLog[t]) \in Nat /\ Len(undoLog[t]) <= Cardinality(Records("UPDATE"))
    BY DEF TypeInv, MemoryTypeOK, UndoIsLogged
  <2>2. CASE undoLog'[t] = undoLog[t]
    BY <1>4, <1>5, <2>1, <2>2
  <2>3. CASE undoLog'[t] = << >>
    BY <1>4, <1>5, <2>3
  <2> QED
    BY <2>2, <2>3
<1> QED
  BY <1>1, <1>6 DEF UndoIsLogged

(* A turn that leaves the log and the before-images alone. *)
LEMMA QuietStep ==
  ASSUME TypeInv, UNCHANGED <<wal, undoLog>>
  PROVE  LogOK(wal') /\ UndoIsLogged'
BY DEF TypeInv, UndoIsLogged, Records

LEMMA TypeStep ==
  ASSUME TypeInv, Down, [Next]_vars
  PROVE  TypeInv' /\ Down'
<1> USE DEF TypeInv
<1>w. \A t \in Tx : want[t] = NoAccess \/ want[t] \in Access
  BY DEF MemoryTypeOK
<1>a. ASSUME NEW t \in Tx, want[t] # NoAccess
      PROVE  up /\ want[t].page \in Resource
  BY <1>a, <1>w, AccessFacts DEF Down, MemoryTypeOK
<1>b. ASSUME NEW t \in Tx, Active(t)
      PROVE  up
  BY <1>b DEF Down, Active, MemoryTypeOK
<1>1. ASSUME NEW t \in Tx, begin(t)
      PROVE  TypeInv' /\ Down'
  <2>1. LogOK(wal') /\ UndoIsLogged'
    BY <1>1, LogStep DEF begin
  <2>2. MemoryTypeOK' /\ PoolTypeOK' /\ Down'
    BY <1>1 DEF begin, MemoryTypeOK, PoolTypeOK, Down, TxState
  <2> QED
    BY <2>1, <2>2
<1>2. ASSUME NEW t \in Tx, NEW p \in Resource, NEW op \in {"read", "write"}, acquireLock(t, op, p)
      PROVE  TypeInv' /\ Down'
  <2>1. LogOK(wal') /\ UndoIsLogged'
    BY <1>2, QuietStep DEF acquireLock
  <2>2. up
    BY <1>2, <1>b DEF acquireLock, Active
  <2>3. MemoryTypeOK' /\ PoolTypeOK'
    BY <1>2, AccessFacts DEF acquireLock, MemoryTypeOK, PoolTypeOK
  <2> QED
    BY <1>2, <2>1, <2>2, <2>3 DEF acquireLock, Down
<1>3. ASSUME NEW t \in Tx, read(t) \/ refuse(t)
      PROVE  TypeInv' /\ Down'
  <2>1. LogOK(wal') /\ UndoIsLogged'
    BY <1>3, QuietStep DEF read, refuse
  <2>2. want[t] # NoAccess
    BY <1>3 DEF read, refuse, Resumes
  <2>3. up /\ up' /\ want[t].page \in Resource
    BY <1>3, <1>a, <2>2 DEF read, refuse
  <2>4. MemoryTypeOK'
    BY <1>3 DEF read, refuse, Resumes, MemoryTypeOK, TxState
  <2>5. PoolTypeOK'
    BY <1>3, <2>3, FetchType DEF read, refuse
  <2> QED
    BY <2>1, <2>3, <2>4, <2>5 DEF Down
<1>4. ASSUME NEW t \in Tx, write(t)
      PROVE  TypeInv' /\ Down'
  <2> DEFINE p == want[t].page
             before == Contents(p)
             after == before \cup {<<boot, t, Len(undoLog[t]) + 1>>}
             r == [type |-> "UPDATE", tx |-> t, page |-> p, before |-> before, after |-> after]
             u == [page |-> p, before |-> before]
  <2>1. want[t] # NoAccess /\ Cardinality(Records("UPDATE")) < MaxWrites
    BY <1>4 DEF write, Resumes
  <2>2. up /\ p \in Resource
    BY <1>a, <2>1
  <2>3. before \in Image /\ after \in Image
    BY <2>1, <2>2, ContentsType, WriteImages
  <2>4. /\ modifyPage(p, after) /\ wal' = Append(wal, r)
        /\ undoLog' = [undoLog EXCEPT ![t] = Append(@, u)] /\ up' = up
        /\ want' = [want EXCEPT ![t] = NoAccess]
        /\ UNCHANGED <<txState, deadlockVictims, nextTxId, up, boot>>
    BY <1>4 DEF write, Resumes, Log
  <2>5. u \in UndoRecord
    BY <2>2, <2>3 DEF UndoRecord
  <2>6. /\ r.type = "UPDATE"
        /\ r.page \in Resource /\ r.before \in Image /\ r.after \in Image
    BY <2>2, <2>3
  <2> HIDE DEF r, u, after, before, p
  <2>7. PoolTypeOK'
    BY <2>2, <2>3, <2>4, ModifyType
  <2>8. LogOK(wal')
    BY <2>4, <2>6, AppendLog
  <2>9. undoLog' \in [Tx -> Seq(UndoRecord)] /\ \A v \in Tx : Len(undoLog'[v]) \in Nat /\ Len(undoLog'[v]) <= Len(undoLog[v]) + 1
    BY <2>4, <2>5 DEF MemoryTypeOK
  <2>10. UndoIsLogged'
    <3>1. /\ Cardinality(Records("UPDATE")) \in Nat /\ Cardinality(Records("UPDATE")') \in Nat
          /\ Cardinality(Records("UPDATE")) < Cardinality(Records("UPDATE")')
      BY <2>4, <2>6, RecordsGrow
    <3>2. \A v \in Tx : Len(undoLog[v]) \in Nat /\ Len(undoLog[v]) <= Cardinality(Records("UPDATE"))
      BY DEF MemoryTypeOK, UndoIsLogged
    <3>3. \A v \in Tx : Len(undoLog'[v]) <= Cardinality(Records("UPDATE")')
      BY <2>9, <3>1, <3>2
    <3> QED
      BY <3>3 DEF UndoIsLogged
  <2>11. MemoryTypeOK'
    BY <2>4, <2>9 DEF MemoryTypeOK
  <2> QED
    BY <2>2, <2>4, <2>7, <2>8, <2>10, <2>11 DEF Down
<1>5. ASSUME NEW t \in Tx, throw(t)
      PROVE  TypeInv' /\ Down'
  <2>1. LogOK(wal') /\ UndoIsLogged'
    BY <1>5, QuietStep DEF throw
  <2>2. up
    BY <1>5, <1>a DEF throw
  <2>3. MemoryTypeOK' /\ PoolTypeOK'
    BY <1>5 DEF throw, MemoryTypeOK, PoolTypeOK, TxState
  <2> QED
    BY <1>5, <2>1, <2>2, <2>3 DEF throw, Down
<1>6. ASSUME NEW t \in Tx, commit(t)
      PROVE  TypeInv' /\ Down'
  <2>1. LogOK(wal') /\ UndoIsLogged'
    BY <1>6, LogStep DEF commit, CommitOf, MemoryTypeOK
  <2>2. up
    BY <1>6, <1>b DEF commit, Active
  <2>3. MemoryTypeOK'
    BY <1>6 DEF commit, MemoryTypeOK, TxState
  <2>4. PoolTypeOK'
    BY <1>6, FlushedType DEF commit, PoolTypeOK
  <2> QED
    BY <1>6, <2>1, <2>2, <2>3, <2>4 DEF commit, Down
<1>7. ASSUME NEW t \in Tx, abort(t) \/ abortCommitted(t)
      PROVE  TypeInv' /\ Down'
  <2>0. /\ Active(t) /\ Undoes(t)
        /\ \A u \in Tx : undoLog'[u] = undoLog[u] \/ undoLog'[u] = << >>
    BY <1>7 DEF abort, abortCommitted, Active, Undoes, MemoryTypeOK
  <2>1. LogOK(wal') /\ UndoIsLogged'
    <3>1. CASE abort(t)
      BY <2>0, <3>1, LogStep DEF abort
    <3>2. CASE abortCommitted(t)
      <4> DEFINE q == [type |-> "ABORT", tx |-> t]
      <4>1. wal' = Append(Append(wal, CommitOf(t)), q) /\ NoUpdate(CommitOf(t)) /\ NoUpdate(q)
        BY <3>2 DEF abortCommitted, CommitOf, NoUpdate
      <4> HIDE DEF q
      <4> QED
        BY <2>0, <4>1, TwoRecordsStep
    <3> QED
      BY <1>7, <3>1, <3>2
  <2>2. up
    BY <2>0, <1>b
  <2>3. MemoryTypeOK'
    BY <2>0 DEF Undoes, MemoryTypeOK, TxState
  <2>4. Restores(t) \in Seq(PageWrite)
    BY RestoresType DEF MemoryTypeOK
  <2>5. Written(disk, Restores(t)) \in [Resource -> Image]
    BY <2>4, WrittenType DEF PoolTypeOK
  <2>6. PoolTypeOK'
    BY <2>0, <2>5, WithoutType DEF Undoes, PoolTypeOK
  <2> QED
    BY <2>0, <2>1, <2>2, <2>3, <2>6 DEF Undoes, Down
<1>8. ASSUME NEW t \in Tx, NEW p \in Resource, lockTimeout(t, p)
      PROVE  TypeInv' /\ Down'
  <2>1. LogOK(wal') /\ UndoIsLogged'
    BY <1>8, QuietStep DEF lockTimeout, txVars
  <2> QED
    BY <1>8, <2>1 DEF lockTimeout, txVars, MemoryTypeOK, PoolTypeOK, Down
<1>9. ASSUME sweep
      PROVE  TypeInv' /\ Down'
  <2>1. LogOK(wal') /\ UndoIsLogged'
    BY <1>9, QuietStep DEF sweep
  <2>2. Victims \subseteq Tx
    BY VictimsType
  <2> QED
    BY <1>9, <2>1, <2>2 DEF sweep, MemoryTypeOK, PoolTypeOK, Down
<1>10. ASSUME checkpoint
       PROVE  TypeInv' /\ Down'
  <2>1. LogOK(wal') /\ UndoIsLogged'
    BY <1>10, LogStep DEF checkpoint, txVars
  <2>2. PoolTypeOK'
    BY <1>10, FlushedType DEF checkpoint, PoolTypeOK
  <2> QED
    BY <1>10, <2>1, <2>2 DEF checkpoint, txVars, MemoryTypeOK, Down
<1>d. \A t \in Tx : \A n \in 0..Len(undoLog[t]) :
        Written(disk, SubSeq(Restores(t), 1, n)) \in [Resource -> Image]
  BY RestoresType, WrittenType DEF MemoryTypeOK, PoolTypeOK
<1>e. \A t \in Tx : Written(disk, Restores(t)) \in [Resource -> Image]
  BY RestoresType, WrittenType DEF MemoryTypeOK, PoolTypeOK
<1>f. \A P : Flushed(P) \in [Resource -> Image]
  BY FlushedType
<1>11. ASSUME crash \/ stop
       PROVE  TypeInv' /\ Down'
  <2>1. Dies /\ LogOK(wal') /\ disk' \in [Resource -> Image]
    BY <1>11, <1>f DEF crash, stop, PoolTypeOK
  <2> QED
    BY <2>1, DiesStep
<1>12. ASSUME crashInAppend
       PROVE  TypeInv' /\ Down'
  <2>1. disk' \in [Resource -> Image]
    BY <1>12, <1>e, <1>f DEF crashInAppend, PoolTypeOK
  <2>2. LogOK(wal')
    <3>1. NoUpdate(Torn) /\ \A t : NoUpdate(CommitOf(t))
      BY DEF NoUpdate, Torn, CommitOf
    <3>2. \/ wal' = Append(wal, Torn)
          \/ \E t \in Tx : wal' = Append(Append(wal, CommitOf(t)), Torn)
      BY <1>12 DEF crashInAppend, Log
    <3>3. CASE wal' = Append(wal, Torn)
      BY <3>1, <3>3, AppendOther
    <3>4. ASSUME NEW t \in Tx, wal' = Append(Append(wal, CommitOf(t)), Torn)
          PROVE  LogOK(wal')
      <4>1. PICK r : r = CommitOf(t)
        OBVIOUS
      <4>2. PICK q : q = Torn
        OBVIOUS
      <4>3. NoUpdate(r) /\ NoUpdate(q) /\ wal' = Append(Append(wal, r), q)
        BY <3>1, <3>4, <4>1, <4>2
      <4> QED
        BY <4>3, TwoRecords
    <3> QED
      BY <3>2, <3>3, <3>4
  <2> QED
    BY <1>12, <2>1, <2>2, DiesStep DEF crashInAppend
<1>13. ASSUME NEW t \in Tx, NEW n \in 0..Len(undoLog[t]), crashInCommit(t, n) \/ crashInAbort(t, n)
       PROVE  TypeInv' /\ Down'
  <2>1. disk' \in [Resource -> Image]
    <3>1. SubSeq(Restores(t), 1, n) \in Seq(PageWrite)
      <4>1. Restores(t) \in Seq(PageWrite) /\ Len(Restores(t)) = Len(undoLog[t]) /\ Len(undoLog[t]) \in Nat
        BY RestoresType DEF MemoryTypeOK
      <4> QED
        BY <4>1
    <3>2. Written(Flushed(modifiedPages(t)), SubSeq(Restores(t), 1, n)) \in [Resource -> Image]
      BY <1>f, <3>1, WrittenType
    <3> QED
      BY <1>13, <1>d, <1>f, <3>2 DEF crashInCommit, crashInAbort
  <2>2. LogOK(wal')
    <3>1. CommitOf(t).type # "UPDATE"
      BY DEF CommitOf
    <3>2. wal' = wal \/ wal' = Append(wal, CommitOf(t))
      BY <1>13 DEF crashInCommit, crashInAbort, Log
    <3>3. CASE wal' = wal
      BY <3>3
    <3>4. CASE wal' = Append(wal, CommitOf(t))
      BY <3>1, <3>4, AppendLog
    <3> QED
      BY <3>2, <3>3, <3>4
  <2> QED
    BY <1>13, <2>1, <2>2, DiesStep DEF crashInCommit, crashInAbort
<1>14. ASSUME NEW n \in 0..Len(wal), NEW k \in 0..Len(wal), start(n, k)
       PROVE  TypeInv' /\ Down'
  <2> DEFINE writes == RecoveryWrites(readAll(wal))
  <2>1. LogOK(wal') /\ Len(wal) \in Nat
    BY <1>14, StartLog DEF LogOK
  <2>2. ~up /\ boot < MaxBoots /\ boot' = boot + 1 /\ up' \in BOOLEAN /\ n <= Len(writes)
        /\ disk' = Written(disk, SubSeq(writes, 1, n)) /\ UNCHANGED <<txVars, pool>>
    BY <1>14 DEF start
  <2>3. writes \in Seq(PageWrite)
    BY ReadableLog, RecoveryWritesType
  <2> HIDE DEF writes
  <2>4. SubSeq(writes, 1, n) \in Seq(PageWrite)
    BY <2>1, <2>2, <2>3
  <2>5. PoolTypeOK'
    BY <2>2, <2>4, WrittenType DEF PoolTypeOK
  <2>6. MemoryTypeOK'
    BY <2>2, TransactionAssumption DEF MemoryTypeOK, txVars
  <2>7. UndoIsLogged'
    <3>1. Cardinality(Records("UPDATE")') \in Nat
      BY <2>1, RecordsNat DEF Records
    <3>2. \A t \in Tx : Len(undoLog'[t]) = 0
      BY <2>2 DEF Down, txVars
    <3> QED
      BY <3>1, <3>2 DEF UndoIsLogged
  <2>8. Down'
    BY <2>2 DEF Down, txVars
  <2> QED
    BY <2>1, <2>5, <2>6, <2>7, <2>8
<1>15. CASE UNCHANGED vars
  BY <1>15 DEF vars, txVars, MemoryTypeOK, PoolTypeOK, UndoIsLogged, Records, Down
<1> QED
  BY <1>1, <1>2, <1>3, <1>4, <1>5, <1>6, <1>7, <1>8, <1>9, <1>10, <1>11, <1>12, <1>13, <1>14, <1>15
     DEF Next, TxStep

-----------------------------------------------------------------------------
(* What a transaction's state says of its locks: it awaits a lock only while *)
(* it runs, and for the page and the mode it asked for; what it was granted  *)
(* it holds when it goes on; it keeps an exclusive lock on every page it     *)
(* changed unless a sweep made it a victim; and it leaves with nothing.      *)
LockUse(t) ==
  /\ want[t] # NoAccess => txState[t] = "active"
  /\ ~Active(t) => undoLog[t] = << >> /\ \A p \in Resource : lockTable[p].holders[t] = "none"
  /\ t \in deadlockVictims => Active(t) /\ (txState[t] = "active" => want[t] # NoAccess)
  /\ promise[t] = "pending" => want[t] # NoAccess
  /\ \A p \in Resource, m \in {"S", "X"} :
       Asks(lockTable[p], t, m) => p = want[t].page /\ m = ModeOf(want[t].op)
  /\ want[t] # NoAccess /\ promise[t] = "granted" /\ t \notin deadlockVictims =>
       AlreadyHolds(lockTable[want[t].page], t, ModeOf(want[t].op))
  /\ Active(t) /\ t \notin deadlockVictims /\ (txState[t] = "active" \/ ~SweepOn) =>
       \A p \in modifiedPages(t) : lockTable[p].holders[t] = "X"

(* Identifiers are given out in order, and without the sweep there are no    *)
(* victims.                                                                  *)
BirthOrder == \A t \in Tx : t >= nextTxId => txState[t] = "unborn"

NoVictims == ~SweepOn => deadlockVictims = {}

TxInv ==
  /\ IInv /\ TypeInv /\ Down
  /\ \A t \in Tx : LockUse(t)
  /\ BirthOrder /\ NoVictims

(* The part of the state LockUse(t) is about, apart from the lock table. *)
Idle(t) ==
  /\ txState'[t] = txState[t] /\ want'[t] = want[t] /\ undoLog'[t] = undoLog[t]
  /\ t \in deadlockVictims' <=> t \in deadlockVictims

LEMMA ModeOfType == \A op : ModeOf(op) \in {"S", "X"}
BY DEF ModeOf

LEMMA ModifiedType ==
  ASSUME MemoryTypeOK, NEW t \in Tx
  PROVE  modifiedPages(t) \subseteq Resource
<1> SUFFICES ASSUME NEW i \in 1..Len(undoLog[t])
             PROVE  undoLog[t][i].page \in Resource
  BY DEF modifiedPages, Touched
<1>1. undoLog[t] \in Seq(UndoRecord)
  BY DEF MemoryTypeOK
<1>2. undoLog[t][i] \in UndoRecord
  BY <1>1, ElementOfSeq
<1> QED
  BY <1>2 DEF UndoRecord

(* Nobody who does not ask for a lock is queued. *)
LEMMA NotPendingAsks ==
  ASSUME IInv, NEW t \in Tx, promise[t] # "pending", NEW p \in Resource, NEW m \in {"S", "X"}
  PROVE  ~Asks(lockTable[p], t, m)
BY DEF IInv, Asks, Queued

(* A transaction that does nothing, while others take locks. *)
LEMMA IdleUse ==
  ASSUME NEW t \in Tx, LockUse(t), Idle(t),
         \A p \in Resource : lockTable'[p].holders[t] = lockTable[p].holders[t],
         \A p \in Resource, m \in {"S", "X"} : Asks(lockTable'[p], t, m) => Asks(lockTable[p], t, m),
         promise'[t] = promise[t], MemoryTypeOK
  PROVE  LockUse(t)'
<1>1. Active(t)' <=> Active(t)
  BY DEF Idle, Active
<1>2. modifiedPages(t)' = modifiedPages(t) /\ modifiedPages(t) \subseteq Resource
  BY ModifiedType DEF Idle, modifiedPages, Touched
<1>3. want[t] # NoAccess => want[t].page \in Resource
  BY AccessFacts DEF MemoryTypeOK
<1>4. want[t] # NoAccess /\ promise'[t] = "granted" /\ t \notin deadlockVictims' =>
        AlreadyHolds(lockTable'[want[t].page], t, ModeOf(want[t].op))
  BY <1>3 DEF LockUse, Idle, AlreadyHolds
<1> QED
  BY <1>1, <1>2, <1>3, <1>4 DEF LockUse, Idle

(* A transaction that does nothing, while others lose their locks. *)
LEMMA IdleDrain ==
  ASSUME IInv, IInv', NEW V, Drains(V), NEW t \in Tx \ V, NEW W, t \notin W,
         promise' = Settle(lockTable', W),
         LockUse(t), Idle(t), MemoryTypeOK
  PROVE  LockUse(t)'
<1>1. Active(t)' <=> Active(t)
  BY DEF Idle, Active
<1>2. modifiedPages(t)' = modifiedPages(t) /\ modifiedPages(t) \subseteq Resource
  BY ModifiedType DEF Idle, modifiedPages, Touched
<1>3. want[t] # NoAccess => want[t].page \in Resource
  BY AccessFacts DEF MemoryTypeOK
<1>4. /\ \A s \in Resource, m \in {"S", "X"} :
           AlreadyHolds(lockTable[s], t, m) => AlreadyHolds(lockTable'[s], t, m)
      /\ \A s \in Resource, m \in {"S", "X"} : Asks(lockTable'[s], t, m) => Asks(lockTable[s], t, m)
      /\ promise'[t] # promise[t] =>
           /\ promise[t] = "pending" /\ promise'[t] = "granted"
           /\ \A s \in Resource, m \in {"S", "X"} :
                Asks(lockTable[s], t, m) => AlreadyHolds(lockTable'[s], t, m)
  BY DrainEffect
<1>5. \A p \in Resource : lockTable[p].holders[t] = "X" => lockTable'[p].holders[t] = "X"
  BY <1>4 DEF AlreadyHolds
<1>6. promise'[t] = "pending" => promise[t] = "pending"
  BY <1>4
<1>7. ASSUME ~Active(t), NEW p \in Resource
      PROVE  lockTable'[p].holders[t] = "none"
  <2>1. want[t] = NoAccess /\ promise[t] # "pending" /\ lockTable[p].holders[t] = "none"
    BY <1>7 DEF LockUse, Active
  <2>2. \A m \in {"S", "X"} : ~Asks(lockTable[p], t, m)
    BY <2>1, NotPendingAsks
  <2>3. lockTable'[p].holders[t] \in {"none", "S", "X"}
    BY DEF IInv, TableOK, LockInfo
  <2>4. \/ lockTable'[p].holders[t] = lockTable[p].holders[t]
        \/ Asks(lockTable[p], t, lockTable'[p].holders[t])
    BY DEF Drains, Follows
  <2> QED
    BY <2>1, <2>2, <2>3, <2>4
<1>8. ASSUME want[t] # NoAccess, promise'[t] = "granted", t \notin deadlockVictims'
      PROVE  AlreadyHolds(lockTable'[want[t].page], t, ModeOf(want[t].op))
  <2>1. CASE promise'[t] = promise[t]
    BY <1>3, <1>4, <1>8, <2>1, ModeOfType DEF LockUse, Idle
  <2>2. CASE promise'[t] # promise[t]
    <3>1. PICK s \in Resource : Queued(lockTable[s], t)
      BY <1>4, <2>2 DEF IInv
    <3>2. PICK m \in {"S", "X"} : Asks(lockTable[s], t, m)
      BY <3>1, QueuedAsks DEF IInv, TableOK
    <3>3. s = want[t].page /\ m = ModeOf(want[t].op)
      BY <3>2 DEF LockUse
    <3> QED
      BY <1>4, <2>2, <3>2, <3>3
  <2> QED
    BY <2>1, <2>2
<1> QED
  BY <1>1, <1>2, <1>4, <1>5, <1>6, <1>7, <1>8 DEF LockUse, Idle

(* Every step but a lock operation leaves the lock table as it is. *)
LEMMA LocksStep ==
  ASSUME IInv, [Next]_vars
  PROVE  IInv'
<1>1. CASE UNCHANGED lockVars
  BY <1>1 DEF lockVars, IInv
<1>2. ASSUME NEW t \in Tx, NEW p \in Resource, NEW op \in {"read", "write"},
             ModeOf(op) \in Mode, acquireLock(t, op, p)
      PROVE  IInv'
  BY <1>2, AcquireNowStep, AcquireWaitStep DEF acquireLock, Acquire
<1>3. ASSUME NEW t \in Tx, commit(t) \/ abort(t) \/ abortCommitted(t)
      PROVE  IInv'
  BY <1>3, ReleaseAllStep DEF commit, abort, abortCommitted, Undoes
<1>4. ASSUME NEW t \in Tx, NEW p \in Resource, lockTimeout(t, p)
      PROVE  IInv'
  BY <1>4, TimeoutStep DEF lockTimeout
<1>5. CASE sweep
  BY <1>5, DetectStep DEF sweep
<1>6. ASSUME Dies
      PROVE  IInv'
  <2>1. promise' \in [Tx -> Promise] /\ \A t \in Tx : promise'[t] # "pending"
    BY <1>6 DEF Dies, NoPromise, Promise
  <2> QED
    BY <1>6, <2>1, EmptyTableOK, PrimedIInv DEF Dies
<1> QED
  BY <1>1, <1>2, <1>3, <1>4, <1>5, <1>6
     DEF Next, TxStep, begin, read, write, refuse, throw, checkpoint, crash, crashInAppend, stop,
         crashInCommit, crashInAbort, start, vars

LEMMA ReleaseUse ==
  ASSUME TxInv, IInv', NEW t \in Tx, ReleaseAll(t),
         Active(t), want[t] = NoAccess, want' = want,
         txState' = [txState EXCEPT ![t] = "committed"] \/ txState' = [txState EXCEPT ![t] = "aborted"],
         undoLog' = [undoLog EXCEPT ![t] = << >>],
         t \notin deadlockVictims', \A u \in Tx \ {t} : u \in deadlockVictims' <=> u \in deadlockVictims
  PROVE  \A u \in Tx : LockUse(u)'
<1>1. ASSUME NEW u \in Tx \ {t}
      PROVE  LockUse(u)'
  <2>1. Drains({t}) /\ promise' = Settle(lockTable', {t})
    BY ReleaseAllStep DEF TxInv, ReleaseAll
  <2>2. Idle(u) /\ MemoryTypeOK
    BY DEF Idle, TxInv, TypeInv, MemoryTypeOK
  <2>3. IInv /\ LockUse(u) /\ u \notin {t}
    BY DEF TxInv
  <2>4. \E V : V = {t}
    OBVIOUS
  <2> QED
    BY <2>1, <2>2, <2>3, IdleDrain
<1>2. LockUse(t)'
  <2>1. \A p \in Resource : ~Queued(lockTable'[p], t) /\ lockTable'[p].holders[t] = "none"
    <3>1. TableOK(lockTable) /\ lockTable' = ReleasedTable(lockTable, t)
      BY DEF ReleaseAll, TxInv, IInv
    <3> QED
      BY <3>1, ReleasedTableFollows
  <2>2. \A p \in Resource, m \in {"S", "X"} : ~Asks(lockTable'[p], t, m)
    BY <2>1 DEF Asks, Queued
  <2>3. promise'[t] # "pending"
    BY <2>1 DEF IInv
  <2>4. txState'[t] \in {"committed", "aborted"} /\ undoLog'[t] = << >> /\ want'[t] = NoAccess
    BY DEF TxInv, TypeInv, MemoryTypeOK
  <2>5. ~Active(t)'
    BY <2>4 DEF Active
  <2> QED
    BY <2>1, <2>2, <2>3, <2>4, <2>5 DEF LockUse
<1> QED
  BY <1>1, <1>2

LEMMA UseStep ==
  ASSUME TxInv, IInv', TypeInv', [Next]_vars
  PROVE  (\A t \in Tx : LockUse(t)') /\ BirthOrder' /\ NoVictims'
<1> USE DEF TxInv
<1>m. MemoryTypeOK
  BY DEF TypeInv
<1>0. ASSUME UNCHANGED lockVars, NEW u \in Tx, Idle(u)
      PROVE  LockUse(u)'
  BY <1>0, <1>m, IdleUse DEF lockVars
<1>w. \A t \in Tx : want[t] # NoAccess => want[t].page \in Resource /\ want[t].op \in {"read", "write"}
  BY <1>m, AccessFacts DEF MemoryTypeOK
\* What the lock table and the promise say of t goes on to hold.
<1>k. ASSUME UNCHANGED lockVars, NEW t \in Tx, promise[t] # "pending"
      PROVE  /\ promise'[t] # "pending"
             /\ \A p \in Resource, m \in {"S", "X"} : ~Asks(lockTable'[p], t, m)
  BY <1>k, NotPendingAsks DEF lockVars
<1>1. ASSUME NEW t \in Tx, begin(t)
      PROVE  (\A u \in Tx : LockUse(u)') /\ BirthOrder' /\ NoVictims'
  <2>1. \A u \in Tx \ {t} : LockUse(u)'
    BY <1>0, <1>1, <1>m DEF begin, Idle, MemoryTypeOK
  <2>2. txState[t] = "unborn" /\ t \in Nat
    BY <1>1, SweepAssumption DEF begin, BirthOrder
  <2>3. /\ ~Active(t) /\ want[t] = NoAccess /\ undoLog[t] = << >> /\ t \notin deadlockVictims
        /\ promise[t] # "pending"
    BY <2>2 DEF LockUse, Active
  <2>4. LockUse(t)'
    <3>1. /\ txState'[t] = "active" /\ want'[t] = NoAccess /\ undoLog'[t] = << >>
          /\ t \notin deadlockVictims' /\ UNCHANGED lockVars
      BY <1>1, <1>m, <2>3 DEF begin, MemoryTypeOK
    <3>2. modifiedPages(t)' = {}
      BY <3>1 DEF modifiedPages, Touched
    <3> QED
      BY <1>k, <2>3, <3>1, <3>2 DEF LockUse, Active
  <2>5. BirthOrder' /\ NoVictims'
    <3>1. nextTxId = t /\ nextTxId' = t + 1 /\ txState' = [txState EXCEPT ![t] = "active"]
          /\ deadlockVictims' = deadlockVictims
      BY <1>1 DEF begin
    <3>2. \A u \in Tx : u \in Nat /\ (u >= t + 1 => u >= t /\ u # t)
      BY <2>2, SweepAssumption
    <3>3. \A u \in Tx : u # t => txState'[u] = txState[u]
      BY <1>m, <3>1 DEF MemoryTypeOK
    <3> QED
      BY <3>1, <3>2, <3>3 DEF BirthOrder, NoVictims
  <2> QED
    BY <2>1, <2>4, <2>5
<1>2. ASSUME NEW t \in Tx, NEW p \in Resource, NEW op \in {"read", "write"},
             ModeOf(op) \in Mode, acquireLock(t, op, p)
      PROVE  (\A u \in Tx : LockUse(u)') /\ BirthOrder' /\ NoVictims'
  <2>1. /\ \A u \in Tx \ {t}, s \in Resource :
             /\ lockTable'[s].holders[u] = lockTable[s].holders[u]
             /\ \A m \in {"S", "X"} : Asks(lockTable'[s], u, m) => Asks(lockTable[s], u, m)
        /\ \A u \in Tx \ {t} : promise'[u] = promise[u]
        /\ promise'[t] \in {"granted", "pending"}
        /\ promise'[t] = "granted" => AlreadyHolds(lockTable'[p], t, ModeOf(op))
        /\ \A s \in Resource, m \in {"S", "X"} : Asks(lockTable'[s], t, m) => s = p /\ m = ModeOf(op)
        /\ \A s \in Resource : lockTable[s].holders[t] = "X" => lockTable'[s].holders[t] = "X"
    <3>1. Acquire(t, p, ModeOf(op))
      BY <1>2 DEF acquireLock
    <3> QED
      BY <1>2, <3>1, AcquireEffect
  <2>2. ASSUME NEW u \in Tx \ {t}
        PROVE  LockUse(u)'
    <3>1. Idle(u)
      BY <1>2, <1>m DEF acquireLock, Idle, MemoryTypeOK
    <3> QED
      BY <1>m, <2>1, <3>1, IdleUse
  <2>3. LockUse(t)'
    <3>1. /\ txState'[t] = "active" /\ want'[t] = [op |-> op, page |-> p] /\ undoLog'[t] = undoLog[t]
          /\ txState[t] = "active" /\ want[t] = NoAccess
          /\ deadlockVictims' = deadlockVictims
      BY <1>2, <1>m DEF acquireLock, MemoryTypeOK
    <3>2. want'[t] # NoAccess /\ want'[t].page = p /\ want'[t].op = op
      BY <3>1, AccessFacts
    <3>3. modifiedPages(t)' = modifiedPages(t) /\ modifiedPages(t) \subseteq Resource
      BY <1>m, <3>1, ModifiedType DEF modifiedPages, Touched
    <3> QED
      BY <2>1, <3>1, <3>2, <3>3 DEF LockUse, Active
  <2>4. BirthOrder' /\ NoVictims'
    BY <1>2 DEF acquireLock, BirthOrder, NoVictims
  <2> QED
    BY <2>2, <2>3, <2>4
<1>3. ASSUME NEW t \in Tx, read(t) \/ write(t) \/ refuse(t)
      PROVE  (\A u \in Tx : LockUse(u)') /\ BirthOrder' /\ NoVictims'
  <2>1. /\ want[t] # NoAccess /\ promise[t] = "granted" /\ t \notin deadlockVictims
        /\ want' = [want EXCEPT ![t] = NoAccess] /\ UNCHANGED <<lockVars, deadlockVictims, nextTxId>>
        /\ txState' = txState \/ txState' = [txState EXCEPT ![t] = "throwing"]
        /\ txState' = txState \/ undoLog' = undoLog
    BY <1>3 DEF read, write, refuse, Resumes
  <2>2. txState[t] = "active"
    BY <2>1 DEF LockUse
  <2>3. \A u \in Tx \ {t} : undoLog'[u] = undoLog[u]
    BY <1>3, <1>m DEF read, write, refuse, MemoryTypeOK
  <2>4. ASSUME NEW u \in Tx \ {t}
        PROVE  LockUse(u)'
    <3>1. Idle(u)
      BY <1>m, <2>1, <2>3 DEF Idle, MemoryTypeOK
    <3> QED
      BY <1>0, <2>1, <3>1
  <2>5. \A q \in modifiedPages(t)' : q \in modifiedPages(t) \/ lockTable[q].holders[t] = "X"
    <3>1. CASE undoLog' = undoLog
      BY <3>1 DEF modifiedPages, Touched
    <3>2. CASE write(t)
      <4> DEFINE p == want[t].page
                 r == [page |-> p, before |-> Contents(p)]
      <4>1. undoLog'[t] = Append(undoLog[t], r) /\ want[t].op = "write"
        BY <1>m, <3>2 DEF write, Resumes, MemoryTypeOK
      <4>2. r.page = p
        OBVIOUS
      <4>3. lockTable[p].holders[t] = "X"
        BY <2>1, <4>1 DEF LockUse, AlreadyHolds, ModeOf
      <4>4. undoLog'[t] \in Seq(UndoRecord) /\ undoLog[t] \in Seq(UndoRecord)
        BY <1>m DEF MemoryTypeOK, TypeInv
      <4> HIDE DEF r, p
      <4>5. r \in UndoRecord
        <5>1. Len(undoLog'[t]) = Len(undoLog[t]) + 1 /\ undoLog'[t][Len(undoLog[t]) + 1] = r
              /\ Len(undoLog[t]) + 1 \in 1..Len(undoLog'[t])
          BY <4>1, <4>4
        <5> QED
          BY <4>4, <5>1, ElementOfSeq
      <4>6. ASSUME NEW i \in 1..Len(undoLog'[t])
            PROVE  \/ undoLog'[t][i] = r
                   \/ i \in 1..Len(undoLog[t]) /\ undoLog'[t][i] = undoLog[t][i]
        BY <4>1, <4>4, <4>5
      <4> QED
        BY <4>2, <4>3, <4>6 DEF modifiedPages, Touched
    <3> QED
      BY <1>3, <3>1, <3>2 DEF read, refuse
  <2>6. LockUse(t)'
    <3>1. want'[t] = NoAccess /\ Active(t) /\ Active(t)' /\ t \notin deadlockVictims'
      BY <1>m, <2>1, <2>2 DEF MemoryTypeOK, Active
    <3>2. \A q \in modifiedPages(t)' : lockTable'[q].holders[t] = "X"
      BY <2>1, <2>2, <2>5, <3>1 DEF LockUse, lockVars
    <3> QED
      BY <1>k, <2>1, <3>1, <3>2 DEF LockUse
  <2>7. BirthOrder' /\ NoVictims'
    <3>1. \A u \in Tx : txState[u] = "unborn" => txState'[u] = "unborn"
      BY <1>m, <2>1, <2>2 DEF MemoryTypeOK
    <3> QED
      BY <2>1, <3>1 DEF BirthOrder, NoVictims
  <2> QED
    BY <2>4, <2>6, <2>7
<1>4. ASSUME NEW t \in Tx, throw(t)
      PROVE  (\A u \in Tx : LockUse(u)') /\ BirthOrder' /\ NoVictims'
  <2>1. /\ want[t] # NoAccess /\ promise[t] # "pending"
        /\ want' = [want EXCEPT ![t] = NoAccess] /\ UNCHANGED <<lockVars, undoLog, nextTxId>>
        /\ txState' = [txState EXCEPT ![t] = "throwing"]
        /\ deadlockVictims' = deadlockVictims \/ (t \in deadlockVictims /\ deadlockVictims' = deadlockVictims \ {t})
    BY <1>4 DEF throw
  <2>2. txState[t] = "active"
    BY <2>1 DEF LockUse
  <2>3. ASSUME NEW u \in Tx \ {t}
        PROVE  LockUse(u)'
    <3>1. Idle(u)
      BY <1>m, <2>1 DEF Idle, MemoryTypeOK
    <3> QED
      BY <1>0, <2>1, <3>1
  <2>4. LockUse(t)'
    <3>1. /\ want'[t] = NoAccess /\ Active(t) /\ Active(t)' /\ txState'[t] = "throwing"
          /\ modifiedPages(t)' = modifiedPages(t)
      BY <1>m, <2>1, <2>2 DEF MemoryTypeOK, Active, modifiedPages, Touched
    <3>2. ~SweepOn => \A q \in modifiedPages(t) : lockTable'[q].holders[t] = "X"
      BY <2>1, <2>2, <3>1 DEF LockUse, lockVars, NoVictims
    <3> QED
      BY <1>k, <2>1, <3>1, <3>2 DEF LockUse
  <2>5. BirthOrder' /\ NoVictims'
    <3>1. \A u \in Tx : txState[u] = "unborn" => txState'[u] = "unborn"
      BY <1>m, <2>1, <2>2 DEF MemoryTypeOK
    <3> QED
      BY <2>1, <3>1 DEF BirthOrder, NoVictims
  <2> QED
    BY <2>3, <2>4, <2>5
<1>5. ASSUME NEW t \in Tx, commit(t) \/ abort(t) \/ abortCommitted(t)
      PROVE  (\A u \in Tx : LockUse(u)') /\ BirthOrder' /\ NoVictims'
  <2>1. /\ Active(t) /\ want[t] = NoAccess /\ want' = want /\ ReleaseAll(t)
        /\ txState' = [txState EXCEPT ![t] = "committed"] \/ txState' = [txState EXCEPT ![t] = "aborted"]
        /\ undoLog' = [undoLog EXCEPT ![t] = << >>] /\ nextTxId' = nextTxId
    BY <1>5 DEF commit, abort, abortCommitted, Undoes, Active
  <2>2. /\ t \notin deadlockVictims' /\ deadlockVictims' \subseteq deadlockVictims
        /\ \A u \in Tx \ {t} : u \in deadlockVictims' <=> u \in deadlockVictims
    BY <1>5 DEF commit, abort, abortCommitted, Undoes, LockUse
  <2>3. \A u \in Tx : LockUse(u)'
    BY <2>1, <2>2, ReleaseUse
  <2>4. BirthOrder'
    <3>1. txState[t] # "unborn"
      BY <2>1 DEF Active
    <3>2. \A u \in Tx : txState[u] = "unborn" => txState'[u] = "unborn"
      BY <1>m, <2>1, <3>1 DEF MemoryTypeOK
    <3> QED
      BY <2>1, <3>2 DEF BirthOrder
  <2> QED
    BY <2>2, <2>3, <2>4 DEF NoVictims
<1>6. ASSUME NEW t \in Tx, NEW p \in Resource, lockTimeout(t, p)
      PROVE  (\A u \in Tx : LockUse(u)') /\ BirthOrder' /\ NoVictims'
  <2>1. Timeout(t, p) /\ UNCHANGED txVars
    BY <1>6 DEF lockTimeout
  <2>2. Drains({t}) /\ promise' = Settle(lockTable', {t})
        /\ \A s \in Resource : lockTable'[s].holders[t] = lockTable[s].holders[t]
    BY <2>1, TimeoutStep DEF Timeout
  <2>3. \A u \in Tx : Idle(u)
    BY <2>1 DEF Idle, txVars
  <2>4. ASSUME NEW u \in Tx \ {t}
        PROVE  LockUse(u)'
    <3>1. LockUse(u) /\ Idle(u) /\ u \notin {t}
      BY <2>3
    <3> QED
      BY <1>m, <2>2, <3>1, IdleDrain
  <2>5. LockUse(t)'
    <3>1. promise[t] = "pending"
      BY <2>1 DEF Timeout, IInv
    <3>2. promise'[t] = "rejected"
      BY <2>2, <3>1 DEF Settle
    <3>3. \A s \in Resource, m \in {"S", "X"} : ~Asks(lockTable'[s], t, m)
      BY <3>2 DEF IInv, Asks, Queued
    <3>4. Active(t)' <=> Active(t)
      BY <2>3 DEF Idle, Active
    <3>5. modifiedPages(t)' = modifiedPages(t) /\ modifiedPages(t) \subseteq Resource
      BY <1>m, <2>3, ModifiedType DEF Idle, modifiedPages, Touched
    <3> QED
      BY <2>2, <2>3, <3>2, <3>3, <3>4, <3>5 DEF LockUse, Idle
  <2> QED
    BY <2>1, <2>4, <2>5 DEF BirthOrder, NoVictims, txVars
<1>7. ASSUME sweep
      PROVE  (\A u \in Tx : LockUse(u)') /\ BirthOrder' /\ NoVictims'
  <2>1. /\ Detect /\ SweepOn /\ deadlockVictims' = deadlockVictims \cup Victims
        /\ UNCHANGED <<txState, want, undoLog, nextTxId>>
    BY <1>7 DEF sweep
  <2>2. Drains(Victims) /\ promise' = Settle(lockTable', Victims)
        /\ \A t \in Victims, r \in Resource : lockTable'[r].holders[t] = "none"
    BY <2>1, DetectStep DEF Detect
  <2>3. Victims \subseteq InCycle /\ Victims \subseteq Tx
    BY VictimsType
  <2> HIDE DEF TxInv
  <2>4. ASSUME NEW u \in Tx \ Victims
        PROVE  LockUse(u)'
    <3>1. LockUse(u) /\ Idle(u) /\ u \notin Victims /\ IInv
      BY <2>1 DEF Idle, TxInv
    <3> QED
      BY <1>m, <2>2, <3>1, IdleDrain
  <2>5. ASSUME NEW u \in Victims
        PROVE  LockUse(u)'
    <3>1. PICK c \in findCycles(getWaitForEdges) : u \in c
      BY <2>3, <2>5 DEF InCycle
    <3>2. promise[u] = "pending" /\ u \in Tx
      BY <2>3, <3>1, CycleWaits, WaitsIsPending DEF TxInv
    <3>3. promise'[u] = "rejected"
      BY <2>2, <3>2 DEF Settle
    <3>4. \A s \in Resource, m \in {"S", "X"} : ~Asks(lockTable'[s], u, m)
      BY <3>2, <3>3 DEF IInv, Asks, Queued
    <3>5. LockUse(u) /\ want[u] # NoAccess /\ txState[u] = "active" /\ Active(u)
      BY <3>2 DEF LockUse, Active, TxInv
    <3>6. u \in deadlockVictims' /\ Active(u)' /\ want'[u] # NoAccess /\ txState'[u] = "active"
      BY <2>1, <3>2, <3>5 DEF Active
    <3> QED
      BY <3>3, <3>4, <3>6 DEF LockUse
  <2>6. BirthOrder' /\ NoVictims'
    BY <2>1 DEF BirthOrder, NoVictims, TxInv
  <2> QED
    BY <2>4, <2>5, <2>6
<1>8. ASSUME Dies
      PROVE  (\A u \in Tx : LockUse(u)') /\ BirthOrder' /\ NoVictims'
  <2>1. ASSUME NEW u \in Tx
        PROVE  LockUse(u)'
    <3>1. /\ txState'[u] = "unborn" /\ want'[u] = NoAccess /\ undoLog'[u] = << >>
          /\ u \notin deadlockVictims' /\ promise'[u] = "none"
      BY <1>8 DEF Dies, NoPromise
    <3>2. \A p \in Resource : lockTable'[p].holders[u] = "none"
      BY <1>8 DEF Dies, EmptyTable
    <3>3. \A p \in Resource, m \in {"S", "X"} : ~Asks(lockTable'[p], u, m)
      <4>1. \A p \in Resource : ~Queued(lockTable'[p], u)
        BY <1>8, EmptyTableOK DEF Dies
      <4> QED
        BY <4>1 DEF Asks, Queued
    <3>4. ~Active(u)'
      BY <3>1 DEF Active
    <3> QED
      BY <3>1, <3>2, <3>3, <3>4 DEF LockUse
  <2> QED
    BY <1>8, <2>1 DEF Dies, BirthOrder, NoVictims
<1>9. CASE UNCHANGED <<lockVars, txVars>>
  BY <1>0, <1>9 DEF txVars, Idle, BirthOrder, NoVictims
<1> QED
  BY <1>1, <1>2, <1>3, <1>4, <1>5, <1>6, <1>7, <1>8, <1>9
     DEF Next, TxStep, checkpoint, crash, crashInAppend, stop, crashInCommit, crashInAbort, start, vars

-----------------------------------------------------------------------------
LEMMA TxInitInv ==
  ASSUME Init
  PROVE  TxInv
<1>1. IInv
  BY LockInitInv DEF Init
<1>2. TypeInv
  <2>1. MemoryTypeOK
    <3>1. undoLog \in [Tx -> Seq(UndoRecord)] /\ txState \in [Tx -> TxState]
          /\ want \in [Tx -> Access \cup {NoAccess}]
      BY DEF Init, TxState
    <3>2. deadlockVictims \subseteq Tx /\ nextTxId \in Nat /\ up \in BOOLEAN /\ boot \in 1..MaxBoots
      BY TransactionAssumption DEF Init
    <3> QED
      BY <3>1, <3>2 DEF MemoryTypeOK
  <2>2. PoolTypeOK
    BY DEF Init, PoolTypeOK, Image
  <2>3. LogOK(wal)
    <3>1. wal = << >> /\ << >> \in Seq({}) /\ Len(<< >>) = 0
      BY DEF Init
    <3> QED
      BY <3>1 DEF LogOK
  <2>4. UndoIsLogged
    <3>1. Cardinality(Records("UPDATE")) \in Nat
      BY <2>3, RecordsNat DEF Records
    <3>2. \A t \in Tx : Len(undoLog[t]) = 0
      BY DEF Init
    <3> QED
      BY <3>1, <3>2 DEF UndoIsLogged
  <2> QED
    BY <2>1, <2>2, <2>3, <2>4 DEF TypeInv
<1>3. ASSUME NEW u \in Tx
      PROVE  LockUse(u)
  <2>1. /\ txState[u] = "unborn" /\ want[u] = NoAccess /\ undoLog[u] = << >>
        /\ u \notin deadlockVictims /\ promise[u] = "none"
    BY DEF Init, LockInit, NoPromise
  <2>2. \A p \in Resource : lockTable[p].holders[u] = "none"
    BY DEF Init, LockInit, EmptyTable
  <2>3. \A p \in Resource, m \in {"S", "X"} : ~Asks(lockTable[p], u, m)
    BY <1>1, <2>1, NotPendingAsks
  <2>4. ~Active(u)
    BY <2>1 DEF Active
  <2> QED
    BY <2>1, <2>2, <2>3, <2>4 DEF LockUse
<1> QED
  BY <1>1, <1>2, <1>3 DEF TxInv, Down, BirthOrder, NoVictims, Init

LEMMA TxInvStep ==
  ASSUME TxInv, [Next]_vars
  PROVE  TxInv'
<1>1. IInv'
  BY LocksStep DEF TxInv
<1>2. TypeInv' /\ Down'
  BY TypeStep DEF TxInv
<1>3. (\A t \in Tx : LockUse(t)') /\ BirthOrder' /\ NoVictims'
  BY <1>1, <1>2, UseStep
<1> QED
  BY <1>1, <1>2, <1>3 DEF TxInv

LEMMA TxAlways == Spec => []TxInv
<1>1. Init => TxInv
  BY TxInitInv
<1>2. TxInv /\ [Next]_vars => TxInv'
  BY TxInvStep
<1> QED
  BY <1>1, <1>2, PTL DEF Spec

(* Every variable keeps its type, through crashes and recoveries.  An image   *)
(* never has more updates than the log bounds: each one was logged.          *)
THEOREM TxTypeCorrect == Spec => []TxTypeOK
<1>1. TxInv => TxTypeOK
  <2> SUFFICES ASSUME TxInv
               PROVE  TxTypeOK
    OBVIOUS
  <2>1. LockTypeOK
    BY DEF TxInv, IInv, TableOK, LockTypeOK
  <2>2. MemoryTypeOK /\ PoolTypeOK
    BY DEF TxInv, TypeInv
  <2> QED
    BY <2>1, <2>2 DEF TxTypeOK, MemoryTypeOK, PoolTypeOK, UndoRecord, Frame
<1> QED
  BY <1>1, TxAlways, PTL

(* A transaction that can still commit holds an exclusive lock on every page *)
(* it has changed, whatever the timers, the sweep and the other transactions *)
(* did: CommitHoldsLocks.                                                    *)
THEOREM LocksAreHeldToTheEnd == Spec => []CommitHoldsLocks
<1>1. TxInv => CommitHoldsLocks
  BY DEF TxInv, LockUse, CommitHoldsLocks, Active
<1> QED
  BY <1>1, TxAlways, PTL

(* A transaction that has ended holds no lock, is in no queue, awaits nothing *)
(* and is no victim: EndedLeavesNothing.                                     *)
THEOREM TransactionsLeaveNothing == Spec => []EndedLeavesNothing
<1>1. TxInv => EndedLeavesNothing
  <2> SUFFICES ASSUME TxInv, NEW t \in Tx, txState[t] \in {"committed", "aborted"}
               PROVE  /\ want[t] = NoAccess /\ t \notin deadlockVictims
                      /\ \A p \in Resource : lockTable[p].holders[t] = "none" /\ ~Queued(lockTable[p], t)
    BY DEF EndedLeavesNothing
  <2>1. LockUse(t) /\ IInv /\ ~Active(t)
    BY DEF TxInv, Active
  <2>2. /\ want[t] = NoAccess /\ t \notin deadlockVictims /\ promise[t] # "pending"
        /\ \A p \in Resource : lockTable[p].holders[t] = "none"
    BY <2>1 DEF LockUse, Active
  <2> QED
    BY <2>1, <2>2 DEF IInv
<1> QED
  BY <1>1, TxAlways, PTL

(* Two transactions never have changes of one page to undo, and none has     *)
(* while another one is let on to read it, as long as the sweep is off.      *)
LEMMA OnlyHolderModifies ==
  ASSUME TxInv, ~SweepOn, NEW t \in Tx, NEW p \in Resource, t \in Modifiers(p)
  PROVE  Active(t) /\ lockTable[p].holders[t] = "X"
<1>1. LockUse(t) /\ deadlockVictims = {} /\ p \in modifiedPages(t)
  BY DEF TxInv, NoVictims, Modifiers
<1>2. Active(t)
  <2> SUFFICES ASSUME undoLog[t] = << >>
               PROVE  FALSE
    BY <1>1 DEF LockUse
  <2> QED
    BY <1>1 DEF modifiedPages, Touched
<1> QED
  BY <1>1, <1>2 DEF LockUse

LEMMA NoDirtyReadIs ==
  ASSUME TxInv, ~SweepOn
  PROVE  NoDirtyReadStep
<1> SUFFICES ASSUME NEW t \in Tx, read(t) \/ write(t), NEW u \in Modifiers(want[t].page), u # t
             PROVE  FALSE
  BY DEF NoDirtyReadStep
<1> DEFINE p == want[t].page
<1>1. want[t] # NoAccess /\ promise[t] = "granted" /\ t \notin deadlockVictims
  BY DEF read, write, Resumes
<1>2. p \in Resource
  BY <1>1, AccessFacts DEF TxInv, TypeInv, MemoryTypeOK
<1>3. AlreadyHolds(lockTable[p], t, ModeOf(want[t].op))
  BY <1>1 DEF TxInv, LockUse
<1>4. u \in Tx /\ lockTable[p].holders[u] = "X"
  BY <1>2, OnlyHolderModifies DEF Modifiers
<1>5. lockTable[p].holders[t] # "none"
  BY <1>3, ModeOfType DEF AlreadyHolds
<1>6. Compatible(lockTable[p].holders)
  BY <1>2 DEF TxInv, IInv, TableOK, Good
<1> QED
  BY <1>4, <1>5, <1>6 DEF Compatible

(* No transaction reads what another may still take back: NoDirtyRead, as    *)
(* long as the sweep is off.  (A victim keeps its before-images when the     *)
(* sweep takes its locks: see README.md, 4.)                                 *)
THEOREM NoDirtyReads == ASSUME ~SweepOn PROVE Spec => NoDirtyRead
<1>1. TxInv /\ [Next]_vars => [NoDirtyReadStep]_vars
  BY NoDirtyReadIs
<1> QED
  BY <1>1, TxAlways, PTL DEF NoDirtyRead, Spec

(* With the sweep on, a transaction may read or overwrite another's changes, *)
(* but only of one that is bound to abort: a victim, or one that throws.     *)
Doomed(t) == t \in deadlockVictims \/ txState[t] = "throwing"

OnlyTheDoomedAreReadStep ==
  \A t \in Tx :
    read(t) \/ write(t) => \A u \in Modifiers(want[t].page) \ {t} : Doomed(u)

LEMMA OnlyTheDoomedAreReadIs ==
  ASSUME TxInv
  PROVE  OnlyTheDoomedAreReadStep
<1> SUFFICES ASSUME NEW t \in Tx, read(t) \/ write(t),
                    NEW u \in Modifiers(want[t].page) \ {t}, ~Doomed(u)
             PROVE  FALSE
  BY DEF OnlyTheDoomedAreReadStep
<1> DEFINE p == want[t].page
<1>1. want[t] # NoAccess /\ promise[t] = "granted" /\ t \notin deadlockVictims
  BY DEF read, write, Resumes
<1>2. p \in Resource
  BY <1>1, AccessFacts DEF TxInv, TypeInv, MemoryTypeOK
<1>3. AlreadyHolds(lockTable[p], t, ModeOf(want[t].op))
  BY <1>1 DEF TxInv, LockUse
<1>4. u \in Tx /\ lockTable[p].holders[u] = "X"
  <2>1. u \in Tx /\ p \in modifiedPages(u) /\ LockUse(u)
    BY DEF Modifiers, TxInv
  <2>2. txState[u] # "throwing" /\ u \notin deadlockVictims
    BY DEF Doomed
  <2>3. Active(u)
    <3> SUFFICES ASSUME undoLog[u] = << >>
                 PROVE  FALSE
      BY <2>1 DEF LockUse
    <3> QED
      BY <2>1 DEF modifiedPages, Touched
  <2>4. txState[u] = "active"
    BY <2>2, <2>3 DEF Active
  <2> QED
    BY <2>1, <2>2, <2>3, <2>4 DEF LockUse
<1>5. lockTable[p].holders[t] # "none"
  BY <1>3, ModeOfType DEF AlreadyHolds
<1>6. Compatible(lockTable[p].holders)
  BY <1>2 DEF TxInv, IInv, TableOK, Good
<1> QED
  BY <1>4, <1>5, <1>6 DEF Compatible

(* No step reads or overwrites a page that another transaction has changed   *)
(* and not ended with, unless that one is bound to abort: the detector has   *)
(* marked it as a victim, or its own code throws.                            *)
THEOREM DirtyReadsAreOfTheDoomed == Spec => [][OnlyTheDoomedAreReadStep]_vars
<1>1. TxInv /\ [Next]_vars => [OnlyTheDoomedAreReadStep]_vars
  BY OnlyTheDoomedAreReadIs
<1> QED
  BY <1>1, TxAlways, PTL DEF Spec

-----------------------------------------------------------------------------
(* The pool and the data file, seen together. *)

(* The frames of Without(P) are those of the pool for the other pages.       *)
LEMMA WithoutFrames ==
  ASSUME PoolTypeOK, NEW P
  PROVE  \E at \in [1..Len(Without(P)) -> 1..Len(pool)] :
           /\ \A k \in 1..Len(Without(P)) : Without(P)[k] = pool[at[k]] /\ pool[at[k]].page \notin P
           /\ \A k, l \in 1..Len(Without(P)) : k # l => at[k] # at[l]
           /\ \A j \in 1..Len(pool) : pool[j].page \notin P => \E k \in 1..Len(Without(P)) : at[k] = j
<1> DEFINE I == {i \in 1..Len(pool) : pool[i].page \notin P}
           at == Ascending(I)
           n == Cardinality(I)
<1>1. /\ IsFiniteSet(I) /\ Len(ElementsAt(pool, I)) = n
      /\ at \in [1..n -> I]
      /\ \A k \in 1..n : ElementsAt(pool, I)[k] = pool[at[k]]
  <2>1. pool \in Seq(Frame) /\ I \in SUBSET (1..Len(pool))
    BY DEF PoolTypeOK
  <2> HIDE DEF I
  <2> QED
    BY <2>1, ElementsAtFacts
<1>2. /\ n \in Nat /\ at \in [1..n -> I]
      /\ \A i \in I : \E k \in 1..n : at[k] = i
      /\ \A k, l \in 1..n : k < l => at[k] < at[l]
  <2>1. \A x \in I : x \in Int
    OBVIOUS
  <2> HIDE DEF I
  <2> QED
    BY <1>1, <2>1, AscendingFacts
<1>3. Without(P) = ElementsAt(pool, I)
  BY DEF Without
<1>4. \A k, l \in 1..n : k # l => at[k] # at[l]
  <2> TAKE k, l \in 1..n
  <2> HAVE k # l
  <2>1. k < l \/ l < k
    OBVIOUS
  <2>2. at[k] \in Int /\ at[l] \in Int
    BY <1>2
  <2> HIDE DEF at
  <2> QED
    BY <1>2, <2>1, <2>2
<1>5. \A k \in 1..n : at[k] \in 1..Len(pool) /\ pool[at[k]].page \notin P
  BY <1>2
<1>6. \A j \in 1..Len(pool) : pool[j].page \notin P => \E k \in 1..n : at[k] = j
  BY <1>2
<1>7. at \in [1..n -> 1..Len(pool)]
  BY <1>2, <1>5
<1> HIDE DEF at, n, I
<1> QED
  BY <1>1, <1>3, <1>4, <1>5, <1>6, <1>7

(* What a state of the pool and the file must be: CleanFramesMatchDisk, as a *)
(* fact about a pool and a file that are not yet the current ones.           *)
GoodPool(q, d) ==
  /\ Len(q) <= Frames
  /\ \A i \in 1..Len(q) : ~q[i].dirty => q[i].image = d[q[i].page]
  /\ \A i, j \in 1..Len(q) : j # i => q[j].page # q[i].page

LEMMA GoodPoolIs == CleanFramesMatchDisk <=> GoodPool(pool, disk)
BY DEF CleanFramesMatchDisk, GoodPool

(* In such a pool a page has one frame. *)
LEMMA FrameIs ==
  ASSUME PoolTypeOK, GoodPool(pool, disk), NEW i \in 1..Len(pool)
  PROVE  Resident(pool[i].page) /\ FrameOf(pool[i].page) = pool[i] /\ Contents(pool[i].page) = pool[i].image
<1>1. Resident(pool[i].page)
  BY DEF Resident
<1>2. PICK j \in 1..Len(pool) : pool[j].page = pool[i].page /\ FrameOf(pool[i].page) = pool[j]
  BY <1>1, ResidentFrame
<1>3. j = i
  BY <1>2 DEF GoodPool
<1> QED
  BY <1>1, <1>2, <1>3 DEF Contents

(* A fetch.  The fetched page ends up in the last frame. *)
LEMMA FetchGood ==
  ASSUME PoolTypeOK, GoodPool(pool, disk), NEW p \in Resource
  PROVE  LET q == PoolWith(p) d == DiskAfterFetch(p) IN
         /\ GoodPool(q, d)
         /\ Len(q) \in 1..Frames /\ q[Len(q)].page = p /\ q[Len(q)].image = Contents(p)
         /\ \A r \in Resource :
              \/ \E i \in 1..Len(q) : q[i].page = r /\ q[i].image = Contents(r)
              \/ (\A i \in 1..Len(q) : q[i].page # r) /\ d[r] = Contents(r)
<1> DEFINE q == PoolWith(p)
           d == DiskAfterFetch(p)
<1>0. pool \in Seq(Frame) /\ Len(pool) \in Nat /\ Frames \in Nat \ {0}
      /\ \A i \in 1..Len(pool) : pool[i] \in Frame
  BY FramesAssumption, ElementOfSeq DEF PoolTypeOK
<1>1. CASE Resident(p)
  <2> DEFINE w == Without({p})
  <2>1. PICK x \in 1..Len(pool) : pool[x].page = p /\ FrameOf(p) = pool[x]
    BY <1>1, ResidentFrame
  <2>2. PICK at \in [1..Len(w) -> 1..Len(pool)] :
           /\ \A k \in 1..Len(w) : w[k] = pool[at[k]] /\ pool[at[k]].page # p
           /\ \A k, l \in 1..Len(w) : k # l => at[k] # at[l]
           /\ \A j \in 1..Len(pool) : pool[j].page # p => \E k \in 1..Len(w) : at[k] = j
    <3>1. PICK P : P = {p}
      OBVIOUS
    <3>2. w = Without(P) /\ \A y : y \notin P <=> y # p
      BY <3>1
    <3> HIDE DEF w
    <3> QED
      BY <3>2, WithoutFrames
  <2>3. w \in Seq(Frame) /\ Len(w) \in Nat
    BY WithoutType
  <2>4. q = Append(w, pool[x]) /\ d = disk
    BY <1>1, <2>1 DEF PoolWith, DiskAfterFetch, Evicts
  <2> HIDE DEF w, q, d
  <2>5. /\ Len(q) = Len(w) + 1 /\ q[Len(q)] = pool[x]
        /\ \A i \in 1..Len(w) : q[i] = w[i]
    BY <1>0, <2>3, <2>4
  <2>6. Len(w) + 1 <= Len(pool)
    <3> DEFINE W == 1..Len(w)
               N == (1..Len(pool)) \ {x}
    <3>1. at \in Injection(W, N)
      <4>1. \A k \in W : at[k] # x
        BY <2>1, <2>2
      <4>2. at \in [W -> N] /\ \A k, l \in W : at[k] = at[l] => k = l
        BY <2>2, <4>1
      <4> HIDE DEF W, N
      <4> QED
        BY <4>2 DEF Injection, IsInjective
    <3>2. IsFiniteSet(1..Len(pool)) /\ Cardinality(1..Len(pool)) = Len(pool)
      BY <1>0, CardUpTo
    <3>4. IsFiniteSet(N) /\ Cardinality(N) = Len(pool) - 1
      <4> DEFINE M == 1..Len(pool)
      <4>1. IsFiniteSet(M) /\ Cardinality(M) = Len(pool) /\ x \in M /\ N = M \ {x}
        BY <3>2
      <4> HIDE DEF M, N
      <4> QED
        BY <4>1, FS_RemoveElement
    <3>5. Cardinality(W) = Len(w)
      BY <2>3, CardUpTo
    <3>6. Cardinality(W) <= Cardinality(N)
      <4> HIDE DEF W, N
      <4> QED
        BY <3>1, <3>4, FS_Injection
    <3> HIDE DEF W, N
    <3> QED
      BY <1>0, <2>3, <3>4, <3>5, <3>6
  \* Every frame of q is one of the pool's, each at one place.
  <2> DEFINE of == [i \in 1..Len(q) |-> IF i = Len(q) THEN x ELSE at[i]]
  <2>7. \A i \in 1..Len(q) : of[i] \in 1..Len(pool) /\ q[i] = pool[of[i]]
    <3> TAKE i \in 1..Len(q)
    <3>1. CASE i = Len(q)
      BY <2>5, <3>1
    <3>2. CASE i # Len(q)
      <4>1. i \in 1..Len(w) /\ of[i] = at[i]
        BY <2>3, <2>5, <3>2
      <4>2. at[i] \in 1..Len(pool) /\ w[i] = pool[at[i]] /\ q[i] = w[i]
        BY <2>2, <2>5, <4>1
      <4> QED
        BY <4>1, <4>2
    <3> QED
      BY <3>1, <3>2
  <2>8. \A i, j \in 1..Len(q) : i # j => of[i] # of[j]
    BY <2>1, <2>2, <2>3, <2>5
  <2>9. \A j \in 1..Len(pool) : \E i \in 1..Len(q) : of[i] = j
    <3> TAKE j \in 1..Len(pool)
    <3>1. CASE pool[j].page = p
      <4>1. j = x
        BY <2>1, <3>1 DEF GoodPool
      <4> QED
        BY <2>3, <2>5, <4>1
    <3>2. CASE pool[j].page # p
      <4>1. PICK k \in 1..Len(w) : at[k] = j
        BY <2>2, <3>2
      <4>2. k \in 1..Len(q) /\ k # Len(q)
        BY <2>3, <2>5
      <4> QED
        BY <4>1, <4>2
    <3> QED
      BY <3>1, <3>2
  <2> HIDE DEF of
  <2>10. GoodPool(q, d)
    <3>1. Len(q) <= Frames
      BY <1>0, <2>3, <2>5, <2>6 DEF GoodPool
    <3>2. \A i \in 1..Len(q) : ~q[i].dirty => q[i].image = d[q[i].page]
      <4> TAKE i \in 1..Len(q)
      <4>1. of[i] \in 1..Len(pool) /\ q[i] = pool[of[i]]
        BY <2>7
      <4>2. ~pool[of[i]].dirty => pool[of[i]].image = disk[pool[of[i]].page]
        BY <4>1 DEF GoodPool
      <4> QED
        BY <2>4, <4>1, <4>2
    <3>3. ASSUME NEW i \in 1..Len(q), NEW j \in 1..Len(q), j # i
          PROVE  q[j].page # q[i].page
      <4>1. of[i] \in 1..Len(pool) /\ of[j] \in 1..Len(pool) /\ of[i] # of[j]
        BY <2>7, <2>8, <3>3
      <4>2. q[i] = pool[of[i]] /\ q[j] = pool[of[j]]
        BY <2>7
      <4> QED
        BY <4>1, <4>2 DEF GoodPool
    <3> QED
      BY <3>1, <3>2, <3>3 DEF GoodPool
  <2>11. Len(q) \in 1..Frames /\ q[Len(q)].page = p /\ q[Len(q)].image = Contents(p)
    BY <1>0, <2>1, <2>3, <2>5, <2>10, FrameIs DEF GoodPool
  <2>12. ASSUME NEW r \in Resource
         PROVE  \/ \E i \in 1..Len(q) : q[i].page = r /\ q[i].image = Contents(r)
                \/ (\A i \in 1..Len(q) : q[i].page # r) /\ d[r] = Contents(r)
    <3>1. CASE Resident(r)
      <4>1. PICK j \in 1..Len(pool) : pool[j].page = r
        BY <3>1 DEF Resident
      <4>2. PICK i \in 1..Len(q) : of[i] = j
        BY <2>9
      <4> QED
        BY <2>7, <4>1, <4>2, FrameIs
    <3>2. CASE ~Resident(r)
      <4>1. \A i \in 1..Len(q) : q[i].page # r
        BY <2>7, <3>2 DEF Resident
      <4> QED
        BY <2>4, <3>2, <4>1 DEF Contents
    <3> QED
      BY <3>1, <3>2
  <2> QED
    BY <2>10, <2>11, <2>12 DEF q, d
<1>2. CASE ~Resident(p)
  <2> DEFINE f == [page |-> p, image |-> disk[p], dirty |-> FALSE]
             rest == IF Evicts(p) THEN Tail(pool) ELSE pool
  <2>0. Evicts(p) => pool # << >>
    BY FramesAssumption DEF Evicts
  <2>1. f \in Frame /\ f.page = p /\ f.image = disk[p] /\ f.dirty = FALSE
    BY DEF Frame, PoolTypeOK
  <2>2. rest \in Seq(Frame) /\ Len(rest) \in Nat
    BY <1>0, <2>0
  <2>3. q = Append(rest, f)
    BY <1>2 DEF PoolWith
  <2>4. Contents(p) = disk[p]
    BY <1>2 DEF Contents
  <2> HIDE DEF q, f
  <2>5. /\ Len(q) = Len(rest) + 1 /\ q[Len(q)] = f
        /\ \A i \in 1..Len(rest) : q[i] = rest[i]
    <3> HIDE DEF rest
    <3> QED
      BY <2>1, <2>2, <2>3
  <2>6. \A i \in 1..Len(pool) : pool[i].page # p
    BY <1>2 DEF Resident
  \* The frames of q but the last are those of the pool, one place earlier when one is evicted.
  <2> DEFINE s == IF Evicts(p) THEN 1 ELSE 0
  <2>7. Len(rest) = Len(pool) - s /\ Len(rest) + 1 <= Frames
    BY <1>0, <1>2, <2>0 DEF Evicts, GoodPool
  <2>8. \A i \in 1..Len(rest) : i + s \in 1..Len(pool) /\ rest[i] = pool[i + s]
    BY <1>0, <2>0, <2>7
  <2>9. d[p] = disk[p] /\ \A i \in 1..Len(rest) : d[rest[i].page] = disk[rest[i].page]
    <3>1. CASE Evicts(p) /\ Head(pool).dirty
      <4>1. Head(pool) = pool[1] /\ 1 \in 1..Len(pool)
        BY <1>0, <2>0, <3>1
      <4>2. d = [disk EXCEPT ![pool[1].page] = pool[1].image]
        BY <3>1, <4>1 DEF d, DiskAfterFetch
      <4>3. \A i \in 1..Len(rest) : rest[i].page # pool[1].page
        <5> TAKE i \in 1..Len(rest)
        <5>1. i + s # 1
          BY <3>1
        <5> QED
          BY <2>8, <4>1, <5>1 DEF GoodPool
      <4>4. \A i \in 1..Len(rest) : rest[i].page \in Resource
        BY <1>0, <2>8 DEF Frame
      <4> QED
        BY <2>6, <4>1, <4>2, <4>3, <4>4 DEF PoolTypeOK
    <3>2. CASE ~(Evicts(p) /\ Head(pool).dirty)
      BY <3>2 DEF d, DiskAfterFetch
    <3> QED
      BY <3>1, <3>2
  <2>10. GoodPool(q, d)
    <3>1. \A i \in 1..Len(q) : i \in 1..Len(rest) \/ i = Len(q)
      BY <2>2, <2>5
    <3>2. Len(q) \notin 1..Len(rest)
      BY <2>2, <2>5
    <3>3. \A i \in 1..Len(rest) : ~rest[i].dirty => rest[i].image = d[rest[i].page]
      <4> TAKE i \in 1..Len(rest)
      <4>1. ~pool[i + s].dirty => pool[i + s].image = disk[pool[i + s].page]
        BY <2>8 DEF GoodPool
      <4> QED
        BY <2>8, <2>9, <4>1
    <3>4. \A i, j \in 1..Len(rest) : i # j => rest[i].page # rest[j].page
      <4> TAKE i, j \in 1..Len(rest)
      <4> HAVE i # j
      <4>1. i + s # j + s
        BY <2>2
      <4> QED
        BY <2>8, <4>1 DEF GoodPool
    <3>5. \A i \in 1..Len(rest) : rest[i].page # p
      BY <2>6, <2>8
    <3>6. Len(q) <= Frames
      BY <2>5, <2>7
    <3>7. \A i \in 1..Len(q) : ~q[i].dirty => q[i].image = d[q[i].page]
      BY <2>1, <2>5, <2>9, <3>1, <3>3
    <3>8. \A i, j \in 1..Len(q) : j # i => q[j].page # q[i].page
      <4> TAKE i, j \in 1..Len(q)
      <4> HAVE j # i
      <4>1. CASE i \in 1..Len(rest) /\ j \in 1..Len(rest)
        <5>1. q[i] = rest[i] /\ q[j] = rest[j] /\ rest[i].page # rest[j].page
          BY <2>5, <3>4, <4>1
        <5> QED
          BY <5>1
      <4>2. CASE i \in 1..Len(rest) /\ j = Len(q)
        <5>1. q[i] = rest[i] /\ q[j].page = p /\ rest[i].page # p
          BY <2>1, <2>5, <3>5, <4>2
        <5> QED
          BY <5>1
      <4>3. CASE i = Len(q) /\ j \in 1..Len(rest)
        <5>1. q[j] = rest[j] /\ q[i].page = p /\ rest[j].page # p
          BY <2>1, <2>5, <3>5, <4>3
        <5> QED
          BY <5>1
      <4> QED
        BY <3>1, <4>1, <4>2, <4>3
    <3> QED
      BY <3>6, <3>7, <3>8 DEF GoodPool
  <2>11. Len(q) \in 1..Frames /\ q[Len(q)].page = p /\ q[Len(q)].image = Contents(p)
    BY <1>0, <2>1, <2>2, <2>4, <2>5, <2>7
  <2>12. ASSUME NEW r \in Resource
         PROVE  \/ \E i \in 1..Len(q) : q[i].page = r /\ q[i].image = Contents(r)
                \/ (\A i \in 1..Len(q) : q[i].page # r) /\ d[r] = Contents(r)
    <3>1. CASE r = p
      BY <2>11, <3>1
    <3>2. CASE \E i \in 1..Len(rest) : rest[i].page = r
      <4>1. PICK i \in 1..Len(rest) : rest[i].page = r
        BY <3>2
      <4>2. i \in 1..Len(q) /\ q[i] = pool[i + s] /\ i + s \in 1..Len(pool)
        BY <2>2, <2>5, <2>8
      <4> QED
        BY <2>8, <4>1, <4>2, FrameIs
    <3>3. CASE r # p /\ \A i \in 1..Len(rest) : rest[i].page # r
      <4>1. \A i \in 1..Len(q) : q[i].page # r
        BY <2>1, <2>2, <2>5, <3>3
      <4>2. d[r] = Contents(r)
        <5>1. CASE Evicts(p) /\ pool[1].page = r
          <6>1. Head(pool) = pool[1] /\ 1 \in 1..Len(pool)
            BY <1>0, <2>0, <5>1
          <6>2. Contents(r) = pool[1].image
            BY <5>1, <6>1, FrameIs
          <6>3. ~pool[1].dirty => disk[r] = pool[1].image
            BY <5>1, <6>1 DEF GoodPool
          <6> QED
            BY <5>1, <6>1, <6>2, <6>3 DEF d, DiskAfterFetch, PoolTypeOK
        <5>2. CASE ~(Evicts(p) /\ pool[1].page = r)
          <6>1. \A j \in 1..Len(pool) : pool[j].page # r
            <7> TAKE j \in 1..Len(pool)
            <7>1. CASE j - s \in 1..Len(rest)
              <8>1. rest[j - s] = pool[(j - s) + s] /\ (j - s) + s = j
                BY <2>8, <7>1
              <8> QED
                BY <3>3, <7>1, <8>1
            <7>2. CASE j - s \notin 1..Len(rest)
              <8>1. Evicts(p) /\ j = 1
                BY <1>0, <2>7, <7>2
              <8> QED
                BY <5>2, <8>1
            <7> QED
              BY <7>1, <7>2
          <6>2. Contents(r) = disk[r]
            BY <6>1 DEF Contents, Resident
          <6>3. d[r] = disk[r]
            <7>1. Evicts(p) => Head(pool) = pool[1] /\ pool[1].page # r
              BY <1>0, <2>0, <5>2
            <7> QED
              BY <7>1 DEF d, DiskAfterFetch, PoolTypeOK
          <6> QED
            BY <6>2, <6>3
        <5> QED
          BY <5>1, <5>2
      <4> QED
        BY <4>1, <4>2
    <3> QED
      BY <3>1, <3>2, <3>3
  <2> QED
    BY <2>10, <2>11, <2>12 DEF q, d
<1> QED
  BY <1>1, <1>2

(* A change of a page, after which it contains the new image.                *)
LEMMA FrameInNew ==
  ASSUME NEW q, NEW d, GoodPool(q, d), pool' = q, disk' = d, q \in Seq(Frame), d \in [Resource -> Image],
         NEW r \in Resource
  PROVE  /\ \A i \in 1..Len(q) : q[i].page = r => Contents(r)' = q[i].image
         /\ (\A i \in 1..Len(q) : q[i].page # r) => Contents(r)' = d[r]
<1>1. ASSUME NEW i \in 1..Len(q), q[i].page = r
      PROVE  Contents(r)' = q[i].image
  <2> DEFINE j == CHOOSE j \in 1..Len(pool') : pool'[j].page = r
  <2>1. j \in 1..Len(q) /\ q[j].page = r
    BY <1>1
  <2>2. j = i
    BY <1>1, <2>1 DEF GoodPool
  <2>3. FrameOf(r)' = q[i]
    BY <2>2 DEF FrameOf
  <2>4. Resident(r)'
    BY <1>1 DEF Resident
  <2> QED
    BY <2>3, <2>4 DEF Contents
<1>2. ASSUME \A i \in 1..Len(q) : q[i].page # r
      PROVE  Contents(r)' = d[r]
  BY <1>2 DEF Contents, Resident
<1> QED
  BY <1>1, <1>2

LEMMA FetchKeeps ==
  ASSUME PoolTypeOK, GoodPool(pool, disk), NEW p \in Resource, fetchPage(p)
  PROVE  GoodPool(pool, disk)' /\ \A r \in Resource : Contents(r)' = Contents(r)
<1> DEFINE q == PoolWith(p)
           d == DiskAfterFetch(p)
<1>1. /\ GoodPool(q, d)
      /\ \A r \in Resource :
           \/ \E i \in 1..Len(q) : q[i].page = r /\ q[i].image = Contents(r)
           \/ (\A i \in 1..Len(q) : q[i].page # r) /\ d[r] = Contents(r)
  BY FetchGood
<1>2. q \in Seq(Frame) /\ d \in [Resource -> Image]
  BY PoolWithType
<1>3. pool' = q /\ disk' = d
  BY DEF fetchPage
<1> HIDE DEF q, d
<1>4. \A r \in Resource : /\ \A i \in 1..Len(q) : q[i].page = r => Contents(r)' = q[i].image
                          /\ (\A i \in 1..Len(q) : q[i].page # r) => Contents(r)' = d[r]
  BY <1>1, <1>2, <1>3, FrameInNew
<1>5. \A r \in Resource : Contents(r)' = Contents(r)
  BY <1>1, <1>4
<1>6. GoodPool(pool, disk)'
  BY <1>1, <1>3 DEF GoodPool
<1> QED
  BY <1>5, <1>6

LEMMA ModifyChanges ==
  ASSUME PoolTypeOK, GoodPool(pool, disk), NEW p \in Resource, NEW image \in Image, modifyPage(p, image)
  PROVE  /\ GoodPool(pool, disk)'
         /\ Contents(p)' = image
         /\ \A r \in Resource : r # p => Contents(r)' = Contents(r)
<1> DEFINE w == PoolWith(p)
           d == DiskAfterFetch(p)
           f == [page |-> p, image |-> image, dirty |-> TRUE]
           n == Len(w)
           q == [w EXCEPT ![n] = f]
<1>1. /\ GoodPool(w, d) /\ n \in 1..Frames /\ w[n].page = p
      /\ \A r \in Resource :
           \/ \E i \in 1..n : w[i].page = r /\ w[i].image = Contents(r)
           \/ (\A i \in 1..n : w[i].page # r) /\ d[r] = Contents(r)
  BY FetchGood
<1>2. w \in Seq(Frame) /\ d \in [Resource -> Image] /\ n \in 1..n
  BY <1>1, PoolWithType
<1>3. pool' = q /\ disk' = d
  BY DEF modifyPage
<1>4. f \in Frame /\ f.page = p /\ f.image = image /\ f.dirty = TRUE
  BY DEF Frame
<1> HIDE DEF w, f, d
<1>5. /\ q \in Seq(Frame) /\ Len(q) = n /\ q[n] = f
      /\ \A i \in 1..n : i # n => q[i] = w[i]
  BY <1>2, <1>4
<1> HIDE DEF q
<1>6. \A i \in 1..n : q[i].page = w[i].page
  BY <1>1, <1>4, <1>5
<1>7. GoodPool(q, d)
  <2>1. \A i \in 1..Len(q) : ~q[i].dirty => q[i].image = d[q[i].page]
    <3> TAKE i \in 1..Len(q)
    <3>1. CASE i = n
      BY <1>4, <1>5, <3>1
    <3>2. CASE i # n
      BY <1>1, <1>5, <3>2 DEF GoodPool
    <3> QED
      BY <3>1, <3>2
  <2> QED
    BY <1>1, <1>5, <1>6, <2>1 DEF GoodPool
<1>8. \A r \in Resource : /\ \A i \in 1..Len(q) : q[i].page = r => Contents(r)' = q[i].image
                          /\ (\A i \in 1..Len(q) : q[i].page # r) => Contents(r)' = d[r]
  BY <1>2, <1>3, <1>5, <1>7, FrameInNew
<1>9. Contents(p)' = image
  BY <1>2, <1>4, <1>5, <1>8
<1>10. ASSUME NEW r \in Resource, r # p
       PROVE  Contents(r)' = Contents(r)
  <2>1. CASE \E i \in 1..n : w[i].page = r /\ w[i].image = Contents(r)
    <3>1. PICK i \in 1..n : w[i].page = r /\ w[i].image = Contents(r)
      BY <2>1
    <3>2. i # n
      BY <1>1, <1>10, <3>1
    <3> QED
      BY <1>5, <1>8, <3>1, <3>2
  <2>2. CASE (\A i \in 1..n : w[i].page # r) /\ d[r] = Contents(r)
    BY <1>5, <1>6, <1>8, <2>2
  <2> QED
    BY <1>1, <2>1, <2>2
<1>11. GoodPool(pool, disk)'
  BY <1>3, <1>7 DEF GoodPool
<1> QED
  BY <1>9, <1>10, <1>11

LEMMA FlushKeeps ==
  ASSUME PoolTypeOK, GoodPool(pool, disk), NEW P, disk' = Flushed(P), pool' = Cleaned(P)
  PROVE  GoodPool(pool, disk)' /\ \A r \in Resource : Contents(r)' = Contents(r)
<1> DEFINE q == Cleaned(P)
           d == Flushed(P)
<1>1. Len(pool) \in Nat /\ \A i \in 1..Len(pool) : pool[i] \in Frame
  BY ElementOfSeq DEF PoolTypeOK
<1>2. /\ Len(q) = Len(pool)
      /\ \A i \in 1..Len(pool) :
           /\ q[i].page = pool[i].page /\ q[i].image = pool[i].image
           /\ q[i].dirty <=> pool[i].dirty /\ pool[i].page \notin P
  BY <1>1 DEF Cleaned, Frame
<1>3. \A r \in Resource : d[r] = IF r \in P /\ Resident(r) /\ FrameOf(r).dirty THEN FrameOf(r).image ELSE disk[r]
  BY DEF Flushed, isDirty, PoolTypeOK
<1>4. q \in Seq(Frame) /\ d \in [Resource -> Image]
  BY FlushedType
<1> HIDE DEF q, d
<1>5. GoodPool(q, d)
  <2>1. ASSUME NEW i \in 1..Len(q), ~q[i].dirty
        PROVE  q[i].image = d[q[i].page]
    <3>1. i \in 1..Len(pool) /\ pool[i].page \in Resource
      BY <1>1, <1>2 DEF Frame
    <3>2. Resident(pool[i].page) /\ FrameOf(pool[i].page) = pool[i]
      BY <3>1, FrameIs
    <3>3. ~pool[i].dirty => pool[i].image = disk[pool[i].page]
      BY <3>1 DEF GoodPool
    <3>4. pool[i].dirty => pool[i].page \in P
      BY <1>2, <2>1, <3>1
    <3>5. d[pool[i].page] = pool[i].image
      BY <1>3, <3>1, <3>2, <3>3, <3>4
    <3> QED
      BY <1>2, <3>1, <3>5
  <2> QED
    BY <1>2, <2>1 DEF GoodPool
<1>6. \A r \in Resource : /\ \A i \in 1..Len(q) : q[i].page = r => Contents(r)' = q[i].image
                          /\ (\A i \in 1..Len(q) : q[i].page # r) => Contents(r)' = d[r]
  BY <1>4, <1>5, FrameInNew DEF q, d
<1>7. ASSUME NEW r \in Resource
      PROVE  Contents(r)' = Contents(r)
  <2>1. CASE Resident(r)
    <3>1. PICK i \in 1..Len(pool) : pool[i].page = r
      BY <2>1 DEF Resident
    <3>2. Contents(r) = pool[i].image
      BY <3>1, FrameIs
    <3> QED
      BY <1>2, <1>6, <3>1, <3>2
  <2>2. CASE ~Resident(r)
    <3>1. \A i \in 1..Len(q) : q[i].page # r
      BY <1>2, <2>2 DEF Resident
    <3> QED
      BY <1>3, <1>6, <2>2, <3>1 DEF Contents
  <2> QED
    BY <2>1, <2>2
<1>8. GoodPool(pool, disk)'
  BY <1>5 DEF GoodPool, q, d
<1> QED
  BY <1>7, <1>8

(* The last write to a page decides. *)
LEMMA WrittenIs ==
  ASSUME NEW file, NEW p \in DOMAIN file, NEW V, NEW writes \in Seq(V)
  PROVE  \/ /\ \A i \in 1..Len(writes) : writes[i].page # p
            /\ Written(file, writes)[p] = file[p]
         \/ \E i \in 1..Len(writes) :
              /\ writes[i].page = p /\ \A j \in 1..Len(writes) : writes[j].page = p => j <= i
              /\ Written(file, writes)[p] = writes[i].image
<1> DEFINE mine == {i \in 1..Len(writes) : writes[i].page = p}
<1>1. Written(file, writes)[p] = IF mine = {} THEN file[p] ELSE writes[Max(mine)].image
  BY DEF Written
<1>2. CASE mine = {}
  BY <1>1, <1>2
<1>3. CASE mine # {}
  <2>1. Max(mine) \in mine /\ \A j \in mine : Max(mine) >= j
    <3> DEFINE n == Len(writes)
    <3>1. mine \in SUBSET (0..n) /\ n \in Nat
      OBVIOUS
    <3> HIDE DEF n, mine
    <3> QED
      BY <1>3, <3>1, MaxInInterval
  <2> DEFINE m == Max(mine)
  <2>2. m \in 1..Len(writes) /\ writes[m].page = p
    BY <2>1
  <2>3. \A j \in 1..Len(writes) : writes[j].page = p => j <= m
    <3> TAKE j \in 1..Len(writes)
    <3> HAVE writes[j].page = p
    <3>1. j \in mine
      OBVIOUS
    <3> QED
      BY <2>1, <2>2, <3>1
  <2> HIDE DEF m
  <2>4. Written(file, writes)[p] = writes[m].image
    BY <1>1, <1>3 DEF m
  <2> QED
    BY <2>2, <2>3, <2>4
<1> QED
  BY <1>2, <1>3

(* The first before-image t has of a page: what an abort puts back. *)
FirstBefore(t, p) == undoLog[t][Min({j \in 1..Len(undoLog[t]) : undoLog[t][j].page = p})].before

LEMMA FirstWrite ==
  ASSUME MemoryTypeOK, NEW t \in Tx, NEW p, p \in modifiedPages(t)
  PROVE  \E i \in 1..Len(undoLog[t]) :
           /\ i = Min({j \in 1..Len(undoLog[t]) : undoLog[t][j].page = p})
           /\ undoLog[t][i].page = p /\ undoLog[t][i] \in UndoRecord
           /\ \A j \in 1..Len(undoLog[t]) : undoLog[t][j].page = p => i <= j
<1> DEFINE n == Len(undoLog[t])
           mine == {j \in 1..n : undoLog[t][j].page = p}
<1>1. undoLog[t] \in Seq(UndoRecord) /\ n \in Nat
  BY DEF MemoryTypeOK
<1>2. mine # {} /\ \A j \in mine : j \in Int
  BY DEF modifiedPages, Touched
<1>3. IsFiniteSet(mine)
  <2> DEFINE N == 1..n
  <2>1. IsFiniteSet(N) /\ mine \in SUBSET N
    BY <1>1, CardUpTo
  <2> HIDE DEF N, mine
  <2> QED
    BY <2>1, FS_Subset
<1>4. Min(mine) \in mine /\ \A j \in mine : Min(mine) <= j
  <2> HIDE DEF mine
  <2> QED
    BY <1>2, <1>3, LeastMember
<1>5. Min(mine) \in 1..n /\ undoLog[t][Min(mine)].page = p
  BY <1>4
<1>6. undoLog[t][Min(mine)] \in UndoRecord
  BY <1>1, <1>5, ElementOfSeq
<1>7. \A j \in 1..n : undoLog[t][j].page = p => Min(mine) <= j
  BY <1>4
<1> QED
  BY <1>5, <1>6, <1>7

LEMMA FirstBeforeIs ==
  ASSUME MemoryTypeOK, NEW t \in Tx, NEW p, NEW i \in 1..Len(undoLog[t]), undoLog[t][i].page = p,
         \A j \in 1..Len(undoLog[t]) : undoLog[t][j].page = p => i <= j
  PROVE  FirstBefore(t, p) = undoLog[t][i].before
<1>1. p \in modifiedPages(t)
  BY DEF modifiedPages, Touched
<1>2. PICK k \in 1..Len(undoLog[t]) :
         /\ k = Min({j \in 1..Len(undoLog[t]) : undoLog[t][j].page = p})
         /\ undoLog[t][k].page = p
         /\ \A j \in 1..Len(undoLog[t]) : undoLog[t][j].page = p => k <= j
  BY <1>1, FirstWrite
<1>3. k = i
  <2>1. k <= i
    BY <1>2
  <2>2. i <= k
    BY <1>2
  <2>3. Len(undoLog[t]) \in Nat
    BY DEF MemoryTypeOK
  <2> QED
    BY <2>1, <2>2, <2>3
<1> QED
  BY <1>2, <1>3 DEF FirstBefore

(* The page writes of an abort leave each page the transaction changed at    *)
(* its first before-image.                                                   *)
LEMMA RestoresFirst ==
  ASSUME MemoryTypeOK, PoolTypeOK, NEW t \in Tx, NEW p \in Resource
  PROVE  Written(disk, Restores(t))[p] =
           IF p \in modifiedPages(t) THEN FirstBefore(t, p) ELSE disk[p]
<1> DEFINE s == undoLog[t]
           n == Len(s)
           w == Restores(t)
           r == Reverse(s)
<1>1. s \in Seq(UndoRecord) /\ n \in Nat
  BY DEF MemoryTypeOK
<1>2. w \in Seq(PageWrite) /\ Len(w) = n
  BY RestoresType DEF MemoryTypeOK
<1>3. \A k \in 1..n : w[k].page = s[(n - k) + 1].page /\ w[k].image = s[(n - k) + 1].before
  <2>1. w = [k \in 1..Len(r) |-> [page |-> r[k].page, image |-> r[k].before]]
    BY DEF Restores
  <2>2. r = [k \in 1..n |-> s[(n - k) + 1]] /\ Len(r) = n
    BY <1>1 DEF Reverse
  <2> HIDE DEF w, r, s, n
  <2> QED
    BY <2>1, <2>2
<1>4. p \in DOMAIN disk
  BY DEF PoolTypeOK
<1>5. p \in modifiedPages(t) <=> \E i \in 1..n : s[i].page = p
  BY DEF modifiedPages, Touched
<1>6. CASE (\A i \in 1..Len(w) : w[i].page # p) /\ Written(disk, w)[p] = disk[p]
  <2>1. \A i \in 1..n : s[i].page # p
    <3> TAKE i \in 1..n
    <3>1. (n - i) + 1 \in 1..n /\ (n - ((n - i) + 1)) + 1 = i
      BY <1>1
    <3> HIDE DEF w, s, n
    <3>2. w[(n - i) + 1].page = s[i].page
      BY <1>3, <3>1
    <3> QED
      BY <1>2, <1>6, <3>1, <3>2
  <2> QED
    BY <1>5, <1>6, <2>1
<1>7. CASE \E i \in 1..Len(w) :
             /\ w[i].page = p /\ \A j \in 1..Len(w) : w[j].page = p => j <= i
             /\ Written(disk, w)[p] = w[i].image
  <2>1. PICK i \in 1..n :
             /\ w[i].page = p /\ \A j \in 1..n : w[j].page = p => j <= i
             /\ Written(disk, w)[p] = w[i].image
    BY <1>2, <1>7
  <2> DEFINE k == (n - i) + 1
  <2>2. k \in 1..n /\ s[k].page = p /\ w[i].image = s[k].before
    BY <1>1, <1>3, <2>1
  <2>3. \A j \in 1..n : s[j].page = p => k <= j
    <3> TAKE j \in 1..n
    <3> HAVE s[j].page = p
    <3>1. (n - j) + 1 \in 1..n /\ (n - ((n - j) + 1)) + 1 = j
      BY <1>1
    <3> HIDE DEF w, s
    <3>2. w[(n - j) + 1].page = p
      BY <1>3, <3>1
    <3>3. (n - j) + 1 <= i
      BY <2>1, <3>1, <3>2
    <3> QED
      BY <1>1, <3>3
  <2> HIDE DEF k
  <2>4. FirstBefore(t, p) = s[k].before
    BY <2>2, <2>3, FirstBeforeIs
  <2>5. p \in modifiedPages(t)
    BY <1>5, <2>2
  <2> QED
    BY <2>1, <2>2, <2>4, <2>5
<1> QED
  BY <1>2, <1>4, <1>6, <1>7, WrittenIs

(* An abort puts back the first before-images, wherever the changed pages    *)
(* were, and touches no other page.                                          *)
LEMMA AbortRestores ==
  ASSUME MemoryTypeOK, PoolTypeOK, GoodPool(pool, disk), NEW t \in Tx,
         disk' = Written(disk, Restores(t)), pool' = Without(modifiedPages(t))
  PROVE  /\ GoodPool(pool, disk)'
         /\ \A p \in Resource :
              Contents(p)' = IF p \in modifiedPages(t) THEN FirstBefore(t, p) ELSE Contents(p)
<1> DEFINE P == modifiedPages(t)
           q == Without(P)
           d == Written(disk, Restores(t))
<1>1. PICK at \in [1..Len(q) -> 1..Len(pool)] :
         /\ \A k \in 1..Len(q) : q[k] = pool[at[k]] /\ pool[at[k]].page \notin P
         /\ \A k, l \in 1..Len(q) : k # l => at[k] # at[l]
         /\ \A j \in 1..Len(pool) : pool[j].page \notin P => \E k \in 1..Len(q) : at[k] = j
  <2> HIDE DEF P
  <2> QED
    BY WithoutFrames
<1>2. q \in Seq(Frame) /\ Len(q) <= Len(pool)
  BY WithoutType
<1>3. \A p \in Resource : d[p] = IF p \in P THEN FirstBefore(t, p) ELSE disk[p]
  BY RestoresFirst
<1>4. d \in [Resource -> Image]
  BY RestoresType, WrittenType DEF MemoryTypeOK, PoolTypeOK
<1>5. Len(pool) \in Nat /\ \A i \in 1..Len(pool) : pool[i] \in Frame
  BY ElementOfSeq DEF PoolTypeOK
<1> HIDE DEF P, q, d
<1>6. GoodPool(q, d)
  <2>1. Len(q) <= Frames
    BY <1>2, <1>5, FramesAssumption DEF GoodPool
  <2>2. ASSUME NEW i \in 1..Len(q), ~q[i].dirty
        PROVE  q[i].image = d[q[i].page]
    <3>1. at[i] \in 1..Len(pool) /\ q[i] = pool[at[i]] /\ pool[at[i]].page \notin P
      BY <1>1
    <3>2. pool[at[i]].image = disk[pool[at[i]].page] /\ pool[at[i]].page \in Resource
      BY <1>5, <2>2, <3>1 DEF GoodPool, Frame
    <3> QED
      BY <1>3, <3>1, <3>2
  <2>3. ASSUME NEW i \in 1..Len(q), NEW j \in 1..Len(q), j # i
        PROVE  q[j].page # q[i].page
    <3>1. at[i] \in 1..Len(pool) /\ at[j] \in 1..Len(pool) /\ at[i] # at[j]
      BY <1>1, <2>3
    <3>2. q[i] = pool[at[i]] /\ q[j] = pool[at[j]]
      BY <1>1
    <3> QED
      BY <3>1, <3>2 DEF GoodPool
  <2> QED
    BY <2>1, <2>2, <2>3 DEF GoodPool
<1>7. \A r \in Resource : /\ \A i \in 1..Len(q) : q[i].page = r => Contents(r)' = q[i].image
                          /\ (\A i \in 1..Len(q) : q[i].page # r) => Contents(r)' = d[r]
  BY <1>2, <1>4, <1>6, FrameInNew DEF q, d, P
<1>8. ASSUME NEW r \in Resource
      PROVE  Contents(r)' = IF r \in P THEN FirstBefore(t, r) ELSE Contents(r)
  <2>1. CASE r \in P
    <3>1. \A i \in 1..Len(q) : q[i].page # r
      BY <1>1, <2>1
    <3> QED
      BY <1>3, <1>7, <2>1, <3>1
  <2>2. CASE r \notin P /\ Resident(r)
    <3>1. PICK j \in 1..Len(pool) : pool[j].page = r
      BY <2>2 DEF Resident
    <3>2. PICK i \in 1..Len(q) : at[i] = j
      BY <1>1, <2>2, <3>1
    <3>3. q[i].page = r /\ q[i].image = Contents(r)
      BY <1>1, <3>1, <3>2, FrameIs
    <3> QED
      BY <1>7, <2>2, <3>3
  <2>3. CASE r \notin P /\ ~Resident(r)
    <3>1. \A i \in 1..Len(q) : q[i].page # r
      BY <1>1, <2>3 DEF Resident
    <3> QED
      BY <1>3, <1>7, <2>3, <3>1 DEF Contents
  <2> QED
    BY <2>1, <2>2, <2>3
<1>9. GoodPool(pool, disk)'
  BY <1>6 DEF GoodPool, q, d, P
<1> QED
  BY <1>8, <1>9 DEF P

-----------------------------------------------------------------------------
PoolInv == TxInv /\ GoodPool(pool, disk)

(* What each step does to what the pages contain. *)
LEMMA PoolStep ==
  ASSUME PoolInv, [Next]_vars
  PROVE  GoodPool(pool, disk)'
<1> USE DEF PoolInv
<1>0. PoolTypeOK /\ MemoryTypeOK /\ TypeInv /\ TxInv
  BY DEF TxInv, TypeInv
<1>w. \A t \in Tx : want[t] # NoAccess => want[t].page \in Resource
  BY <1>0, AccessFacts DEF MemoryTypeOK
<1>1. CASE UNCHANGED <<pool, disk>>
  BY <1>1 DEF GoodPool
<1>2. ASSUME NEW t \in Tx, read(t) \/ refuse(t)
      PROVE  GoodPool(pool, disk)'
  <2>1. want[t].page \in Resource /\ fetchPage(want[t].page)
    BY <1>2, <1>w DEF read, refuse, Resumes
  <2> QED
    BY <1>0, <2>1, FetchKeeps
<1>3. ASSUME NEW t \in Tx, write(t)
      PROVE  GoodPool(pool, disk)'
  <2> DEFINE p == want[t].page
             after == Contents(p) \cup {<<boot, t, Len(undoLog[t]) + 1>>}
  <2>1. p \in Resource /\ Cardinality(Records("UPDATE")) < MaxWrites /\ modifyPage(p, after)
    BY <1>3, <1>w DEF write, Resumes
  <2>2. after \in Image
    BY <1>0, <2>1, WriteImages
  <2> HIDE DEF after, p
  <2> QED
    BY <1>0, <2>1, <2>2, ModifyChanges
<1>4. ASSUME NEW P, disk' = Flushed(P), pool' = Cleaned(P)
      PROVE  GoodPool(pool, disk)'
  BY <1>0, <1>4, FlushKeeps
<1>5. ASSUME NEW t \in Tx, abort(t) \/ abortCommitted(t)
      PROVE  GoodPool(pool, disk)'
  BY <1>0, <1>5, AbortRestores DEF abort, abortCommitted, Undoes
<1>6. ASSUME pool' = << >>
      PROVE  GoodPool(pool, disk)'
  BY <1>6, FramesAssumption DEF GoodPool
<1>7. ASSUME NEW n, NEW k, start(n, k)
      PROVE  pool' = << >>
  BY <1>0, <1>7 DEF start, TxInv, Down
<1> QED
  BY <1>1, <1>2, <1>3, <1>4, <1>5, <1>6, <1>7
     DEF Next, TxStep, begin, acquireLock, throw, commit, lockTimeout, sweep, checkpoint,
         crash, crashInAppend, stop, crashInCommit, crashInAbort, Dies, vars

LEMMA PoolAlways == Spec => []PoolInv
<1>1. Init => PoolInv
  <2> SUFFICES ASSUME Init
               PROVE  PoolInv
    OBVIOUS
  <2>1. GoodPool(pool, disk)
    BY FramesAssumption DEF Init, GoodPool
  <2> QED
    BY <2>1, TxInitInv DEF PoolInv
<1>2. PoolInv /\ [Next]_vars => PoolInv'
  BY PoolStep, TxInvStep DEF PoolInv
<1> QED
  BY <1>1, <1>2, PTL DEF Spec

(* The pool never holds more frames than its capacity nor two of one page,   *)
(* and a clean frame is what the data file has: CleanFramesMatchDisk.  It    *)
(* rests on the engine keeping nothing in memory while it is down, since a   *)
(* recovery writes the file past the pool.                                   *)
THEOREM PoolIsCoherent == Spec => []CleanFramesMatchDisk
<1>1. PoolInv => CleanFramesMatchDisk
  BY GoodPoolIs DEF PoolInv
<1> QED
  BY <1>1, PoolAlways, PTL

-----------------------------------------------------------------------------
(* Restart recovery. *)

(* The first m elements of a sequence. *)
LEMMA PrefixFacts ==
  ASSUME NEW R, NEW s \in Seq(R), NEW m \in 0..Len(s)
  PROVE  /\ SubSeq(s, 1, m) \in Seq(R) /\ Len(SubSeq(s, 1, m)) = m
         /\ \A i \in 1..m : SubSeq(s, 1, m)[i] = s[i]
OBVIOUS

(* A prefix of the page writes made first does not show once all are made.   *)
LEMMA WrittenAgain ==
  ASSUME NEW file \in [Resource -> Image], NEW writes \in Seq(PageWrite), NEW n \in 0..Len(writes)
  PROVE  Written(Written(file, SubSeq(writes, 1, n)), writes) = Written(file, writes)
<1> DEFINE first == SubSeq(writes, 1, n)
           d == Written(file, first)
<1>1. /\ first \in Seq(PageWrite) /\ Len(first) = n
      /\ \A i \in 1..n : first[i] = writes[i]
  BY PrefixFacts
<1>2. d \in [Resource -> Image]
  BY <1>1, WrittenType
<1>3. Written(d, writes) \in [Resource -> Image] /\ Written(file, writes) \in [Resource -> Image]
  BY <1>2, WrittenType
<1>4. ASSUME NEW p \in Resource
      PROVE  Written(d, writes)[p] = Written(file, writes)[p]
  <2>1. p \in DOMAIN d /\ p \in DOMAIN file
    BY <1>2
  <2>2. \/ (\A i \in 1..Len(first) : first[i].page # p) /\ d[p] = file[p]
        \/ \E i \in 1..Len(first) : first[i].page = p
    <3>1. first \in Seq(PageWrite) /\ d = Written(file, first)
      BY <1>1
    <3> HIDE DEF first, d
    <3> QED
      BY <2>1, <3>1, WrittenIs
  <2> HIDE DEF d, first
  <2>3. \/ (\A i \in 1..Len(writes) : writes[i].page # p) /\ Written(d, writes)[p] = d[p]
        \/ \E i \in 1..Len(writes) :
             /\ writes[i].page = p /\ \A j \in 1..Len(writes) : writes[j].page = p => j <= i
             /\ Written(d, writes)[p] = writes[i].image
    BY <2>1, WrittenIs
  <2>4. \/ (\A i \in 1..Len(writes) : writes[i].page # p) /\ Written(file, writes)[p] = file[p]
        \/ \E i \in 1..Len(writes) :
             /\ writes[i].page = p /\ \A j \in 1..Len(writes) : writes[j].page = p => j <= i
             /\ Written(file, writes)[p] = writes[i].image
    BY <2>1, WrittenIs
  <2>5. CASE \A i \in 1..Len(writes) : writes[i].page # p
    <3>1. \A i \in 1..Len(first) : first[i].page # p
      <4> TAKE i \in 1..Len(first)
      <4>1. i \in 1..Len(writes) /\ first[i] = writes[i]
        BY <1>1
      <4> QED
        BY <2>5, <4>1
    <3> QED
      BY <2>2, <2>3, <2>4, <2>5, <3>1
  <2>6. CASE \E i \in 1..Len(writes) : writes[i].page = p
    <3>1. PICK i \in 1..Len(writes) :
             /\ writes[i].page = p /\ \A j \in 1..Len(writes) : writes[j].page = p => j <= i
             /\ Written(d, writes)[p] = writes[i].image
      BY <2>3, <2>6
    <3>2. PICK k \in 1..Len(writes) :
             /\ writes[k].page = p /\ \A j \in 1..Len(writes) : writes[j].page = p => j <= k
             /\ Written(file, writes)[p] = writes[k].image
      BY <2>4, <2>6
    <3>3. i <= k /\ k <= i
      BY <3>1, <3>2
    <3>4. i = k
      BY <3>3
    <3> QED
      BY <3>1, <3>2, <3>4
  <2> QED
    BY <2>5, <2>6
<1> QED
  BY <1>3, <1>4

(* ABORT records at the end of a log change nothing for a recovery.          *)
LEMMA AbortsDoNotCount ==
  ASSUME NEW a, LogOK(a), NEW b, LogOK(b), Len(a) <= Len(b),
         \A i \in 1..Len(a) : b[i] = a[i],
         \A i \in 1..Len(b) : i \notin 1..Len(a) => b[i].type = "ABORT"
  PROVE  RecoveryWrites(b) = RecoveryWrites(a)
<1>1. Len(a) \in Nat /\ Len(b) \in Nat
  BY DEF LogOK
<1>2. \A i \in 1..Len(a) : i \in 1..Len(b)
  BY <1>1
<1>3. ASSUME NEW type, type # "ABORT"
      PROVE  TxOf(b, type) = TxOf(a, type)
  <2>1. {j \in 1..Len(b) : b[j].type = type} = {j \in 1..Len(a) : a[j].type = type}
    BY <1>2, <1>3
  <2>2. \A i \in {j \in 1..Len(a) : a[j].type = type} : b[i] = a[i]
    OBVIOUS
  <2> QED
    BY <2>1, <2>2 DEF TxOf
<1>4. winners(b) = winners(a) /\ losers(b) = losers(a)
  <2>1. "COMMIT" # "ABORT" /\ "BEGIN" # "ABORT"
    OBVIOUS
  <2> QED
    BY <1>3, <2>1 DEF winners, losers
<1>5. ASSUME NEW txs
      PROVE  UpdatesOf(b, txs) = UpdatesOf(a, txs)
  <2> DEFINE I == {i \in 1..Len(a) : a[i].type = "UPDATE" /\ a[i].tx \in txs}
             J == {i \in 1..Len(b) : b[i].type = "UPDATE" /\ b[i].tx \in txs}
             at == Ascending(I)
  <2>1. I = J
    BY <1>2
  <2>2. UpdatesOf(a, txs) = ElementsAt(a, I) /\ UpdatesOf(b, txs) = ElementsAt(b, J)
    BY DEF UpdatesOf
  <2>3. PICK R : a \in Seq(R)
    BY DEF LogOK
  <2>4. IsFiniteSet(I) /\ Cardinality(I) \in Nat /\ at \in [1..Cardinality(I) -> I]
    <3>1. I \in SUBSET (1..Len(a))
      OBVIOUS
    <3> HIDE DEF I
    <3>2. Cardinality(I) \in 0..Len(a) /\ IsFiniteSet(I) /\ at \in [1..Cardinality(I) -> I]
      BY <2>3, <3>1, ElementsAtFacts
    <3> QED
      BY <3>2
  <2>5. \A i \in I : b[i] = a[i]
    OBVIOUS
  <2> HIDE DEF I, J
  <2>6. Len(at) = Cardinality(I)
    BY <2>4
  <2>7. \A k \in 1..Len(at) : b[at[k]] = a[at[k]]
    BY <2>4, <2>5, <2>6
  <2>8. ElementsAt(b, I) = ElementsAt(a, I)
    BY <2>7 DEF ElementsAt
  <2> QED
    BY <2>1, <2>2, <2>8
<1> QED
  BY <1>4, <1>5 DEF RecoveryWrites, redo, undo

(* What readAll finds in a log with nothing behind a torn record.            *)
LEMMA ReadIs ==
  ASSUME NEW w, LogOK(w), Readable(w)
  PROVE  LET r == readAll(w) IN
         /\ LogOK(r) /\ Len(r) \in Nat /\ Len(r) <= Len(w)
         /\ \A i \in 1..Len(r) : r[i] = w[i] /\ r[i].type # "TORN"
         /\ \A i \in 1..Len(w) : i \notin 1..Len(r) => w[i].type = "TORN"
<1> DEFINE torn == {i \in 1..Len(w) : w[i].type = "TORN"}
           r == readAll(w)
<1>0. LogOK(r)
  BY ReadableLog
<1>1. PICK R : w \in Seq(R)
  BY DEF LogOK
<1>2. CASE torn = {}
  <2>1. r = w
    BY <1>2 DEF readAll
  <2> QED
    BY <1>0, <1>1, <1>2, <2>1
<1>3. CASE torn # {}
  <2> DEFINE n == Len(w)
  <2>1. n \in 1..n /\ w[n].type = "TORN" /\ \A i \in 1..n : w[i].type = "TORN" => i = n
    BY <1>1, <1>3 DEF Readable
  <2>2. Min(torn) = n
    <3>1. torn = {n}
      BY <2>1
    <3>2. \A i \in {n} : i \in Int
      BY <2>1
    <3>3. IsFiniteSet({n})
      BY FS_Singleton
    <3>4. Min({n}) \in {n}
      <4> HIDE DEF n
      <4>1. PICK N : N = {n}
        OBVIOUS
      <4>2. N # {} /\ IsFiniteSet(N) /\ \A i \in N : i \in Int
        BY <3>2, <3>3, <4>1
      <4>3. Min(N) \in N
        BY <4>2, LeastMember
      <4> QED
        BY <4>1, <4>3
    <3> QED
      BY <3>1, <3>4
  <2>3. r = SubSeq(w, 1, n - 1)
    BY <1>3, <2>2 DEF readAll
  <2> HIDE DEF r, torn
  <2>4. Len(r) = n - 1 /\ \A i \in 1..(n - 1) : r[i] = w[i]
    <3>1. w \in Seq(R) /\ n - 1 \in 0..Len(w)
      BY <1>1, <2>1
    <3> DEFINE m == n - 1
    <3>2. r = SubSeq(w, 1, m)
      BY <2>3
    <3> HIDE DEF m
    <3> QED
      BY <3>1, <3>2, PrefixFacts DEF m
  <2>5. \A i \in 1..(n - 1) : i \in 1..n /\ i # n
    BY <1>1
  <2>6. \A i \in 1..n : i \notin 1..(n - 1) => i = n
    BY <1>1
  <2>7. Len(r) \in Nat /\ Len(r) <= n
    BY <1>1, <2>1, <2>4
  <2>8. \A i \in 1..Len(r) : r[i] = w[i] /\ r[i].type # "TORN"
    BY <2>1, <2>4, <2>5
  <2>9. \A i \in 1..n : i \notin 1..Len(r) => w[i].type = "TORN"
    BY <2>1, <2>4, <2>6
  <2> HIDE DEF n
  <2> QED
    BY <1>0, <2>7, <2>8, <2>9 DEF r, n
<1> QED
  BY <1>2, <1>3

(* A recovery, cut short or not, leaves what a later one does as it was.     *)
LEMMA StartAgain ==
  ASSUME TypeInv, NEW n \in Nat, NEW k \in Nat, start(n, k), Readable(wal')
  PROVE  Recovered(disk', wal') = Recovered(disk, wal)
<1> DEFINE writes == RecoveryWrites(readAll(wal))
<1>1. /\ LogOK(wal) /\ LogOK(wal')
      /\ Len(wal) \in Nat /\ Len(wal') \in Nat /\ Len(wal) <= Len(wal')
      /\ \A i \in 1..Len(wal) : wal'[i] = wal[i]
      /\ \A i \in 1..Len(wal') : i \notin 1..Len(wal) => wal'[i].type \in {"ABORT", "TORN"}
  BY StartLog DEF TypeInv
<1>2. writes \in Seq(PageWrite)
  BY <1>1, ReadableLog, RecoveryWritesType
<1>3. n <= Len(writes) /\ disk' = Written(disk, SubSeq(writes, 1, n))
  BY DEF start
<1>4. RecoveryWrites(readAll(wal')) = writes
  <2> DEFINE a == readAll(wal)
             b == readAll(wal')
  <2>1. Readable(wal)
    <3> SUFFICES ASSUME NEW i \in 1..Len(wal), wal[i].type = "TORN"
                 PROVE  i = Len(wal)
      BY DEF Readable
    <3>1. i \in 1..Len(wal') /\ wal'[i].type = "TORN"
      BY <1>1
    <3>2. i = Len(wal')
      BY <3>1 DEF Readable
    <3> QED
      BY <1>1, <3>2
  <2>2. /\ LogOK(a) /\ Len(a) \in Nat /\ Len(a) <= Len(wal)
        /\ \A i \in 1..Len(a) : a[i] = wal[i] /\ a[i].type # "TORN"
        /\ \A i \in 1..Len(wal) : i \notin 1..Len(a) => wal[i].type = "TORN"
    BY <1>1, <2>1, ReadIs
  <2>3. /\ LogOK(b) /\ Len(b) \in Nat /\ Len(b) <= Len(wal')
        /\ \A i \in 1..Len(b) : b[i] = wal'[i] /\ b[i].type # "TORN"
        /\ \A i \in 1..Len(wal') : i \notin 1..Len(b) => wal'[i].type = "TORN"
    BY <1>1, ReadIs
  <2> HIDE DEF a, b
  <2>4. \A i \in 1..Len(a) : i \in 1..Len(b) /\ b[i] = a[i]
    <3> TAKE i \in 1..Len(a)
    <3>1. i \in 1..Len(wal) /\ i \in 1..Len(wal') /\ a[i] = wal[i] /\ wal'[i] = wal[i] /\ wal'[i].type # "TORN"
      BY <1>1, <2>2
    <3> QED
      BY <2>3, <3>1
  <2>5. Len(a) <= Len(b)
    <3>1. CASE Len(a) = 0
      BY <2>3, <3>1
    <3>2. CASE Len(a) # 0
      <4>1. Len(a) \in 1..Len(a)
        BY <2>2, <3>2
      <4>2. Len(a) \in 1..Len(b)
        BY <2>4, <4>1
      <4> QED
        BY <2>2, <2>3, <4>2
    <3> QED
      BY <3>1, <3>2
  <2>6. \A i \in 1..Len(b) : i \notin 1..Len(a) => b[i].type = "ABORT"
    <3> TAKE i \in 1..Len(b)
    <3> HAVE i \notin 1..Len(a)
    <3>1. i \in 1..Len(wal') /\ b[i] = wal'[i] /\ b[i].type # "TORN"
      BY <1>1, <2>3
    <3>2. CASE i \in 1..Len(wal)
      <4>1. wal[i].type = "TORN" /\ wal'[i] = wal[i]
        BY <1>1, <2>2, <3>2
      <4> QED
        BY <3>1, <4>1
    <3>3. CASE i \notin 1..Len(wal)
      BY <1>1, <3>1, <3>3
    <3> QED
      BY <3>2, <3>3
  <2> QED
    BY <2>2, <2>3, <2>4, <2>5, <2>6, AbortsDoNotCount DEF a, b
<1>5. disk \in [Resource -> Image]
  BY DEF TypeInv, PoolTypeOK
<1> HIDE DEF writes
<1>6. Written(disk', writes) = Written(disk, writes)
  <2>1. n \in 0..Len(writes)
    BY <1>2, <1>3
  <2> QED
    BY <1>2, <1>3, <1>5, <2>1, WrittenAgain
<1> QED
  BY <1>4, <1>6 DEF Recovered, writes

(* "A crash during recovery is survivable": RecoveryIsIdempotent, for a      *)
(* recovery cut short after any page write or log record, any number of      *)
(* times.                                                                    *)
THEOREM RecoveryCanBeRepeated == Spec => RecoveryIsIdempotent
<1>1. TxInv /\ [Next]_vars =>
        [~up /\ Readable(wal') => Recovered(disk', wal') = Recovered(disk, wal)]_vars
  <2> SUFFICES ASSUME TxInv, Next, ~up, Readable(wal')
               PROVE  Recovered(disk', wal') = Recovered(disk, wal)
    OBVIOUS
  <2>1. \A t \in Tx : ~Active(t) /\ txState[t] # "active" /\ want[t] = NoAccess
    BY DEF TxInv, Down, Active
  <2>2. CASE UNCHANGED <<disk, wal>>
    BY <2>2
  <2>3. ASSUME NEW n \in 0..Len(wal), NEW k \in 0..Len(wal), start(n, k)
        PROVE  Recovered(disk', wal') = Recovered(disk, wal)
    <3>1. n \in Nat /\ k \in Nat
      BY DEF TxInv, TypeInv, LogOK
    <3> QED
      BY <2>3, <3>1, StartAgain DEF TxInv
  <2> QED
    BY <2>1, <2>2, <2>3
       DEF Next, TxStep, begin, acquireLock, read, write, refuse, throw, commit, abort, abortCommitted,
           Resumes, lockTimeout, sweep, checkpoint, crash, crashInAppend, stop, crashInCommit, crashInAbort, Dies
<1> QED
  BY <1>1, TxAlways, PTL DEF Spec, RecoveryIsIdempotent

-----------------------------------------------------------------------------
(* The store the transactions implement. *)

(* No update is named twice: an image has only updates of transactions that  *)
(* have begun, and of one that runs only those it has already made.          *)
Fresh(I, states, log) ==
  \A e \in I : /\ states[e[2]] # "unborn"
               /\ states[e[2]] \in {"active", "throwing"} => e[3] <= Len(log[e[2]])

FreshInv ==
  /\ \A p \in Resource : Fresh(Contents(p), txState, undoLog)
  /\ \A t \in Tx : \A i \in 1..Len(undoLog[t]) : Fresh(undoLog[t][i].before, txState, undoLog)

(* Transactions only go on: none is born again, and its writes only grow     *)
(* while it runs.                                                            *)
GoOn ==
  \A t \in Tx : txState[t] # "unborn" =>
    /\ txState'[t] # "unborn"
    /\ txState'[t] \in {"active", "throwing"} =>
         txState[t] \in {"active", "throwing"} /\ Len(undoLog[t]) <= Len(undoLog'[t])

LEMMA FreshKept ==
  ASSUME NEW I \in Image, Fresh(I, txState, undoLog), GoOn, MemoryTypeOK, MemoryTypeOK'
  PROVE  Fresh(I, txState', undoLog')
<1> SUFFICES ASSUME NEW e \in I
             PROVE  /\ txState'[e[2]] # "unborn"
                    /\ txState'[e[2]] \in {"active", "throwing"} => e[3] <= Len(undoLog'[e[2]])
  BY DEF Fresh
<1> DEFINE t == e[2]
<1>1. t \in Tx /\ e[3] \in Int
  BY DEF Image, Update
<1>2. txState[t] # "unborn" /\ (txState[t] \in {"active", "throwing"} => e[3] <= Len(undoLog[t]))
  BY DEF Fresh
<1>3. Len(undoLog[t]) \in Int /\ Len(undoLog'[t]) \in Int
  BY <1>1 DEF MemoryTypeOK
<1> HIDE DEF t
<1>4. /\ txState'[t] # "unborn"
      /\ txState'[t] \in {"active", "throwing"} => e[3] <= Len(undoLog'[t])
  BY <1>1, <1>2, <1>3 DEF GoOn
<1> QED
  BY <1>4 DEF t

LEMMA BeforeType ==
  ASSUME MemoryTypeOK, NEW t \in Tx, NEW i \in 1..Len(undoLog[t])
  PROVE  undoLog[t][i].page \in Resource /\ undoLog[t][i].before \in Image
<1>1. undoLog[t] \in Seq(UndoRecord)
  BY DEF MemoryTypeOK
<1>2. undoLog[t][i] \in UndoRecord
  BY <1>1, ElementOfSeq
<1> QED
  BY <1>2 DEF UndoRecord

(* Without the sweep, a page is changed by one transaction at a time, so     *)
(* that the images it had before are those of its only modifier.             *)
LEMMA OneModifier ==
  ASSUME TxInv, ~SweepOn, NEW p \in Resource, NEW t \in Modifiers(p), NEW u \in Modifiers(p)
  PROVE  t = u
<1>1. t \in Tx /\ u \in Tx /\ lockTable[p].holders[t] = "X" /\ lockTable[p].holders[u] = "X"
  BY OnlyHolderModifies DEF Modifiers
<1>2. Compatible(lockTable[p].holders)
  BY DEF TxInv, IInv, TableOK, Good
<1> QED
  BY <1>1, <1>2 DEF Compatible

LEMMA WithoutActiveIs ==
  ASSUME TxInv, ~SweepOn, NEW p \in Resource
  PROVE  /\ Modifiers(p) = {} => WithoutActive(p) = Contents(p)
         /\ \A t \in Tx : p \in modifiedPages(t) => WithoutActive(p) = FirstBefore(t, p)
<1>1. Modifiers(p) = {} => WithoutActive(p) = Contents(p)
  BY DEF WithoutActive
<1>2. ASSUME NEW t \in Tx, p \in modifiedPages(t)
      PROVE  WithoutActive(p) = FirstBefore(t, p)
  <2> DEFINE u == CHOOSE u \in Modifiers(p) : TRUE
  <2>1. t \in Modifiers(p)
    BY <1>2 DEF Modifiers
  <2>2. u \in Modifiers(p)
    BY <2>1
  <2>3. WithoutActive(p) = FirstBefore(u, p)
    BY <2>1 DEF WithoutActive, FirstBefore
  <2> HIDE DEF u
  <2>4. u = t
    BY <2>1, <2>2, OneModifier
  <2> QED
    BY <2>3, <2>4
<1> QED
  BY <1>1, <1>2

(* The store and the pending images the refinement maps the state to. *)
StoreBar   == [p \in Resource |-> WithoutActive(p)]
PendingBar == [t \in Tx |-> [p \in modifiedPages(t) |-> Contents(p)]]

LEMMA QuietStore ==
  ASSUME UNCHANGED undoLog, MemoryTypeOK, \A p \in Resource : Contents(p)' = Contents(p)
  PROVE  UNCHANGED <<StoreBar, PendingBar>>
<1>1. ASSUME NEW t \in Tx
      PROVE  modifiedPages(t)' = modifiedPages(t)
  BY DEF modifiedPages, Touched
<1>2. \A p \in Resource : Modifiers(p)' = Modifiers(p)
  BY <1>1 DEF Modifiers
<1>3. ASSUME NEW p \in Resource
      PROVE  WithoutActive(p)' = WithoutActive(p)
  <2> DEFINE image(mods, log, c) ==
               IF mods = {} THEN c
               ELSE LET t == CHOOSE t \in mods : TRUE
                        i == Min({j \in 1..Len(log[t]) : log[t][j].page = p})
                    IN  log[t][i].before
  <2>1. /\ WithoutActive(p) = image(Modifiers(p), undoLog, Contents(p))
        /\ WithoutActive(p)' = image(Modifiers(p)', undoLog', Contents(p)')
    BY DEF WithoutActive
  <2> HIDE DEF image
  <2> QED
    BY <1>2, <2>1
<1>4. \A t \in Tx : \A p \in modifiedPages(t) : Contents(p)' = Contents(p)
  BY ModifiedType
<1> QED
  BY <1>1, <1>3, <1>4 DEF StoreBar, PendingBar

(* What a step is to the pages and the before-images. *)
KeepsPages == \A p \in Resource : Contents(p)' = Contents(p)

Adds(t, p, b) == undoLog' = [undoLog EXCEPT ![t] = Append(@, [page |-> p, before |-> b])]

NextUpdate(t) == <<boot, t, Len(undoLog[t]) + 1>>

WritesPage(t, p) ==
  /\ Active(t) /\ Modifiers(p) \subseteq {t}
  /\ NextUpdate(t) \in Update
  /\ Contents(p)' = Contents(p) \cup {NextUpdate(t)}
  /\ \A q \in Resource : q # p => Contents(q)' = Contents(q)
  /\ Adds(t, p, Contents(p))

Forgets(t) == undoLog' = [undoLog EXCEPT ![t] = << >>]

TakesBack(t) ==
  \A p \in Resource :
    Contents(p)' = IF p \in modifiedPages(t) THEN FirstBefore(t, p) ELSE Contents(p)

LEMMA WriteWritesPage ==
  ASSUME PoolInv, ~SweepOn, NEW t \in Tx, write(t)
  PROVE  \E p \in Resource : p = want[t].page /\ WritesPage(t, p)
<1>0. TxInv /\ TypeInv /\ PoolTypeOK /\ MemoryTypeOK /\ GoodPool(pool, disk) /\ LockUse(t)
  BY DEF PoolInv, TxInv, TypeInv
<1>p. want[t] # NoAccess /\ want[t].page \in Resource
  BY <1>0, AccessFacts DEF write, Resumes, MemoryTypeOK
<1>q. PICK p \in Resource : p = want[t].page
  BY <1>p
<1> DEFINE after == Contents(p) \cup {NextUpdate(t)}
<1>1. /\ Cardinality(Records("UPDATE")) < MaxWrites
      /\ modifyPage(p, after)
      /\ undoLog' = [undoLog EXCEPT ![t] = Append(@, [page |-> p, before |-> Contents(p)])]
  BY <1>q DEF write, NextUpdate
<1>3. after \in Image
  BY <1>0, <1>1, WriteImages DEF NextUpdate
<1>4. NextUpdate(t) \in Update
  BY <1>3 DEF Image
<1>5. Active(t)
  BY <1>0, <1>p DEF LockUse, Active
<1>6. Modifiers(p) \subseteq {t}
  BY <1>0, <1>q, NoDirtyReadIs DEF NoDirtyReadStep
<1>7. /\ Contents(p)' = after
      /\ \A q \in Resource : q # p => Contents(q)' = Contents(q)
  <2> HIDE DEF after
  <2> QED
    BY <1>0, <1>1, <1>3, ModifyChanges
<1> QED
  BY <1>1, <1>q, <1>4, <1>5, <1>6, <1>7 DEF WritesPage, Adds

(* While the process lives on, a step keeps the pages as they are and the    *)
(* before-images, or is a write, a commit or an abort; and it goes on.       *)
LEMMA StoreSteps ==
  ASSUME PoolInv, ~SweepOn, MaxBoots = 1, [Next]_vars
  PROVE  /\ \/ UNCHANGED undoLog /\ KeepsPages
            \/ \E t \in Tx : \E p \in Resource : WritesPage(t, p)
            \/ \E t \in Tx : Forgets(t) /\ (KeepsPages \/ TakesBack(t))
         /\ GoOn
<1> DEFINE Kind == \/ UNCHANGED undoLog /\ KeepsPages
                   \/ \E t \in Tx : \E p \in Resource : WritesPage(t, p)
                   \/ \E t \in Tx : Forgets(t) /\ (KeepsPages \/ TakesBack(t))
<1>0. PoolTypeOK /\ MemoryTypeOK /\ TypeInv /\ TxInv /\ GoodPool(pool, disk)
  BY DEF PoolInv, TxInv, TypeInv
<1>b. boot = 1 /\ MaxBoots = 1
  BY <1>0 DEF MemoryTypeOK
<1>l. \A t \in Tx : Len(undoLog[t]) \in Nat
  BY <1>0 DEF MemoryTypeOK
<1>w. \A t \in Tx : want[t] # NoAccess => want[t].page \in Resource
  BY <1>0, AccessFacts DEF MemoryTypeOK
<1>1. ASSUME UNCHANGED <<pool, disk>>
      PROVE  KeepsPages
  BY <1>1 DEF KeepsPages, Contents, Resident, FrameOf
<1>2. ASSUME UNCHANGED <<txState, undoLog>>
      PROVE  GoOn
  BY <1>2, <1>l DEF GoOn
<1>3. ASSUME NEW t \in Tx, txState[t] = "unborn" \/ txState[t] = "active",
             NEW s \in {"active", "throwing"}, txState' = [txState EXCEPT ![t] = s], UNCHANGED undoLog
      PROVE  GoOn
  BY <1>0, <1>3, <1>l DEF GoOn, MemoryTypeOK
<1>4. ASSUME NEW t \in Tx, begin(t)
      PROVE  Kind /\ GoOn
  <2>1. txState[t] = "unborn"
    BY <1>0, <1>4 DEF begin, TxInv, BirthOrder, MemoryTypeOK
  <2>2. GoOn
    BY <1>3, <1>4, <2>1 DEF begin
  <2> QED
    BY <1>1, <1>4, <2>2 DEF begin
<1>5. ASSUME NEW t \in Tx, NEW op, NEW p, acquireLock(t, op, p)
      PROVE  Kind /\ GoOn
  BY <1>1, <1>2, <1>5 DEF acquireLock
<1>6. ASSUME NEW t \in Tx, read(t)
      PROVE  Kind /\ GoOn
  <2>1. want[t].page \in Resource /\ fetchPage(want[t].page) /\ UNCHANGED <<txState, undoLog>>
    BY <1>6, <1>w DEF read, Resumes
  <2>2. KeepsPages
    BY <1>0, <2>1, FetchKeeps DEF KeepsPages
  <2> QED
    BY <1>2, <2>1, <2>2
<1>7. ASSUME NEW t \in Tx, refuse(t)
      PROVE  Kind /\ GoOn
  <2>1. /\ want[t].page \in Resource /\ fetchPage(want[t].page) /\ UNCHANGED undoLog
        /\ want[t] # NoAccess /\ txState' = [txState EXCEPT ![t] = "throwing"]
    BY <1>7, <1>w DEF refuse, Resumes
  <2>2. KeepsPages
    BY <1>0, <2>1, FetchKeeps DEF KeepsPages
  <2>3. txState[t] = "active"
    BY <1>0, <2>1 DEF TxInv, LockUse
  <2>4. GoOn
    BY <1>3, <2>1, <2>3
  <2> QED
    BY <2>1, <2>2, <2>4
<1>8. ASSUME NEW t \in Tx, throw(t)
      PROVE  Kind /\ GoOn
  <2>1. txState[t] = "active" /\ txState' = [txState EXCEPT ![t] = "throwing"] /\ UNCHANGED undoLog
    BY <1>0, <1>8 DEF throw, TxInv, LockUse
  <2>2. GoOn
    BY <1>3, <2>1
  <2> QED
    BY <1>1, <1>8, <2>1, <2>2 DEF throw
<1>9. ASSUME NEW t \in Tx, write(t)
      PROVE  Kind /\ GoOn
  <2>p. PICK p \in Resource : WritesPage(t, p)
    BY <1>9, WriteWritesPage
  <2>1. UNCHANGED txState
    BY <1>9 DEF write
  <2>2. undoLog' = [undoLog EXCEPT ![t] = Append(@, [page |-> p, before |-> Contents(p)])]
    BY <2>p DEF WritesPage, Adds
  <2>3. undoLog[t] \in Seq(UndoRecord)
    BY <1>0 DEF MemoryTypeOK
  <2>4. Len(undoLog[t]) <= Len(undoLog'[t]) /\ \A u \in Tx \ {t} : undoLog'[u] = undoLog[u]
    <3>1. undoLog'[t] = Append(undoLog[t], [page |-> p, before |-> Contents(p)])
      BY <1>0, <2>2 DEF MemoryTypeOK
    <3>2. \A r : Len(Append(undoLog[t], r)) = Len(undoLog[t]) + 1
      BY <2>3
    <3> QED
      BY <1>0, <1>l, <2>2, <3>1, <3>2 DEF MemoryTypeOK
  <2>5. \A u \in Tx : Len(undoLog[u]) <= Len(undoLog'[u])
    BY <1>l, <2>4
  <2>6. GoOn
    BY <2>1, <2>5 DEF GoOn
  <2> QED
    BY <2>p, <2>6
<1>10. ASSUME NEW t \in Tx, NEW s \in {"committed", "aborted"},
              txState' = [txState EXCEPT ![t] = s], Forgets(t)
       PROVE  GoOn
  BY <1>0, <1>10, <1>l DEF GoOn, Forgets, MemoryTypeOK
<1>11. ASSUME NEW t \in Tx, commit(t)
       PROVE  Kind /\ GoOn
  <2>1. KeepsPages
    BY <1>0, <1>11, FlushKeeps DEF commit, KeepsPages
  <2>2. Forgets(t) /\ GoOn
    BY <1>10, <1>11 DEF commit, Forgets
  <2> QED
    BY <2>1, <2>2
<1>12. ASSUME NEW t \in Tx, abort(t) \/ abortCommitted(t)
       PROVE  Kind /\ GoOn
  <2>1. TakesBack(t)
    BY <1>0, <1>12, AbortRestores DEF abort, abortCommitted, Undoes, TakesBack
  <2>2. Forgets(t) /\ GoOn
    BY <1>10, <1>12 DEF abort, abortCommitted, Undoes, Forgets
  <2> QED
    BY <2>1, <2>2
<1>13. ASSUME checkpoint
       PROVE  Kind /\ GoOn
  <2>1. KeepsPages
    BY <1>0, <1>13, FlushKeeps DEF checkpoint, KeepsPages
  <2> QED
    BY <1>2, <1>13, <2>1 DEF checkpoint, txVars
<1>14. ASSUME NEW t, NEW p, lockTimeout(t, p)
       PROVE  Kind /\ GoOn
  BY <1>1, <1>2, <1>14 DEF lockTimeout, txVars
<1>15. ASSUME UNCHANGED vars
       PROVE  Kind /\ GoOn
  BY <1>1, <1>2, <1>15 DEF vars, txVars
<1>16. ~sweep
  BY DEF sweep
<1>17. ASSUME NEW n, NEW k
       PROVE  ~start(n, k)
  BY <1>b DEF start
<1>20. ~Dies
  BY <1>b DEF Dies
<1>21. ~(crash \/ crashInAppend \/ stop) /\ \A t \in Tx : \A n : ~(crashInCommit(t, n) \/ crashInAbort(t, n))
  BY <1>20 DEF crash, crashInAppend, stop, crashInCommit, crashInAbort
<1> HIDE DEF Kind
<1>18. ASSUME NEW t \in Tx, TxStep(t)
       PROVE  Kind /\ GoOn
  BY <1>4, <1>5, <1>6, <1>7, <1>8, <1>9, <1>11, <1>12, <1>14, <1>18 DEF TxStep
<1>19. Kind /\ GoOn
  BY <1>13, <1>15, <1>16, <1>17, <1>18, <1>21 DEF Next
<1> QED
  BY <1>19 DEF Kind

(* What a write adds to the before-images. *)
LEMMA AppendUndo ==
  ASSUME MemoryTypeOK, NEW t \in Tx, NEW p \in Resource, NEW b,
         Adds(t, p, b)
  PROVE  /\ Len(undoLog[t]) \in Nat /\ Len(undoLog'[t]) = Len(undoLog[t]) + 1
         /\ \A i \in 1..Len(undoLog[t]) : undoLog'[t][i] = undoLog[t][i]
         /\ undoLog'[t][Len(undoLog[t]) + 1] = [page |-> p, before |-> b]
         /\ \A u \in Tx : u # t => undoLog'[u] = undoLog[u]
<1> DEFINE s == undoLog[t]
           r == [page |-> p, before |-> b]
<1>1. s \in Seq(UndoRecord) /\ undoLog'[t] = Append(s, r) /\ \A u \in Tx : u # t => undoLog'[u] = undoLog[u]
  BY DEF MemoryTypeOK, Adds
<1> HIDE DEF s, r
<1>2. /\ Len(s) \in Nat /\ Len(Append(s, r)) = Len(s) + 1
      /\ \A i \in 1..Len(s) : Append(s, r)[i] = s[i]
      /\ Append(s, r)[Len(s) + 1] = r
  BY <1>1
<1> QED
  BY <1>1, <1>2 DEF s, r

LEMMA FreshStep ==
  ASSUME PoolInv, MemoryTypeOK', FreshInv, ~SweepOn, MaxBoots = 1, [Next]_vars
  PROVE  FreshInv'
<1>0. MemoryTypeOK /\ PoolTypeOK /\ GoOn
  BY StoreSteps DEF PoolInv, TxInv, TypeInv
<1>1. \A p \in Resource : Contents(p) \in Image /\ Fresh(Contents(p), txState', undoLog')
  BY <1>0, ContentsType, FreshKept DEF FreshInv
<1>2. ASSUME NEW t \in Tx, NEW i \in 1..Len(undoLog[t])
      PROVE  Fresh(undoLog[t][i].before, txState', undoLog')
  BY <1>0, BeforeType, FreshKept DEF FreshInv
<1>3. ASSUME NEW t \in Tx, undoLog'[t] = undoLog[t] \/ undoLog'[t] = << >>, NEW i \in 1..Len(undoLog'[t])
      PROVE  Fresh(undoLog'[t][i].before, txState', undoLog')
  BY <1>2, <1>3
<1>4. ASSUME KeepsPages, \A t \in Tx : undoLog'[t] = undoLog[t] \/ undoLog'[t] = << >>
      PROVE  FreshInv'
  BY <1>1, <1>3, <1>4 DEF FreshInv, KeepsPages
<1>5. ASSUME NEW t \in Tx, Forgets(t)
      PROVE  \A u \in Tx : undoLog'[u] = undoLog[u] \/ undoLog'[u] = << >>
  BY <1>0, <1>5 DEF Forgets, MemoryTypeOK
<1>6. ASSUME NEW t \in Tx, Forgets(t), TakesBack(t)
      PROVE  FreshInv'
  <2>1. ASSUME NEW p \in Resource
        PROVE  Fresh(Contents(p)', txState', undoLog')
    <3>1. CASE p \in modifiedPages(t)
      <4>1. PICK i \in 1..Len(undoLog[t]) : i = Min({j \in 1..Len(undoLog[t]) : undoLog[t][j].page = p})
        BY <1>0, <3>1, FirstWrite
      <4>2. Contents(p)' = undoLog[t][i].before
        BY <1>6, <3>1, <4>1 DEF TakesBack, FirstBefore
      <4> QED
        BY <1>2, <4>2
    <3>2. CASE p \notin modifiedPages(t)
      BY <1>1, <1>6, <3>2 DEF TakesBack
    <3> QED
      BY <3>1, <3>2
  <2> QED
    BY <1>3, <1>5, <1>6, <2>1 DEF FreshInv
<1>7. ASSUME NEW t \in Tx, NEW p \in Resource, WritesPage(t, p)
      PROVE  FreshInv'
  <2>1. /\ Len(undoLog[t]) \in Nat /\ Len(undoLog'[t]) = Len(undoLog[t]) + 1
        /\ \A i \in 1..Len(undoLog[t]) : undoLog'[t][i] = undoLog[t][i]
        /\ undoLog'[t][Len(undoLog[t]) + 1] = [page |-> p, before |-> Contents(p)]
        /\ \A u \in Tx : u # t => undoLog'[u] = undoLog[u]
    BY <1>0, <1>7, AppendUndo DEF WritesPage
  <2>2. Fresh(Contents(p)', txState', undoLog')
    <3>1. txState'[t] # "unborn"
      BY <1>0, <1>7 DEF WritesPage, GoOn, Active
    <3>2. Len(undoLog[t]) + 1 <= Len(undoLog'[t])
      BY <2>1
    <3>3. Contents(p)' = Contents(p) \cup {<<boot, t, Len(undoLog[t]) + 1>>}
      BY <1>7 DEF WritesPage, NextUpdate
    <3>4. Fresh({<<boot, t, Len(undoLog[t]) + 1>>}, txState', undoLog')
      BY <3>1, <3>2 DEF Fresh
    <3>5. \A I, J : Fresh(I, txState', undoLog') /\ Fresh(J, txState', undoLog') => Fresh(I \cup J, txState', undoLog')
      BY DEF Fresh
    <3> QED
      BY <1>1, <3>3, <3>4, <3>5
  <2>3. \A q \in Resource : Fresh(Contents(q)', txState', undoLog')
    BY <1>1, <1>7, <2>2 DEF WritesPage
  <2>4. ASSUME NEW u \in Tx, NEW i \in 1..Len(undoLog'[u])
        PROVE  Fresh(undoLog'[u][i].before, txState', undoLog')
    <3>1. CASE u # t
      BY <1>3, <2>1, <3>1
    <3>2. CASE u = t /\ i \in 1..Len(undoLog[t])
      BY <1>2, <2>1, <3>2
    <3>3. CASE u = t /\ i \notin 1..Len(undoLog[t])
      <4>1. i = Len(undoLog[t]) + 1
        BY <2>1, <3>3
      <4>2. undoLog'[u][i].before = Contents(p)
        BY <2>1, <3>3, <4>1
      <4> QED
        BY <1>1, <4>2
    <3> QED
      BY <3>1, <3>2, <3>3
  <2> QED
    BY <2>3, <2>4 DEF FreshInv
<1>8. ASSUME UNCHANGED undoLog
      PROVE  \A u \in Tx : undoLog'[u] = undoLog[u] \/ undoLog'[u] = << >>
  BY <1>8
<1> QED
  BY <1>4, <1>5, <1>6, <1>7, <1>8, StoreSteps

-----------------------------------------------------------------------------
(* What the steps are to the store. *)
LEMMA SameUndo ==
  ASSUME NEW t \in Tx, undoLog'[t] = undoLog[t]
  PROVE  modifiedPages(t)' = modifiedPages(t) /\ \A p : FirstBefore(t, p)' = FirstBefore(t, p)
<1>1. modifiedPages(t)' = modifiedPages(t)
  BY DEF modifiedPages, Touched
<1>2. ASSUME NEW p
      PROVE  FirstBefore(t, p)' = FirstBefore(t, p)
  <2> DEFINE first(log) == log[Min({j \in 1..Len(log) : log[j].page = p})].before
  <2>1. FirstBefore(t, p) = first(undoLog[t]) /\ FirstBefore(t, p)' = first(undoLog'[t])
    BY DEF FirstBefore
  <2> HIDE DEF first
  <2> QED
    BY <2>1
<1> QED
  BY <1>1, <1>2

LEMMA NoUndo ==
  ASSUME NEW t \in Tx, undoLog'[t] = << >>
  PROVE  modifiedPages(t)' = {}
BY DEF modifiedPages, Touched

LEMMA FirstBeforeNext ==
  ASSUME MemoryTypeOK', NEW t \in Tx, NEW p, NEW i \in 1..Len(undoLog'[t]), undoLog'[t][i].page = p,
         \A j \in 1..Len(undoLog'[t]) : undoLog'[t][j].page = p => i <= j
  PROVE  FirstBefore(t, p)' = undoLog'[t][i].before
<1> DEFINE n == Len(undoLog'[t])
           mine == {j \in 1..n : undoLog'[t][j].page = p}
<1>1. n \in Nat
  BY DEF MemoryTypeOK
<1>2. i \in mine /\ (\A j \in mine : j \in Int /\ i <= j)
  BY <1>1
<1>3. IsFiniteSet(mine)
  <2> DEFINE N == 1..n
  <2>1. IsFiniteSet(N) /\ mine \in SUBSET N
    BY <1>1, CardUpTo
  <2> HIDE DEF N, mine
  <2> QED
    BY <2>1, FS_Subset
<1>4. Min(mine) \in mine /\ \A j \in mine : Min(mine) <= j
  <2> HIDE DEF mine
  <2> QED
    BY <1>2, <1>3, LeastMember
<1>5. Min(mine) = i
  <2> HIDE DEF mine
  <2>1. Min(mine) \in Int /\ i \in Int /\ Min(mine) <= i /\ i <= Min(mine)
    BY <1>2, <1>4
  <2> QED
    BY <2>1
<1> QED
  BY <1>5 DEF FirstBefore

LEMMA WriteUndo ==
  ASSUME MemoryTypeOK, MemoryTypeOK', NEW t \in Tx, NEW p \in Resource, NEW b,
         Adds(t, p, b)
  PROVE  /\ modifiedPages(t)' = modifiedPages(t) \cup {p}
         /\ \A q \in modifiedPages(t) : FirstBefore(t, q)' = FirstBefore(t, q)
         /\ p \notin modifiedPages(t) => FirstBefore(t, p)' = b
<1> DEFINE n == Len(undoLog[t])
<1>1. /\ n \in Nat /\ Len(undoLog'[t]) = n + 1
      /\ \A i \in 1..n : undoLog'[t][i] = undoLog[t][i]
      /\ undoLog'[t][n + 1] = [page |-> p, before |-> b]
  <2>1. /\ Len(undoLog[t]) \in Nat /\ Len(undoLog'[t]) = Len(undoLog[t]) + 1
        /\ \A i \in 1..Len(undoLog[t]) : undoLog'[t][i] = undoLog[t][i]
        /\ undoLog'[t][Len(undoLog[t]) + 1] = [page |-> p, before |-> b]
    BY AppendUndo
  <2> QED
    BY <2>1
<1> HIDE DEF n
<1>2. \A i \in 1..(n + 1) : i \in 1..n \/ i = n + 1
  BY <1>1
<1>3. n + 1 \in 1..(n + 1) /\ \A i \in 1..n : i \in 1..(n + 1)
  BY <1>1
<1>4. /\ modifiedPages(t) = {undoLog[t][i].page : i \in 1..n}
      /\ modifiedPages(t)' = {undoLog'[t][i].page : i \in 1..(n + 1)}
  BY <1>1 DEF modifiedPages, Touched, n
<1>5. modifiedPages(t)' = modifiedPages(t) \cup {p}
  BY <1>1, <1>2, <1>3, <1>4
<1>6. ASSUME NEW q \in modifiedPages(t)
      PROVE  FirstBefore(t, q)' = FirstBefore(t, q)
  <2>1. PICK i \in 1..n :
          /\ undoLog[t][i].page = q
          /\ \A j \in 1..n : undoLog[t][j].page = q => i <= j
    BY FirstWrite DEF n
  <2>2. FirstBefore(t, q) = undoLog[t][i].before
    BY <2>1, FirstBeforeIs DEF n
  <2>3. i \in 1..Len(undoLog'[t]) /\ undoLog'[t][i].page = q
    BY <1>1, <1>3, <2>1
  <2>4. \A j \in 1..Len(undoLog'[t]) : undoLog'[t][j].page = q => i <= j
    BY <1>1, <1>2, <2>1
  <2>5. FirstBefore(t, q)' = undoLog'[t][i].before
    BY <2>3, <2>4, FirstBeforeNext
  <2> QED
    BY <1>1, <2>2, <2>5
<1>7. ASSUME p \notin modifiedPages(t)
      PROVE  FirstBefore(t, p)' = b
  <2>1. \A j \in 1..n : undoLog[t][j].page # p
    BY <1>4, <1>7
  <2>2. n + 1 \in 1..Len(undoLog'[t]) /\ undoLog'[t][n + 1].page = p
    BY <1>1, <1>3
  <2>3. \A j \in 1..Len(undoLog'[t]) : undoLog'[t][j].page = p => n + 1 <= j
    BY <1>1, <1>2, <2>1
  <2>4. FirstBefore(t, p)' = undoLog'[t][n + 1].before
    BY <2>2, <2>3, FirstBeforeNext
  <2> QED
    BY <1>1, <2>4
<1> QED
  BY <1>5, <1>6, <1>7

WithoutActiveFacts ==
  \A p \in Resource :
    /\ Modifiers(p) = {} => WithoutActive(p) = Contents(p)
    /\ \A t \in Tx : p \in modifiedPages(t) => WithoutActive(p) = FirstBefore(t, p)

Undisturbed == TxInv /\ ~SweepOn

LEMMA WithoutActiveAlways == Undisturbed => WithoutActiveFacts
BY WithoutActiveIs DEF WithoutActiveFacts, Undisturbed

LEMMA WithoutActiveNext == Undisturbed' => WithoutActiveFacts'
BY WithoutActiveAlways, PTL

(* The bars of the refinement, element by element. *)
LEMMA Bars ==
  /\ StoreBar = [p \in Resource |-> WithoutActive(p)]
  /\ StoreBar' = [p \in Resource |-> WithoutActive(p)']
  /\ PendingBar = [t \in Tx |-> [p \in modifiedPages(t) |-> Contents(p)]]
  /\ PendingBar' = [t \in Tx |-> [p \in modifiedPages(t)' |-> Contents(p)']]
BY DEF StoreBar, PendingBar

LEMMA WriteStore ==
  ASSUME Undisturbed, Undisturbed', FreshInv, NEW t \in Tx, NEW p \in Resource, WritesPage(t, p)
  PROVE  Store!Write(t, p, NextUpdate(t))
<1>0. MemoryTypeOK /\ MemoryTypeOK' /\ PoolTypeOK
  BY DEF Undisturbed, TxInv, TypeInv
<1>1. /\ modifiedPages(t)' = modifiedPages(t) \cup {p}
      /\ \A q \in modifiedPages(t) : FirstBefore(t, q)' = FirstBefore(t, q)
      /\ p \notin modifiedPages(t) => FirstBefore(t, p)' = Contents(p)
  BY <1>0, WriteUndo DEF WritesPage
<1>2. ASSUME NEW u \in Tx, u # t
      PROVE  /\ modifiedPages(u)' = modifiedPages(u)
             /\ \A q : FirstBefore(u, q)' = FirstBefore(u, q)
             /\ p \notin modifiedPages(u)
  <2>1. undoLog'[u] = undoLog[u]
    BY <1>0, <1>2 DEF WritesPage, Adds, MemoryTypeOK
  <2>2. p \notin modifiedPages(u)
    BY <1>2 DEF WritesPage, Modifiers
  <2> QED
    BY <2>1, <2>2, SameUndo
<1>3. /\ Contents(p)' = Contents(p) \cup {NextUpdate(t)}
      /\ \A q \in Resource : q # p => Contents(q)' = Contents(q)
  BY DEF WritesPage
<1>4. \A q \in Resource :
        /\ Modifiers(q) = {} => WithoutActive(q) = Contents(q)
        /\ \A u \in Tx : q \in modifiedPages(u) => WithoutActive(q) = FirstBefore(u, q)
  BY WithoutActiveAlways DEF WithoutActiveFacts
<1>5. \A q \in Resource :
        /\ Modifiers(q)' = {} => WithoutActive(q)' = Contents(q)'
        /\ \A u \in Tx : q \in modifiedPages(u)' => WithoutActive(q)' = FirstBefore(u, q)'
  BY WithoutActiveNext DEF WithoutActiveFacts
<1>6. p \notin modifiedPages(t) => Modifiers(p) = {}
  BY <1>2 DEF Modifiers
<1>7. ASSUME NEW q \in Resource
      PROVE  WithoutActive(q)' = WithoutActive(q)
  <2>1. CASE q = p
    BY <1>1, <1>4, <1>5, <1>6, <2>1
  <2>2. CASE q # p /\ \E u \in Tx : q \in modifiedPages(u)
    BY <1>1, <1>2, <1>4, <1>5, <2>2
  <2>3. CASE q # p /\ \A u \in Tx : q \notin modifiedPages(u)
    <3>1. Modifiers(q) = {} /\ Modifiers(q)' = {}
      BY <1>1, <1>2, <2>3 DEF Modifiers
    <3> QED
      BY <1>3, <1>4, <1>5, <2>3, <3>1
  <2> QED
    BY <2>1, <2>2, <2>3
<1>8. StoreBar' = StoreBar
  BY <1>7, Bars
<1> DEFINE seen == IF p \in modifiedPages(t) THEN Contents(p) ELSE WithoutActive(p)
<1>9. seen = Contents(p)
  BY <1>4, <1>6
<1>10. NextUpdate(t) \notin Contents(p)
  <2>1. Len(undoLog[t]) \in Nat
    BY <1>0 DEF MemoryTypeOK
  <2>2. NextUpdate(t)[2] = t /\ NextUpdate(t)[3] = Len(undoLog[t]) + 1
    BY DEF NextUpdate
  <2>3. txState[t] \in {"active", "throwing"}
    BY DEF WritesPage, Active
  <2>4. Fresh(Contents(p), txState, undoLog)
    BY DEF FreshInv
  <2> QED
    BY <2>1, <2>2, <2>3, <2>4 DEF Fresh
<1>11. PendingBar' = [PendingBar EXCEPT ![t] =
         [q \in DOMAIN @ \cup {p} |-> IF q = p THEN seen \cup {NextUpdate(t)} ELSE @[q]]]
  <2> DEFINE mine == [q \in modifiedPages(t) \cup {p} |->
                       IF q = p THEN seen \cup {NextUpdate(t)} ELSE Contents(q)]
  <2>1. [q \in modifiedPages(t)' |-> Contents(q)'] = mine
    <3>1. modifiedPages(t) \subseteq Resource
      BY <1>0, ModifiedType
    <3> QED
      BY <1>1, <1>3, <1>9, <3>1
  <2>2. ASSUME NEW u \in Tx, u # t
        PROVE  [q \in modifiedPages(u)' |-> Contents(q)'] = [q \in modifiedPages(u) |-> Contents(q)]
    <3>1. modifiedPages(u) \subseteq Resource
      BY <1>0, ModifiedType
    <3> QED
      BY <1>2, <1>3, <2>2, <3>1
  <2>3. PendingBar' = [u \in Tx |-> IF u = t THEN mine ELSE [q \in modifiedPages(u) |-> Contents(q)]]
    BY <2>1, <2>2, Bars
  <2>4. /\ PendingBar[t] = [q \in modifiedPages(t) |-> Contents(q)]
        /\ DOMAIN PendingBar[t] = modifiedPages(t)
        /\ \A q \in modifiedPages(t) : PendingBar[t][q] = Contents(q)
    BY Bars
  <2>5. [q \in DOMAIN PendingBar[t] \cup {p} |->
           IF q = p THEN seen \cup {NextUpdate(t)} ELSE PendingBar[t][q]] = mine
    BY <2>4
  <2> HIDE DEF mine, seen
  <2>6. PendingBar' = [PendingBar EXCEPT ![t] = mine]
    BY <2>3, Bars
  <2> QED
    BY <2>5, <2>6
<1>12. \A u \in Tx \ {t} : p \notin DOMAIN PendingBar[u]
  BY <1>2, Bars
<1>13. Store!Seen(t, p) = seen
  BY Bars DEF Store!Seen, StoreBar, PendingBar
<1> HIDE DEF seen
<1> QED
  BY <1>8, <1>9, <1>10, <1>11, <1>12, <1>13 DEF Store!Write, StoreBar, PendingBar

(* A transaction that ends leaves the others' pages to them. *)
LEMMA ForgetsUndo ==
  ASSUME Undisturbed, NEW t \in Tx, Forgets(t)
  PROVE  /\ modifiedPages(t)' = {}
         /\ \A u \in Tx : u # t =>
              /\ modifiedPages(u)' = modifiedPages(u)
              /\ \A q : FirstBefore(u, q)' = FirstBefore(u, q)
         /\ \A q \in Resource :
              q \in modifiedPages(t) => Modifiers(q) = {t} /\ Modifiers(q)' = {}
         /\ \A q \in Resource :
              q \notin modifiedPages(t) => Modifiers(q)' = Modifiers(q)
<1>0. MemoryTypeOK /\ TxInv /\ ~SweepOn
  BY DEF Undisturbed, TxInv, TypeInv
<1>1. undoLog'[t] = << >> /\ \A u \in Tx : u # t => undoLog'[u] = undoLog[u]
  BY <1>0 DEF Forgets, MemoryTypeOK
<1>2. modifiedPages(t)' = {}
  BY <1>1, NoUndo
<1>3. \A u \in Tx : u # t =>
        /\ modifiedPages(u)' = modifiedPages(u)
        /\ \A q : FirstBefore(u, q)' = FirstBefore(u, q)
  BY <1>1, SameUndo
<1>4. \A q \in Resource : q \in modifiedPages(t) => Modifiers(q) = {t}
  BY <1>0, OneModifier DEF Modifiers
<1>5. \A q : Modifiers(q)' = {u \in Tx : q \in modifiedPages(u)'}
  BY DEF Modifiers
<1>6. \A q \in Resource : q \in modifiedPages(t) => Modifiers(q)' = {}
  BY <1>2, <1>3, <1>4, <1>5 DEF Modifiers
<1>7. \A q \in Resource : q \notin modifiedPages(t) => Modifiers(q)' = Modifiers(q)
  BY <1>2, <1>3, <1>5 DEF Modifiers
<1> QED
  BY <1>2, <1>3, <1>4, <1>6, <1>7

(* Whether it installs its images or takes them back, the pending images of  *)
(* the others stay, and so do the pages it did not change.                   *)
LEMMA EndsStore ==
  ASSUME Undisturbed, Undisturbed', NEW t \in Tx, Forgets(t), KeepsPages \/ TakesBack(t)
  PROVE  /\ PendingBar' = [PendingBar EXCEPT ![t] = Store!NoWrites]
         /\ \A q \in Resource :
              WithoutActive(q)' = IF q \in modifiedPages(t) THEN Contents(q)' ELSE WithoutActive(q)
<1>0. MemoryTypeOK
  BY DEF Undisturbed, TxInv, TypeInv
<1>1. /\ modifiedPages(t)' = {}
      /\ \A u \in Tx : u # t =>
           /\ modifiedPages(u)' = modifiedPages(u)
           /\ \A q : FirstBefore(u, q)' = FirstBefore(u, q)
      /\ \A q \in Resource :
           q \in modifiedPages(t) => Modifiers(q) = {t} /\ Modifiers(q)' = {}
      /\ \A q \in Resource :
           q \notin modifiedPages(t) => Modifiers(q)' = Modifiers(q)
  BY ForgetsUndo
<1>2. \A q \in Resource : q \notin modifiedPages(t) => Contents(q)' = Contents(q)
  BY DEF KeepsPages, TakesBack
<1>3. \A q \in Resource :
        /\ Modifiers(q) = {} => WithoutActive(q) = Contents(q)
        /\ \A u \in Tx : q \in modifiedPages(u) => WithoutActive(q) = FirstBefore(u, q)
  BY WithoutActiveAlways DEF WithoutActiveFacts
<1>4. \A q \in Resource :
        /\ Modifiers(q)' = {} => WithoutActive(q)' = Contents(q)'
        /\ \A u \in Tx : q \in modifiedPages(u)' => WithoutActive(q)' = FirstBefore(u, q)'
  BY WithoutActiveNext DEF WithoutActiveFacts
<1>5. ASSUME NEW q \in Resource
      PROVE  WithoutActive(q)' = IF q \in modifiedPages(t) THEN Contents(q)' ELSE WithoutActive(q)
  <2>1. CASE q \in modifiedPages(t)
    BY <1>1, <1>4, <2>1
  <2>2. CASE q \notin modifiedPages(t) /\ Modifiers(q) = {}
    BY <1>1, <1>2, <1>3, <1>4, <2>2
  <2>3. CASE q \notin modifiedPages(t) /\ Modifiers(q) # {}
    <3>1. PICK u \in Tx : q \in modifiedPages(u)
      BY <2>3 DEF Modifiers
    <3> QED
      BY <1>1, <1>3, <1>4, <2>3, <3>1
  <2> QED
    BY <2>1, <2>2, <2>3
<1>6. PendingBar' = [PendingBar EXCEPT ![t] = Store!NoWrites]
  <2>1. [q \in modifiedPages(t)' |-> Contents(q)'] = Store!NoWrites
    BY <1>1 DEF Store!NoWrites
  <2>2. ASSUME NEW u \in Tx, u # t
        PROVE  [q \in modifiedPages(u)' |-> Contents(q)'] = [q \in modifiedPages(u) |-> Contents(q)]
    <3>1. modifiedPages(u) \subseteq Resource
      BY <1>0, ModifiedType
    <3>2. \A q \in modifiedPages(u) : q \notin modifiedPages(t)
      BY <1>1, <2>2, <3>1 DEF Modifiers
    <3> QED
      BY <1>1, <1>2, <2>2, <3>1, <3>2
  <2> QED
    BY <2>1, <2>2, Bars
<1> QED
  BY <1>5, <1>6

LEMMA CommitStore ==
  ASSUME Undisturbed, Undisturbed', NEW t \in Tx, Forgets(t), KeepsPages
  PROVE  Store!Commit(t)
<1>1. /\ PendingBar' = [PendingBar EXCEPT ![t] = Store!NoWrites]
      /\ \A q \in Resource :
           WithoutActive(q)' = IF q \in modifiedPages(t) THEN Contents(q)' ELSE WithoutActive(q)
  BY EndsStore
<1>2. \A q \in Resource : Contents(q)' = Contents(q)
  BY DEF KeepsPages
<1>3. \A q \in Resource : Store!Seen(t, q) = IF q \in modifiedPages(t) THEN Contents(q) ELSE WithoutActive(q)
  BY Bars DEF Store!Seen, StoreBar, PendingBar
<1>4. StoreBar' = [q \in Resource |-> Store!Seen(t, q)]
  BY <1>1, <1>2, <1>3, Bars
<1> QED
  BY <1>1, <1>4 DEF Store!Commit, StoreBar, PendingBar

LEMMA AbortStore ==
  ASSUME Undisturbed, Undisturbed', NEW t \in Tx, Forgets(t), TakesBack(t)
  PROVE  Store!Abort(t)
<1>1. /\ PendingBar' = [PendingBar EXCEPT ![t] = Store!NoWrites]
      /\ \A q \in Resource :
           WithoutActive(q)' = IF q \in modifiedPages(t) THEN Contents(q)' ELSE WithoutActive(q)
  BY EndsStore
<1>2. \A q \in Resource : q \in modifiedPages(t) => Contents(q)' = FirstBefore(t, q)
  BY DEF TakesBack
<1>3. \A q \in Resource : q \in modifiedPages(t) => WithoutActive(q) = FirstBefore(t, q)
  BY WithoutActiveAlways DEF WithoutActiveFacts
<1>4. StoreBar' = StoreBar
  BY <1>1, <1>2, <1>3, Bars
<1> QED
  BY <1>1, <1>4 DEF Store!Abort, StoreBar, PendingBar

StoreInv == PoolInv /\ FreshInv

(* All or nothing, in every interleaving: ImplementsAtomicStore, while the   *)
(* process lives on and the sweep, which takes a transaction's locks before  *)
(* it has undone its writes, is off.                                         *)
THEOREM TransactionsAreAtomic ==
  ASSUME ~SweepOn, MaxBoots = 1
  PROVE  Spec => ImplementsAtomicStore
<1>1. Init => StoreInv /\ Store!StoreInit
  <2> SUFFICES ASSUME Init
               PROVE  StoreInv /\ Store!StoreInit
    OBVIOUS
  <2>0. TxInv /\ GoodPool(pool, disk)
    BY TxInitInv, FramesAssumption DEF Init, GoodPool
  <2>1. \A p \in Resource : Contents(p) = {}
    BY DEF Init, Contents, Resident
  <2>2. \A t \in Tx : undoLog[t] = << >> /\ modifiedPages(t) = {}
    BY DEF Init, modifiedPages, Touched
  <2>3. FreshInv
    BY <2>1, <2>2 DEF FreshInv, Fresh
  <2>4. \A p \in Resource : WithoutActive(p) = {}
    BY <2>1, <2>2 DEF WithoutActive, Modifiers
  <2>5. StoreBar = [p \in Resource |-> {}]
    BY <2>4, Bars
  <2>6. PendingBar = [t \in Tx |-> Store!NoWrites]
    BY <2>2, Bars DEF Store!NoWrites
  <2> QED
    BY <2>0, <2>3, <2>5, <2>6 DEF StoreInv, PoolInv, Store!StoreInit, StoreBar, PendingBar
<1>2. StoreInv /\ [Next]_vars => StoreInv' /\ [Store!StoreNext]_Store!storeVars
  <2> SUFFICES ASSUME StoreInv, [Next]_vars
               PROVE  StoreInv' /\ [Store!StoreNext]_Store!storeVars
    OBVIOUS
  <2>0. PoolInv /\ FreshInv /\ TxInv
    BY DEF StoreInv, PoolInv
  <2>1. PoolInv'
    BY <2>0, PoolStep, TxInvStep DEF PoolInv
  <2>2. MemoryTypeOK /\ MemoryTypeOK' /\ Undisturbed /\ Undisturbed'
    BY <2>0, <2>1 DEF Undisturbed, PoolInv, TxInv, TypeInv
  <2>3. FreshInv'
    BY <2>0, <2>2, FreshStep
  <2>4. CASE UNCHANGED undoLog /\ KeepsPages
    <3>1. UNCHANGED <<StoreBar, PendingBar>>
      BY <2>2, <2>4, QuietStore DEF KeepsPages
    <3>2. UNCHANGED Store!storeVars
      BY <3>1 DEF Store!storeVars, StoreBar, PendingBar
    <3> QED
      BY <2>1, <2>3, <3>2 DEF StoreInv
  <2>5. ASSUME NEW t \in Tx, NEW p \in Resource, WritesPage(t, p)
        PROVE  Store!StoreNext
    <3>1. Store!Write(t, p, NextUpdate(t)) /\ NextUpdate(t) \in Update
      BY <2>0, <2>2, <2>5, WriteStore DEF WritesPage
    <3> QED
      BY <3>1 DEF Store!StoreNext
  <2>6. ASSUME NEW t \in Tx, Forgets(t), KeepsPages \/ TakesBack(t)
        PROVE  Store!StoreNext
    BY <2>2, <2>6, CommitStore, AbortStore DEF Store!StoreNext
  <2> QED
    BY <2>0, <2>1, <2>3, <2>4, <2>5, <2>6, StoreSteps DEF StoreInv
<1> QED
  BY <1>1, <1>2, PTL DEF Spec, ImplementsAtomicStore, Store!StoreSpec

-----------------------------------------------------------------------------
(* What the log says of a page. *)

(* UpdatesTo, Followed, Committed, CommittedImage, UndoneCommit and Trusted, *)
(* of any log.                                                               *)
UpdatesIn(w, p) == {i \in {j \in 1..Len(w) : w[j].type = "UPDATE"} : w[i].page = p}

FollowedIn(w, i, type) ==
  \E c \in (i+1)..Len(w) :
    /\ w[c] = [type |-> type, tx |-> w[i].tx]
    /\ \A b \in i..c : w[b] # [type |-> "BEGIN", tx |-> w[i].tx]

CommittedIn(w, i) == FollowedIn(w, i, "COMMIT")

ImageIn(w, p) ==
  LET done == {i \in UpdatesIn(w, p) : CommittedIn(w, i)}
  IN  IF done = {} THEN {} ELSE w[Max(done)].after

UndoneIn(w, p) == \E i \in UpdatesIn(w, p) : CommittedIn(w, i) /\ FollowedIn(w, i, "ABORT")

TrustedIn(w, p) ==
  /\ ~ \E i \in UpdatesIn(w, p) : w[i].tx \in winners(w) /\ ~CommittedIn(w, i)
  /\ ~ \E i, j \in UpdatesIn(w, p) : i < j /\ w[i].tx \in losers(w) /\ w[j].tx \in winners(w)
  /\ ~UndoneIn(w, p) /\ Readable(w)

(* The properties speak of the log of the engine.                            *)
LEMMA LogViews ==
  ASSUME NEW p
  PROVE  /\ UpdatesTo(p) = UpdatesIn(wal, p)
         /\ CommittedImage(p) = ImageIn(wal, p)
         /\ Trusted(p) <=> TrustedIn(wal, p)
<1>1. UpdatesTo(p) = UpdatesIn(wal, p)
  BY DEF UpdatesTo, UpdatesIn, Records
<1>2. \A i, type : Followed(i, type) <=> FollowedIn(wal, i, type)
  BY DEF Followed, FollowedIn
<1>3. CommittedImage(p) = ImageIn(wal, p)
  BY <1>1, <1>2 DEF CommittedImage, ImageIn, Committed, CommittedIn
<1>4. Trusted(p) <=> TrustedIn(wal, p)
  BY <1>1, <1>2 DEF Trusted, TrustedIn, Misjudged, StaleLoser, UndoneCommit, UndoneIn, Committed, CommittedIn
<1> QED
  BY <1>1, <1>3, <1>4

(* The committed image is that of the last committed update.                 *)
LEMMA ImageIs ==
  ASSUME NEW w, LogOK(w), NEW p
  PROVE  \/ (\A i \in UpdatesIn(w, p) : ~CommittedIn(w, i)) /\ ImageIn(w, p) = {}
         \/ \E i \in UpdatesIn(w, p) :
              /\ CommittedIn(w, i)
              /\ \A j \in UpdatesIn(w, p) : CommittedIn(w, j) => j <= i
              /\ ImageIn(w, p) = w[i].after
<1> DEFINE done == {i \in UpdatesIn(w, p) : CommittedIn(w, i)}
<1>1. CASE done = {}
  BY <1>1 DEF ImageIn
<1>2. CASE done # {}
  <2>1. Len(w) \in Nat
    BY DEF LogOK
  <2>2. IsFiniteSet(done) /\ \A i \in done : i \in Int
    <3> DEFINE N == 1..Len(w)
    <3>1. IsFiniteSet(N) /\ done \in SUBSET N /\ \A i \in N : i \in Int
      BY <2>1, FS_Interval DEF UpdatesIn
    <3> HIDE DEF N, done
    <3> QED
      BY <3>1, FS_Subset
  <2>3. Max(done) \in done /\ \A j \in done : Max(done) >= j
    <3> HIDE DEF done
    <3> QED
      BY <1>2, <2>2, GreatestMember
  <2>4. ImageIn(w, p) = w[Max(done)].after
    BY <1>2 DEF ImageIn
  <2>5. PICK m : m = Max(done)
    OBVIOUS
  <2>6. m \in done /\ (\A j \in done : m >= j) /\ ImageIn(w, p) = w[m].after
    BY <2>3, <2>4, <2>5
  <2>7. \A j \in done : j <= m
    BY <2>2, <2>6
  <2> QED
    BY <2>6, <2>7
<1> QED
  BY <1>1, <1>2

(* And two logs agree on it if they agree on the committed updates.          *)
LEMMA ImageSame ==
  ASSUME NEW v, NEW w, NEW p,
         {i \in UpdatesIn(w, p) : CommittedIn(w, i)} = {i \in UpdatesIn(v, p) : CommittedIn(v, i)},
         \A i \in UpdatesIn(v, p) : w[i] = v[i], LogOK(v)
  PROVE  ImageIn(w, p) = ImageIn(v, p)
<1> DEFINE D(u) == {i \in UpdatesIn(u, p) : CommittedIn(u, i)}
<1>1. D(w) = D(v)
  OBVIOUS
<1>2. CASE D(v) = {}
  BY <1>1, <1>2 DEF ImageIn
<1>3. CASE D(v) # {}
  <2>1. ImageIn(w, p) = w[Max(D(v))].after /\ ImageIn(v, p) = v[Max(D(v))].after
    BY <1>1, <1>3 DEF ImageIn
  <2>2. Len(v) \in Nat
    BY DEF LogOK
  <2>3. IsFiniteSet(D(v)) /\ \A i \in D(v) : i \in Int
    <3> DEFINE N == 1..Len(v)
    <3>1. IsFiniteSet(N) /\ D(v) \in SUBSET N /\ \A i \in N : i \in Int
      BY <2>2, FS_Interval DEF UpdatesIn
    <3> HIDE DEF N, D
    <3> QED
      BY <3>1, FS_Subset
  <2>4. PICK S : S = D(v)
    OBVIOUS
  <2>5. Max(S) \in S
    BY <1>3, <2>3, <2>4, GreatestMember
  <2>6. Max(D(v)) \in UpdatesIn(v, p)
    BY <2>4, <2>5
  <2> QED
    BY <2>1, <2>6
<1> QED
  BY <1>2, <1>3

(* Where the updates of some transactions are in the log.                    *)
UpdatesAt(w, txs, s, at) ==
  /\ \A k \in 1..Len(s) : s[k] = w[at[k]] /\ w[at[k]].type = "UPDATE" /\ w[at[k]].tx \in txs
  /\ \A k, l \in 1..Len(s) : k < l => at[k] < at[l]
  /\ \A i \in 1..Len(w) :
       w[i].type = "UPDATE" /\ w[i].tx \in txs => \E k \in 1..Len(s) : at[k] = i

(* UpdatesOf takes them in the order of the log.                             *)
LEMMA UpdatesOrder ==
  ASSUME NEW w, LogOK(w), NEW txs, NEW s, s = UpdatesOf(w, txs)
  PROVE  Len(s) \in Nat /\ \E at \in [1..Len(s) -> 1..Len(w)] : UpdatesAt(w, txs, s, at)
<1> DEFINE I == {i \in 1..Len(w) : w[i].type = "UPDATE" /\ w[i].tx \in txs}
<1>1. PICK R : w \in Seq(R)
  BY DEF LogOK
<1>2. s = ElementsAt(w, I) /\ I \in SUBSET (1..Len(w)) /\ \A i \in I : i \in Int
  BY DEF UpdatesOf
<1>3. /\ IsFiniteSet(I) /\ s \in Seq(R) /\ Len(s) = Cardinality(I)
      /\ \A k \in 1..Cardinality(I) : s[k] = w[Ascending(I)[k]]
  <2> HIDE DEF I
  <2> QED
    BY <1>1, <1>2, ElementsAtFacts
<1>4. PICK at : at = Ascending(I)
  OBVIOUS
<1>5. /\ at \in [1..Len(s) -> I]
      /\ \A i \in I : \E k \in 1..Len(s) : at[k] = i
      /\ \A k, l \in 1..Len(s) : k < l => at[k] < at[l]
  <2> HIDE DEF I
  <2>1. /\ Ascending(I) \in [1..Cardinality(I) -> I]
        /\ \A i \in I : \E k \in 1..Cardinality(I) : Ascending(I)[k] = i
        /\ \A k, l \in 1..Cardinality(I) : k < l => Ascending(I)[k] < Ascending(I)[l]
    BY <1>2, <1>3, AscendingFacts
  <2>2. PICK n : n = Len(s)
    OBVIOUS
  <2> QED
    BY <1>3, <1>4, <2>1
<1>6. \A k \in 1..Len(s) : s[k] = w[at[k]]
  BY <1>3, <1>4
<1>7. at \in [1..Len(s) -> 1..Len(w)]
  <2> HIDE DEF I
  <2> QED
    BY <1>2, <1>5
<1>8. \A k \in 1..Len(s) : w[at[k]].type = "UPDATE" /\ w[at[k]].tx \in txs
  BY <1>5
<1>9. \A i \in 1..Len(w) : w[i].type = "UPDATE" /\ w[i].tx \in txs => \E k \in 1..Len(s) : at[k] = i
  BY <1>5
<1>10. Len(s) \in Nat
  BY <1>3
<1> HIDE DEF I
<1> QED
  BY <1>5, <1>6, <1>7, <1>8, <1>9, <1>10 DEF UpdatesAt

(* The page writes of recovery, in terms of the updates of either kind: the  *)
(* after-images of the winners', then the before-images of the losers', from *)
(* the last one back.                                                        *)
Passes(W, s, u) ==
  /\ W \in Seq(PageWrite) /\ Len(s) \in Nat /\ Len(u) \in Nat /\ Len(W) = Len(s) + Len(u)
  /\ \A k \in 1..Len(s) : W[k].page = s[k].page /\ W[k].image = s[k].after
  /\ \A k \in 1..Len(u) : /\ W[Len(s) + ((Len(u) - k) + 1)].page = u[k].page
                          /\ W[Len(s) + ((Len(u) - k) + 1)].image = u[k].before

(* RecoveryWrites is of that form.                                           *)
LEMMA RecoveryOrder ==
  ASSUME NEW w, LogOK(w), NEW s, s = UpdatesOf(w, winners(w)), NEW u, u = UpdatesOf(w, losers(w))
  PROVE  Passes(RecoveryWrites(w), s, u)
<1> DEFINE W == RecoveryWrites(w)
           n == Len(s)
           m == Len(u)
           v == Reverse(u)
<1>1. W \in Seq(PageWrite)
  BY RecoveryWritesType
<1>2. n \in Nat /\ m \in Nat
  BY UpdatesOrder
<1>3. PICK a : a = redo(w)
  OBVIOUS
<1>4. PICK b : b = undo(w)
  OBVIOUS
<1>5. a = [k \in 1..n |-> [page |-> s[k].page, image |-> s[k].after]]
  BY <1>3 DEF redo
<1>6. v = [k \in 1..m |-> u[(m - k) + 1]] /\ Len(v) = m
  BY <1>2 DEF Reverse
<1>7. b = [k \in 1..m |-> [page |-> v[k].page, image |-> v[k].before]]
  <2>1. b = [k \in 1..Len(v) |-> [page |-> v[k].page, image |-> v[k].before]]
    BY <1>4 DEF undo
  <2> HIDE DEF v, m
  <2> QED
    BY <1>6, <2>1
<1>8. W = a \o b
  BY <1>3, <1>4 DEF RecoveryWrites
<1> HIDE DEF W, v
<1>9. \A k \in 1..m : b[(m - k) + 1].page = u[k].page /\ b[(m - k) + 1].image = u[k].before
  <2> TAKE k \in 1..m
  <2>1. (m - k) + 1 \in 1..m /\ (m - ((m - k) + 1)) + 1 = k
    BY <1>2
  <2>2. v[(m - k) + 1] = u[k]
    BY <1>6, <2>1
  <2> HIDE DEF m
  <2>3. /\ b[(m - k) + 1].page = v[(m - k) + 1].page
        /\ b[(m - k) + 1].image = v[(m - k) + 1].before
    BY <1>7, <2>1
  <2> QED
    BY <2>2, <2>3
<1>10. Len(a) = n /\ Len(b) = m
  BY <1>2, <1>5, <1>7
<1>11. /\ Len(W) = n + m
       /\ \A k \in 1..(n + m) : W[k] = IF k <= n THEN a[k] ELSE b[k - n]
  <2>1. a \in Seq(PageWrite) /\ b \in Seq(PageWrite)
    BY <1>3, <1>4, RecoveryWritesType
  <2>2. /\ a \o b \in Seq(PageWrite) /\ Len(a \o b) = Len(a) + Len(b)
        /\ \A k \in 1..Len(a \o b) : (a \o b)[k] = IF k <= Len(a) THEN a[k] ELSE b[k - Len(a)]
    BY <2>1, ConcatProperties
  <2> HIDE DEF n, m
  <2> QED
    BY <1>8, <1>10, <2>2
<1>13. \A k \in 1..n : W[k] = a[k]
  BY <1>2, <1>11
<1>14. \A k \in 1..n : W[k].page = s[k].page /\ W[k].image = s[k].after
  BY <1>5, <1>13
<1>15. \A k \in 1..m : W[n + ((m - k) + 1)] = b[(m - k) + 1]
  <2> TAKE k \in 1..m
  <2>1. n + ((m - k) + 1) \in 1..(n + m) /\ ~(n + ((m - k) + 1) <= n)
        /\ (n + ((m - k) + 1)) - n = (m - k) + 1
    BY <1>2
  <2> HIDE DEF n, m
  <2> QED
    BY <1>11, <2>1
<1> QED
  BY <1>1, <1>2, <1>9, <1>11, <1>14, <1>15 DEF W, Passes

Loses(w, p, i) == i \in UpdatesIn(w, p) /\ w[i].tx \in losers(w)
Wins(w, p, i)  == i \in UpdatesIn(w, p) /\ w[i].tx \in winners(w)

(* What recovery leaves of a page: the before-image of a loser's first       *)
(* update, or else the after-image of a winner's last one.                   *)
LEMMA RecoveryLeaves ==
  ASSUME NEW w, LogOK(w), NEW file \in [Resource -> Image], NEW p \in Resource
  PROVE  LET left == Written(file, RecoveryWrites(w))[p] IN
         \/ \E i : /\ Loses(w, p, i) /\ \A j : Loses(w, p, j) => i <= j
                   /\ left = w[i].before
         \/ /\ \A j : ~Loses(w, p, j)
            /\ \E i : /\ Wins(w, p, i) /\ \A j : Wins(w, p, j) => j <= i
                      /\ left = w[i].after
         \/ (\A j : ~Loses(w, p, j) /\ ~Wins(w, p, j)) /\ left = file[p]
<1> DEFINE W == RecoveryWrites(w)
           left == Written(file, W)[p]
<1>1. PICK s : s = UpdatesOf(w, winners(w))
  OBVIOUS
<1>2. PICK u : u = UpdatesOf(w, losers(w))
  OBVIOUS
<1> DEFINE n == Len(s)
           m == Len(u)
<1>3. /\ W \in Seq(PageWrite) /\ n \in Nat /\ m \in Nat /\ Len(W) = n + m
      /\ \A k \in 1..n : W[k].page = s[k].page /\ W[k].image = s[k].after
      /\ \A k \in 1..m : W[n + ((m - k) + 1)].page = u[k].page /\ W[n + ((m - k) + 1)].image = u[k].before
  <2>1. Passes(RecoveryWrites(w), s, u)
    BY <1>1, <1>2, RecoveryOrder
  <2> QED
    BY <2>1 DEF Passes
<1>4. PICK at \in [1..n -> 1..Len(w)] :
        /\ \A k \in 1..n : s[k] = w[at[k]] /\ w[at[k]].type = "UPDATE" /\ w[at[k]].tx \in winners(w)
        /\ \A k, l \in 1..n : k < l => at[k] < at[l]
        /\ \A i \in 1..Len(w) :
             w[i].type = "UPDATE" /\ w[i].tx \in winners(w) => \E k \in 1..n : at[k] = i
  <2>1. PICK at \in [1..Len(s) -> 1..Len(w)] : UpdatesAt(w, winners(w), s, at)
    BY <1>1, UpdatesOrder
  <2> QED
    BY <2>1 DEF UpdatesAt
<1>5. PICK ut \in [1..m -> 1..Len(w)] :
        /\ \A k \in 1..m : u[k] = w[ut[k]] /\ w[ut[k]].type = "UPDATE" /\ w[ut[k]].tx \in losers(w)
        /\ \A k, l \in 1..m : k < l => ut[k] < ut[l]
        /\ \A i \in 1..Len(w) :
             w[i].type = "UPDATE" /\ w[i].tx \in losers(w) => \E k \in 1..m : ut[k] = i
  <2>1. PICK at1 \in [1..Len(u) -> 1..Len(w)] : UpdatesAt(w, losers(w), u, at1)
    BY <1>2, UpdatesOrder
  <2> QED
    BY <2>1 DEF UpdatesAt
<1>6. \A j : Wins(w, p, j) => \E k \in 1..n : at[k] = j /\ W[k].page = p
  <2> TAKE j
  <2> HAVE Wins(w, p, j)
  <2>1. j \in 1..Len(w) /\ w[j].type = "UPDATE" /\ w[j].tx \in winners(w) /\ w[j].page = p
    BY DEF Wins, UpdatesIn
  <2>2. PICK k \in 1..n : at[k] = j
    BY <1>4, <2>1
  <2>3. W[k].page = p
    BY <1>3, <1>4, <2>1, <2>2
  <2> QED
    BY <2>2, <2>3
<1>7. \A j : Loses(w, p, j) => \E k \in 1..m : ut[k] = j /\ W[n + ((m - k) + 1)].page = p
  <2> TAKE j
  <2> HAVE Loses(w, p, j)
  <2>1. j \in 1..Len(w) /\ w[j].type = "UPDATE" /\ w[j].tx \in losers(w) /\ w[j].page = p
    BY DEF Loses, UpdatesIn
  <2>2. PICK k \in 1..m : ut[k] = j
    BY <1>5, <2>1
  <2>3. W[n + ((m - k) + 1)].page = p
    BY <1>3, <1>5, <2>1, <2>2
  <2> QED
    BY <2>2, <2>3
<1>8. \A k \in 1..m : n + ((m - k) + 1) \in 1..Len(W) /\ n < n + ((m - k) + 1)
  BY <1>3
<1>9. \A k \in 1..n : k \in 1..Len(W)
  BY <1>3
<1>10. \A i \in 1..Len(w) : i \in Int
  OBVIOUS
<1> HIDE DEF W, n, m
<1>11. CASE (\A i \in 1..Len(W) : W[i].page # p) /\ left = file[p]
  <2>1. \A j : ~Loses(w, p, j) /\ ~Wins(w, p, j)
    BY <1>6, <1>7, <1>8, <1>9, <1>11
  <2> QED
    BY <1>11, <2>1 DEF W
<1>12. CASE \E i \in 1..Len(W) :
              /\ W[i].page = p /\ \A j \in 1..Len(W) : W[j].page = p => j <= i
              /\ left = W[i].image
  <2>1. PICK i \in 1..Len(W) :
              /\ W[i].page = p /\ \A j \in 1..Len(W) : W[j].page = p => j <= i
              /\ left = W[i].image
    BY <1>12
  <2>2. CASE i \in 1..n
    <3>1. W[i].page = s[i].page /\ W[i].image = s[i].after /\ s[i] = w[at[i]]
          /\ w[at[i]].type = "UPDATE" /\ w[at[i]].tx \in winners(w) /\ at[i] \in 1..Len(w)
      BY <1>3, <1>4, <2>2
    <3>2. Wins(w, p, at[i]) /\ left = w[at[i]].after
      BY <2>1, <3>1 DEF Wins, UpdatesIn
    <3>3. \A j : ~Loses(w, p, j)
      <4> SUFFICES ASSUME NEW j, Loses(w, p, j)
                   PROVE  FALSE
        OBVIOUS
      <4>1. PICK k \in 1..m : ut[k] = j /\ W[n + ((m - k) + 1)].page = p
        BY <1>7
      <4>2. n + ((m - k) + 1) <= i /\ n < n + ((m - k) + 1)
        BY <1>8, <2>1, <4>1
      <4> QED
        BY <1>3, <2>2, <4>2
    <3>4. \A j : Wins(w, p, j) => j <= at[i]
      <4> TAKE j
      <4> HAVE Wins(w, p, j)
      <4>1. PICK k \in 1..n : at[k] = j /\ W[k].page = p
        BY <1>6
      <4>2. k <= i
        BY <1>9, <2>1, <4>1
      <4>3. k = i \/ k < i
        BY <4>2
      <4>4. at[k] = at[i] \/ at[k] < at[i]
        BY <1>4, <2>2, <4>3
      <4>5. at[k] \in Int /\ at[i] \in Int
        BY <1>4, <1>10, <2>2
      <4> QED
        BY <4>1, <4>4, <4>5
    <3> QED
      BY <3>2, <3>3, <3>4 DEF W
  <2>3. CASE i \notin 1..n
    <3>1. PICK k \in 1..m : i = n + ((m - k) + 1)
      <4>1. (m - (i - n)) + 1 \in 1..m /\ i = n + ((m - ((m - (i - n)) + 1)) + 1)
        BY <1>3, <2>1, <2>3
      <4> QED
        BY <4>1
    <3>2. W[i].page = u[k].page /\ W[i].image = u[k].before /\ u[k] = w[ut[k]]
          /\ w[ut[k]].type = "UPDATE" /\ w[ut[k]].tx \in losers(w) /\ ut[k] \in 1..Len(w)
      BY <1>3, <1>5, <3>1
    <3>3. Loses(w, p, ut[k]) /\ left = w[ut[k]].before
      BY <2>1, <3>2 DEF Loses, UpdatesIn
    <3>4. \A j : Loses(w, p, j) => ut[k] <= j
      <4> TAKE j
      <4> HAVE Loses(w, p, j)
      <4>1. PICK l \in 1..m : ut[l] = j /\ W[n + ((m - l) + 1)].page = p
        BY <1>7
      <4>2. n + ((m - l) + 1) <= i
        BY <1>8, <2>1, <4>1
      <4>3. k = l \/ k < l
        BY <1>3, <3>1, <4>2
      <4>4. ut[k] = ut[l] \/ ut[k] < ut[l]
        BY <1>5, <4>3
      <4>5. ut[k] \in Int /\ ut[l] \in Int
        BY <1>5, <1>10
      <4> QED
        BY <4>1, <4>4, <4>5
    <3> QED
      BY <3>3, <3>4 DEF W
  <2> QED
    BY <2>2, <2>3
<1>13. p \in DOMAIN file
  OBVIOUS
<1> HIDE DEF left
<1>14. \/ (\A i \in 1..Len(W) : W[i].page # p) /\ left = file[p]
       \/ \E i \in 1..Len(W) :
              /\ W[i].page = p /\ \A j \in 1..Len(W) : W[j].page = p => j <= i
              /\ left = W[i].image
  BY <1>3, <1>13, WrittenIs DEF left
<1> QED
  BY <1>11, <1>12, <1>14 DEF left, W

(* The last update of the page in front of this one, if there is one, left   *)
(* the before-image of this one.                                             *)
FollowsOn(w, p, i) ==
  \/ (\A j \in UpdatesIn(w, p) : ~(j < i)) /\ w[i].before = {}
  \/ \E j \in UpdatesIn(w, p) :
       /\ j < i /\ \A k \in UpdatesIn(w, p) : k < i => k <= j
       /\ w[i].before = w[j].after

(* An update that is not committed follows on a history that is, unless a    *)
(* commit of the page was taken back.                                        *)
BeforeIn(w, p) ==
  UndoneIn(w, p) \/
    \A i \in UpdatesIn(w, p) :
      ~CommittedIn(w, i) /\ (\A j \in UpdatesIn(w, p) : j < i => CommittedIn(w, j))
        => FollowsOn(w, p, i)

Began(w, t) == \E b \in 1..Len(w) : w[b].type = "BEGIN" /\ w[b].tx = t

BornIn(w) == \A i \in 1..Len(w) : w[i].type = "UPDATE" => Began(w, w[i].tx)

(* A committed update is a winner's.                                         *)
LEMMA CommittedWins ==
  ASSUME NEW w, LogOK(w), NEW i \in 1..Len(w), CommittedIn(w, i)
  PROVE  w[i].tx \in winners(w)
<1>1. PICK c \in (i+1)..Len(w) : w[c] = [type |-> "COMMIT", tx |-> w[i].tx]
  BY DEF CommittedIn, FollowedIn
<1>2. Len(w) \in Nat
  BY DEF LogOK
<1>3. c \in 1..Len(w) /\ w[c].type = "COMMIT" /\ w[c].tx = w[i].tx
  BY <1>1, <1>2
<1> QED
  BY <1>3 DEF winners, TxOf

(* An update of a log whose updates all have their BEGIN record is one of a  *)
(* winner or of a loser.                                                     *)
LEMMA BornKnown ==
  ASSUME NEW w, BornIn(w), NEW i \in 1..Len(w), w[i].type = "UPDATE"
  PROVE  w[i].tx \in winners(w) \/ w[i].tx \in losers(w)
BY DEF BornIn, Began, losers, TxOf

(* What readAll leaves out changes nothing.                                  *)
LEMMA ReadSame ==
  ASSUME NEW w, LogOK(w), Readable(w), NEW p, NEW r, r = readAll(w)
  PROVE  /\ LogOK(r)
         /\ UpdatesIn(r, p) = UpdatesIn(w, p)
         /\ \A i \in UpdatesIn(w, p) : r[i] = w[i]
         /\ winners(r) = winners(w) /\ losers(r) = losers(w)
<1>1. /\ LogOK(r) /\ Len(r) \in Nat /\ Len(r) <= Len(w)
      /\ \A i \in 1..Len(r) : r[i] = w[i] /\ r[i].type # "TORN"
      /\ \A i \in 1..Len(w) : i \notin 1..Len(r) => w[i].type = "TORN"
  BY ReadIs
<1>2. Len(w) \in Nat
  BY DEF LogOK
<1>3. \A i \in 1..Len(r) : i \in 1..Len(w)
  BY <1>1, <1>2
<1>4. ASSUME NEW type, type # "TORN"
      PROVE  TxOf(r, type) = TxOf(w, type)
  <2>1. {j \in 1..Len(r) : r[j].type = type} = {j \in 1..Len(w) : w[j].type = type}
    BY <1>1, <1>3, <1>4
  <2>2. \A i \in {j \in 1..Len(r) : r[j].type = type} : r[i] = w[i]
    BY <1>1
  <2> QED
    BY <2>1, <2>2 DEF TxOf
<1>5. "COMMIT" # "TORN" /\ "BEGIN" # "TORN" /\ "UPDATE" # "TORN"
  OBVIOUS
<1>6. winners(r) = winners(w) /\ losers(r) = losers(w)
  BY <1>4, <1>5 DEF winners, losers
<1>7. UpdatesIn(r, p) = UpdatesIn(w, p)
  BY <1>1, <1>3, <1>5 DEF UpdatesIn
<1>8. \A i \in UpdatesIn(r, p) : r[i] = w[i]
  BY <1>1 DEF UpdatesIn
<1> QED
  BY <1>1, <1>6, <1>7, <1>8

(* Recovery leaves a trusted page at its committed image.                    *)
LEMMA RecoversCommitted ==
  ASSUME NEW w, LogOK(w), NEW file \in [Resource -> Image], NEW p \in Resource,
         BornIn(w), BeforeIn(w, p), UpdatesIn(w, p) = {} => file[p] = {}, TrustedIn(w, p)
  PROVE  Recovered(file, w)[p] = ImageIn(w, p)
<1> DEFINE left == Recovered(file, w)[p]
           U == UpdatesIn(w, p)
<1>1. PICK r : r = readAll(w)
  OBVIOUS
<1>2. /\ LogOK(r) /\ UpdatesIn(r, p) = U
      /\ \A i \in U : r[i] = w[i]
      /\ winners(r) = winners(w) /\ losers(r) = losers(w)
  BY <1>1, ReadSame DEF TrustedIn
<1>3. \A i \in U : i \in 1..Len(w) /\ w[i].type = "UPDATE" /\ i \in Int
  BY DEF UpdatesIn
<1>4. \A i : /\ Loses(r, p, i) <=> i \in U /\ w[i].tx \in losers(w)
             /\ Wins(r, p, i) <=> i \in U /\ w[i].tx \in winners(w)
  BY <1>2 DEF Loses, Wins
<1>5. \A i \in U : CommittedIn(w, i) <=> w[i].tx \in winners(w)
  BY <1>3, CommittedWins DEF TrustedIn
<1>6. \A i \in U : w[i].tx \in losers(w) <=> ~CommittedIn(w, i)
  <2>1. \A i \in U : w[i].tx \in winners(w) \/ w[i].tx \in losers(w)
    BY <1>3, BornKnown
  <2> QED
    BY <1>5, <2>1 DEF losers
<1>7. \A i, j \in U : ~CommittedIn(w, i) /\ CommittedIn(w, j) => j < i
  <2> TAKE i, j \in U
  <2> HAVE ~CommittedIn(w, i) /\ CommittedIn(w, j)
  <2>1. ~(i < j)
    BY <1>5, <1>6 DEF TrustedIn
  <2> QED
    BY <1>3, <2>1
<1>8. PICK C : C = {i \in U : CommittedIn(w, i)}
  OBVIOUS
<1>9. \A i : i \in C <=> i \in U /\ CommittedIn(w, i)
  BY <1>8
<1>10. \/ C = {} /\ ImageIn(w, p) = {}
       \/ \E i \in C : (\A j \in C : j <= i) /\ ImageIn(w, p) = w[i].after
  BY <1>9, ImageIs
<1>10a. ~UndoneIn(w, p)
  BY DEF TrustedIn
<1>11. /\ \A i \in U : i \notin C /\ (\A j \in U : j < i => j \in C) => FollowsOn(w, p, i)
       /\ \A i \in U, j \in C : i \notin C => j < i
       /\ \A i : Loses(r, p, i) <=> i \in U /\ i \notin C
       /\ \A i : Wins(r, p, i) <=> i \in C
       /\ C \subseteq U
  BY <1>4, <1>5, <1>6, <1>7, <1>9, <1>10a DEF BeforeIn
<1>12. left = Written(file, RecoveryWrites(r))[p]
  BY <1>1 DEF Recovered
<1>13. ASSUME NEW i \in U, i \notin C, \A j \in U : j \notin C => i <= j, left = w[i].before
       PROVE  left = ImageIn(w, p)
  <2>1. \A j \in U : j < i => j \in C
    BY <1>3, <1>13
  <2>2. FollowsOn(w, p, i)
    BY <1>11, <1>13, <2>1
  <2>3. CASE (\A j \in U : ~(j < i)) /\ w[i].before = {}
    <3>1. C = {}
      BY <1>11, <1>13, <2>3
    <3> QED
      BY <1>10, <1>13, <2>3, <3>1
  <2>4. ASSUME NEW j \in U, j < i, \A k \in U : k < i => k <= j, w[i].before = w[j].after
        PROVE  left = ImageIn(w, p)
    <3>1. j \in C
      BY <2>1, <2>4
    <3>2. PICK m \in C : (\A k \in C : k <= m) /\ ImageIn(w, p) = w[m].after
      BY <1>10, <3>1
    <3>3. m \in U /\ m < i
      BY <1>11, <1>13
    <3>4. m <= j /\ j <= m
      BY <2>4, <3>1, <3>2, <3>3
    <3>5. m = j
      BY <1>3, <3>3, <3>4
    <3> QED
      BY <1>13, <2>4, <3>2, <3>5
  <2> QED
    BY <2>2, <2>3, <2>4 DEF FollowsOn
<1>14. ASSUME \A j \in U : j \in C, NEW i \in C, \A j \in C : j <= i, left = w[i].after
       PROVE  left = ImageIn(w, p)
  <2>1. PICK m \in C : (\A k \in C : k <= m) /\ ImageIn(w, p) = w[m].after
    BY <1>10
  <2>2. m <= i /\ i <= m /\ i \in Int /\ m \in Int
    BY <1>3, <1>11, <1>14, <2>1
  <2>3. m = i
    BY <2>2
  <2> QED
    BY <1>14, <2>1, <2>3
<1>15. ASSUME U = {}, left = file[p]
       PROVE  left = ImageIn(w, p)
  BY <1>10, <1>11, <1>15
<1> HIDE DEF left, U
<1>16. \/ \E i : /\ Loses(r, p, i) /\ \A j : Loses(r, p, j) => i <= j
                 /\ left = r[i].before
       \/ /\ \A j : ~Loses(r, p, j)
          /\ \E i : /\ Wins(r, p, i) /\ \A j : Wins(r, p, j) => j <= i
                    /\ left = r[i].after
       \/ (\A j : ~Loses(r, p, j) /\ ~Wins(r, p, j)) /\ left = file[p]
  BY <1>2, <1>12, RecoveryLeaves
<1>17. ASSUME NEW i, Loses(r, p, i), \A j : Loses(r, p, j) => i <= j, left = r[i].before
       PROVE  left = ImageIn(w, p)
  BY <1>2, <1>11, <1>13, <1>17
<1>18. ASSUME \A j : ~Loses(r, p, j), NEW i, Wins(r, p, i), \A j : Wins(r, p, j) => j <= i, left = r[i].after
       PROVE  left = ImageIn(w, p)
  BY <1>2, <1>11, <1>14, <1>18
<1>19. ASSUME \A j : ~Loses(r, p, j) /\ ~Wins(r, p, j), left = file[p]
       PROVE  left = ImageIn(w, p)
  <2>1. U = {}
    BY <1>11, <1>19
  <2> QED
    BY <1>15, <1>19, <2>1
<1>20. left = ImageIn(w, p)
  BY <1>16, <1>17, <1>18, <1>19
<1> QED
  BY <1>20 DEF left

(* What a longer log says of the records of a shorter one.                   *)
Continues(v, w) ==
  /\ LogOK(v) /\ LogOK(w) /\ Len(v) <= Len(w)
  /\ \A i \in 1..Len(v) : w[i] = v[i]

NoneOf(v, w, types) == \A i \in 1..Len(w) : i \notin 1..Len(v) => w[i].type \notin types

LEMMA ContinuesFacts ==
  ASSUME NEW v, NEW w, Continues(v, w)
  PROVE  /\ Len(v) \in Nat /\ Len(w) \in Nat /\ Len(v) <= Len(w)
         /\ \A i \in 1..Len(v) : i \in 1..Len(w) /\ w[i] = v[i]
         /\ \A i \in 1..Len(w) : i \notin 1..Len(v) => i > Len(v)
         /\ \A p : UpdatesIn(v, p) \subseteq UpdatesIn(w, p)
         /\ \A p : \A i \in UpdatesIn(w, p) : i \in 1..Len(v) => i \in UpdatesIn(v, p)
         /\ \A type : \A i \in 1..Len(v) : FollowedIn(v, i, type) => FollowedIn(w, i, type)
         /\ \A i \in 1..Len(v) : CommittedIn(v, i) => CommittedIn(w, i)
         /\ \A p : UndoneIn(v, p) => UndoneIn(w, p)
         /\ \A type : TxOf(v, type) \subseteq TxOf(w, type)
         /\ Readable(w) => Readable(v)
<1>1. Len(v) \in Nat /\ Len(w) \in Nat /\ Len(v) <= Len(w)
  BY DEF Continues, LogOK
<1>2. \A i \in 1..Len(v) : i \in 1..Len(w) /\ w[i] = v[i]
  BY <1>1 DEF Continues
<1>3. \A i \in 1..Len(w) : i \notin 1..Len(v) => i > Len(v)
  BY <1>1
<1>4. \A p : UpdatesIn(v, p) \subseteq UpdatesIn(w, p)
  BY <1>2 DEF UpdatesIn
<1>5. \A p : \A i \in UpdatesIn(w, p) : i \in 1..Len(v) => i \in UpdatesIn(v, p)
  BY <1>2 DEF UpdatesIn
<1>6. ASSUME NEW type, NEW i \in 1..Len(v), FollowedIn(v, i, type)
      PROVE  FollowedIn(w, i, type)
  <2>1. PICK c \in (i+1)..Len(v) : /\ v[c] = [type |-> type, tx |-> v[i].tx]
                                   /\ \A b \in i..c : v[b] # [type |-> "BEGIN", tx |-> v[i].tx]
    BY <1>6 DEF FollowedIn
  <2>2. c \in (i+1)..Len(w) /\ c \in 1..Len(v) /\ \A b \in i..c : b \in 1..Len(v)
    BY <1>1
  <2>3. w[c] = v[c] /\ w[i] = v[i] /\ \A b \in i..c : w[b] = v[b]
    BY <1>2, <2>2
  <2> QED
    BY <2>1, <2>2, <2>3 DEF FollowedIn
<1>6a. \A i \in 1..Len(v) : CommittedIn(v, i) => CommittedIn(w, i)
  BY <1>6 DEF CommittedIn
<1>6b. \A p : UndoneIn(v, p) => UndoneIn(w, p)
  <2>1. \A p : \A i \in UpdatesIn(v, p) : i \in 1..Len(v)
    BY DEF UpdatesIn
  <2> QED
    BY <1>4, <1>6, <1>6a, <2>1 DEF UndoneIn
<1>7. \A type : TxOf(v, type) \subseteq TxOf(w, type)
  BY <1>2 DEF TxOf
<1>8. Readable(w) => Readable(v)
  <2> SUFFICES ASSUME Readable(w), NEW i \in 1..Len(v), v[i].type = "TORN"
               PROVE  i = Len(v)
    BY DEF Readable
  <2>1. i \in 1..Len(w) /\ w[i].type = "TORN"
    BY <1>2
  <2>2. i = Len(w)
    BY <2>1 DEF Readable
  <2> QED
    BY <1>1, <2>2
<1> QED
  BY <1>1, <1>2, <1>3, <1>4, <1>5, <1>6, <1>6a, <1>6b, <1>7, <1>8

(* One more record.                                                          *)
LEMMA AppendContinues ==
  ASSUME NEW v, LogOK(v), NEW r, NEW w, w = Append(v, r),
         r.type = "UPDATE" => r.page \in Resource /\ r.before \in Image /\ r.after \in Image
  PROVE  /\ Continues(v, w) /\ Len(w) = Len(v) + 1 /\ w[Len(v) + 1] = r
         /\ \A i \in 1..Len(w) : i \notin 1..Len(v) => i = Len(v) + 1 /\ w[i] = r
<1>1. /\ LogOK(w)
      /\ Len(v) \in Nat /\ Len(w) = Len(v) + 1 /\ w[Len(v) + 1] = r
      /\ \A i \in 1..Len(v) : w[i] = v[i]
  BY AppendLog
<1>2. Len(v) <= Len(w)
  BY <1>1
<1>3. \A i \in 1..Len(w) : i \notin 1..Len(v) => i = Len(v) + 1
  BY <1>1
<1> QED
  BY <1>1, <1>2, <1>3 DEF Continues

Appends(v, r, w) == w = Append(v, r)

LEMMA OtherContinues ==
  ASSUME NEW v, LogOK(v), NEW r, NEW w, Appends(v, r, w), NoUpdate(r)
  PROVE  /\ Continues(v, w) /\ Len(w) = Len(v) + 1 /\ w[Len(v) + 1] = r
         /\ \A i \in 1..Len(w) : i \notin 1..Len(v) => i = Len(v) + 1 /\ w[i] = r
<1>1. r.type # "UPDATE" /\ w = Append(v, r)
  BY DEF NoUpdate, Appends
<1> QED
  BY <1>1, AppendContinues

(* Without a new COMMIT record nothing is committed that was not before.     *)
LEMMA NothingCommitted ==
  ASSUME NEW v, NEW w, Continues(v, w), NoneOf(v, w, {"COMMIT"})
  PROVE  /\ \A i \in 1..Len(w) : CommittedIn(w, i) <=> i \in 1..Len(v) /\ CommittedIn(v, i)
         /\ \A p : ImageIn(w, p) = ImageIn(v, p)
         /\ \A p : TrustedIn(w, p) => TrustedIn(v, p)
<1>1. /\ Len(v) \in Nat /\ Len(w) \in Nat /\ Len(v) <= Len(w)
      /\ \A i \in 1..Len(v) : i \in 1..Len(w) /\ w[i] = v[i]
      /\ \A i \in 1..Len(w) : i \notin 1..Len(v) => i > Len(v)
      /\ \A p : UpdatesIn(v, p) \subseteq UpdatesIn(w, p)
      /\ \A p : \A i \in UpdatesIn(w, p) : i \in 1..Len(v) => i \in UpdatesIn(v, p)
      /\ \A i \in 1..Len(v) : CommittedIn(v, i) => CommittedIn(w, i)
      /\ \A type : TxOf(v, type) \subseteq TxOf(w, type)
      /\ Readable(w) => Readable(v)
  BY ContinuesFacts
<1>2. ASSUME NEW i \in 1..Len(w), CommittedIn(w, i)
      PROVE  i \in 1..Len(v) /\ CommittedIn(v, i)
  <2>1. PICK c \in (i+1)..Len(w) : /\ w[c] = [type |-> "COMMIT", tx |-> w[i].tx]
                                   /\ \A b \in i..c : w[b] # [type |-> "BEGIN", tx |-> w[i].tx]
    BY <1>2 DEF CommittedIn, FollowedIn
  <2>2. c \in 1..Len(w) /\ w[c].type = "COMMIT"
    BY <1>1, <2>1
  <2>3. c \in 1..Len(v)
    BY <2>2 DEF NoneOf
  <2>4. i \in 1..Len(v) /\ c \in (i+1)..Len(v) /\ \A b \in i..c : b \in 1..Len(v)
    BY <1>1, <2>3
  <2>5. w[c] = v[c] /\ w[i] = v[i] /\ \A b \in i..c : w[b] = v[b]
    BY <1>1, <2>3, <2>4
  <2> QED
    BY <2>1, <2>4, <2>5 DEF CommittedIn, FollowedIn
<1>3. \A i \in 1..Len(w) : CommittedIn(w, i) <=> i \in 1..Len(v) /\ CommittedIn(v, i)
  BY <1>1, <1>2
<1>4. \A p : \A i \in UpdatesIn(w, p) : i \in 1..Len(w)
  BY DEF UpdatesIn
<1>4a. \A p : \A i \in UpdatesIn(v, p) : i \in 1..Len(v)
  BY DEF UpdatesIn
<1>5. ASSUME NEW p
      PROVE  ImageIn(w, p) = ImageIn(v, p)
  <2>1. {i \in UpdatesIn(w, p) : CommittedIn(w, i)} = {i \in UpdatesIn(v, p) : CommittedIn(v, i)}
    BY <1>1, <1>3, <1>4, <1>4a
  <2>2. \A i \in UpdatesIn(v, p) : w[i] = v[i]
    BY <1>1, <1>4a
  <2>3. LogOK(v)
    BY DEF Continues
  <2> QED
    BY <2>1, <2>2, <2>3, ImageSame
<1>6. winners(w) = winners(v) /\ losers(v) \subseteq losers(w)
  <2>1. TxOf(w, "COMMIT") \subseteq TxOf(v, "COMMIT")
    <3>1. \A i \in 1..Len(w) : w[i].type = "COMMIT" => i \in 1..Len(v) /\ w[i] = v[i]
      BY <1>1 DEF NoneOf
    <3> QED
      BY <3>1 DEF TxOf
  <2>2. TxOf(w, "COMMIT") = TxOf(v, "COMMIT") /\ TxOf(v, "BEGIN") \subseteq TxOf(w, "BEGIN")
    BY <1>1, <2>1
  <2> QED
    BY <2>2 DEF winners, losers
<1>7. ASSUME NEW p, TrustedIn(w, p)
      PROVE  TrustedIn(v, p)
  <2>1. \A i \in UpdatesIn(v, p) :
          i \in UpdatesIn(w, p) /\ w[i] = v[i] /\ (CommittedIn(w, i) => CommittedIn(v, i))
    BY <1>1, <1>3, <1>4, <1>4a
  <2>2. ~ \E i \in UpdatesIn(v, p) : v[i].tx \in winners(v) /\ ~CommittedIn(v, i)
    BY <1>6, <1>7, <2>1 DEF TrustedIn
  <2>3. ~ \E i, j \in UpdatesIn(v, p) : i < j /\ v[i].tx \in losers(v) /\ v[j].tx \in winners(v)
    BY <1>6, <1>7, <2>1 DEF TrustedIn
  <2>4. Readable(v)
    BY <1>1, <1>7 DEF TrustedIn
  <2>5. ~UndoneIn(v, p)
    BY <1>7, ContinuesFacts DEF TrustedIn
  <2> QED
    BY <2>2, <2>3, <2>4, <2>5 DEF TrustedIn
<1> QED
  BY <1>3, <1>5, <1>7

(* An update that follows on the history of its page still does so.          *)
LEMMA FollowsOnSame ==
  ASSUME NEW v, NEW w, Continues(v, w), NEW p, NEW i \in UpdatesIn(v, p), FollowsOn(v, p, i)
  PROVE  FollowsOn(w, p, i)
<1>1. /\ Len(v) \in Nat /\ Len(w) \in Nat /\ Len(v) <= Len(w)
      /\ \A j \in 1..Len(v) : j \in 1..Len(w) /\ w[j] = v[j]
      /\ \A j \in 1..Len(w) : j \notin 1..Len(v) => j > Len(v)
      /\ UpdatesIn(v, p) \subseteq UpdatesIn(w, p)
      /\ \A j \in UpdatesIn(w, p) : j \in 1..Len(v) => j \in UpdatesIn(v, p)
  BY ContinuesFacts
<1>2. /\ \A j \in UpdatesIn(v, p) : j \in 1..Len(v)
      /\ \A j \in UpdatesIn(w, p) : j \in 1..Len(w)
  BY DEF UpdatesIn
<1>3. \A j \in UpdatesIn(w, p) : j < i => j \in UpdatesIn(v, p)
  <2> TAKE j \in UpdatesIn(w, p)
  <2> HAVE j < i
  <2>1. ~(j > Len(v))
    BY <1>1, <1>2
  <2> QED
    BY <1>1, <1>2, <2>1
<1>4. w[i] = v[i] /\ \A j \in UpdatesIn(v, p) : w[j] = v[j]
  BY <1>1, <1>2
<1>5. CASE (\A j \in UpdatesIn(v, p) : ~(j < i)) /\ v[i].before = {}
  BY <1>3, <1>4, <1>5 DEF FollowsOn
<1>6. ASSUME NEW j \in UpdatesIn(v, p), j < i, \A k \in UpdatesIn(v, p) : k < i => k <= j,
             v[i].before = v[j].after
      PROVE  FollowsOn(w, p, i)
  <2>1. j \in UpdatesIn(w, p) /\ \A k \in UpdatesIn(w, p) : k < i => k <= j
    BY <1>1, <1>3, <1>6
  <2>2. w[i].before = w[j].after
    BY <1>4, <1>6
  <2> QED
    BY <1>6, <2>1, <2>2 DEF FollowsOn
<1> QED
  BY <1>5, <1>6 DEF FollowsOn

(* Records of other types change nothing about the updates.                  *)
LEMMA SameUpdates ==
  ASSUME NEW v, NEW w, Continues(v, w), NoneOf(v, w, {"COMMIT", "UPDATE"})
  PROVE  /\ \A p : UpdatesIn(w, p) = UpdatesIn(v, p)
         /\ \A p : BeforeIn(v, p) => BeforeIn(w, p)
         /\ BornIn(v) => BornIn(w)
<1>1. /\ \A i \in 1..Len(v) : i \in 1..Len(w) /\ w[i] = v[i]
      /\ \A p : UpdatesIn(v, p) \subseteq UpdatesIn(w, p)
      /\ \A p : \A i \in UpdatesIn(w, p) : i \in 1..Len(v) => i \in UpdatesIn(v, p)
  BY ContinuesFacts
<1>2. NoneOf(v, w, {"COMMIT"}) /\ \A i \in 1..Len(w) : i \notin 1..Len(v) => w[i].type # "UPDATE"
  BY DEF NoneOf
<1>3. \A p : UpdatesIn(w, p) = UpdatesIn(v, p)
  BY <1>1, <1>2 DEF UpdatesIn
<1>4. \A i \in 1..Len(w) : CommittedIn(w, i) <=> i \in 1..Len(v) /\ CommittedIn(v, i)
  BY <1>2, NothingCommitted
<1>5. ASSUME NEW p, BeforeIn(v, p)
      PROVE  BeforeIn(w, p)
  <2>1. \A i \in UpdatesIn(v, p) : i \in 1..Len(w) /\ i \in 1..Len(v)
    BY <1>1 DEF UpdatesIn
  <2>2. \A i \in UpdatesIn(v, p) : CommittedIn(w, i) <=> CommittedIn(v, i)
    BY <1>4, <2>1
  <2>3. \A i \in UpdatesIn(v, p) : FollowsOn(v, p, i) => FollowsOn(w, p, i)
    BY FollowsOnSame
  <2>4. UndoneIn(v, p) => UndoneIn(w, p)
    BY ContinuesFacts
  <2> QED
    BY <1>3, <1>5, <2>2, <2>3, <2>4 DEF BeforeIn
<1>6. ASSUME BornIn(v)
      PROVE  BornIn(w)
  <2> SUFFICES ASSUME NEW i \in 1..Len(w), w[i].type = "UPDATE"
               PROVE  Began(w, w[i].tx)
    BY DEF BornIn
  <2>1. i \in 1..Len(v) /\ w[i] = v[i]
    BY <1>1, <1>2
  <2>2. Began(v, v[i].tx)
    BY <1>6, <2>1 DEF BornIn
  <2>3. PICK b \in 1..Len(v) : v[b].type = "BEGIN" /\ v[b].tx = v[i].tx
    BY <2>2 DEF Began
  <2> QED
    BY <1>1, <2>1, <2>3 DEF Began
<1> QED
  BY <1>3, <1>5, <1>6

(* A BEGIN record stays.                                                     *)
LEMMA BeganStays ==
  ASSUME NEW v, NEW w, Continues(v, w), NEW t, Began(v, t)
  PROVE  Began(w, t)
<1>1. \A i \in 1..Len(v) : i \in 1..Len(w) /\ w[i] = v[i]
  BY ContinuesFacts
<1> QED
  BY <1>1 DEF Began

(* A page whose updates are all committed, for good, is trusted.             *)
LEMMA AllCommittedTrusted ==
  ASSUME NEW w, LogOK(w), NEW p, \A i \in UpdatesIn(w, p) : CommittedIn(w, i),
         ~UndoneIn(w, p), Readable(w)
  PROVE  TrustedIn(w, p)
<1>1. \A i \in UpdatesIn(w, p) : i \in 1..Len(w)
  BY DEF UpdatesIn
<1>2. \A i \in UpdatesIn(w, p) : w[i].tx \in winners(w)
  BY <1>1, CommittedWins
<1> QED
  BY <1>2 DEF TrustedIn, losers

(* A write appends its update to the log: if the page had its committed      *)
(* image whenever that could be trusted, the update follows on its history.  *)
LEMMA UpdateBefore ==
  ASSUME NEW v, LogOK(v), NEW u, u.type = "UPDATE", u.page \in Resource, u.before \in Image, u.after \in Image,
         NEW w, w = Append(v, u), NEW p, BeforeIn(v, p), Readable(v),
         p = u.page /\ ~UndoneIn(v, p) /\ (\A i \in UpdatesIn(v, p) : CommittedIn(v, i))
           => u.before = ImageIn(v, p)
  PROVE  BeforeIn(w, p)
<1>1. /\ Continues(v, w) /\ Len(w) = Len(v) + 1 /\ w[Len(v) + 1] = u
      /\ \A i \in 1..Len(w) : i \notin 1..Len(v) => i = Len(v) + 1 /\ w[i] = u
  BY AppendContinues
<1>2. NoneOf(v, w, {"COMMIT"})
  BY <1>1 DEF NoneOf
<1>3. \A i \in 1..Len(w) : CommittedIn(w, i) <=> i \in 1..Len(v) /\ CommittedIn(v, i)
  BY <1>1, <1>2, NothingCommitted
<1>4. /\ Len(v) \in Nat
      /\ \A i \in 1..Len(v) : i \in 1..Len(w) /\ w[i] = v[i]
      /\ UpdatesIn(v, p) \subseteq UpdatesIn(w, p)
      /\ \A i \in UpdatesIn(w, p) : i \in 1..Len(v) => i \in UpdatesIn(v, p)
  BY <1>1, ContinuesFacts
<1>5. \A i \in UpdatesIn(w, p) : i \in 1..Len(w) /\ w[i].page = p
  BY DEF UpdatesIn
<1>6. \A i \in UpdatesIn(v, p) : i \in 1..Len(v)
  BY DEF UpdatesIn
<1>7. SUFFICES ASSUME ~UndoneIn(w, p), NEW i \in UpdatesIn(w, p), ~CommittedIn(w, i),
                      \A j \in UpdatesIn(w, p) : j < i => CommittedIn(w, j)
               PROVE  FollowsOn(w, p, i)
  BY DEF BeforeIn
<1>7a. ~UndoneIn(v, p)
  BY <1>1, <1>7, ContinuesFacts
<1>8. CASE i \in 1..Len(v)
  <2>1. i \in UpdatesIn(v, p) /\ ~CommittedIn(v, i)
    BY <1>3, <1>4, <1>5, <1>7, <1>8
  <2>2. \A j \in UpdatesIn(v, p) : j < i => CommittedIn(v, j)
    BY <1>3, <1>4, <1>5, <1>7
  <2>3. FollowsOn(v, p, i)
    BY <1>7a, <2>1, <2>2 DEF BeforeIn
  <2> QED
    BY <1>1, <2>1, <2>3, FollowsOnSame
<1>9. CASE i \notin 1..Len(v)
  <2>1. i = Len(v) + 1 /\ w[i] = u /\ p = u.page
    BY <1>1, <1>5, <1>9
  <2>2. \A j \in UpdatesIn(v, p) : j < i
    BY <1>4, <1>6, <2>1
  <2>3. \A j \in UpdatesIn(v, p) : CommittedIn(v, j)
    BY <1>3, <1>4, <1>5, <1>7, <2>2
  <2>4. w[i].before = ImageIn(v, p)
    BY <1>7a, <2>1, <2>3
  <2>5. \A j \in UpdatesIn(w, p) : j < i => j \in UpdatesIn(v, p)
    <3> TAKE j \in UpdatesIn(w, p)
    <3> HAVE j < i
    <3>1. j # Len(v) + 1
      BY <1>4, <2>1
    <3> QED
      BY <1>1, <1>4, <1>5, <3>1
  <2>6. CASE UpdatesIn(v, p) = {}
    <3>1. w[i].before = {}
      BY <2>4, <2>6 DEF ImageIn
    <3> QED
      BY <2>5, <2>6, <3>1 DEF FollowsOn
  <2>7. CASE UpdatesIn(v, p) # {}
    <3>1. PICK m \in UpdatesIn(v, p) : /\ \A j \in UpdatesIn(v, p) : CommittedIn(v, j) => j <= m
                                       /\ ImageIn(v, p) = v[m].after
      BY <2>3, <2>7, ImageIs
    <3>2. m \in UpdatesIn(w, p) /\ m < i /\ w[m] = v[m]
      BY <1>4, <1>6, <2>2
    <3>3. \A k \in UpdatesIn(w, p) : k < i => k <= m
      BY <2>3, <2>5, <3>1
    <3> QED
      BY <2>4, <3>1, <3>2, <3>3 DEF FollowsOn
  <2> QED
    BY <2>6, <2>7
<1> QED
  BY <1>8, <1>9

(* The updates of the transaction that has identifier t now.                 *)
ThisRun(w, t) ==
  {i \in 1..Len(w) : /\ w[i].type = "UPDATE" /\ w[i].tx = t
                     /\ \A b \in i..Len(w) : w[b] # [type |-> "BEGIN", tx |-> t]}

(* They are of the pages it can undo, its COMMIT is not yet written, and no  *)
(* other transaction has changed these pages since.                          *)
RunIn(w, t, P) ==
  \A i \in ThisRun(w, t) :
    /\ w[i].page \in P
    /\ \A c \in i..Len(w) : w[c] # [type |-> "COMMIT", tx |-> t]
    /\ \A j \in UpdatesIn(w, w[i].page) : j > i => w[j].tx = t

(* The image is of the last update of the page, and that one is among them.  *)
LastOfRun(w, t, p, image) ==
  \E i \in ThisRun(w, t) :
    w[i].page = p /\ (\A j \in UpdatesIn(w, p) : j <= i) /\ image = w[i].after

(* What one more record adds to a run.                                       *)
LEMMA RunAppend ==
  ASSUME NEW v, LogOK(v), NEW r, NEW w, w = Append(v, r),
         r.type = "UPDATE" => r.page \in Resource /\ r.before \in Image /\ r.after \in Image,
         NEW t, r # [type |-> "BEGIN", tx |-> t]
  PROVE  /\ ThisRun(v, t) \subseteq ThisRun(w, t)
         /\ \A i \in ThisRun(w, t) :
              i \in ThisRun(v, t) \/ (i = Len(v) + 1 /\ r.type = "UPDATE" /\ r.tx = t)
         /\ r.type = "UPDATE" /\ r.tx = t => Len(v) + 1 \in ThisRun(w, t)
<1>1. /\ Continues(v, w) /\ Len(w) = Len(v) + 1 /\ w[Len(v) + 1] = r
      /\ \A i \in 1..Len(w) : i \notin 1..Len(v) => i = Len(v) + 1 /\ w[i] = r
  BY AppendContinues
<1>2. Len(v) \in Nat /\ \A i \in 1..Len(v) : i \in 1..Len(w) /\ w[i] = v[i]
  BY <1>1, ContinuesFacts
<1>3. ASSUME NEW i \in ThisRun(v, t)
      PROVE  i \in ThisRun(w, t)
  <2>1. i \in 1..Len(v) /\ v[i].type = "UPDATE" /\ v[i].tx = t
        /\ \A b \in i..Len(v) : v[b] # [type |-> "BEGIN", tx |-> t]
    BY DEF ThisRun
  <2>2. \A b \in i..Len(w) : b = Len(v) + 1 \/ (b \in i..Len(v) /\ b \in 1..Len(v))
    BY <1>1, <1>2, <2>1
  <2>3. \A b \in i..Len(w) : w[b] # [type |-> "BEGIN", tx |-> t]
    BY <1>1, <1>2, <2>1, <2>2
  <2> QED
    BY <1>2, <2>1, <2>3 DEF ThisRun
<1>4. ASSUME NEW i \in ThisRun(w, t)
      PROVE  i \in ThisRun(v, t) \/ (i = Len(v) + 1 /\ r.type = "UPDATE" /\ r.tx = t)
  <2>1. i \in 1..Len(w) /\ w[i].type = "UPDATE" /\ w[i].tx = t
        /\ \A b \in i..Len(w) : w[b] # [type |-> "BEGIN", tx |-> t]
    BY DEF ThisRun
  <2>2. CASE i \in 1..Len(v)
    <3>1. \A b \in i..Len(v) : b \in i..Len(w) /\ b \in 1..Len(v)
      BY <1>1, <1>2, <2>2
    <3>2. \A b \in i..Len(v) : v[b] # [type |-> "BEGIN", tx |-> t]
      BY <1>2, <2>1, <3>1
    <3> QED
      BY <1>2, <2>1, <2>2, <3>2 DEF ThisRun
  <2>3. CASE i \notin 1..Len(v)
    BY <1>1, <2>1, <2>3
  <2> QED
    BY <2>2, <2>3
<1>5. ASSUME r.type = "UPDATE", r.tx = t
      PROVE  Len(v) + 1 \in ThisRun(w, t)
  <2>1. Len(v) + 1 \in 1..Len(w) /\ \A b \in (Len(v) + 1)..Len(w) : b = Len(v) + 1
    BY <1>1, <1>2
  <2> QED
    BY <1>1, <1>5, <2>1 DEF ThisRun
<1> QED
  BY <1>3, <1>4, <1>5

BeginOf(t) == [type |-> "BEGIN", tx |-> t]

(* A BEGIN record starts a run that has no update yet.                       *)
LEMMA RunBegins ==
  ASSUME NEW v, LogOK(v), NEW t, NEW r, r = BeginOf(t), NEW w, w = Append(v, r)
  PROVE  ThisRun(w, t) = {}
<1>1. r = [type |-> "BEGIN", tx |-> t]
  BY DEF BeginOf
<1>2. r.type # "UPDATE" /\ w = Append(v, r)
  BY <1>1
<1>3. Continues(v, w) /\ Len(w) = Len(v) + 1 /\ w[Len(v) + 1] = r
  BY <1>2, AppendContinues
<1>4. Len(v) \in Nat
  BY <1>3, ContinuesFacts
<1>5. \A i \in 1..Len(w) : Len(v) + 1 \in i..Len(w)
  BY <1>3, <1>4
<1> QED
  BY <1>1, <1>3, <1>5 DEF ThisRun

(* Records of other transactions, and of other types, leave a run as it was. *)
LEMMA RunKept ==
  ASSUME NEW v, LogOK(v), NEW r, NEW w, w = Append(v, r), NEW t, NEW P, RunIn(v, t, P),
         r.type = "UPDATE" => /\ r.page \in Resource /\ r.before \in Image /\ r.after \in Image
                              /\ r.tx # t /\ r.page \notin P,
         r # [type |-> "BEGIN", tx |-> t], r # [type |-> "COMMIT", tx |-> t]
  PROVE  /\ RunIn(w, t, P)
         /\ \A p \in P : \A image : LastOfRun(v, t, p, image) => LastOfRun(w, t, p, image)
<1>1. /\ Continues(v, w) /\ Len(w) = Len(v) + 1 /\ w[Len(v) + 1] = r
      /\ \A i \in 1..Len(w) : i \notin 1..Len(v) => i = Len(v) + 1 /\ w[i] = r
  BY AppendContinues
<1>2. /\ Len(v) \in Nat /\ \A i \in 1..Len(v) : i \in 1..Len(w) /\ w[i] = v[i]
      /\ \A p : UpdatesIn(v, p) \subseteq UpdatesIn(w, p)
      /\ \A p : \A i \in UpdatesIn(w, p) : i \in 1..Len(v) => i \in UpdatesIn(v, p)
  BY <1>1, ContinuesFacts
<1>3. ThisRun(w, t) = ThisRun(v, t)
  <2>1. r.type = "UPDATE" => r.page \in Resource /\ r.before \in Image /\ r.after \in Image
    OBVIOUS
  <2>2. ~(r.type = "UPDATE" /\ r.tx = t)
    OBVIOUS
  <2>3. /\ ThisRun(v, t) \subseteq ThisRun(w, t)
        /\ \A i \in ThisRun(w, t) :
             i \in ThisRun(v, t) \/ (i = Len(v) + 1 /\ r.type = "UPDATE" /\ r.tx = t)
    BY <2>1, RunAppend
  <2> QED
    BY <2>2, <2>3
<1>4. \A i \in ThisRun(v, t) : i \in 1..Len(v) /\ w[i] = v[i]
  BY <1>2 DEF ThisRun
<1>5. \A p \in P : UpdatesIn(w, p) = UpdatesIn(v, p)
  <2> TAKE p \in P
  <2>1. \A i \in UpdatesIn(w, p) : i \in 1..Len(w) /\ w[i].type = "UPDATE" /\ w[i].page = p
    BY DEF UpdatesIn
  <2>2. \A i \in UpdatesIn(w, p) : i \in 1..Len(v)
    BY <1>1, <2>1
  <2>3. UpdatesIn(v, p) \subseteq UpdatesIn(w, p)
    BY <1>2
  <2>4. \A i \in UpdatesIn(w, p) : i \in UpdatesIn(v, p)
    BY <1>2, <2>2
  <2> QED
    BY <2>3, <2>4
<1>6. \A p : \A j \in UpdatesIn(v, p) : w[j] = v[j]
  BY <1>2 DEF UpdatesIn
<1>7. ASSUME NEW i \in ThisRun(w, t)
      PROVE  /\ w[i].page \in P
             /\ \A c \in i..Len(w) : w[c] # [type |-> "COMMIT", tx |-> t]
             /\ \A j \in UpdatesIn(w, w[i].page) : j > i => w[j].tx = t
  <2>1. i \in ThisRun(v, t) /\ w[i] = v[i] /\ i \in 1..Len(v)
    BY <1>3, <1>4
  <2>2. /\ v[i].page \in P
        /\ \A c \in i..Len(v) : v[c] # [type |-> "COMMIT", tx |-> t]
        /\ \A j \in UpdatesIn(v, v[i].page) : j > i => v[j].tx = t
    BY <2>1 DEF RunIn
  <2>3. \A c \in i..Len(w) : c = Len(v) + 1 \/ (c \in i..Len(v) /\ c \in 1..Len(v))
    BY <1>1, <1>2, <2>1
  <2>4. \A c \in i..Len(w) : w[c] # [type |-> "COMMIT", tx |-> t]
    BY <1>1, <1>2, <2>2, <2>3
  <2>5. \A j \in UpdatesIn(w, w[i].page) : j > i => w[j].tx = t
    BY <1>5, <1>6, <2>1, <2>2
  <2> QED
    BY <2>1, <2>2, <2>4, <2>5
<1>8. ASSUME NEW p \in P, NEW image, LastOfRun(v, t, p, image)
      PROVE  LastOfRun(w, t, p, image)
  BY <1>3, <1>4, <1>5, <1>8 DEF LastOfRun
<1> QED
  BY <1>7, <1>8 DEF RunIn

(* A write of its own joins the run.                                         *)
LEMMA RunGrows ==
  ASSUME NEW v, LogOK(v), NEW u, NEW w, w = Append(v, u), NEW t, NEW P, RunIn(v, t, P),
         u.type = "UPDATE", u.page \in Resource, u.before \in Image, u.after \in Image, u.tx = t
  PROVE  /\ RunIn(w, t, P \cup {u.page})
         /\ LastOfRun(w, t, u.page, u.after)
         /\ \A p, image : p # u.page /\ LastOfRun(v, t, p, image) => LastOfRun(w, t, p, image)
<1>0. u # [type |-> "BEGIN", tx |-> t] /\ u # [type |-> "COMMIT", tx |-> t]
  <2>1. [type |-> "BEGIN", tx |-> t].type = "BEGIN" /\ [type |-> "COMMIT", tx |-> t].type = "COMMIT"
    OBVIOUS
  <2> QED
    BY <2>1
<1>1. /\ Continues(v, w) /\ Len(w) = Len(v) + 1 /\ w[Len(v) + 1] = u
      /\ \A i \in 1..Len(w) : i \notin 1..Len(v) => i = Len(v) + 1 /\ w[i] = u
  BY AppendContinues
<1>2. /\ Len(v) \in Nat /\ \A i \in 1..Len(v) : i \in 1..Len(w) /\ w[i] = v[i]
      /\ \A p : UpdatesIn(v, p) \subseteq UpdatesIn(w, p)
      /\ \A p : \A i \in UpdatesIn(w, p) : i \in 1..Len(v) => i \in UpdatesIn(v, p)
  BY <1>1, ContinuesFacts
<1> DEFINE n == Len(v) + 1
<1>3. /\ ThisRun(v, t) \subseteq ThisRun(w, t) /\ n \in ThisRun(w, t)
      /\ \A i \in ThisRun(w, t) : i \in ThisRun(v, t) \/ i = n
  BY <1>0, RunAppend
<1>4. \A i \in ThisRun(v, t) : i \in 1..Len(v) /\ w[i] = v[i]
  BY <1>2 DEF ThisRun
<1>5. \A p : \A i \in UpdatesIn(w, p) :
        i \in Int /\ ((i \in UpdatesIn(v, p) /\ i < n /\ w[i] = v[i]) \/ (i = n /\ p = u.page))
  <2> TAKE p
  <2> TAKE i \in UpdatesIn(w, p)
  <2>1. i \in 1..Len(w) /\ w[i].page = p
    BY DEF UpdatesIn
  <2>2. CASE i \in 1..Len(v)
    <3>1. i \in UpdatesIn(v, p) /\ w[i] = v[i]
      BY <1>2, <2>2
    <3>2. i \in Int /\ i < n
      BY <1>2, <2>2
    <3> QED
      BY <3>1, <3>2
  <2>3. CASE i \notin 1..Len(v)
    BY <1>1, <2>1, <2>3
  <2> QED
    BY <2>2, <2>3
<1>6. ASSUME NEW i \in ThisRun(w, t)
      PROVE  /\ w[i].page \in P \cup {u.page}
             /\ \A c \in i..Len(w) : w[c] # [type |-> "COMMIT", tx |-> t]
             /\ \A j \in UpdatesIn(w, w[i].page) : j > i => w[j].tx = t
  <2>1. CASE i \in ThisRun(v, t)
    <3>1. i \in 1..Len(v) /\ w[i] = v[i]
      BY <1>4, <2>1
    <3>2. /\ v[i].page \in P
          /\ \A c \in i..Len(v) : v[c] # [type |-> "COMMIT", tx |-> t]
          /\ \A j \in UpdatesIn(v, v[i].page) : j > i => v[j].tx = t
      BY <2>1 DEF RunIn
    <3>3. \A c \in i..Len(w) : c = n \/ (c \in i..Len(v) /\ c \in 1..Len(v))
      BY <1>1, <1>2, <3>1
    <3>4. \A c \in i..Len(w) : w[c] # [type |-> "COMMIT", tx |-> t]
      BY <1>0, <1>1, <1>2, <3>2, <3>3
    <3>5. \A j \in UpdatesIn(w, w[i].page) : j > i => w[j].tx = t
      BY <1>1, <1>5, <3>1, <3>2
    <3> QED
      BY <3>1, <3>2, <3>4, <3>5
  <2>2. CASE i = n
    <3>1. \A c \in i..Len(w) : c = n
      BY <1>1, <1>2, <2>2
    <3>2. \A j \in UpdatesIn(w, w[i].page) : ~(j > i)
      <4> TAKE j \in UpdatesIn(w, w[i].page)
      <4>1. j \in Int /\ (j < n \/ j = n)
        BY <1>5
      <4> QED
        BY <1>2, <2>2, <4>1
    <3>3. w[i] = u
      BY <1>1, <2>2
    <3> QED
      BY <1>0, <1>1, <3>1, <3>2, <3>3
  <2> QED
    BY <1>3, <2>1, <2>2
<1>7. LastOfRun(w, t, u.page, u.after)
  <2>1. \A j \in UpdatesIn(w, u.page) : j <= n
    <3> TAKE j \in UpdatesIn(w, u.page)
    <3>1. j \in Int /\ (j < n \/ j = n)
      BY <1>5
    <3> QED
      BY <1>2, <3>1
  <2>2. w[n] = u
    BY <1>1
  <2> HIDE DEF n
  <2> QED
    BY <1>3, <2>1, <2>2 DEF LastOfRun
<1>8. ASSUME NEW p, NEW image, p # u.page, LastOfRun(v, t, p, image)
      PROVE  LastOfRun(w, t, p, image)
  <2>1. PICK i \in ThisRun(v, t) :
          v[i].page = p /\ (\A j \in UpdatesIn(v, p) : j <= i) /\ image = v[i].after
    BY <1>8 DEF LastOfRun
  <2>2. \A j \in UpdatesIn(w, p) : j <= i
    BY <1>5, <1>8, <2>1
  <2> QED
    BY <1>3, <1>4, <2>1, <2>2 DEF LastOfRun
<1> QED
  BY <1>6, <1>7, <1>8 DEF RunIn

(* A COMMIT record commits this run's updates and no others.                 *)
LEMMA CommitsRun ==
  ASSUME NEW v, LogOK(v), NEW t, NEW r, r = CommitOf(t), NEW w, w = Append(v, r), NEW p
  PROVE  /\ Continues(v, w)
         /\ \A i : i \in UpdatesIn(w, p) <=> i \in UpdatesIn(v, p)
         /\ BornIn(v) => BornIn(w)
         /\ \A i \in UpdatesIn(v, p) :
              /\ i \in 1..Len(v) /\ i \in 1..Len(w) /\ w[i] = v[i]
              /\ CommittedIn(w, i) <=> CommittedIn(v, i) \/ i \in ThisRun(v, t)
<1>1. r = [type |-> "COMMIT", tx |-> t]
  BY DEF CommitOf
<1>2. r.type = "COMMIT" /\ r.tx = t /\ w = Append(v, r)
  BY <1>1
<1>3. /\ Continues(v, w) /\ Len(w) = Len(v) + 1 /\ w[Len(v) + 1] = r
      /\ \A i \in 1..Len(w) : i \notin 1..Len(v) => i = Len(v) + 1 /\ w[i] = r
  <2>1. r.type # "UPDATE"
    BY <1>2
  <2> QED
    BY <2>1, AppendContinues
<1>4. /\ Len(v) \in Nat /\ \A i \in 1..Len(v) : i \in 1..Len(w) /\ w[i] = v[i]
      /\ UpdatesIn(v, p) \subseteq UpdatesIn(w, p)
      /\ \A i \in UpdatesIn(w, p) : i \in 1..Len(v) => i \in UpdatesIn(v, p)
      /\ \A i \in 1..Len(v) : CommittedIn(v, i) => CommittedIn(w, i)
  BY <1>3, ContinuesFacts
<1>5. UpdatesIn(w, p) = UpdatesIn(v, p)
  <2>1. \A i \in UpdatesIn(w, p) : i \in 1..Len(w) /\ w[i].type = "UPDATE"
    BY DEF UpdatesIn
  <2>2. \A i \in UpdatesIn(w, p) : i \in 1..Len(v)
    BY <1>2, <1>3, <2>1
  <2>3. UpdatesIn(v, p) \subseteq UpdatesIn(w, p)
    BY <1>4
  <2>4. \A i \in UpdatesIn(w, p) : i \in UpdatesIn(v, p)
    BY <1>4, <2>2
  <2> QED
    BY <2>3, <2>4
<1>6. ASSUME NEW i \in UpdatesIn(v, p)
      PROVE  /\ i \in 1..Len(v) /\ i \in 1..Len(w) /\ w[i] = v[i]
             /\ CommittedIn(w, i) <=> CommittedIn(v, i) \/ i \in ThisRun(v, t)
  <2>1. i \in 1..Len(v) /\ v[i].type = "UPDATE"
    BY DEF UpdatesIn
  <2>2. i \in 1..Len(w) /\ w[i] = v[i]
    BY <1>4, <2>1
  <2>3. ASSUME i \in ThisRun(v, t)
        PROVE  CommittedIn(w, i)
    <3>1. v[i].tx = t /\ \A b \in i..Len(v) : v[b] # [type |-> "BEGIN", tx |-> t]
      BY <2>3 DEF ThisRun
    <3>2. Len(v) + 1 \in (i+1)..Len(w)
      BY <1>3, <1>4, <2>1
    <3>3. \A b \in i..(Len(v) + 1) : b = Len(v) + 1 \/ (b \in i..Len(v) /\ b \in 1..Len(v))
      BY <1>4, <2>1
    <3>4. r # [type |-> "BEGIN", tx |-> t]
      BY <1>1
    <3>5. \A b \in i..(Len(v) + 1) : w[b] # [type |-> "BEGIN", tx |-> t]
      BY <1>3, <1>4, <3>1, <3>3, <3>4
    <3>6. w[Len(v) + 1] = [type |-> "COMMIT", tx |-> t]
      BY <1>1, <1>3
    <3> QED
      BY <2>2, <3>1, <3>2, <3>5, <3>6 DEF CommittedIn, FollowedIn
  <2>4. ASSUME CommittedIn(w, i), i \notin ThisRun(v, t)
        PROVE  CommittedIn(v, i)
    <3>1. PICK c \in (i+1)..Len(w) : /\ w[c] = [type |-> "COMMIT", tx |-> w[i].tx]
                                     /\ \A b \in i..c : w[b] # [type |-> "BEGIN", tx |-> w[i].tx]
      BY <2>4 DEF CommittedIn, FollowedIn
    <3>2. CASE c \in 1..Len(v)
      <4>1. c \in (i+1)..Len(v) /\ \A b \in i..c : b \in 1..Len(v)
        BY <1>4, <2>1, <3>1, <3>2
      <4>2. v[c] = w[c] /\ \A b \in i..c : w[b] = v[b]
        BY <1>4, <3>2, <4>1
      <4> QED
        BY <2>2, <3>1, <4>1, <4>2 DEF CommittedIn, FollowedIn
    <3>3. CASE c \notin 1..Len(v)
      <4>1. c \in 1..Len(w)
        BY <1>3, <1>4, <2>1, <3>1
      <4>2. c = Len(v) + 1 /\ w[c] = r
        BY <1>3, <3>3, <4>1
      <4>3. v[i].tx = t
        <5>1. \A x : [type |-> "COMMIT", tx |-> x].tx = x
          OBVIOUS
        <5>2. w[c].tx = w[i].tx
          BY <3>1, <5>1
        <5> QED
          BY <1>2, <2>2, <4>2, <5>2
      <4>4. \A b \in i..Len(v) : b \in i..c /\ b \in 1..Len(v)
        BY <1>4, <2>1, <4>2
      <4>5. \A b \in i..Len(v) : v[b] # [type |-> "BEGIN", tx |-> t]
        BY <1>4, <2>2, <3>1, <4>3, <4>4
      <4> QED
        BY <2>1, <2>4, <4>3, <4>5 DEF ThisRun
    <3> QED
      BY <3>2, <3>3
  <2>5. CommittedIn(v, i) => CommittedIn(w, i)
    BY <1>4, <2>1
  <2> QED
    BY <2>1, <2>2, <2>3, <2>4, <2>5
<1>7. ASSUME BornIn(v)
      PROVE  BornIn(w)
  <2> SUFFICES ASSUME NEW i \in 1..Len(w), w[i].type = "UPDATE"
               PROVE  Began(w, w[i].tx)
    BY DEF BornIn
  <2>1. i \in 1..Len(v) /\ w[i] = v[i]
    BY <1>2, <1>3, <1>4
  <2>2. Began(v, v[i].tx)
    BY <1>7, <2>1 DEF BornIn
  <2> QED
    BY <1>3, <2>1, <2>2, BeganStays
<1> QED
  BY <1>3, <1>5, <1>6, <1>7

(* What the commit of a run does to the history of a page: an update it      *)
(* leaves uncommitted has no newly committed update in front of it, a page   *)
(* outside the run keeps its image, and one of the run gets its last update. *)
HistoryCommits(v, w, t, P, p) ==
  /\ BeforeIn(v, p) => BeforeIn(w, p)
  /\ p \notin P => ImageIn(w, p) = ImageIn(v, p) /\ (TrustedIn(w, p) => TrustedIn(v, p))
  /\ \A image : LastOfRun(v, t, p, image) => ImageIn(w, p) = image

(* An appended COMMIT record does so to every page.                          *)
LEMMA CommitHistory ==
  ASSUME NEW v, LogOK(v), NEW t, NEW r, r = CommitOf(t), NEW w, w = Append(v, r),
         NEW P, RunIn(v, t, P), NEW p
  PROVE  HistoryCommits(v, w, t, P, p)
<1> DEFINE U == UpdatesIn(v, p)
           R == ThisRun(v, t)
<1>1. /\ Continues(v, w) /\ UpdatesIn(w, p) = U
      /\ \A i \in U : /\ i \in 1..Len(v) /\ w[i] = v[i]
                      /\ CommittedIn(w, i) <=> CommittedIn(v, i) \/ i \in R
  <2>1. Continues(v, w)
    BY CommitsRun
  <2>2. UpdatesIn(w, p) = UpdatesIn(v, p)
    <3>1. \A i : i \in UpdatesIn(w, p) <=> i \in UpdatesIn(v, p)
      BY CommitsRun
    <3> QED
      BY <3>1
  <2>3. \A i \in UpdatesIn(v, p) : i \in 1..Len(v) /\ w[i] = v[i]
    BY CommitsRun
  <2>4. \A i \in UpdatesIn(v, p) : CommittedIn(w, i) <=> CommittedIn(v, i) \/ i \in ThisRun(v, t)
    BY CommitsRun
  <2> QED
    BY <2>1, <2>2, <2>3, <2>4
<1>2. \A i \in U : i \in Int /\ v[i].type = "UPDATE" /\ v[i].page = p
  BY DEF UpdatesIn
<1>3. \A i \in R : /\ v[i].page \in P
                   /\ \A j \in UpdatesIn(v, v[i].page) : j > i => v[j].tx = t
  BY DEF RunIn
<1>4. LogOK(w) /\ LogOK(v)
  BY <1>1 DEF Continues
<1>5. ASSUME BeforeIn(v, p)
      PROVE  BeforeIn(w, p)
  <2> SUFFICES ASSUME ~UndoneIn(w, p),
                      NEW i \in U, ~CommittedIn(w, i), \A j \in U : j < i => CommittedIn(w, j)
               PROVE  FollowsOn(w, p, i)
    BY <1>1 DEF BeforeIn
  <2>0. ~UndoneIn(v, p)
    BY <1>1, ContinuesFacts
  <2>1. ~CommittedIn(v, i) /\ i \notin R
    BY <1>1
  <2>2. \A j \in U : j < i => CommittedIn(v, j)
    <3> SUFFICES ASSUME NEW j \in U, j < i, j \in R
                 PROVE  FALSE
      BY <1>1
    <3>1. v[i].tx = t
      BY <1>2, <1>3
    <3>2. \A b \in j..Len(v) : v[b] # [type |-> "BEGIN", tx |-> t]
      BY DEF ThisRun
    <3>3. \A b \in i..Len(v) : b \in j..Len(v)
      <4>1. Len(v) \in Nat
        BY <1>1, ContinuesFacts
      <4> QED
        BY <1>2, <4>1
    <3>4. i \in R
      BY <1>1, <1>2, <3>1, <3>2, <3>3 DEF ThisRun
    <3> QED
      BY <2>1, <3>4
  <2>3. FollowsOn(v, p, i)
    BY <1>5, <2>0, <2>1, <2>2 DEF BeforeIn
  <2> QED
    BY <1>1, <2>3, FollowsOnSame
<1>6. ASSUME p \notin P
      PROVE  ImageIn(w, p) = ImageIn(v, p) /\ (TrustedIn(w, p) => TrustedIn(v, p))
  <2>1. \A i \in U : CommittedIn(w, i) <=> CommittedIn(v, i)
    BY <1>1, <1>2, <1>3, <1>6
  <2>2. ImageIn(w, p) = ImageIn(v, p)
    <3>1. {i \in UpdatesIn(w, p) : CommittedIn(w, i)} = {i \in UpdatesIn(v, p) : CommittedIn(v, i)}
      BY <1>1, <2>1
    <3>2. \A i \in UpdatesIn(v, p) : w[i] = v[i]
      BY <1>1
    <3> QED
      BY <1>4, <3>1, <3>2, ImageSame
  <2>3. winners(v) \subseteq winners(w) /\ losers(v) \subseteq losers(w) \cup winners(w)
    <3>1. TxOf(v, "COMMIT") \subseteq TxOf(w, "COMMIT") /\ TxOf(v, "BEGIN") \subseteq TxOf(w, "BEGIN")
      BY <1>1, ContinuesFacts
    <3> QED
      BY <3>1 DEF winners, losers
  <2>4. ASSUME TrustedIn(w, p)
        PROVE  TrustedIn(v, p)
    <3>1. ~ \E i \in U : v[i].tx \in winners(v) /\ ~CommittedIn(v, i)
      BY <1>1, <2>1, <2>3, <2>4 DEF TrustedIn
    <3>2. \A i \in U : v[i].tx \in losers(v) => v[i].tx \in losers(w)
      <4> TAKE i \in U
      <4> HAVE v[i].tx \in losers(v)
      <4>1. ~CommittedIn(v, i)
        BY <1>1, <1>4, CommittedWins DEF losers
      <4>2. w[i].tx \notin winners(w)
        BY <1>1, <2>1, <2>4, <4>1 DEF TrustedIn
      <4> QED
        BY <1>1, <2>3, <4>2
    <3>3. ~ \E i, j \in U : i < j /\ v[i].tx \in losers(v) /\ v[j].tx \in winners(v)
      BY <1>1, <2>3, <2>4, <3>2 DEF TrustedIn
    <3>4. Readable(v) /\ ~UndoneIn(v, p)
      BY <1>1, <2>4, ContinuesFacts DEF TrustedIn
    <3> QED
      BY <3>1, <3>3, <3>4 DEF TrustedIn
  <2> QED
    BY <2>2, <2>4
<1>7. ASSUME NEW image, LastOfRun(v, t, p, image)
      PROVE  ImageIn(w, p) = image
  <2>1. PICK i \in R : v[i].page = p /\ (\A j \in U : j <= i) /\ image = v[i].after
    BY <1>7 DEF LastOfRun
  <2>2. i \in U
    BY <2>1 DEF ThisRun, UpdatesIn
  <2>3. CommittedIn(w, i)
    BY <1>1, <2>1, <2>2
  <2>4. PICK m \in U : /\ \A j \in U : CommittedIn(w, j) => j <= m
                       /\ ImageIn(w, p) = w[m].after
    BY <1>1, <1>4, <2>2, <2>3, ImageIs
  <2>5. m <= i /\ i <= m
    BY <2>1, <2>2, <2>3, <2>4
  <2>6. m = i
    BY <1>2, <2>2, <2>4, <2>5
  <2> QED
    BY <1>1, <2>1, <2>2, <2>4, <2>6
<1> QED
  BY <1>5, <1>6, <1>7 DEF HistoryCommits

-----------------------------------------------------------------------------
(* What a step may leave in the data file: what was there, or what was in    *)
(* the pool.                                                                 *)
LEMMA FlushedFrom ==
  ASSUME PoolTypeOK, NEW P, NEW p \in Resource
  PROVE  Flushed(P)[p] \in {disk[p], Contents(p)}
<1>1. p \in DOMAIN disk
  BY DEF PoolTypeOK
<1>2. Flushed(P)[p] = IF p \in P /\ isDirty(p) THEN FrameOf(p).image ELSE disk[p]
  BY <1>1 DEF Flushed
<1>3. isDirty(p) => Contents(p) = FrameOf(p).image
  BY DEF isDirty, Contents
<1> QED
  BY <1>2, <1>3

(* So with the eviction of a fetch,                                          *)
LEMMA FetchedFrom ==
  ASSUME PoolTypeOK, GoodPool(pool, disk), NEW q \in Resource, NEW p \in Resource
  PROVE  DiskAfterFetch(q)[p] \in {disk[p], Contents(p)}
<1>1. p \in DOMAIN disk
  BY DEF PoolTypeOK
<1>2. CASE Evicts(q) /\ Head(pool).dirty
  <2>1. Len(pool) \in Nat /\ Len(pool) >= 1
    BY <1>2, FramesAssumption DEF Evicts, PoolTypeOK
  <2>2. 1 \in 1..Len(pool)
    BY <2>1
  <2>3. pool # << >> /\ Head(pool) = pool[1]
    BY <2>1 DEF PoolTypeOK
  <2>4. Contents(pool[1].page) = pool[1].image
    BY <2>2, FrameIs
  <2>5. DiskAfterFetch(q) = [disk EXCEPT ![pool[1].page] = pool[1].image]
    BY <1>2, <2>3 DEF DiskAfterFetch
  <2>6. CASE p = pool[1].page
    BY <1>1, <2>4, <2>5, <2>6
  <2>7. CASE p # pool[1].page
    BY <1>1, <2>5, <2>7
  <2> QED
    BY <2>6, <2>7
<1>3. CASE ~(Evicts(q) /\ Head(pool).dirty)
  BY <1>3 DEF DiskAfterFetch
<1> QED
  BY <1>2, <1>3

(* and with the page writes of an abort, outside the pages of its run.       *)
LEMMA RestoredFrom ==
  ASSUME MemoryTypeOK, NEW t \in Tx, NEW n \in 0..Len(undoLog[t]),
         NEW p \in Resource, p \notin modifiedPages(t), NEW file, p \in DOMAIN file
  PROVE  /\ Written(file, SubSeq(Restores(t), 1, n))[p] = file[p]
         /\ Written(file, Restores(t))[p] = file[p]
<1> DEFINE s == undoLog[t]
           w == Restores(t)
           r == Reverse(s)
<1>1. s \in Seq(UndoRecord) /\ Len(s) \in Nat
  BY DEF MemoryTypeOK
<1>2. w \in Seq(PageWrite) /\ Len(w) = Len(s)
  BY RestoresType DEF MemoryTypeOK
<1>3. \A k \in 1..Len(w) : w[k].page # p
  <2>1. w = [k \in 1..Len(r) |-> [page |-> r[k].page, image |-> r[k].before]]
    BY DEF Restores
  <2>2. r = [k \in 1..Len(s) |-> s[(Len(s) - k) + 1]] /\ Len(r) = Len(s)
    BY <1>1 DEF Reverse
  <2>3. \A k \in 1..Len(s) : s[k].page # p
    BY DEF modifiedPages, Touched
  <2>4. \A k \in 1..Len(s) : (Len(s) - k) + 1 \in 1..Len(s)
    BY <1>1
  <2> HIDE DEF s, w, r
  <2> QED
    BY <1>2, <2>1, <2>2, <2>3, <2>4
<1>4. p \in DOMAIN file
  OBVIOUS
<1>5. PICK x : x = SubSeq(w, 1, n)
  OBVIOUS
<1>6. x \in Seq(PageWrite) /\ Len(x) = n /\ \A k \in 1..n : x[k] = w[k]
  <2>1. n \in 0..Len(w)
    BY <1>2
  <2> HIDE DEF w
  <2> QED
    BY <1>2, <1>5, <2>1, PrefixFacts
<1> HIDE DEF w, s, r
<1>7. n \in Nat /\ \A k \in 1..n : k \in 1..Len(w)
  BY <1>1, <1>2 DEF s
<1>8. \A k \in 1..Len(x) : x[k].page # p
  BY <1>3, <1>6, <1>7
<1>9. Written(file, x)[p] = file[p]
  BY <1>4, <1>6, <1>8, WrittenIs
<1>10. Written(file, w)[p] = file[p]
  BY <1>2, <1>3, <1>4, WrittenIs
<1> QED
  BY <1>5, <1>9, <1>10 DEF w

(* Recovery writes only pages the log has an update of,                      *)
LEMMA RecoveryPages ==
  ASSUME NEW r, LogOK(r), NEW p, UpdatesIn(r, p) = {}
  PROVE  \A k \in 1..Len(RecoveryWrites(r)) : RecoveryWrites(r)[k].page # p
<1>1. PICK s : s = UpdatesOf(r, winners(r))
  OBVIOUS
<1>2. PICK u : u = UpdatesOf(r, losers(r))
  OBVIOUS
<1> DEFINE w == RecoveryWrites(r)
<1>3. /\ w \in Seq(PageWrite) /\ Len(s) \in Nat /\ Len(u) \in Nat /\ Len(w) = Len(s) + Len(u)
      /\ \A k \in 1..Len(s) : w[k].page = s[k].page /\ w[k].image = s[k].after
      /\ \A k \in 1..Len(u) : /\ w[Len(s) + ((Len(u) - k) + 1)].page = u[k].page
                              /\ w[Len(s) + ((Len(u) - k) + 1)].image = u[k].before
  <2>1. Passes(RecoveryWrites(r), s, u)
    BY <1>1, <1>2, RecoveryOrder
  <2> QED
    BY <2>1 DEF Passes
<1> HIDE DEF w
<1>4. ASSUME NEW txs, NEW x, x = UpdatesOf(r, txs), NEW k \in 1..Len(x)
      PROVE  x[k].page # p
  <2>1. PICK at \in [1..Len(x) -> 1..Len(r)] :
          \A l \in 1..Len(x) : x[l] = r[at[l]] /\ r[at[l]].type = "UPDATE" /\ r[at[l]].tx \in txs
    <3>1. PICK at \in [1..Len(x) -> 1..Len(r)] : UpdatesAt(r, txs, x, at)
      BY <1>4, UpdatesOrder
    <3> QED
      BY <3>1 DEF UpdatesAt
  <2>2. at[k] \in 1..Len(r) /\ x[k] = r[at[k]] /\ r[at[k]].type = "UPDATE"
    BY <1>4, <2>1
  <2> QED
    BY <2>2 DEF UpdatesIn
<1>5. (\A k \in 1..Len(s) : s[k].page # p) /\ (\A k \in 1..Len(u) : u[k].page # p)
  BY <1>1, <1>2, <1>4
<1>6. ASSUME NEW k \in 1..Len(w)
      PROVE  w[k].page # p
  <2>1. CASE k \in 1..Len(s)
    BY <1>3, <1>5, <2>1
  <2>2. CASE k \notin 1..Len(s)
    <3>1. PICK l \in 1..Len(u) : k = Len(s) + ((Len(u) - l) + 1)
      <4>1. (Len(u) - (k - Len(s))) + 1 \in 1..Len(u)
            /\ k = Len(s) + ((Len(u) - ((Len(u) - (k - Len(s))) + 1)) + 1)
        BY <1>3, <2>2
      <4> QED
        BY <4>1
    <3> QED
      BY <1>3, <1>5, <3>1
  <2> QED
    BY <2>1, <2>2
<1> QED
  BY <1>6 DEF w

(* and keeps every other page, however far it gets.                          *)
LEMMA RecoveredFrom ==
  ASSUME LogOK(wal), Readable(wal), disk \in [Resource -> Image], NEW p \in Resource, UpdatesIn(wal, p) = {},
         NEW n \in 0..Len(RecoveryWrites(readAll(wal)))
  PROVE  Written(disk, SubSeq(RecoveryWrites(readAll(wal)), 1, n))[p] = disk[p]
<1>1. PICK r : r = readAll(wal)
  OBVIOUS
<1>2. LogOK(r) /\ UpdatesIn(r, p) = {}
  BY <1>1, ReadSame
<1>3. PICK w : w = RecoveryWrites(r)
  OBVIOUS
<1>4. w \in Seq(PageWrite) /\ \A k \in 1..Len(w) : w[k].page # p
  BY <1>2, <1>3, RecoveryPages, RecoveryWritesType
<1>5. PICK x : x = SubSeq(w, 1, n)
  OBVIOUS
<1>6. n \in 0..Len(w)
  BY <1>1, <1>3
<1>7. x \in Seq(PageWrite) /\ Len(x) = n /\ \A k \in 1..n : x[k] = w[k]
  BY <1>4, <1>5, <1>6, PrefixFacts
<1>8. \A k \in 1..n : k \in 1..Len(w)
  BY <1>4, <1>6
<1>9. \A k \in 1..Len(x) : x[k].page # p
  BY <1>4, <1>7, <1>8
<1>10. p \in DOMAIN disk
  OBVIOUS
<1>11. Written(disk, x)[p] = disk[p]
  BY <1>7, <1>9, <1>10, WrittenIs
<1> QED
  BY <1>1, <1>3, <1>5, <1>11

-----------------------------------------------------------------------------
(* Runs when the sweep is on, where others may write over the changes of a   *)
(* victim: it can still undo its updates, and no COMMIT follows on them,     *)
Undoable(w, t, P) ==
  \A i \in ThisRun(w, t) :
    w[i].page \in P /\ \A c \in i..Len(w) : w[c] # [type |-> "COMMIT", tx |-> t]

(* but only of one that is no victim are the later updates of a page its own. *)
AloneIn(w, t) ==
  \A i \in ThisRun(w, t) : \A j \in UpdatesIn(w, w[i].page) : j > i => w[j].tx = t

HasUpdate(w, t, p) == \E i \in ThisRun(w, t) : w[i].page = p

(* The two together are what a commit asks of a run.                         *)
LEMMA RunInIs ==
  ASSUME NEW w, NEW t, NEW P
  PROVE  RunIn(w, t, P) <=> Undoable(w, t, P) /\ AloneIn(w, t)
BY DEF RunIn, Undoable, AloneIn

KeepsRun(v, w, t) ==
  /\ ThisRun(w, t) = ThisRun(v, t)
  /\ \A P : Undoable(v, t, P) => Undoable(w, t, P)
  /\ \A p : HasUpdate(v, t, p) => HasUpdate(w, t, p)

(* Records of others, and of other types, leave a run as it was,             *)
LEMMA UndoableKept ==
  ASSUME NEW v, LogOK(v), NEW r, NEW w, w = Append(v, r), NEW t,
         r.type = "UPDATE" => /\ r.page \in Resource /\ r.before \in Image /\ r.after \in Image
                              /\ r.tx # t,
         r # [type |-> "BEGIN", tx |-> t], r # [type |-> "COMMIT", tx |-> t]
  PROVE  KeepsRun(v, w, t)
<1>0. r.type = "UPDATE" => r.page \in Resource /\ r.before \in Image /\ r.after \in Image
  OBVIOUS
<1>1. /\ Continues(v, w) /\ Len(w) = Len(v) + 1 /\ w[Len(v) + 1] = r
  BY <1>0, AppendContinues
<1>2. /\ Len(v) \in Nat /\ \A i \in 1..Len(v) : i \in 1..Len(w) /\ w[i] = v[i]
  BY <1>1, ContinuesFacts
<1>3. ThisRun(w, t) = ThisRun(v, t)
  <2>1. ~(r.type = "UPDATE" /\ r.tx = t)
    OBVIOUS
  <2>2. /\ ThisRun(v, t) \subseteq ThisRun(w, t)
        /\ \A i \in ThisRun(w, t) :
             i \in ThisRun(v, t) \/ (i = Len(v) + 1 /\ r.type = "UPDATE" /\ r.tx = t)
    BY <1>0, RunAppend
  <2> QED
    BY <2>1, <2>2
<1>4. \A i \in ThisRun(v, t) : i \in 1..Len(v) /\ w[i] = v[i]
  BY <1>2 DEF ThisRun
<1>5. ASSUME NEW P, Undoable(v, t, P)
      PROVE  Undoable(w, t, P)
  <2> SUFFICES ASSUME NEW i \in ThisRun(w, t)
               PROVE  w[i].page \in P /\ \A c \in i..Len(w) : w[c] # [type |-> "COMMIT", tx |-> t]
    BY DEF Undoable
  <2>1. i \in ThisRun(v, t) /\ w[i] = v[i] /\ i \in 1..Len(v)
    BY <1>3, <1>4
  <2>2. v[i].page \in P /\ \A c \in i..Len(v) : v[c] # [type |-> "COMMIT", tx |-> t]
    BY <1>5, <2>1 DEF Undoable
  <2>3. \A c \in i..Len(w) : c = Len(v) + 1 \/ (c \in i..Len(v) /\ c \in 1..Len(v))
    BY <1>1, <1>2, <2>1
  <2>4. \A c \in i..Len(w) : w[c] # [type |-> "COMMIT", tx |-> t]
    BY <1>1, <1>2, <2>2, <2>3
  <2> QED
    BY <2>1, <2>2, <2>4
<1>6. \A p : HasUpdate(v, t, p) => HasUpdate(w, t, p)
  BY <1>3, <1>4 DEF HasUpdate
<1> QED
  BY <1>3, <1>5, <1>6 DEF KeepsRun

(* and alone, if they are not updates of its pages.                          *)
LEMMA AloneKept ==
  ASSUME NEW v, LogOK(v), NEW r, NEW w, w = Append(v, r), NEW t,
         r.type = "UPDATE" => /\ r.page \in Resource /\ r.before \in Image /\ r.after \in Image
                              /\ r.tx # t,
         r # [type |-> "BEGIN", tx |-> t], r # [type |-> "COMMIT", tx |-> t],
         AloneIn(v, t), r.type = "UPDATE" => ~HasUpdate(v, t, r.page)
  PROVE  AloneIn(w, t)
<1>0. r.type = "UPDATE" => r.page \in Resource /\ r.before \in Image /\ r.after \in Image
  OBVIOUS
<1>1. /\ Continues(v, w)
      /\ \A i \in 1..Len(w) : i \notin 1..Len(v) => i = Len(v) + 1 /\ w[i] = r
  BY <1>0, AppendContinues
<1>2. /\ \A i \in 1..Len(v) : i \in 1..Len(w) /\ w[i] = v[i]
      /\ \A p : \A i \in UpdatesIn(w, p) : i \in 1..Len(v) => i \in UpdatesIn(v, p)
  BY <1>1, ContinuesFacts
<1>3. ThisRun(w, t) = ThisRun(v, t)
  <2>1. ~(r.type = "UPDATE" /\ r.tx = t)
    OBVIOUS
  <2>2. /\ ThisRun(v, t) \subseteq ThisRun(w, t)
        /\ \A i \in ThisRun(w, t) :
             i \in ThisRun(v, t) \/ (i = Len(v) + 1 /\ r.type = "UPDATE" /\ r.tx = t)
    BY <1>0, RunAppend
  <2> QED
    BY <2>1, <2>2
<1> SUFFICES ASSUME NEW i \in ThisRun(v, t), NEW j \in UpdatesIn(w, w[i].page), j > i
             PROVE  w[j].tx = t
  BY <1>3 DEF AloneIn
<1>4. i \in 1..Len(v) /\ w[i] = v[i]
  BY <1>2 DEF ThisRun
<1>5. j \in 1..Len(w) /\ w[j].type = "UPDATE" /\ w[j].page = v[i].page
  BY <1>4 DEF UpdatesIn
<1>6. j \in 1..Len(v)
  BY <1>1, <1>5 DEF HasUpdate
<1>7. j \in UpdatesIn(v, v[i].page) /\ w[j] = v[j]
  BY <1>2, <1>4, <1>6
<1> QED
  BY <1>7 DEF AloneIn

GrowsRun(v, w, t, P, p) ==
  /\ \A i \in ThisRun(w, t) : i \in ThisRun(v, t) \/ i = Len(v) + 1
  /\ Undoable(v, t, P) => Undoable(w, t, P \cup {p})
  /\ HasUpdate(w, t, p)
  /\ \A q : HasUpdate(v, t, q) => HasUpdate(w, t, q)
  /\ AloneIn(v, t) => AloneIn(w, t)

(* A write of its own joins the run.                                         *)
LEMMA UndoableGrows ==
  ASSUME NEW v, LogOK(v), NEW u, NEW w, w = Append(v, u), NEW t, NEW P,
         u.type = "UPDATE", u.page \in Resource, u.before \in Image, u.after \in Image, u.tx = t
  PROVE  GrowsRun(v, w, t, P, u.page)
<1>0. u # [type |-> "BEGIN", tx |-> t] /\ u # [type |-> "COMMIT", tx |-> t]
  <2>1. [type |-> "BEGIN", tx |-> t].type = "BEGIN" /\ [type |-> "COMMIT", tx |-> t].type = "COMMIT"
    OBVIOUS
  <2> QED
    BY <2>1
<1>1. /\ Continues(v, w) /\ Len(w) = Len(v) + 1 /\ w[Len(v) + 1] = u
      /\ \A i \in 1..Len(w) : i \notin 1..Len(v) => i = Len(v) + 1 /\ w[i] = u
  BY AppendContinues
<1>2. /\ Len(v) \in Nat /\ \A i \in 1..Len(v) : i \in 1..Len(w) /\ w[i] = v[i]
      /\ \A p : \A i \in UpdatesIn(w, p) : i \in 1..Len(v) => i \in UpdatesIn(v, p)
  BY <1>1, ContinuesFacts
<1> DEFINE n == Len(v) + 1
<1>3. /\ ThisRun(v, t) \subseteq ThisRun(w, t) /\ n \in ThisRun(w, t)
      /\ \A i \in ThisRun(w, t) : i \in ThisRun(v, t) \/ i = n
  BY <1>0, RunAppend
<1>4. \A i \in ThisRun(v, t) : i \in 1..Len(v) /\ w[i] = v[i]
  BY <1>2 DEF ThisRun
<1>5. ASSUME Undoable(v, t, P)
      PROVE  Undoable(w, t, P \cup {u.page})
  <2> SUFFICES ASSUME NEW i \in ThisRun(w, t)
               PROVE  w[i].page \in P \cup {u.page}
                      /\ \A c \in i..Len(w) : w[c] # [type |-> "COMMIT", tx |-> t]
    BY DEF Undoable
  <2>1. CASE i \in ThisRun(v, t)
    <3>1. i \in 1..Len(v) /\ w[i] = v[i]
      BY <1>4, <2>1
    <3>2. v[i].page \in P /\ \A c \in i..Len(v) : v[c] # [type |-> "COMMIT", tx |-> t]
      BY <1>5, <2>1 DEF Undoable
    <3>3. \A c \in i..Len(w) : c = n \/ (c \in i..Len(v) /\ c \in 1..Len(v))
      BY <1>1, <1>2, <3>1
    <3>4. \A c \in i..Len(w) : w[c] # [type |-> "COMMIT", tx |-> t]
      BY <1>0, <1>1, <1>2, <3>2, <3>3
    <3> QED
      BY <3>1, <3>2, <3>4
  <2>2. CASE i = n
    <3>1. \A c \in i..Len(w) : c = n
      BY <1>1, <1>2, <2>2
    <3> QED
      BY <1>0, <1>1, <2>2, <3>1
  <2> QED
    BY <1>3, <2>1, <2>2
<1>6. w[n] = u
  BY <1>1
<1>7. HasUpdate(w, t, u.page) /\ \A p : HasUpdate(v, t, p) => HasUpdate(w, t, p)
  <2> HIDE DEF n
  <2> QED
    BY <1>3, <1>4, <1>6 DEF HasUpdate
<1>8. ASSUME AloneIn(v, t)
      PROVE  AloneIn(w, t)
  <2> SUFFICES ASSUME NEW i \in ThisRun(w, t), NEW j \in UpdatesIn(w, w[i].page), j > i
               PROVE  w[j].tx = t
    BY DEF AloneIn
  <2>1. j \in 1..Len(w) /\ w[j].page = w[i].page
    BY DEF UpdatesIn
  <2>2. CASE j \notin 1..Len(v)
    BY <1>1, <2>1, <2>2
  <2>3. CASE j \in 1..Len(v)
    <3>1. i # n
      BY <1>2, <2>3
    <3>2. i \in ThisRun(v, t) /\ w[i] = v[i]
      BY <1>3, <1>4, <3>1
    <3>3. j \in UpdatesIn(v, v[i].page) /\ w[j] = v[j]
      BY <1>2, <2>3, <3>2
    <3> QED
      BY <1>8, <3>2, <3>3 DEF AloneIn
  <2> QED
    BY <2>2, <2>3
<1> QED
  BY <1>3, <1>5, <1>7, <1>8 DEF GrowsRun

(* The end of a transaction, in one record or two: no update, and the runs   *)
(* of the others go on.                                                      *)
EndsOnly(v, w, t) ==
  /\ Continues(v, w) /\ (\A p : UpdatesIn(w, p) = UpdatesIn(v, p)) /\ (BornIn(v) => BornIn(w))
  /\ \A s : s # t => KeepsRun(v, w, s) /\ (AloneIn(v, s) => AloneIn(w, s))

EndOf(r, t) == r.type \in {"COMMIT", "ABORT"} /\ r.tx = t

LEMMA EndRecord ==
  ASSUME NEW v, LogOK(v), NEW r, NEW w, Appends(v, r, w), NEW t, EndOf(r, t)
  PROVE  EndsOnly(v, w, t)
<1>0. r.type \in {"COMMIT", "ABORT"} /\ r.tx = t /\ w = Append(v, r)
  BY DEF EndOf, Appends
<1>1. r.type # "UPDATE"
  BY <1>0
<1>2. /\ Continues(v, w) /\ \A i \in 1..Len(w) : i \notin 1..Len(v) => w[i] = r
      /\ \A i \in 1..Len(v) : i \in 1..Len(w) /\ w[i] = v[i]
  <2>1. /\ Continues(v, w)
        /\ \A i \in 1..Len(w) : i \notin 1..Len(v) => i = Len(v) + 1 /\ w[i] = r
    BY <1>0, <1>1, AppendContinues
  <2> QED
    BY <2>1, ContinuesFacts
<1>3. \A p : UpdatesIn(w, p) = UpdatesIn(v, p)
  BY <1>1, <1>2 DEF UpdatesIn
<1>4. BornIn(v) => BornIn(w)
  <2> SUFFICES ASSUME BornIn(v), NEW i \in 1..Len(w), w[i].type = "UPDATE"
               PROVE  Began(w, w[i].tx)
    BY DEF BornIn
  <2>1. i \in 1..Len(v) /\ w[i] = v[i]
    BY <1>1, <1>2
  <2>2. Began(v, v[i].tx)
    BY <2>1 DEF BornIn
  <2> QED
    BY <1>2, <2>1, <2>2, BeganStays
<1>5. ASSUME NEW s, s # t
      PROVE  KeepsRun(v, w, s) /\ (AloneIn(v, s) => AloneIn(w, s))
  <2>1. r # [type |-> "BEGIN", tx |-> s] /\ r # [type |-> "COMMIT", tx |-> s]
    <3>1. [type |-> "BEGIN", tx |-> s].type = "BEGIN" /\ [type |-> "COMMIT", tx |-> s].tx = s
      OBVIOUS
    <3> QED
      BY <1>0, <1>5, <3>1
  <2>2. KeepsRun(v, w, s)
    BY <1>0, <1>1, <2>1, UndoableKept
  <2>3. AloneIn(v, s) => AloneIn(w, s)
    BY <1>0, <1>1, <2>1, AloneKept
  <2> QED
    BY <2>2, <2>3
<1> QED
  BY <1>2, <1>3, <1>4, <1>5 DEF EndsOnly

LEMMA EndTwice ==
  ASSUME NEW v, NEW u, NEW w, NEW t, EndsOnly(v, u, t), EndsOnly(u, w, t)
  PROVE  EndsOnly(v, w, t)
<1>1. Continues(v, w)
  <2>1. Continues(v, u) /\ Continues(u, w)
    BY DEF EndsOnly
  <2>2. Len(v) \in Nat /\ Len(u) \in Nat /\ Len(w) \in Nat /\ Len(v) <= Len(u) /\ Len(u) <= Len(w)
    BY <2>1, ContinuesFacts
  <2>3. \A i \in 1..Len(v) : i \in 1..Len(u) /\ u[i] = v[i] /\ w[i] = u[i]
    BY <2>1, ContinuesFacts
  <2>4. Len(v) <= Len(w)
    BY <2>2
  <2> QED
    BY <2>1, <2>3, <2>4 DEF Continues
<1>2. \A s : s # t => KeepsRun(v, w, s)
  <2> TAKE s
  <2> HAVE s # t
  <2>1. KeepsRun(v, u, s) /\ KeepsRun(u, w, s)
    BY DEF EndsOnly
  <2> QED
    BY <2>1 DEF KeepsRun
<1> QED
  BY <1>1, <1>2 DEF EndsOnly

(* The records of a commit that is taken back at once: no page outside its   *)
(* run has gained a committed update, and the pages of the run are known for *)
(* it.                                                                       *)
TakenBack(v, w, P) ==
  /\ \A p : BeforeIn(v, p) => BeforeIn(w, p)
  /\ \A p \in P : UndoneIn(w, p)
  /\ \A p : p \notin P =>
       /\ \A i \in UpdatesIn(v, p) : CommittedIn(w, i) => CommittedIn(v, i)
       /\ ImageIn(w, p) = ImageIn(v, p)
       /\ TrustedIn(w, p) => TrustedIn(v, p)

AbortOf(t) == [type |-> "ABORT", tx |-> t]

LEMMA CommitTakenBack ==
  ASSUME NEW v, LogOK(v), NEW t, NEW P, RunIn(v, t, P), \A p \in P : HasUpdate(v, t, p),
         NEW r, r = CommitOf(t), NEW u, Appends(v, r, u),
         NEW a, a = AbortOf(t), NEW w, Appends(u, a, w)
  PROVE  EndsOnly(v, w, t) /\ TakenBack(v, w, P)
<1>1. r.type = "COMMIT" /\ r.tx = t /\ a.type = "ABORT" /\ a.tx = t
      /\ EndOf(r, t) /\ EndOf(a, t)
  BY DEF CommitOf, AbortOf, EndOf
<1>2. EndsOnly(v, u, t)
  BY <1>1, EndRecord
<1>3. Continues(v, u) /\ LogOK(u)
  BY <1>2 DEF EndsOnly, Continues
<1>4. EndsOnly(u, w, t)
  BY <1>1, <1>3, EndRecord
<1>5. /\ Continues(u, w) /\ Len(w) = Len(u) + 1 /\ w[Len(u) + 1] = a
      /\ \A i \in 1..Len(w) : i \notin 1..Len(u) => i = Len(u) + 1 /\ w[i] = a
  <2>1. NoUpdate(a)
    BY <1>1 DEF NoUpdate
  <2> QED
    BY <1>3, <2>1, OtherContinues
<1>6. NoneOf(u, w, {"COMMIT", "UPDATE"}) /\ NoneOf(u, w, {"COMMIT"})
  BY <1>1, <1>5 DEF NoneOf
<1>7. \A p : HistoryCommits(v, u, t, P, p)
  BY CommitHistory DEF Appends
<1>8. /\ \A p : BeforeIn(u, p) => BeforeIn(w, p)
      /\ \A p : UpdatesIn(w, p) = UpdatesIn(u, p)
  BY <1>5, <1>6, SameUpdates
<1>9. /\ \A i \in 1..Len(w) : CommittedIn(w, i) <=> i \in 1..Len(u) /\ CommittedIn(u, i)
      /\ \A p : ImageIn(w, p) = ImageIn(u, p)
      /\ \A p : TrustedIn(w, p) => TrustedIn(u, p)
  BY <1>5, <1>6, NothingCommitted
<1>10. ASSUME NEW p, NEW i \in UpdatesIn(v, p)
       PROVE  /\ i \in 1..Len(v) /\ i \in 1..Len(u) /\ i \in 1..Len(w)
              /\ CommittedIn(w, i) <=> CommittedIn(v, i) \/ i \in ThisRun(v, t)
  <2>1. i \in 1..Len(v) /\ i \in 1..Len(u) /\ (CommittedIn(u, i) <=> CommittedIn(v, i) \/ i \in ThisRun(v, t))
    BY CommitsRun DEF Appends
  <2>2. i \in 1..Len(w)
    BY <1>5, <2>1, ContinuesFacts
  <2> QED
    BY <1>9, <2>1, <2>2
<1>11. ASSUME NEW p \in P
       PROVE  UndoneIn(w, p)
  <2>1. PICK i \in ThisRun(v, t) : v[i].page = p
    BY DEF HasUpdate
  <2>2. i \in UpdatesIn(v, p)
    BY <2>1 DEF ThisRun, UpdatesIn
  <2>3. i \in 1..Len(v) /\ i \in 1..Len(u) /\ CommittedIn(w, i)
    BY <1>10, <2>1, <2>2
  <2>4. i \in UpdatesIn(w, p)
    BY <1>2, <1>8, <2>2 DEF EndsOnly
  <2>5. i \in ThisRun(w, t)
    <3>1. r # [type |-> "BEGIN", tx |-> t] /\ r.type # "UPDATE"
      <4>1. [type |-> "BEGIN", tx |-> t].type = "BEGIN"
        OBVIOUS
      <4> QED
        BY <1>1, <4>1
    <3>2. i \in ThisRun(u, t)
      BY <2>1, <3>1, RunAppend DEF Appends
    <3>3. a # [type |-> "BEGIN", tx |-> t] /\ a.type # "UPDATE"
      <4>1. [type |-> "BEGIN", tx |-> t].type = "BEGIN"
        OBVIOUS
      <4> QED
        BY <1>1, <4>1
    <3> QED
      BY <1>3, <3>2, <3>3, RunAppend DEF Appends
  <2>6. /\ w[i].tx = t /\ \A b \in i..Len(w) : w[b] # [type |-> "BEGIN", tx |-> t]
    BY <2>5 DEF ThisRun
  <2>7. Len(w) \in (i+1)..Len(w)
    <3>1. Len(u) \in Nat
      BY <1>5, ContinuesFacts
    <3> QED
      BY <1>5, <2>3, <3>1
  <2>8. w[Len(w)] = [type |-> "ABORT", tx |-> t]
    BY <1>5 DEF AbortOf
  <2>9. FollowedIn(w, i, "ABORT")
    BY <2>6, <2>7, <2>8 DEF FollowedIn
  <2> QED
    BY <2>3, <2>4, <2>9 DEF UndoneIn
<1>12. ASSUME NEW p, p \notin P
       PROVE  /\ \A i \in UpdatesIn(v, p) : CommittedIn(w, i) => CommittedIn(v, i)
              /\ ImageIn(w, p) = ImageIn(v, p)
              /\ TrustedIn(w, p) => TrustedIn(v, p)
  <2>1. \A i \in UpdatesIn(v, p) : i \notin ThisRun(v, t)
    <3>1. \A i \in UpdatesIn(v, p) : v[i].page = p
      BY DEF UpdatesIn
    <3> QED
      BY <1>12, <3>1 DEF RunIn
  <2>2. ImageIn(u, p) = ImageIn(v, p) /\ (TrustedIn(u, p) => TrustedIn(v, p))
    BY <1>7, <1>12 DEF HistoryCommits
  <2> QED
    BY <1>9, <1>10, <2>1, <2>2
<1>13. \A p : BeforeIn(v, p) => BeforeIn(w, p)
  BY <1>7, <1>8 DEF HistoryCommits
<1> QED
  BY <1>2, <1>4, <1>11, <1>12, <1>13, EndTwice DEF TakenBack

-----------------------------------------------------------------------------
(* The inductive invariant of crash safety. *)

(* Every update, and every transaction that runs, has its BEGIN record.      *)
BirthLogged == (\A t \in Tx : Active(t) => Began(wal, t)) /\ BornIn(wal)

RunSafe(t) ==
  /\ Undoable(wal, t, modifiedPages(t))
  /\ \A p \in modifiedPages(t) : HasUpdate(wal, t, p)
  /\ ~Doomed(t) => AloneIn(wal, t)

(* An update is live while its transaction can still commit or undo it.  A   *)
(* page whose updates are all committed, for good, or live contains the last *)
(* of them.                                                                  *)
Live(i) == \E t \in Tx : Active(t) /\ i \in ThisRun(wal, t)

PageShows(p) ==
  ~UndoneIn(wal, p) /\ (\A i \in UpdatesIn(wal, p) : CommittedIn(wal, i) \/ Live(i)) =>
    \A i \in UpdatesIn(wal, p) :
      (\A j \in UpdatesIn(wal, p) : j <= i) => Contents(p) = wal[i].after

LiveShows == up /\ Readable(wal) => \A p \in Resource : PageShows(p)

(* What stands behind the first update that is not committed is a committed  *)
(* image.                                                                    *)
Histories == Readable(wal) => \A p \in Resource : BeforeIn(wal, p)

(* A page the log says nothing of is as it was created.                      *)
UntouchedEmpty ==
  Readable(wal) =>
    \A p \in Resource : UpdatesIn(wal, p) = {} => disk[p] = {} /\ Contents(p) = {}

SafeInv ==
  /\ BirthLogged
  /\ \A t \in Tx : Active(t) => RunSafe(t)
  /\ Histories /\ LiveShows /\ UntouchedEmpty

(* It implies that a crash is safe, whatever the data file holds.            *)
LEMMA SafeCrashIsSafe ==
  ASSUME TypeInv, SafeInv
  PROVE  CrashIsSafe
<1> SUFFICES ASSUME NEW p \in Resource, Trusted(p)
             PROVE  Recovered(disk, wal)[p] = CommittedImage(p)
  BY DEF CrashIsSafe
<1>1. TrustedIn(wal, p) /\ CommittedImage(p) = ImageIn(wal, p)
  BY LogViews
<1>2. LogOK(wal) /\ disk \in [Resource -> Image]
  BY DEF TypeInv, PoolTypeOK
<1>3. Readable(wal)
  BY <1>1 DEF TrustedIn
<1>4. BornIn(wal) /\ BeforeIn(wal, p) /\ (UpdatesIn(wal, p) = {} => disk[p] = {})
  BY <1>3 DEF SafeInv, BirthLogged, Histories, UntouchedEmpty
<1>5. Recovered(disk, wal)[p] = ImageIn(wal, p)
  BY <1>1, <1>2, <1>4, RecoversCommitted
<1> QED
  BY <1>1, <1>5

(* It holds before the first record.                                         *)
LEMMA SafeInit ==
  ASSUME Init
  PROVE  SafeInv
<1>1. /\ wal = << >> /\ pool = << >> /\ disk = [p \in Resource |-> {}]
      /\ txState = [t \in Tx |-> "unborn"]
  BY DEF Init
<1>2. Len(wal) = 0
  BY <1>1
<1>3. \A i : i \notin 1..Len(wal)
  BY <1>2
<1>4. \A p : UpdatesIn(wal, p) = {}
  BY <1>3 DEF UpdatesIn
<1>5. \A t \in Tx : ~Active(t)
  BY <1>1 DEF Active
<1>6. \A p \in Resource : disk[p] = {} /\ Contents(p) = {}
  <2> TAKE p \in Resource
  <2>1. Len(pool) = 0
    BY <1>1
  <2>2. ~Resident(p)
    BY <2>1 DEF Resident
  <2> QED
    BY <1>1, <2>2 DEF Contents
<1>7. BirthLogged
  BY <1>3, <1>5 DEF BirthLogged, BornIn
<1>8. Histories
  BY <1>4 DEF Histories, BeforeIn
<1>9. LiveShows
  BY <1>4 DEF LiveShows, PageShows
<1>10. UntouchedEmpty
  BY <1>6 DEF UntouchedEmpty
<1> QED
  BY <1>5, <1>7, <1>8, <1>9, <1>10 DEF SafeInv

(* The pages the log says nothing of, in any step.                           *)
LEMMA UntouchedStep ==
  ASSUME UntouchedEmpty, Continues(wal, wal'),
         \A p \in Resource : UpdatesIn(wal', p) = {} =>
           disk'[p] \in {disk[p], Contents(p)} /\ Contents(p)' \in {disk[p], Contents(p), disk'[p]}
  PROVE  UntouchedEmpty'
<1> SUFFICES ASSUME Readable(wal'), NEW p \in Resource, UpdatesIn(wal', p) = {}
             PROVE  disk'[p] = {} /\ Contents(p)' = {}
  BY DEF UntouchedEmpty
<1>1. Readable(wal)
  BY ContinuesFacts
<1>2. UpdatesIn(wal, p) \subseteq UpdatesIn(wal', p)
  BY ContinuesFacts
<1>3. UpdatesIn(wal, p) = {}
  BY <1>2
<1>4. disk[p] = {} /\ Contents(p) = {}
  BY <1>1, <1>3 DEF UntouchedEmpty
<1>5. disk'[p] \in {disk[p], Contents(p)} /\ Contents(p)' \in {disk[p], Contents(p), disk'[p]}
  OBVIOUS
<1> QED
  BY <1>4, <1>5

(* A page shows its last update as long as a step only ends what is live by  *)
(* committing it.                                                            *)
LEMMA PageStays ==
  ASSUME NEW p, PageShows(p), Continues(wal, wal'), Contents(p)' = Contents(p),
         \A i : i \in UpdatesIn(wal', p) <=> i \in UpdatesIn(wal, p),
         \A i \in UpdatesIn(wal, p) :
           CommittedIn(wal', i) \/ Live(i)' => CommittedIn(wal, i) \/ Live(i)
  PROVE  PageShows(p)'
<1>1. \A i \in UpdatesIn(wal, p) : wal'[i] = wal[i]
  BY ContinuesFacts DEF UpdatesIn
<1> SUFFICES ASSUME ~UndoneIn(wal', p),
                    \A i \in UpdatesIn(wal, p) : CommittedIn(wal', i) \/ Live(i)',
                    NEW i \in UpdatesIn(wal, p), \A j \in UpdatesIn(wal, p) : j <= i
             PROVE  Contents(p)' = wal'[i].after
  BY DEF PageShows
<1>1a. ~UndoneIn(wal, p)
  BY ContinuesFacts
<1>2. Contents(p) = wal[i].after
  BY <1>1a DEF PageShows
<1> QED
  BY <1>1, <1>2

(* What is live behind a record was live before it.                          *)
LEMMA LiveStays ==
  ASSUME LogOK(wal), NEW r, wal' = Append(wal, r),
         r.type = "UPDATE" => r.page \in Resource /\ r.before \in Image /\ r.after \in Image,
         \A t \in Tx : Active(t)' => Active(t) \/ r = BeginOf(t),
         NEW i \in 1..Len(wal), Live(i)'
  PROVE  Live(i)
<1>1. PICK t \in Tx : Active(t)' /\ i \in ThisRun(wal', t)
  BY DEF Live
<1>2. r # BeginOf(t)
  <2> SUFFICES ASSUME r = BeginOf(t)
               PROVE  FALSE
    OBVIOUS
  <2>1. ThisRun(wal', t) = {}
    BY RunBegins
  <2> QED
    BY <1>1, <2>1
<1>3. r # [type |-> "BEGIN", tx |-> t]
  BY <1>2 DEF BeginOf
<1>4. i \in ThisRun(wal, t) \/ i = Len(wal) + 1
  <2>1. r.type = "UPDATE" => r.page \in Resource /\ r.before \in Image /\ r.after \in Image
    OBVIOUS
  <2>2. \A j \in ThisRun(wal', t) :
          j \in ThisRun(wal, t) \/ (j = Len(wal) + 1 /\ r.type = "UPDATE" /\ r.tx = t)
    BY <1>3, <2>1, RunAppend
  <2> QED
    BY <1>1, <2>2
<1>5. Len(wal) \in Nat
  BY DEF LogOK
<1>6. i \in ThisRun(wal, t)
  BY <1>4, <1>5
<1> QED
  BY <1>1, <1>2, <1>6 DEF Live

(* What a step does to the records of a transaction that runs on, without    *)
(* writing.                                                                  *)
GoesOn(t) ==
  /\ Active(t) /\ KeepsRun(wal, wal', t)
  /\ ~Doomed(t)' => ~Doomed(t) /\ (AloneIn(wal, t) => AloneIn(wal', t))

LEMMA RunSafeKept ==
  ASSUME NEW t \in Tx, RunSafe(t), GoesOn(t), modifiedPages(t)' = modifiedPages(t)
  PROVE  RunSafe(t)'
<1>1. /\ Undoable(wal, t, modifiedPages(t))
      /\ \A p \in modifiedPages(t) : HasUpdate(wal, t, p)
      /\ ~Doomed(t) => AloneIn(wal, t)
  BY DEF RunSafe
<1>2. /\ \A P : Undoable(wal, t, P) => Undoable(wal', t, P)
      /\ \A p : HasUpdate(wal, t, p) => HasUpdate(wal', t, p)
  BY DEF GoesOn, KeepsRun
<1>3. Undoable(wal', t, modifiedPages(t)) /\ \A p \in modifiedPages(t) : HasUpdate(wal', t, p)
  BY <1>1, <1>2
<1>4. ~Doomed(t)' => AloneIn(wal', t)
  BY <1>1 DEF GoesOn
<1>5. Undoable(wal', t, modifiedPages(t)') /\ \A p \in modifiedPages(t)' : HasUpdate(wal', t, p)
  BY <1>3
<1> QED
  BY <1>4, <1>5 DEF RunSafe

(* So with one more record, if it neither begins nor ends the run, and is no *)
(* update of a page that the run, unless doomed, has changed.                *)
LEMMA RecordPasses ==
  ASSUME LogOK(wal), NEW r, wal' = Append(wal, r), NEW t \in Tx, Active(t),
         r.type = "UPDATE" => /\ r.page \in Resource /\ r.before \in Image /\ r.after \in Image
                              /\ r.tx # t,
         r.type = "UPDATE" /\ ~Doomed(t) => ~HasUpdate(wal, t, r.page),
         r # [type |-> "BEGIN", tx |-> t], r # [type |-> "COMMIT", tx |-> t],
         ~Doomed(t)' => ~Doomed(t)
  PROVE  GoesOn(t)
<1>1. KeepsRun(wal, wal', t)
  BY UndoableKept
<1>2. ASSUME ~Doomed(t), AloneIn(wal, t)
      PROVE  AloneIn(wal', t)
  <2>1. r.type = "UPDATE" => ~HasUpdate(wal, t, r.page)
    BY <1>2
  <2> QED
    BY <1>2, <2>1, AloneKept
<1> QED
  BY <1>1, <1>2 DEF GoesOn

(* A log that stays as it is keeps every run.                                *)
LEMMA SameLogPasses ==
  ASSUME NEW t \in Tx, Active(t), wal' = wal, ~Doomed(t)' => ~Doomed(t)
  PROVE  GoesOn(t)
BY DEF GoesOn, KeepsRun

(* A step that changes no page and commits nothing.                          *)
LEMMA SafeStill ==
  ASSUME TypeInv, SafeInv, UNCHANGED undoLog, KeepsPages,
         \A p \in Resource : disk'[p] \in {disk[p], Contents(p)},
         Continues(wal, wal'), NoneOf(wal, wal', {"COMMIT", "UPDATE"}), up' => up,
         \A i \in 1..Len(wal) : Live(i)' => Live(i),
         \A t \in Tx : Active(t)' =>
           GoesOn(t) \/ (Began(wal', t) /\ ThisRun(wal', t) = {} /\ undoLog[t] = << >>)
  PROVE  SafeInv'
<1>1. \A t \in Tx : modifiedPages(t)' = modifiedPages(t)
  BY DEF modifiedPages, Touched
<1>2. \A p \in Resource : Contents(p)' = Contents(p)
  BY DEF KeepsPages
<1>3. /\ \A p : UpdatesIn(wal', p) = UpdatesIn(wal, p)
      /\ \A p : BeforeIn(wal, p) => BeforeIn(wal', p)
      /\ BornIn(wal) => BornIn(wal')
  BY SameUpdates
<1>4. \A i \in 1..Len(wal) : CommittedIn(wal', i) => CommittedIn(wal, i)
  <2>1. NoneOf(wal, wal', {"COMMIT"})
    BY DEF NoneOf
  <2>2. \A i \in 1..Len(wal) : i \in 1..Len(wal')
    BY ContinuesFacts
  <2> QED
    BY <2>1, <2>2, NothingCommitted
<1>5. Readable(wal') => Readable(wal)
  BY ContinuesFacts
<1>6. BirthLogged'
  <2>1. \A t \in Tx : Active(t)' => Began(wal', t)
    <3> SUFFICES ASSUME NEW t \in Tx, GoesOn(t)
                 PROVE  Began(wal', t)
      OBVIOUS
    <3>1. Began(wal, t)
      BY DEF GoesOn, SafeInv, BirthLogged
    <3> QED
      BY <3>1, BeganStays
  <2> QED
    BY <1>3, <2>1 DEF SafeInv, BirthLogged
<1>7. \A t \in Tx : Active(t)' => RunSafe(t)'
  <2> SUFFICES ASSUME NEW t \in Tx, Active(t)'
               PROVE  RunSafe(t)'
    OBVIOUS
  <2>1. CASE GoesOn(t)
    <3>1. RunSafe(t)
      BY <2>1 DEF GoesOn, SafeInv
    <3> QED
      BY <1>1, <2>1, <3>1, RunSafeKept
  <2>2. CASE ThisRun(wal', t) = {} /\ undoLog[t] = << >>
    <3>1. modifiedPages(t)' = {}
      BY <2>2, NoUndo
    <3>2. Undoable(wal', t, {}) /\ AloneIn(wal', t)
      BY <2>2 DEF Undoable, AloneIn
    <3> QED
      BY <3>1, <3>2 DEF RunSafe
  <2> QED
    BY <2>1, <2>2
<1>8. Histories'
  BY <1>3, <1>5 DEF SafeInv, Histories
<1>9. LiveShows'
  <2> SUFFICES ASSUME up', Readable(wal'), NEW p \in Resource
               PROVE  PageShows(p)'
    BY DEF LiveShows
  <2>1. PageShows(p)
    BY <1>5 DEF SafeInv, LiveShows
  <2>2. \A i : i \in UpdatesIn(wal', p) <=> i \in UpdatesIn(wal, p)
    BY <1>3
  <2>3. \A i \in UpdatesIn(wal, p) : i \in 1..Len(wal)
    BY DEF UpdatesIn
  <2>4. \A i \in UpdatesIn(wal, p) :
          CommittedIn(wal', i) \/ Live(i)' => CommittedIn(wal, i) \/ Live(i)
    BY <1>4, <2>3
  <2>5. Contents(p)' = Contents(p)
    BY <1>2
  <2> QED
    BY <2>1, <2>2, <2>4, <2>5, PageStays
<1>10. UntouchedEmpty'
  BY <1>2, UntouchedStep DEF SafeInv
<1> QED
  BY <1>6, <1>7, <1>8, <1>9, <1>10 DEF SafeInv

(* What a write does, also over the changes of a victim.                     *)
Overwrites(t, p, u) ==
  /\ Active(t) /\ ~Doomed(t)
  /\ \A v \in Tx : v # t /\ p \in modifiedPages(v) => Doomed(v)
  /\ Contents(p) \in Image /\ Contents(p)' \in Image
  /\ u.type = "UPDATE" /\ u.tx = t /\ u.page = p
  /\ u.before = Contents(p) /\ u.after = Contents(p)'
  /\ wal' = Append(wal, u)
  /\ \A q \in Resource : q # p => Contents(q)' = Contents(q)
  /\ Adds(t, p, Contents(p))
  /\ disk' = DiskAfterFetch(p) /\ up' = up /\ txState' = txState
  /\ deadlockVictims' = deadlockVictims

LEMMA WriteDoes ==
  ASSUME PoolInv, NEW t \in Tx, write(t)
  PROVE  \E p \in Resource : \E u : Overwrites(t, p, u)
<1>0. TxInv /\ TypeInv /\ PoolTypeOK /\ MemoryTypeOK /\ GoodPool(pool, disk) /\ LockUse(t)
  BY DEF PoolInv, TxInv, TypeInv
<1>1. want[t] # NoAccess /\ want[t].page \in Resource /\ t \notin deadlockVictims
  BY <1>0, AccessFacts DEF write, Resumes, MemoryTypeOK
<1>2. txState[t] = "active"
  BY <1>0, <1>1 DEF LockUse
<1>3. Active(t) /\ ~Doomed(t)
  BY <1>1, <1>2 DEF Active, Doomed
<1>4. PICK p \in Resource : p = want[t].page
  BY <1>1
<1>5. \A v \in Tx : v # t /\ p \in modifiedPages(v) => Doomed(v)
  <2>1. \A v \in Modifiers(p) \ {t} : Doomed(v)
    BY <1>0, <1>4, OnlyTheDoomedAreReadIs DEF OnlyTheDoomedAreReadStep
  <2> QED
    BY <2>1 DEF Modifiers
<1> DEFINE after == Contents(p) \cup {<<boot, t, Len(undoLog[t]) + 1>>}
<1>6. /\ Cardinality(Records("UPDATE")) < MaxWrites
      /\ modifyPage(p, after)
      /\ undoLog' = [undoLog EXCEPT ![t] = Append(@, [page |-> p, before |-> Contents(p)])]
      /\ wal' = Append(wal, [type |-> "UPDATE", tx |-> t, page |-> p,
                             before |-> Contents(p), after |-> after])
      /\ up' = up /\ txState' = txState /\ deadlockVictims' = deadlockVictims
  BY <1>4 DEF write, Log
<1>7. Contents(p) \in Image /\ after \in Image
  <2>1. Contents(p) \in Image
    BY <1>0, ContentsType
  <2>2. after \in Image
    BY <1>0, <1>6, WriteImages
  <2> QED
    BY <2>1, <2>2
<1>8. /\ Contents(p)' = after
      /\ \A q \in Resource : q # p => Contents(q)' = Contents(q)
  <2> HIDE DEF after
  <2> QED
    BY <1>0, <1>6, <1>7, ModifyChanges
<1>9. disk' = DiskAfterFetch(p)
  BY <1>6 DEF modifyPage
<1>10. PICK u : u = [type |-> "UPDATE", tx |-> t, page |-> p, before |-> Contents(p), after |-> Contents(p)']
  OBVIOUS
<1>11. u.type = "UPDATE" /\ u.tx = t /\ u.page = p /\ u.before = Contents(p) /\ u.after = Contents(p)'
  BY <1>10
<1>12. wal' = Append(wal, u)
  BY <1>6, <1>8, <1>10
<1>13. Adds(t, p, Contents(p))
  BY <1>6 DEF Adds
<1>14. Contents(p)' \in Image
  BY <1>7, <1>8
<1> HIDE DEF after
<1>15. Overwrites(t, p, u)
  BY <1>3, <1>5, <1>6, <1>7, <1>8, <1>9, <1>11, <1>12, <1>13, <1>14 DEF Overwrites
<1> QED
  BY <1>15

LEMMA SafeWrite ==
  ASSUME PoolInv, SafeInv, TxInv', NEW t \in Tx, write(t)
  PROVE  SafeInv'
<1>0. TxInv /\ TypeInv /\ PoolTypeOK /\ MemoryTypeOK /\ GoodPool(pool, disk) /\ LogOK(wal)
  BY DEF PoolInv, TxInv, TypeInv
<1>0a. MemoryTypeOK'
  BY DEF TxInv, TypeInv
<1>w. PICK p \in Resource : \E u : Overwrites(t, p, u)
  BY WriteDoes
<1>1. PICK u : Overwrites(t, p, u)
  BY <1>w
<1>2. Active(t) /\ ~Doomed(t) /\ \A v \in Tx : v # t /\ p \in modifiedPages(v) => Doomed(v)
  BY <1>1 DEF Overwrites
<1>3. Contents(p) \in Image /\ Contents(p)' \in Image
  BY <1>1 DEF Overwrites
<1>4. u.type = "UPDATE" /\ u.tx = t /\ u.page = p /\ u.before = Contents(p) /\ u.after = Contents(p)'
  BY <1>1 DEF Overwrites
<1>5. wal' = Append(wal, u)
  BY <1>1 DEF Overwrites
<1>6. (\A q \in Resource : q # p => Contents(q)' = Contents(q)) /\ Adds(t, p, Contents(p))
  BY <1>1 DEF Overwrites
<1>7. u.type = "UPDATE" => u.page \in Resource /\ u.before \in Image /\ u.after \in Image
  BY <1>3, <1>4
<1>8. disk' = DiskAfterFetch(p) /\ up' = up /\ txState' = txState /\ deadlockVictims' = deadlockVictims
  BY <1>1 DEF Overwrites
<1>9. \A v \in Tx : (Active(v)' <=> Active(v)) /\ (Doomed(v)' <=> Doomed(v))
  BY <1>8 DEF Active, Doomed
<1>10. modifiedPages(t)' = modifiedPages(t) \cup {p}
  BY <1>0, <1>0a, <1>6, WriteUndo
<1>11. \A v \in Tx : v # t => modifiedPages(v)' = modifiedPages(v)
  <2> TAKE v \in Tx
  <2> HAVE v # t
  <2>1. undoLog'[v] = undoLog[v]
    BY <1>0, <1>6 DEF Adds, MemoryTypeOK
  <2> QED
    BY <2>1, SameUndo
<1>12. /\ Continues(wal, wal') /\ Len(wal') = Len(wal) + 1 /\ wal'[Len(wal) + 1] = u
       /\ \A i \in 1..Len(wal') : i \notin 1..Len(wal) => i = Len(wal) + 1 /\ wal'[i] = u
  BY <1>0, <1>5, <1>7, AppendContinues
<1>13. NoneOf(wal, wal', {"COMMIT"})
  BY <1>4, <1>12 DEF NoneOf
<1>14. \A i \in 1..Len(wal) : CommittedIn(wal', i) => CommittedIn(wal, i)
  <2>1. \A i \in 1..Len(wal) : i \in 1..Len(wal')
    BY <1>12, ContinuesFacts
  <2> QED
    BY <1>12, <1>13, <2>1, NothingCommitted
<1>15. /\ Len(wal) \in Nat /\ Len(wal') \in Nat
       /\ \A i \in 1..Len(wal) : i \in 1..Len(wal') /\ wal'[i] = wal[i]
       /\ Readable(wal') => Readable(wal)
  BY <1>12, ContinuesFacts
<1>16. BirthLogged'
  <2>1. \A v : Began(wal, v) => Began(wal', v)
    BY <1>12, BeganStays
  <2>2. \A v \in Tx : Active(v) => Began(wal, v)
    BY DEF SafeInv, BirthLogged
  <2>3. BornIn(wal')
    <3> SUFFICES ASSUME NEW i \in 1..Len(wal'), wal'[i].type = "UPDATE"
                 PROVE  Began(wal', wal'[i].tx)
      BY DEF BornIn
    <3>1. CASE i \in 1..Len(wal)
      <4>1. wal'[i] = wal[i]
        BY <1>15, <3>1
      <4>2. Began(wal, wal[i].tx)
        BY <3>1, <4>1 DEF SafeInv, BirthLogged, BornIn
      <4> QED
        BY <2>1, <4>1, <4>2
    <3>2. CASE i \notin 1..Len(wal)
      <4>1. wal'[i].tx = t
        BY <1>4, <1>12, <3>2
      <4> QED
        BY <1>2, <2>1, <2>2, <4>1
    <3> QED
      BY <3>1, <3>2
  <2> QED
    BY <1>9, <2>1, <2>2, <2>3 DEF BirthLogged
<1>17. ASSUME NEW v \in Tx, Active(v)'
       PROVE  RunSafe(v)'
  <2>0. RunSafe(v) /\ Active(v)
    BY <1>9, <1>17 DEF SafeInv
  <2>1. CASE v = t
    <3>1. GrowsRun(wal, wal', t, modifiedPages(t), u.page)
      BY <1>0, <1>4, <1>5, <1>7, UndoableGrows
    <3>2. /\ Undoable(wal, t, modifiedPages(t))
          /\ \A q \in modifiedPages(t) : HasUpdate(wal, t, q)
          /\ AloneIn(wal, t)
      BY <1>2, <2>0, <2>1 DEF RunSafe
    <3>3. /\ Undoable(wal', t, modifiedPages(t)')
          /\ \A q \in modifiedPages(t)' : HasUpdate(wal', t, q)
          /\ AloneIn(wal', t)
      BY <1>4, <1>10, <3>1, <3>2 DEF GrowsRun
    <3> QED
      BY <2>1, <3>3 DEF RunSafe
  <2>2. CASE v # t
    <3>1. u.type = "UPDATE" => /\ u.page \in Resource /\ u.before \in Image /\ u.after \in Image
                               /\ u.tx # v
      BY <1>4, <1>7, <2>2
    <3>2. u.type = "UPDATE" /\ ~Doomed(v) => ~HasUpdate(wal, v, u.page)
      <4>1. Undoable(wal, v, modifiedPages(v))
        BY <2>0 DEF RunSafe
      <4>2. ~Doomed(v) => p \notin modifiedPages(v)
        BY <1>2, <2>2
      <4> QED
        BY <1>4, <4>1, <4>2 DEF Undoable, HasUpdate
    <3>3. u # [type |-> "BEGIN", tx |-> v] /\ u # [type |-> "COMMIT", tx |-> v]
      <4>1. [type |-> "BEGIN", tx |-> v].type = "BEGIN" /\ [type |-> "COMMIT", tx |-> v].type = "COMMIT"
        OBVIOUS
      <4> QED
        BY <1>4, <4>1
    <3>4. ~Doomed(v)' => ~Doomed(v)
      BY <1>9
    <3>5. GoesOn(v)
      BY <1>0, <1>5, <2>0, <3>1, <3>2, <3>3, <3>4, RecordPasses
    <3> QED
      BY <1>11, <2>0, <2>2, <3>5, RunSafeKept
  <2> QED
    BY <2>1, <2>2
<1>18. Histories'
  <2> SUFFICES ASSUME Readable(wal'), NEW q \in Resource
               PROVE  BeforeIn(wal', q)
    BY DEF Histories
  <2>1. Readable(wal) /\ BeforeIn(wal, q)
    BY <1>15 DEF SafeInv, Histories
  <2>2. ASSUME q = p, ~UndoneIn(wal, q), \A i \in UpdatesIn(wal, q) : CommittedIn(wal, i)
        PROVE  u.before = ImageIn(wal, q)
    <3>1. up
      BY <1>0, <1>2 DEF TxInv, Down, Active
    <3>2. PageShows(p) /\ (UpdatesIn(wal, p) = {} => Contents(p) = {})
      BY <2>1, <3>1 DEF SafeInv, LiveShows, UntouchedEmpty
    <3>3. CASE UpdatesIn(wal, p) = {}
      <4>1. ImageIn(wal, p) = {}
        BY <3>3 DEF ImageIn
      <4> QED
        BY <1>4, <2>2, <3>2, <3>3, <4>1
    <3>4. CASE UpdatesIn(wal, p) # {}
      <4>1. PICK i \in UpdatesIn(wal, p) :
              /\ \A j \in UpdatesIn(wal, p) : CommittedIn(wal, j) => j <= i
              /\ ImageIn(wal, p) = wal[i].after
        BY <1>0, <2>2, <3>4, ImageIs
      <4>2. Contents(p) = wal[i].after
        BY <2>2, <3>2, <4>1 DEF PageShows
      <4> QED
        BY <1>4, <2>2, <4>1, <4>2
    <3> QED
      BY <3>3, <3>4
  <2>3. q = u.page /\ ~UndoneIn(wal, q) /\ (\A i \in UpdatesIn(wal, q) : CommittedIn(wal, i))
          => u.before = ImageIn(wal, q)
    BY <1>4, <2>2
  <2> QED
    BY <1>0, <1>4, <1>5, <1>7, <2>1, <2>3, UpdateBefore
<1>19. \A i \in 1..Len(wal) : Live(i)' => Live(i)
  <2>1. \A v \in Tx : Active(v)' => Active(v) \/ u = BeginOf(v)
    BY <1>9
  <2> QED
    BY <1>0, <1>5, <1>7, <2>1, LiveStays
<1>20. LiveShows'
  <2> SUFFICES ASSUME up', Readable(wal'), NEW q \in Resource
               PROVE  PageShows(q)'
    BY DEF LiveShows
  <2>1. CASE q = p
    <3> SUFFICES ASSUME NEW i \in UpdatesIn(wal', p), \A j \in UpdatesIn(wal', p) : j <= i
                 PROVE  Contents(p)' = wal'[i].after
      BY <2>1 DEF PageShows
    <3>1. Len(wal) + 1 \in UpdatesIn(wal', p)
      <4>1. Len(wal) + 1 \in 1..Len(wal')
        BY <1>12, <1>15
      <4> QED
        BY <1>4, <1>12, <4>1 DEF UpdatesIn
    <3>2. i \in 1..Len(wal') /\ Len(wal) + 1 <= i
      BY <3>1 DEF UpdatesIn
    <3>3. i = Len(wal) + 1
      BY <1>12, <1>15, <3>2
    <3> QED
      BY <1>4, <1>12, <3>3
  <2>2. CASE q # p
    <3>1. PageShows(q)
      BY <1>8, <1>15 DEF SafeInv, LiveShows
    <3>2. \A i \in UpdatesIn(wal', q) : i \in 1..Len(wal)
      BY <1>4, <1>12, <2>2 DEF UpdatesIn
    <3>3. \A i : i \in UpdatesIn(wal', q) <=> i \in UpdatesIn(wal, q)
      BY <1>12, <3>2, ContinuesFacts
    <3>4. \A i \in UpdatesIn(wal, q) :
            CommittedIn(wal', i) \/ Live(i)' => CommittedIn(wal, i) \/ Live(i)
      BY <1>14, <1>19, <3>2, <3>3
    <3>5. Contents(q)' = Contents(q)
      BY <1>6, <2>2
    <3> QED
      BY <1>12, <3>1, <3>3, <3>4, <3>5, PageStays
  <2> QED
    BY <2>1, <2>2
<1>21. UntouchedEmpty'
  <2>1. UpdatesIn(wal', p) # {}
    <3>1. Len(wal) + 1 \in 1..Len(wal')
      BY <1>12, <1>15
    <3>2. Len(wal) + 1 \in UpdatesIn(wal', p)
      BY <1>4, <1>12, <3>1 DEF UpdatesIn
    <3> QED
      BY <3>2
  <2>2. \A q \in Resource : UpdatesIn(wal', q) = {} =>
          disk'[q] \in {disk[q], Contents(q)} /\ Contents(q)' \in {disk[q], Contents(q), disk'[q]}
    <3> TAKE q \in Resource
    <3> HAVE UpdatesIn(wal', q) = {}
    <3>1. q # p
      BY <2>1
    <3>2. disk'[q] \in {disk[q], Contents(q)}
      BY <1>0, <1>8, FetchedFrom
    <3> QED
      BY <1>6, <3>1, <3>2
  <2> QED
    BY <1>12, <2>2, UntouchedStep DEF SafeInv
<1> QED
  BY <1>16, <1>17, <1>18, <1>20, <1>21 DEF SafeInv

(* The runs that go on over the end of another one.                          *)
LEMMA SafeEndRuns ==
  ASSUME TypeInv, SafeInv, NEW t \in Tx, Forgets(t), EndsOnly(wal, wal', t),
         \A v \in Tx : Active(v)' => Active(v) /\ v # t /\ (~Doomed(v)' => ~Doomed(v))
  PROVE  /\ \A v \in Tx : Active(v)' => Began(wal', v) /\ RunSafe(v)'
         /\ \A i \in 1..Len(wal) : Live(i)' => Live(i)
<1>0. MemoryTypeOK /\ Continues(wal, wal')
  BY DEF TypeInv, EndsOnly
<1>1. ASSUME NEW v \in Tx, Active(v)'
      PROVE  /\ Began(wal', v) /\ RunSafe(v)'
             /\ Active(v) /\ ThisRun(wal', v) = ThisRun(wal, v)
  <2>0. Active(v) /\ v # t /\ (~Doomed(v)' => ~Doomed(v))
    BY <1>1
  <2>1. undoLog'[v] = undoLog[v]
    BY <1>0, <2>0 DEF Forgets, MemoryTypeOK
  <2>2. modifiedPages(v)' = modifiedPages(v)
    BY <2>1, SameUndo
  <2>3. KeepsRun(wal, wal', v) /\ (AloneIn(wal, v) => AloneIn(wal', v))
    BY <2>0 DEF EndsOnly
  <2>4. GoesOn(v)
    BY <2>0, <2>3 DEF GoesOn
  <2>5. RunSafe(v) /\ Began(wal, v)
    BY <2>0 DEF SafeInv, BirthLogged
  <2>6. ThisRun(wal', v) = ThisRun(wal, v)
    BY <2>3 DEF KeepsRun
  <2> QED
    BY <1>0, <2>0, <2>2, <2>4, <2>5, <2>6, RunSafeKept, BeganStays
<1>2. \A i \in 1..Len(wal) : Live(i)' => Live(i)
  BY <1>1 DEF Live
<1> QED
  BY <1>1, <1>2

(* A commit: what it commits was live.                                       *)
LEMMA SafeCommit ==
  ASSUME PoolInv, SafeInv, NEW t \in Tx, commit(t)
  PROVE  SafeInv'
<1>0. TxInv /\ TypeInv /\ PoolTypeOK /\ MemoryTypeOK /\ GoodPool(pool, disk) /\ LogOK(wal) /\ LockUse(t)
  BY DEF PoolInv, TxInv, TypeInv
<1>1. /\ Active(t) /\ up' = up
      /\ disk' = Flushed(modifiedPages(t)) /\ pool' = Cleaned(modifiedPages(t))
      /\ txState' = [txState EXCEPT ![t] = "committed"] /\ deadlockVictims' = deadlockVictims
      /\ Forgets(t)
  BY DEF commit, Active, Forgets
<1>2. ~Doomed(t)
  BY <1>0 DEF commit, LockUse, Doomed
<1>3. PICK r : r = CommitOf(t)
  OBVIOUS
<1>4. wal' = Append(wal, r) /\ r.type = "COMMIT" /\ r.tx = t
  BY <1>3 DEF commit, Log, CommitOf
<1>5. KeepsPages
  BY <1>0, <1>1, FlushKeeps DEF KeepsPages
<1>6. \A v \in Tx : Active(v)' => Active(v) /\ v # t /\ (~Doomed(v)' => ~Doomed(v))
  BY <1>0, <1>1 DEF Active, Doomed, MemoryTypeOK
<1>7. wal' = Append(wal, r)
  BY <1>4
<1>8. /\ \A v \in Tx : Active(v)' => Began(wal', v) /\ RunSafe(v)'
      /\ \A i \in 1..Len(wal) : Live(i)' => Live(i)
  <2>1. EndOf(r, t) /\ Forgets(t) /\ Appends(wal, r, wal')
    BY <1>1, <1>4, <1>7 DEF EndOf, Appends
  <2>2. EndsOnly(wal, wal', t)
    BY <1>0, <2>1, EndRecord
  <2> QED
    BY <1>0, <1>6, <2>1, <2>2, SafeEndRuns
<1>9. RunIn(wal, t, modifiedPages(t))
  <2>1. RunSafe(t)
    BY <1>1 DEF SafeInv
  <2> QED
    BY <1>2, <2>1, RunInIs DEF RunSafe
<1>10. ASSUME NEW p
      PROVE  /\ Continues(wal, wal') /\ UpdatesIn(wal', p) = UpdatesIn(wal, p)
             /\ BornIn(wal) => BornIn(wal')
  <2>1. /\ Continues(wal, wal')
        /\ \A i : i \in UpdatesIn(wal', p) <=> i \in UpdatesIn(wal, p)
        /\ BornIn(wal) => BornIn(wal')
    BY <1>0, <1>3, <1>7, CommitsRun
  <2> QED
    BY <2>1
<1>11. ASSUME NEW p
       PROVE  HistoryCommits(wal, wal', t, modifiedPages(t), p)
  BY <1>0, <1>3, <1>7, <1>9, CommitHistory
<1>12. BirthLogged'
  BY <1>8, <1>10 DEF SafeInv, BirthLogged
<1>13. Readable(wal') => Readable(wal)
  BY <1>10, ContinuesFacts
<1>14. Histories'
  BY <1>11, <1>13 DEF SafeInv, Histories, HistoryCommits
<1>15. LiveShows'
  <2> SUFFICES ASSUME up', Readable(wal'), NEW p \in Resource
               PROVE  PageShows(p)'
    BY DEF LiveShows
  <2>1. PageShows(p)
    BY <1>1, <1>13 DEF SafeInv, LiveShows
  <2>2. \A i \in UpdatesIn(wal, p) :
          i \in 1..Len(wal) /\ (CommittedIn(wal', i) => CommittedIn(wal, i) \/ i \in ThisRun(wal, t))
    <3>1. \A i \in UpdatesIn(wal, p) : i \in 1..Len(wal)
      BY DEF UpdatesIn
    <3>2. \A i \in UpdatesIn(wal, p) :
            CommittedIn(wal', i) <=> CommittedIn(wal, i) \/ i \in ThisRun(wal, t)
      BY <1>0, <1>3, <1>7, CommitsRun
    <3> QED
      BY <3>1, <3>2
  <2>3. \A i \in UpdatesIn(wal, p) :
          CommittedIn(wal', i) \/ Live(i)' => CommittedIn(wal, i) \/ Live(i)
    <3>1. \A i \in ThisRun(wal, t) : Live(i)
      BY <1>1 DEF Live
    <3> QED
      BY <1>8, <2>2, <3>1
  <2>4. \A i : i \in UpdatesIn(wal', p) <=> i \in UpdatesIn(wal, p)
    BY <1>10
  <2>5. Contents(p)' = Contents(p) /\ Continues(wal, wal')
    BY <1>5, <1>10 DEF KeepsPages
  <2> QED
    BY <2>1, <2>3, <2>4, <2>5, PageStays
<1>16. UntouchedEmpty'
  <2>1. \A p \in Resource :
          disk'[p] \in {disk[p], Contents(p)} /\ Contents(p)' \in {disk[p], Contents(p), disk'[p]}
    BY <1>0, <1>1, <1>5, FlushedFrom DEF KeepsPages
  <2> QED
    BY <1>10, <2>1, UntouchedStep DEF SafeInv
<1> QED
  BY <1>8, <1>12, <1>14, <1>15, <1>16 DEF SafeInv

(* A page a run has changed has an update in the log.                        *)
LEMMA RunHasUpdates ==
  ASSUME NEW t \in Tx, RunSafe(t), NEW p \in modifiedPages(t)
  PROVE  UpdatesIn(wal, p) # {}
<1>1. PICK i \in ThisRun(wal, t) : wal[i].page = p
  BY DEF RunSafe, HasUpdate
<1>2. i \in UpdatesIn(wal, p)
  BY <1>1 DEF ThisRun, UpdatesIn
<1> QED
  BY <1>2

(* An abort: the updates it takes back are dead from now on, or known for    *)
(* having been committed and aborted.                                        *)
LEMMA SafeUndoes ==
  ASSUME PoolInv, SafeInv, NEW t \in Tx, Active(t), Undoes(t), EndsOnly(wal, wal', t),
         \A p : BeforeIn(wal, p) => BeforeIn(wal', p),
         \A p \in modifiedPages(t) :
           UndoneIn(wal', p) \/ \E i \in ThisRun(wal, t) : wal[i].page = p /\ ~CommittedIn(wal', i),
         \A p : p \notin modifiedPages(t) =>
           \A i \in UpdatesIn(wal, p) : CommittedIn(wal', i) => CommittedIn(wal, i)
  PROVE  SafeInv'
<1>0. TxInv /\ TypeInv /\ PoolTypeOK /\ MemoryTypeOK /\ GoodPool(pool, disk) /\ LogOK(wal)
  BY DEF PoolInv, TxInv, TypeInv
<1>1. /\ up' = up
      /\ disk' = Written(disk, Restores(t)) /\ pool' = Without(modifiedPages(t))
      /\ txState' = [txState EXCEPT ![t] = "aborted"] /\ deadlockVictims' = deadlockVictims \ {t}
      /\ Forgets(t)
  BY DEF Undoes, Forgets
<1>4. TakesBack(t)
  BY <1>0, <1>1, AbortRestores DEF TakesBack
<1>5. /\ ~Active(t)'
      /\ \A v \in Tx : Active(v)' => Active(v) /\ v # t /\ (~Doomed(v)' => ~Doomed(v))
  BY <1>0, <1>1 DEF Active, Doomed, MemoryTypeOK
<1>6. /\ \A v \in Tx : Active(v)' => Began(wal', v) /\ RunSafe(v)'
      /\ \A i \in 1..Len(wal) : Live(i)' => Live(i)
  BY <1>0, <1>1, <1>5, SafeEndRuns
<1>7. /\ Continues(wal, wal') /\ (\A p : UpdatesIn(wal', p) = UpdatesIn(wal, p))
      /\ BornIn(wal) => BornIn(wal')
  BY DEF EndsOnly
<1>9. /\ \A i \in 1..Len(wal) : i \in 1..Len(wal') /\ wal'[i] = wal[i]
      /\ Readable(wal') => Readable(wal)
  BY <1>7, ContinuesFacts
<1>11. BirthLogged'
  BY <1>6, <1>7 DEF SafeInv, BirthLogged
<1>12. Histories'
  BY <1>9 DEF SafeInv, Histories
<1>13. RunSafe(t)
  BY DEF SafeInv
<1>14. LiveShows'
  <2> SUFFICES ASSUME up', Readable(wal'), NEW p \in Resource
               PROVE  PageShows(p)'
    BY DEF LiveShows
  <2>1. ASSUME NEW i \in ThisRun(wal, t), wal[i].page = p, ~CommittedIn(wal', i)
        PROVE  PageShows(p)'
    <3>1. i \in UpdatesIn(wal, p) /\ i \in 1..Len(wal) /\ wal[i].tx = t
      BY <2>1 DEF ThisRun, UpdatesIn
    <3>2. ~Live(i)'
      <4> SUFFICES ASSUME NEW v \in Tx, Active(v)', i \in ThisRun(wal', v)
                   PROVE  FALSE
        BY DEF Live
      <4>1. wal'[i].tx = v
        BY DEF ThisRun
      <4> QED
        BY <1>5, <1>9, <3>1, <4>1
    <3>3. i \in UpdatesIn(wal', p)
      BY <1>7, <3>1
    <3> QED
      BY <2>1, <3>2, <3>3 DEF PageShows
  <2>2. CASE UndoneIn(wal', p)
    BY <2>2 DEF PageShows
  <2>3. CASE p \notin modifiedPages(t)
    <3>1. PageShows(p)
      BY <1>1, <1>9 DEF SafeInv, LiveShows
    <3>2. \A i : i \in UpdatesIn(wal', p) <=> i \in UpdatesIn(wal, p)
      BY <1>7
    <3>3. \A i \in UpdatesIn(wal, p) : i \in 1..Len(wal)
      BY DEF UpdatesIn
    <3>4. \A i \in UpdatesIn(wal, p) :
            CommittedIn(wal', i) \/ Live(i)' => CommittedIn(wal, i) \/ Live(i)
      BY <1>6, <2>3, <3>3
    <3>5. Contents(p)' = Contents(p) /\ Continues(wal, wal')
      BY <1>4, <1>7, <2>3 DEF TakesBack
    <3> QED
      BY <3>1, <3>2, <3>4, <3>5, PageStays
  <2> QED
    BY <2>1, <2>2, <2>3
<1>15. UntouchedEmpty'
  <2>1. ASSUME NEW p \in Resource, UpdatesIn(wal', p) = {}
        PROVE  disk'[p] \in {disk[p], Contents(p)} /\ Contents(p)' \in {disk[p], Contents(p), disk'[p]}
    <3>1. UpdatesIn(wal, p) = {}
      BY <1>7, <2>1
    <3>2. p \notin modifiedPages(t)
      BY <1>13, <3>1, RunHasUpdates
    <3>3. Contents(p)' = Contents(p)
      BY <1>4, <3>2 DEF TakesBack
    <3>4. Written(disk, Restores(t))[p] = disk[p]
      <4>1. 0 \in 0..Len(undoLog[t])
        BY <1>0 DEF MemoryTypeOK
      <4>2. p \in DOMAIN disk
        BY <1>0 DEF PoolTypeOK
      <4> QED
        BY <1>0, <3>2, <4>1, <4>2, RestoredFrom
    <3> QED
      BY <1>1, <3>3, <3>4
  <2> QED
    BY <1>7, <2>1, UntouchedStep DEF SafeInv
<1> QED
  BY <1>6, <1>11, <1>12, <1>14, <1>15 DEF SafeInv

(* An update of a run has no COMMIT.                                         *)
LEMMA RunNotCommitted ==
  ASSUME LogOK(wal), NEW t, NEW P, Undoable(wal, t, P), NEW i \in ThisRun(wal, t)
  PROVE  i \in 1..Len(wal) /\ ~CommittedIn(wal, i)
<1>1. i \in 1..Len(wal) /\ wal[i].tx = t
  BY DEF ThisRun
<1> SUFFICES ASSUME CommittedIn(wal, i)
             PROVE  FALSE
  BY <1>1
<1>2. PICK c \in (i+1)..Len(wal) : wal[c] = [type |-> "COMMIT", tx |-> t]
  BY <1>1 DEF CommittedIn, FollowedIn
<1>3. c \in i..Len(wal)
  <2>1. Len(wal) \in Nat
    BY DEF LogOK
  <2> QED
    BY <1>1, <2>1
<1> QED
  BY <1>2, <1>3 DEF Undoable

LEMMA SafeAbort ==
  ASSUME PoolInv, SafeInv, NEW t \in Tx, abort(t)
  PROVE  SafeInv'
<1>0. LogOK(wal)
  BY DEF PoolInv, TxInv, TypeInv
<1>1. Active(t) /\ Undoes(t)
  BY DEF abort
<1>2. PICK r : r = AbortOf(t)
  OBVIOUS
<1>3. wal' = Append(wal, r) /\ r.type = "ABORT" /\ r.tx = t
  BY <1>2 DEF abort, Log, AbortOf
<1>4. EndsOnly(wal, wal', t)
  <2>1. EndOf(r, t) /\ Appends(wal, r, wal')
    BY <1>3 DEF EndOf, Appends
  <2> QED
    BY <1>0, <2>1, EndRecord
<1>5. Continues(wal, wal') /\ NoneOf(wal, wal', {"COMMIT", "UPDATE"}) /\ NoneOf(wal, wal', {"COMMIT"})
  <2>1. NoUpdate(r) /\ Appends(wal, r, wal')
    BY <1>3 DEF NoUpdate, Appends
  <2>2. /\ Continues(wal, wal')
        /\ \A i \in 1..Len(wal') : i \notin 1..Len(wal) => i = Len(wal) + 1 /\ wal'[i] = r
    BY <1>0, <2>1, OtherContinues
  <2> QED
    BY <1>3, <2>2 DEF NoneOf
<1>6. \A p : BeforeIn(wal, p) => BeforeIn(wal', p)
  BY <1>5, SameUpdates
<1>7. \A i \in 1..Len(wal) : CommittedIn(wal', i) => CommittedIn(wal, i)
  BY <1>5, ContinuesFacts, NothingCommitted
<1>8. \A p \in modifiedPages(t) : \E i \in ThisRun(wal, t) : wal[i].page = p /\ ~CommittedIn(wal', i)
  <2> TAKE p \in modifiedPages(t)
  <2>1. RunSafe(t)
    BY <1>1 DEF SafeInv
  <2>2. PICK i \in ThisRun(wal, t) : wal[i].page = p
    BY <2>1 DEF RunSafe, HasUpdate
  <2>3. i \in 1..Len(wal) /\ ~CommittedIn(wal, i)
    BY <1>0, <2>1, RunNotCommitted DEF RunSafe
  <2> QED
    BY <1>7, <2>2, <2>3
<1>9. \A p : \A i \in UpdatesIn(wal, p) : CommittedIn(wal', i) => CommittedIn(wal, i)
  BY <1>7 DEF UpdatesIn
<1> QED
  BY <1>1, <1>4, <1>6, <1>8, <1>9, SafeUndoes

(* What the log says of an abort that follows on its own commit.             *)
LEMMA AbortCommittedLog ==
  ASSUME PoolInv, NEW t \in Tx, RunSafe(t), abortCommitted(t)
  PROVE  /\ Active(t) /\ Undoes(t)
         /\ EndsOnly(wal, wal', t) /\ TakenBack(wal, wal', modifiedPages(t))
<1>0. LogOK(wal) /\ LockUse(t)
  BY DEF PoolInv, TxInv, TypeInv
<1>1. txState[t] = "active" /\ want[t] = NoAccess /\ Undoes(t)
      /\ wal' = Append(Append(wal, CommitOf(t)), [type |-> "ABORT", tx |-> t])
  BY DEF abortCommitted
<1>2. Active(t) /\ ~Doomed(t)
  BY <1>0, <1>1 DEF LockUse, Active, Doomed
<1>3. RunIn(wal, t, modifiedPages(t)) /\ \A p \in modifiedPages(t) : HasUpdate(wal, t, p)
  BY <1>2, RunInIs DEF RunSafe
<1>4. PICK r : r = CommitOf(t)
  OBVIOUS
<1>5. PICK a : a = AbortOf(t)
  OBVIOUS
<1>6. PICK u : Appends(wal, r, u)
  BY DEF Appends
<1>7. Appends(u, a, wal')
  BY <1>1, <1>4, <1>5, <1>6 DEF AbortOf, Appends
<1>8. EndsOnly(wal, wal', t) /\ TakenBack(wal, wal', modifiedPages(t))
  BY <1>0, <1>3, <1>4, <1>5, <1>6, <1>7, CommitTakenBack
<1> QED
  BY <1>1, <1>2, <1>8

LEMMA SafeAbortCommitted ==
  ASSUME PoolInv, SafeInv, NEW t \in Tx, abortCommitted(t)
  PROVE  SafeInv'
<1>1. RunSafe(t)
  BY DEF SafeInv, abortCommitted, Active
<1>2. /\ Active(t) /\ Undoes(t)
      /\ EndsOnly(wal, wal', t) /\ TakenBack(wal, wal', modifiedPages(t))
  BY <1>1, AbortCommittedLog
<1>3. /\ \A p : BeforeIn(wal, p) => BeforeIn(wal', p)
      /\ \A p \in modifiedPages(t) : UndoneIn(wal', p)
      /\ \A p : p \notin modifiedPages(t) =>
           \A i \in UpdatesIn(wal, p) : CommittedIn(wal', i) => CommittedIn(wal, i)
  BY <1>2 DEF TakenBack
<1> QED
  BY <1>2, <1>3, SafeUndoes

(* Once the process has ended, every page contains what the data file does.  *)
LEMMA NothingResident ==
  ASSUME pool' = << >>
  PROVE  \A p \in Resource : Contents(p)' = disk'[p]
<1>1. Len(pool') = 0
  OBVIOUS
<1>2. \A i : i \notin 1..Len(pool')
  BY <1>1
<1>3. \A p \in Resource : ~Resident(p)'
  BY <1>2 DEF Resident
<1> QED
  BY <1>3 DEF Contents

(* The end of the process, whatever it leaves in the log and the data file.  *)
LEMMA SafeDie ==
  ASSUME SafeInv, Dies, Continues(wal, wal'), BornIn(wal'),
         \A p : BeforeIn(wal, p) => BeforeIn(wal', p),
         \A p \in Resource : UpdatesIn(wal', p) = {} => disk'[p] \in {disk[p], Contents(p)}
  PROVE  SafeInv'
<1>1. ~up' /\ pool' = << >> /\ \A t \in Tx : ~Active(t)'
  BY DEF Dies, Active
<1>2. BirthLogged'
  BY <1>1 DEF BirthLogged
<1>3. Histories'
  BY ContinuesFacts DEF SafeInv, Histories
<1>4. LiveShows'
  BY <1>1 DEF LiveShows
<1>5. \A p \in Resource : Contents(p)' = disk'[p]
  BY <1>1, NothingResident
<1>6. UntouchedEmpty'
  BY <1>5, UntouchedStep DEF SafeInv
<1> QED
  BY <1>1, <1>2, <1>3, <1>4, <1>6 DEF SafeInv

(* The page writes of an abort, all of them or some, stay within the pages   *)
(* of its run.                                                               *)
LEMMA RestoredUntouched ==
  ASSUME TypeInv, SafeInv, NEW t \in Tx, Active(t), NEW n \in 0..Len(undoLog[t]),
         NEW file \in [Resource -> Image],
         disk' \in {Written(file, Restores(t)), Written(file, SubSeq(Restores(t), 1, n))},
         NEW p \in Resource, UpdatesIn(wal, p) = {}
  PROVE  disk'[p] = file[p]
<1>0. MemoryTypeOK
  BY DEF TypeInv
<1>1. RunSafe(t)
  BY DEF SafeInv
<1>2. p \notin modifiedPages(t) /\ p \in DOMAIN file
  BY <1>1, RunHasUpdates
<1>3. /\ Written(file, SubSeq(Restores(t), 1, n))[p] = file[p]
      /\ Written(file, Restores(t))[p] = file[p]
  BY <1>0, <1>2, RestoredFrom
<1> QED
  BY <1>3

(* One more torn record.                                                     *)
LEMMA TornPasses ==
  ASSUME NEW v, LogOK(v), NEW w, Appends(v, Torn, w)
  PROVE  /\ Continues(v, w) /\ (BornIn(v) => BornIn(w))
         /\ \A p : BeforeIn(v, p) => BeforeIn(w, p)
         /\ \A p : UpdatesIn(w, p) = UpdatesIn(v, p)
<1>1. PICK r : r = Torn
  OBVIOUS
<1>2. r.type = "TORN" /\ r.type # "UPDATE" /\ w = Append(v, r)
  BY <1>1 DEF Torn, Appends
<1>3. /\ Continues(v, w)
      /\ \A i \in 1..Len(w) : i \notin 1..Len(v) => i = Len(v) + 1 /\ w[i] = r
  BY <1>2, AppendContinues
<1>4. NoneOf(v, w, {"COMMIT", "UPDATE"})
  BY <1>2, <1>3 DEF NoneOf
<1> QED
  BY <1>3, <1>4, SameUpdates

(* A crash behind the COMMIT record: in the page writes of the commit, or of *)
(* the abort that follows on it, or in the append of its ABORT.              *)
LEMMA SafeCommitCrash ==
  ASSUME PoolInv, SafeInv, NEW t \in Tx, txState[t] = "active", want[t] = NoAccess, Dies,
         wal' \in {Append(wal, CommitOf(t)), Append(Append(wal, CommitOf(t)), Torn)},
         \A p \in Resource : UpdatesIn(wal, p) = {} => disk'[p] \in {disk[p], Contents(p)}
  PROVE  SafeInv'
<1>0. LogOK(wal) /\ LockUse(t)
  BY DEF PoolInv, TxInv, TypeInv
<1>1. PICK r : r = CommitOf(t)
  OBVIOUS
<1>2. PICK u : u = Append(wal, r)
  OBVIOUS
<1>3. wal' = u \/ wal' = Append(u, Torn)
  BY <1>1, <1>2
<1>4. ASSUME NEW p
      PROVE  /\ Continues(wal, u)
             /\ \A i : i \in UpdatesIn(u, p) <=> i \in UpdatesIn(wal, p)
             /\ BornIn(wal) => BornIn(u)
  BY <1>0, <1>1, <1>2, CommitsRun
<1>5. RunIn(wal, t, modifiedPages(t))
  <2>1. RunSafe(t)
    BY DEF SafeInv, Active
  <2>2. ~Doomed(t)
    BY <1>0 DEF LockUse, Doomed
  <2> QED
    BY <2>1, <2>2, RunInIs DEF RunSafe
<1>6. ASSUME NEW p
      PROVE  HistoryCommits(wal, u, t, modifiedPages(t), p)
  BY <1>0, <1>1, <1>2, <1>5, CommitHistory
<1>7. EndsOnly(wal, u, t)
  <2>1. EndOf(r, t) /\ Appends(wal, r, u)
    BY <1>1, <1>2 DEF CommitOf, EndOf, Appends
  <2> QED
    BY <1>0, <2>1, EndRecord
<1>8. /\ Continues(wal, u) /\ LogOK(u) /\ BornIn(u)
      /\ \A p : BeforeIn(wal, p) => BeforeIn(u, p)
      /\ \A p : UpdatesIn(u, p) = UpdatesIn(wal, p)
  BY <1>6, <1>7 DEF SafeInv, BirthLogged, HistoryCommits, EndsOnly, Continues
<1>9. /\ Continues(wal, wal') /\ BornIn(wal')
      /\ \A p : BeforeIn(wal, p) => BeforeIn(wal', p)
      /\ \A p : UpdatesIn(wal', p) = UpdatesIn(wal, p)
  <2>1. CASE wal' = u
    BY <1>8, <2>1
  <2>2. CASE wal' = Append(u, Torn)
    <3>1. /\ Continues(u, wal') /\ BornIn(wal')
          /\ \A p : BeforeIn(u, p) => BeforeIn(wal', p)
          /\ \A p : UpdatesIn(wal', p) = UpdatesIn(u, p)
      <4>1. Appends(u, Torn, wal')
        BY <2>2 DEF Appends
      <4> QED
        BY <1>8, <4>1, TornPasses
    <3>2. Continues(wal, wal')
      <4>1. Len(wal) \in Nat /\ Len(u) \in Nat /\ Len(wal') \in Nat
            /\ Len(wal) <= Len(u) /\ Len(u) <= Len(wal')
        BY <1>8, <3>1, ContinuesFacts
      <4>2. \A i \in 1..Len(wal) : i \in 1..Len(u) /\ u[i] = wal[i] /\ wal'[i] = u[i]
        BY <1>8, <3>1, ContinuesFacts
      <4>3. Len(wal) <= Len(wal')
        BY <4>1
      <4> QED
        BY <1>8, <3>1, <4>2, <4>3 DEF Continues
    <3> QED
      BY <1>8, <3>1, <3>2
  <2> QED
    BY <1>3, <2>1, <2>2
<1> QED
  BY <1>9, SafeDie

LEMMA SafeCommitDies ==
  ASSUME PoolInv, SafeInv, NEW t \in Tx, NEW n, crashInCommit(t, n)
  PROVE  SafeInv'
<1>1. PoolTypeOK /\ disk' = Flushed(Touched(t, 1..n))
  BY DEF PoolInv, TxInv, TypeInv, crashInCommit
<1>2. \A p \in Resource : disk'[p] \in {disk[p], Contents(p)}
  BY <1>1, FlushedFrom
<1>3. txState[t] = "active" /\ want[t] = NoAccess /\ Dies /\ wal' = Append(wal, CommitOf(t))
  BY DEF crashInCommit, Log
<1> QED
  BY <1>2, <1>3, SafeCommitCrash

(* Any other end of the process: at most a torn record joins the log, behind *)
(* a COMMIT perhaps.                                                         *)
LEMMA SafeCrash ==
  ASSUME PoolInv, SafeInv,
         \/ crash \/ stop \/ crashInAppend
         \/ \E t \in Tx : \E n \in 0..Len(undoLog[t]) : crashInAbort(t, n)
  PROVE  SafeInv'
<1>0. TypeInv /\ PoolTypeOK /\ LogOK(wal) /\ MemoryTypeOK /\ disk \in [Resource -> Image]
  BY DEF PoolInv, TxInv, TypeInv, PoolTypeOK
<1>1. Dies
  BY DEF crash, stop, crashInAppend, crashInAbort
<1>2. ASSUME wal' = wal \/ wal' = Append(wal, Torn),
             \A p \in Resource : UpdatesIn(wal, p) = {} => disk'[p] \in {disk[p], Contents(p)}
      PROVE  SafeInv'
  <2>1. /\ Continues(wal, wal') /\ (BornIn(wal) => BornIn(wal'))
        /\ \A p : BeforeIn(wal, p) => BeforeIn(wal', p)
        /\ \A p : UpdatesIn(wal', p) = UpdatesIn(wal, p)
    <3>1. CASE wal' = wal
      <4>1. Len(wal) \in Nat
        BY <1>0 DEF LogOK
      <4> QED
        BY <1>0, <3>1, <4>1 DEF Continues
    <3>2. CASE wal' = Append(wal, Torn)
      <4>1. Appends(wal, Torn, wal')
        BY <3>2 DEF Appends
      <4> QED
        BY <1>0, <4>1, TornPasses
    <3> QED
      BY <1>2, <3>1, <3>2
  <2>2. BornIn(wal')
    BY <2>1 DEF SafeInv, BirthLogged
  <2> QED
    BY <1>1, <1>2, <2>1, <2>2, SafeDie
<1>3. ASSUME NEW P, NEW p \in Resource
      PROVE  Flushed(P) \in [Resource -> Image] /\ Flushed(P)[p] \in {disk[p], Contents(p)}
  BY <1>0, FlushedType, FlushedFrom
<1>4. ASSUME NEW t \in Tx, Active(t), NEW n \in 0..Len(undoLog[t]),
             NEW file \in [Resource -> Image], \A p \in Resource : file[p] \in {disk[p], Contents(p)},
             disk' \in {Written(file, Restores(t)), Written(file, SubSeq(Restores(t), 1, n))}
      PROVE  \A p \in Resource : UpdatesIn(wal, p) = {} => disk'[p] \in {disk[p], Contents(p)}
  <2> TAKE p \in Resource
  <2> HAVE UpdatesIn(wal, p) = {}
  <2>1. disk'[p] = file[p]
    BY <1>0, <1>4, RestoredUntouched
  <2> QED
    BY <1>4, <2>1
<1>5. CASE crash
  BY <1>2, <1>5 DEF crash
<1>6. CASE stop
  BY <1>2, <1>3, <1>6 DEF stop
<1>7. CASE crashInAppend
  <2>1. CASE Log(Torn) /\ disk' \in {disk, Flushed(Resource)}
    BY <1>2, <1>3, <2>1 DEF Log
  <2>2. ASSUME NEW t \in Tx, Active(t), want[t] = NoAccess, disk' = Written(disk, Restores(t)),
               Log(Torn) \/ (txState[t] = "active" /\ wal' = Append(Append(wal, CommitOf(t)), Torn))
        PROVE  SafeInv'
    <3>1. 0 \in 0..Len(undoLog[t])
      BY <1>0 DEF MemoryTypeOK
    <3>2. disk' \in {Written(disk, Restores(t)), Written(disk, SubSeq(Restores(t), 1, 0))}
      BY <2>2
    <3>3. \A p \in Resource : UpdatesIn(wal, p) = {} => disk'[p] \in {disk[p], Contents(p)}
      BY <1>0, <1>4, <2>2, <3>1, <3>2
    <3>4. CASE Log(Torn)
      BY <1>2, <3>3, <3>4 DEF Log
    <3>5. CASE txState[t] = "active" /\ wal' = Append(Append(wal, CommitOf(t)), Torn)
      BY <1>1, <2>2, <3>3, <3>5, SafeCommitCrash
    <3> QED
      BY <2>2, <3>4, <3>5
  <2> QED
    BY <1>7, <2>1, <2>2 DEF crashInAppend
<1>8. ASSUME NEW t \in Tx, NEW n \in 0..Len(undoLog[t]), crashInAbort(t, n)
      PROVE  SafeInv'
  <2>1. Active(t) /\ want[t] = NoAccess
    BY <1>8 DEF crashInAbort
  <2>2. CASE UNCHANGED wal /\ disk' = Written(disk, SubSeq(Restores(t), 1, n))
    <3>1. \A p \in Resource : UpdatesIn(wal, p) = {} => disk'[p] \in {disk[p], Contents(p)}
      BY <1>0, <1>4, <2>1, <2>2
    <3> QED
      BY <1>2, <2>2, <3>1
  <2>3. CASE /\ txState[t] = "active" /\ Log(CommitOf(t))
             /\ disk' = Written(Flushed(modifiedPages(t)), SubSeq(Restores(t), 1, n))
    <3>1. PICK file : file = Flushed(modifiedPages(t))
      OBVIOUS
    <3>2. file \in [Resource -> Image] /\ \A p \in Resource : file[p] \in {disk[p], Contents(p)}
      BY <1>0, <3>1, FlushedType, FlushedFrom
    <3>3. \A p \in Resource : UpdatesIn(wal, p) = {} => disk'[p] \in {disk[p], Contents(p)}
      BY <1>4, <2>1, <2>3, <3>1, <3>2
    <3>4. wal' = Append(wal, CommitOf(t)) /\ txState[t] = "active"
      BY <2>3 DEF Log
    <3> QED
      BY <1>1, <2>1, <3>3, <3>4, SafeCommitCrash
  <2> QED
    BY <1>8, <2>2, <2>3 DEF crashInAbort
<1> QED
  BY <1>5, <1>6, <1>7, <1>8

(* A recovery.                                                               *)
LEMMA SafeStart ==
  ASSUME PoolInv, SafeInv, NEW n \in Nat, NEW k \in Nat, start(n, k)
  PROVE  SafeInv'
<1>0. TypeInv /\ PoolTypeOK /\ LogOK(wal) /\ Down
  BY DEF PoolInv, TxInv, TypeInv
<1> DEFINE writes == RecoveryWrites(readAll(wal))
<1>1. /\ ~up /\ n <= Len(writes) /\ disk' = Written(disk, SubSeq(writes, 1, n))
      /\ up' => n = Len(writes)
      /\ UNCHANGED pool /\ UNCHANGED txState /\ UNCHANGED undoLog
  BY DEF start, txVars
<1>2. /\ pool' = << >> /\ pool = << >>
      /\ \A t \in Tx : ~Active(t)' /\ undoLog'[t] = << >> /\ undoLog[t] = << >>
  BY <1>0, <1>1 DEF Down, Active
<1>3. \A p \in Resource : Contents(p)' = disk'[p]
  BY <1>2, NothingResident
<1>4. /\ LogOK(wal')
      /\ Len(wal) \in Nat /\ Len(wal') \in Nat /\ Len(wal) <= Len(wal')
      /\ \A i \in 1..Len(wal) : wal'[i] = wal[i]
      /\ \A i \in 1..Len(wal') : i \notin 1..Len(wal) => wal'[i].type \in {"ABORT", "TORN"}
  BY <1>0, StartLog
<1>5. /\ Continues(wal, wal') /\ NoneOf(wal, wal', {"COMMIT", "UPDATE"})
      /\ NoneOf(wal, wal', {"COMMIT"})
  BY <1>0, <1>4 DEF Continues, NoneOf
<1>6. /\ \A p : UpdatesIn(wal', p) = UpdatesIn(wal, p)
      /\ \A p : BeforeIn(wal, p) => BeforeIn(wal', p)
      /\ BornIn(wal) => BornIn(wal')
  BY <1>5, SameUpdates
<1>7. (\A p : ImageIn(wal', p) = ImageIn(wal, p)) /\ (\A p : TrustedIn(wal', p) => TrustedIn(wal, p))
  BY <1>5, NothingCommitted
<1>8. BirthLogged'
  BY <1>2, <1>6 DEF SafeInv, BirthLogged
<1>9. Histories'
  BY <1>5, <1>6, ContinuesFacts DEF SafeInv, Histories
<1>10. n \in 0..Len(writes) /\ writes \in Seq(PageWrite)
  <2>1. LogOK(readAll(wal))
    BY <1>0, ReadableLog
  <2>2. writes \in Seq(PageWrite)
    BY <2>1, RecoveryWritesType
  <2> HIDE DEF writes
  <2> QED
    BY <1>1, <2>2
<1>11. LiveShows'
  <2> SUFFICES ASSUME up', Readable(wal'), NEW p \in Resource, ~UndoneIn(wal', p),
                      \A i \in UpdatesIn(wal', p) : CommittedIn(wal', i) \/ Live(i)',
                      NEW i \in UpdatesIn(wal', p), \A j \in UpdatesIn(wal', p) : j <= i
               PROVE  Contents(p)' = wal'[i].after
    BY DEF LiveShows, PageShows
  <2>1. disk' = Recovered(disk, wal)
    <3>1. SubSeq(writes, 1, Len(writes)) = writes
      <4> HIDE DEF writes
      <4> QED
        BY <1>10
    <3> QED
      BY <1>1, <3>1 DEF Recovered
  <2>2. \A j \in UpdatesIn(wal', p) : CommittedIn(wal', j)
    BY <1>2 DEF Live
  <2>3. TrustedIn(wal, p) /\ Readable(wal)
    BY <1>4, <1>7, <2>2, AllCommittedTrusted DEF TrustedIn
  <2>4. BornIn(wal) /\ BeforeIn(wal, p) /\ (UpdatesIn(wal, p) = {} => disk[p] = {})
    BY <2>3 DEF SafeInv, BirthLogged, Histories, UntouchedEmpty
  <2>5. disk \in [Resource -> Image]
    BY <1>0 DEF PoolTypeOK
  <2>6. Recovered(disk, wal)[p] = ImageIn(wal, p)
    BY <1>0, <2>3, <2>4, <2>5, RecoversCommitted
  <2>7. Contents(p)' = ImageIn(wal', p)
    BY <1>3, <1>7, <2>1, <2>6
  <2>8. PICK m \in UpdatesIn(wal', p) :
          /\ \A j \in UpdatesIn(wal', p) : CommittedIn(wal', j) => j <= m
          /\ ImageIn(wal', p) = wal'[m].after
    BY <1>4, <2>2, ImageIs
  <2>9. m = i
    <3>1. m <= i /\ i <= m
      BY <2>2, <2>8
    <3>2. m \in Int /\ i \in Int
      BY DEF UpdatesIn
    <3> QED
      BY <3>1, <3>2
  <2> QED
    BY <2>7, <2>8, <2>9
<1>12. UntouchedEmpty'
  <2> SUFFICES ASSUME Readable(wal'), NEW p \in Resource, UpdatesIn(wal', p) = {}
               PROVE  disk'[p] = {}
    BY <1>3 DEF UntouchedEmpty
  <2>1. Readable(wal) /\ UpdatesIn(wal, p) = {}
    BY <1>5, <1>6, ContinuesFacts
  <2>2. disk[p] = {}
    BY <2>1 DEF SafeInv, UntouchedEmpty
  <2>3. disk \in [Resource -> Image] /\ n \in 0..Len(RecoveryWrites(readAll(wal)))
    BY <1>0, <1>10 DEF PoolTypeOK
  <2>4. Written(disk, SubSeq(RecoveryWrites(readAll(wal)), 1, n))[p] = disk[p]
    BY <1>0, <2>1, <2>3, RecoveredFrom
  <2> QED
    BY <1>1, <2>2, <2>4
<1> QED
  BY <1>2, <1>8, <1>9, <1>11, <1>12 DEF SafeInv

(* A step without a record.                                                  *)
LEMMA SafeSameLog ==
  ASSUME PoolInv, SafeInv, UNCHANGED <<wal, undoLog>>, KeepsPages,
         \A p \in Resource : disk'[p] \in {disk[p], Contents(p)}, up' => up,
         \A t \in Tx : Active(t)' => Active(t) /\ (~Doomed(t)' => ~Doomed(t))
  PROVE  SafeInv'
<1>0. TypeInv /\ LogOK(wal)
  BY DEF PoolInv, TxInv, TypeInv
<1>1. Continues(wal, wal') /\ NoneOf(wal, wal', {"COMMIT", "UPDATE"})
  <2>1. Len(wal) \in Nat
    BY <1>0 DEF LogOK
  <2> QED
    BY <1>0, <2>1 DEF Continues, NoneOf
<1>2. \A t \in Tx : Active(t)' => GoesOn(t)
  <2>1. wal' = wal
    OBVIOUS
  <2> QED
    BY <2>1, SameLogPasses
<1>3. \A i \in 1..Len(wal) : Live(i)' => Live(i)
  <2> SUFFICES ASSUME NEW i \in 1..Len(wal), NEW t \in Tx, Active(t)', i \in ThisRun(wal', t)
               PROVE  Live(i)
    BY DEF Live
  <2> QED
    BY DEF Live
<1>4. UNCHANGED undoLog
  OBVIOUS
<1> QED
  BY <1>0, <1>1, <1>2, <1>3, <1>4, SafeStill

(* A record that is neither an update nor the end of a transaction.          *)
LEMMA SafeRecord ==
  ASSUME PoolInv, SafeInv, NEW r, r.type \in {"BEGIN", "CHECKPOINT"}, wal' = Append(wal, r),
         UNCHANGED undoLog, KeepsPages,
         \A p \in Resource : disk'[p] \in {disk[p], Contents(p)}, up' => up,
         \A t \in Tx : Active(t)' =>
           \/ Active(t) /\ (~Doomed(t)' => ~Doomed(t)) /\ ~(r.type = "BEGIN" /\ r.tx = t)
           \/ r = BeginOf(t) /\ undoLog[t] = << >>
  PROVE  SafeInv'
<1>0. TypeInv /\ LogOK(wal)
  BY DEF PoolInv, TxInv, TypeInv
<1>1. r.type # "UPDATE"
  OBVIOUS
<1>2. /\ Continues(wal, wal') /\ Len(wal') = Len(wal) + 1 /\ wal'[Len(wal) + 1] = r
      /\ \A i \in 1..Len(wal') : i \notin 1..Len(wal) => i = Len(wal) + 1 /\ wal'[i] = r
  BY <1>0, <1>1, AppendContinues
<1>3. NoneOf(wal, wal', {"COMMIT", "UPDATE"})
  BY <1>2 DEF NoneOf
<1>4. ASSUME NEW t \in Tx, Active(t), ~Doomed(t)' => ~Doomed(t), ~(r.type = "BEGIN" /\ r.tx = t)
      PROVE  GoesOn(t)
  <2>1. r # [type |-> "BEGIN", tx |-> t] /\ r # [type |-> "COMMIT", tx |-> t]
    <3>1. [type |-> "BEGIN", tx |-> t].type = "BEGIN" /\ [type |-> "BEGIN", tx |-> t].tx = t
          /\ [type |-> "COMMIT", tx |-> t].type = "COMMIT"
      OBVIOUS
    <3> QED
      BY <1>4, <3>1
  <2> QED
    BY <1>0, <1>1, <1>4, <2>1, RecordPasses
<1>5. ASSUME NEW t \in Tx, r = BeginOf(t)
      PROVE  Began(wal', t) /\ ThisRun(wal', t) = {}
  <2>1. ThisRun(wal', t) = {}
    BY <1>0, <1>5, RunBegins
  <2>2. r.type = "BEGIN" /\ r.tx = t
    BY <1>5 DEF BeginOf
  <2>3. Len(wal) + 1 \in 1..Len(wal')
    <3>1. Len(wal) \in Nat
      BY <1>0 DEF LogOK
    <3> QED
      BY <1>2, <3>1
  <2> QED
    BY <1>2, <2>1, <2>2, <2>3 DEF Began
<1>6. \A t \in Tx : Active(t)' =>
        GoesOn(t) \/ (Began(wal', t) /\ ThisRun(wal', t) = {} /\ undoLog[t] = << >>)
  BY <1>4, <1>5
<1>7. \A i \in 1..Len(wal) : Live(i)' => Live(i)
  <2>1. r.type = "UPDATE" => r.page \in Resource /\ r.before \in Image /\ r.after \in Image
    BY <1>1
  <2>2. \A t \in Tx : Active(t)' => Active(t) \/ r = BeginOf(t)
    OBVIOUS
  <2> QED
    BY <1>0, <2>1, <2>2, LiveStays
<1>8. Continues(wal, wal')
  BY <1>2
<1> QED
  BY <1>0, <1>3, <1>6, <1>7, <1>8, SafeStill

(* The inductive step.                                                       *)
LEMMA SafeStep ==
  ASSUME PoolInv, SafeInv, TxInv', [Next]_vars
  PROVE  SafeInv'
<1>0. PoolTypeOK /\ MemoryTypeOK /\ TypeInv /\ TxInv /\ GoodPool(pool, disk)
  BY DEF PoolInv, TxInv, TypeInv
<1>w. \A t \in Tx : want[t] # NoAccess => want[t].page \in Resource /\ txState[t] = "active"
  BY <1>0, AccessFacts DEF MemoryTypeOK, TxInv, LockUse
<1>1. ASSUME UNCHANGED <<pool, disk>>
      PROVE  KeepsPages /\ \A p \in Resource : disk'[p] \in {disk[p], Contents(p)}
  BY <1>1 DEF KeepsPages, Contents, Resident, FrameOf
<1>2. ASSUME UNCHANGED txState, deadlockVictims \subseteq deadlockVictims'
      PROVE  \A v \in Tx : Active(v)' => Active(v) /\ (~Doomed(v)' => ~Doomed(v))
  BY <1>2 DEF Active, Doomed
<1>3. ASSUME NEW t \in Tx, txState[t] = "active", txState' = [txState EXCEPT ![t] = "throwing"],
             deadlockVictims \subseteq deadlockVictims' \cup {t}
      PROVE  \A v \in Tx : Active(v)' => Active(v) /\ (~Doomed(v)' => ~Doomed(v))
  <2> SUFFICES ASSUME NEW v \in Tx, Active(v)'
               PROVE  Active(v) /\ (~Doomed(v)' => ~Doomed(v))
    OBVIOUS
  <2>1. CASE v = t
    <3>1. txState'[t] = "throwing"
      BY <1>0, <1>3 DEF MemoryTypeOK
    <3> QED
      BY <1>3, <2>1, <3>1 DEF Active, Doomed
  <2>2. CASE v # t
    <3>1. txState'[v] = txState[v]
      BY <1>0, <1>3, <2>2 DEF MemoryTypeOK
    <3>2. v \in deadlockVictims => v \in deadlockVictims'
      BY <1>3, <2>2
    <3> QED
      BY <3>1, <3>2 DEF Active, Doomed
  <2> QED
    BY <2>1, <2>2
<1>4. ASSUME NEW t \in Tx, read(t) \/ refuse(t)
      PROVE  SafeInv'
  <2>1. /\ want[t].page \in Resource /\ fetchPage(want[t].page) /\ txState[t] = "active"
        /\ UNCHANGED <<wal, undoLog>> /\ up' = up /\ deadlockVictims' = deadlockVictims
        /\ txState' = txState \/ txState' = [txState EXCEPT ![t] = "throwing"]
    BY <1>4, <1>w DEF read, refuse, Resumes
  <2>2. KeepsPages
    BY <1>0, <2>1, FetchKeeps DEF KeepsPages
  <2>3. \A p \in Resource : disk'[p] \in {disk[p], Contents(p)}
    BY <1>0, <2>1, FetchedFrom DEF fetchPage
  <2>4. \A v \in Tx : Active(v)' => Active(v) /\ (~Doomed(v)' => ~Doomed(v))
    <3>1. deadlockVictims \subseteq deadlockVictims' /\ deadlockVictims \subseteq deadlockVictims' \cup {t}
      BY <2>1
    <3>2. CASE txState' = txState
      BY <1>2, <3>1, <3>2
    <3>3. CASE txState' = [txState EXCEPT ![t] = "throwing"]
      BY <1>3, <2>1, <3>1, <3>3
    <3> QED
      BY <2>1, <3>2, <3>3
  <2>5. UNCHANGED <<wal, undoLog>> /\ (up' => up)
    BY <2>1
  <2> QED
    BY <2>2, <2>3, <2>4, <2>5, SafeSameLog
<1>5. ASSUME NEW t \in Tx, begin(t)
      PROVE  SafeInv'
  <2>1. PICK r : r = BeginOf(t)
    OBVIOUS
  <2>2. r.type = "BEGIN" /\ r.tx = t /\ wal' = Append(wal, r)
    BY <1>5, <2>1 DEF begin, Log, BeginOf
  <2>3. /\ UNCHANGED <<pool, disk>> /\ UNCHANGED undoLog /\ up' = up
        /\ txState' = [txState EXCEPT ![t] = "active"] /\ deadlockVictims' = deadlockVictims
    BY <1>5 DEF begin
  <2>4. undoLog[t] = << >>
    <3>1. txState[t] = "unborn"
      BY <1>0, <1>5 DEF begin, TxInv, BirthOrder, MemoryTypeOK
    <3> QED
      BY <1>0, <3>1 DEF TxInv, LockUse, Active
  <2>5. \A v \in Tx : Active(v)' =>
          \/ Active(v) /\ (~Doomed(v)' => ~Doomed(v)) /\ ~(r.type = "BEGIN" /\ r.tx = v)
          \/ r = BeginOf(v) /\ undoLog[v] = << >>
    <3> SUFFICES ASSUME NEW v \in Tx, Active(v)', v # t
                 PROVE  Active(v) /\ (~Doomed(v)' => ~Doomed(v))
      BY <2>1, <2>2, <2>4
    <3>1. txState'[v] = txState[v]
      BY <1>0, <2>3 DEF MemoryTypeOK
    <3> QED
      BY <2>3, <3>1 DEF Active, Doomed
  <2>6. r.type \in {"BEGIN", "CHECKPOINT"}
    BY <2>2
  <2> QED
    BY <1>1, <2>2, <2>3, <2>5, <2>6, SafeRecord
<1>6. ASSUME checkpoint
      PROVE  SafeInv'
  <2>1. PICK r : r = [type |-> "CHECKPOINT", tx |-> 0]
    OBVIOUS
  <2>2. r.type = "CHECKPOINT" /\ wal' = Append(wal, r)
    BY <1>6, <2>1 DEF checkpoint, Log
  <2>3. /\ disk' = Flushed(Resource) /\ pool' = Cleaned(Resource)
        /\ UNCHANGED undoLog /\ UNCHANGED txState /\ up' = up /\ deadlockVictims' = deadlockVictims
    BY <1>6 DEF checkpoint, txVars
  <2>4. KeepsPages
    BY <1>0, <2>3, FlushKeeps DEF KeepsPages
  <2>5. \A p \in Resource : disk'[p] \in {disk[p], Contents(p)}
    BY <1>0, <2>3, FlushedFrom
  <2>6. \A v \in Tx : Active(v)' =>
          \/ Active(v) /\ (~Doomed(v)' => ~Doomed(v)) /\ ~(r.type = "BEGIN" /\ r.tx = v)
          \/ r = BeginOf(v) /\ undoLog[v] = << >>
    <3>1. \A v \in Tx : Active(v)' => Active(v) /\ (~Doomed(v)' => ~Doomed(v))
      BY <1>2, <2>3
    <3> QED
      BY <2>2, <3>1
  <2>7. r.type \in {"BEGIN", "CHECKPOINT"}
    BY <2>2
  <2> QED
    BY <2>2, <2>3, <2>4, <2>5, <2>6, <2>7, SafeRecord
<1>7. ASSUME UNCHANGED <<pool, disk>>, UNCHANGED <<wal, undoLog>>, up' = up,
             \A v \in Tx : Active(v)' => Active(v) /\ (~Doomed(v)' => ~Doomed(v))
      PROVE  SafeInv'
  BY <1>1, <1>7, SafeSameLog
<1>8. ASSUME NEW t \in Tx, throw(t)
      PROVE  SafeInv'
  <2>1. /\ txState[t] = "active" /\ txState' = [txState EXCEPT ![t] = "throwing"]
        /\ deadlockVictims \subseteq deadlockVictims' \cup {t}
        /\ UNCHANGED <<pool, disk>> /\ UNCHANGED <<wal, undoLog>> /\ up' = up
    BY <1>8, <1>w DEF throw
  <2>2. \A v \in Tx : Active(v)' => Active(v) /\ (~Doomed(v)' => ~Doomed(v))
    BY <1>3, <2>1
  <2> QED
    BY <1>7, <2>1, <2>2
<1>9. ASSUME UNCHANGED <<pool, disk>>, UNCHANGED <<wal, undoLog>>, up' = up,
             UNCHANGED txState, deadlockVictims \subseteq deadlockVictims'
      PROVE  SafeInv'
  <2>1. \A v \in Tx : Active(v)' => Active(v) /\ (~Doomed(v)' => ~Doomed(v))
    BY <1>2, <1>9
  <2> QED
    BY <1>7, <1>9, <2>1
<1>10. ASSUME NEW t \in Tx, NEW op, NEW p, acquireLock(t, op, p) \/ lockTimeout(t, p)
       PROVE  SafeInv'
  BY <1>9, <1>10 DEF acquireLock, lockTimeout, txVars
<1>11. ASSUME sweep
       PROVE  SafeInv'
  BY <1>9, <1>11 DEF sweep
<1>12. ASSUME UNCHANGED vars
       PROVE  SafeInv'
  BY <1>9, <1>12 DEF vars, txVars
<1>13. ASSUME NEW t \in Tx, TxStep(t)
       PROVE  SafeInv'
  BY <1>4, <1>5, <1>8, <1>10, <1>13, SafeWrite, SafeCommit, SafeAbort, SafeAbortCommitted DEF TxStep
<1>14. ASSUME NEW n \in 0..Len(wal), NEW k \in 0..Len(wal), start(n, k)
       PROVE  SafeInv'
  BY <1>14, SafeStart
<1>15. ASSUME NEW t \in Tx, NEW n \in 0..Len(undoLog[t]), crashInCommit(t, n) \/ crashInAbort(t, n)
       PROVE  SafeInv'
  BY <1>15, SafeCommitDies, SafeCrash
<1>16. ASSUME crash \/ crashInAppend \/ stop
       PROVE  SafeInv'
  BY <1>16, SafeCrash
<1> QED
  BY <1>6, <1>11, <1>12, <1>13, <1>14, <1>15, <1>16 DEF Next

(* The inductive invariant holds throughout.                                 *)
LEMMA SafeAlways == Spec => [](PoolInv /\ SafeInv)
<1>1. Init => SafeInv
  BY SafeInit
<1>2. PoolInv /\ SafeInv /\ [Next]_vars => TxInv'
  BY TxInvStep DEF PoolInv
<1>3. PoolInv /\ SafeInv /\ [Next]_vars => SafeInv'
  BY <1>2, SafeStep
<1>4. Spec => []PoolInv
  BY PoolAlways
<1> QED
  BY <1>1, <1>3, <1>4, PTL DEF Spec

(* Crash safety, deadlock victims and the sweep included: at every instant,  *)
(* in the middle of a write, a commit, an abort or a recovery, a crash       *)
(* followed by a recovery leaves every page the log does not misjudge at its *)
(* last committed image.                                                     *)
THEOREM CrashesAreSafe == Spec => []CrashIsSafe
<1>1. PoolInv /\ SafeInv => CrashIsSafe
  BY SafeCrashIsSafe DEF PoolInv, TxInv
<1> QED
  BY <1>1, SafeAlways, PTL

-----------------------------------------------------------------------------
(* What the pages show, when no sweep disturbs the transactions. *)

(* A transaction that runs can undo what the log has of its run, and a page  *)
(* it has changed contains its last update of it.                            *)
RunOK(t) ==
  /\ RunIn(wal, t, modifiedPages(t))
  /\ \A p \in modifiedPages(t) : LastOfRun(wal, t, p, Contents(p))

(* A trusted page has its committed image, but for the writes of the         *)
(* transaction that is changing it.                                          *)
CommittedShows ==
  up => \A p \in Resource : TrustedIn(wal, p) => WithoutActive(p) = ImageIn(wal, p)

HistInv == (\A t \in Tx : Active(t) => RunOK(t)) /\ CommittedShows

(* It implies that committed images show.                                    *)
LEMMA HistCommittedIsVisible ==
  ASSUME Undisturbed, HistInv
  PROVE  CommittedIsVisible
<1> SUFFICES ASSUME up, NEW p \in Resource, Trusted(p), Modifiers(p) = {}
             PROVE  Contents(p) = CommittedImage(p)
  BY DEF CommittedIsVisible
<1>1. TrustedIn(wal, p) /\ CommittedImage(p) = ImageIn(wal, p)
  BY LogViews
<1>2. WithoutActive(p) = Contents(p)
  BY WithoutActiveAlways DEF WithoutActiveFacts
<1> QED
  BY <1>1, <1>2 DEF HistInv, CommittedShows

(* It holds before the first record.                                         *)
LEMMA HistInit ==
  ASSUME Init
  PROVE  HistInv
<1>1. /\ wal = << >> /\ pool = << >> /\ disk = [p \in Resource |-> {}]
      /\ undoLog = [t \in Tx |-> << >>] /\ txState = [t \in Tx |-> "unborn"]
  BY DEF Init
<1>2. Len(wal) = 0
  BY <1>1
<1>3. \A i : i \notin 1..Len(wal)
  BY <1>2
<1>4. \A p : UpdatesIn(wal, p) = {}
  BY <1>3 DEF UpdatesIn
<1>5. \A t \in Tx : ~Active(t) /\ modifiedPages(t) = {}
  <2> TAKE t \in Tx
  <2>1. txState[t] = "unborn" /\ undoLog[t] = << >>
    BY <1>1
  <2>2. Len(undoLog[t]) = 0
    BY <2>1
  <2>3. \A i : i \notin 1..Len(undoLog[t])
    BY <2>2
  <2> QED
    BY <2>1, <2>3 DEF Active, modifiedPages, Touched
<1>6. \A p \in Resource : disk[p] = {} /\ Contents(p) = {}
  <2> TAKE p \in Resource
  <2>1. Len(pool) = 0
    BY <1>1
  <2>2. ~Resident(p)
    BY <2>1 DEF Resident
  <2> QED
    BY <1>1, <2>2 DEF Contents
<1>7. \A p \in Resource : WithoutActive(p) = ImageIn(wal, p)
  <2> TAKE p \in Resource
  <2>1. Modifiers(p) = {}
    BY <1>5 DEF Modifiers
  <2>2. WithoutActive(p) = {}
    BY <1>6, <2>1 DEF WithoutActive
  <2>3. ImageIn(wal, p) = {}
    BY <1>4 DEF ImageIn
  <2> QED
    BY <2>2, <2>3
<1>8. CommittedShows
  BY <1>7 DEF CommittedShows
<1> QED
  BY <1>5, <1>8 DEF HistInv

(* What a step does to the records of a transaction that runs on, without    *)
(* writing.                                                                  *)
RunsOn(t) ==
  /\ Active(t)
  /\ RunIn(wal, t, modifiedPages(t)) => RunIn(wal', t, modifiedPages(t))
  /\ \A p \in modifiedPages(t) : \A image :
       LastOfRun(wal, t, p, image) => LastOfRun(wal', t, p, image)

(* A step that changes no page and commits nothing.                          *)
LEMMA StillHist ==
  ASSUME TypeInv, HistInv, UNCHANGED undoLog, KeepsPages,
         Continues(wal, wal'), NoneOf(wal, wal', {"COMMIT"}), up' => up,
         \A t \in Tx : Active(t)' =>
           RunsOn(t) \/ (ThisRun(wal', t) = {} /\ undoLog[t] = << >>)
  PROVE  HistInv'
<1>0. MemoryTypeOK
  BY DEF TypeInv
<1>1. \A t \in Tx : modifiedPages(t)' = modifiedPages(t) /\ modifiedPages(t) \subseteq Resource
  BY <1>0, ModifiedType DEF modifiedPages, Touched
<1>2. \A p \in Resource : Contents(p)' = Contents(p)
  BY DEF KeepsPages
<1>3. \A p \in Resource : WithoutActive(p)' = WithoutActive(p)
  BY <1>0, <1>2, QuietStore, Bars
<1>5. (\A p : ImageIn(wal', p) = ImageIn(wal, p)) /\ (\A p : TrustedIn(wal', p) => TrustedIn(wal, p))
  BY NothingCommitted
<1>7. \A t \in Tx : Active(t)' => RunOK(t)'
  <2> SUFFICES ASSUME NEW t \in Tx, Active(t)'
               PROVE  RunIn(wal', t, modifiedPages(t)') /\
                      \A p \in modifiedPages(t)' : LastOfRun(wal', t, p, Contents(p)')
    BY DEF RunOK
  <2>1. CASE RunsOn(t)
    <3>1. RunIn(wal, t, modifiedPages(t)) /\ \A p \in modifiedPages(t) : LastOfRun(wal, t, p, Contents(p))
      BY <2>1 DEF RunsOn, HistInv, RunOK
    <3>2. RunIn(wal', t, modifiedPages(t)) /\ \A p \in modifiedPages(t) : LastOfRun(wal', t, p, Contents(p))
      BY <2>1, <3>1 DEF RunsOn
    <3> QED
      BY <1>1, <1>2, <3>2
  <2>2. CASE ThisRun(wal', t) = {} /\ undoLog[t] = << >>
    <3>1. modifiedPages(t)' = {}
      BY <2>2, NoUndo
    <3>2. RunIn(wal', t, {})
      BY <2>2 DEF RunIn
    <3> QED
      BY <3>1, <3>2
  <2> QED
    BY <2>1, <2>2
<1>9. CommittedShows'
  BY <1>3, <1>5 DEF HistInv, CommittedShows
<1> QED
  BY <1>7, <1>9 DEF HistInv

(* A write.                                                                  *)
LEMMA WriteHist ==
  ASSUME PoolInv, HistInv, TxInv', ~SweepOn, NEW t \in Tx, write(t)
  PROVE  HistInv'
<1>0. TxInv /\ TypeInv /\ PoolTypeOK /\ MemoryTypeOK /\ GoodPool(pool, disk) /\ LogOK(wal)
  BY DEF PoolInv, TxInv, TypeInv
<1>0a. MemoryTypeOK'
  BY DEF TxInv, TypeInv
<1>0b. Undisturbed /\ Undisturbed'
  BY <1>0 DEF Undisturbed
<1>1. PICK p \in Resource : p = want[t].page /\ WritesPage(t, p)
  BY WriteWritesPage
<1>2. /\ Active(t) /\ Modifiers(p) \subseteq {t}
      /\ Contents(p)' = Contents(p) \cup {NextUpdate(t)}
      /\ \A q \in Resource : q # p => Contents(q)' = Contents(q)
      /\ Adds(t, p, Contents(p))
  BY <1>1 DEF WritesPage
<1>3. PICK u : u = [type |-> "UPDATE", tx |-> t, page |-> p, before |-> Contents(p), after |-> Contents(p)']
  OBVIOUS
<1>4. u.type = "UPDATE" /\ u.tx = t /\ u.page = p /\ u.before = Contents(p) /\ u.after = Contents(p)'
  BY <1>3
<1>5. wal' = Append(wal, u)
  <2>1. Contents(p)' = Contents(p) \cup {<<boot, t, Len(undoLog[t]) + 1>>}
    BY <1>2 DEF NextUpdate
  <2> QED
    BY <1>1, <1>3, <2>1 DEF write, Log
<1>6. Contents(p) \in Image /\ Contents(p)' \in Image
  <2>1. Contents(p) \in Image
    BY <1>0, ContentsType
  <2>2. NextUpdate(t) \in Update
    BY <1>1 DEF WritesPage
  <2> QED
    BY <1>2, <2>1, <2>2 DEF Image
<1>7. u.type = "UPDATE" => u.page \in Resource /\ u.before \in Image /\ u.after \in Image
  BY <1>4, <1>6
<1>8. disk' = DiskAfterFetch(p) /\ up' = up /\ txState' = txState
  BY <1>1 DEF write, modifyPage
<1>9. \A v \in Tx : Active(v)' <=> Active(v)
  BY <1>8 DEF Active
<1>10. /\ modifiedPages(t)' = modifiedPages(t) \cup {p}
       /\ \A q \in modifiedPages(t) : FirstBefore(t, q)' = FirstBefore(t, q)
       /\ p \notin modifiedPages(t) => FirstBefore(t, p)' = Contents(p)
  BY <1>0, <1>0a, <1>2, WriteUndo
<1>11. \A v \in Tx : v # t =>
         modifiedPages(v)' = modifiedPages(v) /\ \A q : FirstBefore(v, q)' = FirstBefore(v, q)
  <2> TAKE v \in Tx
  <2> HAVE v # t
  <2>1. undoLog'[v] = undoLog[v]
    BY <1>0, <1>2 DEF Adds, MemoryTypeOK
  <2> QED
    BY <2>1, SameUndo
<1>12. \A v \in Tx : modifiedPages(v) \subseteq Resource
  BY <1>0, ModifiedType
<1>13. \A v \in Tx : v # t => p \notin modifiedPages(v)
  BY <1>2 DEF Modifiers
<1>14. /\ Continues(wal, wal') /\ Len(wal') = Len(wal) + 1 /\ wal'[Len(wal) + 1] = u
       /\ \A i \in 1..Len(wal') : i \notin 1..Len(wal) => i = Len(wal) + 1 /\ wal'[i] = u
  BY <1>0, <1>5, <1>7, AppendContinues
<1>15. NoneOf(wal, wal', {"COMMIT"})
  BY <1>4, <1>14 DEF NoneOf
<1>16. (\A q : ImageIn(wal', q) = ImageIn(wal, q)) /\ (\A q : TrustedIn(wal', q) => TrustedIn(wal, q))
  BY <1>14, <1>15, NothingCommitted
<1>19. ASSUME NEW v \in Tx, Active(v)'
       PROVE  RunOK(v)'
  <2>0. RunIn(wal, v, modifiedPages(v)) /\ \A q \in modifiedPages(v) : LastOfRun(wal, v, q, Contents(q))
    BY <1>9, <1>19 DEF HistInv, RunOK
  <2>1. CASE v = t
    <3>1. RunIn(wal, t, modifiedPages(t))
      BY <2>0, <2>1
    <3>2. /\ RunIn(wal', t, modifiedPages(t) \cup {u.page})
          /\ LastOfRun(wal', t, u.page, u.after)
          /\ \A q, image : q # u.page /\ LastOfRun(wal, t, q, image) => LastOfRun(wal', t, q, image)
      BY <1>0, <1>4, <1>5, <1>6, <3>1, RunGrows
    <3>3. RunIn(wal', t, modifiedPages(t)')
      BY <1>4, <1>10, <3>2
    <3>4. \A q \in modifiedPages(t)' : LastOfRun(wal', t, q, Contents(q)')
      <4> TAKE q \in modifiedPages(t)'
      <4>1. CASE q = p
        BY <1>4, <3>2, <4>1
      <4>2. CASE q # p
        <5>1. q \in modifiedPages(t) /\ q \in Resource
          BY <1>10, <1>12, <4>2
        <5>2. LastOfRun(wal, t, q, Contents(q)) /\ Contents(q)' = Contents(q)
          BY <1>2, <2>0, <2>1, <4>2, <5>1
        <5> QED
          BY <1>4, <3>2, <4>2, <5>2
      <4> QED
        BY <4>1, <4>2
    <3> QED
      BY <2>1, <3>3, <3>4 DEF RunOK
  <2>2. CASE v # t
    <3>1. p \notin modifiedPages(v) /\ modifiedPages(v)' = modifiedPages(v)
      BY <1>11, <1>13, <2>2
    <3>2. u.type = "UPDATE" => /\ u.page \in Resource /\ u.before \in Image /\ u.after \in Image
                               /\ u.tx # v /\ u.page \notin modifiedPages(v)
      BY <1>4, <1>7, <2>2, <3>1
    <3>3. u # [type |-> "BEGIN", tx |-> v] /\ u # [type |-> "COMMIT", tx |-> v]
      <4>1. [type |-> "BEGIN", tx |-> v].type = "BEGIN" /\ [type |-> "COMMIT", tx |-> v].type = "COMMIT"
        OBVIOUS
      <4> QED
        BY <1>4, <4>1
    <3>4. /\ RunIn(wal', v, modifiedPages(v))
          /\ \A q \in modifiedPages(v) : \A image : LastOfRun(wal, v, q, image) => LastOfRun(wal', v, q, image)
      BY <1>0, <1>5, <2>0, <3>2, <3>3, RunKept
    <3>5. \A q \in modifiedPages(v) : Contents(q)' = Contents(q)
      BY <1>2, <1>12, <3>1
    <3> QED
      BY <2>0, <3>1, <3>4, <3>5 DEF RunOK
  <2> QED
    BY <2>1, <2>2
<1>21. \A q \in Resource : WithoutActive(q)' = WithoutActive(q)
  <2> TAKE q \in Resource
  <2>0. WithoutActiveFacts /\ WithoutActiveFacts'
    BY <1>0b, WithoutActiveAlways, WithoutActiveNext
  <2>1. ASSUME NEW v \in Tx, q \in modifiedPages(v)
        PROVE  WithoutActive(q)' = WithoutActive(q)
    <3>1. q \in modifiedPages(v)' /\ FirstBefore(v, q)' = FirstBefore(v, q)
      BY <1>10, <1>11, <2>1
    <3>2. WithoutActive(q) = FirstBefore(v, q)
      BY <2>0, <2>1 DEF WithoutActiveFacts
    <3>3. WithoutActive(q)' = FirstBefore(v, q)'
      BY <2>0, <3>1 DEF WithoutActiveFacts
    <3> QED
      BY <3>1, <3>2, <3>3
  <2>2. ASSUME \A v \in Tx : q \notin modifiedPages(v)
        PROVE  WithoutActive(q)' = WithoutActive(q)
    <3>1. Modifiers(q) = {}
      BY <2>2 DEF Modifiers
    <3>2. WithoutActive(q) = Contents(q)
      BY <2>0, <3>1 DEF WithoutActiveFacts
    <3>3. CASE q = p
      <4>1. p \in modifiedPages(t)' /\ FirstBefore(t, p)' = Contents(p)
        BY <1>10, <2>2, <3>3
      <4>2. WithoutActive(p)' = FirstBefore(t, p)'
        BY <2>0, <4>1 DEF WithoutActiveFacts
      <4> QED
        BY <3>2, <3>3, <4>1, <4>2
    <3>4. CASE q # p
      <4>1. \A v \in Tx : q \notin modifiedPages(v)'
        BY <1>10, <1>11, <2>2, <3>4
      <4>2. Modifiers(q)' = {}
        BY <4>1 DEF Modifiers
      <4>3. WithoutActive(q)' = Contents(q)'
        BY <2>0, <4>2 DEF WithoutActiveFacts
      <4> QED
        BY <1>2, <3>2, <3>4, <4>3
    <3> QED
      BY <3>3, <3>4
  <2> QED
    BY <2>1, <2>2
<1>22. CommittedShows'
  BY <1>8, <1>16, <1>21 DEF HistInv, CommittedShows
<1> QED
  BY <1>19, <1>22 DEF HistInv

(* What one more record is to the log: it is no update, and not of a type    *)
(* that ends or begins the run of t.                                         *)
LEMMA RunPasses ==
  ASSUME LogOK(wal), NEW r, wal' = Append(wal, r), r.type # "UPDATE", NEW t \in Tx,
         r # [type |-> "BEGIN", tx |-> t], r # [type |-> "COMMIT", tx |-> t], Active(t)
  PROVE  RunsOn(t)
<1>1. ASSUME RunIn(wal, t, modifiedPages(t))
      PROVE  /\ RunIn(wal', t, modifiedPages(t))
             /\ \A p \in modifiedPages(t) : \A image :
                  LastOfRun(wal, t, p, image) => LastOfRun(wal', t, p, image)
  <2>1. r.type = "UPDATE" =>
          /\ r.page \in Resource /\ r.before \in Image /\ r.after \in Image
          /\ r.tx # t /\ r.page \notin modifiedPages(t)
    OBVIOUS
  <2> QED
    BY <1>1, <2>1, RunKept
<1>2. ASSUME NEW p \in modifiedPages(t), NEW image, LastOfRun(wal, t, p, image)
      PROVE  LastOfRun(wal', t, p, image)
  <2>1. r.type = "UPDATE" => r.page \in Resource /\ r.before \in Image /\ r.after \in Image
    OBVIOUS
  <2>2. PICK i \in ThisRun(wal, t) :
          wal[i].page = p /\ (\A j \in UpdatesIn(wal, p) : j <= i) /\ image = wal[i].after
    BY <1>2 DEF LastOfRun
  <2>3. i \in ThisRun(wal', t)
    BY <2>1, RunAppend
  <2>4. /\ Continues(wal, wal')
        /\ \A j \in 1..Len(wal') : j \notin 1..Len(wal) => j = Len(wal) + 1 /\ wal'[j] = r
    BY <2>1, AppendContinues
  <2>5. wal'[i] = wal[i]
    BY <2>4, ContinuesFacts DEF ThisRun
  <2>6. NoneOf(wal, wal', {"UPDATE"})
    BY <2>4 DEF NoneOf
  <2>7. \A j \in UpdatesIn(wal', p) : j \in UpdatesIn(wal, p)
    <3> TAKE j \in UpdatesIn(wal', p)
    <3>1. j \in 1..Len(wal') /\ wal'[j].type = "UPDATE"
      BY DEF UpdatesIn
    <3>2. j \in 1..Len(wal)
      BY <2>4, <3>1
    <3> QED
      BY <2>4, <3>2, ContinuesFacts
  <2> QED
    BY <2>2, <2>3, <2>5, <2>7 DEF LastOfRun
<1> QED
  BY <1>1, <1>2 DEF RunsOn

(* The runs that go on over the end of another one.                          *)
LEMMA EndRuns ==
  ASSUME Undisturbed, HistInv, NEW t \in Tx, Forgets(t), KeepsPages \/ TakesBack(t),
         EndsOnly(wal, wal', t), \A v \in Tx : Active(v)' => Active(v) /\ v # t
  PROVE  \A v \in Tx : Active(v)' => RunOK(v)'
<1>0. MemoryTypeOK /\ TxInv /\ ~SweepOn
  BY DEF Undisturbed, TxInv, TypeInv
<1> SUFFICES ASSUME NEW v \in Tx, Active(v), v # t
             PROVE  RunOK(v)'
  OBVIOUS
<1>1. modifiedPages(v)' = modifiedPages(v) /\ modifiedPages(v) \subseteq Resource
  BY <1>0, ForgetsUndo, ModifiedType
<1>2. \A p \in modifiedPages(v) : Contents(p)' = Contents(p)
  <2> TAKE p \in modifiedPages(v)
  <2>1. p \in Resource /\ v \in Modifiers(p)
    BY <1>1 DEF Modifiers
  <2>2. t \notin Modifiers(p)
    BY <1>0, <2>1, OneModifier
  <2>3. p \notin modifiedPages(t)
    BY <2>2 DEF Modifiers
  <2> QED
    BY <2>1, <2>3 DEF KeepsPages, TakesBack
<1>3. /\ KeepsRun(wal, wal', v) /\ (AloneIn(wal, v) => AloneIn(wal', v))
      /\ Continues(wal, wal') /\ \A p : UpdatesIn(wal', p) = UpdatesIn(wal, p)
  BY DEF EndsOnly
<1>4. RunIn(wal, v, modifiedPages(v)) /\ \A p \in modifiedPages(v) : LastOfRun(wal, v, p, Contents(p))
  BY DEF HistInv, RunOK
<1>5. RunIn(wal', v, modifiedPages(v))
  BY <1>3, <1>4, RunInIs DEF KeepsRun
<1>6. \A p \in modifiedPages(v) : LastOfRun(wal', v, p, Contents(p))
  <2>1. ThisRun(wal', v) = ThisRun(wal, v)
    BY <1>3 DEF KeepsRun
  <2>2. \A i \in ThisRun(wal, v) : wal'[i] = wal[i]
    BY <1>3, ContinuesFacts DEF ThisRun
  <2> QED
    BY <1>3, <1>4, <2>1, <2>2 DEF LastOfRun
<1> QED
  BY <1>1, <1>2, <1>5, <1>6 DEF RunOK

(* A commit.                                                                 *)
LEMMA CommitHist ==
  ASSUME PoolInv, HistInv, TxInv', ~SweepOn, NEW t \in Tx, commit(t)
  PROVE  HistInv'
<1>0. TxInv /\ TypeInv /\ PoolTypeOK /\ MemoryTypeOK /\ GoodPool(pool, disk) /\ LogOK(wal)
  BY DEF PoolInv, TxInv, TypeInv
<1>0b. Undisturbed /\ Undisturbed'
  BY <1>0 DEF Undisturbed
<1>1. /\ Active(t) /\ up' = up
      /\ disk' = Flushed(modifiedPages(t)) /\ pool' = Cleaned(modifiedPages(t))
      /\ txState' = [txState EXCEPT ![t] = "committed"]
      /\ Forgets(t)
  BY DEF commit, Active, Forgets
<1>2. PICK r : r = CommitOf(t)
  OBVIOUS
<1>3. wal' = Append(wal, r) /\ r.type = "COMMIT" /\ r.tx = t
  BY <1>2 DEF commit, Log, CommitOf
<1>4. KeepsPages
  BY <1>0, <1>1, FlushKeeps DEF KeepsPages
<1>5. \A v \in Tx : Active(v)' => Active(v) /\ v # t
  BY <1>0, <1>1 DEF Active, MemoryTypeOK
<1>6. \A v \in Tx : Active(v)' => RunOK(v)'
  <2>1. EndOf(r, t) /\ Appends(wal, r, wal')
    BY <1>3 DEF EndOf, Appends
  <2>2. EndsOnly(wal, wal', t)
    BY <1>0, <2>1, EndRecord
  <2> QED
    BY <1>0b, <1>1, <1>4, <1>5, <2>2, EndRuns
<1>7. RunIn(wal, t, modifiedPages(t)) /\ \A p \in modifiedPages(t) : LastOfRun(wal, t, p, Contents(p))
  BY <1>1 DEF HistInv, RunOK
<1>8. wal' = Append(wal, r)
  BY <1>3
<1>10. ASSUME NEW p
       PROVE  HistoryCommits(wal, wal', t, modifiedPages(t), p)
  <2>1. RunIn(wal, t, modifiedPages(t))
    BY <1>7
  <2> QED
    BY <1>0, <1>2, <1>8, <2>1, CommitHistory
<1>13. CommittedShows'
  <2> SUFFICES ASSUME up', NEW p \in Resource, TrustedIn(wal', p)
               PROVE  WithoutActive(p)' = ImageIn(wal', p)
    BY DEF CommittedShows
  <2>1. WithoutActive(p)' = IF p \in modifiedPages(t) THEN Contents(p)' ELSE WithoutActive(p)
    BY <1>0b, <1>1, <1>4, EndsStore
  <2>2. CASE p \in modifiedPages(t)
    <3>1. ImageIn(wal', p) = Contents(p)
      BY <1>7, <1>10, <2>2 DEF HistoryCommits
    <3> QED
      BY <1>4, <2>1, <2>2, <3>1 DEF KeepsPages
  <2>3. CASE p \notin modifiedPages(t)
    <3>1. ImageIn(wal', p) = ImageIn(wal, p) /\ TrustedIn(wal, p)
      BY <1>10, <2>3 DEF HistoryCommits
    <3> QED
      BY <1>1, <2>1, <2>3, <3>1 DEF HistInv, CommittedShows
  <2> QED
    BY <2>2, <2>3
<1> QED
  BY <1>6, <1>13 DEF HistInv

(* An abort, perhaps of a commit: the pages it restores show what they did   *)
(* without it.                                                               *)
LEMMA UndoesHist ==
  ASSUME PoolInv, HistInv, TxInv', ~SweepOn, NEW t \in Tx, Active(t), Undoes(t),
         EndsOnly(wal, wal', t),
         \A p \in Resource : TrustedIn(wal', p) => TrustedIn(wal, p) /\ ImageIn(wal', p) = ImageIn(wal, p)
  PROVE  HistInv'
<1>0. TxInv /\ TypeInv /\ PoolTypeOK /\ MemoryTypeOK /\ GoodPool(pool, disk)
  BY DEF PoolInv, TxInv, TypeInv
<1>0b. Undisturbed /\ Undisturbed'
  BY <1>0 DEF Undisturbed
<1>1. /\ up' = up
      /\ disk' = Written(disk, Restores(t)) /\ pool' = Without(modifiedPages(t))
      /\ txState' = [txState EXCEPT ![t] = "aborted"]
      /\ Forgets(t)
  BY DEF Undoes, Forgets
<1>4. TakesBack(t)
  BY <1>0, <1>1, AbortRestores DEF TakesBack
<1>5. \A v \in Tx : Active(v)' => Active(v) /\ v # t
  BY <1>0, <1>1 DEF Active, MemoryTypeOK
<1>6. \A v \in Tx : Active(v)' => RunOK(v)'
  BY <1>0b, <1>1, <1>4, <1>5, EndRuns
<1>12. \A p \in Resource : WithoutActive(p)' = WithoutActive(p)
  <2> TAKE p \in Resource
  <2>1. WithoutActive(p)' = IF p \in modifiedPages(t) THEN Contents(p)' ELSE WithoutActive(p)
    BY <1>0b, <1>1, <1>4, EndsStore
  <2>2. p \in modifiedPages(t) => WithoutActive(p) = FirstBefore(t, p)
    BY <1>0b, WithoutActiveAlways DEF WithoutActiveFacts
  <2>3. p \in modifiedPages(t) => Contents(p)' = FirstBefore(t, p)
    BY <1>4 DEF TakesBack
  <2> QED
    BY <2>1, <2>2, <2>3
<1>13. CommittedShows'
  BY <1>1, <1>12 DEF HistInv, CommittedShows
<1> QED
  BY <1>6, <1>13 DEF HistInv

LEMMA AbortHist ==
  ASSUME PoolInv, HistInv, TxInv', ~SweepOn, NEW t \in Tx, abort(t)
  PROVE  HistInv'
<1>0. LogOK(wal)
  BY DEF PoolInv, TxInv, TypeInv
<1>1. Active(t) /\ Undoes(t)
  BY DEF abort
<1>2. PICK r : r = AbortOf(t)
  OBVIOUS
<1>3. wal' = Append(wal, r) /\ r.type = "ABORT" /\ r.tx = t
  BY <1>2 DEF abort, Log, AbortOf
<1>4. EndsOnly(wal, wal', t)
  <2>1. EndOf(r, t) /\ Appends(wal, r, wal')
    BY <1>3 DEF EndOf, Appends
  <2> QED
    BY <1>0, <2>1, EndRecord
<1>5. Continues(wal, wal') /\ NoneOf(wal, wal', {"COMMIT"})
  <2>1. NoUpdate(r) /\ Appends(wal, r, wal')
    BY <1>3 DEF NoUpdate, Appends
  <2>2. /\ Continues(wal, wal')
        /\ \A i \in 1..Len(wal') : i \notin 1..Len(wal) => i = Len(wal) + 1 /\ wal'[i] = r
    BY <1>0, <2>1, OtherContinues
  <2> QED
    BY <1>3, <2>2 DEF NoneOf
<1>6. (\A p : ImageIn(wal', p) = ImageIn(wal, p)) /\ (\A p : TrustedIn(wal', p) => TrustedIn(wal, p))
  BY <1>5, NothingCommitted
<1> QED
  BY <1>1, <1>4, <1>6, UndoesHist

LEMMA AbortCommittedHist ==
  ASSUME PoolInv, SafeInv, HistInv, TxInv', ~SweepOn, NEW t \in Tx, abortCommitted(t)
  PROVE  HistInv'
<1>1. RunSafe(t)
  BY DEF SafeInv, abortCommitted, Active
<1>2. /\ Active(t) /\ Undoes(t)
      /\ EndsOnly(wal, wal', t) /\ TakenBack(wal, wal', modifiedPages(t))
  BY <1>1, AbortCommittedLog
<1>3. \A p \in Resource :
        TrustedIn(wal', p) => TrustedIn(wal, p) /\ ImageIn(wal', p) = ImageIn(wal, p)
  BY <1>2 DEF TakenBack, TrustedIn
<1> QED
  BY <1>2, <1>3, UndoesHist

(* The end of the process.                                                   *)
LEMMA DieHist ==
  ASSUME Dies
  PROVE  HistInv'
<1>1. ~up' /\ \A t \in Tx : ~Active(t)'
  BY DEF Dies, Active
<1> QED
  BY <1>1 DEF HistInv, CommittedShows

(* A recovery.                                                               *)
LEMMA StartHist ==
  ASSUME PoolInv, SafeInv, NEW n \in Nat, NEW k \in Nat, start(n, k)
  PROVE  HistInv'
<1>0. TypeInv /\ PoolTypeOK /\ LogOK(wal) /\ Down
  BY DEF PoolInv, TxInv, TypeInv
<1> DEFINE writes == RecoveryWrites(readAll(wal))
<1>1. /\ ~up /\ n <= Len(writes) /\ disk' = Written(disk, SubSeq(writes, 1, n))
      /\ up' => n = Len(writes)
      /\ UNCHANGED pool /\ UNCHANGED txState /\ UNCHANGED undoLog
  BY DEF start, txVars
<1>2. /\ pool' = << >> /\ pool = << >>
      /\ \A t \in Tx : ~Active(t)' /\ undoLog'[t] = << >> /\ undoLog[t] = << >>
  BY <1>0, <1>1 DEF Down, Active
<1>3. \A p \in Resource : Contents(p)' = disk'[p]
  BY <1>2, NothingResident
<1>4. /\ LogOK(wal')
      /\ Len(wal) \in Nat /\ Len(wal') \in Nat /\ Len(wal) <= Len(wal')
      /\ \A i \in 1..Len(wal) : wal'[i] = wal[i]
      /\ \A i \in 1..Len(wal') : i \notin 1..Len(wal) => wal'[i].type \in {"ABORT", "TORN"}
  BY <1>0, StartLog
<1>5. Continues(wal, wal') /\ NoneOf(wal, wal', {"COMMIT"})
  BY <1>0, <1>4 DEF Continues, NoneOf
<1>7. (\A p : ImageIn(wal', p) = ImageIn(wal, p)) /\ (\A p : TrustedIn(wal', p) => TrustedIn(wal, p))
  BY <1>5, NothingCommitted
<1>10. n \in 0..Len(writes) /\ writes \in Seq(PageWrite)
  <2>1. LogOK(readAll(wal))
    BY <1>0, ReadableLog
  <2>2. writes \in Seq(PageWrite)
    BY <2>1, RecoveryWritesType
  <2> HIDE DEF writes
  <2> QED
    BY <1>1, <2>2
<1>11. CommittedShows'
  <2> SUFFICES ASSUME up', NEW p \in Resource, TrustedIn(wal', p)
               PROVE  WithoutActive(p)' = ImageIn(wal', p)
    BY DEF CommittedShows
  <2>1. disk' = Recovered(disk, wal)
    <3>1. SubSeq(writes, 1, Len(writes)) = writes
      <4> HIDE DEF writes
      <4> QED
        BY <1>10
    <3> QED
      BY <1>1, <3>1 DEF Recovered
  <2>2. TrustedIn(wal, p)
    BY <1>7
  <2>3. Readable(wal)
    BY <2>2 DEF TrustedIn
  <2>4. BornIn(wal) /\ BeforeIn(wal, p) /\ (UpdatesIn(wal, p) = {} => disk[p] = {})
    BY <2>3 DEF SafeInv, BirthLogged, Histories, UntouchedEmpty
  <2>5. disk \in [Resource -> Image]
    BY <1>0 DEF PoolTypeOK
  <2>6. Recovered(disk, wal)[p] = ImageIn(wal, p)
    BY <1>0, <2>2, <2>4, <2>5, RecoversCommitted
  <2>7. Contents(p)' = ImageIn(wal', p)
    BY <1>3, <1>7, <2>1, <2>6
  <2>8. \A t \in Tx : modifiedPages(t)' = {}
    BY <1>2, NoUndo
  <2>9. Modifiers(p)' = {}
    BY <2>8 DEF Modifiers
  <2> QED
    BY <2>7, <2>9 DEF WithoutActive
<1> QED
  BY <1>2, <1>11 DEF HistInv

(* A step without a record.                                                  *)
LEMMA SameLogHist ==
  ASSUME PoolInv, HistInv, UNCHANGED <<wal, undoLog>>, KeepsPages,
         up' => up, \A t \in Tx : Active(t)' => Active(t)
  PROVE  HistInv'
<1>0. TypeInv /\ LogOK(wal)
  BY DEF PoolInv, TxInv, TypeInv
<1>1. Continues(wal, wal') /\ NoneOf(wal, wal', {"COMMIT"})
  <2>1. Len(wal) \in Nat
    BY <1>0 DEF LogOK
  <2> QED
    BY <1>0, <2>1 DEF Continues, NoneOf
<1>2. \A t \in Tx : Active(t)' => RunsOn(t)
  BY DEF RunsOn
<1>3. UNCHANGED undoLog
  OBVIOUS
<1> QED
  BY <1>0, <1>1, <1>2, <1>3, StillHist

(* A record that is neither an update nor the end of a transaction.          *)
LEMMA RecordHist ==
  ASSUME PoolInv, HistInv, NEW r, r.type \in {"BEGIN", "CHECKPOINT"}, wal' = Append(wal, r),
         UNCHANGED undoLog, KeepsPages, up' => up,
         \A t \in Tx : Active(t)' =>
           \/ Active(t) /\ ~(r.type = "BEGIN" /\ r.tx = t)
           \/ r = BeginOf(t) /\ undoLog[t] = << >>
  PROVE  HistInv'
<1>0. TypeInv /\ LogOK(wal)
  BY DEF PoolInv, TxInv, TypeInv
<1>1. r.type # "UPDATE"
  OBVIOUS
<1>2. /\ Continues(wal, wal') /\ Len(wal') = Len(wal) + 1 /\ wal'[Len(wal) + 1] = r
      /\ \A i \in 1..Len(wal') : i \notin 1..Len(wal) => i = Len(wal) + 1 /\ wal'[i] = r
  BY <1>0, <1>1, AppendContinues
<1>3. NoneOf(wal, wal', {"COMMIT"})
  BY <1>2 DEF NoneOf
<1>4. ASSUME NEW t \in Tx, Active(t), ~(r.type = "BEGIN" /\ r.tx = t)
      PROVE  RunsOn(t)
  <2>1. r # [type |-> "BEGIN", tx |-> t] /\ r # [type |-> "COMMIT", tx |-> t]
    <3>1. [type |-> "BEGIN", tx |-> t].type = "BEGIN" /\ [type |-> "BEGIN", tx |-> t].tx = t
          /\ [type |-> "COMMIT", tx |-> t].type = "COMMIT"
      OBVIOUS
    <3> QED
      BY <1>4, <3>1
  <2> QED
    BY <1>0, <1>1, <1>4, <2>1, RunPasses
<1>5. \A t \in Tx : r = BeginOf(t) => ThisRun(wal', t) = {}
  BY <1>0, RunBegins
<1>6. \A t \in Tx : Active(t)' =>
        RunsOn(t) \/ (ThisRun(wal', t) = {} /\ undoLog[t] = << >>)
  BY <1>4, <1>5
<1>7. Continues(wal, wal')
  BY <1>2
<1> QED
  BY <1>0, <1>3, <1>6, <1>7, StillHist

(* The inductive step.                                                       *)
LEMMA HistStep ==
  ASSUME PoolInv, SafeInv, HistInv, TxInv', ~SweepOn, [Next]_vars
  PROVE  HistInv'
<1>0. PoolTypeOK /\ MemoryTypeOK /\ TypeInv /\ TxInv /\ GoodPool(pool, disk)
  BY DEF PoolInv, TxInv, TypeInv
<1>w. \A t \in Tx : want[t] # NoAccess => want[t].page \in Resource /\ txState[t] = "active"
  BY <1>0, AccessFacts DEF MemoryTypeOK, TxInv, LockUse
<1>1. ASSUME UNCHANGED <<pool, disk>>
      PROVE  KeepsPages
  BY <1>1 DEF KeepsPages, Contents, Resident, FrameOf
<1>2. ASSUME NEW t \in Tx, txState[t] = "active", txState' = [txState EXCEPT ![t] = "throwing"]
      PROVE  \A v \in Tx : Active(v)' => Active(v)
  BY <1>0, <1>2 DEF Active, MemoryTypeOK
<1>3. ASSUME NEW t \in Tx, read(t) \/ refuse(t)
      PROVE  HistInv'
  <2>1. /\ want[t].page \in Resource /\ fetchPage(want[t].page) /\ txState[t] = "active"
        /\ UNCHANGED <<wal, undoLog>> /\ up' = up
        /\ txState' = txState \/ txState' = [txState EXCEPT ![t] = "throwing"]
    BY <1>3, <1>w DEF read, refuse, Resumes
  <2>2. KeepsPages
    BY <1>0, <2>1, FetchKeeps DEF KeepsPages
  <2>4. \A v \in Tx : Active(v)' => Active(v)
    <3>1. CASE txState' = txState
      BY <3>1 DEF Active
    <3> QED
      BY <1>2, <2>1, <3>1
  <2> QED
    BY <2>1, <2>2, <2>4, SameLogHist
<1>4. ASSUME NEW t \in Tx, begin(t)
      PROVE  HistInv'
  <2>1. PICK r : r = BeginOf(t)
    OBVIOUS
  <2>2. r.type = "BEGIN" /\ r.tx = t /\ wal' = Append(wal, r)
    BY <1>4, <2>1 DEF begin, Log, BeginOf
  <2>3. /\ UNCHANGED <<pool, disk>> /\ UNCHANGED undoLog /\ up' = up
        /\ txState' = [txState EXCEPT ![t] = "active"]
    BY <1>4 DEF begin
  <2>4. undoLog[t] = << >>
    <3>1. txState[t] = "unborn"
      BY <1>0, <1>4 DEF begin, TxInv, BirthOrder, MemoryTypeOK
    <3> QED
      BY <1>0, <3>1 DEF TxInv, LockUse, Active
  <2>5. \A v \in Tx : Active(v)' =>
          \/ Active(v) /\ ~(r.type = "BEGIN" /\ r.tx = v)
          \/ r = BeginOf(v) /\ undoLog[v] = << >>
    <3> SUFFICES ASSUME NEW v \in Tx, Active(v)', v # t
                 PROVE  Active(v)
      BY <2>1, <2>2, <2>4
    <3> QED
      BY <1>0, <2>3 DEF Active, MemoryTypeOK
  <2>6. r.type \in {"BEGIN", "CHECKPOINT"}
    BY <2>2
  <2> QED
    BY <1>1, <2>2, <2>3, <2>5, <2>6, RecordHist
<1>5. ASSUME checkpoint
      PROVE  HistInv'
  <2>1. PICK r : r = [type |-> "CHECKPOINT", tx |-> 0]
    OBVIOUS
  <2>2. r.type = "CHECKPOINT" /\ wal' = Append(wal, r)
    BY <1>5, <2>1 DEF checkpoint, Log
  <2>3. /\ disk' = Flushed(Resource) /\ pool' = Cleaned(Resource)
        /\ UNCHANGED undoLog /\ UNCHANGED txState /\ up' = up
    BY <1>5 DEF checkpoint, txVars
  <2>4. KeepsPages
    BY <1>0, <2>3, FlushKeeps DEF KeepsPages
  <2>6. \A v \in Tx : Active(v)' =>
          \/ Active(v) /\ ~(r.type = "BEGIN" /\ r.tx = v)
          \/ r = BeginOf(v) /\ undoLog[v] = << >>
    BY <2>2, <2>3 DEF Active
  <2>7. r.type \in {"BEGIN", "CHECKPOINT"}
    BY <2>2
  <2> QED
    BY <2>2, <2>3, <2>4, <2>6, <2>7, RecordHist
<1>6. ASSUME UNCHANGED <<pool, disk>>, UNCHANGED <<wal, undoLog>>, up' = up,
             \A v \in Tx : Active(v)' => Active(v)
      PROVE  HistInv'
  BY <1>1, <1>6, SameLogHist
<1>7. ASSUME NEW t \in Tx, throw(t)
      PROVE  HistInv'
  <2>1. /\ txState[t] = "active" /\ txState' = [txState EXCEPT ![t] = "throwing"]
        /\ UNCHANGED <<pool, disk>> /\ UNCHANGED <<wal, undoLog>> /\ up' = up
    BY <1>7, <1>w DEF throw
  <2> QED
    BY <1>2, <1>6, <2>1
<1>8. ASSUME NEW t \in Tx, NEW op, NEW p, acquireLock(t, op, p) \/ lockTimeout(t, p)
      PROVE  HistInv'
  <2>1. /\ UNCHANGED <<pool, disk>> /\ UNCHANGED <<wal, undoLog>> /\ up' = up
        /\ UNCHANGED txState
    BY <1>8 DEF acquireLock, lockTimeout, txVars
  <2> QED
    BY <1>6, <2>1 DEF Active
<1>9. ASSUME UNCHANGED vars
      PROVE  HistInv'
  <2>1. /\ UNCHANGED <<pool, disk>> /\ UNCHANGED <<wal, undoLog>> /\ up' = up
        /\ UNCHANGED txState
    BY <1>9 DEF vars, txVars
  <2> QED
    BY <1>6, <2>1 DEF Active
<1>10. ~sweep
  BY DEF sweep
<1>11. ASSUME NEW t \in Tx, TxStep(t)
       PROVE  HistInv'
  BY <1>3, <1>4, <1>7, <1>8, <1>11, WriteHist, CommitHist, AbortHist, AbortCommittedHist DEF TxStep
<1>12. ASSUME NEW n \in 0..Len(wal), NEW k \in 0..Len(wal), start(n, k)
       PROVE  HistInv'
  BY <1>12, StartHist
<1>13. ASSUME NEW t \in Tx, NEW n \in 0..Len(undoLog[t]), crashInCommit(t, n) \/ crashInAbort(t, n)
       PROVE  HistInv'
  BY <1>13, DieHist DEF crashInCommit, crashInAbort
<1>14. ASSUME crash \/ crashInAppend \/ stop
       PROVE  HistInv'
  BY <1>14, DieHist DEF crash, crashInAppend, stop
<1> QED
  BY <1>5, <1>9, <1>10, <1>11, <1>12, <1>13, <1>14 DEF Next

(* So both layers of the invariant hold throughout.                          *)
LEMMA HistAlways ==
  ASSUME ~SweepOn
  PROVE  Spec => [](PoolInv /\ HistInv)
<1>1. Init => HistInv
  BY HistInit
<1>2. PoolInv /\ SafeInv /\ [Next]_vars => TxInv'
  BY TxInvStep DEF PoolInv
<1>3. PoolInv /\ SafeInv /\ HistInv /\ [Next]_vars => HistInv'
  BY <1>2, HistStep
<1>4. Spec => [](PoolInv /\ SafeInv)
  BY SafeAlways
<1> QED
  BY <1>1, <1>3, <1>4, PTL DEF Spec

(* What transactions see, without the sweep: a trusted page that no running  *)
(* transaction has changed contains its last committed image, in the pool or *)
(* in the data file.                                                         *)
THEOREM CommittedImagesShow ==
  ASSUME ~SweepOn
  PROVE  Spec => []CommittedIsVisible
<1>1. PoolInv /\ HistInv => CommittedIsVisible
  BY HistCommittedIsVisible DEF PoolInv, Undisturbed
<1>2. Spec => [](PoolInv /\ HistInv)
  BY HistAlways
<1> QED
  BY <1>1, <1>2, PTL
=============================================================================
