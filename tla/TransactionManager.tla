------------------------- MODULE TransactionManager -------------------------
(***************************************************************************)
(* Transactions over the lock table, the page cache, the log and the data  *)
(* file: src/engine/transaction/TransactionManager.js, with the restart    *)
(* and shutdown of src/engine/Engine.js.                                   *)
(*                                                                         *)
(* JavaScript runs one turn at a time.  A step is what a transaction does  *)
(* from one await to the next: asking for a lock ends a turn even when the *)
(* lock is granted at once, and the read or write it was asked for is a    *)
(* later turn of its own.  A turn makes all its file writes without        *)
(* yielding, but the process may die between two of them.                  *)
(*                                                                         *)
(* Transaction identifiers start again from 1 in every process.  What the  *)
(* process wrote is in the files when it dies; a lost write-back cache of  *)
(* the operating system is not modelled.                                   *)
(***************************************************************************)
EXTENDS DeadlockDetector, BufferPool, RecoveryManager

CONSTANTS
  SweepOn,         \* whether the deadlock sweep runs
  TornAppends,     \* whether a crash may cut off a log record
  MaxWrites,       \* bound: UPDATE records in the log
  MaxCheckpoints,  \* bound: checkpoints
  MaxBoots         \* bound: starts of the engine, those that crash included

ASSUME TransactionAssumption ==
  /\ SweepOn \in BOOLEAN /\ TornAppends \in BOOLEAN
  /\ MaxWrites \in Nat /\ MaxCheckpoints \in Nat /\ MaxBoots \in Nat \ {0}

VARIABLES
  txState,          \* [Tx -> state of the transaction with this identifier]
  want,             \* [Tx -> the access it awaits a lock for]
  undoLog,          \* [Tx -> the before-images of its writes]
  deadlockVictims,  \* transactions marked by the sweep
  nextTxId,
  wal,              \* the log file
  up,               \* whether the engine is running
  boot              \* which start of the engine this is

txVars == <<txState, want, undoLog, deadlockVictims, nextTxId>>
vars == <<lockVars, txVars, pool, disk, wal, up, boot>>

(* An image is the set of the updates applied to the page; an update is      *)
(* named by the process, the transaction and its place among its writes.     *)
Update == (1..MaxBoots) \X Tx \X (1..MaxWrites)
Image  == SUBSET Update

NoAccess == [op |-> "none"]
Access   == [op : {"read", "write"}, page : Resource]
TxState  == {"unborn", "active", "throwing", "committed", "aborted"}

TxTypeOK ==
  /\ LockTypeOK
  /\ txState \in [Tx -> TxState]
  /\ want \in [Tx -> Access \cup {NoAccess}]
  /\ undoLog \in [Tx -> Seq([page : Resource, before : Image])]
  /\ deadlockVictims \subseteq Tx
  /\ nextTxId \in Nat
  /\ pool \in Seq([page : Resource, image : Image, dirty : BOOLEAN])
  /\ disk \in [Resource -> Image]
  /\ up \in BOOLEAN /\ boot \in 1..MaxBoots

ModeOf(op) == IF op = "read" THEN "S" ELSE "X"

Touched(t, I) == {undoLog[t][i].page : i \in I}
modifiedPages(t) == Touched(t, 1..Len(undoLog[t]))

Active(t) == txState[t] \in {"active", "throwing"}

-----------------------------------------------------------------------------
Init ==
  /\ LockInit
  /\ txState = [t \in Tx |-> "unborn"]
  /\ want = [t \in Tx |-> NoAccess]
  /\ undoLog = [t \in Tx |-> << >>]
  /\ deadlockVictims = {}
  /\ nextTxId = 1
  /\ pool = << >>
  /\ disk = [p \in Resource |-> {}]
  /\ wal = << >>
  /\ up = TRUE
  /\ boot = 1

Log(record) == wal' = Append(wal, record)

Records(type) == {i \in 1..Len(wal) : wal[i].type = type}

begin(t) ==
  /\ up /\ t = nextTxId
  /\ nextTxId' = nextTxId + 1
  /\ txState' = [txState EXCEPT ![t] = "active"]
  /\ Log([type |-> "BEGIN", tx |-> t])
  /\ UNCHANGED <<lockVars, want, undoLog, deadlockVictims, pool, disk, up, boot>>

(* acquireLock up to its await. *)
acquireLock(t, op, p) ==
  /\ txState[t] = "active" /\ want[t] = NoAccess
  /\ Acquire(t, p, ModeOf(op))
  /\ want' = [want EXCEPT ![t] = [op |-> op, page |-> p]]
  /\ UNCHANGED <<txState, undoLog, deadlockVictims, nextTxId, pool, disk, wal, up, boot>>

(* Mutant of Resumes: the access is only half forgotten. *)
ResumesHalf(t, op) ==
  /\ want[t] # NoAccess /\ want[t].op = op
  /\ promise[t] = "granted" /\ t \notin deadlockVictims
  /\ want' = [want EXCEPT ![t].op = "none"]

(* The await of acquireLock returned, and assertActive lets t go on. *)
Resumes(t, op) ==
  /\ want[t] # NoAccess /\ want[t].op = op
  /\ promise[t] = "granted" /\ t \notin deadlockVictims
  /\ want' = [want EXCEPT ![t] = NoAccess]

read(t) ==
  /\ Resumes(t, "read")
  /\ fetchPage(want[t].page)
  /\ UNCHANGED <<lockVars, txState, undoLog, deadlockVictims, nextTxId, wal, up, boot>>

write(t) ==
  LET p      == want[t].page
      before == Contents(p)
      after  == before \cup {<<boot, t, Len(undoLog[t]) + 1>>}
  IN  /\ Resumes(t, "write")
      /\ Cardinality(Records("UPDATE")) < MaxWrites
      /\ modifyPage(p, after)
      /\ Log([type |-> "UPDATE", tx |-> t, page |-> p, before |-> before, after |-> after])
      /\ undoLog' = [undoLog EXCEPT ![t] = Append(@, [page |-> p, before |-> before])]
      /\ UNCHANGED <<lockVars, txState, deadlockVictims, nextTxId, up, boot>>

(* The version check of write fails, or its mutator finds the page full. *)
refuse(t) ==
  /\ Resumes(t, "write")
  /\ fetchPage(want[t].page)
  /\ txState' = [txState EXCEPT ![t] = "throwing"]
  /\ UNCHANGED <<lockVars, undoLog, deadlockVictims, nextTxId, wal, up, boot>>

(* Mutant of throw: a rejected request goes unnoticed. *)
throwIfVictim(t) ==
  /\ want[t] # NoAccess
  /\ promise[t] = "granted" /\ t \in deadlockVictims
  /\ deadlockVictims' = deadlockVictims \ {t}
  /\ want' = [want EXCEPT ![t] = NoAccess]
  /\ txState' = [txState EXCEPT ![t] = "throwing"]
  /\ UNCHANGED <<lockVars, undoLog, nextTxId, pool, disk, wal, up, boot>>

(* acquireLock throws: the request was rejected, or t is a victim. *)
throw(t) ==
  /\ want[t] # NoAccess
  /\ \/ promise[t] = "rejected" /\ UNCHANGED deadlockVictims
     \/ /\ promise[t] = "granted" /\ t \in deadlockVictims
        /\ deadlockVictims' = deadlockVictims \ {t}
  /\ want' = [want EXCEPT ![t] = NoAccess]
  /\ txState' = [txState EXCEPT ![t] = "throwing"]
  /\ UNCHANGED <<lockVars, undoLog, nextTxId, pool, disk, wal, up, boot>>

CommitOf(t) == [type |-> "COMMIT", tx |-> t]

commit(t) ==
  /\ txState[t] = "active" /\ want[t] = NoAccess
  /\ Log(CommitOf(t))
  /\ disk' = Flushed(modifiedPages(t)) /\ pool' = Cleaned(modifiedPages(t))
  /\ txState' = [txState EXCEPT ![t] = "committed"]
  /\ undoLog' = [undoLog EXCEPT ![t] = << >>]
  /\ ReleaseAll(t)
  /\ UNCHANGED <<want, deadlockVictims, nextTxId, up, boot>>

(* Mutant of Restores: oldest before-image first. *)
RestoresForward(t) ==
  [i \in 1..Len(undoLog[t]) |-> [page |-> undoLog[t][i].page, image |-> undoLog[t][i].before]]

(* The page writes of abort, newest before-image first. *)
Restores(t) ==
  LET log == Reverse(undoLog[t])
  IN  [i \in 1..Len(log) |-> [page |-> log[i].page, image |-> log[i].before]]

(* Everything abort does but its log record. *)
Undoes(t) ==
  /\ disk' = Written(disk, Restores(t)) /\ pool' = Without(modifiedPages(t))
  /\ txState' = [txState EXCEPT ![t] = "aborted"]
  /\ undoLog' = [undoLog EXCEPT ![t] = << >>]
  /\ deadlockVictims' = deadlockVictims \ {t}
  /\ ReleaseAll(t)
  /\ UNCHANGED <<want, nextTxId, up, boot>>

(* The caller gives up, or an exception of its own reaches it. *)
abort(t) ==
  /\ Active(t) /\ want[t] = NoAccess
  /\ Undoes(t)
  /\ Log([type |-> "ABORT", tx |-> t])

(* The caller commits, throws, and aborts: abort refuses only what it has    *)
(* aborted before, so the COMMIT is followed by an ABORT and the pages that  *)
(* commit flushed are restored.  executeEdit does so when publish throws.    *)
(* One step, because the caller is the first to run after the commit: who    *)
(* the commit gives a lock to needs two more turns to reach the page.        *)
abortCommitted(t) ==
  /\ txState[t] = "active" /\ want[t] = NoAccess /\ undoLog[t] # << >>
  /\ Undoes(t)
  /\ wal' = Append(Append(wal, CommitOf(t)), [type |-> "ABORT", tx |-> t])

(* The timer of a lock request. *)
lockTimeout(t, p) ==
  /\ Timeout(t, p)
  /\ UNCHANGED <<txVars, pool, disk, wal, up, boot>>

(* Mutant of sweep: victims are not marked. *)
sweepUnmarked ==
  /\ SweepOn /\ up
  /\ Detect
  /\ UNCHANGED <<txState, want, undoLog, deadlockVictims, nextTxId, pool, disk, wal, up, boot>>

(* A sweep of the detector, whose victims go to markDeadlockVictim. *)
sweep ==
  /\ SweepOn /\ up
  /\ Detect
  /\ deadlockVictims' = deadlockVictims \cup Victims
  /\ UNCHANGED <<txState, want, undoLog, nextTxId, pool, disk, wal, up, boot>>

checkpoint ==
  /\ up /\ Cardinality(Records("CHECKPOINT")) < MaxCheckpoints
  /\ disk' = Flushed(Resource) /\ pool' = Cleaned(Resource)
  /\ Log([type |-> "CHECKPOINT", tx |-> 0])
  /\ UNCHANGED <<lockVars, txVars, up, boot>>

-----------------------------------------------------------------------------
(* The process ends: nothing in memory is left. *)
Dies ==
  /\ up /\ up' = FALSE
  /\ boot < MaxBoots /\ UNCHANGED boot
  /\ lockTable' = EmptyTable /\ promise' = NoPromise
  /\ txState' = [t \in Tx |-> "unborn"]
  /\ want' = [t \in Tx |-> NoAccess]
  /\ undoLog' = [t \in Tx |-> << >>]
  /\ deadlockVictims' = {}
  /\ nextTxId' = 1
  /\ pool' = << >>

crash == Dies /\ UNCHANGED <<disk, wal>>

(* The commit of t got as far as its first n page writes. *)
crashInCommit(t, n) ==
  /\ txState[t] = "active" /\ want[t] = NoAccess
  /\ Dies
  /\ Log(CommitOf(t))
  /\ disk' = Flushed(Touched(t, 1..n))

(* The abort of t got as far as its first n page writes, perhaps after a     *)
(* commit.                                                                   *)
crashInAbort(t, n) ==
  /\ Active(t) /\ want[t] = NoAccess
  /\ Dies
  /\ \/ UNCHANGED wal /\ disk' = Written(disk, SubSeq(Restores(t), 1, n))
     \/ /\ txState[t] = "active" /\ Log(CommitOf(t))
        /\ disk' = Written(Flushed(modifiedPages(t)), SubSeq(Restores(t), 1, n))

(* The append of a record is cut off: a BEGIN, an UPDATE or a COMMIT, whose  *)
(* turn wrote no page yet, the ABORT that follows on the page writes of an   *)
(* abort, or the CHECKPOINT that follows on a flush.                         *)
Torn == [type |-> "TORN", tx |-> 0]

crashInAppend ==
  /\ TornAppends
  /\ Dies
  /\ \/ Log(Torn) /\ disk' \in {disk, Flushed(Resource)}
     \/ \E t \in Tx :
          /\ Active(t) /\ want[t] = NoAccess
          /\ disk' = Written(disk, Restores(t))
          /\ \/ Log(Torn)
             \/ txState[t] = "active" /\ wal' = Append(Append(wal, CommitOf(t)), Torn)

(* Engine.stop flushes every page and waits for no transaction. *)
stop ==
  /\ Dies
  /\ disk' = Flushed(Resource)
  /\ UNCHANGED wal

(* Engine.start: recovery gets as far as its first n page writes and, when   *)
(* it has made them all, its first k log records, of which the next one may  *)
(* be cut off.                                                               *)
start(n, k) ==
  LET writes == RecoveryWrites(readAll(wal))
      aborts == AbortRecords(readAll(wal))
      logged == wal \o SubSeq(aborts, 1, k)
  IN  /\ ~up /\ boot < MaxBoots /\ boot' = boot + 1
      /\ n <= Len(writes) /\ k <= Len(aborts)
      /\ k > 0 => n = Len(writes)
      /\ disk' = Written(disk, SubSeq(writes, 1, n))
      /\ \/ wal' = logged
         \/ TornAppends /\ n = Len(writes) /\ k < Len(aborts) /\ wal' = Append(logged, Torn)
      /\ up' = (n = Len(writes) /\ k = Len(aborts))
      /\ UNCHANGED <<lockVars, txVars, pool>>

-----------------------------------------------------------------------------
TxStep(t) ==
  \/ begin(t) \/ read(t) \/ write(t) \/ refuse(t) \/ throw(t)
  \/ commit(t) \/ abort(t) \/ abortCommitted(t)
  \/ \E p \in Resource, op \in {"read", "write"} :
       ModeOf(op) \in Mode /\ acquireLock(t, op, p)
  \/ \E p \in Resource : lockTimeout(t, p)

Next ==
  \/ \E t \in Tx : TxStep(t)
  \/ sweep
  \/ checkpoint
  \/ crash \/ crashInAppend \/ stop
  \/ \E t \in Tx : \E n \in 0..Len(undoLog[t]) : crashInCommit(t, n) \/ crashInAbort(t, n)
  \/ \E n, k \in 0..Len(wal) : start(n, k)

Spec == Init /\ [][Next]_vars

(* A turn that may run runs, timers that are due fire, and a transaction     *)
(* does not access pages forever: its work comes to a COMMIT or an ABORT.    *)
FairSpec ==
  /\ Spec
  /\ WF_vars(sweep)
  /\ \A t \in Tx : /\ WF_vars(read(t) \/ write(t) \/ refuse(t) \/ throw(t))
                   /\ WF_vars(\E p \in Resource : lockTimeout(t, p))
                   /\ SF_vars(commit(t) \/ abort(t) \/ abortCommitted(t))

-----------------------------------------------------------------------------
(* The image of p without the writes of a transaction that has not ended:    *)
(* the before-image of its first write of p.                                 *)
Modifiers(p) == {t \in Tx : p \in modifiedPages(t)}

WithoutActive(p) ==
  IF Modifiers(p) = {} THEN Contents(p)
  ELSE LET t == CHOOSE t \in Modifiers(p) : TRUE
           i == Min({j \in 1..Len(undoLog[t]) : undoLog[t][j].page = p})
       IN  undoLog[t][i].before

(* All or nothing.  Without crashes and without the sweep, the pages the     *)
(* transactions see change as AtomicStore lets them: every write starts from *)
(* the committed image or the transaction's own, a commit installs all of a  *)
(* transaction's images at once, and an abort takes all of them back, however *)
(* evictions have scattered them between the pool and the data file.         *)
Store == INSTANCE AtomicStore WITH
  Page    <- Resource,
  store   <- [p \in Resource |-> WithoutActive(p)],
  pending <- [t \in Tx |-> [p \in modifiedPages(t) |-> Contents(p)]]

ImplementsAtomicStore == Store!StoreSpec

(* "no other transaction can have read uncommitted data"                     *)
(* (docs/algorithms/deadlock-detection.md:24): a page is fetched by one      *)
(* transaction only while no other one has changes of it to undo.            *)
NoDirtyReadStep ==
  \A t \in Tx :
    read(t) \/ write(t) => Modifiers(want[t].page) \subseteq {t}

NoDirtyRead == [][NoDirtyReadStep]_vars

(* Nothing outlives a transaction.  One that has ended holds no lock, has no *)
(* request in a queue, awaits nothing and is no victim, whatever was granted *)
(* or rejected while it was on its way out.                                  *)
EndedLeavesNothing ==
  \A t \in Tx :
    txState[t] \in {"committed", "aborted"} =>
      /\ want[t] = NoAccess /\ t \notin deadlockVictims
      /\ \A p \in Resource : lockTable[p].holders[t] = "none" /\ ~Queued(lockTable[p], t)

(* Two-phase locking, as far as it goes.  A transaction that can still       *)
(* commit holds an exclusive lock on every page it has changed: only one     *)
(* that is marked a victim, and so cannot commit, has lost them.             *)
CommitHoldsLocks ==
  \A t \in Tx : txState[t] = "active" /\ t \notin deadlockVictims =>
    \A p \in modifiedPages(t) : lockTable[p].holders[t] = "X"

(* A clean frame of the pool has the image of the data file: a commit, an    *)
(* abort or an eviction never leaves a stale page to be fetched.             *)
CleanFramesMatchDisk ==
  /\ Len(pool) <= Frames
  /\ \A i \in 1..Len(pool) :
       LET f == pool[i]
       IN  /\ ~f.dirty => f.image = disk[f.page]
           /\ \A j \in 1..Len(pool) : j # i => pool[j].page # f.page

(* No transaction stays open: with request timeouts on, each one commits or  *)
(* aborts, whatever the others wait for.                                     *)
EveryTransactionEnds ==
  \A t \in Tx : Active(t) ~> ~Active(t)

-----------------------------------------------------------------------------
(* What the log says must be on disk.  An update is committed if a COMMIT of *)
(* its transaction follows before the identifier is given out again.         *)
UpdatesTo(p) == {i \in Records("UPDATE") : wal[i].page = p}

(* A later record of this type, of the same transaction in the same life.    *)
Followed(i, type) ==
  \E c \in (i+1)..Len(wal) :
    /\ wal[c] = [type |-> type, tx |-> wal[i].tx]
    /\ \A b \in i..c : wal[b] # [type |-> "BEGIN", tx |-> wal[i].tx]

Committed(i) == Followed(i, "COMMIT")

CommittedImage(p) ==
  LET done == {i \in UpdatesTo(p) : Committed(i)}
  IN  IF done = {} THEN {} ELSE wal[Max(done)].after

(* The pages restart recovery gets wrong (README.md, 4): an identifier       *)
(* used again makes an update count as its later owner's, an update of a     *)
(* loser, undone long ago, is undone again over a winner's later one, or an  *)
(* update that was committed and then aborted is redone.                     *)
Misjudged(p) == \E i \in UpdatesTo(p) : wal[i].tx \in winners(wal) /\ ~Committed(i)

StaleLoser(p) ==
  \E i, j \in UpdatesTo(p) : i < j /\ wal[i].tx \in losers(wal) /\ wal[j].tx \in winners(wal)

UndoneCommit(p) == \E i \in UpdatesTo(p) : Committed(i) /\ Followed(i, "ABORT")

(* Nothing was appended behind a torn record: readAll, which goes by the     *)
(* length the torn record declares, does not find it, or misreads it.        *)
Readable(log) == \A i \in 1..Len(log) : log[i].type = "TORN" => i = Len(log)

Trusted(p) == ~Misjudged(p) /\ ~StaleLoser(p) /\ ~UndoneCommit(p) /\ Readable(wal)

(* Durability at every instant.  If the process died now, in the middle of   *)
(* a transaction, of a commit, of an abort or of a recovery, the next        *)
(* recovery would leave every trusted page at its last committed image.      *)
CrashIsSafe ==
  LET recovered == Recovered(disk, wal)
  IN  \A p \in Resource : Trusted(p) => recovered[p] = CommittedImage(p)

(* Running transactions see the committed image of every trusted page that   *)
(* none of them has changed.                                                 *)
CommittedIsVisible ==
  up => \A p \in Resource :
          Trusted(p) /\ Modifiers(p) = {} => Contents(p) = CommittedImage(p)

(* "writing an after-image twice is harmless, which is what makes a crash    *)
(* during recovery survivable" (RecoveryManager.js:17): a recovery cut short *)
(* and run again leaves what one alone would have left, on every page.       *)
RecoveryIsIdempotent ==
  [][~up /\ Readable(wal') => Recovered(disk', wal') = Recovered(disk, wal)]_vars

(* "a COMMIT record exists -> its work must survive" (RecoveryManager.js:12): *)
(* after a restart every page still has the updates committed to it, but for *)
(* one whose commit was taken back.                                          *)
WinnersSurvive ==
  up => \A p \in Resource : UndoneCommit(p) \/ CommittedImage(p) \subseteq Contents(p)

(* "BEGIN with no COMMIT -> its work must vanish" (RecoveryManager.js:13):   *)
(* a page nobody is changing has only updates that were committed.           *)
LosersVanish ==
  up => \A p \in Resource :
          Modifiers(p) = {} =>
            \A i \in UpdatesTo(p) :
              Committed(i) \/ Contents(p) \cap (wal[i].after \ wal[i].before) = {}
=============================================================================
