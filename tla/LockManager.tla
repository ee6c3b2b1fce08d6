---------------------------- MODULE LockManager ----------------------------
(***************************************************************************)
(* The page lock table of the engine: src/engine/lock/LockManager.js.      *)
(*                                                                         *)
(* Every method of the class is synchronous, so one method call is one     *)
(* step; what interleaves is the ORDER of the calls the transactions make  *)
(* between their awaits, of the request timers and of releaseAll, which    *)
(* the deadlock detector calls on behalf of a transaction that is waiting. *)
(*                                                                         *)
(* An entry with neither holders nor waiters stands for an absent one      *)
(* (pruneEmpty is invisible here).  The counters and waitedMs are left     *)
(* out: nothing in the engine decides on them.                             *)
(***************************************************************************)
EXTENDS Naturals, Sequences, FiniteSets, SequencesExt

CONSTANTS
  Tx,          \* transaction identifiers
  Resource,    \* lock table keys, one per page
  Mode,        \* the modes the clients ask for, a subset of {"S", "X"}
  TimeoutsOn   \* whether timeoutMs > 0

ASSUME LockAssumption == /\ Mode \subseteq {"S", "X"}
                         /\ TimeoutsOn \in BOOLEAN

VARIABLES
  lockTable,   \* [Resource -> LockInfo]
  promise      \* [Tx -> state of the promise its last acquire returned]

lockVars == <<lockTable, promise>>

LockRequest == [tx : Tx, mode : {"S", "X"}]
LockInfo    == [holders : [Tx -> {"none", "S", "X"}], waitQueue : Seq(LockRequest)]
Promise     == {"none", "pending", "granted", "rejected"}

LockTypeOK ==
  /\ lockTable \in [Resource -> LockInfo]
  /\ promise \in [Tx -> Promise]

-----------------------------------------------------------------------------
(* Queries on one lock table entry. *)

(* Mutant of isCompatible: readers do not mind a writer. *)
ReadersPass(requested, held) == requested = "S"

isCompatible(requested, held) == requested = "S" /\ held = "S"

(* No holder other than t rules the mode out. *)
OthersAllow(holders, t, mode) ==
  \A u \in Tx \ {t} : holders[u] # "none" => isCompatible(mode, holders[u])

Queued(info, t) == \E i \in 1..Len(info.waitQueue) : info.waitQueue[i].tx = t

(* Mutant of AlreadyHolds: any lock will do. *)
HoldsSomething(info, t, mode) == info.holders[t] # "none"

(* Rule 1 of acquire. *)
AlreadyHolds(info, t, mode) ==
  info.holders[t] \in {mode, "X"}

(* Rule 2: S to X while the only holder, whoever is queued. *)
CanUpgrade(info, t, mode) ==
  /\ info.holders[t] = "S" /\ mode = "X"
  /\ \A u \in Tx \ {t} : info.holders[u] = "none"

(* Mutant of canGrant: whoever is queued. *)
canBarge(info, t, mode) == OthersAllow(info.holders, t, mode)

(* Rule 3: compatible and nobody else is queued. *)
canGrant(info, t, mode) ==
  /\ \A i \in 1..Len(info.waitQueue) : info.waitQueue[i].tx = t
  /\ OthersAllow(info.holders, t, mode)

-----------------------------------------------------------------------------
(* Changes of one lock table entry. *)

(* Mutant of WithHolder: a lock given up leaves a marker. *)
WithMarker(info, t, mode) ==
  [info EXCEPT !.holders[t] = IF mode = "none" THEN "released" ELSE mode]

WithHolder(info, t, mode) == [info EXCEPT !.holders[t] = mode]

Enqueue(info, t, mode) ==
  [info EXCEPT !.waitQueue = Append(@, [tx |-> t, mode |-> mode])]

(* The holders once the queued requests at the positions K are granted. *)
HoldersWith(info, K) ==
  [t \in Tx |->
     LET mine == {i \in K : info.waitQueue[i].tx = t}
     IN  IF mine = {} THEN info.holders[t] ELSE info.waitQueue[Max(mine)].mode]

(* Request i can be granted once those at the positions K are.  The drain *)
(* loop's upgrade test adds nothing: a sole holder has no other holder.   *)
Grantable(info, K, i) ==
  OthersAllow(HoldersWith(info, K), info.waitQueue[i].tx, info.waitQueue[i].mode)

(* Mutant of DrainCount: each request is tested against the holders there    *)
(* were before the loop.                                                     *)
StaleDrainCount(info) ==
  Max({k \in 0..Len(info.waitQueue) : \A i \in 1..k : Grantable(info, {}, i)})

(* How many requests the drain loop grants: those before the first one that *)
(* the holders, including the requests it just granted, rule out.           *)
DrainCount(info) ==
  Max({k \in 0..Len(info.waitQueue) : \A i \in 1..k : Grantable(info, 1..(i-1), i)})

drain(info) ==
  LET k == DrainCount(info)
  IN  [holders   |-> HoldersWith(info, 1..k),
       waitQueue |-> SubSeq(info.waitQueue, k + 1, Len(info.waitQueue))]

Position(info, t) ==
  CHOOSE i \in 1..Len(info.waitQueue) : info.waitQueue[i].tx = t

(* Mutant of Dequeue: the rejected request stays queued. *)
LeaveQueued(info, t) == info

Dequeue(info, t) ==
  [info EXCEPT !.waitQueue = RemoveAt(@, Position(info, t))]

(* Mutant of cancelRequest: no drain afterwards. *)
cancelQuietly(info, t) == IF Queued(info, t) THEN Dequeue(info, t) ELSE info

cancelRequest(info, t) ==
  IF Queued(info, t) THEN drain(Dequeue(info, t)) ELSE info

DeleteHolder(info, t) ==
  IF info.holders[t] = "none" THEN info ELSE drain(WithHolder(info, t, "none"))

(* The requests reset() grants while it rejects the queue from its front:   *)
(* each rejection drains, so a request the holders allow is granted unless  *)
(* its own turn to be rejected comes first.                                 *)
ResetGrants(info) ==
  LET n == Len(info.waitQueue)
      granted[i \in 0..n] ==
        IF i = 0 THEN {}
        ELSE granted[i-1] \cup {j \in {i} : i > 1 /\ Grantable(info, granted[i-1], i)}
  IN  {info.waitQueue[i].tx : i \in granted[n]}

-----------------------------------------------------------------------------
(* The promises after the table has become lt and the requests of the       *)
(* transactions in `cancelled` were rejected: a pending request that is no  *)
(* longer queued was granted by a drain.                                    *)
Settle(lt, cancelled) ==
  [t \in Tx |-> IF promise[t] # "pending"                THEN promise[t]
                ELSE IF t \in cancelled                  THEN "rejected"
                ELSE IF \E r \in Resource : Queued(lt[r], t) THEN "pending"
                ELSE "granted"]

(* Mutant of ReleasedTable: requests are cancelled, locks are kept. *)
CancelledTable(lt, t) == [r \in Resource |-> cancelRequest(lt[r], t)]

(* releaseAll as a function of the table. *)
ReleasedTable(lt, t) ==
  [r \in Resource |-> DeleteHolder(cancelRequest(lt[r], t), t)]

-----------------------------------------------------------------------------
EmptyTable ==
  [r \in Resource |-> [holders |-> [t \in Tx |-> "none"], waitQueue |-> << >>]]

NoPromise == [t \in Tx |-> "none"]

LockInit == lockTable = EmptyTable /\ promise = NoPromise

(* acquire.  A transaction awaits each request before it makes another call. *)
AcquireNow(t, r, mode) ==
  LET info == lockTable[r] IN
  /\ promise[t] # "pending"
  /\ \/ /\ AlreadyHolds(info, t, mode)
        /\ UNCHANGED lockTable
     \/ /\ ~AlreadyHolds(info, t, mode)
        /\ CanUpgrade(info, t, mode) \/ canGrant(info, t, mode)
        /\ lockTable' = [lockTable EXCEPT ![r] = WithHolder(info, t, mode)]
  /\ promise' = [promise EXCEPT ![t] = "granted"]

AcquireWait(t, r, mode) ==
  LET info == lockTable[r] IN
  /\ promise[t] # "pending"
  /\ ~AlreadyHolds(info, t, mode)
  /\ ~CanUpgrade(info, t, mode)
  /\ ~canGrant(info, t, mode)
  /\ lockTable' = [lockTable EXCEPT ![r] = Enqueue(info, t, mode)]
  /\ promise' = [promise EXCEPT ![t] = "pending"]

Acquire(t, r, mode) == AcquireNow(t, r, mode) \/ AcquireWait(t, r, mode)

Release(t, r) ==
  /\ promise[t] # "pending"
  /\ lockTable' = [lockTable EXCEPT ![r] = drain(WithHolder(@, t, "none"))]
  /\ promise' = Settle(lockTable', {})

ReleaseAll(t) ==
  /\ lockTable' = ReleasedTable(lockTable, t)
  /\ promise' = Settle(lockTable', {t})

(* The timer of a queued request. *)
Timeout(t, r) ==
  /\ TimeoutsOn
  /\ Queued(lockTable[r], t)
  /\ lockTable' = [lockTable EXCEPT ![r] = cancelRequest(@, t)]
  /\ promise' = Settle(lockTable', {t})

(* Shutdown: rejects the waiters one by one, then clears the table. *)
Reset ==
  LET granted == UNION {ResetGrants(lockTable[r]) : r \in Resource} IN
  /\ lockTable' = EmptyTable
  /\ promise' = Settle(lockTable', Tx \ granted)

LockNext ==
  \/ \E t \in Tx, r \in Resource, mode \in Mode : Acquire(t, r, mode)
  \/ \E t \in Tx, r \in Resource : Release(t, r) \/ Timeout(t, r)
  \/ \E t \in Tx : ReleaseAll(t)
  \/ Reset

LockSpec == LockInit /\ [][LockNext]_lockVars

-----------------------------------------------------------------------------
(* Mutual exclusion.  Two transactions hold the same page at once only if   *)
(* both hold it shared, after whatever mix of grants, upgrades, drains,     *)
(* timeouts and releases led there (the compatibility matrix at line 16).   *)
Compatible(holders) ==
  \A t, u \in Tx :
    t # u /\ holders[t] # "none" /\ holders[u] # "none"
      => holders[t] = "S" /\ holders[u] = "S"

LockCompatible == \A r \in Resource : Compatible(lockTable[r].holders)

(* No lost wake-up.  Whenever somebody waits for a page, the request at the *)
(* front of its queue is ruled out by a lock somebody else holds: every     *)
(* path that frees a lock or removes a request from the queue has drained.  *)
HeadBlocked(info) == info.waitQueue # << >> => ~Grantable(info, {}, 1)

HeadIsBlocked == \A r \in Resource : HeadBlocked(lockTable[r])

(* No orphan promise.  A transaction awaits a promise exactly when one      *)
(* request of its own, and only one, is in a queue: no request is dropped   *)
(* without settling its promise, and none is settled and left queued.       *)
Places(t) ==
  UNION {{<<r, i>> : i \in {j \in 1..Len(lockTable[r].waitQueue) :
                            lockTable[r].waitQueue[j].tx = t}} : r \in Resource}

PendingIffQueued ==
  \A t \in Tx : Cardinality(Places(t)) = IF promise[t] = "pending" THEN 1 ELSE 0

(* First come, first served.  A step that grants t a lock while u is waiting *)
(* for that page and leaves u waiting either grants a request queued ahead   *)
(* of u's or upgrades the only holder (rules 2 and 3, and the drain loop).   *)
Ahead(info, t, u) ==
  \E i, j \in 1..Len(info.waitQueue) :
    i < j /\ info.waitQueue[i].tx = t /\ info.waitQueue[j].tx = u

NoOvertakingStep ==
  \A r \in Resource : \A t, u \in Tx :
    LET before == lockTable[r]
        after  == lockTable'[r]
    IN  /\ t # u
        /\ after.holders[t] \notin {"none", before.holders[t]}
        /\ Queued(before, u) /\ Queued(after, u)
        => Ahead(before, t, u) \/ CanUpgrade(before, t, "X")

NoOvertaking == [][NoOvertakingStep]_lockVars

=============================================================================
