# A verification project for CollabWrite

CollabWrite is a collaborative document editor on top of a small database engine
written in JavaScript (`src/src/engine`): slotted pages in one data file, a buffer
pool, page locks with a deadlock sweep, transactions with a write-ahead log and
restart recovery, a scheduler, a message queue, and a B+ tree index. A server with a
store of its own, a socket gateway and an editor in the browser stand on it. This directory
models the engine and what stands on it in TLA+, checks the models with TLC on small
instances, and proves with TLAPS, for every instance, properties of the lock table and the deadlock sweep, of
transactions with their pool and their recovery, of the edit path, of the scheduler, and of the sockets and the
browsers that use them.

Paths below are relative to the repository, whose root is `src/`.

## 1. Inventory

| Component | Source (`src/src/...`) | State | Operations | Talks to |
|---|---|---|---|---|
| Lock manager | `engine/lock/LockManager.js` | `lockTable`: per page the holders and a FIFO queue of requests; a promise and a timer per request | acquire, release, releaseAll, cancelRequest, drain, reset | called by the transaction manager and the detector; its promises resume transactions |
| Deadlock detector | `engine/lock/DeadlockDetector.js` | a timer | detect: wait-for graph, strongly connected components, one victim each | reads the lock table, calls `markDeadlockVictim` |
| Transaction manager | `engine/transaction/*.js` | active transactions with state, undo log, read versions; `deadlockVictims`; `nextTxId` | begin, read, write, commit, abort, markDeadlockVictim | locks, pool, log, data file |
| Buffer pool, LRU list | `engine/buffer/*.js` | frames with page, dirty flag, pin count, in order of use | fetchPage, unpinPage, flushPage, flushAll, invalidate | data file |
| Write-ahead log | `engine/recovery/WAL.js` | an append-only file, the next LSN | append, readAll, truncate | written by the transaction manager and by recovery |
| Recovery manager | `engine/recovery/RecoveryManager.js` | none | analyse, redo, undo, recover, checkpoint | log, data file, pool |
| Storage manager, pages | `engine/storage/*.js` | the data file, the page directory, free space | readPage, writePage, createDocument, allocatePage | pool, recovery, engine |
| Engine façade | `engine/Engine.js` | the parts above | start, stop, createDocument, readDocument, submitEdit, search | everything |
| Conflict resolver | `engine/conflict/ConflictResolver.js` | none | assertNoConflict, applyOperation, merge | transaction manager, engine |
| Scheduler, worker pool | `engine/scheduler/*.js` | a queue, or a queue per document and a rotation; idle and busy workers | submit, dispatch, run, finish, setPolicy | engine |
| Message queue, collaboration | `engine/messaging/*.js` | one bounded buffer, a sequence number per document; sessions per document | publish, drain, subscribe; join, leave, handleEvent | engine, sockets |
| B+ tree, inverted index | `engine/index/*.js` | the tree; postings per token | insert, delete, search, rangeScan; indexDocument, search | engine |
| HTTP API, controllers, stores | `server/app.js`, `server/controllers`, `server/stores` | a row per document, a role per user and document | create, read, edit, remove, share, revoke, search | engine, index |
| WebSocket gateway | `server/realtime/socket.js` | a room per document | join (which asks the store first), leave, disconnect | collaboration, client |
| Client | `client/App.jsx`, `clientApi.js` | the open document, the text in the editor, the text and version the server is known to hold, a flush timer | open, type, flush, save, take messages | HTTP, gateway |

**How they interact.** JavaScript runs one turn at a time, so a method without `await`
is atomic. A transaction runs from one `await` to the next; between two of its turns the
turns of other transactions, the timers of lock requests and the detector's sweep
run. Locks are the only thing that keeps two transactions apart in between. The process
may die at any instant, between two file writes of one turn too.

**What is hard here.**
- Promises: a grant is decided in one turn and acted on in a later one.
- `releaseAll` cancels, releases and drains entry by entry, and wakes others on the way.
- The pool *steals* (an uncommitted page may be evicted to the file) and an abort writes
  the file behind the pool.
- The log is kept across restarts, is never truncated by the engine, and identifies
  transactions by numbers that start from 1 again in every process.
- The sweep releases a victim's locks before the victim knows.
- An edit or a read of a document takes the list of its pages before it waits for their
  locks, and an edit that grows the document changes that list.
- The index and the message queue are told of an edit after its commit, inside the block whose handler aborts it; abort
  takes a committed transaction back.
- Each scheduling policy has queues of its own, and the policy may change.
- A document is known in three places, the store's rows, the page directory and the index, which survive
  a crash differently and are changed by different turns of one handler.
- A join waits for the store, and its socket may be gone, or have left again, when the answer comes.
- An edit is answered over HTTP and announced over the socket, in either order, while the user types on.
- React renders in a later turn than the answer that opens a document, and some of the client's state waits for it.
- Deleting keys from the tree borrows or merges at two kinds of node with different minima.

**What makes each part correct.** Locks: only compatible holders, no request forgotten, none
overtaken, promises and queues in agreement. Detector: it aborts members of real deadlocks, one per
cycle at least, and nobody else. Transactions: all or nothing, no dirty reads, every one ends, and
one that ended leaves nothing. Pool: a clean frame is the page on disk. Recovery: committed work is
there, everything else is not, and an interrupted recovery can be repeated. Scheduler: no task lost,
at most as many running as there are workers. Messages: in order, once, to the sessions there are.
Index: the same answers as a scan of the texts. Catalogue: rows, directory and file agree after any
failure. Sockets: rooms, sessions and presence lists agree. Client: it edits the text the server
has. Every hazard behind these is listed with its line in `PROJECT.json`.

## 2. Modules

| Module | Models | Extends |
|---|---|---|
| `LockManager` | the lock table; one action per method | |
| `DeadlockDetector` | the sweep | `LockManager` |
| `Orders` | going through a set of numbers in ascending order | |
| `BufferPool` | frames, least recently used first, over the data file | `Orders` |
| `RecoveryManager` | analysis, redo and undo as operators on the log | `Orders` |
| `TransactionManager` | transactions, log, checkpoints, crash, stop, restart | `DeadlockDetector`, `BufferPool`, `RecoveryManager` |
| `AtomicStore` | abstract: pages that change by whole transactions | |
| `ConflictResolver` | what an operation does to a text; `overlaps` and `merge` | |
| `PageLayout` | records on a page, byte by byte; the cutting of a text into pieces | |
| `MessageQueue` | the bounded buffer of events and its drain | |
| `Engine` | createDocument, executeEdit, readDocument, the page directory | `DeadlockDetector`, `ConflictResolver`, `PageLayout`, `MessageQueue`, `Orders` |
| `SharedDocument` | abstract: a text that changes by whole edits | `ConflictResolver` |
| `Scheduler` | both policies, the dispatch loop, the workers | |
| `BPlusTree` | the tree, with splits, borrows, merges and the chain of leaves | |
| `IndexManager` | tokens, postings, searches, index.dat | `BPlusTree` |
| `Catalog` | rows, page directory, data file, log and index through handlers, stops, crashes and starts | `IndexManager`, `RecoveryManager` |
| `Gateway` | sockets, rooms, sessions, roles, presence events | `MessageQueue`, `Orders` |
| `Client` | the editor in the browser and the handlers that answer it | `Gateway`, `ConflictResolver` |
| `FiniteInduction` | lemmas: induction over finite sets and intervals, functions defined by recursion over them, `Orders` | `Orders`, `TLAPS` |
| `LockManagerProofs` | theorems about `LockManager` | that, `FiniteInduction` |
| `DetectorProofs` | theorems about `DeadlockDetector` | that, `LockManagerProofs` |
| `TransactionProofs` | theorems about `TransactionManager`, its pool and its recovery | that, `DetectorProofs` |
| `EngineProofs` | theorems about `Engine`, its pages, its locks and its queue | that, `LockManagerProofs` |
| `SchedulerProofs` | theorems about `Scheduler` | that, `FiniteInduction` |
| `GatewayProofs` | theorems about `Gateway` | that, `TLAPS` |
| `ClientProofs` | theorems about `Client` | that, `GatewayProofs`, `FiniteInduction` |
| `MCLockTable`, `MCTransactions`, `MCEngine`, `MCScheduler`, `MCCatalog`, `MCClient` | the instances for TLC | |

The models stack by abstraction. `TransactionManager` has pools, files and logs and implements
`AtomicStore`; `Engine` takes that for granted, keeps a page as one value with before-images, and adds
documents over the same lock table. `Scheduler` treats a request as a task that ends some time, which
`EveryRequestEnds` of `Engine` shows. `Catalog` and `Client` take an edit for one step on one text, which
is what `ImplementsSharedDocument` of `Engine` shows of it; `Catalog` lets the process end in the middle of one, too,
and uses the recovery of `RecoveryManager`, and the reads of `Client` may be as partial as finding 3 says.

**State.** `lockTable` is the map of the same name with an entry per page; an absent
entry and an empty one are the same. `promise[t]` is the promise `t` awaits or last
awaited. `pool` and `disk` are the frames and the data file. `txState`, `want`,
`undoLog`, `deadlockVictims` and `nextTxId` are the transaction manager's; `want[t]` is the access
`acquireLock` was called for, and `throwing` is an active transaction whose exception is on its way
to the caller, who can only abort. `wal` is the log file.

**Page images.** An image is the set of the updates that were applied to the page, and
an update is named by process, transaction and position. Any write computed from a stale
image, any lost or resurrected update and any wrong before-image is then visible as a
wrong set. Sizes, offsets and bytes are left out.

**Steps.** `acquireLock` is one turn and the access it was for (`read`, `write`,
`refuse`) a later one, because the code awaits even a lock that is granted at once.
`commit` and `abort` are one turn each. `abort` refuses only what was aborted before, so a
caller that fails after its commit has it taken back: `abortCommitted` is both, in one step, because
that caller is the next to run: whoever the commit gives a lock to reaches a page two turns later
(the promise's continuation, then that of `acquireLock`). A crash may also land inside a commit, an abort
or a recovery, after any prefix of its page writes (`crashInCommit`, `crashInAbort`,
`start(n, k)`). `Settle` computes the promises from the new table: a pending request
that is no longer queued, and was not cancelled, was granted by a drain.

**Documents.** `directory` is the page directory and `page` the records of each page.
`local[t]` holds the variables of the function that runs request `t` (its page list, its
place in it, the new text), and `phase[t]` names the `await` it stands at. A character is
the request that inserted it, so a lost, repeated or misplaced piece of an edit is visible.
`finishEdit` is commit, index and publish in one step: between them the engine awaits only promises
that are settled already, and a transaction the commit wakes needs further turns before it can
commit, index or publish itself. `failPublish` is the same step when the buffer is full. `fail` ends a request at a rejected
lock, at a version conflict, or when a new document's metadata does not fit on its page; pages it allocated
stay in the directory, as in the code.

**Scheduling.** `work` holds the queues, the rotation and the workers. The dispatch loop runs to its
end in the turn of a submit, a start or the end of a task, as a function of the rounds it makes.
`started` is a history: the tasks that were started, with the number of submissions at that time.

**Catalogue.** A text is a sequence of words; some are keywords. `directory` is in memory and
`dirFile` is its copy in the reserved region, which a start reads; `index` is in memory and
`indexFile` is what the last *stop* wrote. A handler is a chain of steps in `pending[r]`, one for
each await on the store or the engine (`createRow`, `createContent`, `discardRow` when the second
fails). `pages` is what the pages contain, in the pool or the data file, and `wal` what the transactions have logged. An edit that
commits may be aborted by a `publish` that throws (`edits`): its pages and the log go on as in
`TransactionManager`, its words stay in the index. When the process ends, one transaction may be cut
off after any of its pages and updates (`TransactionIsCut`), and nothing is known of a page that some
transaction has written (`AsFlushed`): only recovery makes it whole again. `start` reads the
directory, recovers the pages, and indexes every document of the directory again, in any order of
the map. The tree is a table of nodes with identifiers, as the code's objects refer to each other; a node's minimum, the
split point and the choice between borrowing left, borrowing right and merging are the code's.

**Sockets.** `joining[s][d]` counts the joins of `d` that wait for the role. `resumeJoin` is the
rest of the handler, and looks at no connection. `inbox[s]` is what Socket.IO has sent and the
browser has not taken; a socket that is gone receives nothing but can still be put in a room.
`interrupted`, `overtaken` and `refused` are histories that name the joins a race befell.

**Editor.** `committed[t]` is `committedRef` (text and version), `active[t]`, `text[t]` and `canEdit[t]` what
was set last, `rendered[t]` what React has rendered of them and `pending[t]` what it has still to do: a
`render`, then the `effect` of it, each in a later turn. `activeRef` is of the last render, so a message
or a timer in between is judged by the document before. A keystroke is rendered at once, as React does with
what an input event sets. `timer[t]` is the running timer with the text its closure will save.
`call[k]` is one HTTP call, with what its continuation will use; calls overlap freely. `history[d]` is
the text of each version the server has had, so that any stale text shows. A read is two steps: `authorize` takes
the page list, as `readDocument` does at line 311, and `read` answers the version of then with what its text has on
those pages, or on some a growing edit has added to the list. `late` and `misled` are histories: the tabs that
opened a document, or were told of one, ahead of a render, and those whose text was made of a partial
answer or of an event for the document before.

**The drain loop** is `DrainCount`: the longest prefix of the queue in which each
request is allowed by the holders together with the requests granted before it. `Reset`
rejects a queue from its front and drains after each rejection, as the code does, so
that the second request of a queue can be granted by a shutdown.

## 3. Runs

| Run | Question | Instance | Outcome |
|---|---|---|---|
| `lock_table` | Is the lock table right under every order of calls, timers, sweeps and a shutdown? | 3 transactions, 2 pages, both modes | holds |
| `tx_isolation` | Do transactions without a sweep implement `AtomicStore`, without dirty reads, and do all end? | 2 transactions, 2 pages, 1 frame, 3 updates, timeouts | holds |
| `tx_sweep` | With no timeouts, does the sweep alone bring exclusive locking to an end, and is a victim cleaned up? | the same, exclusive locks | holds |
| `recovery` | Does a restart after a crash or a stop at any instant, a log record cut off and a commit taken back included, leave the committed images? | 2 transactions, 2 pages, 2 updates, 1 checkpoint, 2 starts | holds on trusted pages |
| `edit_path` | Do concurrent edits and reads of a growing document act as on one text, whatever times out? | 4 requests, 1 document, 6 pages of two characters, the first of one, a buffer of 1 | holds |
| `scheduler` | Is every task served once, in order and fairly, whatever starts, stops and changes of policy? | 4 tasks, 2 documents, 2 workers | holds |
| `catalog` | Do rows, directory, file and index agree, and does a start find the committed texts, whatever is created, edited, removed, cut off and recovered? | 3 documents, 12 keywords, 4 requests, 2 at a time, 3 starts | holds; of texts, where the log shows no flaw found |
| `gateway` | Do rooms, sessions and presence lists agree, and do readers see texts the server had? | 2 tabs, 3 sockets, 2 documents, 2 calls at a time, 11 budgets, in 3 of which React falls behind for one tab | holds; of texts, for tabs nothing misled |
| `stale_loser` | Does committed work survive a restart? | 2 transactions, 1 page, 2 starts | violated |
| `reused_id` | Does unfinished work vanish? | 1 identifier, 1 page, 3 starts | violated |
| `torn_read` | Does a read return a text the document had? | 3 requests, no timeouts | violated |
| `double_edit` | Does a tab send what it found against the version it names? | 1 tab, 2 keystrokes | violated |

**Properties of `lock_table`.** `LockCompatible` (mutual exclusion), `HeadIsBlocked` (no lost
wake-up), `PendingIffQueued` (each awaited promise is one queued request), `NoOvertaking` (who
is granted past a waiting request was ahead of it or upgrades alone), `CycleIsDeadlock`
(no false victims: what the detector calls a cycle would wait forever),
`ExclusiveDeadlockIsCycle` (nothing missed while all locks held are exclusive) and
`SweepBreaksEveryCycle` (one member of each cycle is set free, no bystander is rejected).

**Properties of the transaction runs.** `ImplementsAtomicStore` is a refinement:
`store` is the image of each page without the writes of transactions that have not ended,
`pending` the images a transaction made of the pages it has written. It holds only if commits and
aborts are atomic in the face of evictions, reloads, repeated writes to a page
and aborts of the others. `NoDirtyRead`, `CommitHoldsLocks`, `EndedLeavesNothing` and
`CleanFramesMatchDisk` say what it rests on. `EveryTransactionEnds` is liveness.

**Properties of `recovery`.** `CrashIsSafe` looks at every state, in the middle of transactions,
commits, aborts and recoveries, and asks what recovery *would* leave if the process died there.
`CommittedIsVisible` is about the running engine. Both are limited to *trusted* pages, whose log
shows none of three flaws: a stale loser, a reused identifier (findings 1 and 2), an undone commit (an abort behind
the COMMIT, section 4). `Trusted` is
exactly the negation of those three and of a fourth condition: nothing was appended behind a torn
record. So the run shows that recovery has no other flaw within the bounds, for such logs, and
`CrashesAreSafe` (section 5) that there is none beyond them. `RecoveryIsIdempotent`
needs the fourth condition only. `crashInAppend` cuts off a record; recovery drops it (`readAll`),
and the ABORT records of that recovery already go behind it, where `readAll` hides or misreads them
by the length the torn record declares. What it makes of them depends on lengths, so the run stops
exploring there (`ReadableLog`).

**Properties of `edit_path`.** `ImplementsSharedDocument` is a refinement: the text on the pages of
a document, without the writes of edits that have not ended, changes by one operation applied to the
whole text before it. It is the property against lost and half-visible edits, and needs the locks,
the version check, the growth of the chain and the emptying of pages beyond the text.
`EditsBuildOnBase` relates the answers of two clients: an edit made against a version is applied to
the text that version was answered with. `AnswersAgree` is the part of isolation that reads do have
(same version and same pages, same text). `EveryVersionIsAnnounced` ties the event stream to the
committed versions. `EditPathDeadlockFree` is the claim of `Engine.js:31`, with the definition of
deadlock of the lock table, which counts waits through queue order too; it is also why `Engine` has
no sweep. The refinement is checked with versioned edits. An edit without `baseVersion` whose page
list is stale violates it: it computes its text from the first pages only (`Versioned = FALSE` shows
it, with four requests).

**Properties of `scheduler`.** `WorkConserving`, `RunsOnce`, `ServedInOrder` and `RoundRobinIsFair` relate
the queues, the workers and the history; `EveryTaskEnds` is liveness for a scheduler that is left running. Submissions end in
this instance, so the starvation of normal tasks by an unending stream of priority tasks, which the code allows, is not a
behaviour of it.

**Properties of `catalog`.** `TreeIsValid` is the code's own `validate`, with the order of the leaf
chain and the number of entries. `SearchIsExact` compares each search by keyword and by prefix with
a scan of the texts: postings are neither lost nor left behind by any insert, delete, split, merge,
stop, crash or reindexing. It leaves out the documents whose last edit was indexed and then taken back (`spoilt`,
section 4), until they are edited, removed or indexed again by a start. After a start it says that
the index follows the recovered pages, whatever index.dat said. `RowsMatchContent` relates store and file: content has
a row, a live row has content or a handler, or a crash, in the middle of its creation. `RestartKeepsTexts`: the text a
start recovers is the one committed last, unless the
directory once outgrew its region or the log shows one of the three flaws on a page of the document
(`Misrecovered`). It takes the directory region, the log and the two passes together: a page that is
missing in the region, an update that is not redone, or an edit cut off in the middle that is not undone, shows as a
wrong text. Each of the three exceptions is needed: without it TLC finds the flaw.

**Properties of `gateway`.** `PresenceIsConsistent`: rooms, sessions and the documents' lists of
sessions say the same, and only a join interrupted by the end of its socket leaves a session without
one. `PresenceListsConverge`: when all is quiet a tab shows who is in its document.
`OnlyRacesLeaveGhosts`: a session in a document nobody looks at is one of the two races of
`socket.js:78`, or of a tab that opened a document ahead of a render. `ReadersHoldServerText`: a
tab that only reads shows the text of the version it says, in whatever order answers and
announcements arrive, but for the tabs in `misled`: those whose read was overtaken by a
growing edit (finding 3), and those that took an event of the document before for one of the document just opened
(section 4). A tab is `misled` until its next whole answer.

**Checked as assumptions.** Three algorithms are pure, and TLC evaluates them on all small inputs
before `edit_path` and `torn_read`: `MergeAssumption` (two operations on one text that do not
overlap give the same text in either order, for texts of up to four characters and all operations at
places in them), `PageListsAssumption` (after any three inserts, updates and deletes a page lists
what a plain list would, and an operation that does not fit changes nothing) and `ChunksAssumption`
(a text of up to four characters of one to four bytes each, written in pieces beside up to five
bytes of metadata, reads back whole, with no character cut). Beyond the end of a text `merge` does
not converge: positions are clamped after they were shifted. Titles so long that the metadata leave
less than no room for text are left out; an edit of such a document fails with `PageFullError`.

**Bounds.** Two transactions are enough for every conflict of a pair, three for a queue behind two
holders, a cycle with a bystander and two cycles that share a member. With two pages and one frame
every access to the other page evicts, which makes steal and reload the normal case. `MaxWrites`
bounds the UPDATE records in the log: three let one transaction write twice to a page and the other
one write once; two are enough for recovery, where what matters is the order of two updates of one
page or two. In `recovery` a checkpoint is explored where it writes a page (`CheckpointsWrite`): elsewhere it adds a
record that recovery passes over. `MaxBoots` bounds the starts, the interrupted ones included: with two, a crash is
followed by one recovery, which may be interrupted too, and `CrashIsSafe` evaluates one more in
every state. `reused_id` needs three: the process that is cut off, the one that gives the identifier
out again, the one that recovers from that. The queue, the log and the pool need no bound of their
own. In `edit_path` one character fits on the first page and two on each of the others (pages of
four bytes, headers of one) and an edit inserts two or deletes one, so chains grow, stay and hold
emptied pages; four requests are a creation and any three edits and reads; six pages hold the
longest text, and `EveryRequestEnds` shows that no request lacks a page (five requests on eight
pages, by hand, hold too). A buffer of one event makes `failPublish` happen in the same run. In
`catalog` a transaction that is cut off is the only one in progress that has written (`TransactionIsCut`
names one request), reads are left out, which would only use up identifiers, and records are not torn (`recovery` has
both). Nodes hold at most three keys (`MaxKeys`), so that twelve keywords make a tree of three
levels and every kind of split, borrow and merge occurs, at leaves and at inner nodes; pages hold
six words, and the directory region has room for six entries and pages, so that it overflows; four
requests reach a creation cut off by a crash, an edit that overflows the region, a
removal during an edit. Three starts are one to cut an edit off in, one to use its identifier again
or to commit over its pages, and one to recover from that. What follows a transaction that was cut off or a commit that was
undone, and a third start, are explored only with two documents whose texts are one of one page and one of two
(`ManyTextsStayShort`); up to there, and with two starts, texts are any six. In `gateway` a behaviour keeps to one of eleven budgets (`SomeBudgets`), each
of which brings one race about: switching documents, losing the connection, both users on one
document, edits in a row, opening twice, roles that change on the way, two editors, one who keeps
typing, and, with b's renders as late as can be, a coming to the same document, a typing while b switches, and b typing. All budgets
together, unlimited, are out of TLC's reach. A tab that is not slow renders at once (`RendersAtOnce`), and where one
is slow, calls are made one at a time (`OneCallIfSlow`). A page takes one character (`PageText`), so a second one
makes a chain grow; in `double_edit` it takes all, and no answer is partial. The buffer of 20 never fills there
(a full one is the subject of `edit_path`). In `scheduler` four tasks on two workers leave two
waiting, of one document or of two, with any mix of classes. `SYMMETRY` permutes pages, and in `catalog` requests, which are
interchangeable, in runs without liveness properties only. `CHECK_DEADLOCK FALSE` stands in the
transaction runs because they do end: every transaction ended, every start used.

**Fairness** (`FairSpec` of `TransactionManager`). Weak fairness of a transaction's turns, of the
timer of a request and of the sweep: the event loop runs what is ready, and a timer that is due
fires. Strong fairness of `commit(t)`, `abort(t)` or `abortCommitted(t)`, whichever comes: a transaction's work is a finite list of accesses
(`executeEdit` walks the pages of a document once), after which it commits or its caller aborts it;
strong, because asking for the next lock disables both for a while. No fairness of granting: that a
request is granted or rejected in the end is what is checked. `FairSpec` of `Engine` has weak
fairness of a request's turns and of the drain, and none of timers: with the edit path free of
deadlock the locks alone bring every request to an end. `SchedSpec` has weak fairness of the end of
each task.

## 4. Findings

1. **Recovery undoes aborted transactions again** (`stale_loser`). `analyse` ignores
   ABORT records, and the log is never truncated. The before-image of a transaction that aborted long
   ago overwrites a page that a later transaction committed, at every restart.
2. **Transaction identifiers are used again** (`reused_id`). The COMMIT of transaction 1 of
   this process makes the unfinished transaction 1 of an earlier one a winner.
3. **A read may return half a document** (`torn_read`). `readDocument` takes the page list before it
   waits. It queues behind an edit that grows the chain, and answers the new version with the text
   of the old pages. `executeEdit` does the same at line 379; the version check hides it from
   clients that send `baseVersion`.
4. **An edit is applied twice** (`double_edit`). The announcement of a tab's own edit moves the
   version of `committedRef` and not its text (`App.jsx:660`). When it arrives before the answer,
   the next flush finds the same difference again, names the new version, and the server accepts it.

**Seen while modelling, without a run of their own.** These follow from the lines named; the models show the behaviour
but no run states it as a property.
- *An aborted edit comes back.* `publish` throws on a full buffer inside the `try` block of `executeEdit`
  (`Engine.js:460`), after the commit. The handler aborts the committed transaction (476), which `abort` allows
  (`TransactionManager.js:243`), and tells the client so. Its COMMIT stays in the log, and the next start redoes the
  edit, though `docs/engine/README.md:107-108` has an ABORT make it disappear. `UndoneCommit` of `Trusted` and the last disjunct of
  `Misrecovered` except it: without them TLC finds it in `recovery` and `catalog`.
- *An aborted edit stays indexed.* In the same way, the index was updated at line 459 and the handler does not take
  that back: a search finds the document by words it does not have. `docs/architecture/system-architecture.md:63` says that an
  aborted edit must not be indexed. `SearchIsExact` excepts it as `spoilt`.
- *An edit of one document is applied to another.* `openDocument` sets `committedRef` at once (`App.jsx:632`) and
  `activeRef` at the next render (614). An edit of the document before that comes in between, with the version
  that is next, changes the text of the one just opened. `ReadersHoldServerText` excepts it as `misled`.
- `DeadlockDetector.js:13` calls a cycle precisely a deadlock. Two readers of a page, a writer
  queued, one reader asks to upgrade: it queues behind the writer, which waits for it, and the graph
  has edges to holders only. Only a timeout ends this; `ExclusiveDeadlockIsCycle` and
  `EditPathDeadlockFree` bound where it can happen.
- `markDeadlockVictim` releases a victim's locks before its writes are undone
  (`TransactionManager.js:274`), so others read them, and write over them: whoever did and aborts
  after the victim puts the victim's writes back, and the page shows them until the next restart.
- A version conflict makes the client open the document again, and `setText` discards what was
  typed, though `docs/workflows/user-workflows.md:119` says otherwise. A deletion typed while the
  save of an insertion is in flight can leave the editor different from the server with no timer
  running. A tab does not join again after its socket has reconnected, and edits between the read
  and the join are not announced to it.
- A leave may overtake a join that waits for its role: the session stays in a document nobody looks
  at. The rejection of that wait, or a full buffer in it, has no handler (`socket.js:78`) and ends
  the process.
- `share` can take the owner's own role away, which `revoke` refuses to do.
- A creation cut off by a crash leaves a live row without content.
- When the directory outgrows its region the page stays listed in memory; the edit, tried again,
  succeeds and loses its end at the next start.
- The full scan of `search?index=false` reads pages past the locks and sees evicted uncommitted ones.

## 5. Proofs

Every theorem holds for every value of the constants that satisfies the named assumptions: any finite sets of
transactions and pages, any capacity of the pool, any number of workers, any bounds. `PROJECT.json` lists the theorems
with the properties they state.

**Lock table** (`LockManagerProofs`). `LockTypeCorrect`, `MutualExclusion`, `NoLostWakeUp`, `NoOrphanPromise` and, as an
action property, `FirstComeFirstServed`. The invariant is `IInv`: every entry of the table is `Good` (compatible holders,
and a front request that is ruled out), no transaction has two requests in one queue, requests in two queues or a request
for a lock it holds already, and a promise is pending exactly while its transaction is queued. Neither part is inductive
alone. When the only holder upgrades, the head of the queue stays blocked only because the upgraded lock is incompatible
with everything; and a drain settles the promises of whoever it grants only because nobody it grants is queued elsewhere.
The lemmas go up as the code does: what a grant does to the holders, that `DrainCount` is a position of the queue, that a
drain of a compatible entry leaves a good one, then cancelling, releasing one page and all pages, then one step per
action.

**Detector** (`DetectorProofs`). With the sweep as a step, `IInv` stays invariant (`SweptTableIsCorrect`) and nobody is
overtaken (`SweepIsFair`). `NoFalseVictim`: a component the detector finds is deadlocked, members only waiting for members.
`SweepIsEnough`: after a sweep one member of each cycle is free and nobody outside the cycles was touched; for any number
of cycles, this is an induction over the set of victims. `ExclusiveDeadlocksShow` is the true part of
`DeadlockDetector.js:13`: if all locks held are exclusive, a deadlock shows as a cycle (walk the wait-for graph to a
minimal set of reachable transactions). `CyclesAreIndependent` justifies the order of the model: the code looks for the
next victim after it has released the one before, the model selects all first, and the theorem says that the releases
outside a cycle leave its members waiting and holding what they held.

**Transactions and pool** (`TransactionProofs`, of `Spec`: with the sweep or without, through crashes, stops and starts).
`TxInv` adds to `IInv` the types, `LockUse` (what a transaction in each state may hold, await and be marked: exclusive locks
on the pages of its undo log while it can still commit, nothing once it has ended), `BirthOrder` (identifiers not given out
yet are unborn), `NoVictims` without the sweep, and `Down` (no memory while the process is down). That an image has no
more updates than the bound needs `UndoIsLogged`: each undo record has an UPDATE record in the log. It gives
`TxTypeCorrect`, `LocksAreHeldToTheEnd`, `TransactionsLeaveNothing`, `NoDirtyReads` without the sweep and, with it,
`DirtyReadsAreOfTheDoomed`: whose changes are seen uncommitted is a victim or is about to abort. `PoolInv` adds
`GoodPool` (capacity, one frame a page, clean frames equal to the file); an abort writes the file behind the pool, and
recovery writes it too, so `PoolIsCoherent` rests on `invalidate` and on `Down`.

**Atomicity** (`TransactionsAreAtomic`): `Spec => ImplementsAtomicStore`, from `~SweepOn` and `MaxBoots = 1`. Both
assumptions are needed: a victim loses its locks before its writes are undone, and a start after a crash undoes committed
work or redoes what was taken back (findings 1 and 2, and the undone commit of section 4). A commit that is taken back at once maps to an abort. The invariant adds `FreshInv`: an image holds only updates of transactions that have begun, and of
a running one only updates it has already made, so no update is made twice and taking back the before-images of one
transaction gives the image without its updates. The proof maps each step: a read, an eviction, a timer or a checkpoint
leaves `store` and `pending` alone, a write is a write, a commit moves `pending` into `store` because the pages it wrote are
its alone, an abort forgets it.

**Recovery** (`RecoveryCanBeRepeated`): a recovery cut short after any page write or log record, any number of times, leaves
what the next one does unchanged, provided nothing was appended behind a torn record (`ReadableLog`). ABORT records do
not count in `analyse`, so the log that the next recovery reads has the same winners and losers; redo and undo write each
page as the last relevant record says, whatever was on it.

**Crash safety** (`CrashesAreSafe`, of `Spec`, with the sweep or without it). Two lemmas say what a recovery does to one page
of one log. `RecoveryLeaves`: undo comes last and goes backwards, so the page ends at the before-image of the first update
of a loser; without losers at the after-image of the last update of a winner; without either as it was.
`RecoversCommitted`: on a trusted page this is the committed image, whatever the data file holds, if every update has its
BEGIN record and the first update that is not committed follows on a committed image. So crash safety is about how the log
comes to be, and `SafeInv` is the invariant of that. Its parts need one another. `Histories`, the condition on the
first update that is not committed, survives a write because the page showed its committed image (`LiveShows`: a page
whose updates are all committed or of running transactions contains the last of them) or is as it was created
(`UntouchedEmpty`). It survives a commit because nobody else's updates lie between those of the run, and no COMMIT of it is in
the log yet (`RunSafe`). With the sweep, others do write over a victim's page; but only the doomed are overwritten
(`OnlyTheDoomedAreReadIs`), and none of them commits (`LockUse`). An abort logs no undo: it leaves the page with an update
that is neither committed nor of a running transaction, so `LiveShows` claims nothing of that page until every such
update is committed, which is never. An abort of what was committed puts an ABORT behind the COMMIT of each update
of the pages it restores (`UndoneIn`); no later record changes that, so the parts of the invariant leave such pages out for
good. After a restart no transaction runs, and `LiveShows` follows from `RecoversCommitted`.

**Committed images** (`CommittedImagesShow`, from `~SweepOn`). `HistInv` says, beside `SafeInv`, that a page a transaction
has changed contains its last update, and that without the changes of running transactions (`WithoutActive`, the `store` of
the refinement) every trusted page has its committed image. The assumption is needed: TLC finds, with three writes, that
a transaction which has written over a victim's page, and aborts after the victim, puts the victim's change back.

**Edit path** (`EngineProofs`, of `Spec` of `Engine`). Two invariants. `LInv` is about pages and locks: the lists of the
page directory ascend and share no page; a request holds the pages of its list from the first to where it is, waits for
at most the next one, and has nothing once it was answered; its undo log has the pages it has written. From it follow
`DocTypeCorrect` and `NoDeadlockOnEditPath`. For the latter, take the requests of a deadlocked set, among the pages they
wait for the one allocated last, and among those that wait for it the one furthest ahead in its queue. Whoever blocks it is in
the set too, so it waits for a page: for a later one, if it holds this one, since lists ascend; for this one and further
ahead, if it is queued. Both are excluded by the choice. A page list that was taken before the document grew is a prefix of
the list it would be now, which is why it cannot break the order. `DInv` is about the texts: what a request has read is the
committed text of its pages (it holds the first page, and nobody commits a document without it), what it writes is the next
version, an answer in the committed version has the committed text of its pages, and the announcements of a document are
numbered by their place (`EventsOK`). `StaleOK` is the part that took finding: a page list that misses the end of the chain
misses no text as long as the version the edit names is still the committed one. It gives `AnswersAlwaysAgree`,
`EditsAlwaysBuildOnBase` and `AnnouncementsAreComplete`.

**Shared documents** (`EditsAreShared`): `Versioned => (Spec => ImplementsSharedDocument)`. Only `finishCreate` and
`finishEdit` change what is committed, and each is one edit of the abstract text: the pieces `splitIntoChunks` cuts make up the
text again, page by page, and pages behind them are blank. Every other step, a failure, a timeout or a page appended in
the middle of an edit among them, is a stutter. `Versioned` says that every edit names the version it was made against, and is
needed: an edit that names none may be applied to half a text (finding 3).

**Scheduler** (`SchedulerProofs`, of `SchedSpec`): all five invariants of the run, `SchedTypeCorrect`, `WorkIsConserved`,
`TasksRunOnce`, `ArrivalOrderIsKept` and `NoDocumentMonopolises`, for any documents, kinds and number of workers. The
invariant `CoreInv` is about the queues and workers under a policy: each queue is in order, only the policy's queues have
tasks, a document with tasks is in the rotation, identifiers are of one task each, which waits or was started once, and
`FairOK`. `RoundRobinIsFair` alone is not inductive: a document that is served next before the waiting task's own must
have had no more starts than that, any other at most one more, and a document outside the rotation none; each turn moves
the document it serves to the end of that order (`TurnMoves`). The dispatch loop is a recursive function over the rounds;
an induction over them shows that it keeps `CoreInv` and that after as many rounds as there are workers nothing is left
to do, each round that serves a task using up an idle worker.

**Sockets.** `GatewayProofs` and `ClientProofs` prove `PresenceIsConsistent`, of the gateway alone
(`RoomsAndSessionsAgree`) and of the whole specification the `gateway` run checks
(`BrowsersKeepPresence`), for any sockets, tabs, calls, documents, roles and budgets. The invariant
`PInv` adds to it the types of membership and `WaitingIsRemembered`: a join that waits for a socket
that is gone is in the history, which is what makes the third part inductive when the answer of the
store arrives. The first part needs care in two handlers: a leave empties the room but, for a
session in no document, not the list, and a disconnection leaves all rooms but only the documents of
its session; `LeavingIsConsistent` covers both. The browser may ask to join or leave anything, a
document or not, which the lemmas allow. `CInvStep` then shows that every step of a tab is one
gateway step or leaves membership alone.

**Presence** (`ClientProofs`, of `Spec` of `Client`). `ListsConverge` and `GhostsAreOfRaces` say what holds once everything
has settled, so the invariant has to say what is still on its way. `BInv` is about queues and sockets: a socket no tab has
used is nowhere, two tabs share none, every message is about a document. `WInv` is about where everybody is. The last that
a tab has said of a document and the server has not heard is a join if that document is open and a leave otherwise
(`OutboxOK`); a socket in a document its tab does not show is about to leave it, or left while a join of it waited
(`GhostOK`); and of the document it shows, either the join is on its way, waits or was refused, or the socket is in, and the
newest list of participants, looked for in the events of the queue, then in the mail of the socket, then on the screen,
is the list of the server (`JoinedOK`). This is kept because whoever changes a list publishes it in the same turn
(`Republishes`: one event for a join or a leave, one for each document of a session that ends), because the drain hands the
events of a document to its room in their order (`PickedLists`), and because rooms and lists agree.

**Readers** (`ReadersAreTold`). `RInv` adds the texts. An announced edit makes its version out of the one before
(`Announces`), which no later version changes; an answer holds a text with its version until the tab takes it, whole or not.
A reader therefore goes from one version to the next by applying what is announced, or to the version of an answer,
which may be an older one, unless it is `misled`; what a render or an effect brings later is the text that was set already.
A timer may run in a reader's tab: an effect compares the text of its render with a `committedRef` that has moved on, and
if the timer fires, the tab saves a stale text though nobody typed. Its user is in `writers` from then on.

**How induction is done.** The library states induction with an operator as a parameter, which these provers cannot
instantiate. `FiniteInduction` states it over sets: a set of subsets that has the empty set and grows by one element has
all of them, a set that has 0 and successors has the interval, and from a base and a step, given as a function, there is a
function that recursion defines. They follow from the library's facts about finite sets by taking minimal elements. The
models use recursive functions and `Orders` where the community modules would bring RECURSIVE operators
(`SortSeq`, `Graphs`), under which no SMT proof is possible, and pick from a queue by `ElementsAt`, which has lemmas. So
the detector reaches through `Reach`: the smallest set that contains a transaction and is closed under edges. The cutting
of a text into pieces is a function of the text that is left.

**Assumptions.** `LockAssumption` (modes are `"S"` and `"X"`), `SweepAssumption` (transactions are numbers, and there are
finitely many transactions and pages), `TransactionAssumption`, `SchedulerAssumption` and the like give the constants
their types; `UserAssumption` and `NoneAssumption` keep the marks for "nobody" and "nothing" apart from users, sockets and
documents. TLC evaluates each in a run. `NoDirtyReads`, `TransactionsAreAtomic`, `CommittedImagesShow` and
`EditsAreShared` have the further hypotheses named above.

**Only model-checked.** Liveness, which the provers do not cover. The tree, the index and the catalogue built on it: recursion
over nodes, in modules with RECURSIVE operators.

## 6. Not modelled, and why

- **Records behind a torn one.** What `readAll` makes of them depends on lengths in bytes; nothing is claimed of such a log.
- **Loss of the operating system's cache.** What the process wrote is in the file. `fsync` matters
  only without this assumption.
- **Pins.** Every `fetchPage` is unpinned in the same turn, so no pin exists between two steps.
- **A torn index.dat or directory.** `load` throws on the first, and the engine does not start; a
  page write that is cut off is caught by its checksum. Pages are never freed.
- **A full scan beside running edits.** `fullScan` is the reference of `SearchIsExact`; that it runs
  past the locks is an observation above.
- **The socket's `edit` message.** The client never sends it; it is `POST /edit` without the answer.
- **Users, tokens, titles, audit logs, the administrator's routes, the inspector.** No state that
  the rest depends on. Roles change by share and revoke only.
- **`consume`, `reset` and `close` of the queue, the benchmark.** Only tests and demonstrations call them.
- **Counters, metrics, `waitedMs`, logging, checksums.** Nothing decides on them, or an image that
  is read is the one that was written.
- **Turns after a stop.** `Engine.stop` does not wait for running transactions; the model ends the
  process there.
- **React's scheduler.** A render and its effect come at some later turn each, in that order; how soon, and which renders
  are merged, is left open. A keystroke is rendered, and its effect run, at once, as React does after a discrete event.
- **The 350 ms of the flush timer.** It may fire at any time.

## 7. Plan

1. *Stop*: turns of transactions after `Engine.stop`, with the files closed under them.
2. *Full scan* beside running transactions, past the pool and the locks.
3. *Reconnection*: a client that joins again, as the documentation describes it, against the one there is.
