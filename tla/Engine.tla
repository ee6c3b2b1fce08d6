------------------------------- MODULE Engine -------------------------------
(***************************************************************************)
(* The document operations of src/engine/Engine.js: createDocument,        *)
(* executeEdit and readDocument, over the lock table, the page directory   *)
(* of StorageManager.js and the message queue.                             *)
(*                                                                         *)
(* The pages are those of AtomicStore, which module TransactionManager     *)
(* implements: a transaction changes a page in place and an abort puts     *)
(* back what was there.  Every request is a transaction of its own.  A     *)
(* step is a turn of a request, from one await to the next; a request for  *)
(* a document that is not there is refused before it begins.               *)
(***************************************************************************)
EXTENDS DeadlockDetector, ConflictResolver, PageLayout, MessageQueue, Orders

CONSTANTS
  Changes,        \* the operations of edits: [insert, delete, position]
  Versioned,      \* whether edits carry the version they were made against
  MetadataLength  \* bytes of the metadata on the first page of a document

ASSUME EngineAssumption ==
  /\ Mode = {"S", "X"}
  /\ Changes \subseteq [insert : Nat, delete : Nat, position : Nat]
  /\ Versioned \in BOOLEAN
  /\ MetadataLength \in Nat
  /\ chunkCapacity(0, MetadataLength) >= 0 /\ chunkCapacity(1, MetadataLength) > 0
  /\ Resource = 1..Cardinality(Resource)   \* bound: pages of the data file

VARIABLES
  directory,   \* [Doc -> the pages of the document], none if it is unknown
  page,        \* [Resource -> the records on the page]
  request,     \* [Tx -> what the transaction was begun for]
  phase,       \* [Tx -> how far it is]
  local,       \* [Tx -> the variables of the function that runs it]
  undoLog,     \* [Tx -> the before-images of the pages it has written]
  reply,       \* [Tx -> what the caller got]
  indexed,     \* [Doc -> the text the index was given last]
  delivered    \* history: the events handed to the transport

docVars == <<directory, page, request, phase, local, undoLog, reply, indexed>>
eventVars == <<queueVars, delivered>>
vars == <<lockVars, eventVars, docVars>>

Text   == Seq(Tx)
Image  == [version : Nat, chunk : Text]
Blank  == [version |-> 0, chunk |-> << >>]
Nobody == [op |-> "none"]
Empty  == [p \in {} |-> Blank]

(* base is empty, or has the one version the edit was made against. *)
Request ==
  [op : {"create", "read"}, doc : Doc]
    \cup [op : {"edit"}, doc : Doc, change : Changes, base : SUBSET Nat]

Phase == {"unborn", "locking", "growing", "writing", "finishing", "reading",
          "replied", "failed"}
Local == [pages : Seq(Resource), at : Nat, version : Nat, text : Text]
Reply == [version : Nat, text : Text, pages : Seq(Resource)]

DocTypeOK ==
  /\ LockTypeOK
  /\ directory \in [Doc -> Seq(Resource)]
  /\ page \in [Resource -> Image]
  /\ request \in [Tx -> Request \cup {Nobody}]
  /\ phase \in [Tx -> Phase]
  /\ \A t \in Tx :
       /\ phase[t] # "unborn" => local[t] \in Local
       /\ phase[t] = "replied" => reply[t] \in Reply
       /\ DOMAIN undoLog[t] \subseteq Resource
       /\ \A p \in DOMAIN undoLog[t] : undoLog[t][p] \in Image
  /\ indexed \in [Doc -> Text]
  /\ sequences \in [Doc -> Nat] /\ draining \in BOOLEAN /\ Len(buffer) <= Capacity

-----------------------------------------------------------------------------
(* The page directory. *)

hasDocument(d) == directory[d] # << >>

NewPage == 1 + Cardinality(UNION {ToSet(directory[d]) : d \in Doc})

allocatePage(d) ==
  /\ NewPage \in Resource
  /\ directory' = [directory EXCEPT ![d] = Append(@, NewPage)]

(* The layout of a text.  A character here is one byte. *)
Chunks(text) == splitIntoChunks(text, MetadataLength, {})

TextOn(images, pages) ==
  FlattenSeq([i \in 1..Len(pages) |-> images[pages[i]].chunk])

(* The operation of an edit: its text is told from any other's. *)
OperationOf(t, change) ==
  [position |-> change.position, length |-> change.delete,
   content  |-> [i \in 1..change.insert |-> t]]

-----------------------------------------------------------------------------
Init ==
  /\ LockInit /\ QueueInit
  /\ directory = [d \in Doc |-> << >>]
  /\ page = [p \in Resource |-> Blank]
  /\ request = [t \in Tx |-> Nobody]
  /\ phase = [t \in Tx |-> "unborn"]
  /\ local = [t \in Tx |-> Nobody]
  /\ undoLog = [t \in Tx |-> Empty]
  /\ reply = [t \in Tx |-> Nobody]
  /\ indexed = [d \in Doc |-> << >>] /\ delivered = << >>

begin(t, req) ==
  /\ phase[t] = "unborn" /\ \A u \in Tx : u < t => phase[u] # "unborn"
  /\ request' = [request EXCEPT ![t] = req]

Enters(t, to, l) ==
  /\ phase' = [phase EXCEPT ![t] = to]
  /\ local' = [local EXCEPT ![t] = l]

(* The directory entry is made before the transaction begins. *)
createDocument(t, d) ==
  /\ ~hasDocument(d)
  /\ begin(t, [op |-> "create", doc |-> d])
  /\ allocatePage(d)
  /\ Acquire(t, NewPage, "X")
  /\ Enters(t, "writing", [pages |-> <<NewPage>>, at |-> 1, version |-> 1, text |-> << >>])
  /\ UNCHANGED <<eventVars, page, undoLog, reply, indexed>>

(* executeEdit and readDocument up to the first await: the page list is the  *)
(* one of this moment.                                                       *)
Opens(t, req, mode, to) ==
  /\ hasDocument(req.doc)
  /\ begin(t, req)
  /\ Acquire(t, directory[req.doc][1], mode)
  /\ Enters(t, to, [pages |-> directory[req.doc], at |-> 1, version |-> 0, text |-> << >>])
  /\ UNCHANGED <<eventVars, directory, page, undoLog, reply, indexed>>

(* A client knows the versions the engine has told it of. *)
KnownVersions(d) ==
  {reply[u].version : u \in {v \in Tx : phase[v] = "replied" /\ request[v].doc = d}}

(* Mutant of executeEdit: the pages are locked shared, and upgraded later. *)
editShared(t, d) ==
  \E change \in Changes :
  \E base \in IF Versioned THEN {{v} : v \in KnownVersions(d)} ELSE {{}} :
    Opens(t, [op |-> "edit", doc |-> d, change |-> change, base |-> base], "S", "locking")

executeEdit(t, d) ==
  \E change \in Changes :
  \E base \in IF Versioned THEN {{v} : v \in KnownVersions(d)} ELSE {{}} :
    Opens(t, [op |-> "edit", doc |-> d, change |-> change, base |-> base], "X", "locking")

readDocument(t, d) == Opens(t, [op |-> "read", doc |-> d], "S", "reading")

Granted(t, in) == phase[t] = in /\ promise[t] = "granted"

AllLocked(t) == Granted(t, "locking") /\ local[t].at = Len(local[t].pages)

lockNextPage(t) ==
  LET next == local[t].at + 1 IN
  /\ Granted(t, "locking") /\ ~AllLocked(t)
  /\ Acquire(t, local[t].pages[next], "X")
  /\ Enters(t, "locking", [local[t] EXCEPT !.at = next])
  /\ UNCHANGED <<eventVars, directory, page, request, undoLog, reply, indexed>>

(* The version of the document, read under the locks. *)
CurrentVersion(t) == page[local[t].pages[1]].version

(* Mutant of assertNoConflict: the check is left to the lock. *)
assertNothing(t) == TRUE

assertNoConflict(t) == request[t].base \subseteq {CurrentVersion(t)}

(* Once every page on the list is locked, the new text is computed from the  *)
(* pages as they are now; before it is written, the chain grows to hold it.  *)
Planned(t) ==
  IF phase[t] = "growing" THEN local[t]
  ELSE [local[t] EXCEPT
          !.version = CurrentVersion(t) + 1,
          !.text = applyOperation(TextOn(page, local[t].pages),
                                  OperationOf(t, request[t].change))]

Decided(t) == Granted(t, "growing") \/ (AllLocked(t) /\ assertNoConflict(t))

TooLong(l) == Len(Chunks(l.text)) > Len(l.pages)

grow(t) ==
  LET l == Planned(t) IN
  /\ Decided(t) /\ TooLong(l)
  /\ allocatePage(request[t].doc)
  /\ Acquire(t, NewPage, "X")
  /\ Enters(t, "growing", [l EXCEPT !.pages = Append(@, NewPage)])
  /\ UNCHANGED <<eventVars, page, request, undoLog, reply, indexed>>

startWriting(t) ==
  LET l == Planned(t) IN
  /\ Decided(t) /\ ~TooLong(l)
  /\ Acquire(t, l.pages[1], "X")
  /\ Enters(t, "writing", [l EXCEPT !.at = 1])
  /\ UNCHANGED <<eventVars, directory, page, request, undoLog, reply, indexed>>

(* Mutant of ChunkFor: pages beyond the text stay as they are. *)
ChunkOrOld(l) ==
  LET chunks == Chunks(l.text)
  IN  IF l.at <= Len(chunks) THEN chunks[l.at] ELSE page[l.pages[l.at]].chunk

(* Pages beyond the text are emptied. *)
ChunkFor(l) ==
  LET chunks == Chunks(l.text)
  IN  IF l.at <= Len(chunks) THEN chunks[l.at] ELSE << >>

write(t) ==
  LET l == local[t]
      p == l.pages[l.at]
  IN  /\ Granted(t, "writing")
      /\ undoLog' = [undoLog EXCEPT ![t] =
           [q \in DOMAIN @ \cup {p} |-> IF q = p THEN page[p] ELSE @[q]]]
      /\ page' = [page EXCEPT ![p] = [version |-> l.version, chunk |-> ChunkFor(l)]]
      /\ \/ /\ l.at < Len(l.pages)
            /\ Acquire(t, l.pages[l.at + 1], "X")
            /\ Enters(t, "writing", [l EXCEPT !.at = @ + 1])
         \/ /\ l.at = Len(l.pages)
            /\ Enters(t, "finishing", l)
            /\ UNCHANGED lockVars
      /\ UNCHANGED <<eventVars, directory, request, reply, indexed>>

(* The caller gets its answer and the locks go. *)
Replies(t, l) ==
  /\ phase' = [phase EXCEPT ![t] = "replied"]
  /\ reply' = [reply EXCEPT ![t] = [version |-> l.version, text |-> l.text, pages |-> l.pages]]
  /\ undoLog' = [undoLog EXCEPT ![t] = Empty]
  /\ ReleaseAll(t)

Indexes(t) == indexed' = [indexed EXCEPT ![request[t].doc] = local[t].text]

EditEvent(t) ==
  [type |-> "edit", doc |-> request[t].doc, sequence |-> 0, version |-> local[t].version]

(* commit, the index and publish.  Between them the engine only waits for    *)
(* promises that are settled already, and nothing that commits or publishes  *)
(* can come in between.                                                      *)
finishCreate(t) ==
  /\ phase[t] = "finishing" /\ request[t].op = "create"
  /\ Replies(t, local[t]) /\ Indexes(t)
  /\ UNCHANGED <<eventVars, directory, page, request, local>>

finishEdit(t) ==
  /\ phase[t] = "finishing" /\ request[t].op = "edit"
  /\ publish(EditEvent(t)) /\ UNCHANGED delivered
  /\ Replies(t, local[t]) /\ Indexes(t)
  /\ UNCHANGED <<directory, page, request, local>>

(* abort: the before-images come back.  The directory keeps what it has. *)
Fails(t) ==
  /\ page' = [p \in Resource |-> IF p \in DOMAIN undoLog[t] THEN undoLog[t][p] ELSE page[p]]
  /\ phase' = [phase EXCEPT ![t] = "failed"]
  /\ undoLog' = [undoLog EXCEPT ![t] = Empty]
  /\ ReleaseAll(t)

(* publish finds the buffer full: the edit has been committed and indexed,   *)
(* and the handler aborts it all the same.                                   *)
failPublish(t) ==
  /\ phase[t] = "finishing" /\ request[t].op = "edit" /\ Full
  /\ Fails(t) /\ Indexes(t)
  /\ UNCHANGED <<eventVars, directory, request, local, reply>>

(* A lock request was rejected, the version is another one, or the metadata  *)
(* of a new document does not fit on its page.                               *)
fail(t) ==
  /\ \/ phase[t] \notin {"unborn", "replied", "failed"} /\ promise[t] = "rejected"
     \/ AllLocked(t) /\ ~assertNoConflict(t)
     \/ Granted(t, "writing") /\ request[t].op = "create"
  /\ Fails(t)
  /\ UNCHANGED <<eventVars, directory, request, local, reply, indexed>>

(* readDocument: one page, then the lock of the next or the answer. *)
readPage(t) ==
  LET p == local[t].pages[local[t].at]
      l == [local[t] EXCEPT !.version = IF local[t].at = 1 THEN page[p].version ELSE @,
                            !.text = @ \o page[p].chunk]
  IN  /\ Granted(t, "reading")
      /\ \/ /\ l.at < Len(l.pages)
            /\ Acquire(t, l.pages[l.at + 1], "S")
            /\ Enters(t, "reading", [l EXCEPT !.at = @ + 1])
            /\ UNCHANGED <<undoLog, reply>>
         \/ /\ l.at = Len(l.pages)
            /\ Replies(t, l)
            /\ UNCHANGED local
      /\ UNCHANGED <<eventVars, directory, page, request, indexed>>

broadcast == deliver /\ delivered' = delivered \o buffer /\ UNCHANGED <<lockVars, docVars>>

lockTimeout(t, p) == Timeout(t, p) /\ UNCHANGED <<eventVars, docVars>>

-----------------------------------------------------------------------------
Turn(t) ==
  \/ lockNextPage(t) \/ grow(t) \/ startWriting(t) \/ write(t)
  \/ finishCreate(t) \/ finishEdit(t) \/ failPublish(t) \/ fail(t) \/ readPage(t)

Next ==
  \/ \E t \in Tx, d \in Doc : createDocument(t, d) \/ executeEdit(t, d) \/ readDocument(t, d)
  \/ \E t \in Tx : Turn(t)
  \/ \E t \in Tx, p \in Resource : lockTimeout(t, p)
  \/ broadcast

Spec == Init /\ [][Next]_vars

(* A turn that may run runs, and a scheduled drain too. *)
FairSpec == Spec /\ WF_vars(broadcast) /\ \A t \in Tx : WF_vars(Turn(t))

-----------------------------------------------------------------------------
(* The pages without the writes of edits under way. *)
CommittedPage ==
  [p \in Resource |->
     IF \E t \in Tx : p \in DOMAIN undoLog[t]
     THEN undoLog[CHOOSE t \in Tx : p \in DOMAIN undoLog[t]][p] ELSE page[p]]

CommittedText(d) == TextOn(CommittedPage, directory[d])

CommittedVersion(d) == IF hasDocument(d) THEN CommittedPage[directory[d][1]].version ELSE 0

(* No lost update.  Whatever the pages of a document are and however edits   *)
(* of it wait for each other, time out, grow its chain or fail, its text     *)
(* changes by one whole edit at a time, applied to the text before it.       *)
Shared == INSTANCE SharedDocument WITH
  Operation <- {OperationOf(t, c) : t \in Tx, c \in Changes},
  text      <- [d \in Doc |-> CommittedText(d)],
  version   <- [d \in Doc |-> CommittedVersion(d)]

ImplementsSharedDocument == Shared!SharedSpec

(* An edit is applied to the text its client saw: the answer to it is what   *)
(* its operation makes of the version it was made against, as the engine     *)
(* answered whoever made that one.                                           *)
Answered(t) == phase[t] = "replied"

EditsBuildOnBase ==
  \A t, u \in Tx :
    /\ Answered(t) /\ request[t].op = "edit"
    /\ Answered(u) /\ request[u].op # "read" /\ request[u].doc = request[t].doc
    /\ reply[u].version \in request[t].base
    => /\ reply[t].version = reply[u].version + 1
       /\ reply[t].text = applyOperation(reply[u].text, OperationOf(t, request[t].change))

SameVersion(t, u) ==
  /\ Answered(t) /\ Answered(u)
  /\ request[t].doc = request[u].doc /\ reply[t].version = reply[u].version

(* Two answers about the same version and the same pages agree on the text,  *)
(* whether they come from edits or from reads.                               *)
AnswersAgree ==
  \A t, u \in Tx :
    SameVersion(t, u) /\ reply[t].pages = reply[u].pages => reply[t].text = reply[u].text

(* "Reads a document's full text under shared locks" (Engine.js:303): two    *)
(* answers about the same version agree on the text.                         *)
ReadsAreWhole ==
  \A t, u \in Tx : SameVersion(t, u) => reply[t].text = reply[u].text

(* Every version an edit makes is announced once, in order, and the sequence *)
(* numbers of the announcements have no gap.  The first version is not       *)
(* announced; a document whose creation failed has none.                     *)
Events == delivered \o buffer

Announced(d) == ElementsAt(Events, {i \in 1..Len(Events) : Events[i].doc = d})

Created(d) == \E t \in Tx : phase[t] = "replied" /\ request[t] = [op |-> "create", doc |-> d]

EveryVersionIsAnnounced ==
  \A d \in Doc :
    LET first == IF Created(d) THEN 1 ELSE 0
    IN  /\ CommittedVersion(d) = first + Len(Announced(d))
        /\ \A i \in 1..Len(Announced(d)) :
             Announced(d)[i].version = first + i /\ Announced(d)[i].sequence = i

(* "makes the edit path deadlock-free by construction" (Engine.js:31), with  *)
(* readers, growing chains and stale page lists: nobody ever waits in a      *)
(* circle, not even through the order of a queue.                            *)
EditPathDeadlockFree == Deadlocked = {}

(* Every request gets its answer, lock timeouts or not. *)
EveryRequestEnds ==
  \A t \in Tx : phase[t] # "unborn" ~> phase[t] \in {"replied", "failed"}
=============================================================================
