------------------------------ MODULE Catalog -------------------------------
(***************************************************************************)
(* The life of documents across the three places that know about them: the *)
(* metadata rows of the support store (src/server/stores), the engine's    *)
(* page directory and data file (StorageManager.js, Engine.js) and the     *)
(* keyword index (IndexManager.js), through the document and search        *)
(* controllers, a stop, a crash and a start.                               *)
(*                                                                         *)
(* The rows, the directory file, the data file and index.dat survive a     *)
(* crash, as does the log; the directory in memory and the index do not.   *)
(* An edit replaces the text of a document in one step, as SharedDocument  *)
(* promises, unless the process ends in the middle of it.  A step is what  *)
(* a handler does between two awaits on the store or the engine.           *)
(*                                                                         *)
(* Reads, which only use up identifiers, are left out, as are edits that   *)
(* write nothing; no record of the log is torn (see TransactionManager).   *)
(***************************************************************************)
EXTENDS IndexManager, RecoveryManager

CONSTANTS
  Doc,          \* document identifiers, issued in ascending order
  Texts,        \* the texts editors write
  SearchedPrefixes, \* the prefixes searched for, each an interval of keywords
  PageWords,    \* words that fit on a page
  Room,         \* entries and pages the directory file has room for
  Request,      \* requests in progress at a time
  MaxRequests,  \* bound: requests served
  MaxStarts     \* bound: starts of the engine

ASSUME CatalogAssumption ==
  /\ Doc \subseteq Nat /\ IsFiniteSet(Doc)
  /\ PageWords \in Nat \ {0} /\ Room \in Nat
  /\ MaxRequests \in Nat /\ MaxStarts \in Nat

VARIABLES
  rows,       \* [Doc -> what the store has: no row, a live one, a deleted one]
  directory,  \* [Doc -> its pages], none if it is unknown; in memory
  dirFile,    \* the same in the directory region of the data file
  pages,      \* the words on each page of the data file
  wal,        \* the log file
  nextTxId,
  index,      \* the index in memory
  indexFile,  \* index.dat
  started,    \* whether the engine is up
  pending,    \* [Request -> the rest of a handler]
  served, starts,
  overflown,  \* history: the directory did not fit its region once
  cut,        \* history: documents whose creation a crash cut short
  committed,      \* history: [Doc -> its text as committed, or as a start found it]
  spoilt      \* history: documents indexed with an edit that was taken back

storeVars == <<directory, dirFile, pages, wal, nextTxId, committed, overflown>>
indexVars == <<index, indexFile, spoilt>>
catalogVars == <<rows, storeVars, indexVars, started, pending, served, starts, cut>>

Idle == [op |-> "none"]
Nothing == [d \in Doc |-> << >>]
Known(dir) == {d \in Doc : dir[d] # << >>}
live(d) == rows[d] = "live"

(* What the pages of a document hold. *)
TextOf(dir, file, d) == FlattenSeq([i \in DOMAIN dir[d] |-> file[dir[d][i]]])

Pieces(text) == Max({1, (Len(text) + PageWords - 1) \div PageWords})

splitIntoChunks(text, n) ==
  [i \in 1..n |-> SubSeq(text, (i - 1) * PageWords + 1, Min({i * PageWords, Len(text)}))]

(* allocatePage, until d has n pages: the file grows by an empty page each   *)
(* time.                                                                     *)
Added(d, n) == 1..(n - Len(directory[d]))
Grown(d, n) == [directory EXCEPT ![d] = @ \o [i \in Added(d, n) |-> Len(pages) + i]]
Extended(d, n) == pages \o [i \in Added(d, n) |-> << >>]

(* flushDirectory throws before it writes when an entry lies beyond the end  *)
(* of the region.                                                            *)
Fits(dir) == Cardinality(Known(dir)) + FoldSet(LAMBDA d, n : n + Len(dir[d]), 0, Doc) <= Room

(* Mutant of Flushed: the directory is written before the page is added. *)
FlushedEarly(d, n) ==
  IF n > Len(directory[d]) THEN [directory EXCEPT ![d] = SubSeq(Grown(d, n)[d], 1, n - 1)] ELSE dirFile

(* The directory region once d has been given pages up to the n-th. *)
Flushed(d, n) == IF n > Len(directory[d]) THEN Grown(d, n) ELSE dirFile

(* What a transaction logs that writes the chunks of a text to the first m   *)
(* pages of d, when d has n.                                                 *)
Record(type) == [type |-> type, tx |-> nextTxId]

Logs(d, n, text, m) ==
  LET list == Grown(d, n)[d]   chunks == splitIntoChunks(text, n)
  IN  << Record("BEGIN") >> \o
      [i \in 1..m |-> [type |-> "UPDATE", tx |-> nextTxId, page |-> list[i],
                       before |-> Extended(d, n)[list[i]], after |-> chunks[i]]]

Init ==
  /\ rows = [d \in Doc |-> "none"]
  /\ directory = Nothing /\ dirFile = Nothing
  /\ pages = << >> /\ wal = << >> /\ nextTxId = 1
  /\ committed = Nothing
  /\ index = newIndex /\ indexFile = << >>
  /\ started = FALSE
  /\ pending = [r \in Request |-> Idle]
  /\ served = 0 /\ starts = 0
  /\ overflown = FALSE /\ cut = {} /\ spoilt = {}

-----------------------------------------------------------------------------
(* Handlers.  A request passes the access check of its route and is given to *)
(* the engine or the store; in between other requests run.                   *)

accept(r, rest) ==
  /\ started /\ pending[r] = Idle /\ served < MaxRequests
  /\ pending' = [pending EXCEPT ![r] = rest]
  /\ served' = served + 1

leaveTo(r, rest) == pending' = [pending EXCEPT ![r] = rest]

engineUnchanged == UNCHANGED <<storeVars, indexVars>>
processUnchanged == UNCHANGED <<started, starts, cut>>

(* POST /api/documents: the row first. *)
createRow(r) ==
  \E d \in Doc :
    /\ rows[d] = "none" /\ \A e \in Doc : e < d => rows[e] # "none"
    /\ accept(r, [op |-> "create", doc |-> d])
    /\ rows' = [rows EXCEPT ![d] = "live"]
    /\ engineUnchanged /\ processUnchanged

(* ... then the content.  allocatePage leaves the entry in memory when the   *)
(* directory cannot be written, and no transaction is begun.                 *)
createContent(r) ==
  /\ pending[r].op = "create"
  /\ LET d == pending[r].doc
     IN  /\ directory' = Grown(d, 1)
         /\ pages' = Extended(d, 1)
         /\ \/ /\ Fits(Grown(d, 1)) /\ dirFile' = Grown(d, 1)
               /\ wal' = wal \o Logs(d, 1, << >>, 1) \o << Record("COMMIT") >>
               /\ nextTxId' = nextTxId + 1
               /\ index' = indexDocument(index, d, << >>)
               /\ leaveTo(r, Idle) /\ UNCHANGED overflown
            \/ /\ ~Fits(Grown(d, 1)) /\ overflown' = TRUE
               /\ leaveTo(r, [op |-> "discard", doc |-> d])
               /\ UNCHANGED <<dirFile, wal, nextTxId, index>>
  /\ UNCHANGED <<rows, committed, indexFile, spoilt, served>> /\ processUnchanged

(* Mutant of discardRow: the row is kept. *)
keepRow(r) ==
  /\ pending[r].op = "discard"
  /\ leaveTo(r, Idle)
  /\ UNCHANGED <<rows, served>> /\ engineUnchanged /\ processUnchanged

(* The catch block of create. *)
discardRow(r) ==
  /\ pending[r].op = "discard"
  /\ rows' = [rows EXCEPT ![pending[r].doc] = "deleted"]
  /\ leaveTo(r, Idle)
  /\ UNCHANGED served /\ engineUnchanged /\ processUnchanged

(* POST /api/documents/:id/edit, accepted while the document is live. *)
acceptEdit(r) ==
  \E d \in Doc, text \in Texts :
    /\ live(d) /\ accept(r, [op |-> "edit", doc |-> d, text |-> text])
    /\ UNCHANGED rows /\ engineUnchanged /\ processUnchanged

(* The engine knows nothing of rows: it edits what has content.  The chain   *)
(* grows a page at a time, each written to the directory file; the page that *)
(* does not fit there any more stays in the list in memory.  What has been   *)
(* committed is indexed and published; publish throws when its buffer is     *)
(* full, and the handler aborts.                                             *)
Need(d, text) == Max({Len(directory[d]), Pieces(text)})

(* How far the directory region lets the chain grow. *)
Listed(d, text) ==
  Max({Len(directory[d])} \cup {n \in Len(directory[d])..Need(d, text) : Fits(Grown(d, n))})

edits(d, text) ==
  LET need == Need(d, text)
      list == Grown(d, need)[d]
      chunks == splitIntoChunks(text, need)
  IN  /\ Listed(d, text) = need
      /\ directory' = Grown(d, need) /\ dirFile' = Flushed(d, need)
      /\ index' = indexDocument(index, d, text)
      /\ \/ /\ pages' = Written(Extended(d, need),
                               [i \in 1..need |-> [page |-> list[i], image |-> chunks[i]]])
            /\ wal' = wal \o Logs(d, need, text, need) \o << Record("COMMIT") >>
            /\ committed' = [committed EXCEPT ![d] = text]
            /\ spoilt' = spoilt \ {d}
         \/ /\ pages' = Extended(d, need)
            /\ wal' = wal \o Logs(d, need, text, need) \o << Record("COMMIT"), Record("ABORT") >>
            /\ spoilt' = spoilt \cup {d}
            /\ UNCHANGED committed
      /\ UNCHANGED overflown

executeEdit(r) ==
  /\ pending[r].op = "edit"
  /\ leaveTo(r, Idle)
  /\ LET d     == pending[r].doc
         text  == pending[r].text
         listed == Listed(d, text)
     IN  \/ /\ directory[d] = << >>    \* DocumentNotFound
            /\ UNCHANGED <<storeVars, index, spoilt>>
         \/ /\ directory[d] # << >> /\ edits(d, text)
            /\ nextTxId' = nextTxId + 1
         \/ /\ directory[d] # << >> /\ listed < Need(d, text)
            /\ directory' = Grown(d, listed + 1) /\ dirFile' = Flushed(d, listed)
            /\ pages' = Extended(d, listed + 1)
            /\ wal' = wal \o << Record("BEGIN"), Record("ABORT") >> /\ nextTxId' = nextTxId + 1
            /\ overflown' = TRUE
            /\ UNCHANGED <<committed, index, spoilt>>
  /\ UNCHANGED <<rows, indexFile, served>> /\ processUnchanged

(* DELETE /api/documents/:id: the row, then the postings. *)
acceptRemove(r) ==
  \E d \in Doc :
    /\ live(d) /\ accept(r, [op |-> "remove", doc |-> d])
    /\ UNCHANGED rows /\ engineUnchanged /\ processUnchanged

removeRow(r) ==
  /\ pending[r].op = "remove"
  /\ rows' = [rows EXCEPT ![pending[r].doc] = "deleted"]
  /\ leaveTo(r, [op |-> "forget", doc |-> pending[r].doc])
  /\ UNCHANGED served /\ engineUnchanged /\ processUnchanged

removePostings(r) ==
  /\ pending[r].op = "forget"
  /\ index' = removeDocument(index, pending[r].doc)
  /\ spoilt' = spoilt \ {pending[r].doc}
  /\ leaveTo(r, Idle)
  /\ UNCHANGED <<rows, storeVars, indexFile, served>> /\ processUnchanged

-----------------------------------------------------------------------------
(* The process. *)

reindexAll(ix, dir, file, order) ==
  FoldLeft(LAMBDA i, d : indexDocument(i, d, TextOf(dir, file, d)), ix, order)

(* The directory is read, then the pages recovered, then index.dat read, and *)
(* every document of the directory indexed again, in the order of its map.   *)
start ==
  /\ ~started /\ starts < MaxStarts
  /\ started' = TRUE /\ starts' = starts + 1
  /\ directory' = dirFile
  /\ pages' = Recovered(pages, wal)
  /\ wal' = wal \o AbortRecords(wal)
  /\ committed' = [d \in Doc |-> TextOf(dirFile, pages', d)]
  /\ \E order \in SetToSeqs(Known(dirFile)) :
       index' = reindexAll(load(indexFile), dirFile, pages', order)
  /\ spoilt' = {}
  /\ UNCHANGED <<rows, dirFile, nextTxId, indexFile, pending, served, overflown, cut>>

UpdatesTo(log, p) == {i \in DOMAIN log : log[i].type = "UPDATE" /\ log[i].page = p}

(* What the data file holds of a page some transaction wrote depends on what *)
(* the buffer pool happened to flush, before a crash and in front of it.  It *)
(* is left open, as words of no text, until recovery writes the page.        *)
Unknown == << 0, 0 >>

AsFlushed(file, log) ==
  [p \in DOMAIN file |-> IF UpdatesTo(log, p) = {} THEN file[p] ELSE Unknown]

(* One transaction may have got as far as its first n pages and m updates.   *)
TransactionIsCut ==
  \E r \in Request :
    \/ /\ pending[r].op = "edit"
       /\ LET d == pending[r].doc   text == pending[r].text
          IN  \E n \in Len(directory[d])..Listed(d, text), m \in 0..Need(d, text) :
                /\ directory[d] # << >> /\ (m > 0 => n = Need(d, text))
                /\ dirFile' = Flushed(d, n)
                /\ wal' = wal \o Logs(d, n, text, m)
                /\ pages' = AsFlushed(Extended(d, n), wal')
    \/ /\ pending[r].op = "create" /\ Fits(Grown(pending[r].doc, 1))
       /\ dirFile' = Grown(pending[r].doc, 1)
       /\ \E m \in 0..1 : wal' = wal \o Logs(pending[r].doc, 1, << >>, m)
       /\ pages' = AsFlushed(Extended(pending[r].doc, 1), wal')

(* The end of the process loses what was in memory and every handler.        *)
endProcess ==
  /\ started /\ started' = FALSE
  /\ directory' = Nothing /\ index' = newIndex
  /\ nextTxId' = 1
  /\ pending' = [r \in Request |-> Idle]
  /\ cut' = cut \cup {pending[r].doc : r \in {r \in Request : pending[r].op \in {"create", "discard"}}}
  /\ \/ UNCHANGED <<dirFile, wal>> /\ pages' = AsFlushed(pages, wal)
     \/ TransactionIsCut
  /\ UNCHANGED <<rows, committed, served, starts, overflown, spoilt>>

stop == endProcess /\ indexFile' = persist(index)
crash == endProcess /\ UNCHANGED indexFile

Next ==
  \/ \E r \in Request :
       \/ createRow(r) \/ createContent(r) \/ discardRow(r)
       \/ acceptEdit(r) \/ executeEdit(r)
       \/ acceptRemove(r) \/ removeRow(r) \/ removePostings(r)
  \/ start \/ stop \/ crash

Spec == Init /\ [][Next]_catalogVars

-----------------------------------------------------------------------------
(* Searching, as GET /api/search answers: the engine's documents that the    *)
(* caller may see, in a state of one user who owns every document.           *)

accessible == {d \in Doc : live(d)}

loadAllDocuments == [d \in Known(directory) |-> TextOf(directory, pages, d)]

searchAnswer(word) == search(index.tree, word) \cap accessible
prefixAnswer(p) == searchPrefix(index, p[1], p[2]) \cap accessible

-----------------------------------------------------------------------------
(* The tree satisfies what it promises of itself, the leaves are chained in  *)
(* key order from the first to the last, and nothing else is in the table.   *)
TreeIsValid ==
  LET t == index.tree   es == entries(t)
  IN  /\ validate(t)
      /\ \A i \in 1..(Len(es) - 1) : es[i].key < es[i + 1].key
      /\ Len(es) = t.size
      /\ t.size = SumFunction([n \in DOMAIN t.nodes |->
                     IF t.nodes[n].leaf THEN Len(t.nodes[n].keys) ELSE 0])

(* Whatever was edited, removed, restarted or crashed, a search by keyword   *)
(* or by prefix names, of the live documents with content, those that a scan *)
(* of all texts would name, but for documents whose last edit was indexed    *)
(* and then taken back.                                                      *)
SearchIsExact ==
  started =>
    LET texts == loadAllDocuments
        seen  == (accessible \cap DOMAIN texts) \ spoilt
        Scan  == [w \in Keyword |-> fullScan(w, texts) \cap seen]
    IN  /\ \A w \in Keyword : searchAnswer(w) \cap seen = Scan[w]
        /\ \A p \in SearchedPrefixes :
             prefixAnswer(p) \cap seen
               = UNION {Scan[w] : w \in {w \in Keyword : w \in p[1]..p[2]}}

(* What restart recovery gets wrong (see README.md, section 4): an update    *)
(* whose outcome a later transaction of the same identifier decides, that    *)
(* of a loser in front of a winner's, and one committed and taken back.      *)
Ended(i, type) ==
  \E c \in i..Len(wal) :
    /\ wal[c] = [type |-> type, tx |-> wal[i].tx]
    /\ \A b \in i..c : wal[b] # [type |-> "BEGIN", tx |-> wal[i].tx]

Misrecovered(p) ==
  \E i \in UpdatesTo(wal, p) :
    \/ wal[i].tx \in winners(wal) /\ ~Ended(i, "COMMIT")
    \/ wal[i].tx \in losers(wal) /\ \E j \in UpdatesTo(wal, p) : i < j /\ wal[j].tx \in winners(wal)
    \/ Ended(i, "COMMIT") /\ Ended(i, "ABORT")

(* A start finds every committed text whole, unless the page directory once  *)
(* outgrew its region or recovery goes wrong on a page of it.                *)
RestartKeepsTexts ==
  [][start /\ ~overflown =>
       \A d \in Doc :
         \/ \E i \in DOMAIN dirFile[d] : Misrecovered(dirFile[d][i])
         \/ committed'[d] = committed[d]]_catalogVars

(* Content has a row; a live row has content, is about to get it, or lost it *)
(* to a crash in the middle of its creation.                                 *)
RowsMatchContent ==
  /\ \A d \in Known(dirFile) : rows[d] # "none"
  /\ \A d \in accessible :
       \/ dirFile[d] # << >> \/ d \in cut
       \/ \E r \in Request : pending[r].op \in {"create", "discard"} /\ pending[r].doc = d
=============================================================================
