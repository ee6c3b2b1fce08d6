----------------------------- MODULE PageLayout -----------------------------
(***************************************************************************)
(* Records on a page, src/engine/storage/Page.js, and how Engine.js cuts a *)
(* text into pieces that fit.  The record area is a sequence of cells, one *)
(* per byte.  The first cell of a record's header holds its fields; there  *)
(* is no directory of records, so that a page is walked from its front by  *)
(* the lengths in the headers.                                             *)
(***************************************************************************)
EXTENDS Integers, Sequences, SequencesExt

CONSTANTS
  PageSize,            \* bytes of a page
  PAGE_HEADER_SIZE,    \* bytes in front of the record area
  RECORD_HEADER_SIZE   \* bytes in front of the payload of a record

ASSUME PageAssumption ==
  /\ PAGE_HEADER_SIZE \in Nat /\ RECORD_HEADER_SIZE \in Nat \ {0}
  /\ PageSize \in Nat /\ PageSize > PAGE_HEADER_SIZE + RECORD_HEADER_SIZE

AreaSize == PageSize - PAGE_HEADER_SIZE

Zeroes(n) == [i \in 1..n |-> << >>]

newPage == [recordCount |-> 0, area |-> Zeroes(AreaSize)]

RecordSize(record) == RECORD_HEADER_SIZE + Len(record.payload)

RecordCells(record) ==
  << <<record.recordId, Len(record.payload), record.version>> >>
    \o Zeroes(RECORD_HEADER_SIZE - 1) \o record.payload

(* Where the records of a page start, and where the next one would.          *)
Offsets(page) ==
  FoldLeft(LAMBDA offsets, i :
             Append(offsets, Last(offsets) + RECORD_HEADER_SIZE + page.area[Last(offsets) + 1][2]),
           <<0>>, [i \in 1..page.recordCount |-> i])

endOffset(page) == Last(Offsets(page))
freeSpace(page) == AreaSize - endOffset(page)

RecordAt(page, offset) ==
  LET header == page.area[offset + 1]
      start  == offset + RECORD_HEADER_SIZE
  IN  [recordId |-> header[1], version |-> header[3],
       payload |-> SubSeq(page.area, start + 1, start + header[2])]

listRecords(page) ==
  [i \in 1..page.recordCount |-> RecordAt(page, Offsets(page)[i])]

(* The first of the records with this identifier. *)
First(records, recordId) ==
  LET found == SelectSeq(records, LAMBDA r : r.recordId = recordId)
  IN  IF found = << >> THEN << >> ELSE <<found[1]>>

readRecord(page, recordId) == First(listRecords(page), recordId)

(* PageFullError leaves the page as it was. *)
insertRecord(page, record) ==
  LET end == endOffset(page)
  IN  IF RecordSize(record) > freeSpace(page) THEN page
      ELSE [recordCount |-> page.recordCount + 1,
            area |-> SubSeq(page.area, 1, end) \o RecordCells(record)
                       \o SubSeq(page.area, end + RecordSize(record) + 1, AreaSize)]

Required(records) == FoldLeft(LAMBDA sum, r : sum + RecordSize(r), 0, records)

rewriteRecords(page, records) ==
  IF Required(records) > AreaSize THEN page
  ELSE [recordCount |-> Len(records),
        area |-> FlattenSeq([i \in 1..Len(records) |-> RecordCells(records[i])])
                   \o Zeroes(AreaSize - Required(records))]

(* The first record with the identifier is replaced where it is; a delete    *)
(* takes every record that has it.                                           *)
updateRecord(page, record) ==
  LET records == listRecords(page)
      target  == SelectInSeq(records, LAMBDA r : r.recordId = record.recordId)
  IN  IF target = 0 THEN page
      ELSE rewriteRecords(page, [records EXCEPT ![target] = record])

deleteRecord(page, recordId) ==
  rewriteRecords(page, SelectSeq(listRecords(page), LAMBDA r : r.recordId # recordId))

-----------------------------------------------------------------------------
(* Engine.js: what a page of a document holds of its text.  The first page   *)
(* has the metadata record in front.                                         *)
chunkCapacity(pageIndex, metadataLength) ==
  AreaSize - RECORD_HEADER_SIZE
    - (IF pageIndex = 0 THEN RECORD_HEADER_SIZE + metadataLength ELSE 0)

(* A piece ends where its page is full, or before the character that would   *)
(* be cut there, whose further bytes are in the set continuation.  An empty  *)
(* text has one empty piece.                                                 *)
splitIntoChunks(bytes, metadataLength, continuation) ==
  LET Whole(offset, end) ==
        end = offset \/ end = Len(bytes) \/ bytes[end + 1] \notin continuation
      End(offset, pageIndex) ==
        LET full == Min({Len(bytes), offset + chunkCapacity(pageIndex, metadataLength)})
        IN  Max({end \in offset..full : Whole(offset, end)})
      rest[offset \in 0..Len(bytes)] ==
        IF offset = Len(bytes) THEN << >>
        ELSE <<SubSeq(bytes, offset + 1, End(offset, 1))>> \o rest[End(offset, 1)]
  IN  <<SubSeq(bytes, 1, End(0, 0))>> \o rest[End(0, 0)]

(* The records executeEdit writes to the page with the index i (from 0): the *)
(* metadata on the first one, the piece of the text on each.                 *)
DocumentRecords(i, metadata, chunk) ==
  (IF i = 0 THEN <<metadata>> ELSE << >>) \o <<chunk>>

-----------------------------------------------------------------------------
(* What a page is for: after any operations it lists the records an ordinary *)
(* list would hold, an operation that does not fit changes nothing, and the  *)
(* records never reach beyond the page.                                      *)
Fits(records) == Required(records) <= AreaSize

Listed(records, op) ==
  LET same(r) == r.recordId = op.record.recordId
      target  == SelectInSeq(records, same)
      after   == CASE op.type = "insert" -> Append(records, op.record)
                   [] op.type = "update" ->
                        IF target = 0 THEN records ELSE [records EXCEPT ![target] = op.record]
                   [] op.type = "delete" -> SelectSeq(records, LAMBDA r : ~same(r))
  IN  IF Fits(after) THEN after ELSE records

Applied(page, op) ==
  CASE op.type = "insert" -> insertRecord(page, op.record)
    [] op.type = "update" -> updateRecord(page, op.record)
    [] op.type = "delete" -> deleteRecord(page, op.record.recordId)

ListsItsRecords(operations) ==
  LET page    == FoldLeft(Applied, newPage, operations)
      records == FoldLeft(Listed, << >>, operations)
  IN  /\ listRecords(page) = records
      /\ freeSpace(page) = AreaSize - Required(records)

(* A document reads back as it was written, however its text is cut: each    *)
(* piece fits on its page beside what else is there (a piece that did not    *)
(* would leave the page as it was), none starts in the middle of a character, *)
(* and the pieces read from the pages are the text.                          *)
ReadsBack(bytes, metadataLength, continuation) ==
  LET chunks     == splitIntoChunks(bytes, metadataLength, continuation)
      metadata   == [recordId |-> 0, version |-> 1, payload |-> Zeroes(metadataLength)]
      Content(i) == [recordId |-> 1, version |-> 1, payload |-> chunks[i]]
      Written(i) == rewriteRecords(newPage, DocumentRecords(i - 1, metadata, Content(i)))
  IN  /\ \A i \in 1..Len(chunks) :
           /\ readRecord(Written(i), 1) = <<Content(i)>>
           /\ chunks[i] # << >> => chunks[i][1] \notin continuation
      /\ bytes = FlattenSeq([i \in 1..Len(chunks) |-> readRecord(Written(i), 1)[1].payload])
=============================================================================
