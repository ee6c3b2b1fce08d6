-------------------------- MODULE RecoveryManager --------------------------
(***************************************************************************)
(* Restart recovery, src/engine/recovery/RecoveryManager.js, as functions  *)
(* of the records WAL.readAll returns.  A record names its type and its    *)
(* transaction; an UPDATE record also its page and the page's images       *)
(* before and after.  An append the process did not live to finish leaves  *)
(* a record of the type TORN.                                              *)
(***************************************************************************)
EXTENDS Naturals, Sequences, FiniteSets, SequencesExt, FiniteSetsExt, Orders

(* Mutant of readAll: the record in front of a torn one is dropped too. *)
readShort(file) ==
  IF file # << >> /\ Last(file).type = "TORN" THEN SubSeq(file, 1, Len(file) - 2) ELSE file

(* WAL.readAll: the records in front of a torn one. *)
readAll(file) ==
  LET torn == {i \in 1..Len(file) : file[i].type = "TORN"}
  IN  IF torn = {} THEN file ELSE SubSeq(file, 1, Min(torn) - 1)

TxOf(records, type) ==
  {records[i].tx : i \in {j \in 1..Len(records) : records[j].type = type}}

(* analyse: an ABORT record changes nothing. *)
winners(records) == TxOf(records, "COMMIT")
losers(records)  == TxOf(records, "BEGIN") \ winners(records)

UpdatesOf(records, txs) ==
  ElementsAt(records,
             {i \in 1..Len(records) : records[i].type = "UPDATE" /\ records[i].tx \in txs})

(* The page writes of each pass, in the order they are made. *)
redo(records) ==
  LET updates == UpdatesOf(records, winners(records))
  IN  [i \in 1..Len(updates) |-> [page |-> updates[i].page, image |-> updates[i].after]]

(* Mutant of undo: a forward pass. *)
undoForward(records) ==
  LET updates == UpdatesOf(records, losers(records))
  IN  [i \in 1..Len(updates) |-> [page |-> updates[i].page, image |-> updates[i].before]]

undo(records) ==
  LET updates == Reverse(UpdatesOf(records, losers(records)))
  IN  [i \in 1..Len(updates) |-> [page |-> updates[i].page, image |-> updates[i].before]]

RecoveryWrites(records) == redo(records) \o undo(records)

(* Mutant of AbortRecords: logCommit is called instead. *)
CommitRecords(records) ==
  LET order == Ascending(losers(records))
  IN  [i \in 1..Len(order) |-> [type |-> "COMMIT", tx |-> order[i]]]

(* The ABORT records appended once the passes are done, in the order of the  *)
(* losers' first BEGIN.                                                      *)
AbortRecords(records) ==
  LET order == Ascending(losers(records))
  IN  [i \in 1..Len(order) |-> [type |-> "ABORT", tx |-> order[i]]]

(* A data file after a sequence of page writes: the last one to a page wins. *)
Written(file, writes) ==
  [p \in DOMAIN file |->
     LET mine == {i \in 1..Len(writes) : writes[i].page = p}
     IN  IF mine = {} THEN file[p] ELSE writes[Max(mine)].image]

(* The data file a recovery that is not interrupted leaves. *)
Recovered(file, log) == Written(file, RecoveryWrites(readAll(log)))
=============================================================================
