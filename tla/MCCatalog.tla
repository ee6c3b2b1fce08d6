----------------------------- MODULE MCCatalog ------------------------------
(***************************************************************************)
(* The catalog for TLC: three documents, twelve keywords and nodes of      *)
(* three keys, so that a text of all keywords makes a tree of three levels *)
(* and replacing it takes the tree apart again.                            *)
(***************************************************************************)
EXTENDS Catalog

ThreeDocuments == 1..3
RequestSymmetry == Permutations(Request)
TwelveKeywords == 1..12

(* 0 is a stop word.  Replacing one of these by another borrows from and     *)
(* merges with either neighbour, at the leaves and above them.               *)
SomeTexts ==
  {<< >>, << 5, 5, 6 >>, << 12, 11, 10, 0, 9, 2, 3 >>, << 1, 3, 6, 7, 5, 8 >>,
   << 1, 2, 3, 4, 5, 6, 7, 8, 9, 10, 11, 12 >>,
   << 5, 2, 9, 12, 1, 11, 3, 7, 10, 8, 6, 4 >>}

SomePrefixes == {<< 1, 12 >>, << 2, 2 >>, << 3, 5 >>, << 6, 9 >>, << 9, 12 >>}

(* Bound: a transaction that was cut off, and a third start, are explored    *)
(* only where two documents have had texts of one page and of two.           *)
FewTexts == {<< 5, 5, 6 >>, << 12, 11, 10, 0, 9, 2, 3 >>}

OnlyFewTexts ==
  LET Chunks == UNION {ToSet(splitIntoChunks(text, 2)) : text \in FewTexts \cup {<< >>}}
  IN  /\ rows[3] = "none"
      /\ \A i \in DOMAIN wal : wal[i].type = "UPDATE" => wal[i].after \in Chunks
      /\ \A r \in Request : pending[r].op = "edit" => pending[r].text \in FewTexts

TransactionWasCut ==
  \/ losers(wal) \ TxOf(wal, "ABORT") # {}
  \/ \E i \in DOMAIN wal : wal[i].type = "UPDATE" /\ wal[i].tx \in losers(wal)

CommitWasUndone == TxOf(wal, "ABORT") \cap winners(wal) # {}

ManyTextsStayShort ==
  starts = 3 \/ TransactionWasCut \/ CommitWasUndone => OnlyFewTexts
=============================================================================
