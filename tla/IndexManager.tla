---------------------------- MODULE IndexManager ----------------------------
(***************************************************************************)
(* The inverted index from keywords to documents:                          *)
(* src/engine/index/IndexManager.js.  An index is a tree of postings and,  *)
(* for each document indexed, the keywords it was indexed with, in the     *)
(* order they were inserted.  A text is a sequence of words, some of which *)
(* (stop words, single letters) are no keywords.                           *)
(***************************************************************************)
EXTENDS BPlusTree

newIndex == [tree |-> newTree, documentKeywords |-> [d \in {} |-> << >>]]

(* A Set keeps the order in which its members were added first. *)
tokenize(text) ==
  FoldLeft(LAMBDA tokens, word :
             IF word \in Keyword \ ToSet(tokens) THEN Append(tokens, word) ELSE tokens,
           << >>, text)

removeDocument(index, docId) ==
  IF docId \notin DOMAIN index.documentKeywords THEN index
  ELSE [tree |-> FoldLeft(LAMBDA t, key : delete(t, key, docId), index.tree,
                          index.documentKeywords[docId]),
        documentKeywords |-> Minus(index.documentKeywords, docId)]

(* Mutant of indexDocument: the keywords of the text before are left. *)
indexAdded(index, docId, text) ==
  LET words == tokenize(text)
  IN  [tree |-> FoldLeft(LAMBDA t, key : insert(t, key, docId), index.tree, words),
       documentKeywords |-> With(index.documentKeywords, docId, words)]

indexDocument(index, docId, text) ==
  LET cleared == removeDocument(index, docId)
      words   == tokenize(text)
  IN  [tree |-> FoldLeft(LAMBDA t, key : insert(t, key, docId), cleared.tree, words),
       documentKeywords |-> With(cleared.documentKeywords, docId, words)]

(* The keywords that begin with a prefix are an interval of the order; a     *)
(* prefix is the pair of its ends.                                           *)
searchPrefix(index, from, to) ==
  UNION {e.docIds : e \in ToSet(rangeScan(index.tree, from, to))}

(* The reference: every document whose text has the word. *)
fullScan(word, texts) == {d \in DOMAIN texts : word \in ToSet(tokenize(texts[d]))}

(* index.dat: the entries of the leaves, in key order. *)
persist(index) == entries(index.tree)

(* The tree is built anew, an entry's documents one by one; a document's     *)
(* keywords come back in key order.                                          *)
Posted(tree, e) == FoldSet(LAMBDA d, t : insert(t, e.key, d), tree, e.docIds)

(* Mutant of load: the documents' keywords are not read back. *)
loadTree(file) ==
  [newIndex EXCEPT !.tree = FoldLeft(Posted, newTree, file)]

load(file) ==
  LET known == UNION {e.docIds : e \in ToSet(file)}
      Mentions(d) == SelectSeq(file, LAMBDA e : d \in e.docIds)
  IN  [tree |-> FoldLeft(Posted, newTree, file),
       documentKeywords |->
         [d \in known |-> [i \in DOMAIN Mentions(d) |-> Mentions(d)[i].key]]]
=============================================================================
