------------------------------ MODULE MCEngine ------------------------------
(***************************************************************************)
(* The document operations for TLC.  One character fits on the first page, *)
(* two on each of the others: a text of two is a chain of two pages.       *)
(***************************************************************************)
EXTENDS Engine, TLC

ThreeRequests == 1..3
FourRequests  == 1..4
SixPages      == 1..6

(* Two characters in front of the text, and one off its end. *)
Edits == {[position |-> 0, insert |-> 2, delete |-> 0],
          [position |-> 1, insert |-> 0, delete |-> 1]}

(* All operations of up to two characters at the places of a text of four,   *)
(* its end included, and every text of up to four different characters.      *)
SmallOperations ==
  [position : 0..4, content : {<< >>, <<"a">>, <<"b", "c">>}, length : {0}]
    \cup [position : 0..4, content : {<< >>}, length : 1..3]

ASSUME MergeAssumption ==
  \A n \in 0..4 : MergesConverge([i \in 1..n |-> ToString(i)], SmallOperations)

-----------------------------------------------------------------------------
(* Pages of nine bytes behind their header, with record headers of two.      *)
Small == INSTANCE PageLayout WITH
  PageSize <- 10, PAGE_HEADER_SIZE <- 1, RECORD_HEADER_SIZE <- 2

PageOperations ==
  [type   : {"insert", "update", "delete"},
   record : [recordId : {1, 2}, version : {1},
             payload : {<< >>, [i \in 1..2 |-> <<2>>], [i \in 1..5 |-> <<5>>]}]]

ASSUME PageListsAssumption ==
  \A n \in 0..3 : \A operations \in [1..n -> PageOperations] :
    Small!ListsItsRecords(operations)

(* Texts of up to four characters of one to four bytes each, the first byte  *)
(* of a character counted as 1.                                              *)
TextOf(widths) ==
  FlattenSeq([i \in 1..Len(widths) |-> [k \in 1..widths[i] |-> k]])

ASSUME ChunksAssumption ==
  \A n \in 0..4, m \in 0..5 : \A widths \in [1..n -> 1..4] :
    Small!ReadsBack(TextOf(widths), m, 2..4)
=============================================================================
