--------------------------- MODULE SharedDocument ---------------------------
(***************************************************************************)
(* What the engine promises the editors of a document: one text, changed   *)
(* by whole edits, each applied to the text the one before it left and     *)
(* each raising the version by one.                                        *)
(***************************************************************************)
EXTENDS Naturals, Sequences, ConflictResolver

CONSTANTS Doc, Operation

VARIABLES text, version     \* [Doc -> the committed text, its version]

SharedInit == text = [d \in Doc |-> << >>] /\ version = [d \in Doc |-> 0]

Create(d) ==
  /\ version[d] = 0 /\ version' = [version EXCEPT ![d] = 1]
  /\ UNCHANGED text

Edit(d, op) ==
  /\ text' = [text EXCEPT ![d] = applyOperation(@, op)]
  /\ version' = [version EXCEPT ![d] = @ + 1]

SharedNext == \E d \in Doc : Create(d) \/ \E op \in Operation : Edit(d, op)

SharedSpec == SharedInit /\ [][SharedNext]_<<text, version>>
=============================================================================
