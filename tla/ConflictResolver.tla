-------------------------- MODULE ConflictResolver --------------------------
(***************************************************************************)
(* What an edit does to a text, and when two edits of one text commute:    *)
(* src/engine/conflict/ConflictResolver.js.  A text is a sequence of       *)
(* characters; an operation has a position counted from 0, a content (what *)
(* an insert puts there) and a length (what a delete takes away).  An      *)
(* operation with a content is an insert; one that changes nothing counts  *)
(* as a delete.                                                            *)
(***************************************************************************)
EXTENDS Integers, Sequences

LOCAL Least(m, n) == IF m <= n THEN m ELSE n

(* Both kinds of edit clamp the position to the text; a delete that reaches  *)
(* beyond its end stops there.                                               *)
applyOperation(text, op) ==
  LET position == Least(op.position, Len(text))
  IN  SubSeq(text, 1, position) \o op.content
        \o SubSeq(text, position + op.length + 1, Len(text))

IsInsert(op) == op.content # << >>

(* The characters an operation takes away, from start up to end, and by how  *)
(* much it moves those behind them.                                          *)
operationRange(op) ==
  [start |-> op.position,
   end   |-> op.position + op.length,
   delta |-> Len(op.content) - op.length]

(* Two inserts collide at the same place only, an insert and a delete where  *)
(* the place is strictly inside of what is deleted, two deletes where they   *)
(* share characters.                                                         *)
overlaps(opA, opB) ==
  LET a == operationRange(opA)
      b == operationRange(opB)
  IN  \/ IsInsert(opA) /\ IsInsert(opB) /\ a.start = b.start
      \/ IsInsert(opA) /\ ~IsInsert(opB) /\ b.start < a.start /\ a.start < b.end
      \/ IsInsert(opB) /\ ~IsInsert(opA) /\ a.start < b.start /\ b.start < a.end
      \/ ~IsInsert(opA) /\ ~IsInsert(opB) /\ a.start < b.end /\ b.start < a.end

(* The incoming operation after the committed one: moved along with the      *)
(* text behind it.  The text that results, for operations that do not        *)
(* overlap.                                                                  *)
shiftedOp(committedOp, incomingOp) ==
  LET committed == operationRange(committedOp)
  IN  IF incomingOp.position >= committed.end
      THEN [incomingOp EXCEPT !.position = @ + committed.delta]
      ELSE incomingOp

merge(baseText, committedOp, incomingOp) ==
  applyOperation(applyOperation(baseText, committedOp), shiftedOp(committedOp, incomingOp))

-----------------------------------------------------------------------------
(* "both survive" (ConflictResolver.js:151): operations on one text that do  *)
(* not overlap give the same text whichever of them is committed first.  (An *)
(* operation that starts behind the end of the text is clamped, and two of   *)
(* those do not commute.)                                                    *)
MergesConverge(text, operations) ==
  \A a, b \in {op \in operations : op.position <= Len(text)} :
    ~overlaps(a, b) => merge(text, a, b) = merge(text, b, a)

=============================================================================
