---------------------------- MODULE MessageQueue ----------------------------
(***************************************************************************)
(* The bounded buffer between the engine and the sessions:                 *)
(* src/engine/messaging/MessageQueue.js.  publish numbers an event within  *)
(* its document and appends it; a drain, which the first publish to an     *)
(* idle queue schedules for a later turn, hands everything buffered to the *)
(* consumers, in order.                                                    *)
(***************************************************************************)
EXTENDS Naturals, Sequences

CONSTANTS
  Doc,        \* documents
  Capacity    \* events the buffer holds

ASSUME CapacityAssumption == Capacity \in Nat

VARIABLES
  buffer,     \* the events published and not yet delivered
  sequences,  \* [Doc -> the last sequence number issued]
  draining    \* whether a drain is scheduled

queueVars == <<buffer, sequences, draining>>

QueueInit ==
  /\ buffer = << >>
  /\ sequences = [d \in Doc |-> 0]
  /\ draining = FALSE

(* Mutant of Full: one event too many. *)
Overfull == Len(buffer) > Capacity

Full == Len(buffer) >= Capacity

(* Mutant of Enveloped: every event starts the numbering again. *)
Unnumbered(event) == [event EXCEPT !.sequence = 1]

Enveloped(event) == [event EXCEPT !.sequence = sequences[event.doc] + 1]

publish(event) ==
  /\ ~Full
  /\ sequences' = [sequences EXCEPT ![event.doc] = @ + 1]
  /\ buffer' = Append(buffer, Enveloped(event))
  /\ draining' = TRUE

(* drain, in the turn scheduleDrain asked for: the consumers get the buffer. *)
deliver ==
  /\ draining
  /\ buffer' = << >>
  /\ draining' = FALSE
  /\ UNCHANGED sequences
=============================================================================
