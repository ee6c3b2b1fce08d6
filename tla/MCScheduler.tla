---------------------------- MODULE MCScheduler ----------------------------
(* Normal tasks of two documents, and priority tasks of one of them. *)
EXTENDS Scheduler

CONSTANTS d1, d2

ThreeKinds == {<<d1, FALSE>>, <<d1, TRUE>>, <<d2, FALSE>>}
=============================================================================
