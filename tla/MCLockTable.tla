---------------------------- MODULE MCLockTable ----------------------------
(***************************************************************************)
(* The lock table and the deadlock sweep for TLC: three transactions, the  *)
(* fewest with which a queue can form behind two holders.                  *)
(***************************************************************************)
EXTENDS DeadlockDetector, TLC

Transactions == 1..3

(* The pages are interchangeable. *)
PageSymmetry == Permutations(Resource)
=============================================================================
