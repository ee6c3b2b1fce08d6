--------------------------- MODULE MCTransactions ---------------------------
(***************************************************************************)
(* Transactions for TLC: two transactions and two pages, with one frame    *)
(* in the pool, so that every access to the other page evicts.             *)
(***************************************************************************)
EXTENDS TransactionManager, TLC

Transactions == 1..2

(* The pages are interchangeable. *)
PageSymmetry == Permutations(Resource)

(* What follows on an append behind a torn record is not explored: nothing   *)
(* is claimed of such a log.                                                 *)
ReadableLog == Readable(wal)

(* A checkpoint is explored where it writes a page: elsewhere it is a record *)
(* that recovery passes over.                                                *)
CheckpointsWrite == checkpoint => disk' # disk
=============================================================================
