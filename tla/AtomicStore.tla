---------------------------- MODULE AtomicStore ----------------------------
(***************************************************************************)
(* What the transaction layer promises its callers: pages that change only *)
(* by whole transactions.  A transaction builds its own images of the      *)
(* pages it writes, each from the image it reads; COMMIT makes all of them *)
(* the pages at once, ABORT and a restart forget them, and no two          *)
(* transactions have an image of the same page.  A COMMIT that the caller  *)
(* takes back before anybody else runs has not happened: it is an ABORT.   *)
(*                                                                         *)
(* An image is the set of the updates applied to the page, so that one     *)
(* computed from anything but the page's current image shows.              *)
(***************************************************************************)
EXTENDS Naturals

CONSTANTS
  Tx,       \* transactions
  Page,     \* pages
  Update    \* the identities of updates

VARIABLES
  store,    \* [Page -> committed image]
  pending   \* [Tx -> function from the pages it has written to its images]

storeVars == <<store, pending>>

NoWrites == [p \in {} |-> {}]

StoreInit ==
  /\ store = [p \in Page |-> {}]
  /\ pending = [t \in Tx |-> NoWrites]

(* The image a transaction sees, and what it makes of it. *)
Seen(t, p) == IF p \in DOMAIN pending[t] THEN pending[t][p] ELSE store[p]

Write(t, p, update) ==
  /\ \A u \in Tx \ {t} : p \notin DOMAIN pending[u]
  /\ update \notin Seen(t, p)
  /\ pending' = [pending EXCEPT ![t] =
       [q \in DOMAIN @ \cup {p} |-> IF q = p THEN Seen(t, p) \cup {update} ELSE @[q]]]
  /\ UNCHANGED store

Commit(t) ==
  /\ store' = [p \in Page |-> Seen(t, p)]
  /\ pending' = [pending EXCEPT ![t] = NoWrites]

Abort(t) ==
  /\ pending' = [pending EXCEPT ![t] = NoWrites]
  /\ UNCHANGED store

StoreNext ==
  \E t \in Tx :
    \/ \E p \in Page, update \in Update : Write(t, p, update)
    \/ Commit(t)
    \/ Abort(t)

StoreSpec == StoreInit /\ [][StoreNext]_storeVars
=============================================================================
