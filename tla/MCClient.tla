------------------------------ MODULE MCClient ------------------------------
(***************************************************************************)
(* Editors and their sockets for TLC: two users with a tab each, a document *)
(* of a that b may view, and one of b that a has no access to.             *)
(***************************************************************************)
EXTENDS Client

TwoSockets == 1..2
ThreeSockets == 1..3
TwoCalls == 1..2
OneTab == {"a"}
TwoTabs == {"a", "b"}

(* What a and b may do: how often each connects, opens a document, types and *)
(* changes a role; and the tabs React may fall behind for.                   *)
LateBudget(connects, opens, keystrokes, grants, slow) ==
  LET Each(n) == [t \in Tab |-> IF t = "a" THEN n[1] ELSE n[2]]
  IN  [connects |-> Each(connects), opens |-> Each(opens), keystrokes |-> Each(keystrokes),
       grants |-> Each(grants), slow |-> slow]

Budget(connects, opens, keystrokes, grants) ==
  LateBudget(connects, opens, keystrokes, grants, {})

OwnUser == [t \in Tab |-> t]
Creators == [d \in Doc |-> IF d = "d" THEN "a" ELSE "b"]
Ownership ==
  [u \in User |-> [d \in Doc |->
     IF u = Creators[d] THEN "owner" ELSE IF u = "b" THEN "viewer" ELSE "none"]]

(* Switching documents; losing the connection; both types of user on one     *)
(* document; edits in a row, and into a tab that opens its document twice;   *)
(* roles that change on the way, and two editors; one who keeps typing.      *)
(* With a slow b: a comes too; a types while b switches; b types.            *)
SomeBudgets ==
  {Budget(<< 1, 1 >>, << 1, 2 >>, << 0, 0 >>, << 0, 0 >>),
   Budget(<< 1, 2 >>, << 1, 1 >>, << 0, 0 >>, << 0, 0 >>),
   Budget(<< 1, 1 >>, << 1, 1 >>, << 1, 0 >>, << 0, 0 >>),
   Budget(<< 0, 1 >>, << 1, 1 >>, << 2, 0 >>, << 0, 0 >>),
   Budget(<< 0, 1 >>, << 1, 2 >>, << 1, 0 >>, << 0, 0 >>),
   Budget(<< 0, 1 >>, << 1, 1 >>, << 1, 0 >>, << 1, 0 >>),
   Budget(<< 0, 0 >>, << 1, 1 >>, << 1, 1 >>, << 2, 0 >>),
   Budget(<< 1, 0 >>, << 1, 0 >>, << 3, 0 >>, << 0, 0 >>),
   LateBudget(<< 1, 1 >>, << 1, 1 >>, << 0, 0 >>, << 0, 0 >>, {"b"}),
   LateBudget(<< 0, 1 >>, << 1, 2 >>, << 1, 0 >>, << 0, 0 >>, {"b"}),
   LateBudget(<< 0, 1 >>, << 0, 1 >>, << 0, 2 >>, << 0, 0 >>, {"b"})}

(* For the other tabs React keeps up: what was set is rendered, and the      *)
(* effect of the render has run, before anything else happens.               *)
RendersAtOnce ==
  \A t \in Tab \ left.slow : pending[t] # {} => pending'[t] # pending[t]

(* While it may fall behind, calls are made one at a time.                   *)
OneCallIfSlow == left.slow = {} \/ Cardinality({k \in Call : call'[k] # NoCall}) <= 1

OneOpen == {LateBudget(<< 1, 0 >>, << 1, 0 >>, << 2, 0 >>, << 0, 0 >>, {"a"})}
=============================================================================
