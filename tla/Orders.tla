------------------------------- MODULE Orders -------------------------------
(***************************************************************************)
(* Going through a set of numbers in ascending order: the positions a loop *)
(* over an array stops at, and the transaction identifiers in the order    *)
(* they were given out.                                                    *)
(***************************************************************************)
EXTENDS Naturals, Sequences, FiniteSets

(* How many members of S are less than i. *)
Rank(S, i) == Cardinality({j \in S : j < i})

(* The members of S, least first. *)
Ascending(S) == [k \in 1..Cardinality(S) |-> CHOOSE i \in S : Rank(S, i) = k - 1]

(* The elements of s at the positions in I, in the order of s. *)
ElementsAt(s, I) == LET at == Ascending(I) IN [k \in 1..Len(at) |-> s[at[k]]]
=============================================================================
