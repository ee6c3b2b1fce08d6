----------------------------- MODULE BPlusTree ------------------------------
(***************************************************************************)
(* The ordered map under the keyword index: src/engine/index/BPlusTree.js. *)
(* A tree is a table of nodes that refer to each other by number, as the   *)
(* code's objects do: a node knows its parent and a leaf the next leaf.    *)
(* Keys are numbers, compared as the code compares strings.  Every         *)
(* operator takes a tree and returns what the method leaves.               *)
(***************************************************************************)
EXTENDS Naturals, SequencesExt

CONSTANTS
  Keyword,    \* the keys
  MaxKeys     \* keys a node holds before it is split

(* The constructor refuses less than 3. *)
ASSUME TreeAssumption ==
  /\ Keyword \subseteq Nat /\ IsFiniteSet(Keyword)
  /\ MaxKeys \in Nat /\ MaxKeys >= 3

Nil == 0

newNode(isLeaf) ==
  [leaf |-> isLeaf, keys |-> << >>, values |-> << >>, children |-> << >>,
   next |-> Nil, parent |-> Nil]

newTree == [root |-> 1, nodes |-> [n \in {1} |-> newNode(TRUE)], size |-> 0]

Unused(t) == Min((1..(Cardinality(DOMAIN t.nodes) + 1)) \ DOMAIN t.nodes)

(* The node table with some nodes added or replaced, and without others.     *)
With(nodes, n, node) ==
  [m \in DOMAIN nodes \cup {n} |-> IF m = n THEN node ELSE nodes[m]]

Minus(nodes, n) == [m \in DOMAIN nodes \ {n} |-> nodes[m]]

Adopted(nodes, children, n) ==
  [m \in DOMAIN nodes |->
     IF m \in ToSet(children) THEN [nodes[m] EXCEPT !.parent = n] ELSE nodes[m]]

leafMinKeys == (MaxKeys + 1) \div 2
internalMinKeys == (MaxKeys + 2) \div 2 - 1

minKeysFor(node) == IF node.leaf THEN leafMinKeys ELSE internalMinKeys

(* Where a key is, or would be inserted. *)
FirstNotBelow(keys, key) ==
  Min({i \in 1..(Len(keys) + 1) : i = Len(keys) + 1 \/ keys[i] >= key})

(* Which child of an inner node a key belongs to. *)
FirstAbove(keys, key) ==
  Min({i \in 1..(Len(keys) + 1) : i = Len(keys) + 1 \/ keys[i] > key})

RECURSIVE Descend(_, _, _)
Descend(t, n, key) ==
  LET node == t.nodes[n]
  IN  IF node.leaf THEN n
      ELSE Descend(t, node.children[FirstAbove(node.keys, key)], key)

findLeaf(t, key) == Descend(t, t.root, key)

-----------------------------------------------------------------------------
(* Insertion. *)

RECURSIVE insertIntoParent(_, _, _, _)

(* The separator moves up: it is in neither half. *)
splitInternal(t, n) ==
  LET node  == t.nodes[n]
      mid   == Len(node.keys) \div 2
      r     == Unused(t)
      right == [node EXCEPT !.keys = SubSeq(@, mid + 2, Len(@)),
                            !.children = SubSeq(@, mid + 2, Len(@))]
      left  == [node EXCEPT !.keys = SubSeq(@, 1, mid),
                            !.children = SubSeq(@, 1, mid + 1)]
      nodes == Adopted(With(With(t.nodes, n, left), r, right), right.children, r)
  IN  insertIntoParent([t EXCEPT !.nodes = nodes], n, node.keys[mid + 1], r)

insertIntoParent(t, left, separator, right) ==
  IF left = t.root
  THEN LET r    == Unused(t)
           root == [newNode(FALSE) EXCEPT !.keys = << separator >>,
                                          !.children = << left, right >>]
       IN  [t EXCEPT !.root = r,
                     !.nodes = Adopted(With(@, r, root), << left, right >>, r)]
  ELSE LET p  == t.nodes[left].parent
           i  == CHOOSE i \in DOMAIN t.nodes[p].children : t.nodes[p].children[i] = left
           t1 == [t EXCEPT !.nodes[p].keys = InsertAt(@, i, separator),
                           !.nodes[p].children = InsertAt(@, i + 1, right),
                           !.nodes[right].parent = p]
       IN  IF Len(t1.nodes[p].keys) > MaxKeys THEN splitInternal(t1, p) ELSE t1

(* The separator is copied up: it stays the first key of the right leaf. *)
splitLeaf(t, n) ==
  LET leaf  == t.nodes[n]
      mid   == (Len(leaf.keys) + 1) \div 2
      r     == Unused(t)
      right == [leaf EXCEPT !.keys = SubSeq(@, mid + 1, Len(@)),
                            !.values = SubSeq(@, mid + 1, Len(@))]
      left  == [leaf EXCEPT !.keys = SubSeq(@, 1, mid),
                            !.values = SubSeq(@, 1, mid), !.next = r]
  IN  insertIntoParent([t EXCEPT !.nodes = With(With(@, n, left), r, right)],
                       n, right.keys[1], r)

insert(t, key, docId) ==
  LET n     == findLeaf(t, key)
      leaf  == t.nodes[n]
      i     == FirstNotBelow(leaf.keys, key)
      found == i <= Len(leaf.keys) /\ leaf.keys[i] = key
      t1    == [t EXCEPT !.nodes[n].keys = InsertAt(@, i, key),
                         !.nodes[n].values = InsertAt(@, i, {docId}),
                         !.size = @ + 1]
  IN  IF found THEN [t EXCEPT !.nodes[n].values[i] = @ \cup {docId}]
      ELSE IF Len(leaf.keys) + 1 > MaxKeys THEN splitLeaf(t1, n) ELSE t1

-----------------------------------------------------------------------------
(* Lookup. *)

search(t, key) ==
  LET leaf == t.nodes[findLeaf(t, key)]
  IN  UNION {leaf.values[i] : i \in {i \in DOMAIN leaf.keys : leaf.keys[i] = key}}

(* The entries of a leaf and of those chained after it. *)
RECURSIVE Chain(_, _)
Chain(t, n) ==
  IF n = Nil THEN << >>
  ELSE LET leaf == t.nodes[n]
       IN  [i \in DOMAIN leaf.keys |-> [key |-> leaf.keys[i], docIds |-> leaf.values[i]]]
             \o Chain(t, leaf.next)

(* The walk ends at the first key beyond the range. *)
rangeScan(t, from, to) ==
  LET walk == Chain(t, findLeaf(t, from))
      last == Min({i \in 0..Len(walk) : i = Len(walk) \/ walk[i + 1].key > to})
  IN  SelectSeq(SubSeq(walk, 1, last), LAMBDA e : e.key >= from)

RECURSIVE Leftmost(_, _)
Leftmost(t, n) ==
  IF t.nodes[n].leaf THEN n ELSE Leftmost(t, t.nodes[n].children[1])

entries(t) == Chain(t, Leftmost(t, t.root))

-----------------------------------------------------------------------------
(* Deletion.  i is the place of a node among its parent's children, counted  *)
(* from 1, so that the separator between places i - 1 and i is keys[i - 1].  *)

borrowFromLeft(t, n, left, p, i) ==
  LET node == t.nodes[n]   l == t.nodes[left]
  IN  IF node.leaf
      THEN [t EXCEPT !.nodes[n].keys = << Last(l.keys) >> \o @,
                     !.nodes[n].values = << Last(l.values) >> \o @,
                     !.nodes[left].keys = Front(@), !.nodes[left].values = Front(@),
                     !.nodes[p].keys[i - 1] = Last(l.keys)]
      ELSE [t EXCEPT !.nodes[n].keys = << t.nodes[p].keys[i - 1] >> \o @,
                     !.nodes[n].children = << Last(l.children) >> \o @,
                     !.nodes[left].keys = Front(@), !.nodes[left].children = Front(@),
                     !.nodes[p].keys[i - 1] = Last(l.keys),
                     !.nodes[Last(l.children)].parent = n]

borrowFromRight(t, n, right, p, i) ==
  LET node == t.nodes[n]   r == t.nodes[right]
  IN  IF node.leaf
      THEN [t EXCEPT !.nodes[n].keys = Append(@, Head(r.keys)),
                     !.nodes[n].values = Append(@, Head(r.values)),
                     !.nodes[right].keys = Tail(@), !.nodes[right].values = Tail(@),
                     !.nodes[p].keys[i] = r.keys[2]]
      ELSE [t EXCEPT !.nodes[n].keys = Append(@, t.nodes[p].keys[i]),
                     !.nodes[n].children = Append(@, Head(r.children)),
                     !.nodes[right].keys = Tail(@), !.nodes[right].children = Tail(@),
                     !.nodes[p].keys[i] = Head(r.keys),
                     !.nodes[Head(r.children)].parent = n]

RECURSIVE rebalance(_, _)

(* right goes into left; s is the place of the separator between them. *)
mergeNodes(t, left, right, p, s) ==
  LET l      == t.nodes[left]   r == t.nodes[right]
      merged == IF l.leaf
                THEN [l EXCEPT !.keys = @ \o r.keys, !.values = @ \o r.values,
                               !.next = r.next]
                ELSE [l EXCEPT !.keys = Append(@, t.nodes[p].keys[s]) \o r.keys,
                               !.children = @ \o r.children]
      parent == [t.nodes[p] EXCEPT !.keys = RemoveAt(@, s),
                                   !.children = RemoveAt(@, s + 1)]
      nodes  == Adopted(With(With(Minus(t.nodes, right), left, merged), p, parent),
                        r.children, left)
  IN  IF p = t.root /\ parent.keys = << >>
      THEN [t EXCEPT !.root = left, !.nodes = [Minus(nodes, p) EXCEPT ![left].parent = Nil]]
      ELSE IF p # t.root /\ Len(parent.keys) < internalMinKeys
      THEN rebalance([t EXCEPT !.nodes = nodes], p)
      ELSE [t EXCEPT !.nodes = nodes]

(* Mutant of CanLend: a leaf may be as empty as an inner node. *)
LendsAsInner(t, m, n) == Len(t.nodes[m].keys) > internalMinKeys

CanLend(t, m, n) == Len(t.nodes[m].keys) > minKeysFor(t.nodes[n])

(* Never called with the root: mergeNodes replaces a root left without keys. *)
rebalance(t, n) ==
  LET p      == t.nodes[n].parent
      family == t.nodes[p].children
      i      == CHOOSE i \in DOMAIN family : family[i] = n
      Spare(j) == j \in DOMAIN family /\ CanLend(t, family[j], n)
  IN  CASE Spare(i - 1) -> borrowFromLeft(t, n, family[i - 1], p, i)
        [] ~Spare(i - 1) /\ Spare(i + 1) -> borrowFromRight(t, n, family[i + 1], p, i)
        [] ~Spare(i - 1) /\ ~Spare(i + 1) /\ i > 1 -> mergeNodes(t, family[i - 1], n, p, i - 1)
        [] OTHER -> mergeNodes(t, n, family[i + 1], p, i)

delete(t, key, docId) ==
  LET n    == findLeaf(t, key)
      leaf == t.nodes[n]
      i    == CHOOSE i \in DOMAIN leaf.keys : leaf.keys[i] = key
      t1   == [t EXCEPT !.nodes[n].keys = RemoveAt(@, i),
                        !.nodes[n].values = RemoveAt(@, i), !.size = @ - 1]
  IN  IF key \notin ToSet(leaf.keys) \/ docId \notin leaf.values[i] THEN t
      ELSE IF leaf.values[i] # {docId} THEN [t EXCEPT !.nodes[n].values[i] = @ \ {docId}]
      ELSE IF n # t.root /\ Len(leaf.keys) - 1 < leafMinKeys THEN rebalance(t1, n)
      ELSE t1

-----------------------------------------------------------------------------
(* The structural invariants the code states for itself. *)

RECURSIVE Depths(_, _)
Depths(t, n) ==
  IF t.nodes[n].leaf THEN {0}
  ELSE {d + 1 : d \in UNION {Depths(t, c) : c \in ToSet(t.nodes[n].children)}}

RECURSIVE Walk(_, _, _)
Walk(t, n, range) ==
  LET node == t.nodes[n]
      k    == Len(node.keys)
  IN  /\ \A i \in 1..(k - 1) : node.keys[i] < node.keys[i + 1]
      /\ ToSet(node.keys) \subseteq range
      /\ n # t.root => k >= minKeysFor(node)
      /\ k <= MaxKeys
      /\ ~node.leaf =>
           /\ Len(node.children) = k + 1
           /\ \A i \in 1..(k + 1) :
                /\ t.nodes[node.children[i]].parent = n
                /\ Walk(t, node.children[i],
                        {key \in range : (i = 1 \/ key >= node.keys[i - 1])
                                           /\ (i = k + 1 \/ key < node.keys[i])})

validate(t) == Walk(t, t.root, Keyword) /\ Cardinality(Depths(t, t.root)) = 1
=============================================================================
