-------------------------- MODULE DeadlockDetector --------------------------
(***************************************************************************)
(* The periodic deadlock sweep, src/engine/lock/DeadlockDetector.js, over  *)
(* the lock table of module LockManager.  A sweep is one step: it builds   *)
(* the wait-for graph, finds its cycles, and releases everything a victim  *)
(* of each cycle holds or asks for.                                        *)
(***************************************************************************)
EXTENDS LockManager

(* Transaction ids are numbers, and those alive at once are finitely many,   *)
(* as the pages of the file are: a sweep counts both.                        *)
ASSUME SweepAssumption == /\ Tx \subseteq Nat
                          /\ IsFiniteSet(Tx)
                          /\ IsFiniteSet(Resource)

-----------------------------------------------------------------------------
(* Mutant of WaitsFor: only the head of each queue waits. *)
HeadWaitsFor(t, u) ==
  /\ t # u
  /\ \E r \in Resource :
       /\ lockTable[r].waitQueue # << >>
       /\ LET q == lockTable[r].waitQueue[1]
          IN  /\ q.tx = t
              /\ lockTable[r].holders[u] # "none"
              /\ ~isCompatible(q.mode, lockTable[r].holders[u])

(* t is queued for a page u holds in an incompatible mode. *)
WaitsFor(t, u) ==
  /\ t # u
  /\ \E r \in Resource : \E i \in 1..Len(lockTable[r].waitQueue) :
       LET q == lockTable[r].waitQueue[i]
       IN  /\ q.tx = t
           /\ lockTable[r].holders[u] # "none"
           /\ ~isCompatible(q.mode, lockTable[r].holders[u])

getWaitForEdges == {e \in Tx \X Tx : WaitsFor(e[1], e[2])}

(* What t reaches along the edges: no set that has t and that no edge leaves *)
(* is without it.                                                            *)
Reach(edges, t) ==
  {u \in Tx : \A D \in SUBSET Tx :
     t \in D /\ (\A e \in edges : e[1] \in D => e[2] \in D) => u \in D}

(* Mutants of findCycles: what t reaches need not reach t; cycles of two are *)
(* missed.                                                                   *)
findReachable(edges) ==
  {c \in {Reach(edges, t) : t \in Tx} : Cardinality(c) > 1}

findLongCycles(edges) ==
  LET Component(t) == {u \in Reach(edges, t) : t \in Reach(edges, u)}
  IN  {c \in {Component(t) : t \in Tx} : Cardinality(c) > 2}

(* The strongly connected components of more than one transaction. *)
findCycles(edges) ==
  LET Component(t) == {u \in Reach(edges, t) : t \in Reach(edges, u)}
  IN  {c \in {Component(t) : t \in Tx} : Cardinality(c) > 1}

LockCount(lt, t) == Cardinality({r \in Resource : lt[r].holders[t] # "none"})

(* The member that holds the fewest locks, the youngest of these. *)
selectVictim(lt, cycle) ==
  LET fewest == Min({LockCount(lt, t) : t \in cycle})
  IN  Max({t \in cycle : LockCount(lt, t) = fewest})

(* The cycles are found once; releasing the victim of one leaves the members *)
(* of the others waiting with the locks they hold, so each victim is the one *)
(* the table at the start of the sweep selects.                              *)
Victims == {selectVictim(lockTable, c) : c \in findCycles(getWaitForEdges)}

Detect ==
  /\ Victims # {}
  /\ lockTable' = FoldSet(LAMBDA t, lt : ReleasedTable(lt, t), lockTable, Victims)
  /\ promise' = Settle(lockTable', Victims)

-----------------------------------------------------------------------------
DeadlockNext == LockNext \/ Detect

DeadlockSpec == LockInit /\ [][DeadlockNext]_lockVars

-----------------------------------------------------------------------------
(* What keeps t waiting: the holders that rule its request out, and the      *)
(* requests ahead of it, since a drain stops at the first request it cannot  *)
(* grant.                                                                    *)
BlockedBy(t, u) ==
  \/ WaitsFor(t, u)
  \/ \E r \in Resource : \E i, j \in 1..Len(lockTable[r].waitQueue) :
       /\ j < i
       /\ lockTable[r].waitQueue[i].tx = t
       /\ lockTable[r].waitQueue[j].tx = u

Waiting == {t \in Tx : promise[t] = "pending"}

(* The transactions that no release by a running transaction can ever let    *)
(* go: each of them waits for another one of them.                           *)
Deadlocked ==
  UNION {D \in SUBSET Waiting : \A t \in D : \E u \in D : BlockedBy(t, u)}

InCycle == UNION findCycles(getWaitForEdges)

(* No false victim.  Every transaction of a detected cycle really is         *)
(* deadlocked: it would wait forever if the sweep left its cycle alone.      *)
CycleIsDeadlock == InCycle \subseteq Deadlocked

(* "A cycle in this graph is precisely a deadlock" (DeadlockDetector.js:13), *)
(* as far as it is so: while every lock held is exclusive, some cycle shows  *)
(* whenever transactions are deadlocked.  At a page held shared a request    *)
(* may wait for the turn of another one, and the graph has no edge for that. *)
ExclusiveDeadlockIsCycle ==
  (\A r \in Resource, t \in Tx : lockTable[r].holders[t] # "S") =>
    (Deadlocked # {} => findCycles(getWaitForEdges) # {})

(* One victim is enough for progress.  A sweep leaves no cycle intact: of    *)
(* the transactions of each cycle it found, one no longer waits and holds    *)
(* nothing, and no transaction outside the cycles was rejected.              *)
SweepStep ==
  Detect =>
    /\ \A c \in findCycles(getWaitForEdges) :
         \E t \in c : /\ promise'[t] = "rejected"
                      /\ \A r \in Resource : lockTable'[r].holders[t] = "none"
    /\ \A t \in Tx : promise[t] = "pending" /\ promise'[t] = "rejected" => t \in InCycle

SweepBreaksEveryCycle == [][SweepStep]_lockVars

=============================================================================
