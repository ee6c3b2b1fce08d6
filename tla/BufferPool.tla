----------------------------- MODULE BufferPool -----------------------------
(***************************************************************************)
(* The page cache of the engine, src/engine/buffer/BufferPool.js with the  *)
(* order kept by LRUCache.js, over the data file of StorageManager.js.     *)
(*                                                                         *)
(* Every fetchPage is followed by its unpinPage without an await between   *)
(* them, so between two steps no frame is pinned: pins are left out, and   *)
(* the frame to evict is always the least recently used one.               *)
(***************************************************************************)
EXTENDS Naturals, Sequences, SequencesExt, Orders

CONSTANT Frames     \* capacity of the pool

ASSUME FramesAssumption == Frames \in Nat \ {0}

VARIABLES
  pool,    \* the resident frames, least recently used first
  disk     \* [page -> its image in the data file]

Resident(p) == \E i \in 1..Len(pool) : pool[i].page = p

FrameOf(p) == pool[CHOOSE i \in 1..Len(pool) : pool[i].page = p]

isDirty(p) == Resident(p) /\ FrameOf(p).dirty

(* What the next fetch of p returns. *)
Contents(p) == IF Resident(p) THEN FrameOf(p).image ELSE disk[p]

(* Mutant of Without: the frames stay. *)
StillWith(P) == pool

(* invalidate, of each page of P. *)
Without(P) == ElementsAt(pool, {i \in 1..Len(pool) : pool[i].page \notin P})

Evicts(p) == ~Resident(p) /\ Len(pool) >= Frames

(* fetchPage: the page ends up most recently used. *)
PoolWith(p) ==
  IF Resident(p)
  THEN Append(Without({p}), FrameOf(p))
  ELSE Append(IF Evicts(p) THEN Tail(pool) ELSE pool,
              [page |-> p, image |-> disk[p], dirty |-> FALSE])

(* evictOne, when fetchPage needs a frame: a dirty page is written first,    *)
(* whether or not the transaction that changed it has ended (steal).         *)
DiskAfterFetch(p) ==
  IF Evicts(p) /\ Head(pool).dirty
  THEN [disk EXCEPT ![Head(pool).page] = Head(pool).image]
  ELSE disk

fetchPage(p) == pool' = PoolWith(p) /\ disk' = DiskAfterFetch(p)

(* fetchPage, a change of the page, unpinPage(p, true). *)
modifyPage(p, image) ==
  LET fetched == PoolWith(p) IN
  /\ pool' = [fetched EXCEPT ![Len(fetched)] = [page |-> p, image |-> image, dirty |-> TRUE]]
  /\ disk' = DiskAfterFetch(p)

(* flushPage, of each page of P: only dirty frames are written. *)
Flushed(P) ==
  [p \in DOMAIN disk |-> IF p \in P /\ isDirty(p) THEN FrameOf(p).image ELSE disk[p]]

Cleaned(P) ==
  [i \in 1..Len(pool) |->
     IF pool[i].page \in P THEN [pool[i] EXCEPT !.dirty = FALSE] ELSE pool[i]]
=============================================================================
