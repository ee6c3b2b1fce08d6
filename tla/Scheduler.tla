----------------------------- MODULE Scheduler -----------------------------
(***************************************************************************)
(* The request scheduler and its worker pool:                              *)
(* src/engine/scheduler/Scheduler.js and WorkerPool.js.                    *)
(*                                                                         *)
(* submit, start and the end of a task each dispatch in the same turn: the *)
(* loop pairs idle workers with queued tasks until one side runs out.  A   *)
(* task keeps its worker until its promise settles, in a later turn; that  *)
(* it fails changes nothing here.  Task identifiers are the order of       *)
(* submission, so they serve as times of arrival.                          *)
(***************************************************************************)
EXTENDS Naturals, Sequences, FiniteSets, SequencesExt

CONSTANTS
  Doc,
  Kinds,       \* the <<document, priority>> pairs that are submitted
  Workers,     \* size of the pool
  MaxTasks     \* bound: tasks submitted

ASSUME SchedulerAssumption ==
  Kinds \subseteq Doc \X BOOLEAN /\ Workers \in Nat \ {0} /\ MaxTasks \in Nat

VARIABLES
  policy,      \* "FIFO" or "ROUND_ROBIN"
  running,
  work         \* the queues and the workers, see Work

vars == <<policy, running, work>>

TaskId == 1..MaxTasks
Task   == [id : TaskId, doc : Doc, priority : BOOLEAN]
Idle   == [id |-> 0]
Pool   == 0..(Workers - 1)

Work ==
  [nextTaskId     : 1..(MaxTasks + 1),
   queue          : Seq(Task),             \* of FIFO
   documentQueues : [Doc -> Seq(Task)],    \* of ROUND_ROBIN
   rotation       : Seq(Doc),              \* the documents that ever had a queue
   rotationIndex  : Nat,
   currentTask    : [Pool -> Task \cup {Idle}],
   cursor         : Pool,                  \* where the search for a worker starts
   started        : SUBSET [task : Task, at : 1..(MaxTasks + 1)]]

(* Types, and the rotation names each document once: a document named twice  *)
(* would be served twice a round.                                            *)
SchedTypeOK ==
  /\ policy \in {"FIFO", "ROUND_ROBIN"}
  /\ running \in BOOLEAN
  /\ work \in Work
  /\ IsInjective(work.rotation)
  /\ work.rotationIndex <= Len(work.rotation)
  /\ \A s \in work.started : s.at \in (s.task.id + 1)..work.nextTaskId

-----------------------------------------------------------------------------
(* Mutant of insertByPriority: the latest priority task comes first. *)
insertFirst(q, task) == IF task.priority THEN <<task>> \o q ELSE Append(q, task)

(* Priority tasks ahead of normal ones, in order of arrival within each. *)
insertByPriority(q, task) ==
  LET urgent == Cardinality({i \in 1..Len(q) : q[i].priority})
  IN  IF task.priority THEN InsertAt(q, urgent + 1, task) ELSE Append(q, task)

(* Mutant of enqueue: an empty queue is taken for a missing one. *)
enqueueAfresh(task, w) ==
  IF policy = "FIFO" THEN [w EXCEPT !.queue = insertByPriority(@, task)]
  ELSE [w EXCEPT !.documentQueues[task.doc] = insertByPriority(@, task),
                 !.rotation = IF w.documentQueues[task.doc] # << >> THEN @
                              ELSE Append(@, task.doc)]

(* A document enters the rotation with its first task and stays. *)
enqueue(task, w) ==
  IF policy = "FIFO" THEN [w EXCEPT !.queue = insertByPriority(@, task)]
  ELSE [w EXCEPT !.documentQueues[task.doc] = insertByPriority(@, task),
                 !.rotation = IF Contains(@, task.doc) THEN @ ELSE Append(@, task.doc)]

IdleWorkers(w) == {i \in Pool : w.currentTask[i] = Idle}

(* The first idle worker from the cursor on, circularly. *)
acquire(w) ==
  LET distance(i) == (i + Workers - w.cursor) % Workers
  IN  CHOOSE i \in IdleWorkers(w) : \A j \in IdleWorkers(w) : distance(i) <= distance(j)

run(w, task) ==
  LET i == acquire(w)
  IN  [w EXCEPT !.currentTask[i] = task,
                !.cursor = (i + 1) % Workers,
                !.started = @ \cup {[task |-> task, at |-> w.nextTaskId]}]

(* Mutant of nextTurn: the search starts from the first document. *)
firstDocument(w) ==
  CHOOSE i \in 1..Len(w.rotation) :
    /\ w.documentQueues[w.rotation[i]] # << >>
    /\ \A j \in 1..(i - 1) : w.documentQueues[w.rotation[j]] = << >>

(* The place in the rotation of the next document that has a task. *)
nextTurn(w) ==
  LET n == Len(w.rotation)
      place(k) == ((w.rotationIndex + k) % n) + 1
      skipped == CHOOSE k \in 0..(n - 1) :
                   /\ w.documentQueues[w.rotation[place(k)]] # << >>
                   /\ \A j \in 0..(k - 1) : w.documentQueues[w.rotation[place(j)]] = << >>
  IN  place(skipped)

HasTasks(w) ==
  IF policy = "FIFO" THEN w.queue # << >>
  ELSE \E d \in Doc : w.documentQueues[d] # << >>

Waiting(w) ==
  IF policy = "FIFO" THEN Head(w.queue)
  ELSE Head(w.documentQueues[w.rotation[nextTurn(w)]])

dequeue(w) ==
  IF policy = "FIFO" THEN [w EXCEPT !.queue = Tail(@)]
  ELSE LET i == nextTurn(w)
       IN  [w EXCEPT !.documentQueues[w.rotation[i]] = Tail(@),
                     !.rotationIndex = i % Len(w.rotation)]

(* Mutant of Paired: the task is taken before a worker is found. *)
PairedLate(w) ==
  IF ~HasTasks(w) THEN w
  ELSE IF IdleWorkers(w) = {} THEN dequeue(w) ELSE run(dequeue(w), Waiting(w))

(* One round of the loop of dispatch. *)
Paired(w) ==
  IF HasTasks(w) /\ IdleWorkers(w) # {} THEN run(dequeue(w), Waiting(w)) ELSE w

(* The loop makes at most one round for each worker. *)
dispatch(w, on) ==
  LET after[n \in 0..Workers] == IF n = 0 THEN w ELSE Paired(after[n - 1])
  IN  IF on THEN after[Workers] ELSE w

-----------------------------------------------------------------------------
Init ==
  /\ policy \in {"FIFO", "ROUND_ROBIN"}
  /\ running = FALSE
  /\ work = [nextTaskId |-> 1, queue |-> << >>,
             documentQueues |-> [d \in Doc |-> << >>],
             rotation |-> << >>, rotationIndex |-> 0,
             currentTask |-> [i \in Pool |-> Idle], cursor |-> 0, started |-> {}]

submit(d, priority) ==
  LET task == [id |-> work.nextTaskId, doc |-> d, priority |-> priority] IN
  /\ task.id <= MaxTasks
  /\ work' = dispatch(enqueue(task, [work EXCEPT !.nextTaskId = @ + 1]), running)
  /\ UNCHANGED <<policy, running>>

start ==
  /\ running' = TRUE
  /\ work' = dispatch(work, TRUE)
  /\ UNCHANGED policy

stop == running' = FALSE /\ UNCHANGED <<policy, work>>

(* Mutant of setPolicy: tasks may be queued. *)
setPolicyAnyway(p) == policy' = p /\ UNCHANGED <<running, work>>

setPolicy(p) ==
  /\ ~HasTasks(work)
  /\ policy' = p
  /\ UNCHANGED <<running, work>>

(* Mutant of finish: the worker takes no further task. *)
finishQuietly(i) ==
  /\ work.currentTask[i] # Idle
  /\ work' = [work EXCEPT !.currentTask[i] = Idle]
  /\ UNCHANGED <<policy, running>>

finish(i) ==
  /\ work.currentTask[i] # Idle
  /\ work' = dispatch([work EXCEPT !.currentTask[i] = Idle], running)
  /\ UNCHANGED <<policy, running>>

Next ==
  \/ \E kind \in Kinds : submit(kind[1], kind[2])
  \/ start
  \/ stop
  \/ \E p \in {"FIFO", "ROUND_ROBIN"} : setPolicy(p)
  \/ \E i \in Pool : finish(i)

(* Every task that runs comes to an end. *)
SchedSpec == Init /\ [][Next]_vars /\ \A i \in Pool : WF_vars(finish(i))

-----------------------------------------------------------------------------
Queues == {work.queue} \cup {work.documentQueues[d] : d \in Doc}

QueuedTasks == UNION {ToSet(q) : q \in Queues}

Started == {s.task : s \in work.started}

(* No idle worker while tasks wait.  Whichever of submit, start, stop,       *)
(* setPolicy and the end of a task came last, a scheduler that runs has      *)
(* no task queued under either policy, or no idle worker.                    *)
WorkConserving ==
  running => QueuedTasks = {} \/ IdleWorkers(work) = {}

(* No task is lost, or run twice.  A submitted task is in exactly one place  *)
(* of one queue until dispatch hands it to a worker, and in none after that; *)
(* two workers never have the same task.                                     *)
RunsOnce ==
  /\ \A t \in TaskId :
       LET inQueue(q) == {i \in 1..Len(q) : q[i].id = t}
           places == Cardinality(inQueue(work.queue))
                     + Cardinality(UNION {{d} \X inQueue(work.documentQueues[d]) : d \in Doc})
           starts == Cardinality({s \in work.started : s.task.id = t})
       IN  places + starts = IF t < work.nextTaskId THEN 1 ELSE 0
  /\ \A i, j \in Pool :
       i # j /\ work.currentTask[i] # Idle => work.currentTask[i] # work.currentTask[j]

(* Arrival order within a class.  While a task waits, the only later tasks   *)
(* of its queue (under FIFO, of any document) that have started are priority *)
(* ones that passed a normal one: insertByPriority's comment, as the         *)
(* submitter sees it.                                                        *)
ServedInOrder ==
  \A a \in QueuedTasks, b \in Started :
    b.id > a.id /\ (b.doc = a.doc \/ policy = "FIFO") => b.priority /\ ~a.priority

(* "A burst on one document can no longer monopolise the workers"            *)
(* (Scheduler.js:15).  While a task waits under round robin, dispatch starts *)
(* at most one task more of any other document than of the task's own.       *)
RoundRobinIsFair ==
  \A d, e \in Doc : \A a \in ToSet(work.documentQueues[d]) :
    LET since(x) == {s \in work.started : s.task.doc = x /\ s.at > a.id}
    IN  Cardinality(since(e)) <= Cardinality(since(d)) + 1

(* Once it is left running and submissions end (MaxTasks), every task that   *)
(* was submitted has started and come to an end (RunsOnce: a task that is    *)
(* not queued has started).  stop leaves tasks queued, and a later start     *)
(* must take them up.                                                        *)
EveryTaskEnds ==
  <>[]running => []<>(QueuedTasks = {} /\ IdleWorkers(work) = Pool)
=============================================================================
