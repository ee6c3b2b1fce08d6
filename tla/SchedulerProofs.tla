-------------------------- MODULE SchedulerProofs --------------------------
(***************************************************************************)
(* Proofs about module Scheduler, for any documents, kinds of tasks and    *)
(* number of workers.                                                      *)
(***************************************************************************)
EXTENDS Scheduler, FiniteInduction

-----------------------------------------------------------------------------
(* Remainders. *)
LEMMA ModRange ==
  ASSUME NEW n \in Nat \ {0}, NEW a \in Nat
  PROVE  a % n \in 0..(n - 1)
OBVIOUS

LEMMA ModBelow ==
  ASSUME NEW n \in Nat \ {0}, NEW a \in Nat, a < n
  PROVE  a % n = a
OBVIOUS

LEMMA ModAbove ==
  ASSUME NEW n \in Nat \ {0}, NEW a \in Nat, n <= a, a < 2 * n
  PROVE  a % n = a - n
OBVIOUS

-----------------------------------------------------------------------------
(* Queues. *)

(* The order in which a queue is to be served. *)
Before(a, b) ==
  \/ a.priority /\ ~b.priority
  \/ a.priority = b.priority /\ a.id < b.id

Sorted(q) == \A i, j \in 1..Len(q) : i < j => Before(q[i], q[j])

(* r is q with the task put in at place k. *)
PutIn(q, r, k, task) ==
  /\ Len(r) = Len(q) + 1 /\ k \in 1..Len(r) /\ r[k] = task
  /\ \A i \in 1..Len(r) : (i < k => r[i] = q[i]) /\ (i > k => r[i] = q[i - 1])

LEMMA SetIs ==
  ASSUME NEW V, NEW q \in Seq(V)
  PROVE  /\ Len(q) \in Nat
         /\ \A a : a \in ToSet(q) <=> \E i \in 1..Len(q) : q[i] = a
         /\ \A i \in 1..Len(q) : q[i] \in V /\ q[i] \in ToSet(q)
         /\ ToSet(q) \subseteq V
BY DEF ToSet

LEMMA TaskType ==
  ASSUME NEW a \in Task
  PROVE  a.id \in Nat /\ a.priority \in BOOLEAN /\ a.doc \in Doc
BY DEF Task, TaskId

(* The priority tasks of a queue in order are its first ones. *)
LEMMA UrgentFirst ==
  ASSUME NEW q \in Seq(Task), Sorted(q), NEW P, P = {i \in 1..Len(q) : q[i].priority}
  PROVE  /\ Cardinality(P) \in 0..Len(q)
         /\ \A i \in 1..Len(q) : q[i].priority <=> i <= Cardinality(P)
<1> DEFINE n == Len(q)
<1>1. n \in Nat
  OBVIOUS
<1>p. P = {i \in 1..n : q[i].priority} /\ \A i \in 1..n : q[i].priority \in BOOLEAN
  BY SetIs, TaskType
<1>2. CASE P = {}
  <2>1. Cardinality(P) = 0
    BY <1>2, FS_EmptySet
  <2>2. \A i \in 1..n : q[i].priority <=> i <= 0
    BY <1>1, <1>2, <1>p
  <2>3. 0 \in 0..n
    BY <1>1
  <2> QED
    BY <2>1, <2>2, <2>3
<1>3. CASE P # {}
  <2>1. IsFiniteSet(P) /\ \A i \in P : i \in Int
    <3>1. PICK N : N = 1..n
      OBVIOUS
    <3>2. IsFiniteSet(N) /\ P \in SUBSET N
      BY <1>1, <1>p, <3>1, CardUpTo
    <3> QED
      BY <1>p, <3>2, FS_Subset
  <2>2. PICK m \in P : \A i \in P : i <= m
    <3>1. Max(P) \in P /\ \A i \in P : Max(P) >= i
      BY <1>3, <2>1, GreatestMember
    <3>2. \A i \in P : i <= Max(P)
      BY <2>1, <3>1
    <3> QED
      BY <3>1, <3>2
  <2>3. \A i \in 1..n : i \in P <=> i <= m
    BY <1>p, <2>2 DEF Sorted, Before
  <2>4. P = 1..m /\ m \in Nat
    BY <1>1, <1>p, <2>2, <2>3
  <2>5. Cardinality(P) = m
    BY <2>4, CardUpTo
  <2>6. \A i \in 1..n : q[i].priority <=> i <= m
    BY <1>p, <2>3
  <2>7. m \in 0..n
    BY <1>1, <1>p, <2>2
  <2> QED
    BY <2>5, <2>6, <2>7
<1> QED
  BY <1>2, <1>3

LEMMA InsertPutsIn ==
  ASSUME NEW q \in Seq(Task), Sorted(q), NEW task \in Task
  PROVE  /\ insertByPriority(q, task) \in Seq(Task)
         /\ \E k \in 1..(Len(q) + 1) :
              /\ PutIn(q, insertByPriority(q, task), k, task)
              /\ \A i \in 1..Len(q) :
                   i < k <=> q[i].priority \/ ~task.priority
<1>p. PICK P : P = {i \in 1..Len(q) : q[i].priority}
  OBVIOUS
<1>u. PICK u : u = Cardinality(P)
  OBVIOUS
<1>1. u \in 0..Len(q) /\ \A i \in 1..Len(q) : q[i].priority <=> i <= u
  BY <1>p, <1>u, UrgentFirst
<1>2. insertByPriority(q, task) = IF task.priority THEN InsertAt(q, u + 1, task) ELSE Append(q, task)
  BY <1>p, <1>u DEF insertByPriority
<1>3. CASE task.priority
  <2>1. PICK s : s = SubSeq(q, 1, u)
    OBVIOUS
  <2>2. PICK t : t = SubSeq(q, u + 1, Len(q))
    OBVIOUS
  <2>c. PICK c : c = s \o <<task>>
    OBVIOUS
  <2>3. PICK r : r = c \o t
    OBVIOUS
  <2>4. insertByPriority(q, task) = r
    <3>1. (u + 1) - 1 = u
      BY <1>1
    <3> QED
      BY <1>2, <1>3, <2>1, <2>2, <2>c, <2>3, <3>1 DEF InsertAt
  <2>5. s \in Seq(Task) /\ Len(s) = u /\ \A i \in 1..u : s[i] = q[i]
    BY <1>1, <2>1
  <2>6. t \in Seq(Task) /\ Len(t) = Len(q) - u /\ \A i \in 1..Len(t) : t[i] = q[u + i]
    BY <1>1, <2>2
  <2>7. /\ c \in Seq(Task) /\ Len(c) = u + 1
        /\ (\A i \in 1..u : c[i] = q[i]) /\ c[u + 1] = task
    BY <2>5, <2>c
  <2>8. /\ r \in Seq(Task) /\ Len(r) = Len(c) + Len(t)
        /\ \A i \in 1..Len(c) : r[i] = c[i]
        /\ \A i \in 1..Len(t) : r[Len(c) + i] = t[i]
    <3>1. c \in Seq(Task) /\ t \in Seq(Task)
      BY <2>6, <2>7
    <3> QED
      BY <2>3, <3>1
  <2>9. Len(r) = Len(q) + 1 /\ r[u + 1] = task /\ \A i \in 1..u : r[i] = q[i]
    BY <1>1, <2>6, <2>7, <2>8
  <2>10. ASSUME NEW i \in 1..Len(r), i > u + 1
         PROVE  r[i] = q[i - 1]
    <3>1. PICK j \in 1..Len(t) : i = u + 1 + j
      <4>1. i - (u + 1) \in 1..Len(t) /\ i = u + 1 + (i - (u + 1))
        BY <1>1, <2>6, <2>9, <2>10
      <4> QED
        BY <4>1
    <3>2. u + j = i - 1
      BY <1>1, <2>6, <3>1
    <3>3. r[i] = t[j]
      BY <2>7, <2>8, <3>1
    <3> QED
      BY <2>6, <3>1, <3>2, <3>3
  <2>11. PutIn(q, r, u + 1, task)
    BY <1>1, <2>9, <2>10 DEF PutIn
  <2>12. u + 1 \in 1..(Len(q) + 1) /\ \A i \in 1..Len(q) : i < u + 1 <=> q[i].priority \/ ~task.priority
    BY <1>1, <1>3, SetIs, TaskType
  <2> QED
    BY <2>4, <2>8, <2>11, <2>12
<1>4. CASE ~task.priority
  <2>1. insertByPriority(q, task) = Append(q, task)
    BY <1>2, <1>4
  <2>2. PutIn(q, Append(q, task), Len(q) + 1, task)
    BY DEF PutIn
  <2> QED
    BY <1>4, <2>1, <2>2
<1> QED
  BY <1>3, <1>4

(* A queue in order stays in order when the latest task is put in. *)
LEMMA InsertSorts ==
  ASSUME NEW q \in Seq(Task), Sorted(q), NEW task \in Task, \A a \in ToSet(q) : a.id < task.id
  PROVE  LET r == insertByPriority(q, task) IN
         r \in Seq(Task) /\ Sorted(r) /\ ToSet(r) = ToSet(q) \cup {task} /\ r # << >>
<1> DEFINE n == Len(q)
<1>1. PICK r : r = insertByPriority(q, task)
  OBVIOUS
<1>2. r \in Seq(Task)
  BY <1>1, InsertPutsIn
<1>3. PICK k \in 1..(n + 1) :
        /\ PutIn(q, r, k, task)
        /\ \A i \in 1..n : i < k <=> q[i].priority \/ ~task.priority
  BY <1>1, InsertPutsIn
<1>4. /\ n \in Nat /\ Len(r) = n + 1 /\ r[k] = task
      /\ \A i \in 1..(n + 1) : (i < k => r[i] = q[i]) /\ (i > k => r[i] = q[i - 1])
  BY <1>3 DEF PutIn
<1>5. \A i \in 1..n : q[i].id < task.id /\ q[i].priority \in BOOLEAN
  BY SetIs, TaskType
<1> HIDE DEF n
<1>6. ASSUME NEW i \in 1..(n + 1), NEW j \in 1..(n + 1), i < j
      PROVE  Before(r[i], r[j])
  <2>0. \A x, y \in 1..n : x < y => Before(q[x], q[y])
    BY DEF Sorted, n
  <2>1. CASE j < k
    BY <1>4, <1>6, <2>0, <2>1
  <2>2. CASE j = k
    <3>1. i \in 1..n /\ r[i] = q[i] /\ i < k /\ r[j] = task
      BY <1>4, <1>6, <2>2
    <3>2. task.priority \in BOOLEAN
      BY DEF Task
    <3> QED
      BY <1>3, <1>5, <3>1, <3>2 DEF Before
  <2>3. CASE i = k
    <3>1. j - 1 \in 1..n /\ r[j] = q[j - 1] /\ ~(j - 1 < k) /\ r[i] = task
      BY <1>4, <1>6, <2>3
    <3>2. task.priority \in BOOLEAN
      BY DEF Task
    <3> QED
      BY <1>3, <1>5, <3>1, <3>2 DEF Before
  <2>4. CASE i < k /\ k < j
    <3>1. i \in 1..n /\ j - 1 \in 1..n /\ r[i] = q[i] /\ r[j] = q[j - 1]
      BY <1>4, <1>6, <2>4
    <3>2. CASE i < j - 1
      BY <2>0, <3>1, <3>2
    <3>3. CASE ~(i < j - 1)
      BY <1>4, <1>6, <2>4, <3>3
    <3> QED
      BY <3>2, <3>3
  <2>5. CASE k < i
    <3>1. i - 1 \in 1..n /\ j - 1 \in 1..n /\ r[i] = q[i - 1] /\ r[j] = q[j - 1] /\ i - 1 < j - 1
      BY <1>4, <1>6, <2>5
    <3> QED
      BY <2>0, <3>1
  <2> QED
    BY <1>4, <1>6, <2>1, <2>2, <2>3, <2>4, <2>5
<1>7. ToSet(r) = ToSet(q) \cup {task}
  <2>1. \A a : a \in ToSet(r) <=> \E i \in 1..(n + 1) : r[i] = a
    BY <1>2, <1>4 DEF ToSet
  <2>2. \A a : a \in ToSet(q) <=> \E i \in 1..n : q[i] = a
    BY SetIs DEF n
  <2>3. ASSUME NEW i \in 1..(n + 1)
        PROVE  r[i] = task \/ \E j \in 1..n : q[j] = r[i]
    <3>1. i < k => i \in 1..n /\ r[i] = q[i]
      BY <1>4
    <3>2. i > k => i - 1 \in 1..n /\ r[i] = q[i - 1]
      BY <1>4
    <3> QED
      BY <1>4, <3>1, <3>2
  <2>4. ASSUME NEW j \in 1..n
        PROVE  \E i \in 1..(n + 1) : r[i] = q[j]
    <3>1. j < k => j \in 1..(n + 1) /\ r[j] = q[j]
      BY <1>4
    <3>2. j >= k => j + 1 \in 1..(n + 1) /\ r[j + 1] = q[j]
      BY <1>4
    <3> QED
      BY <1>4, <3>1, <3>2
  <2> QED
    BY <1>4, <2>1, <2>2, <2>3, <2>4
<1>8. Sorted(r) /\ r # << >>
  BY <1>4, <1>6 DEF Sorted
<1> QED
  BY <1>1, <1>2, <1>7, <1>8

LEMMA TailFacts ==
  ASSUME NEW q \in Seq(Task), Sorted(q), q # << >>
  PROVE  /\ Head(q) \in Task /\ Head(q) \in ToSet(q)
         /\ Tail(q) \in Seq(Task) /\ Sorted(Tail(q))
         /\ ToSet(Tail(q)) = ToSet(q) \ {Head(q)}
         /\ \A a \in ToSet(Tail(q)) : Before(Head(q), a)
<1> DEFINE n == Len(q)
           r == Tail(q)
<1>1. /\ n \in Nat \ {0} /\ r \in Seq(Task) /\ Len(r) = n - 1 /\ Head(q) = q[1]
      /\ \A i \in 1..(n - 1) : r[i] = q[i + 1]
  OBVIOUS
<1>2. \A i \in 1..n : q[i] \in Task
  BY SetIs
<1> HIDE DEF n, r
<1>3. \A i, j \in 1..n : i < j => Before(q[i], q[j])
  BY DEF Sorted, n
<1>4. Sorted(r)
  BY <1>1, <1>3 DEF Sorted
<1>5. \A i \in 1..(n - 1) : Before(q[1], r[i])
  BY <1>1, <1>3
<1>6. \A a : a \in ToSet(r) <=> \E i \in 1..(n - 1) : r[i] = a
  BY <1>1, SetIs
<1>7. \A a : a \in ToSet(q) <=> \E i \in 1..n : q[i] = a
  BY SetIs DEF n
<1>8. ~Before(q[1], q[1])
  <2>1. q[1] \in Task
    BY <1>1, <1>2
  <2>2. ~(q[1].id < q[1].id)
    BY <2>1, TaskType
  <2> QED
    BY <2>2 DEF Before
<1>9. ToSet(r) = ToSet(q) \ {q[1]}
  <2>1. \A i \in 1..(n - 1) : i + 1 \in 1..n /\ r[i] = q[i + 1] /\ r[i] # q[1]
    BY <1>1, <1>5, <1>8
  <2>2. \A i \in 1..n : i # 1 => i - 1 \in 1..(n - 1) /\ r[i - 1] = q[i]
    BY <1>1
  <2> QED
    BY <1>6, <1>7, <2>1, <2>2
<1>10. 1 \in 1..n
  BY <1>1
<1> QED
  BY <1>1, <1>2, <1>4, <1>5, <1>6, <1>7, <1>9, <1>10 DEF r

-----------------------------------------------------------------------------
(* The invariant of the queues and the workers w, under the policy p. *)

(* The tasks that wait, and those that were started. *)
Tasks(w) == ToSet(w.queue) \cup UNION {ToSet(w.documentQueues[d]) : d \in Doc}

Begun(w) == {s.task : s \in w.started}

RotationOK(w) ==
  /\ w \in Work /\ IsFiniteSet(w.started)
  /\ IsInjective(w.rotation)
  /\ w.rotationIndex < Len(w.rotation) \/ w.rotationIndex = 0

(* Each queue is in order, the policy's are the only ones with tasks, and a  *)
(* document with tasks is in the rotation.                                   *)
QueuesOK(w, p) ==
  /\ p = "FIFO" => \A d \in Doc : w.documentQueues[d] = << >>
  /\ p = "ROUND_ROBIN" => w.queue = << >>
  /\ Sorted(w.queue)
  /\ \A d \in Doc :
       /\ Sorted(w.documentQueues[d])
       /\ \A a \in ToSet(w.documentQueues[d]) : a.doc = d
       /\ w.documentQueues[d] # << >> => Contains(w.rotation, d)

(* Every identifier given out is that of one task, which waits or was        *)
(* started, once.                                                            *)
TasksOK(w) ==
  /\ \A a, b \in Tasks(w) \cup Begun(w) : a.id = b.id => a = b
  /\ \A a \in Tasks(w) \cup Begun(w) : a.id < w.nextTaskId
  /\ \A n \in 1..(w.nextTaskId - 1) : \E a \in Tasks(w) \cup Begun(w) : a.id = n
  /\ Tasks(w) \cap Begun(w) = {}
  /\ \A s, r \in w.started : s.task = r.task => s = r
  /\ \A s \in w.started : s.at \in (s.task.id + 1)..w.nextTaskId

WorkersOK(w) ==
  /\ \A i \in Pool : w.currentTask[i] # Idle => w.currentTask[i] \in Begun(w)
  /\ \A i, j \in Pool :
       i # j /\ w.currentTask[i] # Idle => w.currentTask[i] # w.currentTask[j]

OrderOK(w, p) ==
  \A a \in Tasks(w), b \in Begun(w) :
    b.id > a.id /\ (b.doc = a.doc \/ p = "FIFO") => b.priority /\ ~a.priority

(* The places of the rotation in the order they are searched. *)
TurnAt(n, x, r) == IF r > x THEN r ELSE r + n

Turn(w, r) == TurnAt(Len(w.rotation), w.rotationIndex, r)

(* What was started for document x after task a was submitted. *)
Since(w, x, a) == {s \in w.started : s.task.doc = x /\ s.at > a.id}

(* While a task waits, a document served next before the task's own has had  *)
(* no more of its tasks started, any other at most one more; and a document  *)
(* outside the rotation none.                                                *)
FairOK(w) ==
  /\ \A j, k \in 1..Len(w.rotation) : \A a \in ToSet(w.documentQueues[w.rotation[j]]) :
       Cardinality(Since(w, w.rotation[k], a))
         <= Cardinality(Since(w, w.rotation[j], a)) + (IF Turn(w, k) < Turn(w, j) THEN 0 ELSE 1)
  /\ \A d, e \in Doc : \A a \in ToSet(w.documentQueues[d]) :
       ~Contains(w.rotation, e) => Since(w, e, a) = {}

CoreInv(w, p) ==
  /\ RotationOK(w) /\ QueuesOK(w, p) /\ TasksOK(w) /\ WorkersOK(w) /\ OrderOK(w, p)
  /\ FairOK(w)

PolicyOK(p) == p \in {"FIFO", "ROUND_ROBIN"}

LEMMA WorkTypes ==
  ASSUME NEW w \in Work
  PROVE  /\ w.nextTaskId \in Nat /\ w.nextTaskId \in 1..(MaxTasks + 1)
         /\ w.queue \in Seq(Task)
         /\ \A d \in Doc : w.documentQueues[d] \in Seq(Task)
         /\ w.rotation \in Seq(Doc) /\ Len(w.rotation) \in Nat /\ w.rotationIndex \in Nat
         /\ w.currentTask \in [Pool -> Task \cup {Idle}] /\ w.cursor \in Pool
         /\ w.started \subseteq [task : Task, at : 1..(MaxTasks + 1)]
         /\ Tasks(w) \subseteq Task /\ Begun(w) \subseteq Task
<1>1. /\ w.nextTaskId \in 1..(MaxTasks + 1)
      /\ w.queue \in Seq(Task) /\ w.documentQueues \in [Doc -> Seq(Task)]
      /\ w.rotation \in Seq(Doc) /\ w.rotationIndex \in Nat
      /\ w.currentTask \in [Pool -> Task \cup {Idle}] /\ w.cursor \in Pool
      /\ w.started \subseteq [task : Task, at : 1..(MaxTasks + 1)]
  BY DEF Work
<1>2. Tasks(w) \subseteq Task
  BY <1>1, SetIs DEF Tasks
<1>3. Begun(w) \subseteq Task
  BY <1>1 DEF Begun
<1>4. w.nextTaskId \in Nat /\ Len(w.rotation) \in Nat
  BY <1>1
<1> QED
  BY <1>1, <1>2, <1>3, <1>4

(* A round of dispatch takes task h of a queue for worker i. *)
Taken(w, v, i, h) ==
  /\ i \in Pool /\ w.currentTask[i] = Idle
  /\ v \in Work
  /\ v.nextTaskId = w.nextTaskId
  /\ v.rotation = w.rotation
  /\ v.currentTask = [w.currentTask EXCEPT ![i] = h]
  /\ v.started = w.started \cup {[task |-> h, at |-> w.nextTaskId]}

FifoTurn(w, v, h) ==
  /\ w.queue # << >> /\ h = Head(w.queue)
  /\ v.queue = Tail(w.queue)
  /\ v.documentQueues = w.documentQueues /\ v.rotationIndex = w.rotationIndex

RobinTurn(w, v, h, r) ==
  LET d == w.rotation[r] IN
  /\ r \in 1..Len(w.rotation)
  /\ w.documentQueues[d] # << >> /\ h = Head(w.documentQueues[d])
  /\ \A k \in 1..Len(w.rotation) :
       w.documentQueues[w.rotation[k]] # << >> => Turn(w, r) <= Turn(w, k)
  /\ v.documentQueues = [w.documentQueues EXCEPT ![d] = Tail(@)]
  /\ v.queue = w.queue
  /\ v.rotationIndex = r % Len(w.rotation)

(* acquire finds an idle worker if there is one. *)
LEMMA AcquireIdle ==
  ASSUME NEW w \in Work, IdleWorkers(w) # {}
  PROVE  acquire(w) \in IdleWorkers(w)
<1> DEFINE distance(i) == (i + Workers - w.cursor) % Workers
<1>0. Workers \in Nat \ {0} /\ w.cursor \in 0..(Workers - 1)
  BY WorkTypes, SchedulerAssumption DEF Pool
<1>1. \A i \in IdleWorkers(w) : i \in 0..(Workers - 1)
  BY DEF IdleWorkers, Pool
<1>2. \A i \in IdleWorkers(w) : distance(i) \in 0..(Workers - 1)
  <2> TAKE i \in IdleWorkers(w)
  <2>1. i + Workers - w.cursor \in Nat
    BY <1>0, <1>1
  <2> QED
    BY <1>0, <2>1, ModRange
<1>3. \E i \in IdleWorkers(w) : \A j \in IdleWorkers(w) : distance(i) <= distance(j)
  <2> HIDE DEF distance
  <2>p. PICK D : D = {distance(i) : i \in IdleWorkers(w)}
    OBVIOUS
  <2>1. D # {} /\ \A k \in D : k \in Int
    BY <1>0, <1>2, <2>p
  <2>2. IsFiniteSet(D)
    <3>1. PICK N : N = 0..(Workers - 1)
      OBVIOUS
    <3>2. IsFiniteSet(N)
      BY <1>0, <3>1, FS_Interval
    <3>3. D \in SUBSET N
      BY <1>2, <2>p, <3>1
    <3> QED
      BY <3>2, <3>3, FS_Subset
  <2>3. Min(D) \in D /\ \A k \in D : Min(D) <= k
    BY <2>1, <2>2, LeastMember
  <2> QED
    BY <2>p, <2>3
<1>4. acquire(w) = CHOOSE i \in IdleWorkers(w) : \A j \in IdleWorkers(w) : distance(i) <= distance(j)
  BY DEF acquire
<1> HIDE DEF distance
<1> QED
  BY <1>3, <1>4

(* nextTurn finds the first place of the rotation with a task. *)
LEMMA NextTurnIs ==
  ASSUME NEW w, RotationOK(w),
         \E r \in 1..Len(w.rotation) : w.documentQueues[w.rotation[r]] # << >>
  PROVE  /\ nextTurn(w) \in 1..Len(w.rotation)
         /\ w.documentQueues[w.rotation[nextTurn(w)]] # << >>
         /\ \A k \in 1..Len(w.rotation) :
              w.documentQueues[w.rotation[k]] # << >> => Turn(w, nextTurn(w)) <= Turn(w, k)
<1>n. PICK n : n = Len(w.rotation)
  OBVIOUS
<1>x. PICK x : x = w.rotationIndex
  OBVIOUS
<1> DEFINE place(k) == ((x + k) % n) + 1
           full(r) == w.documentQueues[w.rotation[r]] # << >>
           first(k) == k \in 0..(n - 1) /\ full(place(k)) /\ \A j \in 0..(k - 1) : ~full(place(j))
<1>0. n \in Nat \ {0} /\ x \in Nat /\ x < n
  <2>1. w \in Work /\ (x < n \/ x = 0) /\ \E r \in 1..n : TRUE
    BY <1>n, <1>x DEF RotationOK
  <2>2. n \in Nat /\ x \in Nat
    BY <1>n, <1>x, <2>1, WorkTypes
  <2> QED
    BY <2>1, <2>2
<1>t. \A r : Turn(w, r) = IF r > x THEN r ELSE r + n
  BY <1>n, <1>x DEF Turn, TurnAt
<1>1. ASSUME NEW k \in 0..(n - 1)
      PROVE  place(k) \in 1..n /\ Turn(w, place(k)) = x + k + 1
  <2>1. PICK a : a = x + k
    OBVIOUS
  <2>2. PICK p : p = place(k)
    OBVIOUS
  <2>3. a \in Nat /\ a < 2 * n /\ p = (a % n) + 1
    BY <1>0, <2>1, <2>2
  <2>4. CASE a < n
    <3>1. a % n = a
      BY <1>0, <2>3, <2>4, ModBelow
    <3>2. p = a + 1
      BY <2>3, <3>1
    <3> QED
      BY <1>0, <1>t, <2>1, <2>2, <2>3, <2>4, <3>2
  <2>5. CASE ~(a < n)
    <3>1. n <= a
      BY <1>0, <2>3, <2>5
    <3>2. a % n = a - n
      BY <1>0, <2>3, <3>1, ModAbove
    <3>3. p = a - n + 1
      BY <2>3, <3>2
    <3>4. p \in 1..n /\ ~(p > x)
      BY <1>0, <2>1, <2>3, <3>1, <3>3
    <3>5. Turn(w, p) = p + n
      BY <1>t, <3>4
    <3>6. Turn(w, p) = x + k + 1
      BY <1>0, <2>1, <3>3, <3>5
    <3> HIDE DEF place
    <3> QED
      BY <2>2, <3>4, <3>6
  <2> QED
    BY <2>4, <2>5
<1> HIDE DEF place
<1>2. ASSUME NEW r \in 1..n
      PROVE  \E k \in 0..(n - 1) : place(k) = r
  <2>1. CASE r > x
    <3>1. r - x - 1 \in 0..(n - 1) /\ x + (r - x - 1) = r - 1 /\ r - 1 < n /\ r - 1 \in Nat
      BY <1>0, <2>1
    <3>2. place(r - x - 1) = r
      BY <1>0, <3>1, ModBelow DEF place
    <3> QED
      BY <3>1, <3>2
  <2>2. CASE ~(r > x)
    <3>1. /\ r - x - 1 + n \in 0..(n - 1) /\ x + (r - x - 1 + n) = r - 1 + n
          /\ r - 1 + n \in Nat /\ n <= r - 1 + n /\ r - 1 + n < 2 * n
      BY <1>0, <2>2
    <3>a. PICK a : a = r - 1 + n
      OBVIOUS
    <3>2. a % n = a - n
      BY <1>0, <3>1, <3>a, ModAbove
    <3>3. place(r - x - 1 + n) = r
      BY <1>0, <3>1, <3>a, <3>2 DEF place
    <3> QED
      BY <3>1, <3>3
  <2> QED
    BY <2>1, <2>2
<1>3. \E k : first(k)
  <2>1. PICK K : K = {k \in 0..(n - 1) : full(place(k))}
    OBVIOUS
  <2>2. K # {} /\ \A k \in K : k \in Int
    <3>1. PICK r \in 1..n : full(r)
      BY <1>n
    <3> HIDE DEF full
    <3> QED
      BY <1>2, <2>1, <3>1
  <2>3. IsFiniteSet(K)
    <3>1. PICK N : N = 0..(n - 1)
      OBVIOUS
    <3>2. IsFiniteSet(N)
      BY <1>0, <3>1, FS_Interval
    <3>3. K \in SUBSET N
      BY <2>1, <3>1
    <3> QED
      BY <3>2, <3>3, FS_Subset
  <2>4. Min(K) \in K /\ \A k \in K : Min(K) <= k
    BY <2>2, <2>3, LeastMember
  <2>5. PICK m \in K : \A k \in K : m <= k
    BY <2>4
  <2>6. \A j \in 0..(m - 1) : j \in 0..(n - 1) /\ ~(m <= j)
    BY <1>0, <2>1
  <2> HIDE DEF full
  <2>7. first(m)
    BY <2>1, <2>5, <2>6
  <2> QED
    BY <2>7
<1>4. PICK m : m = CHOOSE k \in 0..(n - 1) : full(place(k)) /\ \A j \in 0..(k - 1) : ~full(place(j))
  OBVIOUS
<1>5. first(m)
  <2> HIDE DEF full
  <2> QED
    BY <1>3, <1>4
<1>6. nextTurn(w) = place(m)
  BY <1>n, <1>x, <1>4 DEF nextTurn, place
<1>7. ASSUME NEW k \in 1..n, full(k)
      PROVE  Turn(w, place(m)) <= Turn(w, k)
  <2>1. PICK j \in 0..(n - 1) : place(j) = k
    BY <1>2
  <2>2. ~(j \in 0..(m - 1))
    BY <1>5, <1>7, <2>1
  <2>3. m <= j
    BY <1>0, <1>5, <2>2
  <2>4. Turn(w, place(m)) = x + m + 1 /\ Turn(w, k) = x + j + 1
    BY <1>1, <1>5, <2>1
  <2> QED
    BY <1>0, <1>5, <2>3, <2>4
<1>8. place(m) \in 1..n /\ full(place(m))
  BY <1>1, <1>5
<1> HIDE DEF first
<1> QED
  BY <1>n, <1>6, <1>7, <1>8

(* One round of the loop: the policy's turn, and an idle worker. *)
Served(w, v, p) ==
  \E i, h :
    /\ Taken(w, v, i, h)
    /\ p = "FIFO" => FifoTurn(w, v, h)
    /\ p = "ROUND_ROBIN" => \E r : RobinTurn(w, v, h, r)

(* What takes the head of a queue. *)
LEMMA DequeueIs ==
  ASSUME PolicyOK(policy), NEW w, CoreInv(w, policy), HasTasks(w)
  PROVE  /\ dequeue(w) \in Work /\ Waiting(w) \in Task
         /\ dequeue(w).nextTaskId = w.nextTaskId /\ dequeue(w).rotation = w.rotation
         /\ dequeue(w).currentTask = w.currentTask /\ dequeue(w).started = w.started
         /\ policy = "FIFO" => FifoTurn(w, dequeue(w), Waiting(w))
         /\ policy = "ROUND_ROBIN" => \E r : RobinTurn(w, dequeue(w), Waiting(w), r)
<1>0. w \in Work /\ QueuesOK(w, policy) /\ RotationOK(w)
  BY DEF CoreInv, RotationOK
<1>1. CASE policy = "FIFO"
  <2>1. dequeue(w) = [w EXCEPT !.queue = Tail(@)] /\ Waiting(w) = Head(w.queue) /\ w.queue # << >>
    BY <1>1 DEF dequeue, Waiting, HasTasks
  <2>2. Waiting(w) \in Task /\ Tail(w.queue) \in Seq(Task)
    BY <1>0, <2>1, WorkTypes
  <2>3. dequeue(w) \in Work
    BY <1>0, <2>1, <2>2 DEF Work
  <2>4. FifoTurn(w, dequeue(w), Waiting(w))
    BY <1>0, <2>1 DEF FifoTurn, Work
  <2> QED
    BY <1>0, <1>1, <2>1, <2>2, <2>3, <2>4 DEF Work
<1>2. CASE policy = "ROUND_ROBIN"
  <2>0. policy # "FIFO"
    BY <1>2
  <2>r. PICK r : r = nextTurn(w)
    OBVIOUS
  <2>d. PICK d : d = w.rotation[r]
    OBVIOUS
  <2>1. PICK e \in Doc : w.documentQueues[e] # << >>
    BY <2>0 DEF HasTasks
  <2>2. PICK k \in 1..Len(w.rotation) : w.rotation[k] = e
    <3>1. Contains(w.rotation, e)
      BY <1>0, <2>1 DEF QueuesOK
    <3> QED
      BY <3>1 DEF Contains
  <2>3. /\ r \in 1..Len(w.rotation) /\ w.documentQueues[w.rotation[r]] # << >>
        /\ \A j \in 1..Len(w.rotation) :
             w.documentQueues[w.rotation[j]] # << >> => Turn(w, r) <= Turn(w, j)
    BY <1>0, <2>1, <2>2, <2>r, NextTurnIs
  <2>4. d \in Doc
    BY <1>0, <2>3, <2>d, WorkTypes
  <2>5. PICK u : u = [w EXCEPT !.documentQueues[d] = Tail(@), !.rotationIndex = r % Len(w.rotation)]
    OBVIOUS
  <2>6. dequeue(w) = u /\ Waiting(w) = Head(w.documentQueues[d])
    BY <2>0, <2>r, <2>d, <2>5 DEF dequeue, Waiting
  <2>7. w.documentQueues[d] \in Seq(Task) /\ w.documentQueues[d] # << >>
    BY <1>0, <2>3, <2>4, <2>d, WorkTypes
  <2>8. Waiting(w) \in Task /\ Tail(w.documentQueues[d]) \in Seq(Task)
    BY <2>6, <2>7
  <2>9. r % Len(w.rotation) \in Nat
    <3>1. PICK n : n = Len(w.rotation)
      OBVIOUS
    <3>2. n \in Nat \ {0} /\ r \in Nat
      BY <1>0, <2>3, <3>1, WorkTypes
    <3>3. r % n \in Nat
      BY <3>2, ModRange
    <3> QED
      BY <3>1, <3>3
  <2>10. u \in Work
    BY <1>0, <2>4, <2>5, <2>8, <2>9 DEF Work
  <2>11. /\ u.nextTaskId = w.nextTaskId /\ u.rotation = w.rotation /\ u.queue = w.queue
         /\ u.currentTask = w.currentTask /\ u.started = w.started
         /\ u.documentQueues = [w.documentQueues EXCEPT ![d] = Tail(@)]
         /\ u.rotationIndex = r % Len(w.rotation)
    BY <1>0, <2>5 DEF Work
  <2>12. RobinTurn(w, u, Waiting(w), r)
    BY <2>d, <2>3, <2>6, <2>11 DEF RobinTurn
  <2> QED
    BY <2>0, <2>6, <2>8, <2>10, <2>11, <2>12
<1> QED
  BY <1>1, <1>2 DEF PolicyOK

LEMMA PairedIs ==
  ASSUME PolicyOK(policy), NEW w, CoreInv(w, policy), HasTasks(w), IdleWorkers(w) # {}
  PROVE  Served(w, Paired(w), policy)
<1>h. PICK h : h = Waiting(w)
  OBVIOUS
<1>u. PICK u : u = dequeue(w)
  OBVIOUS
<1>i. PICK i : i = acquire(u)
  OBVIOUS
<1>v. PICK v : v = [u EXCEPT !.currentTask[i] = h,
                             !.cursor = (i + 1) % Workers,
                             !.started = @ \cup {[task |-> h, at |-> u.nextTaskId]}]
  OBVIOUS
<1>1. Paired(w) = v
  BY <1>h, <1>u, <1>i, <1>v DEF Paired, run
<1>2. /\ u \in Work /\ h \in Task
      /\ u.nextTaskId = w.nextTaskId /\ u.rotation = w.rotation
      /\ u.currentTask = w.currentTask /\ u.started = w.started
      /\ policy = "FIFO" => FifoTurn(w, u, h)
      /\ policy = "ROUND_ROBIN" => \E r : RobinTurn(w, u, h, r)
  BY <1>h, <1>u, DequeueIs
<1>3. i \in Pool /\ u.currentTask[i] = Idle
  <2>1. IdleWorkers(u) # {}
    BY <1>2 DEF IdleWorkers
  <2>2. i \in IdleWorkers(u)
    BY <1>2, <1>i, <2>1, AcquireIdle
  <2> QED
    BY <2>2 DEF IdleWorkers
<1>4. (i + 1) % Workers \in Pool
  <2>1. Workers \in Nat \ {0} /\ i + 1 \in Nat
    BY <1>3, SchedulerAssumption DEF Pool
  <2> QED
    BY <2>1, ModRange DEF Pool
<1>s. PICK s : s = u.started \cup {[task |-> h, at |-> u.nextTaskId]}
  OBVIOUS
<1>c. PICK c : c = [u.currentTask EXCEPT ![i] = h]
  OBVIOUS
<1>k. PICK k : k = (i + 1) % Workers
  OBVIOUS
<1>5. s \subseteq [task : Task, at : 1..(MaxTasks + 1)] /\ c \in [Pool -> Task \cup {Idle}]
  BY <1>2, <1>3, <1>s, <1>c, WorkTypes
<1>w. v = [u EXCEPT !.currentTask = c, !.cursor = k, !.started = s]
  BY <1>2, <1>v, <1>s, <1>c, <1>k DEF Work
<1>9. /\ v \in Work
      /\ v.nextTaskId = u.nextTaskId /\ v.rotation = u.rotation /\ v.queue = u.queue
      /\ v.documentQueues = u.documentQueues /\ v.rotationIndex = u.rotationIndex
      /\ v.currentTask = c /\ v.started = s
  BY <1>2, <1>4, <1>5, <1>k, <1>w DEF Work
<1>6. Taken(w, v, i, h)
  BY <1>2, <1>3, <1>9, <1>s, <1>c DEF Taken
<1>7. policy = "FIFO" => FifoTurn(w, v, h)
  BY <1>2, <1>9 DEF FifoTurn
<1>8. policy = "ROUND_ROBIN" => \E r : RobinTurn(w, v, h, r)
  BY <1>2, <1>9 DEF RobinTurn
<1> QED
  BY <1>1, <1>6, <1>7, <1>8 DEF Served

(* The facts of a round that the invariant rests on. *)
LEMMA ServedFacts ==
  ASSUME NEW p, PolicyOK(p), NEW w, CoreInv(w, p), NEW v, NEW i, NEW h, Taken(w, v, i, h),
         p = "FIFO" => FifoTurn(w, v, h),
         p = "ROUND_ROBIN" => \E r : RobinTurn(w, v, h, r)
  PROVE  /\ RotationOK(v) /\ QueuesOK(v, p)
         /\ h \in Tasks(w) /\ Tasks(v) = Tasks(w) \ {h} /\ Begun(v) = Begun(w) \cup {h}
         /\ \A a \in Tasks(v) : a.doc = h.doc \/ p = "FIFO" => Before(h, a)
<1>0. /\ w \in Work /\ QueuesOK(w, p) /\ RotationOK(w) /\ v \in Work
      /\ v.rotation = w.rotation /\ v.started = w.started \cup {[task |-> h, at |-> w.nextTaskId]}
  BY DEF CoreInv, RotationOK, Taken
<1>1. Begun(v) = Begun(w) \cup {h}
  <2>1. PICK s : s = [task |-> h, at |-> w.nextTaskId]
    OBVIOUS
  <2>2. s.task = h /\ \A r : r \in v.started <=> r \in w.started \/ r = s
    BY <1>0, <2>1
  <2>3. /\ \A a : a \in Begun(v) <=> \E r \in v.started : r.task = a
        /\ \A a : a \in Begun(w) <=> \E r \in w.started : r.task = a
    BY DEF Begun
  <2>4. \A a : a \in Begun(v) <=> a \in Begun(w) \/ a = h
    BY <2>2, <2>3
  <2> QED
    BY <2>4
<1>2. IsFiniteSet(v.started)
  BY <1>0, FS_AddElement DEF RotationOK
<1>3. CASE p = "FIFO"
  <2>q. PICK q : q = w.queue
    OBVIOUS
  <2>1. /\ q # << >> /\ h = Head(q) /\ v.queue = Tail(q) /\ v.documentQueues = w.documentQueues
        /\ v.rotationIndex = w.rotationIndex
    BY <1>3, <2>q DEF FifoTurn
  <2>2. q \in Seq(Task) /\ Sorted(q) /\ \A d \in Doc : w.documentQueues[d] = << >>
    BY <1>0, <1>3, <2>q, WorkTypes DEF QueuesOK
  <2>3. /\ h \in ToSet(q) /\ Sorted(Tail(q)) /\ ToSet(Tail(q)) = ToSet(q) \ {h}
        /\ \A a \in ToSet(Tail(q)) : Before(h, a)
    BY <2>1, <2>2, TailFacts
  <2>4. \A d \in Doc : ToSet(w.documentQueues[d]) = {}
    BY <2>2 DEF ToSet
  <2>5. Tasks(w) = ToSet(q) /\ Tasks(v) = ToSet(Tail(q))
    BY <2>1, <2>4, <2>q DEF Tasks
  <2>6. RotationOK(v)
    BY <1>0, <1>2, <2>1 DEF RotationOK
  <2>7. QueuesOK(v, p)
    BY <1>0, <1>3, <2>1, <2>3 DEF QueuesOK
  <2> QED
    BY <1>1, <2>3, <2>5, <2>6, <2>7
<1>4. CASE p = "ROUND_ROBIN"
  <2>r. PICK r : RobinTurn(w, v, h, r)
    BY <1>4
  <2>d. PICK d : d = w.rotation[r]
    OBVIOUS
  <2>q. PICK q : q = w.documentQueues[d]
    OBVIOUS
  <2>1. /\ r \in 1..Len(w.rotation) /\ q # << >> /\ h = Head(q)
        /\ v.documentQueues = [w.documentQueues EXCEPT ![d] = Tail(q)]
        /\ v.queue = w.queue /\ v.rotationIndex = r % Len(w.rotation)
    BY <2>r, <2>d, <2>q DEF RobinTurn
  <2>2. d \in Doc /\ q \in Seq(Task) /\ w.documentQueues \in [Doc -> Seq(Task)]
    BY <1>0, <2>1, <2>d, <2>q, WorkTypes DEF Work
  <2>3. /\ Sorted(q) /\ w.queue = << >> /\ (\A a \in ToSet(q) : a.doc = d)
        /\ Contains(w.rotation, d)
    BY <1>0, <1>4, <2>1, <2>2, <2>q DEF QueuesOK
  <2>4. /\ h \in ToSet(q) /\ Sorted(Tail(q)) /\ ToSet(Tail(q)) = ToSet(q) \ {h}
        /\ \A a \in ToSet(Tail(q)) : Before(h, a)
    BY <2>1, <2>2, <2>3, TailFacts
  <2>5. /\ v.documentQueues[d] = Tail(q)
        /\ \A e \in Doc : e # d => v.documentQueues[e] = w.documentQueues[e]
    BY <2>1, <2>2
  <2>6. \A e \in Doc : \A a \in ToSet(w.documentQueues[e]) : a.doc = e
    BY <1>0 DEF QueuesOK
  <2>7. ToSet(w.queue) = {}
    BY <2>3 DEF ToSet
  <2>8. /\ \A a : a \in Tasks(w) <=> \E e \in Doc : a \in ToSet(w.documentQueues[e])
        /\ \A a : a \in Tasks(v) <=> \E e \in Doc : a \in ToSet(v.documentQueues[e])
    BY <2>1, <2>7 DEF Tasks
  <2>9. h.doc = d
    BY <2>3, <2>4
  <2>10. \A a : a \in Tasks(v) <=> a \in Tasks(w) /\ a # h
    BY <2>2, <2>4, <2>5, <2>6, <2>8, <2>9, <2>q
  <2>11. ASSUME NEW a \in Tasks(v), a.doc = d
         PROVE  Before(h, a)
    <3>1. PICK e \in Doc : a \in ToSet(v.documentQueues[e])
      BY <2>8
    <3>2. CASE e = d
      BY <2>4, <2>5, <3>1, <3>2
    <3>3. CASE e # d
      BY <2>5, <2>6, <2>11, <3>1, <3>3
    <3> QED
      BY <3>2, <3>3
  <2>12. RotationOK(v)
    <3>1. PICK n : n = Len(w.rotation)
      OBVIOUS
    <3>2. n \in Nat \ {0} /\ r \in Nat
      BY <1>0, <2>1, <3>1, WorkTypes
    <3>3. r % n < n
      BY <3>2, ModRange
    <3>4. v.rotationIndex < Len(v.rotation)
      BY <1>0, <2>1, <3>1, <3>3
    <3> QED
      BY <1>0, <1>2, <3>4 DEF RotationOK
  <2>13. QueuesOK(v, p)
    BY <1>0, <1>4, <2>1, <2>2, <2>3, <2>4, <2>5 DEF QueuesOK
  <2>14. h \in Tasks(w) /\ Tasks(v) = Tasks(w) \ {h}
    BY <2>2, <2>4, <2>8, <2>10, <2>q
  <2>15. \A a \in Tasks(v) : a.doc = h.doc \/ p = "FIFO" => Before(h, a)
    BY <1>4, <2>9, <2>11
  <2> QED
    BY <1>1, <2>12, <2>13, <2>14, <2>15
<1> QED
  BY <1>3, <1>4 DEF PolicyOK

(* How a turn moves the order of the places, when r had it. *)
Overtakes(n, x, y, r, j, k) ==
  /\ TurnAt(n, y, k) < TurnAt(n, y, j) /\ j # r => k # r /\ TurnAt(n, x, k) < TurnAt(n, x, j)
  /\ k = r /\ j # r => TurnAt(n, x, k) < TurnAt(n, x, j)

LEMMA TurnMoves ==
  ASSUME NEW n \in Nat \ {0}, NEW x \in 0..(n - 1), NEW y,
         NEW r \in 1..n, NEW j \in 1..n, NEW k \in 1..n, y = r % n,
         TurnAt(n, x, r) <= TurnAt(n, x, j)
  PROVE  Overtakes(n, x, y, r, j, k)
<1>1. y = IF r = n THEN 0 ELSE r
  <2>1. CASE r = n
    <3>1. r % n = r - n
      BY <2>1, ModAbove
    <3> QED
      BY <2>1, <3>1
  <2>2. CASE r # n
    <3>1. r \in Nat /\ r < n
      BY <2>2
    <3>2. r % n = r
      BY <3>1, ModBelow
    <3> QED
      BY <2>2, <3>2
  <2> QED
    BY <2>1, <2>2
<1>2. y \in 0..(n - 1)
  BY <1>1
<1>3. PICK tr, tj, tk, uj, uk : /\ tr = TurnAt(n, x, r) /\ tj = TurnAt(n, x, j)
                                /\ tk = TurnAt(n, x, k)
                                /\ uj = TurnAt(n, y, j) /\ uk = TurnAt(n, y, k)
  OBVIOUS
<1>5. /\ tr = (IF r > x THEN r ELSE r + n) /\ tj = (IF j > x THEN j ELSE j + n)
      /\ tk = (IF k > x THEN k ELSE k + n) /\ uj = (IF j > y THEN j ELSE j + n)
      /\ uk = (IF k > y THEN k ELSE k + n) /\ tr <= tj
  BY <1>3 DEF TurnAt
<1>6. n \in Int /\ x \in Int /\ y \in Int /\ r \in Int /\ j \in Int /\ k \in Int
  BY <1>2
<1>7. uk < uj /\ j # r => k # r /\ tk < tj
  <2> SUFFICES ASSUME uk < uj, j # r PROVE k # r /\ tk < tj
    OBVIOUS
  <2>1. CASE r = n
    BY <1>1, <1>5, <1>6, <2>1
  <2>2. CASE r # n
    BY <1>1, <1>5, <1>6, <2>2
  <2> QED
    BY <2>1, <2>2
<1>8. k = r /\ j # r => tk < tj
  BY <1>5, <1>6
<1> QED
  BY <1>3, <1>7, <1>8 DEF Overtakes

(* A start counts for its document alone. *)
LEMMA ServedSince ==
  ASSUME NEW p, PolicyOK(p), NEW w, CoreInv(w, p), NEW v, NEW h, h \in Tasks(w),
         v.started = w.started \cup {[task |-> h, at |-> w.nextTaskId]},
         NEW a \in Tasks(w), NEW x
  PROVE  /\ Cardinality(Since(w, x, a)) \in Nat
         /\ x # h.doc => Since(v, x, a) = Since(w, x, a)
         /\ x = h.doc => Cardinality(Since(v, x, a)) = Cardinality(Since(w, x, a)) + 1
<1>s. PICK s : s = [task |-> h, at |-> w.nextTaskId]
  OBVIOUS
<1>1. s.task = h /\ s.at = w.nextTaskId /\ s.at > a.id
  <2>1. TasksOK(w) /\ w \in Work
    BY DEF CoreInv, RotationOK
  <2>2. a.id < w.nextTaskId /\ a.id \in Nat /\ w.nextTaskId \in Nat
    BY <2>1, WorkTypes, TaskType DEF TasksOK
  <2> QED
    BY <1>s, <2>2
<1>o. PICK O : O = Since(w, x, a)
  OBVIOUS
<1>2. IsFiniteSet(O) /\ Cardinality(O) \in Nat
  <2>1. O \in SUBSET w.started /\ IsFiniteSet(w.started)
    BY <1>o DEF Since, CoreInv, RotationOK
  <2> QED
    BY <2>1, FS_Subset, FS_CardinalityType
<1>3. s \notin O
  <2>1. h \notin Begun(w)
    BY DEF CoreInv, TasksOK
  <2> QED
    BY <1>o, <1>1, <2>1 DEF Since, Begun
<1>4. x # h.doc => Since(v, x, a) = O
  BY <1>o, <1>s, <1>1 DEF Since
<1>5. x = h.doc => Since(v, x, a) = O \cup {s}
  BY <1>o, <1>s, <1>1 DEF Since
<1>6. Cardinality(O \cup {s}) = Cardinality(O) + 1
  BY <1>2, <1>3, FS_AddElement
<1> QED
  BY <1>2, <1>4, <1>5, <1>6, <1>o

LEMMA ServedFair ==
  ASSUME NEW p, PolicyOK(p), NEW w, CoreInv(w, p), NEW v, Served(w, v, p)
  PROVE  FairOK(v)
<1>1. PICK i, h : /\ Taken(w, v, i, h)
                  /\ p = "FIFO" => FifoTurn(w, v, h)
                  /\ p = "ROUND_ROBIN" => \E r : RobinTurn(w, v, h, r)
  BY DEF Served
<1>2. h \in Tasks(w) /\ Tasks(v) = Tasks(w) \ {h} /\ QueuesOK(v, p) /\ RotationOK(v)
  BY <1>1, ServedFacts
<1>3. CASE p = "FIFO"
  <2>1. \A d \in Doc : ToSet(v.documentQueues[d]) = {}
    BY <1>2, <1>3 DEF QueuesOK, ToSet
  <2>2. v.rotation \in Seq(Doc)
    BY <1>2, WorkTypes DEF RotationOK
  <2>3. \A j \in 1..Len(v.rotation) : v.rotation[j] \in Doc
    BY <2>2
  <2> QED
    BY <2>1, <2>3 DEF FairOK
<1>4. CASE p = "ROUND_ROBIN"
  <2>r. PICK r : RobinTurn(w, v, h, r)
    BY <1>1, <1>4
  <2>n. PICK n : n = Len(w.rotation)
    OBVIOUS
  <2>x. PICK x : x = w.rotationIndex
    OBVIOUS
  <2>y. PICK y : y = v.rotationIndex
    OBVIOUS
  <2>o. PICK rot : rot = w.rotation
    OBVIOUS
  <2>d. PICK d : d = rot[r]
    OBVIOUS
  <2>0. /\ w \in Work /\ QueuesOK(w, p) /\ RotationOK(w) /\ FairOK(w) /\ v.rotation = rot
        /\ v.started = w.started \cup {[task |-> h, at |-> w.nextTaskId]}
    BY <1>1, <2>o DEF CoreInv, RotationOK, Taken
  <2>1. /\ r \in 1..n /\ h = Head(w.documentQueues[d]) /\ w.documentQueues[d] # << >>
        /\ v.documentQueues = [w.documentQueues EXCEPT ![d] = Tail(w.documentQueues[d])]
        /\ y = r % n
        /\ \A k \in 1..n : w.documentQueues[rot[k]] # << >> => Turn(w, r) <= Turn(w, k)
    BY <2>r, <2>n, <2>y, <2>o, <2>d DEF RobinTurn
  <2>2. /\ rot \in Seq(Doc) /\ n = Len(rot) /\ n \in Nat \ {0} /\ x \in 0..(n - 1)
        /\ (\A k \in 1..n : rot[k] \in Doc) /\ d \in Doc
        /\ w.documentQueues \in [Doc -> Seq(Task)]
        /\ \A j, k \in 1..n : rot[j] = rot[k] => j = k
    <3>1. rot \in Seq(Doc) /\ n = Len(rot) /\ n \in Nat /\ x \in Nat /\ (x < n \/ x = 0)
      BY <2>0, <2>n, <2>x, <2>o, WorkTypes DEF RotationOK
    <3>2. n \in Nat \ {0} /\ x \in 0..(n - 1)
      BY <2>1, <3>1
    <3>3. \A k \in 1..n : rot[k] \in Doc
      BY <3>1
    <3>4. DOMAIN rot = 1..n
      BY <3>1
    <3>5. \A j, k \in 1..n : rot[j] = rot[k] => j = k
      BY <2>0, <2>o, <3>4 DEF RotationOK, IsInjective
    <3> QED
      BY <2>0, <2>1, <2>d, <3>1, <3>2, <3>3, <3>5 DEF Work
  <2>3. h.doc = d
    <3>1. h \in ToSet(w.documentQueues[d])
      BY <2>0, <2>1, <2>2, TailFacts DEF QueuesOK
    <3> QED
      BY <2>0, <2>2, <3>1 DEF QueuesOK
  <2>4. \A e \in Doc : ToSet(v.documentQueues[e]) \subseteq ToSet(w.documentQueues[e])
    <3>1. ToSet(Tail(w.documentQueues[d])) \subseteq ToSet(w.documentQueues[d])
      BY <2>0, <2>1, <2>2, TailFacts DEF QueuesOK
    <3>2. /\ v.documentQueues[d] = Tail(w.documentQueues[d])
          /\ \A e \in Doc : e # d => v.documentQueues[e] = w.documentQueues[e]
      BY <2>1, <2>2
    <3> QED
      BY <3>1, <3>2
  <2>5. \A e \in Doc : ToSet(w.documentQueues[e]) \subseteq Tasks(w)
    BY DEF Tasks
  <2>6. \A k \in 1..n : Turn(w, k) = TurnAt(n, x, k) /\ Turn(v, k) = TurnAt(n, y, k)
    BY <2>0, <2>n, <2>o, <2>x, <2>y DEF Turn
  <2>7. ASSUME NEW j \in 1..n, NEW k \in 1..n, NEW a \in ToSet(v.documentQueues[rot[j]])
        PROVE  Cardinality(Since(v, rot[k], a))
                 <= Cardinality(Since(v, rot[j], a)) + (IF Turn(v, k) < Turn(v, j) THEN 0 ELSE 1)
    <3>1. a \in ToSet(w.documentQueues[rot[j]]) /\ a \in Tasks(w)
      BY <2>2, <2>4, <2>5, <2>7
    <3>2. w.documentQueues[rot[j]] # << >>
      BY <3>1 DEF ToSet
    <3>3. TurnAt(n, x, r) <= TurnAt(n, x, j)
      BY <2>1, <2>6, <3>2
    <3>4. PICK cj, ck : cj = Cardinality(Since(w, rot[j], a)) /\ ck = Cardinality(Since(w, rot[k], a))
      OBVIOUS
    <3>5. PICK bj, bk : bj = Cardinality(Since(v, rot[j], a)) /\ bk = Cardinality(Since(v, rot[k], a))
      OBVIOUS
    <3>6. /\ cj \in Nat /\ bj = IF j = r THEN cj + 1 ELSE cj
          /\ ck \in Nat /\ bk = IF k = r THEN ck + 1 ELSE ck
      <4>1. (rot[j] = d <=> j = r) /\ (rot[k] = d <=> k = r)
        BY <2>1, <2>2, <2>d
      <4>2. /\ cj \in Nat /\ (rot[j] # d => bj = cj) /\ (rot[j] = d => bj = cj + 1)
        BY <1>2, <2>0, <2>3, <3>1, <3>4, <3>5, ServedSince
      <4>3. /\ ck \in Nat /\ (rot[k] # d => bk = ck) /\ (rot[k] = d => bk = ck + 1)
        BY <1>2, <2>0, <2>3, <3>1, <3>4, <3>5, ServedSince
      <4> QED
        BY <4>1, <4>2, <4>3
    <3>7. ck <= cj + (IF TurnAt(n, x, k) < TurnAt(n, x, j) THEN 0 ELSE 1)
      BY <2>0, <2>6, <2>n, <2>o, <3>1, <3>4 DEF FairOK
    <3>8. Overtakes(n, x, y, r, j, k)
      BY <2>1, <2>2, <3>3, TurnMoves
    <3>9. bk <= bj + (IF TurnAt(n, y, k) < TurnAt(n, y, j) THEN 0 ELSE 1)
      <4>1. CASE j = r /\ k = r
        BY <3>4, <3>6, <4>1
      <4>2. CASE j = r /\ k # r
        BY <3>6, <3>7, <4>2
      <4>3. CASE j # r /\ k = r
        BY <3>6, <3>7, <3>8, <4>3 DEF Overtakes
      <4>4. CASE j # r /\ k # r
        BY <3>6, <3>7, <3>8, <4>4 DEF Overtakes
      <4> QED
        BY <4>1, <4>2, <4>3, <4>4
    <3> QED
      BY <2>6, <3>5, <3>9
  <2>8. ASSUME NEW e \in Doc, NEW f \in Doc, NEW a \in ToSet(v.documentQueues[e]), ~Contains(rot, f)
        PROVE  Since(v, f, a) = {}
    <3>1. a \in ToSet(w.documentQueues[e]) /\ a \in Tasks(w)
      BY <2>4, <2>5, <2>8
    <3>2. f # d
      BY <2>1, <2>2, <2>8, <2>d DEF Contains
    <3>3. Since(v, f, a) = Since(w, f, a)
      BY <1>2, <2>0, <2>3, <3>1, <3>2, ServedSince
    <3> QED
      BY <2>0, <2>8, <2>o, <3>1, <3>3 DEF FairOK
  <2> QED
    BY <2>0, <2>2, <2>7, <2>8 DEF FairOK
<1> QED
  BY <1>3, <1>4 DEF PolicyOK

LEMMA ServedKeeps ==
  ASSUME NEW p, PolicyOK(p), NEW w, CoreInv(w, p), NEW v, Served(w, v, p)
  PROVE  CoreInv(v, p)
<1>1. PICK i, h : /\ Taken(w, v, i, h)
                  /\ p = "FIFO" => FifoTurn(w, v, h)
                  /\ p = "ROUND_ROBIN" => \E r : RobinTurn(w, v, h, r)
  BY DEF Served
<1>2. /\ RotationOK(v) /\ QueuesOK(v, p)
      /\ h \in Tasks(w) /\ Tasks(v) = Tasks(w) \ {h} /\ Begun(v) = Begun(w) \cup {h}
      /\ \A a \in Tasks(v) : a.doc = h.doc \/ p = "FIFO" => Before(h, a)
  BY <1>1, ServedFacts
<1>3. /\ i \in Pool /\ w.currentTask \in [Pool -> Task \cup {Idle}] /\ v.nextTaskId = w.nextTaskId
      /\ v.currentTask = [w.currentTask EXCEPT ![i] = h]
      /\ v.started = w.started \cup {[task |-> h, at |-> w.nextTaskId]}
      /\ Tasks(w) \subseteq Task /\ Begun(w) \subseteq Task /\ w.nextTaskId \in Nat
      /\ TasksOK(w) /\ WorkersOK(w) /\ OrderOK(w, p)
  <2>1. w \in Work
    BY DEF CoreInv, RotationOK
  <2> QED
    BY <1>1, <2>1, WorkTypes DEF CoreInv, Taken
<1>4. h \notin Begun(w) /\ h.id \in Nat /\ h.id < w.nextTaskId /\ h \in Task
  BY <1>2, <1>3, TaskType DEF TasksOK
<1>5. TasksOK(v)
  <2>1. Tasks(v) \cup Begun(v) = Tasks(w) \cup Begun(w)
    BY <1>2
  <2>2. Tasks(v) \cap Begun(v) = {}
    BY <1>2, <1>3 DEF TasksOK
  <2>3. \A s \in w.started : s.task \in Begun(w)
    BY DEF Begun
  <2>4. \A s, r \in v.started : s.task = r.task => s = r
    BY <1>3, <1>4, <2>3 DEF TasksOK
  <2>5. \A s \in v.started : s.at \in (s.task.id + 1)..v.nextTaskId
    BY <1>3, <1>4 DEF TasksOK
  <2> QED
    BY <1>3, <2>1, <2>2, <2>4, <2>5 DEF TasksOK
<1>6. WorkersOK(v)
  <2>1. h # Idle
    BY <1>4 DEF Task, Idle
  <2>2. v.currentTask[i] = h /\ \A j \in Pool : j # i => v.currentTask[j] = w.currentTask[j]
    BY <1>3
  <2> QED
    BY <1>2, <1>3, <1>4, <2>2 DEF WorkersOK
<1>7. OrderOK(v, p)
  <2> SUFFICES ASSUME NEW a \in Tasks(v), NEW b \in Begun(v),
                      b.id > a.id, b.doc = a.doc \/ p = "FIFO"
               PROVE  b.priority /\ ~a.priority
    BY DEF OrderOK
  <2>1. CASE b \in Begun(w)
    BY <1>2, <1>3, <2>1 DEF OrderOK
  <2>2. CASE b = h
    <3>1. Before(h, a) /\ ~(h.id < a.id) /\ a \in Task
      BY <1>2, <1>3, <1>4, <2>2, TaskType
    <3> QED
      BY <2>2, <3>1 DEF Before
  <2> QED
    BY <1>2, <2>1, <2>2
<1>8. FairOK(v)
  BY ServedFair
<1> QED
  BY <1>2, <1>5, <1>6, <1>7, <1>8 DEF CoreInv

-----------------------------------------------------------------------------
(* The other changes of the queues and the workers. *)

(* The rotation only grows. *)
Extends(o, x) == Len(x) <= Len(o) /\ \A i \in 1..Len(x) : o[i] = x[i]

(* A new task, put in where the policy says. *)
LEMMA EnqueueIs ==
  ASSUME PolicyOK(policy), NEW w, CoreInv(w, policy), NEW task \in Task, task.id = w.nextTaskId,
         NEW v, v = enqueue(task, [w EXCEPT !.nextTaskId = @ + 1])
  PROVE  /\ RotationOK(v) /\ QueuesOK(v, policy)
         /\ Tasks(v) = Tasks(w) \cup {task}
         /\ v.nextTaskId = w.nextTaskId + 1 /\ v.started = w.started
         /\ v.currentTask = w.currentTask
         /\ v.rotationIndex = w.rotationIndex /\ Extends(v.rotation, w.rotation)
         /\ \A e \in Doc : \A a \in ToSet(v.documentQueues[e]) :
              a \in ToSet(w.documentQueues[e]) \/ a = task
<1>0. w \in Work /\ RotationOK(w) /\ QueuesOK(w, policy) /\ TasksOK(w)
  BY DEF CoreInv, RotationOK
<1>1. /\ \A a \in Tasks(w) : a.id < task.id
      /\ task.id \in 1..MaxTasks /\ MaxTasks \in Nat
  BY <1>0, SchedulerAssumption DEF TasksOK, Task, TaskId
<1>d. PICK d : d = task.doc
  OBVIOUS
<1>u. PICK u : u = [w EXCEPT !.nextTaskId = @ + 1]
  OBVIOUS
<1>2. /\ u \in Work /\ u.nextTaskId = w.nextTaskId + 1 /\ u.queue = w.queue
      /\ u.documentQueues = w.documentQueues /\ u.rotation = w.rotation
      /\ u.rotationIndex = w.rotationIndex /\ u.started = w.started
      /\ u.currentTask = w.currentTask
  <2>1. PICK k : k = w.nextTaskId + 1
    OBVIOUS
  <2>2. k \in 1..(MaxTasks + 1)
    BY <1>1, <2>1
  <2>3. u = [w EXCEPT !.nextTaskId = k]
    BY <1>0, <1>u, <2>1 DEF Work
  <2> QED
    BY <1>0, <2>1, <2>2, <2>3 DEF Work
<1>3. CASE policy = "FIFO"
  <2>q. PICK q : q = w.queue
    OBVIOUS
  <2>r. PICK r : r = insertByPriority(q, task)
    OBVIOUS
  <2>1. /\ q \in Seq(Task) /\ Sorted(q) /\ (\A a \in ToSet(q) : a.id < task.id)
        /\ \A d2 \in Doc : w.documentQueues[d2] = << >>
    BY <1>0, <1>1, <1>3, <2>q, WorkTypes DEF QueuesOK, Tasks
  <2>2. r \in Seq(Task) /\ Sorted(r) /\ ToSet(r) = ToSet(q) \cup {task}
    BY <2>1, <2>r, InsertSorts
  <2>3. v = [u EXCEPT !.queue = r]
    BY <1>2, <1>3, <1>u, <2>q, <2>r DEF enqueue, Work
  <2>4. /\ v \in Work /\ v.nextTaskId = w.nextTaskId + 1 /\ v.queue = r
        /\ v.documentQueues = w.documentQueues /\ v.rotation = w.rotation
        /\ v.rotationIndex = w.rotationIndex /\ v.started = w.started
        /\ v.currentTask = w.currentTask
    BY <1>2, <2>2, <2>3 DEF Work
  <2>5. Tasks(v) = Tasks(w) \cup {task}
    BY <2>2, <2>4, <2>q DEF Tasks
  <2>6. RotationOK(v)
    BY <1>0, <2>4 DEF RotationOK
  <2>7. QueuesOK(v, policy)
    BY <1>0, <1>3, <2>2, <2>4 DEF QueuesOK
  <2>8. Extends(v.rotation, w.rotation)
    BY <1>0, <2>4, WorkTypes DEF Extends
  <2> QED
    BY <2>4, <2>5, <2>6, <2>7, <2>8
<1>4. CASE policy = "ROUND_ROBIN"
  <2>q. PICK q : q = w.documentQueues[d]
    OBVIOUS
  <2>r. PICK r : r = insertByPriority(q, task)
    OBVIOUS
  <2>1. /\ d \in Doc /\ q \in Seq(Task) /\ Sorted(q) /\ (\A a \in ToSet(q) : a.id < task.id)
        /\ (\A a \in ToSet(q) : a.doc = d) /\ w.documentQueues \in [Doc -> Seq(Task)]
    <3>1. d \in Doc
      BY <1>d, TaskType
    <3>2. q \in Seq(Task) /\ w.documentQueues \in [Doc -> Seq(Task)]
      BY <1>0, <2>q, <3>1, WorkTypes DEF Work
    <3>3. ToSet(q) \subseteq Tasks(w)
      BY <2>q, <3>1 DEF Tasks
    <3>4. Sorted(q) /\ \A a \in ToSet(q) : a.doc = d
      BY <1>0, <2>q, <3>1 DEF QueuesOK
    <3> QED
      BY <1>1, <3>1, <3>2, <3>3, <3>4
  <2>2. r \in Seq(Task) /\ Sorted(r) /\ ToSet(r) = ToSet(q) \cup {task}
    BY <2>1, <2>r, InsertSorts
  <2>o. PICK o : o = IF Contains(w.rotation, d) THEN w.rotation ELSE Append(w.rotation, d)
    OBVIOUS
  <2>m. PICK m : m = [w.documentQueues EXCEPT ![d] = r]
    OBVIOUS
  <2>3. v = [u EXCEPT !.documentQueues = m, !.rotation = o]
    <3>1. v = [u EXCEPT !.documentQueues[d] = insertByPriority(@, task),
                        !.rotation = IF Contains(@, d) THEN @ ELSE Append(@, d)]
      BY <1>2, <1>4, <1>d, <1>u DEF enqueue
    <3> QED
      BY <1>2, <2>q, <2>r, <2>o, <2>m, <3>1 DEF Work
  <2>4. /\ o \in Seq(Doc) /\ IsInjective(o) /\ Len(o) >= Len(w.rotation) /\ Contains(o, d)
        /\ \A i \in 1..Len(w.rotation) : o[i] = w.rotation[i]
        /\ \A e : Contains(w.rotation, e) => Contains(o, e)
    <3>o. PICK x : x = w.rotation
      OBVIOUS
    <3>1. x \in Seq(Doc) /\ IsInjective(x)
      BY <1>0, <3>o, WorkTypes DEF RotationOK
    <3>2. CASE Contains(x, d)
      BY <2>o, <3>o, <3>1, <3>2
    <3>3. CASE ~Contains(x, d)
      <4>1. o = Append(x, d) /\ Len(x) \in Nat
        BY <2>o, <3>o, <3>1, <3>3
      <4>2. /\ o \in Seq(Doc) /\ Len(o) = Len(x) + 1 /\ o[Len(x) + 1] = d
            /\ \A i \in 1..Len(x) : o[i] = x[i]
        BY <2>1, <3>1, <4>1
      <4>3. \A i \in 1..Len(x) : x[i] # d
        BY <3>3 DEF Contains
      <4>4. \A i, j \in 1..Len(x) : x[i] = x[j] => i = j
        BY <3>1 DEF IsInjective
      <4>5. \A i \in 1..Len(o) : i \in 1..Len(x) \/ i = Len(x) + 1
        BY <4>1, <4>2
      <4>6. \A i, j \in 1..Len(o) : o[i] = o[j] => i = j
        BY <4>2, <4>3, <4>4, <4>5
      <4>7. DOMAIN o = 1..Len(o)
        BY <4>2
      <4>8. IsInjective(o)
        BY <4>6, <4>7 DEF IsInjective
      <4>9. Contains(o, d)
        BY <4>1, <4>2 DEF Contains
      <4>10. \A e : Contains(x, e) => Contains(o, e)
        BY <4>1, <4>2 DEF Contains
      <4> QED
        BY <3>o, <4>1, <4>2, <4>8, <4>9, <4>10
    <3> QED
      BY <3>2, <3>3, <3>o
  <2>5. /\ v \in Work /\ v.nextTaskId = w.nextTaskId + 1 /\ v.queue = w.queue
        /\ v.documentQueues = [w.documentQueues EXCEPT ![d] = r] /\ v.rotation = o
        /\ v.rotationIndex = w.rotationIndex /\ v.started = w.started
        /\ v.currentTask = w.currentTask
    <3>1. m \in [Doc -> Seq(Task)]
      BY <2>1, <2>2, <2>m
    <3> QED
      BY <1>2, <2>3, <2>4, <2>m, <3>1 DEF Work
  <2>6. /\ v.documentQueues[d] = r
        /\ \A e \in Doc : e # d => v.documentQueues[e] = w.documentQueues[e]
    BY <2>1, <2>5
  <2>7. Tasks(v) = Tasks(w) \cup {task}
    <3>1. /\ \A a : a \in Tasks(v) <=> a \in ToSet(w.queue) \/ \E e \in Doc : a \in ToSet(v.documentQueues[e])
          /\ \A a : a \in Tasks(w) <=> a \in ToSet(w.queue) \/ \E e \in Doc : a \in ToSet(w.documentQueues[e])
      BY <2>5 DEF Tasks
    <3>2. \A e \in Doc : \A a : a \in ToSet(v.documentQueues[e])
            <=> a \in ToSet(w.documentQueues[e]) \/ (e = d /\ a = task)
      BY <2>2, <2>6, <2>q
    <3>3. \A a : a \in Tasks(v) <=> a \in Tasks(w) \/ a = task
      BY <2>1, <3>1, <3>2
    <3> QED
      BY <3>3
  <2>8. RotationOK(v)
    <3>1. v.rotationIndex < Len(o) \/ v.rotationIndex = 0
      BY <1>0, <2>4, <2>5, WorkTypes DEF RotationOK
    <3> QED
      BY <1>0, <2>4, <2>5, <3>1 DEF RotationOK
  <2>9. QueuesOK(v, policy)
    <3>1. /\ v.queue = << >> /\ Sorted(v.queue)
      BY <1>0, <1>4, <2>5 DEF QueuesOK
    <3>2. ASSUME NEW e \in Doc
          PROVE  /\ Sorted(v.documentQueues[e])
                 /\ \A a \in ToSet(v.documentQueues[e]) : a.doc = e
                 /\ v.documentQueues[e] # << >> => Contains(v.rotation, e)
      <4>1. CASE e = d
        BY <1>d, <2>1, <2>2, <2>4, <2>5, <2>6, <4>1
      <4>2. CASE e # d
        BY <1>0, <2>4, <2>5, <2>6, <4>2 DEF QueuesOK
      <4> QED
        BY <4>1, <4>2
    <3> QED
      BY <1>4, <3>1, <3>2 DEF QueuesOK
  <2>10. Extends(v.rotation, w.rotation)
    BY <2>4, <2>5 DEF Extends
  <2>11. \A e \in Doc : \A a \in ToSet(v.documentQueues[e]) :
           a \in ToSet(w.documentQueues[e]) \/ a = task
    BY <2>2, <2>6, <2>q
  <2> QED
    BY <2>5, <2>7, <2>8, <2>9, <2>10, <2>11
<1> QED
  BY <1>3, <1>4 DEF PolicyOK

(* Places at the end of the rotation leave the order of the others alone. *)
LEMMA TurnKept ==
  ASSUME NEW n \in Nat, NEW m \in Nat, n <= m, NEW x \in Nat, NEW j \in 1..n, NEW k \in 1..n,
         TurnAt(m, x, k) < TurnAt(m, x, j)
  PROVE  TurnAt(n, x, k) < TurnAt(n, x, j)
BY DEF TurnAt

(* Nothing has started since the new task came. *)
LEMMA EnqueueFair ==
  ASSUME PolicyOK(policy), NEW w, CoreInv(w, policy), NEW task \in Task, task.id = w.nextTaskId,
         NEW v, v = enqueue(task, [w EXCEPT !.nextTaskId = @ + 1])
  PROVE  FairOK(v)
<1>1. /\ RotationOK(v) /\ v.started = w.started
      /\ v.rotationIndex = w.rotationIndex /\ Extends(v.rotation, w.rotation)
      /\ \A e \in Doc : \A a \in ToSet(v.documentQueues[e]) :
           a \in ToSet(w.documentQueues[e]) \/ a = task
  BY EnqueueIs
<1>2. w \in Work /\ TasksOK(w) /\ QueuesOK(w, policy) /\ RotationOK(w) /\ FairOK(w) /\ v \in Work
  BY <1>1 DEF CoreInv, RotationOK
<1>n. PICK n : n = Len(w.rotation)
  OBVIOUS
<1>m. PICK m : m = Len(v.rotation)
  OBVIOUS
<1>x. PICK x : x = w.rotationIndex
  OBVIOUS
<1>r. PICK r : r = w.rotation
  OBVIOUS
<1>o. PICK o : o = v.rotation
  OBVIOUS
<1>3. /\ n \in Nat /\ m \in Nat /\ n <= m /\ x \in Nat /\ m = Len(o) /\ n = Len(r)
      /\ (\A i \in 1..n : o[i] = r[i])
      /\ (\A i \in 1..m : o[i] \in Doc)
      /\ \A i, j \in 1..m : o[i] = o[j] => i = j
  <2>1. o \in Seq(Doc) /\ m = Len(o) /\ IsInjective(o) /\ n = Len(r)
    BY <1>1, <1>2, <1>n, <1>m, <1>r, <1>o, WorkTypes DEF RotationOK
  <2>2. \A i, j \in 1..m : o[i] = o[j] => i = j
    <3>1. DOMAIN o = 1..m
      BY <2>1
    <3> QED
      BY <2>1, <3>1 DEF IsInjective
  <2>3. m \in Nat /\ \A i \in 1..m : o[i] \in Doc
    BY <2>1
  <2>4. n \in Nat /\ x \in Nat
    BY <1>2, <1>n, <1>x, WorkTypes
  <2>5. Len(r) <= Len(o) /\ \A i \in 1..Len(r) : o[i] = r[i]
    BY <1>1, <1>r, <1>o DEF Extends
  <2> QED
    BY <2>1, <2>2, <2>3, <2>4, <2>5
<1>4. ASSUME NEW d, NEW a
      PROVE  /\ Since(v, d, a) = Since(w, d, a)
             /\ Cardinality(Since(w, d, a)) \in Nat
             /\ Since(w, d, a) = {} => Cardinality(Since(w, d, a)) = 0
  <2>1. Since(v, d, a) = Since(w, d, a)
    BY <1>1 DEF Since
  <2>o. PICK O : O = Since(w, d, a)
    OBVIOUS
  <2>2. O \in SUBSET w.started /\ IsFiniteSet(w.started)
    BY <1>2, <2>o DEF Since, RotationOK
  <2>3. Cardinality(O) \in Nat /\ (O = {} => Cardinality(O) = 0)
    BY <2>2, FS_Subset, FS_CardinalityType, FS_EmptySet
  <2> QED
    BY <2>1, <2>3, <2>o
<1>5. \A d : Since(w, d, task) = {}
  <2>1. \A s \in w.started : s.at \in Nat /\ s.at <= w.nextTaskId
    <3> TAKE s \in w.started
    <3>1. s.at \in 1..(MaxTasks + 1)
      BY <1>2, WorkTypes
    <3>2. s.at \in (s.task.id + 1)..w.nextTaskId
      BY <1>2 DEF TasksOK
    <3> QED
      BY <3>1, <3>2, SchedulerAssumption
  <2>2. \A s \in w.started : ~(s.at > task.id)
    BY <1>2, <2>1, WorkTypes
  <2> QED
    BY <2>2 DEF Since
<1>6. ASSUME NEW j \in 1..m, NEW k \in 1..m, NEW a \in ToSet(v.documentQueues[o[j]])
      PROVE  Cardinality(Since(v, o[k], a))
               <= Cardinality(Since(v, o[j], a)) + (IF Turn(v, k) < Turn(v, j) THEN 0 ELSE 1)
  <2>p. PICK p : p = o[j]
    OBVIOUS
  <2>q. PICK q : q = o[k]
    OBVIOUS
  <2>j. PICK cj : cj = Cardinality(Since(w, p, a))
    OBVIOUS
  <2>k. PICK ck : ck = Cardinality(Since(w, q, a))
    OBVIOUS
  <2>0. /\ cj \in Nat /\ ck \in Nat /\ (Since(w, q, a) = {} => ck = 0)
        /\ Since(v, p, a) = Since(w, p, a) /\ Since(v, q, a) = Since(w, q, a)
    BY <1>4, <2>j, <2>k
  <2> SUFFICES ck <= cj + (IF Turn(v, k) < Turn(v, j) THEN 0 ELSE 1)
    BY <2>0, <2>p, <2>q, <2>j, <2>k
  <2>1. CASE a = task
    <3>1. ck = 0
      BY <1>5, <2>0, <2>1
    <3> QED
      BY <2>0, <3>1
  <2>2. CASE a \in ToSet(w.documentQueues[o[j]])
    <3>1. PICK i \in 1..n : r[i] = o[j]
      <4>1. o[j] \in Doc /\ w.documentQueues[o[j]] # << >>
        BY <1>3, <2>2 DEF ToSet
      <4>2. Contains(r, o[j])
        BY <1>2, <1>r, <4>1 DEF QueuesOK
      <4> QED
        BY <1>3, <4>2 DEF Contains
    <3>2. i = j /\ j \in 1..n /\ r[j] = o[j]
      BY <1>3, <3>1
    <3>3. CASE k \in 1..n
      <4>1. o[k] = r[k]
        BY <1>3, <3>3
      <4>2. ck <= cj + (IF Turn(w, k) < Turn(w, j) THEN 0 ELSE 1)
        BY <1>2, <1>n, <1>r, <2>2, <2>p, <2>q, <2>j, <2>k, <3>2, <3>3, <4>1 DEF FairOK
      <4>3. Turn(v, k) < Turn(v, j) => Turn(w, k) < Turn(w, j)
        <5>1. /\ Turn(v, k) = TurnAt(m, x, k) /\ Turn(v, j) = TurnAt(m, x, j)
              /\ Turn(w, k) = TurnAt(n, x, k) /\ Turn(w, j) = TurnAt(n, x, j)
          BY <1>1, <1>n, <1>m, <1>x DEF Turn
        <5> QED
          BY <1>3, <3>2, <3>3, <5>1, TurnKept
      <4> QED
        BY <2>0, <4>2, <4>3
    <3>4. CASE k \notin 1..n
      <4>1. ~Contains(r, o[k])
        <5>1. \A z \in 1..n : z \in 1..m /\ r[z] = o[z]
          BY <1>3
        <5>2. \A z \in 1..n : r[z] # o[k]
          BY <1>3, <3>4, <5>1
        <5> QED
          BY <1>3, <5>2 DEF Contains
      <4>2. Since(w, o[k], a) = {}
        BY <1>2, <1>3, <1>r, <2>2, <4>1 DEF FairOK
      <4>3. ck = 0
        BY <2>0, <2>q, <4>2
      <4> QED
        BY <2>0, <4>3
    <3> QED
      BY <3>3, <3>4
  <2>3. a = task \/ a \in ToSet(w.documentQueues[o[j]])
    BY <1>1, <1>3
  <2> QED
    BY <2>1, <2>2, <2>3
<1>7. ASSUME NEW e \in Doc, NEW f \in Doc, NEW a \in ToSet(v.documentQueues[e]),
             ~Contains(o, f)
      PROVE  Since(v, f, a) = {}
  <2>1. ~Contains(r, f)
    <3>1. \A q \in 1..n : q \in 1..m /\ r[q] = o[q]
      BY <1>3
    <3> QED
      BY <1>3, <1>7, <3>1 DEF Contains
  <2>2. a = task \/ a \in ToSet(w.documentQueues[e])
    BY <1>1
  <2>3. a \in ToSet(w.documentQueues[e]) => Since(w, f, a) = {}
    BY <1>2, <1>r, <2>1 DEF FairOK
  <2>4. Since(w, f, a) = {}
    BY <1>5, <2>2, <2>3
  <2> QED
    BY <1>4, <2>4
<1>8. \A j, k \in 1..Len(v.rotation) : \A a \in ToSet(v.documentQueues[v.rotation[j]]) :
        Cardinality(Since(v, v.rotation[k], a))
          <= Cardinality(Since(v, v.rotation[j], a)) + (IF Turn(v, k) < Turn(v, j) THEN 0 ELSE 1)
  <2> TAKE j, k \in 1..Len(v.rotation)
  <2> TAKE a \in ToSet(v.documentQueues[v.rotation[j]])
  <2>1. j \in 1..m /\ k \in 1..m /\ a \in ToSet(v.documentQueues[o[j]])
    BY <1>m, <1>o
  <2>2. Cardinality(Since(v, o[k], a))
          <= Cardinality(Since(v, o[j], a)) + (IF Turn(v, k) < Turn(v, j) THEN 0 ELSE 1)
    BY <1>6, <2>1
  <2> QED
    BY <1>o, <2>2
<1> QED
  BY <1>7, <1>8, <1>o DEF FairOK

LEMMA EnqueueKeeps ==
  ASSUME PolicyOK(policy), NEW w, CoreInv(w, policy), NEW task \in Task, task.id = w.nextTaskId,
         NEW v, v = enqueue(task, [w EXCEPT !.nextTaskId = @ + 1])
  PROVE  CoreInv(v, policy)
<1>1. /\ RotationOK(v) /\ QueuesOK(v, policy)
      /\ Tasks(v) = Tasks(w) \cup {task}
      /\ v.nextTaskId = w.nextTaskId + 1 /\ v.started = w.started
      /\ v.currentTask = w.currentTask
  BY EnqueueIs
<1>2. /\ w \in Work /\ TasksOK(w) /\ WorkersOK(w) /\ OrderOK(w, policy)
      /\ w.nextTaskId \in Nat /\ Tasks(w) \subseteq Task /\ Begun(w) \subseteq Task
  <2>1. w \in Work
    BY DEF CoreInv, RotationOK
  <2> QED
    BY <2>1, WorkTypes DEF CoreInv
<1>3. Begun(v) = Begun(w)
  BY <1>1 DEF Begun
<1>4. \A a \in Tasks(w) \cup Begun(w) : a.id \in Nat /\ a.id < task.id
  BY <1>2, TaskType DEF TasksOK
<1>5. task.id \in Nat
  BY TaskType
<1>6. TasksOK(v)
  <2>1. \A a, b \in Tasks(v) \cup Begun(v) : a.id = b.id => a = b
    BY <1>1, <1>2, <1>3, <1>4, <1>5 DEF TasksOK
  <2>2. \A a \in Tasks(v) \cup Begun(v) : a.id < v.nextTaskId
    BY <1>1, <1>2, <1>3, <1>4, <1>5
  <2>3. \A n \in 1..(v.nextTaskId - 1) : \E a \in Tasks(v) \cup Begun(v) : a.id = n
    <3> TAKE n \in 1..(v.nextTaskId - 1)
    <3>1. n = task.id \/ n \in 1..(w.nextTaskId - 1)
      BY <1>1, <1>2
    <3> QED
      BY <1>1, <1>2, <1>3, <3>1 DEF TasksOK
  <2>4. Tasks(v) \cap Begun(v) = {}
    BY <1>1, <1>2, <1>3, <1>4, <1>5 DEF TasksOK
  <2>5. \A s, r \in v.started : s.task = r.task => s = r
    BY <1>1, <1>2 DEF TasksOK
  <2>6. \A s \in v.started : s.at \in (s.task.id + 1)..v.nextTaskId
    <3> TAKE s \in v.started
    <3>1. s.at \in (s.task.id + 1)..w.nextTaskId
      BY <1>1, <1>2 DEF TasksOK
    <3>2. s.task.id \in Nat
      BY <1>1, <1>4 DEF Begun
    <3> QED
      BY <1>1, <1>2, <3>1, <3>2
  <2> QED
    BY <2>1, <2>2, <2>3, <2>4, <2>5, <2>6 DEF TasksOK
<1>7. WorkersOK(v)
  BY <1>1, <1>2, <1>3 DEF WorkersOK
<1>8. OrderOK(v, policy)
  <2> SUFFICES ASSUME NEW a \in Tasks(v), NEW b \in Begun(v),
                      b.id > a.id, b.doc = a.doc \/ policy = "FIFO"
               PROVE  b.priority /\ ~a.priority
    BY DEF OrderOK
  <2>1. a # task
    BY <1>3, <1>4, <1>5
  <2> QED
    BY <1>1, <1>2, <1>3, <2>1 DEF OrderOK
<1>9. FairOK(v)
  BY EnqueueFair
<1> QED
  BY <1>1, <1>6, <1>7, <1>8, <1>9 DEF CoreInv

(* The end of a task frees its worker. *)
LEMMA FreedKeeps ==
  ASSUME NEW p, NEW w, CoreInv(w, p), NEW i \in Pool,
         NEW v, v = [w EXCEPT !.currentTask[i] = Idle]
  PROVE  CoreInv(v, p)
<1>1. w \in Work
  BY DEF CoreInv, RotationOK
<1>2. /\ v \in Work /\ v.nextTaskId = w.nextTaskId /\ v.queue = w.queue
      /\ v.documentQueues = w.documentQueues /\ v.rotation = w.rotation
      /\ v.rotationIndex = w.rotationIndex /\ v.started = w.started
      /\ v.currentTask = [w.currentTask EXCEPT ![i] = Idle]
  BY <1>1 DEF Work
<1>3. Tasks(v) = Tasks(w) /\ Begun(v) = Begun(w)
  BY <1>2 DEF Tasks, Begun
<1>4. RotationOK(v) /\ QueuesOK(v, p)
  BY <1>2 DEF CoreInv, RotationOK, QueuesOK
<1>5. TasksOK(v)
  BY <1>2, <1>3 DEF CoreInv, TasksOK
<1>6. v.currentTask[i] = Idle /\ \A j \in Pool : j # i => v.currentTask[j] = w.currentTask[j]
  BY <1>1, <1>2, WorkTypes
<1>7. WorkersOK(v)
  BY <1>3, <1>6 DEF CoreInv, WorkersOK
<1>8. OrderOK(v, p)
  BY <1>3 DEF CoreInv, OrderOK
<1>9. FairOK(v)
  <2>1. \A x, a : Since(v, x, a) = Since(w, x, a)
    BY <1>2 DEF Since
  <2>2. \A k : Turn(v, k) = Turn(w, k)
    BY <1>2 DEF Turn
  <2>3. FairOK(w) /\ v.rotation = w.rotation /\ v.documentQueues = w.documentQueues
    BY <1>2 DEF CoreInv
  <2>4. \A j, k \in 1..Len(v.rotation) : \A a \in ToSet(v.documentQueues[v.rotation[j]]) :
          Cardinality(Since(v, v.rotation[k], a))
            <= Cardinality(Since(v, v.rotation[j], a)) + (IF Turn(v, k) < Turn(v, j) THEN 0 ELSE 1)
    <3> TAKE j, k \in 1..Len(v.rotation)
    <3> TAKE a \in ToSet(v.documentQueues[v.rotation[j]])
    <3>1. Cardinality(Since(w, w.rotation[k], a))
            <= Cardinality(Since(w, w.rotation[j], a)) + (IF Turn(w, k) < Turn(w, j) THEN 0 ELSE 1)
      BY <2>3 DEF FairOK
    <3> QED
      BY <2>1, <2>2, <2>3, <3>1
  <2>5. \A d, e \in Doc : \A a \in ToSet(v.documentQueues[d]) :
          ~Contains(v.rotation, e) => Since(v, e, a) = {}
    BY <2>1, <2>3 DEF FairOK
  <2> QED
    BY <2>4, <2>5 DEF FairOK
<1> QED
  BY <1>4, <1>5, <1>7, <1>8, <1>9 DEF CoreInv

-----------------------------------------------------------------------------
(* The loop of dispatch. *)

(* Nothing is left for the loop to do. *)
Done(w) == ~HasTasks(w) \/ IdleWorkers(w) = {}

LEMMA PairedKeeps ==
  ASSUME PolicyOK(policy), NEW w, CoreInv(w, policy)
  PROVE  CoreInv(Paired(w), policy)
<1>1. CASE Done(w)
  <2>1. Paired(w) = w
    BY <1>1 DEF Paired, Done
  <2> QED
    BY <2>1
<1>2. CASE ~Done(w)
  <2>1. PICK v : v = Paired(w)
    OBVIOUS
  <2>2. Served(w, v, policy)
    BY <1>2, <2>1, PairedIs DEF Done
  <2> QED
    BY <2>1, <2>2, ServedKeeps
<1> QED
  BY <1>1, <1>2

(* Rounds(f, w): f numbers the rounds of a dispatch of w. *)
Rounds(f, w) ==
  f = [n \in 0..Workers |-> IF n = 0 THEN w ELSE Paired(f[n - 1])]

LEMMA DispatchRounds ==
  ASSUME PolicyOK(policy), NEW w, CoreInv(w, policy)
  PROVE  \E f : /\ Rounds(f, w) /\ dispatch(w, TRUE) = f[Workers]
                /\ \A n \in 0..Workers : CoreInv(f[n], policy)
<1>0. Workers \in Nat
  BY SchedulerAssumption
<1>v. PICK V : V = {u \in Work : CoreInv(u, policy)}
  OBVIOUS
<1>i. \A u : u \in V <=> CoreInv(u, policy)
  BY <1>v DEF CoreInv, RotationOK
<1>1. \E f : Rounds(f, w)
  <2>1. PICK step : step = [x \in (1..Workers) \X V |-> Paired(x[2])]
    OBVIOUS
  <2>2. \A u \in V : Paired(u) \in V
    BY <1>i, PairedKeeps
  <2>3. IntervalStep(step, Workers, V)
    BY <2>1, <2>2 DEF IntervalStep
  <2>4. PICK f : SolvesOnInterval(f, Workers, V, w, step)
    BY <1>0, <1>i, <2>3, IntervalRecursion
  <2>5. /\ f \in [0..Workers -> V]
        /\ \A n \in 0..Workers : f[n] = IF n = 0 THEN w ELSE step[<<n, f[n - 1]>>]
    BY <2>4 DEF SolvesOnInterval
  <2>6. ASSUME NEW n \in 0..Workers, n # 0
        PROVE  f[n] = Paired(f[n - 1])
    <3>1. n \in 1..Workers /\ n - 1 \in 0..Workers
      BY <1>0, <2>6
    <3>2. f[n - 1] \in V
      BY <2>5, <3>1
    <3>3. step[<<n, f[n - 1]>>] = Paired(f[n - 1])
      BY <2>1, <3>1, <3>2
    <3> QED
      BY <2>5, <2>6, <3>3
  <2>7. \A n \in 0..Workers : f[n] = IF n = 0 THEN w ELSE Paired(f[n - 1])
    BY <2>5, <2>6
  <2>8. f = [n \in 0..Workers |-> f[n]]
    BY <2>5
  <2> QED
    BY <2>7, <2>8 DEF Rounds
<1>2. PICK f : f = CHOOSE g : g = [n \in 0..Workers |-> IF n = 0 THEN w ELSE Paired(g[n - 1])]
  OBVIOUS
<1>3. Rounds(f, w)
  BY <1>1, <1>2 DEF Rounds
<1>4. dispatch(w, TRUE) = f[Workers]
  BY <1>2 DEF dispatch
<1>5. \A n \in 0..Workers : f[n] \in V
  <2>1. PICK T : T = {n \in 0..Workers : f[n] \in V}
    OBVIOUS
  <2>2. \A n \in 0..Workers : f[n] = IF n = 0 THEN w ELSE Paired(f[n - 1])
    BY <1>3 DEF Rounds
  <2>3. 0 \in T
    BY <1>0, <1>i, <2>1, <2>2
  <2>4. ASSUME NEW n \in 1..Workers, n - 1 \in T
        PROVE  n \in T
    <3>1. n \in 0..Workers /\ n # 0
      BY <1>0
    <3>2. f[n] = Paired(f[n - 1])
      BY <2>2, <3>1
    <3>3. f[n] \in V
      BY <1>i, <2>1, <2>4, <3>2, PairedKeeps
    <3> QED
      BY <2>1, <3>1, <3>3
  <2>5. \A n \in 0..Workers : n \in T
    BY <1>0, <2>3, <2>4, IntervalInduction
  <2> QED
    BY <2>1, <2>5
<1> QED
  BY <1>3, <1>4, <1>5, <1>i

(* Each round that serves a task leaves one idle worker less. *)
LEMMA ServedUsesWorker ==
  ASSUME NEW p, NEW w, w \in Work, NEW v, Served(w, v, p), NEW h, NEW i, Taken(w, v, i, h), h \in Task
  PROVE  /\ IsFiniteSet(IdleWorkers(w))
         /\ Cardinality(IdleWorkers(v)) + 1 = Cardinality(IdleWorkers(w))
         /\ Cardinality(IdleWorkers(v)) \in Nat
<1>0. i \in Pool /\ w.currentTask[i] = Idle /\ v.currentTask = [w.currentTask EXCEPT ![i] = h]
      /\ w.currentTask \in [Pool -> Task \cup {Idle}]
  BY WorkTypes DEF Taken
<1>1. h # Idle
  BY TaskType DEF Idle, Task, TaskId
<1>2. v.currentTask[i] = h /\ \A j \in Pool : j # i => v.currentTask[j] = w.currentTask[j]
  BY <1>0
<1>x. PICK X : X = IdleWorkers(w)
  OBVIOUS
<1>y. PICK Y : Y = IdleWorkers(v)
  OBVIOUS
<1>3. i \in X /\ Y = X \ {i}
  BY <1>0, <1>1, <1>2, <1>x, <1>y DEF IdleWorkers
<1>4. IsFiniteSet(X)
  <2>1. PICK N : N = Pool
    OBVIOUS
  <2>2. IsFiniteSet(N)
    BY <2>1, SchedulerAssumption, FS_Interval DEF Pool
  <2>3. X \in SUBSET N
    BY <1>x, <2>1 DEF IdleWorkers
  <2> QED
    BY <2>2, <2>3, FS_Subset
<1>5. Cardinality(X \ {i}) = Cardinality(X) - 1 /\ Cardinality(X) \in Nat /\ IsFiniteSet(X \ {i})
  BY <1>3, <1>4, FS_RemoveElement, FS_CardinalityType
<1>6. Cardinality(X \ {i}) \in Nat
  BY <1>5, FS_CardinalityType
<1>7. Cardinality(Y) = Cardinality(X) - 1 /\ Cardinality(Y) \in Nat /\ Cardinality(X) \in Nat
  BY <1>3, <1>5, <1>6
<1>8. Cardinality(Y) + 1 = Cardinality(X)
  BY <1>7
<1> QED
  BY <1>4, <1>7, <1>8, <1>x, <1>y

(* dispatch keeps the invariant and leaves nothing to do. *)
LEMMA DispatchIs ==
  ASSUME PolicyOK(policy), NEW w, CoreInv(w, policy)
  PROVE  CoreInv(dispatch(w, TRUE), policy) /\ Done(dispatch(w, TRUE))
<1>0. Workers \in Nat
  BY SchedulerAssumption
<1>1. PICK f : /\ Rounds(f, w) /\ dispatch(w, TRUE) = f[Workers]
               /\ \A n \in 0..Workers : CoreInv(f[n], policy)
  BY DispatchRounds
<1>2. \A n \in 0..Workers : f[n] = IF n = 0 THEN w ELSE Paired(f[n - 1])
  BY <1>1 DEF Rounds
<1>3. \A u : CoreInv(u, policy) =>
               IsFiniteSet(IdleWorkers(u)) /\ Cardinality(IdleWorkers(u)) \in 0..Workers
  <2> TAKE u
  <2> SUFFICES ASSUME CoreInv(u, policy)
               PROVE  IsFiniteSet(IdleWorkers(u)) /\ Cardinality(IdleWorkers(u)) \in 0..Workers
    OBVIOUS
  <2>1. PICK N : N = 0..(Workers - 1)
    OBVIOUS
  <2>2. IsFiniteSet(N) /\ Cardinality(N) = Workers
    BY <1>0, <2>1, FS_Interval, SchedulerAssumption
  <2>3. PICK X : X = IdleWorkers(u)
    OBVIOUS
  <2>4. X \in SUBSET N
    BY <2>1, <2>3 DEF IdleWorkers, Pool
  <2>5. IsFiniteSet(X) /\ Cardinality(X) <= Cardinality(N)
    BY <2>2, <2>4, FS_Subset
  <2>6. Cardinality(X) \in Nat
    BY <2>5, FS_CardinalityType
  <2> QED
    BY <1>0, <2>2, <2>3, <2>5, <2>6
<1>4. PICK T : T = {n \in 0..Workers : Done(f[n]) \/ Cardinality(IdleWorkers(f[n])) + n <= Workers}
  OBVIOUS
<1>5. 0 \in T
  BY <1>0, <1>1, <1>3, <1>4
<1>6. ASSUME NEW n \in 1..Workers, n - 1 \in T
      PROVE  n \in T
  <2>u. PICK u : u = f[n - 1]
    OBVIOUS
  <2>v. PICK v : v = f[n]
    OBVIOUS
  <2>1. n \in 0..Workers /\ n - 1 \in 0..Workers /\ n # 0 /\ v = Paired(u) /\ CoreInv(u, policy)
    BY <1>0, <1>1, <1>2, <2>u, <2>v
  <2>2. CASE Done(u)
    <3>1. v = u
      BY <2>1, <2>2 DEF Paired, Done
    <3> QED
      BY <1>4, <2>1, <2>2, <2>v, <3>1
  <2>3. CASE ~Done(u)
    <3>1. Served(u, v, policy)
      BY <2>1, <2>3, PairedIs DEF Done
    <3>2. PICK i, h : /\ Taken(u, v, i, h)
                      /\ policy = "FIFO" => FifoTurn(u, v, h)
                      /\ policy = "ROUND_ROBIN" => \E r : RobinTurn(u, v, h, r)
      BY <3>1 DEF Served
    <3>3. h \in Task /\ u \in Work
      <4>1. h \in Tasks(u) /\ u \in Work
        BY <2>1, <3>2, ServedFacts DEF CoreInv, RotationOK
      <4> QED
        BY <4>1, WorkTypes
    <3>4. /\ Cardinality(IdleWorkers(v)) + 1 = Cardinality(IdleWorkers(u))
          /\ Cardinality(IdleWorkers(v)) \in Nat
      BY <3>1, <3>2, <3>3, ServedUsesWorker
    <3>5. Cardinality(IdleWorkers(u)) + (n - 1) <= Workers
      BY <1>4, <1>6, <2>3, <2>u
    <3>6. Cardinality(IdleWorkers(v)) + n <= Workers
      BY <1>0, <3>4, <3>5
    <3> QED
      BY <1>4, <2>1, <2>v, <3>6
  <2> QED
    BY <2>2, <2>3
<1>7. Workers \in T
  <2>1. \A n \in 0..Workers : n \in T
    BY <1>0, <1>5, <1>6, IntervalInduction
  <2> QED
    BY <1>0, <2>1
<1>8. CoreInv(f[Workers], policy)
  BY <1>0, <1>1
<1>9. Done(f[Workers])
  <2>x. PICK X : X = IdleWorkers(f[Workers])
    OBVIOUS
  <2>1. IsFiniteSet(X) /\ Cardinality(X) \in Nat
    BY <1>3, <1>8, <2>x
  <2>2. Done(f[Workers]) \/ Cardinality(X) + Workers <= Workers
    BY <1>4, <1>7, <2>x
  <2>3. Cardinality(X) = 0 => X = {}
    BY <2>1, FS_EmptySet
  <2> QED
    BY <1>0, <2>1, <2>2, <2>3, <2>x DEF Done
<1> QED
  BY <1>1, <1>8, <1>9

-----------------------------------------------------------------------------
(* The invariant. *)
SchedInv ==
  /\ PolicyOK(policy) /\ running \in BOOLEAN
  /\ CoreInv(work, policy)
  /\ running => Tasks(work) = {} \/ IdleWorkers(work) = {}

LEMMA NoTasks ==
  ASSUME NEW p, PolicyOK(p), NEW w, w \in Work, QueuesOK(w, p),
         p = "FIFO" => w.queue = << >>,
         p = "ROUND_ROBIN" => \A d \in Doc : w.documentQueues[d] = << >>
  PROVE  Tasks(w) = {} /\ w.queue = << >> /\ \A d \in Doc : w.documentQueues[d] = << >>
<1>1. w.queue = << >> /\ \A d \in Doc : w.documentQueues[d] = << >>
  BY DEF PolicyOK, QueuesOK
<1>2. ToSet(w.queue) = {} /\ \A d \in Doc : ToSet(w.documentQueues[d]) = {}
  BY <1>1 DEF ToSet
<1> QED
  BY <1>1, <1>2 DEF Tasks

LEMMA NothingQueued ==
  ASSUME PolicyOK(policy), NEW w, CoreInv(w, policy), ~HasTasks(w)
  PROVE  Tasks(w) = {} /\ w.queue = << >> /\ \A d \in Doc : w.documentQueues[d] = << >>
<1>1. /\ policy = "FIFO" => w.queue = << >>
      /\ policy = "ROUND_ROBIN" => \A d \in Doc : w.documentQueues[d] = << >>
  BY DEF HasTasks
<1> QED
  BY <1>1, NoTasks DEF CoreInv, RotationOK

LEMMA InitInv == Init => SchedInv
<1> SUFFICES ASSUME Init PROVE SchedInv
  OBVIOUS
<1>1. /\ work.nextTaskId = 1 /\ work.queue = << >> /\ (\A d \in Doc : work.documentQueues[d] = << >>)
      /\ work.rotation = << >> /\ work.rotationIndex = 0
      /\ (\A i \in Pool : work.currentTask[i] = Idle)
      /\ work.cursor = 0 /\ work.started = {}
      /\ PolicyOK(policy) /\ running = FALSE
  BY DEF Init, PolicyOK
<1>2. work \in Work
  <2>1. 1 \in 1..(MaxTasks + 1) /\ 0 \in Pool
    BY SchedulerAssumption DEF Pool
  <2> QED
    BY <2>1 DEF Init, Work
<1>3. Tasks(work) = {} /\ Begun(work) = {}
  BY <1>1 DEF Tasks, Begun, ToSet
<1>4. RotationOK(work)
  BY <1>1, <1>2, FS_EmptySet DEF RotationOK, IsInjective
<1>5. QueuesOK(work, policy)
  <2>1. ToSet(<< >>) = {} /\ Sorted(<< >>)
    BY DEF ToSet, Sorted
  <2> QED
    BY <1>1, <2>1 DEF QueuesOK
<1>6. TasksOK(work)
  BY <1>1, <1>3 DEF TasksOK
<1>7. WorkersOK(work) /\ OrderOK(work, policy)
  BY <1>1, <1>3 DEF WorkersOK, OrderOK
<1>8. FairOK(work)
  BY <1>1 DEF FairOK, ToSet
<1> QED
  BY <1>1, <1>4, <1>5, <1>6, <1>7, <1>8 DEF SchedInv, CoreInv

LEMMA DispatchOn ==
  ASSUME PolicyOK(policy), NEW w, CoreInv(w, policy), NEW on \in BOOLEAN,
         NEW v, v = dispatch(w, on)
  PROVE  CoreInv(v, policy) /\ (on => Tasks(v) = {} \/ IdleWorkers(v) = {})
<1>1. CASE on
  <2>1. CoreInv(v, policy) /\ Done(v)
    BY <1>1, DispatchIs
  <2>2. Tasks(v) = {} \/ IdleWorkers(v) = {}
    BY <2>1, NothingQueued DEF Done
  <2> QED
    BY <2>1, <2>2
<1>2. CASE ~on
  BY <1>2 DEF dispatch
<1> QED
  BY <1>1, <1>2

LEMMA StepInv == SchedInv /\ [Next]_vars => SchedInv'
<1> SUFFICES ASSUME SchedInv, [Next]_vars PROVE SchedInv'
  OBVIOUS
<1>0. /\ PolicyOK(policy) /\ running \in BOOLEAN /\ CoreInv(work, policy)
      /\ running => Tasks(work) = {} \/ IdleWorkers(work) = {}
  BY DEF SchedInv
<1>i. ASSUME NEW w, CoreInv(w, policy), NEW on \in BOOLEAN, work' = dispatch(w, on),
             policy' = policy, running' = on
      PROVE  SchedInv'
  <2>1. CoreInv(work', policy) /\ (on => Tasks(work') = {} \/ IdleWorkers(work') = {})
    BY <1>0, <1>i, DispatchOn
  <2> QED
    BY <1>0, <1>i, <2>1 DEF SchedInv
<1>1. ASSUME NEW kind \in Kinds, submit(kind[1], kind[2])
      PROVE  SchedInv'
  <2>k. PICK task : task = [id |-> work.nextTaskId, doc |-> kind[1], priority |-> kind[2]]
    OBVIOUS
  <2>w. PICK w : w = enqueue(task, [work EXCEPT !.nextTaskId = @ + 1])
    OBVIOUS
  <2>1. /\ task.id <= MaxTasks /\ work' = dispatch(w, running)
        /\ policy' = policy /\ running' = running
    BY <1>1, <2>k, <2>w DEF submit
  <2>2. work.nextTaskId \in Nat \ {0}
    BY <1>0, WorkTypes DEF CoreInv, RotationOK
  <2>3. task \in Task /\ task.id = work.nextTaskId
    <3>1. kind[1] \in Doc /\ kind[2] \in BOOLEAN
      BY SchedulerAssumption
    <3> QED
      BY <2>1, <2>2, <2>k, <3>1, SchedulerAssumption DEF Task, TaskId
  <2>4. CoreInv(w, policy)
    BY <1>0, <2>3, <2>w, EnqueueKeeps
  <2> QED
    BY <1>0, <1>i, <2>1, <2>4
<1>2. CASE start
  BY <1>0, <1>2, <1>i DEF start
<1>3. CASE stop
  BY <1>0, <1>3 DEF stop, SchedInv
<1>4. ASSUME NEW p \in {"FIFO", "ROUND_ROBIN"}, setPolicy(p)
      PROVE  SchedInv'
  <2>1. work' = work /\ policy' = p /\ running' = running /\ ~HasTasks(work)
    BY <1>4 DEF setPolicy
  <2>2. /\ Tasks(work) = {} /\ work.queue = << >>
        /\ \A d \in Doc : work.documentQueues[d] = << >>
    BY <1>0, <2>1, NothingQueued
  <2>3. QueuesOK(work, p)
    BY <1>0, <2>2 DEF CoreInv, QueuesOK
  <2>4. OrderOK(work, p)
    BY <2>2 DEF OrderOK
  <2>5. CoreInv(work, p)
    BY <1>0, <2>3, <2>4 DEF CoreInv
  <2> QED
    BY <1>0, <2>1, <2>2, <2>5 DEF SchedInv, PolicyOK
<1>5. ASSUME NEW i \in Pool, finish(i)
      PROVE  SchedInv'
  <2>w. PICK w : w = [work EXCEPT !.currentTask[i] = Idle]
    OBVIOUS
  <2>1. work' = dispatch(w, running) /\ policy' = policy /\ running' = running
    BY <1>5, <2>w DEF finish
  <2>2. CoreInv(w, policy)
    BY <1>0, <2>w, FreedKeeps
  <2> QED
    BY <1>0, <1>i, <2>1, <2>2
<1>6. CASE UNCHANGED vars
  BY <1>0, <1>6 DEF vars, SchedInv
<1> QED
  BY <1>1, <1>2, <1>3, <1>4, <1>5, <1>6 DEF Next

LEMMA SchedSafe == SchedSpec => []SchedInv
BY InitInv, StepInv, PTL DEF SchedSpec

(* Types, and the rotation names each document once (module Scheduler). *)
THEOREM SchedTypeCorrect == SchedSpec => []SchedTypeOK
<1>1. SchedInv => SchedTypeOK
  <2> SUFFICES ASSUME SchedInv PROVE SchedTypeOK
    OBVIOUS
  <2>1. CoreInv(work, policy) /\ PolicyOK(policy) /\ running \in BOOLEAN
    BY DEF SchedInv
  <2>2. work \in Work /\ IsInjective(work.rotation)
    BY <2>1 DEF CoreInv, RotationOK
  <2>3. work.rotationIndex <= Len(work.rotation)
    BY <2>1, <2>2, WorkTypes DEF CoreInv, RotationOK
  <2>4. \A s \in work.started : s.at \in (s.task.id + 1)..work.nextTaskId
    BY <2>1 DEF CoreInv, TasksOK
  <2> QED
    BY <2>1, <2>2, <2>3, <2>4 DEF SchedTypeOK, PolicyOK
<1> QED
  BY <1>1, SchedSafe, PTL

LEMMA QueuedAreTasks == QueuedTasks = Tasks(work) /\ Started = Begun(work)
<1>1. \A a : a \in QueuedTasks <=> \E q \in Queues : a \in ToSet(q)
  BY DEF QueuedTasks
<1>2. \A q : q \in Queues <=> q = work.queue \/ \E d \in Doc : q = work.documentQueues[d]
  BY DEF Queues
<1>3. \A a : a \in Tasks(work) <=>
               a \in ToSet(work.queue) \/ \E d \in Doc : a \in ToSet(work.documentQueues[d])
  BY DEF Tasks
<1>4. QueuedTasks = Tasks(work)
  BY <1>1, <1>2, <1>3
<1> QED
  BY <1>4 DEF Started, Begun

(* No idle worker while tasks wait and the scheduler runs: dispatch after    *)
(* each call and each end of a task makes rounds enough.                     *)
THEOREM WorkIsConserved == SchedSpec => []WorkConserving
<1>1. SchedInv => WorkConserving
  BY QueuedAreTasks DEF SchedInv, WorkConserving
<1> QED
  BY <1>1, SchedSafe, PTL

(* No later task of its queue starts before a waiting one, but a priority    *)
(* task before a normal one.                                                 *)
THEOREM ArrivalOrderIsKept == SchedSpec => []ServedInOrder
<1>1. SchedInv => ServedInOrder
  BY QueuedAreTasks DEF SchedInv, CoreInv, OrderOK, ServedInOrder
<1> QED
  BY <1>1, SchedSafe, PTL

-----------------------------------------------------------------------------
(* No task is lost or run twice. *)

(* The places of a queue with identifier t. *)
At(q, t) == {i \in 1..Len(q) : q[i].id = t}

IdsDiffer(q) == \A a, b \in ToSet(q) : a.id = b.id => a = b

OnceIn(q, t, P) ==
  /\ (\E a \in ToSet(q) : a.id = t) => \E i : P = {i}
  /\ (\A a \in ToSet(q) : a.id # t) => P = {}

LEMMA OnePlace ==
  ASSUME NEW q \in Seq(Task), Sorted(q), NEW t, IdsDiffer(q)
  PROVE  OnceIn(q, t, At(q, t))
<1>d. PICK P : P = At(q, t)
  OBVIOUS
<1>1. \A i \in 1..Len(q) : q[i] \in ToSet(q)
  BY SetIs
<1>p. P = {i \in 1..Len(q) : q[i].id = t}
  BY <1>d DEF At
<1>2. ASSUME NEW a \in ToSet(q), a.id = t
      PROVE  \E i : P = {i}
  <2>1. PICK i \in 1..Len(q) : q[i] = a
    BY SetIs
  <2>2. ASSUME NEW j \in P
        PROVE  j = i
    <3>1. j \in 1..Len(q) /\ q[j] = a
      BY <1>1, <1>2, <1>p, <2>1 DEF IdsDiffer
    <3>2. ~Before(a, a)
      <4>1. a \in Task
        BY <3>1, SetIs
      <4> QED
        BY <4>1, TaskType DEF Before
    <3>3. ~(i < j) /\ ~(j < i)
      BY <2>1, <3>1, <3>2 DEF Sorted
    <3> QED
      BY <3>1, <3>3
  <2>3. i \in P
    BY <1>2, <1>p, <2>1
  <2>4. P = {i}
    BY <2>2, <2>3
  <2> QED
    BY <2>4
<1>3. (\A a \in ToSet(q) : a.id # t) => P = {}
  BY <1>1, <1>p
<1> QED
  BY <1>2, <1>3, <1>d DEF OnceIn

(* RunsOnce for one identifier and one state of the queues. *)
LEMMA OnceEach ==
  ASSUME NEW p, PolicyOK(p), NEW w, CoreInv(w, p), NEW t \in TaskId,
         NEW Q, Q = At(w.queue, t),
         NEW D, D = UNION {{d} \X At(w.documentQueues[d], t) : d \in Doc},
         NEW S, S = {s \in w.started : s.task.id = t}
  PROVE  Cardinality(Q) + Cardinality(D) + Cardinality(S) = IF t < w.nextTaskId THEN 1 ELSE 0
<1>0. /\ w \in Work /\ QueuesOK(w, p) /\ TasksOK(w)
      /\ w.nextTaskId \in Nat /\ w.queue \in Seq(Task)
      /\ (\A d \in Doc : w.documentQueues[d] \in Seq(Task))
      /\ t \in Nat \ {0}
  <2>1. w \in Work
    BY DEF CoreInv, RotationOK
  <2>2. t \in Nat \ {0}
    BY SchedulerAssumption DEF TaskId
  <2> QED
    BY <2>1, <2>2, WorkTypes DEF CoreInv
<1>1. \A a, b \in Tasks(w) \cup Begun(w) : a.id = b.id => a = b
  BY <1>0 DEF TasksOK
<1>a. PICK A : A = ToSet(w.queue)
  OBVIOUS
<1>2. A \subseteq Tasks(w) /\ \A d \in Doc : ToSet(w.documentQueues[d]) \subseteq Tasks(w)
  BY <1>a DEF Tasks
<1>3. /\ (\E a \in A : a.id = t) => \E i : Q = {i}
      /\ (\A a \in A : a.id # t) => Q = {}
  <2>1. Sorted(w.queue) /\ IdsDiffer(w.queue)
    BY <1>0, <1>1, <1>2, <1>a DEF QueuesOK, IdsDiffer
  <2>2. OnceIn(w.queue, t, Q)
    BY <1>0, <2>1, OnePlace
  <2> QED
    BY <1>a, <2>2 DEF OnceIn
<1>4. ASSUME NEW d \in Doc
      PROVE  /\ (\E a \in ToSet(w.documentQueues[d]) : a.id = t)
                => \E i : At(w.documentQueues[d], t) = {i}
             /\ (\A a \in ToSet(w.documentQueues[d]) : a.id # t)
                => At(w.documentQueues[d], t) = {}
  <2>1. Sorted(w.documentQueues[d]) /\ IdsDiffer(w.documentQueues[d])
    BY <1>0, <1>1, <1>2 DEF QueuesOK, IdsDiffer
  <2>2. OnceIn(w.documentQueues[d], t, At(w.documentQueues[d], t))
    BY <1>0, <2>1, OnePlace
  <2> QED
    BY <2>2 DEF OnceIn
<1>5. (\A d \in Doc : \A a \in ToSet(w.documentQueues[d]) : a.id # t) => D = {}
  BY <1>4
<1>6. ASSUME NEW d \in Doc, NEW a \in ToSet(w.documentQueues[d]), a.id = t
      PROVE  \E x : D = {x}
  <2>1. PICK i : At(w.documentQueues[d], t) = {i}
    BY <1>4, <1>6
  <2>2. ASSUME NEW e \in Doc, e # d
        PROVE  At(w.documentQueues[e], t) = {}
    <3>1. \A b \in ToSet(w.documentQueues[e]) : b.id # t
      <4> TAKE b \in ToSet(w.documentQueues[e])
      <4>1. b.doc = e /\ a.doc = d
        BY <1>0 DEF QueuesOK
      <4> QED
        BY <1>1, <1>2, <1>6, <2>2, <4>1
    <3> QED
      BY <1>4, <3>1
  <2>3. D = {<<d, i>>}
    BY <2>1, <2>2
  <2> QED
    BY <2>3
<1>7. /\ (\A s \in w.started : s.task.id # t) => S = {}
      /\ \A s \in w.started : s.task.id = t => S = {s}
  <2>1. \A s \in w.started : s.task \in Begun(w)
    BY DEF Begun
  <2>2. \A s, r \in w.started : s.task.id = t /\ r.task.id = t => s = r
    BY <1>0, <1>1, <2>1 DEF TasksOK
  <2> QED
    BY <2>2
<1>8. \A a : a \in Tasks(w) <=> a \in A \/ \E d \in Doc : a \in ToSet(w.documentQueues[d])
  BY <1>a DEF Tasks
<1>9. \A a : a \in Begun(w) <=> \E s \in w.started : s.task = a
  BY DEF Begun
<1>10. \A X : (X = {} => Cardinality(X) = 0) /\ \A x : X = {x} => Cardinality(X) = 1
  BY FS_EmptySet, FS_Singleton
<1>c. PICK cq, cd, cs : cq = Cardinality(Q) /\ cd = Cardinality(D) /\ cs = Cardinality(S)
  OBVIOUS
<1>z. (Q = {} => cq = 0) /\ (D = {} => cd = 0) /\ (S = {} => cs = 0)
  BY <1>10, <1>c
<1>o. \A x : (Q = {x} => cq = 1) /\ (D = {x} => cd = 1) /\ (S = {x} => cs = 1)
  BY <1>10, <1>c
<1> SUFFICES cq + cd + cs = IF t < w.nextTaskId THEN 1 ELSE 0
  BY <1>c
<1>11. CASE t < w.nextTaskId
  <2>1. PICK a \in Tasks(w) \cup Begun(w) : a.id = t
    <3>1. t \in 1..(w.nextTaskId - 1)
      BY <1>0, <1>11
    <3> QED
      BY <1>0, <3>1 DEF TasksOK
  <2>2. \A b \in Tasks(w) \cup Begun(w) : b.id = t => b = a
    BY <1>1, <2>1
  <2>3. CASE a \in A
    <3>1. PICK x : Q = {x}
      BY <1>3, <2>1, <2>3
    <3>2. D = {}
      <4>1. w.queue # << >>
        BY <1>a, <2>3 DEF ToSet
      <4>2. \A d \in Doc : w.documentQueues[d] = << >>
        BY <1>0, <4>1 DEF QueuesOK, PolicyOK
      <4>3. \A d \in Doc : ToSet(w.documentQueues[d]) = {}
        BY <4>2 DEF ToSet
      <4> QED
        BY <1>5, <4>3
    <3>3. S = {}
      <4>1. a \in Tasks(w) /\ Tasks(w) \cap Begun(w) = {}
        BY <1>0, <1>2, <2>3 DEF TasksOK
      <4>2. \A s \in w.started : s.task.id # t
        BY <1>9, <2>2, <4>1
      <4> QED
        BY <1>7, <4>2
    <3>4. cq = 1
      BY <1>o, <3>1
    <3> QED
      BY <1>z, <1>11, <3>2, <3>3, <3>4
  <2>4. ASSUME NEW d \in Doc, a \in ToSet(w.documentQueues[d])
        PROVE  cq + cd + cs = 1
    <3>1. PICK x : D = {x}
      BY <1>6, <2>1, <2>4
    <3>2. Q = {}
      <4>1. w.documentQueues[d] # << >>
        BY <2>4 DEF ToSet
      <4>2. w.queue = << >>
        BY <1>0, <4>1 DEF QueuesOK, PolicyOK
      <4>3. A = {}
        BY <1>a, <4>2 DEF ToSet
      <4> QED
        BY <1>3, <4>3
    <3>3. S = {}
      <4>1. a \in Tasks(w) /\ Tasks(w) \cap Begun(w) = {}
        BY <1>0, <1>2, <2>4 DEF TasksOK
      <4>2. \A s \in w.started : s.task.id # t
        BY <1>9, <2>2, <4>1
      <4> QED
        BY <1>7, <4>2
    <3>4. cd = 1
      BY <1>o, <3>1
    <3> QED
      BY <1>z, <3>2, <3>3, <3>4
  <2>5. CASE a \in Begun(w)
    <3>1. \A b \in Tasks(w) : b.id # t
      BY <1>0, <2>2, <2>5 DEF TasksOK
    <3>2. Q = {} /\ D = {}
      BY <1>2, <1>3, <1>5, <3>1
    <3>3. PICK x : S = {x}
      BY <1>7, <1>9, <2>1, <2>5
    <3>4. cs = 1
      BY <1>o, <3>3
    <3> QED
      BY <1>z, <1>11, <3>2, <3>4
  <2> QED
    BY <1>8, <1>11, <2>1, <2>3, <2>4, <2>5
<1>12. CASE ~(t < w.nextTaskId)
  <2>1. \A a \in Tasks(w) \cup Begun(w) : a.id # t
    BY <1>0, <1>12 DEF TasksOK
  <2>2. Q = {} /\ D = {}
    BY <1>2, <1>3, <1>5, <2>1
  <2>3. S = {}
    BY <1>7, <1>9, <2>1
  <2> QED
    BY <1>z, <1>12, <2>2, <2>3
<1> QED
  BY <1>11, <1>12

(* A submitted task is in one place of one queue or was started, once, and   *)
(* no two workers have the same task.                                        *)
THEOREM TasksRunOnce == SchedSpec => []RunsOnce
<1>1. SchedInv => RunsOnce
  <2> SUFFICES ASSUME SchedInv PROVE RunsOnce
    OBVIOUS
  <2>1. CoreInv(work, policy) /\ PolicyOK(policy)
    BY DEF SchedInv
  <2>2. ASSUME NEW t \in TaskId
        PROVE  Cardinality(At(work.queue, t))
               + Cardinality(UNION {{d} \X At(work.documentQueues[d], t) : d \in Doc})
               + Cardinality({s \in work.started : s.task.id = t})
               = IF t < work.nextTaskId THEN 1 ELSE 0
    BY <2>1, OnceEach
  <2>3. \A i, j \in Pool :
          i # j /\ work.currentTask[i] # Idle => work.currentTask[i] # work.currentTask[j]
    BY <2>1 DEF CoreInv, WorkersOK
  <2> QED
    BY <2>2, <2>3 DEF RunsOnce, At
<1> QED
  BY <1>1, SchedSafe, PTL

-----------------------------------------------------------------------------
(* Round robin. *)

(* While a task waits under round robin, dispatch starts at most one task    *)
(* more of any other document than of the task's own.                        *)
THEOREM NoDocumentMonopolises == SchedSpec => []RoundRobinIsFair
<1>1. SchedInv => RoundRobinIsFair
  <2> SUFFICES ASSUME SchedInv, NEW d \in Doc, NEW e \in Doc, NEW a \in ToSet(work.documentQueues[d])
               PROVE  Cardinality({s \in work.started : s.task.doc = e /\ s.at > a.id})
                        <= Cardinality({s \in work.started : s.task.doc = d /\ s.at > a.id}) + 1
    BY DEF RoundRobinIsFair
  <2>1. CoreInv(work, policy) /\ work \in Work /\ FairOK(work) /\ QueuesOK(work, policy)
    BY DEF SchedInv, CoreInv, RotationOK
  <2>c. PICK cd : cd = Cardinality(Since(work, d, a))
    OBVIOUS
  <2>f. PICK ce : ce = Cardinality(Since(work, e, a))
    OBVIOUS
  <2>2. \A x : Since(work, x, a) \in SUBSET work.started /\ IsFiniteSet(work.started)
    BY <2>1 DEF Since, CoreInv, RotationOK
  <2>3. cd \in Nat /\ ce \in Nat
    BY <2>2, <2>c, <2>f, FS_Subset, FS_CardinalityType
  <2>4. ce <= cd + 1
    <3>1. CASE Contains(work.rotation, e)
      <4>1. PICK k \in 1..Len(work.rotation) : work.rotation[k] = e
        BY <3>1 DEF Contains
      <4>2. work.documentQueues[d] # << >>
        BY DEF ToSet
      <4>3. Contains(work.rotation, d)
        BY <2>1, <4>2 DEF QueuesOK
      <4>4. PICK j \in 1..Len(work.rotation) : work.rotation[j] = d
        BY <4>3 DEF Contains
      <4>5. ce <= cd + (IF Turn(work, k) < Turn(work, j) THEN 0 ELSE 1)
        BY <2>1, <2>c, <2>f, <4>1, <4>4 DEF FairOK
      <4> QED
        BY <2>3, <4>5
    <3>2. CASE ~Contains(work.rotation, e)
      <4>1. Since(work, e, a) = {}
        BY <2>1, <3>2 DEF FairOK
      <4>2. ce = 0
        BY <2>f, <4>1, FS_EmptySet
      <4> QED
        BY <2>3, <4>2
    <3> QED
      BY <3>1, <3>2
  <2> QED
    BY <2>4, <2>c, <2>f DEF Since
<1> QED
  BY <1>1, SchedSafe, PTL

=============================================================================
