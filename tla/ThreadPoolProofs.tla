-------------------------- MODULE ThreadPoolProofs --------------------------
(***************************************************************************)
(* Proofs about ThreadPool, for any number of workers and tasks and any    *)
(* size of the ring: that a task is in one place at a time, that a queued  *)
(* task finds a worker awake, that nobody uses what main destroys, and     *)
(* that the pool is a task queue.                                          *)
(***************************************************************************)
EXTENDS ThreadPool, FiniteSetTheorems, SequenceTheorems, TLAPS

-----------------------------------------------------------------------------
(* The ring.                                                               *)

\* Where the k-th of the queued tasks is.
SlotOf(k) == (queue_front + k - 1) % QUEUE_SIZE

LEMMA Slots ==
  ASSUME TypeOK, NEW k \in 1..(QUEUE_SIZE + 1)
  PROVE  /\ SlotOf(k) \in Slot
         /\ SlotOf(k) = IF queue_front + k - 1 < QUEUE_SIZE THEN queue_front + k - 1
                        ELSE queue_front + k - 1 - QUEUE_SIZE
<1>1. /\ QUEUE_SIZE \in Nat \ {0} /\ queue_front \in 0..(QUEUE_SIZE - 1)
      /\ k \in 1..(QUEUE_SIZE + 1) /\ queue_front + k - 1 \in 0..(2 * QUEUE_SIZE - 1)
  BY SizeAssumption DEF TypeOK, Slot
<1>2. SlotOf(k) = IF queue_front + k - 1 < QUEUE_SIZE THEN queue_front + k - 1
                  ELSE queue_front + k - 1 - QUEUE_SIZE
  BY <1>1 DEF SlotOf
<1> QED
  BY <1>1, <1>2 DEF Slot

\* The slot a task is added to holds none of the queued ones, if there is room.
LEMMA BackIsFree ==
  ASSUME TypeOK, queue_back = (queue_front + queued) % QUEUE_SIZE, HasRoom,
         NEW k \in 1..queued
  PROVE  SlotOf(k) # queue_back
<1>1. queue_front \in 0..(QUEUE_SIZE - 1) /\ queued \in Nat /\ QUEUE_SIZE \in Nat
      /\ queued < QUEUE_SIZE
  BY SizeAssumption DEF TypeOK, Slot, HasRoom
<1>2. queue_front + (queued + 1) - 1 = queue_front + queued
  BY <1>1
<1>3. SlotOf(queued + 1) = queue_back
  BY <1>2 DEF SlotOf
<1> QED
  BY <1>1, <1>3, Slots

LEMMA PendingAt ==
  ASSUME NEW k \in 1..queued
  PROVE  Pending[k] = task_queue[SlotOf(k)]
BY DEF Pending, SlotOf

\* A write to the slot behind the queued tasks is not seen.
LEMMA AddUnseen ==
  ASSUME TypeOK, TasksApart, HasRoom, UNCHANGED <<queued, queue_front, queue_back>>,
         NEW x, task_queue' = [task_queue EXCEPT ![queue_back] = x]
  PROVE  Pending' = Pending /\ task_queue'[queue_back] = x
<1>1. ASSUME NEW k \in 1..queued
      PROVE  task_queue'[SlotOf(k)] = task_queue[SlotOf(k)]
  <2>1. SlotOf(k) \in Slot /\ SlotOf(k) # queue_back
    BY BackIsFree, Slots, SizeAssumption DEF TasksApart, TypeOK
  <2> QED
    BY <2>1 DEF TypeOK
<1>2. queue_back \in Slot /\ task_queue \in [Slot -> Task \cup {None}]
  BY DEF TypeOK
<1> QED
  BY <1>1, <1>2 DEF Pending, SlotOf

\* Publishing what the slot behind them holds appends it.
LEMMA PublishAppends ==
  ASSUME TypeOK, TasksApart, HasRoom, UNCHANGED <<task_queue, queue_front>>,
         queue_back' = (queue_back + 1) % QUEUE_SIZE, queued' = queued + 1
  PROVE  /\ queue_back' \in Slot
         /\ queue_back' = (queue_front' + queued') % QUEUE_SIZE
         /\ \A k \in 1..queued : Pending'[k] = Pending[k]
         /\ Pending'[queued + 1] = task_queue[queue_back]
         /\ Pending' = [k \in 1..(queued + 1) |-> IF k = queued + 1 THEN task_queue[queue_back]
                                                  ELSE Pending[k]]
<1>1. /\ queue_front \in 0..(QUEUE_SIZE - 1) /\ queued \in Nat
      /\ QUEUE_SIZE \in Nat \ {0} /\ queued < QUEUE_SIZE /\ queue_back \in 0..(QUEUE_SIZE - 1)
  BY SizeAssumption DEF TypeOK, Slot, HasRoom
<1>2. queue_front + (queued + 1) - 1 = queue_front + queued
  BY <1>1
<1>3. SlotOf(queued + 1) = queue_back
  BY <1>2 DEF SlotOf, TasksApart
<1>4. queue_back' = (queue_front' + queued') % QUEUE_SIZE
  <2>1. queue_back + 1 \in 0..(2 * QUEUE_SIZE - 1)
        /\ queue_front + queued + 1 \in 0..(2 * QUEUE_SIZE - 1)
        /\ queue_front + queued \in 0..(2 * QUEUE_SIZE - 1)
    BY <1>1
  <2>2. queue_back = IF queue_front + queued < QUEUE_SIZE THEN queue_front + queued
                     ELSE queue_front + queued - QUEUE_SIZE
    BY <2>1, <1>1 DEF TasksApart
  <2>3. queue_back' = IF queue_back + 1 < QUEUE_SIZE THEN queue_back + 1
                      ELSE queue_back + 1 - QUEUE_SIZE
    BY <2>1, <1>1
  <2>4. (queue_front + queued + 1) % QUEUE_SIZE
          = IF queue_front + queued + 1 < QUEUE_SIZE THEN queue_front + queued + 1
            ELSE queue_front + queued + 1 - QUEUE_SIZE
    BY <2>1, <1>1
  <2>5. queue_front' + queued' = queue_front + queued + 1
    BY <1>1
  <2> QED
    BY <1>1, <2>2, <2>3, <2>4, <2>5
<1>5. queue_back' \in Slot
  BY <1>1 DEF Slot
<1>6. Pending' = [k \in 1..(queued + 1) |-> task_queue[SlotOf(k)]]
  BY DEF Pending, SlotOf
<1>7. \A k \in 1..queued : k \in 1..(queued + 1) /\ Pending'[k] = Pending[k]
  BY <1>1, <1>6, PendingAt
<1>8. Pending'[queued + 1] = task_queue[queue_back]
  BY <1>1, <1>3, <1>6
<1>9. Pending' = [k \in 1..(queued + 1) |-> IF k = queued + 1 THEN task_queue[queue_back]
                                            ELSE Pending[k]]
  <2>1. \A k \in 1..(queued + 1) : k = queued + 1 \/ k \in 1..queued
    BY <1>1
  <2> QED
    BY <1>3, <1>6, <2>1, PendingAt
<1> QED
  BY <1>4, <1>5, <1>7, <1>8, <1>9

\* Moving the front by one takes the oldest task away.
LEMMA TakeRemovesOldest ==
  ASSUME TypeOK, TasksApart, queued > 0, UNCHANGED <<task_queue, queue_back>>,
         queue_front' = (queue_front + 1) % QUEUE_SIZE, queued' = queued - 1
  PROVE  /\ queue_front' \in Slot
         /\ queue_back' = (queue_front' + queued') % QUEUE_SIZE
         /\ Pending' = [k \in 1..(queued - 1) |-> Pending[k + 1]]
<1>1. /\ queue_front \in 0..(QUEUE_SIZE - 1) /\ queued \in 1..QUEUE_SIZE
      /\ QUEUE_SIZE \in Nat \ {0} /\ queue_back \in 0..(QUEUE_SIZE - 1)
  BY SizeAssumption DEF TypeOK, Slot
<1>2. queue_front + 1 \in 0..(2 * QUEUE_SIZE - 1)
  BY <1>1
<1>3. queue_front' = IF queue_front + 1 < QUEUE_SIZE THEN queue_front + 1
                     ELSE queue_front + 1 - QUEUE_SIZE
  BY <1>1, <1>2
<1>4. ASSUME NEW a \in 0..(QUEUE_SIZE - 1)
      PROVE  (queue_front' + a) % QUEUE_SIZE = (queue_front + (a + 1)) % QUEUE_SIZE
  <2>1. queue_front' + a \in 0..(2 * QUEUE_SIZE - 1)
        /\ queue_front + (a + 1) \in 0..(2 * QUEUE_SIZE - 1)
    BY <1>1, <1>3
  <2>2. (queue_front' + a) % QUEUE_SIZE
          = IF queue_front' + a < QUEUE_SIZE THEN queue_front' + a
            ELSE queue_front' + a - QUEUE_SIZE
    BY <2>1, <1>1
  <2>3. (queue_front + (a + 1)) % QUEUE_SIZE
          = IF queue_front + (a + 1) < QUEUE_SIZE THEN queue_front + (a + 1)
            ELSE queue_front + (a + 1) - QUEUE_SIZE
    BY <2>1, <1>1
  <2> QED
    BY <1>1, <1>3, <2>2, <2>3
<1>5. queue_front' \in Slot
  BY <1>1, <1>3 DEF Slot
<1>6. queue_back' = (queue_front' + queued') % QUEUE_SIZE
  <2>1. queued - 1 \in 0..(QUEUE_SIZE - 1) /\ (queued - 1) + 1 = queued
    BY <1>1
  <2>2. (queue_front' + (queued - 1)) % QUEUE_SIZE = (queue_front + ((queued - 1) + 1)) % QUEUE_SIZE
    BY <1>4, <2>1
  <2> QED
    BY <2>1, <2>2 DEF TasksApart
<1>7. ASSUME NEW k \in 1..(queued - 1)
      PROVE  (queue_front' + k - 1) % QUEUE_SIZE = SlotOf(k + 1) /\ k + 1 \in 1..queued
  <2>1. k - 1 \in 0..(QUEUE_SIZE - 1) /\ k + 1 \in 1..queued
        /\ queue_front' + (k - 1) = queue_front' + k - 1
        /\ queue_front + ((k - 1) + 1) = queue_front + (k + 1) - 1
    BY <1>1, <1>3
  <2>2. (queue_front' + (k - 1)) % QUEUE_SIZE = (queue_front + ((k - 1) + 1)) % QUEUE_SIZE
    BY <1>4, <2>1
  <2> QED
    BY <2>1, <2>2 DEF SlotOf
<1>8. Pending' = [k \in 1..(queued - 1) |-> task_queue[(queue_front' + k - 1) % QUEUE_SIZE]]
  BY DEF Pending
<1>9. Pending' = [k \in 1..(queued - 1) |-> Pending[k + 1]]
  BY <1>7, <1>8, PendingAt
<1> QED
  BY <1>5, <1>6, <1>9

-----------------------------------------------------------------------------
(* What most steps leave alone.                                            *)

ThreadsApart ==
  /\ IsFiniteSet(Worker) /\ None \notin Task /\ Main \notin Worker
  /\ Main \in Thread /\ \A w \in Worker : w \in Thread /\ w # Main /\ w # None
  /\ None # Main /\ \A t \in Thread : t # None /\ (t = Main \/ t \in Worker)

LEMMA Names == ThreadsApart
BY ThreadAssumption, NoTaskAssumption DEF ThreadsApart, Task, Thread

LEMMA TasksStay ==
  ASSUME TasksApart, UNCHANGED <<ring, i, done, dropped>>,
         \A w \in Worker : pc'[w] = "run" <=> pc[w] = "run",
         \A w \in Worker : pc[w] = "run" => task'[w] = task[w]
  PROVE  TasksApart' /\ Pending' = Pending
<1>1. Pending' = Pending /\ queued' = queued
  BY DEF Pending, ring
<1>2. Running' = Running
  BY DEF Running
<1>3. Queued' = Queued
  BY <1>1 DEF Queued
<1> QED
  BY <1>1, <1>2, <1>3 DEF TasksApart, ring

LEMMA AwakeStay ==
  ASSUME EnoughAwake, UNCHANGED <<queued, stop>>,
         \A w \in Worker : pc'[w] = "parked" <=> pc[w] = "parked",
         \A w \in Worker : pc'[w] \in {"lock", "check", "take"}
                             <=> pc[w] \in {"lock", "check", "take"}
  PROVE  EnoughAwake'
<1>1. Parked' = Parked
  BY DEF Parked
<1>2. Awake' = Awake
  BY DEF Awake
<1> QED
  BY <1>1, <1>2 DEF EnoughAwake

LEMMA AwakeFinite ==
  ASSUME NEW S \in SUBSET Worker
  PROVE  IsFiniteSet(S) /\ Cardinality(S) \in Nat
BY ThreadAssumption, FS_Subset, FS_CardinalityType

LEMMA AwakeOneMore ==
  ASSUME NEW w \in Worker, w \notin Awake, Awake' = Awake \cup {w}
  PROVE  Cardinality(Awake') = Cardinality(Awake) + 1
<1>1. IsFiniteSet(Awake)
  BY AwakeFinite DEF Awake
<1> QED
  BY <1>1, FS_AddElement

LEMMA AwakeOneLess ==
  ASSUME NEW w \in Worker, w \in Awake, Awake' = Awake \ {w}
  PROVE  Cardinality(Awake') = Cardinality(Awake) - 1
<1>1. IsFiniteSet(Awake)
  BY AwakeFinite DEF Awake
<1> QED
  BY <1>1, FS_RemoveElement

Inside == {"check", "take", "add", "publish", "stop"}

\* The mutex is taken by one thread, when nobody holds it.
LEMMA Entered ==
  ASSUME TypeOK, MutexHeld, NEW t \in Thread, Acquires(t),
         pc'[t] \in Inside, \A u \in Thread : u # t => pc'[u] = pc[u]
  PROVE  MutexHeld'
<1>1. \A u \in Thread : u # None /\ pc[u] \notin Inside
  BY Names DEF MutexHeld, Acquires, ThreadsApart, Inside
<1> QED
  BY <1>1 DEF MutexHeld, Acquires, Inside

\* It is released by the thread that holds it.
LEMMA Left ==
  ASSUME TypeOK, MutexHeld, NEW t \in Thread, pc[t] \in Inside, Releases,
         pc'[t] \notin Inside,
         \A u \in Thread : u # t => pc'[u] = pc[u] \/ pc'[u] \notin Inside
  PROVE  MutexHeld' /\ \A u \in Thread : u # t => pc[u] \notin Inside
<1>1. \A u \in Thread : u # None /\ (u # t => pc[u] \notin Inside)
  BY Names DEF MutexHeld, ThreadsApart, Inside
<1> QED
  BY <1>1 DEF MutexHeld, Releases, Inside

\* Outside and inside a thread may go on without it.
LEMMA LockStays ==
  ASSUME MutexHeld, NEW t \in Thread, UNCHANGED lock,
         pc'[t] \in Inside <=> pc[t] \in Inside,
         \A u \in Thread : u # t => pc'[u] = pc[u]
  PROVE  MutexHeld'
BY DEF MutexHeld, Inside

-----------------------------------------------------------------------------
(* Each step keeps the invariant: the workers.                             *)

LEMMA LockKeeps ==
  ASSUME IInv, NEW w \in Worker, Lock(w)
  PROVE  IInv'
<1> USE Names DEF IInv, Lock, Goto
<1>1. /\ pc' = [pc EXCEPT ![w] = "check"] /\ w \in Thread /\ w # Main
      /\ \A t \in Thread : pc'[t] = IF t = w THEN "check" ELSE pc[t]
  BY DEF TypeOK, ThreadsApart
<1>2. TypeOK'
  BY DEF TypeOK, ThreadsApart, Acquires, Releases, WorkerAt, ring
<1>3. MutexHeld'
  BY <1>1, Entered DEF Inside
<1>4. TasksApart' /\ Pending' = Pending
  BY <1>1, TasksStay DEF ThreadsApart
<1>5. InHand'
  BY <1>1, <1>4 DEF InHand, ThreadsApart, HasTask, WorkerAt, ring
<1>6. MainInOrder'
  BY <1>1, Names DEF MainInOrder, Joined, ThreadsApart, HasRoom, ring
<1>7. EnoughAwake'
  BY <1>1, AwakeStay DEF ring, ThreadsApart
<1> QED
  BY <1>2, <1>3, <1>4, <1>5, <1>6, <1>7

LEMMA WaitKeeps ==
  ASSUME IInv, NEW w \in Worker, Wait(w)
  PROVE  IInv'
<1> USE Names DEF IInv, Wait, Goto
<1>1. /\ pc' = [pc EXCEPT ![w] = "parked"] /\ w \in Thread /\ w # Main
      /\ \A t \in Thread : pc'[t] = IF t = w THEN "parked" ELSE pc[t]
  BY DEF TypeOK, ThreadsApart
<1>2. TypeOK'
  BY DEF TypeOK, ThreadsApart, Acquires, Releases, WorkerAt, ring
<1>3. MutexHeld'
  BY <1>1, Left DEF Inside
<1>4. TasksApart' /\ Pending' = Pending
  BY <1>1, TasksStay DEF ThreadsApart
<1>5. InHand'
  BY <1>1, <1>4 DEF InHand, ThreadsApart, HasTask, WorkerAt, ring
<1>6. MainInOrder'
  BY <1>1, Names DEF MainInOrder, Joined, ThreadsApart, HasRoom, ring
<1>7. EnoughAwake'
  <2>1. queued' = 0 /\ ~ stop'
    BY DEF TypeOK, HasTask, ring
  <2>2. Cardinality(Awake') \in Nat
    BY AwakeFinite DEF Awake
  <2> QED
    BY <2>1, <2>2 DEF EnoughAwake
<1> QED
  BY <1>2, <1>3, <1>4, <1>5, <1>6, <1>7

LEMMA WakeKeeps ==
  ASSUME IInv, NEW w \in Worker, Wake(w)
  PROVE  IInv'
<1> USE Names DEF IInv, Wake, Goto
<1>1. /\ pc' = [pc EXCEPT ![w] = "lock"] /\ w \in Thread /\ w # Main
      /\ \A t \in Thread : pc'[t] = IF t = w THEN "lock" ELSE pc[t]
  BY DEF TypeOK, ThreadsApart
<1>2. TypeOK'
  BY DEF TypeOK, ThreadsApart, Acquires, Releases, WorkerAt, ring
<1>3. MutexHeld'
  BY <1>1, LockStays DEF Inside
<1>4. TasksApart' /\ Pending' = Pending
  BY <1>1, TasksStay DEF ThreadsApart
<1>5. InHand'
  BY <1>1, <1>4 DEF InHand, ThreadsApart, HasTask, WorkerAt, ring
<1>6. MainInOrder'
  BY <1>1, Names DEF MainInOrder, Joined, ThreadsApart, HasRoom, ring
<1>7. EnoughAwake'
  <2>1. w \in Parked /\ w \notin Awake /\ Awake' = Awake \cup {w} /\ Parked' \subseteq Parked
    BY <1>1 DEF Parked, Awake, ThreadsApart
  <2>2. Cardinality(Awake') = Cardinality(Awake) + 1 /\ Cardinality(Awake) \in Nat
    BY <2>1, AwakeOneMore, AwakeFinite DEF Awake
  <2>3. queued \in Nat /\ queued' = queued /\ stop' = stop
    BY DEF TypeOK, ring
  <2> QED
    BY <2>1, <2>2, <2>3 DEF EnoughAwake
<1> QED
  BY <1>2, <1>3, <1>4, <1>5, <1>6, <1>7

LEMMA ExitKeeps ==
  ASSUME IInv, NEW w \in Worker, Exit(w)
  PROVE  IInv'
<1> USE Names DEF IInv, Exit, Goto
<1>1. /\ pc' = [pc EXCEPT ![w] = "exited"] /\ w \in Thread /\ w # Main
      /\ \A t \in Thread : pc'[t] = IF t = w THEN "exited" ELSE pc[t]
  BY DEF TypeOK, ThreadsApart
<1>2. TypeOK'
  BY DEF TypeOK, ThreadsApart, Acquires, Releases, WorkerAt, ring
<1>3. MutexHeld'
  BY <1>1, Left DEF Inside
<1>4. TasksApart' /\ Pending' = Pending
  BY <1>1, TasksStay DEF ThreadsApart
<1>5. InHand'
  BY <1>1, <1>4 DEF InHand, ThreadsApart, HasTask, WorkerAt, ring
<1>6. MainInOrder'
  BY <1>1, Names DEF MainInOrder, Joined, ThreadsApart, HasRoom, ring
<1>7. EnoughAwake'
  <2>1. Parked' \subseteq Parked
    BY <1>1 DEF Parked, ThreadsApart
  <2> QED
    BY <2>1 DEF EnoughAwake
<1> QED
  BY <1>2, <1>3, <1>4, <1>5, <1>6, <1>7

LEMMA FetchKeeps ==
  ASSUME IInv, NEW w \in Worker, Fetch(w)
  PROVE  IInv'
<1> USE Names DEF IInv, Fetch, Goto
<1>1. /\ pc' = [pc EXCEPT ![w] = "take"] /\ w \in Thread /\ w # Main
      /\ \A t \in Thread : pc'[t] = IF t = w THEN "take" ELSE pc[t]
  BY DEF TypeOK, ThreadsApart
<1>2. /\ task' = [task EXCEPT ![w] = Pending[1]]
      /\ Pending[1] \in Task
      /\ \A v \in Worker : task'[v] = IF v = w THEN Pending[1] ELSE task[v]
  <2>1. /\ queued \in Nat /\ queued > 0 /\ queue_front \in 0..(QUEUE_SIZE - 1)
        /\ QUEUE_SIZE \in Nat \ {0}
    BY SizeAssumption DEF TypeOK, HasTask, Slot
  <2>2. 1 \in 1..queued /\ SlotOf(1) = queue_front
    BY <2>1, Slots DEF TypeOK
  <2>3. Pending[1] = task_queue[queue_front]
    BY <2>2, PendingAt
  <2>4. Pending[1] \in 1..(i - 1)
    BY <2>2 DEF TasksApart, Queued
  <2>5. Pending[1] \in Task
    BY <2>4, SizeAssumption DEF TypeOK, Task
  <2> QED
    BY <2>3, <2>5 DEF TypeOK
<1>3. TypeOK'
  BY <1>1, <1>2 DEF TypeOK, ThreadsApart, WorkerAt, ring
<1>4. MutexHeld'
  BY <1>1, LockStays DEF Inside
<1>5. TasksApart' /\ Pending' = Pending
  BY <1>1, <1>2, TasksStay DEF ThreadsApart
<1>6. InHand'
  BY <1>1, <1>2, <1>5 DEF InHand, ThreadsApart, HasTask, WorkerAt, ring
<1>7. MainInOrder'
  BY <1>1 DEF MainInOrder, Joined, ThreadsApart, HasRoom, ring
<1>8. EnoughAwake'
  BY <1>1, AwakeStay DEF ring, ThreadsApart
<1> QED
  BY <1>3, <1>4, <1>5, <1>6, <1>7, <1>8

\* The task taken is the oldest, and nobody else has it.
LEMMA TakeMoves ==
  ASSUME IInv, NEW w \in Worker, Take(w)
  PROVE  /\ Pending' = [k \in 1..(queued - 1) |-> Pending[k + 1]]
         /\ queued \in Nat /\ queued > 0 /\ queued' = queued - 1
         /\ task[w] = Pending[1] /\ task[w] \in Queued /\ task[w] \in Task
         /\ queue_front' \in Slot /\ queue_back' = (queue_front' + queued') % QUEUE_SIZE
         /\ Queued' = Queued \ {task[w]}
         /\ Running' = Running \cup {task[w]}
<1> USE DEF IInv
<1>1. queued \in Nat /\ queued > 0 /\ task[w] = Pending[1] /\ queued' = queued - 1
  BY DEF TypeOK, InHand, HasTask, Take
<1>2. /\ Pending' = [k \in 1..(queued - 1) |-> Pending[k + 1]]
      /\ queue_front' \in Slot /\ queue_back' = (queue_front' + queued') % QUEUE_SIZE
  BY <1>1, TakeRemovesOldest DEF Take
<1>3. task[w] \in Queued /\ task[w] \in Task
  <2>1. 1 \in 1..queued
    BY <1>1
  <2>2. task[w] \in Queued
    BY <1>1, <2>1 DEF Queued
  <2>3. task[w] \in 1..(i - 1)
    BY <2>2 DEF TasksApart
  <2> QED
    BY <2>2, <2>3, SizeAssumption DEF TypeOK, Task
<1>4. Queued' = Queued \ {task[w]}
  <2>1. ASSUME NEW k \in 1..(queued - 1)
        PROVE  /\ k + 1 \in 1..queued /\ Pending'[k] = Pending[k + 1]
               /\ Pending'[k] # Pending[1]
    <3>1. k + 1 \in 1..queued /\ 1 \in 1..queued /\ k + 1 # 1
      BY <1>1
    <3>2. Pending[k + 1] # Pending[1]
      BY <3>1 DEF TasksApart
    <3> QED
      BY <1>2, <3>1, <3>2
  <2>2. ASSUME NEW j \in 1..queued, Pending[j] # Pending[1]
        PROVE  j - 1 \in 1..(queued - 1) /\ Pending'[j - 1] = Pending[j]
    <3>1. j # 1
      BY <2>2
    <3>2. j - 1 \in 1..(queued - 1) /\ (j - 1) + 1 = j
      BY <1>1, <3>1
    <3> QED
      BY <1>2, <3>2
  <2>3. Queued' = {Pending'[k] : k \in 1..(queued - 1)}
    BY <1>1 DEF Queued
  <2> QED
    BY <1>1, <2>1, <2>2, <2>3 DEF Queued
<1>5. Running' = Running \cup {task[w]}
  <2>1. /\ task' = task /\ pc[w] = "take"
        /\ \A v \in Worker : pc'[v] = IF v = w THEN "run" ELSE pc[v]
    BY Names DEF TypeOK, Take, Goto, ThreadsApart
  <2> QED
    BY <2>1 DEF Running
<1> QED
  BY <1>1, <1>2, <1>3, <1>4, <1>5

LEMMA TakeKeeps ==
  ASSUME IInv, NEW w \in Worker, Take(w)
  PROVE  IInv'
<1> USE Names DEF IInv
<1>1. /\ pc' = [pc EXCEPT ![w] = "run"] /\ w \in Thread /\ w # Main /\ pc[w] = "take"
      /\ \A t \in Thread : pc'[t] = IF t = w THEN "run" ELSE pc[t]
      /\ UNCHANGED <<task, task_queue, queue_back, stop, i, done, dropped>>
  BY DEF TypeOK, ThreadsApart, Take, Goto
<1>2. TypeOK'
  <2>1. queued' \in 0..QUEUE_SIZE
    BY TakeMoves, SizeAssumption DEF TypeOK
  <2> QED
    BY <1>1, <2>1, TakeMoves DEF TypeOK, Take, Releases, WorkerAt, ThreadsApart
<1>3. MutexHeld' /\ \A t \in Thread : t # w => pc[t] \notin Inside
  BY <1>1, Left DEF Inside, Take
<1>4. TasksApart'
  <2>1. \A j, k \in 1..queued' : Pending'[j] = Pending'[k] => j = k
    <3> SUFFICES ASSUME NEW j \in 1..(queued - 1), NEW k \in 1..(queued - 1),
                        Pending'[j] = Pending'[k]
                 PROVE  j = k
      BY TakeMoves
    <3>1. j + 1 \in 1..queued /\ k + 1 \in 1..queued
      BY TakeMoves
    <3>2. Pending[j + 1] = Pending[k + 1]
      BY TakeMoves
    <3>3. j + 1 = k + 1
      BY <3>1, <3>2 DEF TasksApart
    <3> QED
      BY <3>3
  <2>2. \A v \in Worker : pc[v] = "run" => task[v] # task[w]
    BY TakeMoves DEF TasksApart, Running
  <2>3. \A u, v \in Worker : pc'[u] = "run" /\ pc'[v] = "run" /\ task'[u] = task'[v] => u = v
    BY <1>1, <2>2 DEF TasksApart, ThreadsApart
  <2>4. Queued' \cup Running' \cup done' \cup dropped' = 1..(i' - 1)
    BY <1>1, TakeMoves DEF TasksApart
  <2>5. /\ Queued' \cap (Running' \cup done' \cup dropped') = {}
        /\ Running' \cap (done' \cup dropped') = {} /\ done' \cap dropped' = {}
    BY <1>1, TakeMoves DEF TasksApart
  <2> QED
    BY <2>1, <2>3, <2>4, <2>5, TakeMoves DEF TasksApart
<1>5. InHand'
  BY <1>1, <1>3 DEF InHand, ThreadsApart, HasTask, WorkerAt, Inside
<1>6. MainInOrder'
  <2>1. pc[Main] # "publish"
    BY <1>3 DEF ThreadsApart, Inside
  <2> QED
    BY <1>1, <2>1 DEF MainInOrder, Joined, ThreadsApart
<1>7. EnoughAwake'
  <2>1. w \in Awake /\ Awake' = Awake \ {w} /\ Parked' = Parked
    BY <1>1 DEF Awake, Parked, ThreadsApart
  <2>2. Cardinality(Awake') = Cardinality(Awake) - 1 /\ Cardinality(Awake) \in Nat
    BY <2>1, AwakeOneLess, AwakeFinite DEF Awake
  <2> QED
    BY <1>1, <2>1, <2>2, TakeMoves DEF EnoughAwake
<1> QED
  BY <1>2, <1>3, <1>4, <1>5, <1>6, <1>7

\* Nobody but the worker that ran it has the task.
LEMMA RunMoves ==
  ASSUME IInv, NEW w \in Worker, Run(w)
  PROVE  /\ Pending' = Pending /\ Queued' = Queued
         /\ task[w] \in Running /\ task[w] \in Task
         /\ Running' = Running \ {task[w]}
         /\ done' = done \cup {task[w]}
<1> USE DEF IInv
<1>1. Pending' = Pending /\ queued' = queued
  BY DEF Run, Pending, ring
<1>2. pc[w] = "run" /\ task[w] \in Running
  BY DEF Run, Running
<1>3. task[w] \in Task
  BY <1>2 DEF TypeOK, InHand
<1>4. \A v \in Worker : /\ pc'[v] = IF v = w THEN "lock" ELSE pc[v]
                        /\ task'[v] = IF v = w THEN None ELSE task[v]
  BY Names DEF TypeOK, Run, Goto, ThreadsApart
<1>5. \A v \in Worker : pc[v] = "run" /\ task[v] = task[w] => v = w
  BY <1>2 DEF TasksApart
<1>6. Running' = Running \ {task[w]}
  BY <1>2, <1>4, <1>5 DEF Running
<1> QED
  BY <1>1, <1>2, <1>3, <1>6 DEF Run, Queued

LEMMA RunKeeps ==
  ASSUME IInv, NEW w \in Worker, Run(w)
  PROVE  IInv'
<1> USE Names DEF IInv
<1>1. /\ pc' = [pc EXCEPT ![w] = "lock"] /\ w \in Thread /\ w # Main /\ pc[w] = "run"
      /\ \A t \in Thread : pc'[t] = IF t = w THEN "lock" ELSE pc[t]
      /\ \A v \in Worker : task'[v] = IF v = w THEN None ELSE task[v]
      /\ UNCHANGED <<lock, ring, stop, i, dropped>>
  BY DEF TypeOK, ThreadsApart, Run, Goto
<1>2. TypeOK'
  BY <1>1, RunMoves DEF TypeOK, Run, WorkerAt, ThreadsApart, ring
<1>3. MutexHeld'
  BY <1>1, LockStays DEF Inside
<1>4. TasksApart'
  BY <1>1, RunMoves DEF TasksApart, ring, ThreadsApart
<1>5. InHand'
  BY <1>1, RunMoves DEF InHand, ThreadsApart, HasTask, WorkerAt, ring
<1>6. MainInOrder'
  BY <1>1 DEF MainInOrder, Joined, ThreadsApart, HasRoom, ring
<1>7. EnoughAwake'
  <2>1. w \notin Awake /\ Awake' = Awake \cup {w} /\ Parked' = Parked
    BY <1>1 DEF Awake, Parked, ThreadsApart
  <2>2. Cardinality(Awake') = Cardinality(Awake) + 1 /\ Cardinality(Awake) \in Nat
    BY <2>1, AwakeOneMore, AwakeFinite DEF Awake
  <2>3. queued \in Nat /\ queued' = queued /\ stop' = stop
    BY <1>1 DEF TypeOK, ring
  <2> QED
    BY <2>1, <2>2, <2>3 DEF EnoughAwake
<1> QED
  BY <1>2, <1>3, <1>4, <1>5, <1>6, <1>7

-----------------------------------------------------------------------------
(* Each step keeps the invariant: the main thread.                         *)

LEMMA LockAddKeeps ==
  ASSUME IInv, LockAdd
  PROVE  IInv'
<1> USE Names DEF IInv, LockAdd, Goto
<1>1. /\ pc' = [pc EXCEPT ![Main] = "add"] /\ Main \in Thread
      /\ pc'[Main] = "add" /\ \A w \in Worker : pc'[w] = pc[w]
      /\ \A t \in Thread : t # Main => pc'[t] = pc[t]
  BY DEF TypeOK, ThreadsApart
<1>2. TypeOK'
  BY DEF TypeOK, ThreadsApart, Acquires, MainAt, ring
<1>3. MutexHeld'
  BY <1>1, Entered DEF Inside
<1>4. TasksApart' /\ Pending' = Pending
  BY <1>1, TasksStay
<1>5. InHand'
  BY <1>1, <1>4 DEF InHand, HasTask, ring
<1>6. MainInOrder'
  BY <1>1 DEF TypeOK, MainInOrder, Joined, MainAt
<1>7. EnoughAwake'
  BY <1>1, AwakeStay DEF ring
<1> QED
  BY <1>2, <1>3, <1>4, <1>5, <1>6, <1>7

LEMMA SleepKeeps ==
  ASSUME IInv, Sleep
  PROVE  IInv'
<1> USE Names DEF IInv, Sleep, Goto
<1>1. /\ pc' = [pc EXCEPT ![Main] = "lock stop"] /\ Main \in Thread
      /\ pc'[Main] = "lock stop" /\ \A w \in Worker : pc'[w] = pc[w]
      /\ \A t \in Thread : t # Main => pc'[t] = pc[t]
  BY DEF TypeOK, ThreadsApart
<1>2. TypeOK'
  BY DEF TypeOK, ThreadsApart, Acquires, MainAt, ring
<1>3. MutexHeld'
  BY <1>1, LockStays DEF Inside
<1>4. TasksApart' /\ Pending' = Pending
  BY <1>1, TasksStay
<1>5. InHand'
  BY <1>1, <1>4 DEF InHand, HasTask, ring
<1>6. MainInOrder'
  BY <1>1 DEF TypeOK, MainInOrder, Joined, MainAt
<1>7. EnoughAwake'
  BY <1>1, AwakeStay DEF ring
<1> QED
  BY <1>2, <1>3, <1>4, <1>5, <1>6, <1>7

LEMMA LockStopKeeps ==
  ASSUME IInv, LockStop
  PROVE  IInv'
<1> USE Names DEF IInv, LockStop, Goto
<1>1. /\ pc' = [pc EXCEPT ![Main] = "stop"] /\ Main \in Thread
      /\ pc'[Main] = "stop" /\ \A w \in Worker : pc'[w] = pc[w]
      /\ \A t \in Thread : t # Main => pc'[t] = pc[t]
  BY DEF TypeOK, ThreadsApart
<1>2. TypeOK'
  BY DEF TypeOK, ThreadsApart, Acquires, MainAt, ring
<1>3. MutexHeld'
  BY <1>1, Entered DEF Inside
<1>4. TasksApart' /\ Pending' = Pending
  BY <1>1, TasksStay
<1>5. InHand'
  BY <1>1, <1>4 DEF InHand, HasTask, ring
<1>6. MainInOrder'
  BY <1>1 DEF TypeOK, MainInOrder, Joined, MainAt
<1>7. EnoughAwake'
  BY <1>1, AwakeStay DEF ring
<1> QED
  BY <1>2, <1>3, <1>4, <1>5, <1>6, <1>7

LEMMA JoinKeeps ==
  ASSUME IInv, Join
  PROVE  IInv'
<1> USE Names DEF IInv, Join, Goto
<1>1. /\ pc' = [pc EXCEPT ![Main] = "destroyed"] /\ Main \in Thread
      /\ pc'[Main] = "destroyed" /\ \A w \in Worker : pc'[w] = pc[w]
      /\ \A t \in Thread : t # Main => pc'[t] = pc[t]
  BY DEF TypeOK, ThreadsApart
<1>2. TypeOK'
  BY DEF TypeOK, ThreadsApart, Acquires, MainAt, ring
<1>3. MutexHeld'
  BY <1>1, LockStays DEF Inside
<1>4. TasksApart' /\ Pending' = Pending
  BY <1>1, TasksStay
<1>5. InHand'
  BY <1>1, <1>4 DEF InHand, HasTask, ring
<1>6. MainInOrder'
  BY <1>1 DEF TypeOK, MainInOrder, Joined, MainAt
<1>7. EnoughAwake'
  BY <1>1, AwakeStay DEF ring
<1> QED
  BY <1>2, <1>3, <1>4, <1>5, <1>6, <1>7

LEMMA TaskInTurn ==
  ASSUME IInv, pc[Main] \in {"add", "publish"}
  PROVE  /\ i \in Task /\ i + 1 \in 1..(N_TASKS + 1)
         /\ i \notin 1..(i - 1) /\ 1..((i + 1) - 1) = 1..(i - 1) \cup {i}
<1>1. i \in Nat /\ i >= 1 /\ i <= N_TASKS /\ N_TASKS \in Nat
  BY SizeAssumption DEF IInv, MainInOrder, TypeOK
<1>2. (i + 1) - 1 = i
  BY <1>1
<1> QED
  BY <1>1, <1>2 DEF Task

LEMMA AddKeeps ==
  ASSUME IInv, Add
  PROVE  IInv'
<1> USE Names DEF IInv
<1>1. /\ pc' = [pc EXCEPT ![Main] = "publish"] /\ Main \in Thread /\ pc[Main] = "add"
      /\ pc'[Main] = "publish" /\ \A w \in Worker : pc'[w] = pc[w]
      /\ \A t \in Thread : t # Main => pc'[t] = pc[t]
      /\ UNCHANGED <<lock, task, queued, queue_front, queue_back, stop, i, done, dropped>>
  BY DEF TypeOK, ThreadsApart, Add, Goto
<1>2. i \in Task
  BY <1>1, TaskInTurn
<1>3. TypeOK'
  BY <1>1, <1>2 DEF TypeOK, ThreadsApart, Add, MainAt
<1>4. MutexHeld'
  BY <1>1, LockStays DEF Inside
<1>5. Pending' = Pending /\ task_queue'[queue_back] = i
  BY AddUnseen DEF Add
<1>6. TasksApart'
  <2>1. Queued' = Queued /\ Running' = Running
    BY <1>1, <1>5 DEF Queued, Running
  <2> QED
    BY <1>1, <1>5, <2>1 DEF TasksApart
<1>7. InHand'
  BY <1>1, <1>5 DEF InHand, HasTask
<1>8. MainInOrder'
  <2>1. HasRoom /\ i <= N_TASKS /\ ~ stop
    BY <1>1 DEF Add, MainInOrder
  <2> QED
    BY <1>1, <1>5, <2>1 DEF MainInOrder, MainAt, HasRoom
<1>9. EnoughAwake'
  BY <1>1, AwakeStay
<1> QED
  BY <1>3, <1>4, <1>6, <1>7, <1>8, <1>9

\* The task published is queued last, and was nowhere before.
LEMMA PublishMoves ==
  ASSUME IInv, Publish
  PROVE  /\ HasRoom /\ i \in Task /\ queued \in Nat /\ queued' = queued + 1
         /\ queue_back' \in Slot /\ queue_back' = (queue_front' + queued') % QUEUE_SIZE
         /\ \A k \in 1..queued : Pending'[k] = Pending[k]
         /\ Pending'[queued + 1] = i
         /\ Pending' = [k \in 1..(queued + 1) |-> IF k = queued + 1 THEN i ELSE Pending[k]]
         /\ i \notin Queued \cup Running \cup done \cup dropped
         /\ Queued' = Queued \cup {i}
<1> USE DEF IInv
<1>1. HasRoom /\ task_queue[queue_back] = i /\ queued \in Nat
  <2>1. pc[Main] = "publish" /\ queued \in 0..QUEUE_SIZE
    BY DEF Publish, TypeOK
  <2> QED
    BY <2>1, SizeAssumption DEF MainInOrder
<1>2. i \in Task /\ i \notin 1..(i - 1)
  <2>1. pc[Main] = "publish"
    BY DEF Publish
  <2> QED
    BY <2>1, TaskInTurn
<1>3. /\ queue_back' \in Slot /\ queue_back' = (queue_front' + queued') % QUEUE_SIZE
      /\ \A k \in 1..queued : Pending'[k] = Pending[k]
      /\ Pending'[queued + 1] = i /\ queued' = queued + 1
      /\ Pending' = [k \in 1..(queued + 1) |-> IF k = queued + 1 THEN i ELSE Pending[k]]
  BY <1>1, PublishAppends DEF Publish
<1>4. i \notin Queued \cup Running \cup done \cup dropped
  BY <1>2 DEF TasksApart
<1>5. Queued' = Queued \cup {i}
  <2>1. \A k \in 1..(queued + 1) : k \in 1..queued \/ k = queued + 1
    BY <1>1
  <2>2. queued + 1 \in 1..(queued + 1) /\ \A k \in 1..queued : k \in 1..(queued + 1)
    BY <1>1
  <2> QED
    BY <1>3, <2>1, <2>2 DEF Queued
<1> QED
  BY <1>1, <1>2, <1>3, <1>4, <1>5

LEMMA PublishKeeps ==
  ASSUME IInv, Publish
  PROVE  IInv'
<1> USE Names DEF IInv
<1>1. /\ pc[Main] = "publish" /\ Main \in Thread /\ Releases
      /\ UNCHANGED <<task, task_queue, queue_front, stop, done, dropped>> /\ i' = i + 1
  BY DEF Publish, ThreadsApart
<1>2. PICK woken \in Signal : GotoWaking("lock add", woken)
  BY DEF Publish
<1>3. /\ woken \subseteq Parked /\ (Parked # {} => \E w \in Parked : woken = {w})
      /\ pc' \in [Thread -> WorkerAt \cup MainAt]
      /\ pc'[Main] = "lock add" /\ ~ stop
      /\ \A w \in Worker : pc'[w] = IF w \in woken THEN "lock" ELSE pc[w]
      /\ \A w \in woken : w \in Worker /\ pc[w] = "parked"
  <2>1. woken \subseteq Parked /\ (Parked # {} => \E w \in Parked : woken = {w})
    BY <1>2 DEF Signal, One
  <2>2. pc' = [t \in Thread |-> IF t = Main THEN "lock add"
                                ELSE IF t \in woken THEN "lock" ELSE pc[t]]
    BY <1>2 DEF GotoWaking
  <2> QED
    BY <1>1, <2>1, <2>2 DEF Parked, ThreadsApart, TypeOK, WorkerAt, MainAt, MainInOrder
<1>4. TypeOK'
  <2>1. queued' \in 0..QUEUE_SIZE /\ i' \in 1..(N_TASKS + 1)
    BY <1>1, PublishMoves, SizeAssumption DEF TypeOK, HasRoom, Task
  <2> QED
    BY <1>1, <1>3, <2>1, PublishMoves DEF TypeOK, Releases
<1>5. MutexHeld' /\ \A t \in Thread : t # Main => pc[t] \notin Inside
  <2>1. \A u \in Thread : u # Main => pc'[u] = pc[u] \/ pc'[u] \notin Inside
    BY <1>3 DEF ThreadsApart, Inside
  <2> QED
    BY <1>1, <1>3, <2>1, Left DEF Inside
<1>6. TasksApart'
  <2>1. \A j, k \in 1..queued' : Pending'[j] = Pending'[k] => j = k
    <3>1. \A j \in 1..queued' : j \in 1..queued \/ j = queued + 1
      BY PublishMoves
    <3>2. \A j \in 1..queued : Pending[j] # i
      BY PublishMoves DEF Queued
    <3> QED
      BY <3>1, <3>2, PublishMoves DEF TasksApart
  <2>2. Running' = Running
    BY <1>1, <1>3 DEF Running
  <2>3. \A v, w \in Worker :
          pc'[v] = "run" /\ pc'[w] = "run" /\ task'[v] = task'[w] => v = w
    BY <1>1, <1>3 DEF TasksApart
  <2>4. 1..(i' - 1) = 1..(i - 1) \cup {i}
    BY <1>1 DEF TypeOK
  <2>5. Queued' \cup Running' \cup done' \cup dropped' = 1..(i' - 1)
    BY <1>1, <2>2, <2>4, PublishMoves DEF TasksApart
  <2>6. /\ Queued' \cap (Running' \cup done' \cup dropped') = {}
        /\ Running' \cap (done' \cup dropped') = {} /\ done' \cap dropped' = {}
    BY <1>1, <2>2, PublishMoves DEF TasksApart
  <2> QED
    BY <2>1, <2>3, <2>5, <2>6, PublishMoves DEF TasksApart
<1>7. InHand'
  BY <1>1, <1>3, <1>5 DEF InHand, ThreadsApart, WorkerAt, Inside
<1>8. MainInOrder'
  BY <1>1, <1>3 DEF MainInOrder, MainAt
<1>9. EnoughAwake'
  <2>1. CASE Parked = {}
    <3>1. Parked' = {}
      BY <1>3, <2>1 DEF Parked
    <3> QED
      BY <3>1 DEF EnoughAwake
  <2>2. CASE Parked # {}
    <3>1. PICK w \in Parked : woken = {w}
      BY <1>3, <2>2
    <3>2. w \in Worker /\ w \notin Awake /\ Awake' = Awake \cup {w}
      BY <1>3, <3>1 DEF Awake, Parked
    <3>3. Cardinality(Awake') = Cardinality(Awake) + 1 /\ Cardinality(Awake) \in Nat
      BY <3>2, AwakeOneMore, AwakeFinite DEF Awake
    <3>4. queued' <= Cardinality(Awake')
      BY <2>2, <3>3, PublishMoves DEF EnoughAwake
    <3> QED
      BY <1>1, <1>3, <3>4 DEF EnoughAwake
  <2> QED
    BY <2>1, <2>2
<1> QED
  BY <1>4, <1>5, <1>6, <1>7, <1>8, <1>9

LEMMA AddFullKeeps ==
  ASSUME IInv, AddFull
  PROVE  IInv'
<1> USE Names DEF IInv
<1>1. /\ pc' = [pc EXCEPT ![Main] = "lock add"] /\ Main \in Thread /\ pc[Main] = "add"
      /\ pc'[Main] = "lock add" /\ \A w \in Worker : pc'[w] = pc[w]
      /\ \A t \in Thread : t # Main => pc'[t] = pc[t]
      /\ UNCHANGED <<task, ring, stop, done>> /\ i' = i + 1 /\ dropped' = dropped \cup {i}
      /\ Releases
  BY DEF TypeOK, ThreadsApart, AddFull, Goto
<1>2. i \in Task /\ i' \in 1..(N_TASKS + 1) /\ i \notin 1..(i - 1)
      /\ 1..(i' - 1) = 1..(i - 1) \cup {i}
  BY <1>1, TaskInTurn
<1>3. TypeOK'
  BY <1>1, <1>2 DEF TypeOK, ThreadsApart, MainAt, ring, Releases
<1>4. MutexHeld'
  BY <1>1, Left DEF Inside
<1>5. Pending' = Pending /\ Queued' = Queued /\ Running' = Running
  BY <1>1 DEF Pending, Queued, Running, ring
<1>6. TasksApart'
  <2>1. i \notin Queued \cup Running \cup done \cup dropped
    BY <1>2 DEF TasksApart
  <2>2. \A v, w \in Worker :
          pc'[v] = "run" /\ pc'[w] = "run" /\ task'[v] = task'[w] => v = w
    BY <1>1 DEF TasksApart
  <2>3. Queued' \cup Running' \cup done' \cup dropped' = 1..(i' - 1)
    BY <1>1, <1>2, <1>5 DEF TasksApart
  <2>4. /\ Queued' \cap (Running' \cup done' \cup dropped') = {}
        /\ Running' \cap (done' \cup dropped') = {} /\ done' \cap dropped' = {}
    <3>1. done' = done /\ dropped' = dropped \cup {i}
      BY <1>1
    <3> QED
      BY <1>5, <2>1, <3>1 DEF TasksApart
  <2> QED
    BY <1>1, <1>5, <2>2, <2>3, <2>4 DEF TasksApart, ring
<1>7. InHand'
  BY <1>1, <1>5 DEF InHand, HasTask, ring
<1>8. MainInOrder'
  BY <1>1 DEF MainInOrder, MainAt
<1>9. EnoughAwake'
  BY <1>1, AwakeStay DEF ring
<1> QED
  BY <1>3, <1>4, <1>6, <1>7, <1>8, <1>9

LEMMA StopKeeps ==
  ASSUME IInv, Stop
  PROVE  IInv'
<1> USE Names DEF IInv
<1>1. /\ pc[Main] = "stop" /\ Main \in Thread /\ Releases /\ stop' = TRUE
      /\ UNCHANGED <<task, ring, i, done, dropped>> /\ GotoWaking("join", Parked)
  BY DEF Stop, ThreadsApart, Broadcast
<1>2. /\ pc' \in [Thread -> WorkerAt \cup MainAt]
      /\ pc'[Main] = "join"
      /\ \A w \in Worker : pc'[w] = IF pc[w] = "parked" THEN "lock" ELSE pc[w]
  <2>1. pc' = [t \in Thread |-> IF t = Main THEN "join"
                                ELSE IF t \in Parked THEN "lock" ELSE pc[t]]
    BY <1>1 DEF GotoWaking
  <2> QED
    BY <2>1 DEF Parked, ThreadsApart, TypeOK, WorkerAt, MainAt
<1>3. TypeOK'
  BY <1>1, <1>2 DEF TypeOK, Releases, ring
<1>4. MutexHeld' /\ \A t \in Thread : t # Main => pc[t] \notin Inside
  <2>1. \A u \in Thread : u # Main => pc'[u] = pc[u] \/ pc'[u] \notin Inside
    BY <1>2 DEF ThreadsApart, Inside
  <2> QED
    BY <1>1, <1>2, <2>1, Left DEF Inside
<1>5. TasksApart' /\ Pending' = Pending
  BY <1>1, <1>2, TasksStay
<1>6. InHand'
  BY <1>1, <1>2, <1>4 DEF InHand, ThreadsApart, WorkerAt, Inside
<1>7. MainInOrder'
  BY <1>1, <1>2 DEF MainInOrder, MainAt
<1>8. EnoughAwake'
  <2>1. Parked' = {}
    BY <1>2 DEF Parked
  <2> QED
    BY <2>1 DEF EnoughAwake
<1> QED
  BY <1>3, <1>4, <1>5, <1>6, <1>7, <1>8

-----------------------------------------------------------------------------
(* The invariant, and what follows from it.                                *)

LEMMA Initially == Init => IInv
<1> SUFFICES ASSUME Init PROVE IInv
  OBVIOUS
<1>1. /\ \A w \in Worker : pc[w] = "lock" /\ task[w] = None
      /\ pc[Main] = "lock add"
      /\ \A t \in Thread : pc[t] \in {"lock", "lock add"}
      /\ pc \in [Thread -> WorkerAt \cup MainAt]
  BY Names DEF Init, ThreadsApart, WorkerAt, MainAt
<1>2. TypeOK
  <2>1. QUEUE_SIZE \in Nat \ {0} /\ N_TASKS \in Nat
    BY SizeAssumption
  <2>2. 0 \in Slot /\ 0 \in 0..QUEUE_SIZE /\ 1 \in 1..(N_TASKS + 1)
    BY <2>1 DEF Slot
  <2> QED
    BY <1>1, <2>2 DEF Init, TypeOK
<1>3. Queued = {}
  <2>1. queued = 0
    BY DEF Init
  <2>2. 1..0 = {}
    OBVIOUS
  <2> QED
    BY <2>1, <2>2 DEF Queued
<1>4. Running = {}
  BY <1>1 DEF Running
<1>5. TasksApart
  <2>1. (0 + 0) % QUEUE_SIZE = 0
    BY SizeAssumption
  <2>2. 1..(i - 1) = {} /\ 1..queued = {}
    <3>1. queued = 0 /\ i = 1
      BY DEF Init
    <3>2. 1..0 = {} /\ 1..(1 - 1) = {}
      OBVIOUS
    <3> QED
      BY <3>1, <3>2
  <2>3. queue_back = (queue_front + queued) % QUEUE_SIZE /\ done = {} /\ dropped = {}
    BY <2>1 DEF Init
  <2> QED
    BY <1>1, <1>3, <1>4, <2>2, <2>3 DEF TasksApart
<1>6. MutexHeld
  BY <1>1, Names DEF Init, MutexHeld, ThreadsApart
<1>7. InHand
  BY <1>1 DEF InHand, WorkerAt
<1>8. MainInOrder
  BY <1>1 DEF Init, MainInOrder, MainAt
<1>9. EnoughAwake
  BY <1>1 DEF Init, EnoughAwake, Parked
<1> QED
  BY <1>2, <1>5, <1>6, <1>7, <1>8, <1>9 DEF IInv

LEMMA Preserved == IInv /\ [Next]_vars => IInv'
<1> SUFFICES ASSUME IInv, [Next]_vars PROVE IInv'
  OBVIOUS
<1>1. CASE \E w \in Worker : Lock(w) \/ WorkerStep(w) \/ Wake(w)
  BY <1>1, LockKeeps, WaitKeeps, ExitKeeps, FetchKeeps, TakeKeeps, RunKeeps, WakeKeeps
     DEF WorkerStep
<1>2. CASE LockAdd \/ LockStop \/ MainStep \/ Sleep
  BY <1>2, LockAddKeeps, LockStopKeeps, AddKeeps, PublishKeeps, AddFullKeeps, StopKeeps,
     JoinKeeps, SleepKeeps DEF MainStep
<1>3. CASE UNCHANGED vars
  <2>1. UNCHANGED <<pc, lock, task, ring, stop, i, done, dropped>>
    BY <1>3 DEF vars
  <2>2. /\ Pending' = Pending /\ Queued' = Queued /\ Running' = Running
        /\ Awake' = Awake /\ Parked' = Parked
    BY <2>1 DEF Pending, Queued, Running, Awake, Parked, ring
  <2> QED
    BY <2>1, <2>2 DEF IInv, TypeOK, MutexHeld, InHand, MainInOrder, TasksApart,
       EnoughAwake, HasTask, HasRoom, Joined, ring
<1> QED
  BY <1>1, <1>2, <1>3 DEF Next, Ended

\* The invariant is inductive, so that it holds in every state.
THEOREM Inductive == Spec => []IInv
BY Initially, Preserved, PTL DEF Spec

\* The ring's counters stay within the ring, for a ring of any size (main.c:18-22,
\* 34-37, 87-94).
THEOREM TypeCorrect == Spec => []TypeOK
<1>1. IInv => TypeOK
  BY DEF IInv
<1> QED
  BY <1>1, Inductive, PTL

\* A set whose members are all the same has one, or none.
LEMMA OneOrNone ==
  ASSUME NEW S, \A x, y \in S : x = y
  PROVE  Cardinality(S) = IF S = {} THEN 0 ELSE 1
<1>1. CASE S = {}
  BY <1>1, FS_EmptySet
<1>2. CASE S # {}
  <2>1. PICK x \in S : S = {x}
    BY <1>2
  <2> QED
    BY <1>2, <2>1, FS_Singleton
<1> QED
  BY <1>1, <1>2

\* Between two critical sections every task added so far is in exactly one place: one
\* slot of the ring, one worker's hands, done, or dropped (main.c:29-44, 87-100),
\* however many workers there are and wherever the ring wraps around.
THEOREM EachTaskOnceAlways == Spec => []EachTaskOnce
<1>1. IInv => EachTaskOnce
  <2> SUFFICES ASSUME IInv, lock = None, NEW t \in Task
               PROVE  Cardinality({k \in DOMAIN Pending : Pending[k] = t})
                        + Cardinality({w \in Worker : task[w] = t})
                        + Cardinality({t} \cap done) + Cardinality({t} \cap dropped)
                      = IF t < i THEN 1 ELSE 0
    BY DEF EachTaskOnce
  <2> DEFINE slots == {k \in DOMAIN Pending : Pending[k] = t}
             hands == {w \in Worker : task[w] = t}
  <2>1. Cardinality(slots) = IF t \in Queued THEN 1 ELSE 0
    <3>1. DOMAIN Pending = 1..queued
      BY DEF Pending
    <3>2. \A j, k \in slots : j = k
      BY <3>1 DEF IInv, TasksApart
    <3>3. slots = {} <=> t \notin Queued
      BY <3>1 DEF Queued
    <3> HIDE DEF slots
    <3> QED
      BY <3>2, <3>3, OneOrNone
  <2>2. Cardinality(hands) = IF t \in Running THEN 1 ELSE 0
    <3>1. \A w \in Worker : task[w] = t => pc[w] = "run"
      BY Names DEF IInv, MutexHeld, InHand, ThreadsApart
    <3>2. \A v, w \in hands : v = w
      BY <3>1 DEF IInv, TasksApart
    <3>3. hands = {} <=> t \notin Running
      BY <3>1 DEF Running
    <3> HIDE DEF hands
    <3> QED
      BY <3>2, <3>3, OneOrNone
  <2>3. /\ Cardinality({t} \cap done) = IF t \in done THEN 1 ELSE 0
        /\ Cardinality({t} \cap dropped) = IF t \in dropped THEN 1 ELSE 0
    BY OneOrNone
  <2>4. t < i <=> t \in 1..(i - 1)
    BY SizeAssumption DEF Task, IInv, TypeOK
  <2>5. /\ t < i <=> t \in Queued \/ t \in Running \/ t \in done \/ t \in dropped
        /\ t \in Queued => t \notin Running /\ t \notin done /\ t \notin dropped
        /\ t \in Running => t \notin done /\ t \notin dropped
        /\ t \in done => t \notin dropped
    BY <2>4 DEF IInv, TasksApart
  <2> HIDE DEF slots, hands
  <2> QED
    BY <2>1, <2>2, <2>3, <2>5 DEF slots, hands
<1> QED
  BY <1>1, Inductive, PTL

\* A worker stays parked only while there are enough awake workers for the tasks queued:
\* one signal per task (main.c:95) is enough, for any number of workers.
THEOREM NoTaskWaitsAlways == Spec => []NoTaskWaitsForASleeper
<1>1. IInv => NoTaskWaitsForASleeper
  <2> SUFFICES ASSUME IInv, lock = None, Parked # {}
               PROVE  queued <= Cardinality({w \in Worker : pc[w] = "lock"})
    BY DEF NoTaskWaitsForASleeper
  <2>1. Awake = {w \in Worker : pc[w] = "lock"}
    BY Names DEF IInv, MutexHeld, Awake, ThreadsApart
  <2> QED
    BY <2>1 DEF IInv, EnoughAwake
<1> QED
  BY <1>1, Inductive, PTL

\* When main destroys the mutex and the condition (main.c:71-76) no thread holds the
\* mutex, waits for the condition, or will use either again.
THEOREM DestroyedUnusedAlways == Spec => []DestroyedUnused
<1>1. IInv => DestroyedUnused
  <2> SUFFICES ASSUME IInv, pc[Main] = "destroyed"
               PROVE  lock = None /\ \A w \in Worker : pc[w] = "exited" /\ task[w] = None
    BY DEF DestroyedUnused
  <2>1. \A w \in Worker : pc[w] = "exited" /\ task[w] = None
    BY DEF IInv, MainInOrder, Joined, InHand
  <2>2. \A t \in Thread : lock # t
    BY <2>1, Names DEF IInv, MutexHeld, ThreadsApart
  <2> QED
    BY <2>1, <2>2 DEF IInv, TypeOK
<1> QED
  BY <1>1, Inductive, PTL

-----------------------------------------------------------------------------
(* The pool is a task queue.                                               *)

LEMMA PendingIsSeq ==
  IInv => Pending \in Seq(Task) /\ Len(Pending) = queued /\ DOMAIN Pending = 1..queued
<1> SUFFICES ASSUME IInv
             PROVE  Pending \in Seq(Task) /\ Len(Pending) = queued /\ DOMAIN Pending = 1..queued
  OBVIOUS
<1>1. queued \in Nat
  BY DEF IInv, TypeOK
<1>2. \A k \in 1..queued : Pending[k] \in Task
  <2>1. Queued \subseteq 1..(i - 1)
    BY DEF IInv, TasksApart
  <2>2. 1..(i - 1) \subseteq Task
    BY SizeAssumption DEF IInv, TypeOK, Task
  <2> QED
    BY <2>1, <2>2 DEF Queued
<1>3. Pending \in [1..queued -> Task]
  BY <1>2 DEF Pending
<1> QED
  BY <1>1, <1>3

LEMMA SeenIsAdded ==
  ASSUME IInv
  PROVE  Queue!Seen = Queued \cup Running \cup done \cup dropped
BY PendingIsSeq DEF Queue!Seen, Queued

LEMMA PublishAccepts ==
  ASSUME IInv, Publish
  PROVE  Queue!Next
<1>1. Pending' = Append(Pending, i)
  <2>1. Pending \in Seq(Task) /\ Len(Pending) = queued /\ queued \in Nat
    BY PendingIsSeq, PublishMoves
  <2>2. /\ Append(Pending, i) \in Seq(Task) /\ Len(Append(Pending, i)) = queued + 1
        /\ Append(Pending, i)[queued + 1] = i
        /\ \A k \in 1..queued : Append(Pending, i)[k] = Pending[k]
    BY <2>1, PublishMoves, AppendProperties
  <2>3. Pending' \in Seq(Task) /\ Len(Pending') = queued + 1
    BY PublishKeeps, PendingIsSeq, PublishMoves
  <2>4. \A k \in 1..(queued + 1) : Append(Pending, i)[k] = Pending'[k]
    BY <2>1, <2>2, PublishMoves
  <2> QED
    BY <2>2, <2>3, <2>4, SeqEqual
<1>2. Running' = Running
  <2>1. /\ task' = task
        /\ \A w \in Worker : pc'[w] = "run" <=> pc[w] = "run"
    BY Names DEF Publish, GotoWaking, Signal, One, Parked, ThreadsApart, IInv, TypeOK
  <2> QED
    BY <2>1 DEF Running
<1>3. i \in Task /\ i \notin Queue!Seen /\ Len(Pending) < QUEUE_SIZE
  BY PendingIsSeq, SeenIsAdded, PublishMoves DEF HasRoom
<1>4. Queue!Accept(i)
  BY <1>1, <1>2, <1>3 DEF Queue!Accept, Publish
<1> QED
  BY <1>3, <1>4 DEF Queue!Next

LEMMA AddFullDrops ==
  ASSUME IInv, AddFull
  PROVE  Queue!Next
<1>1. Pending' = Pending
  BY DEF AddFull, Pending, ring
<1>2. Running' = Running
  <2>1. /\ task' = task /\ \A w \in Worker : pc'[w] = pc[w]
    BY Names DEF AddFull, Goto, ThreadsApart, IInv, TypeOK
  <2> QED
    BY <2>1 DEF Running
<1>3. i \in Task /\ i \notin 1..(i - 1)
  <2>1. pc[Main] = "add"
    BY DEF AddFull
  <2> QED
    BY <2>1, TaskInTurn
<1>4. i \notin Queue!Seen
  BY <1>3, SeenIsAdded DEF IInv, TasksApart
<1>5. Len(Pending) = QUEUE_SIZE
  <2>1. queued \in 0..QUEUE_SIZE /\ QUEUE_SIZE \in Nat /\ ~ (queued < QUEUE_SIZE)
    BY SizeAssumption DEF AddFull, HasRoom, IInv, TypeOK
  <2> QED
    BY <2>1, PendingIsSeq
<1>6. Queue!Drop(i)
  BY <1>1, <1>2, <1>4, <1>5 DEF Queue!Drop, AddFull
<1> QED
  BY <1>3, <1>6 DEF Queue!Next

LEMMA TakeStarts ==
  ASSUME IInv, NEW w \in Worker, Take(w)
  PROVE  Queue!Next
<1>1. Pending \in Seq(Task) /\ Len(Pending) = queued /\ queued \in Nat /\ queued > 0
  BY PendingIsSeq, TakeMoves
<1>2. Pending # <<>> /\ Head(Pending) = task[w]
  BY <1>1, TakeMoves
<1>3. Pending' = Tail(Pending)
  <2>1. /\ Tail(Pending) \in Seq(Task) /\ Len(Tail(Pending)) = queued - 1
        /\ \A k \in 1..(queued - 1) : Tail(Pending)[k] = Pending[k + 1]
    BY <1>1, <1>2, HeadTailProperties
  <2>2. Pending' \in Seq(Task) /\ Len(Pending') = queued - 1
    BY TakeKeeps, PendingIsSeq, TakeMoves
  <2>3. \A k \in 1..(queued - 1) : Pending'[k] = Tail(Pending)[k]
    BY <2>1, TakeMoves
  <2> QED
    BY <2>1, <2>2, <2>3, SeqEqual
<1>4. Running' = Running \cup {Head(Pending)}
  BY <1>2, TakeMoves
<1>5. ~ stop
  BY DEF Take, IInv, InHand
<1>6. Queue!Start
  BY <1>2, <1>3, <1>4, <1>5 DEF Queue!Start, Take
<1> QED
  BY <1>6 DEF Queue!Next

LEMMA RunFinishes ==
  ASSUME IInv, NEW w \in Worker, Run(w)
  PROVE  Queue!Next
<1>1. Queue!Finish(task[w])
  BY RunMoves DEF Queue!Finish, Run
<1> QED
  BY <1>1, RunMoves DEF Queue!Next

LEMMA StopStops ==
  ASSUME IInv, Stop
  PROVE  Queue!Next
<1>1. Pending' = Pending
  BY DEF Stop, Pending, ring
<1>2. Running' = Running
  <2>1. /\ task' = task
        /\ \A w \in Worker : pc'[w] = "run" <=> pc[w] = "run"
    BY Names DEF Stop, GotoWaking, Broadcast, Parked, ThreadsApart, IInv, TypeOK
  <2> QED
    BY <2>1 DEF Running
<1>3. ~ stop
  BY DEF Stop, IInv, MainInOrder
<1>4. Queue!Stop
  BY <1>1, <1>2, <1>3 DEF Queue!Stop, Stop
<1> QED
  BY <1>4 DEF Queue!Next

\* The other steps of a worker, and of main, are not seen from outside.
LEMMA Unseen ==
  ASSUME IInv, UNCHANGED <<ring, stop, done, dropped>>,
         \A w \in Worker : pc'[w] = "run" <=> pc[w] = "run",
         \A w \in Worker : pc[w] = "run" => task'[w] = task[w]
  PROVE  UNCHANGED Queue!vars
<1>1. Pending' = Pending
  BY DEF Pending, ring
<1>2. Running' = Running
  BY DEF Running
<1> QED
  BY <1>1, <1>2 DEF Queue!vars

LEMMA WorkersUnseen ==
  ASSUME IInv, NEW w \in Worker, Lock(w) \/ Wait(w) \/ Wake(w) \/ Exit(w) \/ Fetch(w)
  PROVE  UNCHANGED Queue!vars
<1>1. /\ UNCHANGED <<ring, stop, done, dropped>>
      /\ \A v \in Worker : pc'[v] = "run" <=> pc[v] = "run"
      /\ \A v \in Worker : pc[v] = "run" => task'[v] = task[v]
  BY Names DEF Lock, Wait, Wake, Exit, Fetch, Goto, IInv, TypeOK, ThreadsApart
<1> QED
  BY <1>1, Unseen

LEMMA MainUnseen ==
  ASSUME IInv, LockAdd \/ LockStop \/ Sleep \/ Join \/ Add \/ UNCHANGED vars
  PROVE  UNCHANGED Queue!vars
<1>1. CASE Add
  <2>1. Pending' = Pending
    BY <1>1, AddUnseen DEF Add, IInv
  <2>2. Running' = Running
    <3>1. /\ task' = task /\ \A w \in Worker : pc'[w] = pc[w]
      BY <1>1, Names DEF Add, Goto, ThreadsApart, IInv, TypeOK
    <3> QED
      BY <3>1 DEF Running
  <2> QED
    BY <1>1, <2>1, <2>2 DEF Add, Queue!vars
<1>2. CASE LockAdd \/ LockStop \/ Sleep \/ Join \/ UNCHANGED vars
  <2>1. /\ UNCHANGED <<ring, stop, done, dropped>>
        /\ \A v \in Worker : pc'[v] = pc[v]
        /\ task' = task
    BY <1>2, Names DEF LockAdd, LockStop, Sleep, Join, vars, Goto, IInv, TypeOK, ThreadsApart
  <2> QED
    BY <2>1, Unseen
<1> QED
  BY <1>1, <1>2

\* The pool implements a task queue: publishing accepts a task, the full ring drops one,
\* the step that moves the front starts the oldest, and the other steps are not seen.
THEOREM Refinement == Spec => ImplementsTaskQueue
<1>1. Init => Queue!Init
  <2> SUFFICES ASSUME Init PROVE Queue!Init
    OBVIOUS
  <2>1. Pending = <<>>
    <3>1. Pending \in Seq(Task) /\ Len(Pending) = 0
      BY Initially, PendingIsSeq DEF Init
    <3> QED
      BY <3>1, EmptySeq
  <2>2. Running = {}
    BY Names DEF Init, Running, ThreadsApart
  <2> QED
    BY <2>1, <2>2 DEF Init, Queue!Init
<1>2. IInv /\ [Next]_vars => [Queue!Next]_(Queue!vars)
  <2> SUFFICES ASSUME IInv, [Next]_vars
               PROVE  Queue!Next \/ UNCHANGED Queue!vars
    OBVIOUS
  <2>1. ASSUME NEW w \in Worker, Lock(w) \/ WorkerStep(w) \/ Wake(w)
        PROVE  Queue!Next \/ UNCHANGED Queue!vars
    BY <2>1, WorkersUnseen, TakeStarts, RunFinishes DEF WorkerStep
  <2>2. CASE LockAdd \/ LockStop \/ MainStep \/ Sleep \/ UNCHANGED vars
    BY <2>2, MainUnseen, PublishAccepts, AddFullDrops, StopStops DEF MainStep
  <2> QED
    BY <2>1, <2>2 DEF Next, Ended
<1> QED
  BY <1>1, <1>2, Inductive, PTL DEF Spec, Queue!Spec, ImplementsTaskQueue
=============================================================================
