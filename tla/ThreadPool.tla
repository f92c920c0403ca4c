----------------------------- MODULE ThreadPool -----------------------------
(***************************************************************************)
(* The thread pool of 03-posix-threads/05_course_project/main.c: workers   *)
(* that share a ring of tasks under one mutex and sleep on one condition   *)
(* variable, and the main thread that fills the ring and then stops the    *)
(* pool.                                                                   *)
(*                                                                         *)
(* A critical section is more than one action, so that what the mutex is   *)
(* for can be seen: the ring is read or written in one step and its        *)
(* indices change in the next.                                             *)
(***************************************************************************)
EXTENDS Integers, FiniteSets

CONSTANTS
  Worker,      \* the pool's threads (THREADS in the source)
  Main,        \* the thread that runs main
  None,        \* nobody, or no task
  N_TASKS,     \* how many tasks main adds (100 in the source)
  QUEUE_SIZE   \* slots of the ring

ASSUME ThreadAssumption ==
  IsFiniteSet(Worker) /\ Main \notin Worker /\ None \notin Worker \cup {Main}
ASSUME SizeAssumption == N_TASKS \in Nat /\ QUEUE_SIZE \in Nat \ {0}
ASSUME NoTaskAssumption == None \notin 1..N_TASKS

VARIABLES
  pc,           \* what each thread does next
  lock,         \* who holds the mutex
  task,         \* the local variable task of each worker
  task_queue,   \* the ring
  queued,       \* how many tasks it holds
  queue_front,  \* the slot of the oldest
  queue_back,   \* the slot the next one goes to
  stop,         \* threadpool_destroy was called
  i,            \* the task main adds next
  done,         \* history: tasks that were run to their end
  dropped       \* history: tasks that found the ring full

ring == <<task_queue, queued, queue_front, queue_back>>
vars == <<pc, lock, task, ring, stop, i, done, dropped>>

-----------------------------------------------------------------------------
Thread == Worker \cup {Main}
Task == 1..N_TASKS
Slot == 0..(QUEUE_SIZE - 1)

WorkerAt == {"lock", "check", "take", "run", "parked", "exited"}
MainAt == {"lock add", "add", "publish", "lock stop", "stop", "join", "destroyed"}

Parked == {w \in Worker : pc[w] = "parked"}

Goto(t, label) == pc' = [pc EXCEPT ![t] = label]

\* Slip: the mutex does not exclude.
AcquiresAnyway(t) == lock' = t

Acquires(t) == lock = None /\ lock' = t

Releases == lock' = None

\* Slip: a thread woken up takes it that there is a task.
HasTaskAlways == TRUE

HasTask == queued > 0

\* Slip: room for one task more than there are slots.
HasRoomForOneMore == queued <= QUEUE_SIZE

HasRoom == queued < QUEUE_SIZE

-----------------------------------------------------------------------------
\* threadpool_init: nothing is added before every thread is created, and a
\* created thread has yet to run.  It does not look at what pthread_create
\* returns (main.c:61): here every thread is created.
Init ==
  /\ pc = [t \in Thread |-> IF t = Main THEN "lock add" ELSE "lock"]
  /\ lock = None
  /\ task = [w \in Worker |-> None]
  /\ task_queue = [s \in Slot |-> None]
  /\ queued = 0
  /\ queue_front = 0
  /\ queue_back = 0
  /\ stop = FALSE
  /\ i = 1
  /\ done = {}
  /\ dropped = {}

-----------------------------------------------------------------------------
(* A worker: thread_function.                                              *)

\* Entering the loop, and taking the mutex back when pthread_cond_wait returns:
\* either way the condition of the inner loop is evaluated next.
Lock(w) ==
  /\ pc[w] = "lock"
  /\ Acquires(w)
  /\ Goto(w, "check")
  /\ UNCHANGED <<task, ring, stop, i, done, dropped>>

\* pthread_cond_wait releases the mutex and parks the thread in one step.
Wait(w) ==
  /\ pc[w] = "check"
  /\ ~ HasTask /\ ~ stop
  /\ Releases
  /\ Goto(w, "parked")
  /\ UNCHANGED <<task, ring, stop, i, done, dropped>>

\* pthread_cond_wait may return for no reason.
Wake(w) ==
  /\ pc[w] = "parked"
  /\ Goto(w, "lock")
  /\ UNCHANGED <<lock, task, ring, stop, i, done, dropped>>

\* A stopped pool starts none of the tasks still queued.
Exit(w) ==
  /\ pc[w] = "check"
  /\ stop
  /\ Releases
  /\ Goto(w, "exited")
  /\ UNCHANGED <<task, ring, stop, i, done, dropped>>

Fetch(w) ==
  /\ pc[w] = "check"
  /\ HasTask /\ ~ stop
  /\ task' = [task EXCEPT ![w] = task_queue[queue_front]]
  /\ Goto(w, "take")
  /\ UNCHANGED <<lock, ring, stop, i, done, dropped>>

Take(w) ==
  /\ pc[w] = "take"
  /\ queue_front' = (queue_front + 1) % QUEUE_SIZE
  /\ queued' = queued - 1
  /\ Releases
  /\ Goto(w, "run")
  /\ UNCHANGED <<task, task_queue, queue_back, stop, i, done, dropped>>

\* The task runs outside the mutex.
Run(w) ==
  /\ pc[w] = "run"
  /\ done' = done \cup {task[w]}
  /\ task' = [task EXCEPT ![w] = None]
  /\ Goto(w, "lock")
  /\ UNCHANGED <<lock, ring, stop, i, dropped>>

-----------------------------------------------------------------------------
(* The main thread: threadpool_add_task for each task, then, some time     *)
(* later, threadpool_destroy.                                              *)

\* Main goes on, and some parked workers with it.
GotoWaking(label, woken) ==
  pc' = [t \in Thread |-> IF t = Main THEN label
                          ELSE IF t \in woken THEN "lock" ELSE pc[t]]

One == IF Parked = {} THEN {{}} ELSE {{w} : w \in Parked}

\* Slip: only a task added to an empty queue is signalled.
SignalFirst == IF queued > 0 THEN {{}} ELSE One

\* Slip: nobody is told of the task.
SignalNone == {{}}

\* Whom pthread_cond_signal may wake: one of the threads parked, if any is.
Signal == One

\* Slip: one thread is told that the pool stops.
BroadcastToOne == One

Broadcast == {Parked}

LockAdd ==
  /\ pc[Main] = "lock add"
  /\ i <= N_TASKS
  /\ Acquires(Main)
  /\ Goto(Main, "add")
  /\ UNCHANGED <<task, ring, stop, i, done, dropped>>

Add ==
  /\ pc[Main] = "add"
  /\ HasRoom
  /\ task_queue' = [task_queue EXCEPT ![queue_back] = i]
  /\ Goto(Main, "publish")
  /\ UNCHANGED <<lock, task, queued, queue_front, queue_back, stop, i, done, dropped>>

Publish ==
  /\ pc[Main] = "publish"
  /\ queue_back' = (queue_back + 1) % QUEUE_SIZE
  /\ queued' = queued + 1
  /\ Releases
  /\ i' = i + 1
  /\ \E woken \in Signal : GotoWaking("lock add", woken)
  /\ UNCHANGED <<task, task_queue, queue_front, stop, done, dropped>>

\* "Task queue is full! Cannot add more tasks."
AddFull ==
  /\ pc[Main] = "add"
  /\ ~ HasRoom
  /\ dropped' = dropped \cup {i}
  /\ i' = i + 1
  /\ Releases
  /\ Goto(Main, "lock add")
  /\ UNCHANGED <<task, ring, stop, done>>

\* main sleeps for a while, whatever the workers have done by then.
Sleep ==
  /\ pc[Main] = "lock add"
  /\ i > N_TASKS
  /\ Goto(Main, "lock stop")
  /\ UNCHANGED <<lock, task, ring, stop, i, done, dropped>>

LockStop ==
  /\ pc[Main] = "lock stop"
  /\ Acquires(Main)
  /\ Goto(Main, "stop")
  /\ UNCHANGED <<task, ring, stop, i, done, dropped>>

Stop ==
  /\ pc[Main] = "stop"
  /\ stop' = TRUE
  /\ Releases
  /\ \E woken \in Broadcast : GotoWaking("join", woken)
  /\ UNCHANGED <<task, ring, i, done, dropped>>

\* Slip: the threads are not waited for.
JoinedNone == TRUE

\* pthread_join of every thread
Joined == \A w \in Worker : pc[w] = "exited"

\* Then the mutex and the condition are destroyed.
Join ==
  /\ pc[Main] = "join"
  /\ Joined
  /\ Goto(Main, "destroyed")
  /\ UNCHANGED <<lock, task, ring, stop, i, done, dropped>>

\* The program has ended.
Ended == pc[Main] = "destroyed" /\ UNCHANGED vars

-----------------------------------------------------------------------------
WorkerStep(w) ==
  Wait(w) \/ Exit(w) \/ Fetch(w) \/ Take(w) \/ Run(w)

MainStep == Add \/ Publish \/ AddFull \/ Stop \/ Join

Next ==
  \/ \E w \in Worker : Lock(w) \/ WorkerStep(w) \/ Wake(w)
  \/ LockAdd \/ LockStop \/ MainStep \/ Sleep
  \/ Ended

Spec == Init /\ [][Next]_vars

(* Every thread is scheduled, tasks end, and a thread that keeps asking    *)
(* for the mutex gets it; a mutex that is passed around is not always      *)
(* free, hence strong fairness.  No wakeup but a signal is counted on, and *)
(* the tasks must not need the stop to get going: Wake and Sleep are not   *)
(* fair.                                                                   *)
Fairness ==
  /\ \A w \in Worker : WF_vars(WorkerStep(w)) /\ SF_vars(Lock(w))
  /\ WF_vars(MainStep) /\ SF_vars(LockAdd \/ LockStop)

FairSpec == Spec /\ Fairness

-----------------------------------------------------------------------------
TypeOK ==
  /\ pc \in [Thread -> WorkerAt \cup MainAt]
  /\ lock \in Thread \cup {None}
  /\ task \in [Worker -> Task \cup {None}]
  /\ task_queue \in [Slot -> Task \cup {None}]
  /\ queued \in 0..QUEUE_SIZE
  /\ queue_front \in Slot
  /\ queue_back \in Slot
  /\ stop \in BOOLEAN
  /\ i \in 1..(N_TASKS + 1)
  /\ done \in SUBSET Task
  /\ dropped \in SUBSET Task

\* The tasks in the ring, oldest first.
Pending ==
  [k \in 1..queued |-> task_queue[(queue_front + k - 1) % QUEUE_SIZE]]

Running == {task[w] : w \in {v \in Worker : pc[v] = "run"}}

\* Between two critical sections (main.c:29-44, 87-100) every task added so far
\* is in exactly one place: one slot of the ring, one worker's hands, done, or
\* dropped; none is lost, run twice, or freed and still queued.
EachTaskOnce ==
  lock = None =>
    \A t \in Task :
      Cardinality({k \in DOMAIN Pending : Pending[k] = t})
        + Cardinality({w \in Worker : task[w] = t})
        + Cardinality({t} \cap done) + Cardinality({t} \cap dropped)
      = IF t < i THEN 1 ELSE 0

\* A worker stays parked only while there are enough awake workers for the
\* tasks queued, each about to look at the queue by itself: one signal per task
\* (main.c:95) is enough although workers race each other, and wakeups that
\* nobody asked for, to the tasks (main.c:31-33).
NoTaskWaitsForASleeper ==
  lock = None /\ Parked # {} =>
    queued <= Cardinality({w \in Worker : pc[w] = "lock"})

\* When the mutex and the condition are destroyed (main.c:71-76) nobody holds
\* the one, waits for the other, or will touch the pool again.
DestroyedUnused ==
  pc[Main] = "destroyed" =>
    lock = None /\ \A w \in Worker : pc[w] = "exited" /\ task[w] = None

(* What the steps preserve together, from which the invariants above follow. *)

Queued == {Pending[k] : k \in 1..queued}
Awake == {w \in Worker : pc[w] \in {"lock", "check", "take"}}

\* Whoever is in a critical section holds the mutex, so that there is one at most.
MutexHeld ==
  \A t \in Thread :
    lock = t <=> pc[t] \in {"check", "take", "add", "publish", "stop"}

\* What a worker has seen of the ring, and of stop, stays true while it is inside.
InHand ==
  \A w \in Worker :
    /\ pc[w] \in WorkerAt
    /\ task[w] # None <=> pc[w] \in {"take", "run"}
    /\ pc[w] = "take" => ~ stop /\ HasTask /\ task[w] = Pending[1]

\* Main adds every task before it stops the pool, once, and what it has seen of
\* the ring stays true while it is inside.
MainInOrder ==
  /\ pc[Main] \in MainAt
  /\ pc[Main] \in {"add", "publish"} => i <= N_TASKS
  /\ pc[Main] = "publish" => HasRoom /\ task_queue[queue_back] = i
  /\ stop <=> pc[Main] \in {"join", "destroyed"}
  /\ pc[Main] = "destroyed" => Joined

\* The tasks added so far are in the ring, running, done or dropped, and in one
\* of these places only.
TasksApart ==
  /\ queue_back = (queue_front + queued) % QUEUE_SIZE
  /\ Queued \cup Running \cup done \cup dropped = 1..(i - 1)
  /\ \A j, k \in 1..queued : Pending[j] = Pending[k] => j = k
  /\ \A v, w \in Worker :
       pc[v] = "run" /\ pc[w] = "run" /\ task[v] = task[w] => v = w
  /\ Queued \cap (Running \cup done \cup dropped) = {}
  /\ Running \cap (done \cup dropped) = {}
  /\ done \cap dropped = {}

\* There are as many workers awake as tasks queued, or nobody sleeps.
EnoughAwake ==
  /\ Parked # {} => queued <= Cardinality(Awake)
  /\ stop => Parked = {}

\* Inductive: it is what ThreadPoolProofs proves.
IInv ==
  TypeOK /\ MutexHeld /\ InHand /\ MainInOrder /\ TasksApart /\ EnoughAwake

\* The pool is a task queue: it starts tasks in the order they were added.
Queue == INSTANCE TaskQueue WITH pending <- Pending, running <- Running

ImplementsTaskQueue == Queue!Spec

\* A stopped pool ends: destroy returns, though the stop may find threads
\* parked, about to park, waiting for the mutex or running a task.
DestroyReturns == stop ~> pc[Main] = "destroyed"

\* Unless the pool is stopped first, a task that was queued is run
\* (main.c:29-47, 95), however long main sleeps before it stops the pool.
QueuedTaskRuns ==
  \A t \in Task :
    (\E k \in DOMAIN Pending : Pending[k] = t) ~> (t \in done \/ stop)
=============================================================================
