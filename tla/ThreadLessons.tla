--------------------------- MODULE ThreadLessons ---------------------------
(***************************************************************************)
(* The lesson programs of 03-posix-threads whose threads share memory:     *)
(* race.c, mutex.c and spinlock.c increment one counter, the threads of    *)
(* 02_pthread_basics are all handed the address of one structure, and      *)
(* semaphores.c signals an event.  main is the same in all of them: create *)
(* every thread, then join every thread.                                   *)
(*                                                                         *)
(* counter++ is a load and a store.  It is a data race without a lock; as  *)
(* built without optimisation each iteration loads and stores, and an      *)
(* optimiser may make one addition of what is left of the loop.            *)
(***************************************************************************)
EXTENDS Integers, FiniteSets

CONSTANTS
  THREAD_COUNT,  \* threads that main creates (10 in the source)
  ROUNDS,        \* increments of each (1000000 in the source)
  None           \* no thread, nothing printed

ASSUME CountAssumption ==
  /\ THREAD_COUNT \in Nat \ {0, 1}
  /\ ROUNDS \in Nat \ {0, 1}
  /\ None \notin Int

VARIABLES
  program,  \* the program that runs
  main,     \* where main is: see Main
  created,  \* threads created so far
  at,       \* what each thread does next
  counter,  \* the shared counter
  reg,      \* the value of counter a thread has loaded
  left,     \* increments a thread has still to do
  lock,     \* who holds counter_lock
  sem,      \* the semaphore
  arg1,     \* the field of myargs that main sets
  printed   \* the number a thread printed

memory == <<counter, reg, left>>
vars == <<program, main, created, at, memory, lock, sem, arg1, printed>>

-----------------------------------------------------------------------------
Program == {"race", "mutex", "spinlock", "basics", "semaphores"}
Locking == {"mutex", "spinlock"}
Counting == {"race"} \cup Locking

\* "failed": main returns because pthread_create failed, its frame is gone and
\* the process is about to end.
Main == {"create", "join", "failed", "ended"}

\* The threads are numbered as main creates them.
Thread == 0..(THREAD_COUNT - 1)
Threads == IF program = "semaphores" THEN {0, 1} ELSE Thread
WAITER == 0

At == {"new", "lock", "load", "store", "unlock", "print", "arg", "wait", "post", "done"}

\* Slip: a thread starts its loop without the lock.
FirstUnlocked(t) ==
  IF program \in Counting THEN "load"
  ELSE IF program = "basics" THEN "arg"
  ELSE IF t = WAITER THEN "wait" ELSE "post"

\* What a thread does first.
First(t) ==
  CASE program = "race" -> "load"
    [] program \in Locking -> "lock"
    [] program = "basics" -> "arg"
    [] program = "semaphores" -> IF t = WAITER THEN "wait" ELSE "post"

Goto(t, label) == at' = [at EXCEPT ![t] = label]

-----------------------------------------------------------------------------
\* Slip: main counts from one.
ArgFromOne == created + 1

\* Slip: main sets the argument after it creates the thread.
ArgLate == IF created = 0 THEN 0 ELSE created - 1

\* What main puts into myargs before it creates the next thread.
Arg == created

Init ==
  /\ program \in Program
  /\ main = "create"
  /\ created = 0
  /\ at = [t \in Thread |-> "new"]
  /\ counter = 0
  /\ reg = [t \in Thread |-> 0]
  /\ left = [t \in Thread |-> ROUNDS]
  /\ lock = None
  /\ sem = 0
  /\ arg1 = 0
  /\ printed = [t \in Thread |-> None]

\* arg1 is set, though not every program looks at it, and the thread created.
Create ==
  /\ main = "create"
  /\ created < Cardinality(Threads)
  /\ arg1' = Arg
  /\ created' = created + 1
  /\ Goto(created, First(created))
  /\ UNCHANGED <<program, main, memory, lock, sem, printed>>

\* "return -1" in the middle of the loop.  semaphores.c does not check (lines 35-36):
\* there every thread is created.
CreateFails ==
  /\ main = "create"
  /\ created < Cardinality(Threads)
  /\ program # "semaphores"
  /\ arg1' = Arg
  /\ main' = "failed"
  /\ UNCHANGED <<program, created, at, memory, lock, sem, printed>>

Created ==
  /\ main = "create"
  /\ created = Cardinality(Threads)
  /\ main' = "join"
  /\ UNCHANGED <<program, created, at, memory, lock, sem, arg1, printed>>

\* Every thread is joined; the process ends, whoever runs.
End ==
  /\ \/ main = "join" /\ \A t \in Threads : at[t] = "done"
     \/ main = "failed"
  /\ main' = "ended"
  /\ UNCHANGED <<program, created, at, memory, lock, sem, arg1, printed>>

-----------------------------------------------------------------------------
(* The threads.                                                            *)

Runs(t, label) == main # "ended" /\ at[t] = label

Lock(t) ==
  /\ Runs(t, "lock")
  /\ lock = None
  /\ lock' = t
  /\ Goto(t, "load")
  /\ UNCHANGED <<program, main, created, memory, sem, arg1, printed>>

Load(t) ==
  /\ Runs(t, "load")
  /\ reg' = [reg EXCEPT ![t] = counter]
  /\ Goto(t, "store")
  /\ UNCHANGED <<program, main, created, counter, left, lock, sem, arg1, printed>>

AfterLoop == IF program \in Locking THEN "unlock" ELSE "print"

\* The increments one store stands for.
Merged(t) == {1, left[t]}

Store(t) ==
  /\ Runs(t, "store")
  /\ \E n \in Merged(t) :
       /\ counter' = reg[t] + n
       /\ left' = [left EXCEPT ![t] = @ - n]
  /\ Goto(t, IF left'[t] = 0 THEN AfterLoop ELSE "load")
  /\ UNCHANGED <<program, main, created, reg, lock, sem, arg1, printed>>

Unlock(t) ==
  /\ Runs(t, "unlock")
  /\ lock' = None
  /\ Goto(t, "print")
  /\ UNCHANGED <<program, main, created, memory, sem, arg1, printed>>

\* Slip: what is printed is the value that the last increment started from.
CountSeenBefore(t) == reg[t]

CountSeen(t) == counter

PrintCount(t) ==
  /\ Runs(t, "print")
  /\ printed' = [printed EXCEPT ![t] = CountSeen(t)]
  /\ Goto(t, "done")
  /\ UNCHANGED <<program, main, created, memory, lock, sem, arg1>>

\* 02_pthread_basics: args->arg1, which is anything, here None, once main has
\* returned.
PrintArg(t) ==
  /\ Runs(t, "arg")
  /\ printed' = [printed EXCEPT ![t] = IF main = "failed" THEN None ELSE arg1]
  /\ Goto(t, "done")
  /\ UNCHANGED <<program, main, created, memory, lock, sem, arg1>>

\* sem_wait.
Wait(t) ==
  /\ Runs(t, "wait")
  /\ sem > 0
  /\ sem' = sem - 1
  /\ Goto(t, "done")
  /\ UNCHANGED <<program, main, created, memory, lock, arg1, printed>>

\* Slip: an event that comes before main has started everybody is forgotten.
PostedToWaiter == IF at[WAITER] = "wait" /\ main = "join" THEN 1 ELSE 0

Posted == sem + 1

\* The work is done; sem_post.
Post(t) ==
  /\ Runs(t, "post")
  /\ sem' = Posted
  /\ Goto(t, "done")
  /\ UNCHANGED <<program, main, created, memory, lock, arg1, printed>>

-----------------------------------------------------------------------------
ThreadStep(t) ==
  \/ Lock(t) \/ Load(t) \/ Store(t) \/ Unlock(t) \/ PrintCount(t)
  \/ PrintArg(t) \/ Wait(t) \/ Post(t)

MainStep == Create \/ CreateFails \/ Created \/ End

Next == MainStep \/ \E t \in Thread : ThreadStep(t)

Spec == Init /\ [][Next]_vars

(* Every thread is scheduled; each asks for the lock once, so that it is   *)
(* free for good in the end and weak fairness is enough.                   *)
FairSpec ==
  Spec /\ WF_vars(MainStep) /\ \A t \in Thread : WF_vars(ThreadStep(t))

-----------------------------------------------------------------------------
Done == {t \in Threads : at[t] = "done"}
TOTAL == THREAD_COUNT * ROUNDS

\* The increments that the threads have carried out: each is a thread and what
\* it had left before.
Carried == {e \in Thread \X (1..ROUNDS) : e[2] > left[e[1]]}
Increments == Cardinality(Carried)

TypeOK ==
  /\ program \in Program
  /\ main \in Main
  /\ created \in 0..THREAD_COUNT
  /\ at \in [Thread -> At]
  /\ counter \in 0..TOTAL
  /\ reg \in [Thread -> 0..TOTAL]
  /\ left \in [Thread -> 0..ROUNDS]
  /\ lock \in Thread \cup {None}
  /\ sem \in 0..1
  /\ arg1 \in Thread
  /\ printed \in [Thread -> 0..TOTAL \cup {None}]

\* With a lock no increment is lost (mutex.c:19-25, spinlock.c:15-21), at any
\* moment and though a create fails; without one (race.c:16-18) updates are
\* lost, but when all threads are done at least two are left: whoever stores
\* last has loaded the counter again after a store of its own, or adds all of
\* its increments at once.
CountedAtLeast ==
  /\ program \in Locking => counter = Increments
  /\ program = "race" /\ Done = Thread => counter \in 2..TOTAL

\* The numbers printed after the unlock (mutex.c:27, spinlock.c:23) may be from
\* the middle of another thread's loop, but the k-th thread to leave the lock
\* prints at least k loops: fewer than k threads print less, so that somebody
\* prints the total.
PrintsWhatIsDone ==
  program \in Locking =>
    \A k \in 1..THREAD_COUNT :
      Cardinality({t \in Done : printed[t] < k * ROUNDS}) < k

\* A thread never sees an argument older than its own (02_pthread_basics,
\* main.c:25-26, 13): main has set it before the thread starts, and only
\* increases it; a later thread's it may well see.  (None: main has returned.)
ArgNotOlder ==
  program = "basics" =>
    \A t \in Done : printed[t] # None => printed[t] >= t

(* What the steps preserve together, from which the invariants above follow. *)

\* Where a thread of each program may be, once it was created.
Places(t) ==
  CASE program = "race" -> {"load", "store", "print", "done"}
    [] program \in Locking -> {"lock", "load", "store", "unlock", "print", "done"}
    [] program = "basics" -> {"arg", "done"}
    [] program = "semaphores" -> IF t = WAITER THEN {"wait", "done"} ELSE {"post", "done"}

\* Threads are created in order, and each runs its own program's code.
ThreadsInOrder ==
  /\ created <= Cardinality(Threads)
  /\ arg1 >= created - 1
  /\ \A t \in Thread :
       IF t < created THEN at[t] \in Places(t) ELSE at[t] = "new"

\* A thread that is between lock and unlock holds the lock, and nobody else; it
\* stores what it loaded, and that is the count.
LockProtects ==
  /\ \A t \in Thread :
       program \in Locking /\ at[t] \in {"load", "store", "unlock"} <=> lock = t
  /\ program \in Locking =>
       /\ counter = Increments
       /\ \A t \in Thread : at[t] = "store" => reg[t] = counter

\* A thread leaves its loop when nothing is left of it, and prints a number.
LoopsCounted ==
  \A t \in Thread :
    /\ left[t] = 0 <=>
         \/ at[t] \in {"unlock", "print"}
         \/ at[t] = "done" /\ program \in Counting
    /\ at[t] \in {"new", "lock"} => left[t] = ROUNDS
    /\ at[t] = "done" /\ program \in Counting => printed[t] # None

\* What a race leaves of the count: no more than was added, and something of
\* whatever was stored before a thread loaded it again.
RaceLeaves ==
  /\ counter <= Increments
  /\ \A t \in Thread : reg[t] <= Increments
  /\ program = "race" =>
       /\ (\E t \in Thread : left[t] < ROUNDS) => counter >= 1
       /\ \A t \in Thread : at[t] = "store" /\ left[t] < ROUNDS => reg[t] >= 1
       /\ (\A t \in Thread : left[t] = 0) => counter >= 2

\* The event is there from the post to the end of the wait, which does not end
\* before the post.
EventKept ==
  /\ sem = IF program = "semaphores" /\ at[1] = "done" /\ at[WAITER] # "done" THEN 1 ELSE 0
  /\ program = "semaphores" /\ at[WAITER] = "done" => at[1] = "done"

\* Inductive: it is what ThreadLessonsProofs proves.
IInv ==
  /\ TypeOK /\ ThreadsInOrder /\ LockProtects /\ LoopsCounted /\ RaceLeaves
  /\ EventKept /\ PrintsWhatIsDone /\ ArgNotOlder

\* Each program ends with every thread joined, unless a thread could not be
\* created: no thread is left at the lock, and the semaphore (semaphores.c:17,
\* 24) keeps the event for a waiter that comes late.
ProgramEnds == <>(main = "ended")
=============================================================================
