----------------------------- MODULE TaskQueue -----------------------------
(***************************************************************************)
(* What the thread pool promises, without its threads: tasks are started   *)
(* in the order they were accepted, each at most once, none once the pool  *)
(* is stopped, and one is turned away only when as many are pending as the *)
(* queue holds.  ThreadPool implements this module.                        *)
(***************************************************************************)
EXTENDS Naturals, Sequences

CONSTANTS
  Task,       \* the tasks the program submits
  QUEUE_SIZE  \* the most that may be pending

VARIABLES
  pending,  \* tasks accepted and not started, oldest first
  running,  \* tasks started and not finished
  done,     \* tasks finished
  dropped,  \* tasks turned away
  stop      \* the pool starts no more tasks

vars == <<pending, running, done, dropped, stop>>

Init ==
  /\ pending = <<>>
  /\ running = {}
  /\ done = {}
  /\ dropped = {}
  /\ stop = FALSE

Seen == {pending[k] : k \in DOMAIN pending} \cup running \cup done \cup dropped

Accept(t) ==
  /\ t \notin Seen
  /\ Len(pending) < QUEUE_SIZE
  /\ pending' = Append(pending, t)
  /\ UNCHANGED <<running, done, dropped, stop>>

Drop(t) ==
  /\ t \notin Seen
  /\ Len(pending) = QUEUE_SIZE
  /\ dropped' = dropped \cup {t}
  /\ UNCHANGED <<pending, running, done, stop>>

Start ==
  /\ ~ stop
  /\ pending # <<>>
  /\ running' = running \cup {Head(pending)}
  /\ pending' = Tail(pending)
  /\ UNCHANGED <<done, dropped, stop>>

Finish(t) ==
  /\ t \in running
  /\ running' = running \ {t}
  /\ done' = done \cup {t}
  /\ UNCHANGED <<pending, dropped, stop>>

Stop ==
  /\ ~ stop
  /\ stop' = TRUE
  /\ UNCHANGED <<pending, running, done, dropped>>

Next == (\E t \in Task : Accept(t) \/ Drop(t) \/ Finish(t)) \/ Start \/ Stop

Spec == Init /\ [][Next]_vars
=============================================================================
