---------------------------- MODULE DurableTable ----------------------------
(***************************************************************************)
(* What the employee database promises across crashes, without its file    *)
(* format: a restart finds the table as it was before or after the add     *)
(* that was being saved, or a file it refuses; it never finds anything     *)
(* else.  A start whose read fails keeps the length of the table without   *)
(* its contents, and the next add puts that in their place.  EmployeeStore *)
(* implements this module.                                                 *)
(***************************************************************************)
EXTENDS Naturals, Sequences

CONSTANTS
  Employee,   \* what a client may add
  Garbage,    \* an employee whose name was not read
  MAX_COUNT,  \* the most employees the table holds
  Absent,     \* there is no file
  Torn        \* there is a file, and opening it is refused

VARIABLES
  up,      \* the server runs
  table,   \* the server's table, when it runs
  unread,  \* employees it knows the number of only
  dirty,   \* an add is not completely saved
  stored   \* what a server started now would find

vars == <<up, table, unread, dirty, stored>>

Init ==
  /\ up = FALSE
  /\ table = <<>>
  /\ unread = 0
  /\ dirty = FALSE
  /\ stored = Absent

\* A new database is not openable before its first add is saved.
Create ==
  /\ ~ up
  /\ stored = Absent
  /\ up' = TRUE
  /\ stored' = Torn
  /\ UNCHANGED <<table, unread, dirty>>

Open ==
  /\ ~ up
  /\ stored \notin {Absent, Torn}
  /\ up' = TRUE
  /\ \/ table' = stored /\ unread' = 0
     \/ table' = <<>> /\ unread' = Len(stored)
  /\ UNCHANGED <<dirty, stored>>

Add(e) ==
  /\ up /\ ~ dirty
  /\ unread + Len(table) < MAX_COUNT
  /\ table' = [k \in 1..unread |-> Garbage] \o Append(table, e)
  /\ unread' = 0
  /\ dirty' = TRUE
  /\ UNCHANGED <<up, stored>>

\* Saving rewrites the file in place: it is refused until it is complete.
Tear ==
  /\ dirty
  /\ stored' = Torn
  /\ UNCHANGED <<up, table, unread, dirty>>

Store ==
  /\ dirty
  /\ stored' = table
  /\ UNCHANGED <<up, table, unread, dirty>>

Saved ==
  /\ dirty
  /\ stored \in {table, Torn}
  /\ dirty' = FALSE
  /\ UNCHANGED <<up, table, unread, stored>>

Crash ==
  /\ up
  /\ up' = FALSE
  /\ table' = <<>>
  /\ unread' = 0
  /\ dirty' = FALSE
  /\ UNCHANGED stored

Next ==
  \/ Create \/ Open
  \/ \E e \in Employee : Add(e)
  \/ Tear \/ Store \/ Saved
  \/ Crash

Spec == Init /\ [][Next]_vars
=============================================================================
