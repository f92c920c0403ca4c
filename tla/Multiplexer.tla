---------------------------- MODULE Multiplexer ----------------------------
(***************************************************************************)
(* What a single-threaded socket multiplexer promises the peers that       *)
(* connect to it, whatever system call it waits with.  A peer's connection *)
(* waits in the listen queue until it is admitted (there is a free slot)   *)
(* or refused (there is none); an admitted connection is read only when it *)
(* has data, and closed only once its peer hung up and all its data was    *)
(* read.  PollLoop and SelectLoop implement this module.                   *)
(***************************************************************************)
EXTENDS Naturals, FiniteSets

CONSTANTS
  Conn,         \* the peers; each has at most one connection at a time
  MAX_CLIENTS,  \* how many connections are admitted at the same time
  MAX_UNREAD    \* bound: chunks a peer has sent that were not read yet

VARIABLES
  waiting,  \* connections established by the kernel, not accepted yet
  open,     \* connections admitted and not closed by the server
  unread,   \* chunks received and not read, per connection
  hup       \* connections whose peer hung up

vars == <<waiting, open, unread, hup>>

Init ==
  /\ waiting = {}
  /\ open = {}
  /\ unread = [c \in Conn |-> 0]
  /\ hup = {}

-----------------------------------------------------------------------------
(* The peers.                                                              *)

Connect(c) ==
  /\ c \notin waiting \cup open
  /\ waiting' = waiting \cup {c}
  /\ UNCHANGED <<open, unread, hup>>

Send(c) ==
  /\ c \in (waiting \cup open) \ hup
  /\ unread[c] < MAX_UNREAD
  /\ unread' = [unread EXCEPT ![c] = @ + 1]
  /\ UNCHANGED <<waiting, open, hup>>

\* An orderly close leaves what was sent to be read; a reset discards it.
Hangup(c) ==
  /\ c \in (waiting \cup open) \ hup
  /\ hup' = hup \cup {c}
  /\ \E left \in {0, unread[c]} : unread' = [unread EXCEPT ![c] = left]
  /\ UNCHANGED <<waiting, open>>

-----------------------------------------------------------------------------
(* The server.                                                             *)

Admit(c) ==
  /\ c \in waiting
  /\ Cardinality(open) < MAX_CLIENTS
  /\ waiting' = waiting \ {c}
  /\ open' = open \cup {c}
  /\ UNCHANGED <<unread, hup>>

\* The connection and whatever its peer had sent on it are gone.
Refuse(c) ==
  /\ c \in waiting
  /\ Cardinality(open) = MAX_CLIENTS
  /\ waiting' = waiting \ {c}
  /\ unread' = [unread EXCEPT ![c] = 0]
  /\ hup' = hup \ {c}
  /\ UNCHANGED open

Read(c) ==
  /\ c \in open
  /\ \E n \in 1..unread[c] : unread' = [unread EXCEPT ![c] = @ - n]
  /\ UNCHANGED <<waiting, open, hup>>

Close(c) ==
  /\ c \in open \cap hup
  /\ unread[c] = 0
  /\ open' = open \ {c}
  /\ hup' = hup \ {c}
  /\ UNCHANGED <<waiting, unread>>

Next ==
  \E c \in Conn :
    \/ Connect(c) \/ Send(c) \/ Hangup(c)
    \/ Admit(c) \/ Refuse(c) \/ Read(c) \/ Close(c)

Spec == Init /\ [][Next]_vars

-----------------------------------------------------------------------------
\* c waits for the server: to be accepted or refused, to be read when no more
\* fits, or to be closed.
Owed(c) ==
  c \in waiting \/ (c \in open /\ (unread[c] = MAX_UNREAD \/ c \in hup))

\* No connection is left waiting, no connection that is always readable is left
\* unread, and no connection whose peer is gone is kept, however the other peers
\* behave: nobody is owed something from some point on for ever.
Served == \A c \in Conn : []<>~ Owed(c)
=============================================================================
