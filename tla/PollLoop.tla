------------------------------ MODULE PollLoop ------------------------------
(***************************************************************************)
(* The server's poll loop (src/server/main.c, poll_loop) over the slot     *)
(* table of src/server/server_poll.c, with the kernel objects it uses: the *)
(* listen queue, the process's descriptors and what each connection has    *)
(* received.                                                               *)
(*                                                                         *)
(* One action is one system call of the loop and the local code up to the  *)
(* next one, so that peers act between any two calls.  What a message does *)
(* to the database is left to the other modules: here handle_client_fsm is *)
(* only the slot states it may leave behind.                               *)
(***************************************************************************)
EXTENDS Integers, Sequences, FiniteSets

CONSTANTS
  Conn,         \* the peers; each has at most one connection at a time
  None,         \* "no connection": the owner of a descriptor that is not open
  MAX_CLIENTS,  \* slots of the table (256 in the source)
  BACKLOG,      \* connections the listen queue holds (10 in the source)
  MAX_UNREAD    \* bound: chunks a peer has sent that were not read yet

ASSUME ConnAssumption == None \notin Conn
ASSUME SizeAssumption ==
  /\ MAX_CLIENTS \in Nat \ {0}
  /\ BACKLOG \in Nat \ {0}
  /\ MAX_UNREAD \in Nat \ {0}

VARIABLES
  pc,             \* the call the loop makes next: "poll", "accept" or "scan"
  client_states,  \* the slot table: descriptor and protocol state per slot
  fds,            \* the array handed to poll; entry 0 is the listening socket
  nfds,           \* how many entries of fds the next poll looks at
  n_events,       \* ready entries of this round not handled yet
  i,              \* the entry the scan looks at
  polled,         \* history: entries after entry 0 filled in by the last poll
  backlog,        \* the listen queue
  peer,           \* the connection behind each descriptor the process may hold
  unread,         \* chunks received and not read, per connection
  hup             \* connections whose peer hung up

loopVars == <<pc, n_events, i, polled>>
tableVars == <<client_states, fds, nfds>>
kernelVars == <<backlog, peer, unread, hup>>
vars == <<loopVars, tableVars, kernelVars>>

-----------------------------------------------------------------------------
Slot == 0..(MAX_CLIENTS - 1)
Entry == 0..MAX_CLIENTS
State == {"NEW", "HELLO", "MSG", "DISCONNECTED"}

\* Descriptors 0 to 3 are the standard streams and the database file.  One
\* more than there are slots: a connection is accepted before it is refused.
LISTEN_FD == 4
ClientFd == 5..(MAX_CLIENTS + 5)

Open == {peer[fd] : fd \in ClientFd} \ {None}
Waiting == {backlog[k] : k \in DOMAIN backlog}

\* What poll reports as POLLIN: a connection to accept, data, or end of file.
Readable(fd) ==
  \/ fd = LISTEN_FD /\ backlog # <<>>
  \/ /\ fd \in ClientFd
     /\ peer[fd] \in Conn
     /\ unread[peer[fd]] > 0 \/ peer[fd] \in hup

Active == {s \in Slot : client_states[s].fd # -1}

\* Slip: the state is tested instead of the descriptor.
FirstByState(s) ==
  /\ client_states[s].state # "HELLO"
  /\ \A t \in Slot : t < s => client_states[t].state = "HELLO"

\* find_free_slot and find_slot_by_fd: the first slot that satisfies the test.
FirstFree(s) ==
  /\ client_states[s].fd = -1
  /\ \A t \in Slot : t < s => client_states[t].fd # -1

FirstWithFd(s, fd) ==
  /\ client_states[s].fd = fd
  /\ \A t \in Slot : t < s => client_states[t].fd # fd

-----------------------------------------------------------------------------
Init ==
  /\ pc = "poll"
  /\ client_states = [s \in Slot |-> [fd |-> -1, state |-> "NEW"]]
  /\ fds = [k \in Entry |->
              [fd |-> IF k = 0 THEN LISTEN_FD ELSE 0, revents |-> FALSE]]
  /\ nfds = 1
  /\ n_events = 0
  /\ i = 1
  /\ polled = 0
  /\ backlog = <<>>
  /\ peer = [fd \in ClientFd |-> None]
  /\ unread = [c \in Conn |-> 0]
  /\ hup = {}

-----------------------------------------------------------------------------
(* The peers, at any time.                                                 *)

Connect(c) ==
  /\ c \notin Waiting \cup Open
  /\ Len(backlog) < BACKLOG
  /\ backlog' = Append(backlog, c)
  /\ UNCHANGED <<loopVars, tableVars, peer, unread, hup>>

Send(c) ==
  /\ c \in (Waiting \cup Open) \ hup
  /\ unread[c] < MAX_UNREAD
  /\ unread' = [unread EXCEPT ![c] = @ + 1]
  /\ UNCHANGED <<loopVars, tableVars, backlog, peer, hup>>

\* An orderly close leaves what was sent to be read; a reset discards it.
Hangup(c) ==
  /\ c \in (Waiting \cup Open) \ hup
  /\ hup' = hup \cup {c}
  /\ \E left \in {0, unread[c]} : unread' = [unread EXCEPT ![c] = left]
  /\ UNCHANGED <<loopVars, tableVars, backlog, peer>>

-----------------------------------------------------------------------------
(* Rebuild the array from the slots in use, then poll.  The array is not   *)
(* cleared: entries past the last slot in use keep the descriptor and the  *)
(* revents of an earlier round.                                            *)

\* Slip: not offset by one for the listener.
PositionFromZero(s) == Cardinality({t \in Active : t < s})

\* The entry a slot in use is copied to.
Position(s) == Cardinality({t \in Active : t <= s})

Rebuilt ==
  [k \in Entry |->
    IF \E s \in Active : Position(s) = k
    THEN [fds[k] EXCEPT
            !.fd = client_states[CHOOSE s \in Active : Position(s) = k].fd]
    ELSE fds[k]]

\* (The \E bind a value each, which TLC then computes once.)
Poll ==
  /\ pc = "poll"
  /\ \E rebuilt \in {Rebuilt} :
       \E ready \in {{k \in 0..(nfds - 1) : Readable(rebuilt[k].fd)}} :
         /\ ready # {}  \* no timeout: the call blocks until something is ready
         /\ fds' = [k \in Entry |->
                      IF k < nfds THEN [rebuilt[k] EXCEPT !.revents = k \in ready]
                                  ELSE rebuilt[k]]
         /\ n_events' = Cardinality(ready)
         /\ pc' = IF 0 \in ready THEN "accept" ELSE "scan"
  /\ i' = 1
  /\ polled' = nfds - 1
  /\ UNCHANGED <<client_states, nfds, kernelVars>>

-----------------------------------------------------------------------------
(* Accept one connection, under the lowest descriptor that is not open.    *)

LowestFd(fd) ==
  /\ peer[fd] = None
  /\ \A g \in ClientFd : peer[g] = None => fd <= g

AcceptSlot ==
  /\ pc = "accept"
  /\ \E s \in Slot, fd \in ClientFd :
       /\ FirstFree(s)
       /\ LowestFd(fd)
       /\ client_states' = [client_states EXCEPT
                              ![s] = [fd |-> fd, state |-> "HELLO"]]
       /\ peer' = [peer EXCEPT ![fd] = Head(backlog)]
  /\ backlog' = Tail(backlog)
  /\ nfds' = nfds + 1
  /\ n_events' = n_events - 1
  /\ pc' = "scan"
  /\ UNCHANGED <<fds, i, polled, unread, hup>>

\* Slip: the next round starts at once, as after an accept that fails.
AcceptFullContinue ==
  /\ pc = "accept"
  /\ Active = Slot
  /\ backlog' = Tail(backlog)
  /\ unread' = [unread EXCEPT ![Head(backlog)] = 0]
  /\ hup' = hup \ {Head(backlog)}
  /\ n_events' = 0
  /\ pc' = "poll"
  /\ UNCHANGED <<tableVars, i, polled, peer>>

\* "Server full: closing new connection"
AcceptFull ==
  /\ pc = "accept"
  /\ Active = Slot
  /\ backlog' = Tail(backlog)
  /\ unread' = [unread EXCEPT ![Head(backlog)] = 0]
  /\ hup' = hup \ {Head(backlog)}
  /\ n_events' = n_events - 1
  /\ pc' = "scan"
  /\ UNCHANGED <<tableVars, i, polled, peer>>

\* accept returned -1: "continue", without looking at the other entries.
AcceptFails ==
  /\ pc = "accept"
  /\ pc' = "poll"
  /\ n_events' = 0
  /\ UNCHANGED <<tableVars, i, polled, kernelVars>>

-----------------------------------------------------------------------------
(* Look at one entry.  n_events and i go out of scope when the loop ends,  *)
(* and restart from the values above.  There is no step for an entry whose *)
(* descriptor no slot holds: the code would read client_states[-1], which  *)
(* ScanIsSound says cannot happen.                                         *)

\* Slip: the whole array is scanned, whatever poll reported.
ScanningAll == pc = "scan" /\ i <= nfds

\* Slip: the scan stops one entry early.
ScanningShort == pc = "scan" /\ i < nfds - 1 /\ n_events > 0

Scanning == pc = "scan" /\ i <= nfds /\ n_events > 0

ScanEnd ==
  /\ pc = "scan"
  /\ ~ Scanning
  /\ pc' = "poll"
  /\ n_events' = 0
  /\ i' = 1
  /\ UNCHANGED <<polled, tableVars, kernelVars>>

ScanSkip ==
  /\ Scanning
  /\ ~ fds[i].revents
  /\ i' = i + 1
  /\ UNCHANGED <<pc, n_events, polled, tableVars, kernelVars>>

\* handle_client_fsm may take a slot from STATE_HELLO to STATE_MSG.
AfterMessage(state) == IF state = "HELLO" THEN {"HELLO", "MSG"} ELSE {state}

\* read, from the descriptor of the slot found, returned data: as much of it as
\* the kernel chose to hand over.
ScanData ==
  /\ Scanning
  /\ fds[i].revents
  /\ \E s \in Slot, c \in Conn, left \in 0..MAX_UNREAD :
       /\ FirstWithFd(s, fds[i].fd)
       /\ c = peer[client_states[s].fd]
       /\ left < unread[c]
       /\ unread' = [unread EXCEPT ![c] = left]
       /\ \E state \in AfterMessage(client_states[s].state) :
            client_states' = [client_states EXCEPT ![s].state = state]
  /\ n_events' = n_events - 1
  /\ i' = i + 1
  /\ UNCHANGED <<pc, polled, fds, nfds, backlog, peer, hup>>

\* Slip: the connection is closed at the hangup, with data still to be read.
ScanCloseEarly ==
  /\ Scanning
  /\ fds[i].revents
  /\ \E s \in Slot, c \in Conn :
       /\ FirstWithFd(s, fds[i].fd)
       /\ c = peer[client_states[s].fd]
       /\ c \in hup
       /\ client_states' = [client_states EXCEPT
                              ![s] = [fd |-> -1, state |-> "DISCONNECTED"]]
       /\ hup' = hup \ {c}
       /\ unread' = [unread EXCEPT ![c] = 0]
  /\ peer' = [peer EXCEPT ![fds[i].fd] = None]
  /\ nfds' = nfds - 1
  /\ n_events' = n_events - 1
  /\ i' = i + 1
  /\ UNCHANGED <<pc, polled, fds, backlog>>

\* read returned 0 or -1: the entry's descriptor is closed, the slot freed and the
\* array one entry shorter.
ScanClose ==
  /\ Scanning
  /\ fds[i].revents
  /\ \E s \in Slot, c \in Conn :
       /\ FirstWithFd(s, fds[i].fd)
       /\ c = peer[client_states[s].fd]
       /\ c \in hup
       /\ unread[c] = 0
       /\ client_states' = [client_states EXCEPT
                              ![s] = [fd |-> -1, state |-> "DISCONNECTED"]]
       /\ hup' = hup \ {c}
  /\ peer' = [peer EXCEPT ![fds[i].fd] = None]
  /\ nfds' = nfds - 1
  /\ n_events' = n_events - 1
  /\ i' = i + 1
  /\ UNCHANGED <<pc, polled, fds, backlog, unread>>

-----------------------------------------------------------------------------
Server ==
  Poll \/ AcceptSlot \/ AcceptFull \/ AcceptFails
    \/ ScanEnd \/ ScanSkip \/ ScanData \/ ScanClose

Next == (\E c \in Conn : Connect(c) \/ Send(c) \/ Hangup(c)) \/ Server

Spec == Init /\ [][Next]_vars

(* The loop keeps running: every call but poll returns, poll returns when  *)
(* something is ready, and accept does not fail forever on a queue that    *)
(* holds a connection.  That every call returns includes the writes of     *)
(* handle_client_fsm (server_poll.c:34-100), which block while a peer does *)
(* not read its answers: DbSystem shows when they return.  Otherwise       *)
(* nothing is assumed of the peers.  (No step but a step of the server     *)
(* changes loopVars, and each of these does.)                              *)
Fairness == WF_loopVars(Server) /\ SF_loopVars(AcceptSlot \/ AcceptFull)

FairSpec == Spec /\ Fairness

-----------------------------------------------------------------------------
TypeOK ==
  /\ pc \in {"poll", "accept", "scan"}
  /\ client_states \in [Slot -> [fd : ClientFd \cup {-1}, state : State]]
  /\ fds \in [Entry -> [fd : ClientFd \cup {0, LISTEN_FD}, revents : BOOLEAN]]
  /\ nfds \in 1..(MAX_CLIENTS + 1)
  /\ n_events \in 0..(MAX_CLIENTS + 1)
  /\ i \in 1..(MAX_CLIENTS + 1)
  /\ polled \in 0..MAX_CLIENTS
  /\ backlog \in Seq(Conn)
  /\ peer \in [ClientFd -> Conn \cup {None}]
  /\ unread \in [Conn -> 0..MAX_UNREAD]
  /\ hup \in SUBSET Conn

\* The scan (main.c:124-150) runs up to nfds, one entry past the array poll was
\* given and possibly more after an accept, and relies on n_events alone to
\* stop in time.  It never looks at an entry poll did not fill in this round,
\* and when it reads, some slot holds the descriptor and the read will not
\* block the server: neither the leftovers of an earlier round, nor a
\* connection closed or accepted meanwhile, are mistaken for an event.
ScanIsSound ==
  Scanning =>
    /\ i <= polled
    /\ fds[i].revents =>
         /\ Readable(fds[i].fd)
         /\ \E s \in Slot : client_states[s].fd = fds[i].fd

\* Between any two calls the table and the kernel agree: the open client
\* descriptors are exactly those the slots hold, no two slots share one, no
\* two stand for the same connection, and nfds counts them (main.c:116-117,
\* 135-143).  A descriptor held by no slot would never be polled or closed.
DescriptorsOwned ==
  /\ \A fd \in ClientFd :
       peer[fd] # None <=> \E s \in Slot : client_states[s].fd = fd
  /\ \A s, t \in Active : client_states[s].fd = client_states[t].fd => s = t
  /\ \A fd, g \in ClientFd : peer[fd] = peer[g] /\ fd # g => peer[fd] = None
  /\ nfds = Cardinality(Active) + 1

-----------------------------------------------------------------------------
(* What the steps preserve together: the properties above rest on the      *)
(* accounting of a round.                                                  *)

\* A connection waits at most once, and not while it is open.
BacklogDistinct ==
  /\ Waiting \cap Open = {}
  /\ \A j, k \in DOMAIN backlog : backlog[j] = backlog[k] => j = k

\* The entries poll filled in that are still to be looked at and are ready.
Pending == {k \in i..polled : fds[k].revents}

\* During a round (main.c:93-150) n_events counts the ready entries still to be
\* handled, the entries poll filled in stand for different descriptors, and
\* those still to be handled are held by a slot and are what poll reported.
RoundAccounted ==
  /\ fds[0].fd = LISTEN_FD
  /\ pc = "accept" => backlog # <<>> /\ i = 1
  /\ pc # "poll" =>
       /\ n_events = Cardinality(Pending) + (IF pc = "accept" THEN 1 ELSE 0)
       /\ \A j, k \in 1..polled : fds[j].fd = fds[k].fd => j = k
       /\ \A k \in i..polled :
            /\ fds[k].fd \in ClientFd
            /\ \E s \in Slot : client_states[s].fd = fds[k].fd
            /\ fds[k].revents => Readable(fds[k].fd)

\* Inductive: it is what PollLoopProofs proves, and it implies ScanIsSound.
IInv == TypeOK /\ DescriptorsOwned /\ BacklogDistinct /\ RoundAccounted

-----------------------------------------------------------------------------
\* The loop is a multiplexer: it admits only into a free slot, refuses only
\* when there is none, reads only what was sent, and closes a connection only
\* when its peer is gone and all its data was read.
Mux == INSTANCE Multiplexer WITH waiting <- Waiting, open <- Open

ImplementsMultiplexer == Mux!Spec

\* Under the fairness above, every queued connection is admitted or refused,
\* a connection with a full buffer is read, and one whose peer hung up is
\* closed, even though each close ends the scan one entry earlier, so that
\* ready entries are skipped (main.c:124, 143), and peers may come and go for
\* ever.
EveryPeerServed == Mux!Served
=============================================================================
