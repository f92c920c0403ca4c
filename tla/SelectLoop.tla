----------------------------- MODULE SelectLoop -----------------------------
(***************************************************************************)
(* The server of 04_advanced_techniques/select_multiplexing.c: the job of  *)
(* PollLoop done with descriptor sets, which are rebuilt from nothing in   *)
(* every round, and a scan over the slots.                                 *)
(*                                                                         *)
(* One action is one system call and the local code up to the next one.    *)
(* The state field of a slot is written and never read, and is left out.   *)
(***************************************************************************)
EXTENDS Integers, Sequences, FiniteSets

CONSTANTS
  Conn,         \* the peers; each has at most one connection at a time
  None,         \* "no connection": the owner of a descriptor that is not open
  MAX_CLIENTS,  \* slots of the table (256 in the source)
  BACKLOG,      \* connections the listen queue holds (10 in the source)
  MAX_UNREAD    \* bound: chunks a peer has sent that were not read yet

ASSUME ConnAssumption == None \notin Conn
ASSUME SizeAssumption ==
  /\ MAX_CLIENTS \in Nat \ {0}
  /\ BACKLOG \in Nat \ {0}
  /\ MAX_UNREAD \in Nat \ {0}

VARIABLES
  pc,             \* the call made next: "select", "accept" or "scan"
  client_states,  \* the descriptor in each slot, or -1
  read_fds,       \* what the last select left in the set
  i,              \* the slot the scan looks at
  backlog,        \* the listen queue
  peer,           \* the connection behind each descriptor
  unread,         \* chunks received and not read, per connection
  hup             \* connections whose peer hung up

loopVars == <<pc, client_states, read_fds, i>>
kernelVars == <<backlog, peer, unread, hup>>
vars == <<loopVars, kernelVars>>

-----------------------------------------------------------------------------
Slot == 0..(MAX_CLIENTS - 1)

\* Descriptors 0 to 2 are the standard streams.
LISTEN_FD == 3
ClientFd == 4..(MAX_CLIENTS + 4)

Open == {peer[fd] : fd \in ClientFd} \ {None}
Waiting == {backlog[k] : k \in DOMAIN backlog}
Held == {client_states[s] : s \in Slot} \ {-1}

Readable(fd) ==
  \/ fd = LISTEN_FD /\ backlog # <<>>
  \/ /\ fd \in ClientFd
     /\ peer[fd] \in Conn
     /\ unread[peer[fd]] > 0 \/ peer[fd] \in hup

\* Slip: the number of descriptors instead of one more than the largest.
NfdsByCount == LISTEN_FD + 1 + Cardinality(Held)

Nfds == CHOOSE n \in 1..(MAX_CLIENTS + 5) :
          /\ \A fd \in Held \cup {LISTEN_FD} : fd < n
          /\ n - 1 \in Held \cup {LISTEN_FD}

LowestFd(fd) ==
  /\ peer[fd] = None
  /\ \A g \in ClientFd : peer[g] = None => fd <= g

-----------------------------------------------------------------------------
Init ==
  /\ pc = "select"
  /\ client_states = [s \in Slot |-> -1]
  /\ read_fds = {}
  /\ i = 0
  /\ backlog = <<>>
  /\ peer = [fd \in ClientFd |-> None]
  /\ unread = [c \in Conn |-> 0]
  /\ hup = {}

-----------------------------------------------------------------------------
(* The peers, at any time.                                                 *)

Connect(c) ==
  /\ c \notin Waiting \cup Open
  /\ Len(backlog) < BACKLOG
  /\ backlog' = Append(backlog, c)
  /\ UNCHANGED <<loopVars, peer, unread, hup>>

Send(c) ==
  /\ c \in (Waiting \cup Open) \ hup
  /\ unread[c] < MAX_UNREAD
  /\ unread' = [unread EXCEPT ![c] = @ + 1]
  /\ UNCHANGED <<loopVars, backlog, peer, hup>>

\* An orderly close leaves what was sent to be read; a reset discards it.
Hangup(c) ==
  /\ c \in (Waiting \cup Open) \ hup
  /\ hup' = hup \cup {c}
  /\ \E left \in {0, unread[c]} : unread' = [unread EXCEPT ![c] = left]
  /\ UNCHANGED <<loopVars, backlog, peer>>

-----------------------------------------------------------------------------
\* FD_ZERO, FD_SET of the listener and every slot in use, select: of the
\* descriptors below nfds, those that are ready stay in the set.
Select ==
  /\ pc = "select"
  /\ read_fds' = {fd \in Held \cup {LISTEN_FD} : fd < Nfds /\ Readable(fd)}
  /\ read_fds' # {}  \* no timeout: the call blocks until something is ready
  /\ pc' = IF LISTEN_FD \in read_fds' THEN "accept" ELSE "scan"
  /\ UNCHANGED <<client_states, i, kernelVars>>

AcceptSlot ==
  /\ pc = "accept"
  /\ \E s \in Slot, fd \in ClientFd :
       /\ client_states[s] = -1 /\ \A t \in Slot : t < s => client_states[t] # -1
       /\ LowestFd(fd)
       /\ client_states' = [client_states EXCEPT ![s] = fd]
       /\ peer' = [peer EXCEPT ![fd] = Head(backlog)]
  /\ backlog' = Tail(backlog)
  /\ pc' = "scan"
  /\ UNCHANGED <<read_fds, i, unread, hup>>

\* "Server full: closing new connection"
AcceptFull ==
  /\ pc = "accept"
  /\ \A s \in Slot : client_states[s] # -1
  /\ backlog' = Tail(backlog)
  /\ unread' = [unread EXCEPT ![Head(backlog)] = 0]
  /\ hup' = hup \ {Head(backlog)}
  /\ pc' = "scan"
  /\ UNCHANGED <<client_states, read_fds, i, peer>>

\* accept returned -1: "continue", without looking at the slots.
AcceptFails ==
  /\ pc = "accept"
  /\ pc' = "select"
  /\ read_fds' = {}
  /\ UNCHANGED <<client_states, i, kernelVars>>

-----------------------------------------------------------------------------
\* Slip: the set is not asked.
ReadyAny(s) == client_states[s] # -1

Ready(s) == client_states[s] # -1 /\ client_states[s] \in read_fds

\* The next slot the scan reads: the first from i on that is in use and whose
\* descriptor is in the set.
NextReady(s) ==
  /\ s >= i
  /\ Ready(s)
  /\ \A t \in Slot : i <= t /\ t < s => ~ Ready(t)

\* Slip: the index is advanced twice.
AfterTwo(s) == s + 2

After(s) == s + 1

ScanData ==
  /\ pc = "scan"
  /\ \E s \in Slot, c \in Conn, left \in 0..MAX_UNREAD :
       /\ NextReady(s)
       /\ c = peer[client_states[s]]
       /\ left < unread[c]
       /\ unread' = [unread EXCEPT ![c] = left]
       /\ i' = After(s)
  /\ UNCHANGED <<pc, client_states, read_fds, backlog, peer, hup>>

\* Slip: the slot is kept when the connection is closed.
FreedNot(s) == client_states

Freed(s) == [client_states EXCEPT ![s] = -1]

\* read returned 0 or -1.
ScanClose ==
  /\ pc = "scan"
  /\ \E s \in Slot, c \in Conn :
       /\ NextReady(s)
       /\ c = peer[client_states[s]]
       /\ c \in hup /\ unread[c] = 0
       /\ peer' = [peer EXCEPT ![client_states[s]] = None]
       /\ client_states' = Freed(s)
       /\ hup' = hup \ {c}
       /\ i' = After(s)
  /\ UNCHANGED <<pc, read_fds, backlog, unread>>

\* i and read_fds start afresh in the next round.
ScanEnd ==
  /\ pc = "scan"
  /\ \A s \in Slot : ~ NextReady(s)
  /\ pc' = "select"
  /\ i' = 0
  /\ read_fds' = {}
  /\ UNCHANGED <<client_states, kernelVars>>

-----------------------------------------------------------------------------
Server ==
  Select \/ AcceptSlot \/ AcceptFull \/ AcceptFails
    \/ ScanData \/ ScanClose \/ ScanEnd

Next == (\E c \in Conn : Connect(c) \/ Send(c) \/ Hangup(c)) \/ Server

Spec == Init /\ [][Next]_vars

(* As in PollLoop: the loop keeps running, and accept does not fail for    *)
(* ever on a queue that holds a connection.                                *)
FairSpec == Spec /\ WF_vars(Server) /\ SF_vars(AcceptSlot \/ AcceptFull)

-----------------------------------------------------------------------------
TypeOK ==
  /\ pc \in {"select", "accept", "scan"}
  /\ client_states \in [Slot -> ClientFd \cup {-1}]
  /\ read_fds \subseteq ClientFd \cup {LISTEN_FD}
  /\ i \in 0..MAX_CLIENTS
  /\ backlog \in Seq(Conn)
  /\ peer \in [ClientFd -> Conn \cup {None}]
  /\ unread \in [Conn -> 0..MAX_UNREAD]
  /\ hup \in SUBSET Conn

\* The scan reads only where the read does not block (lines 153-156), and a
\* connection accepted in this round, whose descriptor is not among those
\* select was asked about, is not taken for a ready one; descriptors and slots
\* correspond one to one, so that each connection is looked at once.
ScanIsSound ==
  /\ \A s \in Slot :
       pc = "scan" /\ s >= i /\ Ready(s) => Readable(client_states[s])
  /\ \A fd \in ClientFd : peer[fd] # None <=> fd \in Held
  /\ \A s, t \in Slot :
       client_states[s] = client_states[t] /\ client_states[s] # -1 => s = t

(* What the steps preserve together.                                       *)

\* A connection is in one place: once in the queue, or behind one descriptor.
ConnectionsDistinct ==
  /\ Waiting \cap Open = {}
  /\ \A j, k \in DOMAIN backlog : backlog[j] = backlog[k] => j = k
  /\ \A fd, g \in ClientFd : peer[fd] = peer[g] /\ fd # g => peer[fd] = None

\* Until the accept of a round is over, the set holds descriptors of that round
\* only, and what select found ready stays so.
RoundSound ==
  /\ pc # "scan" => i = 0
  /\ pc = "accept" =>
       /\ backlog # <<>>
       /\ read_fds \subseteq Held \cup {LISTEN_FD}
       /\ \A s \in Slot : Ready(s) => Readable(client_states[s])

\* Inductive: it is what SelectLoopProofs proves.
IInv == TypeOK /\ ScanIsSound /\ ConnectionsDistinct /\ RoundSound

\* The loop is the same multiplexer as the one of the database server, with
\* the same guarantees to its peers.
Mux == INSTANCE Multiplexer WITH waiting <- Waiting, open <- Open

ImplementsMultiplexer == Mux!Spec

\* Every queued connection is admitted or refused, a connection with a full
\* buffer is read, and one whose peer hung up is closed: slots are looked at in
\* one order in every round (line 153), and none is starved by those before it.
EveryPeerServed == Mux!Served
=============================================================================
