----------------------- MODULE PollMultiplexingProofs -----------------------
(***************************************************************************)
(* Proofs about PollMultiplexing: its rounds are those of PollLoop, so     *)
(* that what PollLoopProofs proves holds of it, and with that the bytes in *)
(* a buffer are those of the one connection the slot stands for.           *)
(***************************************************************************)
EXTENDS PollMultiplexing, FiniteSetTheorems, TLAPS

LoopProofs == INSTANCE PollLoopProofs

\* The assumptions of the loop are those made here.
LEMMA LoopAssumptions == LoopProofs!ConnAssumption /\ LoopProofs!SizeAssumption
BY ConnAssumption, SizeAssumption DEF LoopProofs!ConnAssumption, LoopProofs!SizeAssumption

\* Every step is one of the loop's, or leaves its state alone.
LEMMA StepsOfTheLoop == [Next]_vars => [Loop!Next]_(Loop!vars)
<1> SUFFICES ASSUME [Next]_vars PROVE [Loop!Next]_(Loop!vars)
  OBVIOUS
<1>1. CASE Server
  BY <1>1 DEF Server, Receive, Disconnect, Loop!Next, Loop!Server
<1>2. CASE \E c \in Conn : Peer(c)
  BY <1>2 DEF Peer, Loop!Next
<1>3. CASE UNCHANGED vars
  BY <1>3 DEF vars
<1> QED
  BY <1>1, <1>2, <1>3 DEF Next

\* The server runs the loop of PollLoop.
LEMMA RunsTheLoop == Spec => Loop!Spec
<1>1. Init => Loop!Init
  BY DEF Init
<1> QED
  BY <1>1, StepsOfTheLoop, PTL DEF Spec, Loop!Spec

\* The loop's invariant holds.  The two instances of PollLoop, here and in
\* PollLoopProofs, define the same.
LEMMA LoopInductive == Loop!Spec => [](Loop!IInv /\ Loop!ScanIsSound)
<1>1. LoopProofs!Spec => []LoopProofs!IInv /\ []LoopProofs!ScanIsSound
  BY LoopAssumptions, LoopProofs!Inductive, LoopProofs!ScanAlwaysSound
<1>2. Loop!Init => LoopProofs!Init
  BY DEF Loop!Init, LoopProofs!Init, Loop!Slot, LoopProofs!Slot, Loop!Entry,
         LoopProofs!Entry, Loop!LISTEN_FD, LoopProofs!LISTEN_FD, Loop!ClientFd,
         LoopProofs!ClientFd
<1>3. [Loop!Next]_(Loop!vars) => [LoopProofs!Next]_(LoopProofs!vars)
  BY DEF Loop!vars, LoopProofs!vars, Loop!loopVars, LoopProofs!loopVars, Loop!tableVars,
         LoopProofs!tableVars, Loop!kernelVars, LoopProofs!kernelVars, Loop!Cardinality,
         LoopProofs!Cardinality, Loop!Slot, LoopProofs!Slot, Loop!Entry,
         LoopProofs!Entry, Loop!State, LoopProofs!State, Loop!LISTEN_FD,
         LoopProofs!LISTEN_FD, Loop!ClientFd, LoopProofs!ClientFd, Loop!Open,
         LoopProofs!Open, Loop!Waiting, LoopProofs!Waiting, Loop!Readable,
         LoopProofs!Readable, Loop!Active, LoopProofs!Active, Loop!FirstFree,
         LoopProofs!FirstFree, Loop!FirstWithFd, LoopProofs!FirstWithFd, Loop!Connect,
         LoopProofs!Connect, Loop!Send, LoopProofs!Send, Loop!Hangup, LoopProofs!Hangup,
         Loop!Position, LoopProofs!Position, Loop!Rebuilt, LoopProofs!Rebuilt, Loop!Poll,
         LoopProofs!Poll, Loop!LowestFd, LoopProofs!LowestFd, Loop!AcceptSlot,
         LoopProofs!AcceptSlot, Loop!AcceptFull, LoopProofs!AcceptFull, Loop!AcceptFails,
         LoopProofs!AcceptFails, Loop!Scanning, LoopProofs!Scanning, Loop!ScanEnd,
         LoopProofs!ScanEnd, Loop!ScanSkip, LoopProofs!ScanSkip, Loop!AfterMessage,
         LoopProofs!AfterMessage, Loop!ScanData, LoopProofs!ScanData, Loop!ScanClose,
         LoopProofs!ScanClose, Loop!Server, LoopProofs!Server, Loop!Next, LoopProofs!Next
<1>4. LoopProofs!IInv => Loop!IInv
  BY DEF Loop!IInv, LoopProofs!IInv, Loop!TypeOK, LoopProofs!TypeOK,
         Loop!DescriptorsOwned, LoopProofs!DescriptorsOwned, Loop!BacklogDistinct,
         LoopProofs!BacklogDistinct, Loop!Pending, LoopProofs!Pending,
         Loop!RoundAccounted, LoopProofs!RoundAccounted, Loop!Cardinality,
         LoopProofs!Cardinality, Loop!Slot, LoopProofs!Slot, Loop!Entry,
         LoopProofs!Entry, Loop!State, LoopProofs!State, Loop!LISTEN_FD,
         LoopProofs!LISTEN_FD, Loop!ClientFd, LoopProofs!ClientFd, Loop!Open,
         LoopProofs!Open, Loop!Waiting, LoopProofs!Waiting, Loop!Readable,
         LoopProofs!Readable, Loop!Active, LoopProofs!Active, Loop!Scanning,
         LoopProofs!Scanning
<1>5. LoopProofs!ScanIsSound => Loop!ScanIsSound
  BY DEF Loop!ScanIsSound, LoopProofs!ScanIsSound, Loop!Scanning, LoopProofs!Scanning,
         Loop!Readable, LoopProofs!Readable, Loop!Slot, LoopProofs!Slot,
         Loop!LISTEN_FD, LoopProofs!LISTEN_FD, Loop!ClientFd, LoopProofs!ClientFd
<1> QED
  BY <1>1, <1>2, <1>3, <1>4, <1>5, PTL DEF Loop!Spec, LoopProofs!Spec

-----------------------------------------------------------------------------
(* The buffers.                                                            *)

\* What the steps below need of the loop: a descriptor that is held is one
\* slot's, and open.
LEMMA Owned ==
  ASSUME Loop!IInv
  PROVE  /\ client_states \in
              [Loop!Slot -> [fd : Loop!ClientFd \cup {-1}, state : Loop!State]]
         /\ peer \in [Loop!ClientFd -> Conn \cup {None}]
         /\ \A fd \in Loop!ClientFd :
              peer[fd] # None <=> \E s \in Loop!Slot : client_states[s].fd = fd
         /\ \A s, t \in Loop!Slot :
              client_states[s].fd = client_states[t].fd /\ client_states[s].fd # -1
                => s = t
         /\ -1 \notin Loop!ClientFd
BY SizeAssumption
   DEF Loop!IInv, Loop!TypeOK, Loop!DescriptorsOwned, Loop!Active, Loop!ClientFd

\* A read adds bytes of the connection that the slot stands for (lines 190-200).
LEMMA ReceiveKeeps ==
  ASSUME IInv, Loop!ScanIsSound, Receive
  PROVE  buffer' \in [Loop!Slot -> SUBSET Conn] /\ BufferIsOwn'
<1>1. PICK s \in Loop!Slot, tail \in SUBSET Conn :
        /\ client_states[s].fd = fds[i].fd
        /\ peer[fds[i].fd] \in Conn /\ tail \subseteq buffer[s]
        /\ buffer' = [buffer EXCEPT ![s] = tail \cup {peer[fds[i].fd]}]
  <2>1. peer[fds[i].fd] \in Conn
    BY DEF Receive, Loop!ScanData, Loop!FirstWithFd
  <2>2. PICK s \in Loop!Slot :
          /\ Reads(s)
          /\ \E tail \in {{}, buffer[s]} :
               buffer' = [buffer EXCEPT ![s] = tail \cup {peer[client_states[s].fd]}]
    BY DEF Receive
  <2>3. client_states[s].fd = fds[i].fd
    BY <2>2 DEF Reads, Loop!FirstWithFd
  <2>4. buffer[s] \in SUBSET Conn
    BY DEF IInv
  <2> QED
    BY <2>1, <2>2, <2>3, <2>4
<1>2. UNCHANGED <<client_states, peer>>
  BY DEF Receive, Loop!ScanData
<1>3. fds[i].fd # -1
  <2>1. i \in Loop!Entry
    <3>1. i \in 1..polled /\ polled \in 0..MAX_CLIENTS
      BY DEF Receive, Loop!ScanData, Loop!ScanIsSound, Loop!Scanning, IInv, Loop!IInv,
             Loop!TypeOK
    <3> QED
      BY <3>1, SizeAssumption DEF Loop!Entry
  <2>2. fds[i].fd \in Loop!ClientFd \cup {0, Loop!LISTEN_FD}
    BY <2>1 DEF IInv, Loop!IInv, Loop!TypeOK
  <2> QED
    BY <2>2, SizeAssumption DEF Loop!ClientFd, Loop!LISTEN_FD
<1>4. buffer' \in [Loop!Slot -> SUBSET Conn]
  BY <1>1 DEF IInv
<1>5. ASSUME NEW t \in Loop!Slot
      PROVE  buffer'[t] \subseteq IF client_states'[t].fd = -1 THEN {}
                                  ELSE {peer'[client_states'[t].fd]}
  <2>1. buffer[t] \subseteq IF client_states[t].fd = -1 THEN {}
                            ELSE {peer[client_states[t].fd]}
    BY DEF IInv, BufferIsOwn
  <2>2. buffer \in [Loop!Slot -> SUBSET Conn]
    BY DEF IInv
  <2>3. CASE t = s
    BY <1>1, <1>2, <1>3, <2>1, <2>2, <2>3
  <2>4. CASE t # s
    BY <1>1, <1>2, <2>1, <2>2, <2>4
  <2> QED
    BY <2>3, <2>4
<1> QED
  BY <1>4, <1>5 DEF BufferIsOwn, Loop!Slot

\* A close clears the buffer of the one slot that stood for the connection.
LEMMA DisconnectKeeps ==
  ASSUME IInv, Loop!ScanIsSound, Disconnect
  PROVE  buffer' \in [Loop!Slot -> SUBSET Conn] /\ BufferIsOwn'
<1>1. PICK s \in Loop!Slot : Reads(s) /\ buffer' = [buffer EXCEPT ![s] = {}]
  BY DEF Disconnect, Cleared
<1>2. PICK r \in Loop!Slot :
        /\ Loop!FirstWithFd(r, fds[i].fd)
        /\ client_states' = [client_states EXCEPT
                               ![r] = [fd |-> -1, state |-> "DISCONNECTED"]]
  BY DEF Disconnect, Loop!ScanClose
<1>3. peer' = [peer EXCEPT ![fds[i].fd] = None]
  BY DEF Disconnect, Loop!ScanClose
<1>4. fds[i].fd # -1
  <2>1. i \in Loop!Entry
    <3>1. i \in 1..polled /\ polled \in 0..MAX_CLIENTS
      BY DEF Disconnect, Loop!ScanClose, Loop!ScanIsSound, Loop!Scanning, IInv, Loop!IInv,
             Loop!TypeOK
    <3> QED
      BY <3>1, SizeAssumption DEF Loop!Entry
  <2>2. fds[i].fd \in Loop!ClientFd \cup {0, Loop!LISTEN_FD}
    BY <2>1 DEF IInv, Loop!IInv, Loop!TypeOK
  <2> QED
    BY <2>2, SizeAssumption DEF Loop!ClientFd, Loop!LISTEN_FD
<1>5. client_states[s].fd = fds[i].fd /\ client_states[r].fd = fds[i].fd /\ r = s
  BY <1>1, <1>2, <1>4, Owned DEF Reads, Loop!FirstWithFd, IInv
<1>6. buffer' \in [Loop!Slot -> SUBSET Conn]
  BY <1>1 DEF IInv
<1>7. ASSUME NEW t \in Loop!Slot
      PROVE  buffer'[t] \subseteq IF client_states'[t].fd = -1 THEN {}
                                  ELSE {peer'[client_states'[t].fd]}
  <2>1. buffer[t] \subseteq IF client_states[t].fd = -1 THEN {}
                            ELSE {peer[client_states[t].fd]}
    BY DEF IInv, BufferIsOwn
  <2>2. buffer \in [Loop!Slot -> SUBSET Conn]
    BY DEF IInv
  <2>3. CASE t = s
    BY <1>1, <2>2, <2>3
  <2>4. CASE t # s
    <3>1. client_states'[t] = client_states[t] /\ buffer'[t] = buffer[t]
      BY <1>1, <1>2, <1>5, <2>2, <2>4, Owned DEF IInv
    <3>2. client_states[t].fd = -1
          \/ peer'[client_states[t].fd] = peer[client_states[t].fd]
      BY <1>3, <1>4, <1>5, <2>4, Owned DEF IInv
    <3> QED
      BY <2>1, <3>1, <3>2
  <2> QED
    BY <2>3, <2>4
<1> QED
  BY <1>6, <1>7 DEF BufferIsOwn, Loop!Slot

\* An accept gives a free slot, with nothing in its buffer, to a descriptor that
\* no slot holds.
LEMMA AcceptKeeps ==
  ASSUME IInv, Loop!AcceptSlot, UNCHANGED buffer
  PROVE  BufferIsOwn'
<1>1. PICK s \in Loop!Slot, fd \in Loop!ClientFd :
        /\ client_states[s].fd = -1 /\ peer[fd] = None
        /\ client_states' = [client_states EXCEPT ![s] = [fd |-> fd, state |-> "HELLO"]]
        /\ peer' = [peer EXCEPT ![fd] = Head(backlog)]
  BY DEF Loop!AcceptSlot, Loop!FirstFree, Loop!LowestFd
<1>2. ASSUME NEW t \in Loop!Slot
      PROVE  buffer[t] \subseteq IF client_states'[t].fd = -1 THEN {}
                                 ELSE {peer'[client_states'[t].fd]}
  <2>1. buffer[t] \subseteq IF client_states[t].fd = -1 THEN {}
                            ELSE {peer[client_states[t].fd]}
    BY DEF IInv, BufferIsOwn
  <2>2. CASE t = s
    BY <1>1, <2>1, <2>2
  <2>3. CASE t # s
    <3>1. client_states'[t] = client_states[t]
      BY <1>1, <2>3, Owned DEF IInv
    <3>2. client_states[t].fd # fd
      BY <1>1, Owned DEF IInv
    <3>3. client_states[t].fd = -1
          \/ peer'[client_states[t].fd] = peer[client_states[t].fd]
      BY <1>1, <3>2, Owned DEF IInv
    <3> QED
      BY <2>1, <3>1, <3>3
  <2> QED
    BY <2>2, <2>3
<1> QED
  BY <1>2 DEF BufferIsOwn, Loop!Slot

LEMMA RestKeeps ==
  ASSUME IInv, UNCHANGED <<client_states, peer, buffer>>
  PROVE  BufferIsOwn'
BY DEF IInv, BufferIsOwn, Loop!Slot

LEMMA BuffersPreserved ==
  ASSUME IInv, Loop!ScanIsSound, [Next]_vars
  PROVE  buffer' \in [Loop!Slot -> SUBSET Conn] /\ BufferIsOwn'
<1>1. CASE Receive
  BY <1>1, ReceiveKeeps
<1>2. CASE Disconnect
  BY <1>2, DisconnectKeeps
<1>3. CASE UNCHANGED buffer /\ Loop!AcceptSlot
  BY <1>3, AcceptKeeps DEF IInv
<1>4. CASE /\ UNCHANGED buffer
           /\ \/ Loop!Poll \/ Loop!AcceptFull \/ Loop!AcceptFails
              \/ Loop!ScanEnd \/ Loop!ScanSkip
  <2>1. UNCHANGED <<client_states, peer, buffer>>
    BY <1>4 DEF Loop!Poll, Loop!AcceptFull, Loop!AcceptFails, Loop!ScanEnd,
                Loop!ScanSkip, Loop!tableVars, Loop!kernelVars
  <2> QED
    BY <2>1, RestKeeps DEF IInv
<1>5. CASE \E c \in Conn : Peer(c)
  <2>1. UNCHANGED <<client_states, peer, buffer>>
    BY <1>5 DEF Peer, Loop!Connect, Loop!Send, Loop!Hangup, Loop!tableVars
  <2> QED
    BY <2>1, RestKeeps DEF IInv
<1>6. CASE UNCHANGED vars
  <2>1. UNCHANGED <<client_states, peer, buffer>>
    BY <1>6 DEF vars, Loop!vars, Loop!tableVars, Loop!kernelVars
  <2> QED
    BY <2>1, RestKeeps DEF IInv
<1> QED
  BY <1>1, <1>2, <1>3, <1>4, <1>5, <1>6 DEF Next, Server

-----------------------------------------------------------------------------
(* The theorems.                                                           *)

\* The loop's accounting and the ownership of the buffers hold together, for any number
\* of peers, slots, queued connections and unread chunks.
THEOREM Inductive == Spec => []IInv
<1> DEFINE Own == buffer \in [Loop!Slot -> SUBSET Conn] /\ BufferIsOwn
<1>1. Spec => [](Loop!IInv /\ Loop!ScanIsSound)
  BY RunsTheLoop, LoopInductive, PTL
<1>2. Init => Own
  <2> SUFFICES ASSUME Init PROVE Own
    OBVIOUS
  <2>1. buffer = [s \in Loop!Slot |-> {}]
    BY DEF Init
  <2> QED
    BY <2>1 DEF BufferIsOwn
<1>3. Loop!IInv /\ Loop!ScanIsSound /\ Own /\ [Next]_vars => Own'
  BY BuffersPreserved DEF IInv
<1>4. Loop!IInv /\ Own => IInv
  BY DEF IInv
<1> QED
  BY <1>1, <1>2, <1>3, <1>4, PTL DEF Spec

\* The scan of this server is sound like that of the database server, from which its
\* invariant needs that an entry with an event stands for a descriptor.
THEOREM ScanAlwaysSound == Spec => []Loop!ScanIsSound
BY RunsTheLoop, LoopInductive, PTL

\* What is printed as received from a client was sent by that client, whatever
\* connections the slot stood for before and however little of the buffer a read
\* fills (poll_multiplexing.c:179-203).
THEOREM BufferAlwaysOwn == Spec => []BufferIsOwn
<1>1. IInv => BufferIsOwn
  BY DEF IInv
<1> QED
  BY <1>1, Inductive, PTL
=============================================================================
