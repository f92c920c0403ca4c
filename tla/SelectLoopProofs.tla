--------------------------- MODULE SelectLoopProofs ---------------------------
(***************************************************************************)
(* Proofs about SelectLoop: the scan reads only where the read does not    *)
(* block, descriptors and slots correspond one to one, and the loop        *)
(* implements Multiplexer, for any number of peers, slots and queued       *)
(* connections.                                                            *)
(***************************************************************************)
EXTENDS SelectLoop, FiniteSetTheorems, TLAPS

-----------------------------------------------------------------------------
(* Queues and slots.                                                       *)

\* A set of slots is finite, and as large as the table only when it is all of it.
LEMMA SlotsCounted ==
  ASSUME NEW A \in SUBSET Slot
  PROVE  /\ IsFiniteSet(A)
         /\ Cardinality(A) \in Nat
         /\ Cardinality(A) <= MAX_CLIENTS
         /\ Cardinality(A) = MAX_CLIENTS <=> A = Slot
<1>1. IsFiniteSet(Slot) /\ Cardinality(Slot) = MAX_CLIENTS
  BY SizeAssumption, FS_Interval DEF Slot
<1>2. IsFiniteSet(A) /\ Cardinality(A) <= MAX_CLIENTS
      /\ (Cardinality(Slot) = Cardinality(A) => Slot = A)
  BY <1>1, FS_Subset
<1>3. Cardinality(A) \in Nat
  BY <1>2, FS_CardinalityType
<1> QED
  BY <1>1, <1>2, <1>3

\* Enqueueing a connection that is not queued.
LEMMA QueueAppend ==
  ASSUME NEW S, NEW q \in Seq(S), NEW x \in S
  PROVE  /\ Append(q, x) \in Seq(S)
         /\ {Append(q, x)[k] : k \in DOMAIN Append(q, x)}
              = {q[k] : k \in DOMAIN q} \cup {x}
         /\ (/\ x \notin {q[k] : k \in DOMAIN q}
             /\ \A j, k \in DOMAIN q : q[j] = q[k] => j = k)
            => \A j, k \in DOMAIN Append(q, x) :
                 Append(q, x)[j] = Append(q, x)[k] => j = k
<1> DEFINE r == Append(q, x)
<1>1. /\ r \in Seq(S)
      /\ Len(q) \in Nat
      /\ DOMAIN q = 1..Len(q)
      /\ DOMAIN r = 1..(Len(q) + 1)
  OBVIOUS
<1>2. \A k \in 1..Len(q) : r[k] = q[k]
  OBVIOUS
<1>3. r[Len(q) + 1] = x
  OBVIOUS
<1>4. \A k \in DOMAIN r : k \in 1..Len(q) \/ k = Len(q) + 1
  BY <1>1
<1> HIDE DEF r
<1>5. {r[k] : k \in DOMAIN r} = {q[k] : k \in DOMAIN q} \cup {x}
  BY <1>1, <1>2, <1>3, <1>4
<1>6. ASSUME x \notin {q[k] : k \in DOMAIN q},
             \A j, k \in DOMAIN q : q[j] = q[k] => j = k,
             NEW j \in DOMAIN r, NEW k \in DOMAIN r, r[j] = r[k]
      PROVE  j = k
  BY <1>1, <1>2, <1>3, <1>4, <1>6
<1> QED
  BY <1>1, <1>5, <1>6 DEF r

\* Taking the first of a queue of distinct connections.
LEMMA QueueTail ==
  ASSUME NEW S, NEW q \in Seq(S), q # <<>>,
         \A j, k \in DOMAIN q : q[j] = q[k] => j = k
  PROVE  /\ Head(q) \in S
         /\ Head(q) \in {q[k] : k \in DOMAIN q}
         /\ Tail(q) \in Seq(S)
         /\ {Tail(q)[k] : k \in DOMAIN Tail(q)}
              = {q[k] : k \in DOMAIN q} \ {Head(q)}
         /\ \A j, k \in DOMAIN Tail(q) : Tail(q)[j] = Tail(q)[k] => j = k
<1> DEFINE r == Tail(q)
<1>1. /\ r \in Seq(S)
      /\ Len(q) \in Nat \ {0}
      /\ DOMAIN q = 1..Len(q)
      /\ DOMAIN r = 1..(Len(q) - 1)
  OBVIOUS
<1>2. Head(q) = q[1] /\ 1 \in DOMAIN q /\ q[1] \in S
  BY <1>1
<1>3. \A k \in 1..(Len(q) - 1) : r[k] = q[k + 1] /\ k + 1 \in DOMAIN q
  BY <1>1
<1>4. \A k \in DOMAIN q : k = 1 \/ (k - 1 \in DOMAIN r /\ r[k - 1] = q[k])
  BY <1>1, <1>3
<1>5. \A k \in DOMAIN r : r[k] # q[1]
  BY <1>1, <1>2, <1>3
<1> HIDE DEF r
<1>6. {r[k] : k \in DOMAIN r} = {q[k] : k \in DOMAIN q} \ {q[1]}
  <2>1. ASSUME NEW e \in {r[k] : k \in DOMAIN r}
        PROVE  e \in {q[k] : k \in DOMAIN q} \ {q[1]}
    <3>1. PICK k \in DOMAIN r : e = r[k]
      BY <2>1
    <3>2. e = q[k + 1] /\ k + 1 \in DOMAIN q /\ e # q[1]
      BY <1>1, <1>3, <1>5, <3>1
    <3> QED
      BY <3>2
  <2>2. ASSUME NEW e \in {q[k] : k \in DOMAIN q} \ {q[1]}
        PROVE  e \in {r[k] : k \in DOMAIN r}
    <3>1. PICK k \in DOMAIN q : e = q[k] /\ k # 1
      BY <2>2
    <3> QED
      BY <1>4, <3>1
  <2> QED
    BY <2>1, <2>2
<1>7. ASSUME NEW j \in DOMAIN r, NEW k \in DOMAIN r, r[j] = r[k]
      PROVE  j = k
  <2>1. q[j + 1] = q[k + 1] /\ j + 1 \in DOMAIN q /\ k + 1 \in DOMAIN q
    BY <1>1, <1>3, <1>7
  <2>2. j + 1 = k + 1 /\ j \in Int /\ k \in Int
    BY <1>1, <2>1
  <2> QED
    BY <2>2
<1> QED
  BY <1>1, <1>2, <1>6, <1>7 DEF r

-----------------------------------------------------------------------------
(* The inductive invariant.                                                *)

LEMMA Initially == Init => IInv
<1> SUFFICES ASSUME Init PROVE IInv
  OBVIOUS
<1>1. TypeOK
  <2>1. 0 \in 0..MAX_UNREAD /\ i \in 0..MAX_CLIENTS
    BY SizeAssumption DEF Init
  <2> QED
    BY <2>1 DEF Init, TypeOK
<1>2. \A fd \in ClientFd : peer[fd] = None
  BY DEF Init
<1>3. \A s \in Slot : client_states[s] = -1
  BY DEF Init
<1>4. ScanIsSound
  <2>1. Held = {}
    BY <1>3 DEF Held
  <2> QED
    BY <1>2, <1>3, <2>1 DEF ScanIsSound, Ready
<1>5. ConnectionsDistinct
  <2>1. backlog = <<>> /\ DOMAIN backlog = {}
    BY DEF Init
  <2> QED
    BY <1>2, <2>1 DEF ConnectionsDistinct, Waiting
<1>6. RoundSound
  BY DEF Init, RoundSound
<1> QED
  BY <1>1, <1>4, <1>5, <1>6 DEF IInv

\* A held descriptor is a slot's, and its connection is open and no other's.
LEMMA HeldOpen ==
  ASSUME IInv
  PROVE  /\ client_states \in [Slot -> ClientFd \cup {-1}]
         /\ peer \in [ClientFd -> Conn \cup {None}]
         /\ -1 \notin ClientFd /\ LISTEN_FD \notin ClientFd /\ LISTEN_FD # -1
         /\ \A s \in Slot : client_states[s] # -1 =>
              /\ client_states[s] \in ClientFd
              /\ peer[client_states[s]] \in Conn /\ peer[client_states[s]] \in Open
         /\ \A s, t \in Slot : client_states[s] # -1 /\ client_states[t] # -1 /\ s # t
              => /\ client_states[s] # client_states[t]
                 /\ peer[client_states[s]] # peer[client_states[t]]
<1>1. /\ client_states \in [Slot -> ClientFd \cup {-1}]
      /\ peer \in [ClientFd -> Conn \cup {None}]
  BY DEF IInv, TypeOK
<1>2. -1 \notin ClientFd /\ LISTEN_FD \notin ClientFd /\ LISTEN_FD # -1
  BY SizeAssumption DEF ClientFd, LISTEN_FD
<1>3. ASSUME NEW s \in Slot, client_states[s] # -1
      PROVE  /\ client_states[s] \in ClientFd
             /\ peer[client_states[s]] \in Conn /\ peer[client_states[s]] \in Open
  <2>1. client_states[s] \in ClientFd /\ client_states[s] \in Held
    BY <1>1, <1>3 DEF Held
  <2>2. peer[client_states[s]] # None
    BY <2>1 DEF IInv, ScanIsSound
  <2> QED
    BY <1>1, <2>1, <2>2 DEF Open
<1>4. ASSUME NEW s \in Slot, NEW t \in Slot, client_states[s] # -1,
             client_states[t] # -1, s # t
      PROVE  /\ client_states[s] # client_states[t]
             /\ peer[client_states[s]] # peer[client_states[t]]
  <2>1. client_states[s] # client_states[t]
    BY <1>4 DEF IInv, ScanIsSound
  <2>2. /\ client_states[s] \in ClientFd /\ client_states[t] \in ClientFd
        /\ peer[client_states[s]] \in Conn
    BY <1>3, <1>4
  <2> QED
    BY <2>1, <2>2, ConnAssumption DEF IInv, ConnectionsDistinct
<1> QED
  BY <1>1, <1>2, <1>3, <1>4

\* What the peers do leaves ready what was ready.
LEMMA PeerKeeps ==
  ASSUME IInv, NEW c \in Conn, Connect(c) \/ Send(c) \/ Hangup(c)
  PROVE  IInv'
<1>1. /\ UNCHANGED <<pc, client_states, read_fds, i, peer>>
      /\ Open' = Open /\ Held' = Held /\ \A s : Ready(s)' = Ready(s)
  BY DEF Connect, Send, Hangup, loopVars, Open, Held, Ready
<1>2. /\ backlog' \in Seq(Conn)
      /\ backlog # <<>> => backlog' # <<>>
      /\ ConnectionsDistinct'
  <2>1. CASE Connect(c)
    <3>1. backlog' = Append(backlog, c) /\ c \notin Waiting \cup Open
          /\ backlog \in Seq(Conn)
      BY <2>1 DEF Connect, IInv, TypeOK
    <3>2. backlog' \in Seq(Conn) /\ backlog' # <<>>
      BY <3>1, QueueAppend
    <3>3. Waiting' = Waiting \cup {c}
      BY <3>1, QueueAppend DEF Waiting
    <3>4. \A j, k \in DOMAIN backlog' : backlog'[j] = backlog'[k] => j = k
      BY <3>1, QueueAppend DEF Waiting, IInv, ConnectionsDistinct
    <3> QED
      BY <1>1, <3>1, <3>2, <3>3, <3>4 DEF IInv, ConnectionsDistinct
  <2>2. CASE Send(c) \/ Hangup(c)
    BY <1>1, <2>2 DEF Send, Hangup, IInv, ConnectionsDistinct, Waiting, TypeOK
  <2> QED
    BY <2>1, <2>2
<1>3. /\ unread' \in [Conn -> 0..MAX_UNREAD]
      /\ hup' \in SUBSET Conn
      /\ \A d \in Conn :
           unread[d] > 0 \/ d \in hup => unread'[d] > 0 \/ d \in hup'
  <2>1. CASE Connect(c)
    BY <2>1 DEF Connect, IInv, TypeOK
  <2>2. CASE Send(c)
    BY <2>2, SizeAssumption DEF Send, IInv, TypeOK
  <2>3. CASE Hangup(c)
    BY <2>3, SizeAssumption DEF Hangup, IInv, TypeOK
  <2> QED
    BY <2>1, <2>2, <2>3
<1>4. \A fd : Readable(fd) => Readable(fd)'
  BY <1>1, <1>2, <1>3 DEF Readable
<1>5. TypeOK'
  BY <1>1, <1>2, <1>3 DEF IInv, TypeOK
<1>6. ScanIsSound'
  BY <1>1, <1>4 DEF IInv, ScanIsSound
<1>7. RoundSound'
  BY <1>1, <1>2, <1>4 DEF IInv, RoundSound
<1> QED
  BY <1>2, <1>5, <1>6, <1>7 DEF IInv

\* The set select leaves is of this round's descriptors that are ready.
LEMMA SelectKeeps ==
  ASSUME IInv, Select
  PROVE  IInv'
<1>1. /\ UNCHANGED <<client_states, i, backlog, peer, unread, hup>>
      /\ read_fds' \subseteq Held \cup {LISTEN_FD}
      /\ \A fd \in read_fds' : Readable(fd)
      /\ pc' = IF LISTEN_FD \in read_fds' THEN "accept" ELSE "scan"
  BY DEF Select, kernelVars
<1>2. Held' = Held /\ Open' = Open /\ Waiting' = Waiting
      /\ \A fd : Readable(fd)' = Readable(fd)
  BY <1>1 DEF Held, Open, Waiting, Readable
<1>3. Held \subseteq ClientFd
  BY DEF IInv, TypeOK, Held
<1>4. TypeOK'
  BY <1>1, <1>3 DEF IInv, TypeOK
<1>5. \A s \in Slot : Ready(s)' => Readable(client_states[s])'
  BY <1>1, <1>2 DEF Ready
<1>6. ScanIsSound'
  BY <1>1, <1>2, <1>5 DEF IInv, ScanIsSound
<1>7. ConnectionsDistinct'
  BY <1>1, <1>2 DEF IInv, ConnectionsDistinct
<1>8. RoundSound'
  <2>1. pc = "select" /\ i = 0
    BY DEF Select, IInv, RoundSound
  <2>2. pc' = "accept" => backlog # <<>>
    <3>1. Readable(LISTEN_FD) => backlog # <<>>
      BY HeldOpen DEF Readable
    <3> QED
      BY <1>1, <3>1
  <2> QED
    BY <1>1, <1>2, <1>5, <2>1, <2>2 DEF RoundSound
<1> QED
  BY <1>4, <1>6, <1>7, <1>8 DEF IInv

\* Opening a connection under a descriptor that was not open.
LEMMA OpenOne ==
  ASSUME IInv, NEW fd \in ClientFd, NEW c \in Conn,
         peer[fd] = None, peer' = [peer EXCEPT ![fd] = c]
  PROVE  /\ Open' = Open \cup {c}
         /\ peer' \in [ClientFd -> Conn \cup {None}]
         /\ \A g \in ClientFd : g # fd => peer'[g] = peer[g]
         /\ peer'[fd] = c
<1>1. peer \in [ClientFd -> Conn \cup {None}]
  BY DEF IInv, TypeOK
<1>2. /\ peer' \in [ClientFd -> Conn \cup {None}]
      /\ \A g \in ClientFd : g # fd => peer'[g] = peer[g]
      /\ peer'[fd] = c
  BY <1>1
<1>3. Open' = Open \cup {c}
  <2>1. ASSUME NEW d \in Open' PROVE d \in Open \cup {c}
    <3>1. PICK g \in ClientFd : d = peer'[g] /\ d # None
      BY <2>1 DEF Open
    <3> QED
      BY <1>2, <3>1 DEF Open
  <2>2. ASSUME NEW d \in Open PROVE d \in Open'
    <3>1. PICK g \in ClientFd : d = peer[g] /\ d # None
      BY <2>2 DEF Open
    <3>2. g # fd
      BY <3>1
    <3> QED
      BY <1>2, <3>1, <3>2 DEF Open
  <2>3. c \in Open'
    BY <1>2, ConnAssumption DEF Open
  <2> QED
    BY <2>1, <2>2, <2>3
<1> QED
  BY <1>2, <1>3

\* Closing one: it was open under that descriptor only.
LEMMA CloseOne ==
  ASSUME IInv, NEW fd \in ClientFd, NEW c \in Conn,
         peer[fd] = c, peer' = [peer EXCEPT ![fd] = None]
  PROVE  /\ Open' = Open \ {c}
         /\ peer' \in [ClientFd -> Conn \cup {None}]
         /\ \A g \in ClientFd : g # fd => peer'[g] = peer[g] /\ peer[g] # c
         /\ peer'[fd] = None
<1>1. /\ peer \in [ClientFd -> Conn \cup {None}]
      /\ \A g, h \in ClientFd : peer[g] = peer[h] /\ g # h => peer[g] = None
  BY DEF IInv, TypeOK, ConnectionsDistinct
<1>2. /\ peer' \in [ClientFd -> Conn \cup {None}]
      /\ \A g \in ClientFd : g # fd => peer'[g] = peer[g] /\ peer[g] # c
      /\ peer'[fd] = None
  BY <1>1, ConnAssumption
<1>3. Open' = Open \ {c}
  <2>1. ASSUME NEW d \in Open' PROVE d \in Open \ {c}
    <3>1. PICK g \in ClientFd : d = peer'[g] /\ d # None
      BY <2>1 DEF Open
    <3> QED
      BY <1>2, <3>1 DEF Open
  <2>2. ASSUME NEW d \in Open \ {c} PROVE d \in Open'
    <3>1. PICK g \in ClientFd : d = peer[g] /\ d # None
      BY <2>2 DEF Open
    <3> QED
      BY <1>2, <2>2, <3>1 DEF Open
  <2> QED
    BY <2>1, <2>2
<1> QED
  BY <1>2, <1>3

\* The queue loses its first connection, which is not open.
LEMMA AcceptFacts ==
  ASSUME IInv, pc = "accept", backlog' = Tail(backlog)
  PROVE  /\ Head(backlog) \in Waiting /\ Head(backlog) \in Conn
         /\ Head(backlog) \notin Open
         /\ backlog' \in Seq(Conn)
         /\ Waiting' = Waiting \ {Head(backlog)}
         /\ \A j, k \in DOMAIN backlog' : backlog'[j] = backlog'[k] => j = k
<1>1. backlog \in Seq(Conn) /\ backlog # <<>>
  BY DEF IInv, TypeOK, RoundSound
<1>2. \A j, k \in DOMAIN backlog : backlog[j] = backlog[k] => j = k
  BY DEF IInv, ConnectionsDistinct
<1>3. /\ Head(backlog) \in Conn
      /\ Head(backlog) \in Waiting
      /\ Tail(backlog) \in Seq(Conn)
      /\ {Tail(backlog)[k] : k \in DOMAIN Tail(backlog)} = Waiting \ {Head(backlog)}
      /\ \A j, k \in DOMAIN Tail(backlog) :
           Tail(backlog)[j] = Tail(backlog)[k] => j = k
  BY <1>1, <1>2, QueueTail DEF Waiting
<1>4. Waiting' = Waiting \ {Head(backlog)}
  BY <1>3 DEF Waiting
<1> QED
  BY <1>3, <1>4 DEF IInv, ConnectionsDistinct

\* The connection accepted gets a slot and a descriptor that nothing referred to; its
\* descriptor is not in the set.
LEMMA AcceptSlotKeeps ==
  ASSUME IInv, AcceptSlot
  PROVE  IInv'
<1> DEFINE c == Head(backlog)
<1>1. PICK r \in Slot, fd \in ClientFd :
        /\ client_states[r] = -1 /\ peer[fd] = None
        /\ client_states' = [client_states EXCEPT ![r] = fd]
        /\ peer' = [peer EXCEPT ![fd] = c]
  BY DEF AcceptSlot, LowestFd
<1>2. /\ pc = "accept" /\ backlog' = Tail(backlog) /\ pc' = "scan"
      /\ UNCHANGED <<read_fds, i, unread, hup>>
  BY DEF AcceptSlot
<1>3. /\ c \in Waiting /\ c \in Conn /\ c \notin Open /\ backlog' \in Seq(Conn)
      /\ Waiting' = Waiting \ {c}
      /\ \A j, k \in DOMAIN backlog' : backlog'[j] = backlog'[k] => j = k
  BY <1>2, AcceptFacts
<1> HIDE DEF c
<1>4. /\ Open' = Open \cup {c} /\ peer' \in [ClientFd -> Conn \cup {None}]
      /\ \A g \in ClientFd : g # fd => peer'[g] = peer[g]
      /\ peer'[fd] = c
  BY <1>1, <1>3, OpenOne
<1>5. /\ client_states' \in [Slot -> ClientFd \cup {-1}] /\ client_states'[r] = fd
      /\ \A s \in Slot : s # r => client_states'[s] = client_states[s]
  BY <1>1, HeldOpen
<1>6. fd \notin Held
  BY <1>1 DEF IInv, ScanIsSound
<1>7. Held' = Held \cup {fd}
  <2>1. \A s \in Slot : client_states[s] \in Held \cup {-1}
    BY DEF Held
  <2>2. \A g \in Held : g # -1 /\ \E s \in Slot : s # r /\ client_states[s] = g
    BY <1>1 DEF Held
  <2>3. fd # -1
    BY HeldOpen
  <2>4. ASSUME NEW g \in Held' PROVE g \in Held \cup {fd}
    <3>1. PICK s \in Slot : client_states'[s] = g /\ g # -1
      BY <2>4 DEF Held
    <3> QED
      BY <1>5, <2>1, <3>1
  <2>5. ASSUME NEW g \in Held \cup {fd} PROVE g \in Held'
    BY <1>5, <2>2, <2>3 DEF Held
  <2> QED
    BY <2>4, <2>5
<1>8. TypeOK'
  BY <1>2, <1>3, <1>4, <1>5 DEF IInv, TypeOK
<1>9. ASSUME NEW s \in Slot, Ready(s)'
      PROVE  Readable(client_states[s])'
  <2>1. client_states'[s] # -1 /\ client_states'[s] \in read_fds
    BY <1>2, <1>9 DEF Ready
  <2>2. s # r
    <3>1. read_fds \subseteq Held \cup {LISTEN_FD}
      BY <1>2 DEF IInv, RoundSound
    <3> QED
      BY <1>5, <1>6, <2>1, <3>1, HeldOpen
  <2>3. client_states'[s] = client_states[s] /\ Ready(s)
    BY <1>5, <2>1, <2>2 DEF Ready
  <2>4. Readable(client_states[s]) /\ client_states[s] \in ClientFd
    BY <1>2, <2>1, <2>3, HeldOpen DEF IInv, RoundSound
  <2>5. client_states[s] # fd
    BY <1>6, <2>1, <2>3 DEF Held
  <2>6. peer'[client_states[s]] = peer[client_states[s]]
    BY <1>4, <2>4, <2>5
  <2> QED
    BY <1>2, <2>3, <2>4, <2>6, HeldOpen DEF Readable
<1>10. ScanIsSound'
  <2>1. \A g \in ClientFd : peer'[g] # None <=> g \in Held'
    BY <1>3, <1>4, <1>7, ConnAssumption DEF IInv, ScanIsSound
  <2>2. ASSUME NEW s \in Slot, NEW t \in Slot, client_states'[s] = client_states'[t],
               client_states'[s] # -1
        PROVE  s = t
    <3>1. \A u \in Slot : client_states[u] # fd
      BY <1>6, HeldOpen DEF Held
    <3> QED
      BY <1>5, <2>2, <3>1, HeldOpen
  <2> QED
    BY <1>9, <2>1, <2>2 DEF ScanIsSound, Slot
<1>11. ConnectionsDistinct'
  <2>1. \A g \in ClientFd : peer[g] # c
    BY <1>3, ConnAssumption DEF Open
  <2>2. \A g, h \in ClientFd : peer'[g] = peer'[h] /\ g # h => peer'[g] = None
    BY <1>4, <2>1 DEF IInv, ConnectionsDistinct
  <2> QED
    BY <1>3, <1>4, <2>2 DEF IInv, ConnectionsDistinct, ClientFd
<1>12. RoundSound'
  BY <1>2 DEF RoundSound
<1> QED
  BY <1>8, <1>10, <1>11, <1>12 DEF IInv

\* A refused connection is behind no descriptor.
LEMMA AcceptFullKeeps ==
  ASSUME IInv, AcceptFull
  PROVE  IInv'
<1> DEFINE c == Head(backlog)
<1>1. /\ pc = "accept" /\ backlog' = Tail(backlog) /\ pc' = "scan"
      /\ UNCHANGED <<client_states, read_fds, i, peer>>
      /\ unread' = [unread EXCEPT ![c] = 0] /\ hup' = hup \ {c}
  BY DEF AcceptFull
<1>2. /\ c \in Conn /\ c \notin Open /\ backlog' \in Seq(Conn)
      /\ Waiting' = Waiting \ {c}
      /\ \A j, k \in DOMAIN backlog' : backlog'[j] = backlog'[k] => j = k
  BY <1>1, AcceptFacts
<1> HIDE DEF c
<1>3. Open' = Open /\ Held' = Held /\ \A s : Ready(s)' = Ready(s)
  BY <1>1 DEF Open, Held, Ready
<1>4. unread' \in [Conn -> 0..MAX_UNREAD] /\ \A d \in Conn : d # c => unread'[d] = unread[d]
  <2>1. 0 \in 0..MAX_UNREAD /\ unread \in [Conn -> 0..MAX_UNREAD]
    BY SizeAssumption DEF IInv, TypeOK
  <2> QED
    BY <1>1, <2>1
<1>5. TypeOK'
  BY <1>1, <1>2, <1>4 DEF IInv, TypeOK
<1>6. ASSUME NEW s \in Slot, Ready(s)
      PROVE  Readable(client_states[s])'
  <2>1. client_states[s] # -1 /\ Readable(client_states[s])
    BY <1>1, <1>6 DEF IInv, RoundSound, Ready
  <2>2. /\ client_states[s] \in ClientFd /\ client_states[s] # LISTEN_FD
        /\ peer[client_states[s]] \in Conn /\ peer[client_states[s]] # c
    BY <1>2, <2>1, HeldOpen
  <2> QED
    BY <1>1, <1>4, <2>1, <2>2 DEF Readable
<1>7. ScanIsSound'
  BY <1>1, <1>3, <1>6 DEF IInv, ScanIsSound
<1>8. ConnectionsDistinct'
  BY <1>1, <1>2, <1>3 DEF IInv, ConnectionsDistinct
<1>9. RoundSound'
  BY <1>1 DEF RoundSound
<1> QED
  BY <1>5, <1>7, <1>8, <1>9 DEF IInv

\* A round that ends, by a failed accept or after the scan, leaves everything as it was.
LEMMA RoundEndKeeps ==
  ASSUME IInv, AcceptFails \/ ScanEnd
  PROVE  IInv'
<1>1. /\ UNCHANGED <<client_states, backlog, peer, unread, hup>> /\ pc' = "select"
      /\ read_fds' = {} /\ i' = 0
  BY DEF AcceptFails, ScanEnd, kernelVars, IInv, RoundSound
<1>2. Held' = Held /\ Open' = Open /\ Waiting' = Waiting
  BY <1>1 DEF Held, Open, Waiting
<1>3. TypeOK'
  BY <1>1, SizeAssumption DEF IInv, TypeOK
<1>4. ScanIsSound' /\ ConnectionsDistinct' /\ RoundSound'
  BY <1>1, <1>2 DEF IInv, ScanIsSound, ConnectionsDistinct, RoundSound
<1> QED
  BY <1>3, <1>4 DEF IInv

\* The slot the scan reads is at i or after it, in use and ready.
LEMMA Scanned ==
  ASSUME IInv, NEW s \in Slot, NextReady(s), i' = After(s)
  PROVE  /\ client_states[s] # -1 /\ client_states[s] \in ClientFd
         /\ i' \in 0..MAX_CLIENTS
         /\ \A t \in Slot : t >= i' => t >= i /\ t # s
<1>1. client_states[s] # -1 /\ client_states[s] \in ClientFd /\ s >= i /\ i' = s + 1
  BY HeldOpen DEF NextReady, Ready, After
<1>2. i \in Int /\ s \in 0..(MAX_CLIENTS - 1) /\ MAX_CLIENTS \in Nat
  BY SizeAssumption DEF IInv, TypeOK, Slot
<1> QED
  BY <1>1, <1>2 DEF Slot

\* Reading drains one connection; those still to be read are others.
LEMMA ScanDataKeeps ==
  ASSUME IInv, ScanData
  PROVE  IInv'
<1>1. PICK s \in Slot, c \in Conn, left \in 0..MAX_UNREAD :
        /\ NextReady(s) /\ c = peer[client_states[s]]
        /\ unread' = [unread EXCEPT ![c] = left] /\ i' = After(s)
  BY DEF ScanData
<1>2. /\ UNCHANGED <<pc, client_states, read_fds, backlog, peer, hup>> /\ pc = "scan"
      /\ Held' = Held /\ Open' = Open /\ Waiting' = Waiting /\ \A t : Ready(t)' = Ready(t)
  BY DEF ScanData, Held, Open, Waiting, Ready
<1>3. /\ client_states[s] # -1 /\ i' \in 0..MAX_CLIENTS
      /\ \A t \in Slot : t >= i' => t >= i /\ t # s
  BY <1>1, Scanned
<1>4. unread' \in [Conn -> 0..MAX_UNREAD] /\ \A d \in Conn : d # c => unread'[d] = unread[d]
  <2>1. unread \in [Conn -> 0..MAX_UNREAD]
    BY DEF IInv, TypeOK
  <2> QED
    BY <1>1, <2>1
<1>5. TypeOK'
  BY <1>2, <1>3, <1>4 DEF IInv, TypeOK
<1>6. ASSUME NEW t \in Slot, t >= i', Ready(t)
      PROVE  Readable(client_states[t])'
  <2>1. client_states[t] # -1 /\ Readable(client_states[t]) /\ t # s
    BY <1>2, <1>3, <1>6 DEF IInv, ScanIsSound, Ready
  <2>2. /\ client_states[t] \in ClientFd /\ client_states[t] # LISTEN_FD
        /\ peer[client_states[t]] \in Conn /\ peer[client_states[t]] # c
    BY <1>1, <1>3, <2>1, HeldOpen
  <2> QED
    BY <1>2, <1>4, <2>1, <2>2 DEF Readable
<1>7. ScanIsSound'
  BY <1>2, <1>6 DEF IInv, ScanIsSound
<1>8. ConnectionsDistinct'
  BY <1>2 DEF IInv, ConnectionsDistinct
<1>9. RoundSound'
  BY <1>2 DEF RoundSound
<1> QED
  BY <1>5, <1>7, <1>8, <1>9 DEF IInv

\* A close frees the slot and the descriptor together.
LEMMA ScanCloseKeeps ==
  ASSUME IInv, ScanClose
  PROVE  IInv'
<1>1. PICK s \in Slot, c \in Conn :
        /\ NextReady(s) /\ c = peer[client_states[s]]
        /\ peer' = [peer EXCEPT ![client_states[s]] = None]
        /\ client_states' = [client_states EXCEPT ![s] = -1]
        /\ hup' = hup \ {c} /\ i' = After(s)
  BY DEF ScanClose, Freed
<1>2. /\ UNCHANGED <<pc, read_fds, backlog, unread>> /\ pc = "scan" /\ Waiting' = Waiting
  BY DEF ScanClose, Waiting
<1>3. /\ client_states[s] # -1 /\ client_states[s] \in ClientFd /\ i' \in 0..MAX_CLIENTS
      /\ \A t \in Slot : t >= i' => t >= i /\ t # s
  BY <1>1, Scanned
<1>4. /\ Open' = Open \ {c} /\ peer' \in [ClientFd -> Conn \cup {None}]
      /\ \A g \in ClientFd : g # client_states[s] => peer'[g] = peer[g] /\ peer[g] # c
      /\ peer'[client_states[s]] = None
  BY <1>1, <1>3, CloseOne
<1>5. /\ client_states' \in [Slot -> ClientFd \cup {-1}] /\ client_states'[s] = -1
      /\ \A t \in Slot : t # s => /\ client_states'[t] = client_states[t]
                                  /\ client_states[t] # client_states[s]
  BY <1>1, <1>3, HeldOpen
<1>6. Held' = Held \ {client_states[s]}
  <2>1. ASSUME NEW g \in Held' PROVE g \in Held \ {client_states[s]}
    <3>1. PICK t \in Slot : client_states'[t] = g /\ g # -1
      BY <2>1 DEF Held
    <3> QED
      BY <1>5, <3>1 DEF Held
  <2>2. ASSUME NEW g \in Held \ {client_states[s]} PROVE g \in Held'
    <3>1. PICK t \in Slot : client_states[t] = g /\ g # -1 /\ t # s
      BY <2>2 DEF Held
    <3> QED
      BY <1>5, <3>1 DEF Held
  <2> QED
    BY <2>1, <2>2
<1>7. TypeOK'
  BY <1>1, <1>2, <1>3, <1>4, <1>5 DEF IInv, TypeOK
<1>8. ASSUME NEW t \in Slot, t >= i', Ready(t)'
      PROVE  Readable(client_states[t])'
  <2>1. t # s /\ client_states'[t] = client_states[t] /\ Ready(t)
    BY <1>2, <1>3, <1>5, <1>8 DEF Ready
  <2>2. client_states[t] # -1 /\ Readable(client_states[t])
    BY <1>2, <1>3, <1>8, <2>1 DEF IInv, ScanIsSound, Ready
  <2>3. /\ client_states[t] \in ClientFd /\ client_states[t] # LISTEN_FD
        /\ peer[client_states[t]] \in Conn
        /\ peer'[client_states[t]] = peer[client_states[t]]
        /\ peer[client_states[t]] # c
    BY <1>4, <1>5, <2>1, <2>2, HeldOpen
  <2> QED
    BY <1>1, <1>2, <2>1, <2>2, <2>3 DEF Readable
<1>9. ScanIsSound'
  <2>1. \A g \in ClientFd : peer'[g] # None <=> g \in Held'
    BY <1>4, <1>6 DEF IInv, ScanIsSound
  <2>2. \A t, u \in Slot : client_states'[t] = client_states'[u] /\ client_states'[t] # -1
          => t = u
    BY <1>5 DEF IInv, ScanIsSound
  <2> QED
    BY <1>8, <2>1, <2>2 DEF ScanIsSound, Slot
<1>10. ConnectionsDistinct'
  <2>1. \A g, h \in ClientFd : peer'[g] = peer'[h] /\ g # h => peer'[g] = None
    BY <1>4 DEF IInv, ConnectionsDistinct
  <2> QED
    BY <1>2, <1>4, <2>1 DEF IInv, ConnectionsDistinct, ClientFd
<1>11. RoundSound'
  BY <1>2 DEF RoundSound
<1> QED
  BY <1>7, <1>9, <1>10, <1>11 DEF IInv

LEMMA Preserved == IInv /\ [Next]_vars => IInv'
<1> SUFFICES ASSUME IInv, [Next]_vars PROVE IInv'
  OBVIOUS
<1>1. ASSUME NEW c \in Conn, Connect(c) \/ Send(c) \/ Hangup(c)
      PROVE  IInv'
  BY <1>1, PeerKeeps
<1>2. CASE Select
  BY <1>2, SelectKeeps
<1>3. CASE AcceptSlot \/ AcceptFull
  BY <1>3, AcceptSlotKeeps, AcceptFullKeeps
<1>4. CASE AcceptFails \/ ScanEnd
  BY <1>4, RoundEndKeeps
<1>5. CASE ScanData \/ ScanClose
  BY <1>5, ScanDataKeeps, ScanCloseKeeps
<1>6. CASE UNCHANGED vars
  <2>1. /\ UNCHANGED <<pc, client_states, read_fds, i, backlog, peer, unread, hup>>
        /\ Held' = Held /\ Open' = Open /\ Waiting' = Waiting
        /\ \A s : Ready(s)' = Ready(s) /\ \A fd : Readable(fd)' = Readable(fd)
    BY <1>6 DEF vars, loopVars, kernelVars, Held, Open, Waiting, Ready, Readable
  <2> QED
    BY <2>1 DEF IInv, TypeOK, ScanIsSound, ConnectionsDistinct, RoundSound
<1> QED
  BY <1>1, <1>2, <1>3, <1>4, <1>5, <1>6 DEF Next, Server

-----------------------------------------------------------------------------
(* The theorems.                                                           *)

\* The invariant is inductive, so that it holds in every state.
THEOREM Inductive == Spec => []IInv
BY Initially, Preserved, PTL DEF Spec

\* Every variable keeps its type; the scan index stays within the table.
THEOREM TypeCorrect == Spec => []TypeOK
<1>1. IInv => TypeOK
  BY DEF IInv
<1> QED
  BY <1>1, Inductive, PTL

\* The scan reads only where the read does not block, a connection accepted in this round
\* is not taken for a ready one, and descriptors and slots correspond one to one
\* (select_multiplexing.c:107-168).
THEOREM ScanAlwaysSound == Spec => []ScanIsSound
<1>1. IInv => ScanIsSound
  BY DEF IInv
<1> QED
  BY <1>1, Inductive, PTL

-----------------------------------------------------------------------------
(* The loop implements Multiplexer.                                        *)

InUse == {s \in Slot : client_states[s] # -1}

\* Each slot in use stands for one open connection.
LEMMA OpenCounted ==
  ASSUME IInv
  PROVE  Cardinality(Open) = Cardinality(InUse)
<1> DEFINE f == [s \in InUse |-> peer[client_states[s]]]
<1>1. f \in [InUse -> Open]
  BY HeldOpen DEF InUse
<1>2. \A s, t \in InUse : f[s] = f[t] => s = t
  BY HeldOpen DEF InUse
<1>3. ASSUME NEW c \in Open
      PROVE  \E s \in InUse : f[s] = c
  <2>1. PICK fd \in ClientFd : peer[fd] = c /\ peer[fd] # None
    BY <1>3 DEF Open
  <2>2. fd \in Held
    BY <2>1 DEF IInv, ScanIsSound
  <2>3. PICK s \in Slot : client_states[s] = fd /\ fd # -1
    BY <2>2 DEF Held
  <2> QED
    BY <2>1, <2>3 DEF InUse
<1>4. f \in Bijection(InUse, Open)
  BY <1>1, <1>2, <1>3 DEF Bijection, Injection, Surjection, IsInjective
<1>5. IsFiniteSet(InUse)
  BY SlotsCounted DEF InUse
<1> QED
  BY <1>4, <1>5, FS_Bijection DEF ExistsBijection

LEMMA SameCardinality == \A S : Mux!Cardinality(S) = Cardinality(S)
BY Zenon DEF Mux!Cardinality, Cardinality

LEMMA PeersImplement ==
  ASSUME IInv, NEW c \in Conn, Connect(c) \/ Send(c) \/ Hangup(c)
  PROVE  Mux!Next
<1>1. Open' = Open
  BY DEF Connect, Send, Hangup, Open
<1>2. CASE Connect(c)
  <2>1. Waiting' = Waiting \cup {c}
    <3>1. backlog \in Seq(Conn) /\ backlog' = Append(backlog, c)
      BY <1>2 DEF Connect, IInv, TypeOK
    <3>2. {backlog'[k] : k \in DOMAIN backlog'}
            = {backlog[k] : k \in DOMAIN backlog} \cup {c}
      BY <3>1, QueueAppend
    <3> QED
      BY <3>2 DEF Waiting
  <2>2. Mux!Connect(c)
    BY <1>1, <1>2, <2>1 DEF Connect, Mux!Connect
  <2> QED
    BY <2>2 DEF Mux!Next
<1>3. CASE Send(c)
  <2>1. Waiting' = Waiting
    BY <1>3 DEF Send, Waiting
  <2>2. Mux!Send(c)
    BY <1>1, <1>3, <2>1 DEF Send, Mux!Send
  <2> QED
    BY <2>2 DEF Mux!Next
<1>4. CASE Hangup(c)
  <2>1. Mux!Hangup(c)
    <3>1. Waiting' = Waiting
      BY <1>4 DEF Hangup, Waiting
    <3>2. /\ c \in (Waiting \cup Open) \ hup
          /\ hup' = hup \cup {c}
      BY <1>4 DEF Hangup
    <3>3. \E left \in {0, unread[c]} : unread' = [unread EXCEPT ![c] = left]
      BY <1>4 DEF Hangup
    <3> QED
      BY <1>1, <3>1, <3>2, <3>3 DEF Mux!Hangup
  <2> QED
    BY <2>1 DEF Mux!Next
<1> QED
  BY <1>2, <1>3, <1>4

LEMMA AcceptImplements ==
  ASSUME IInv, AcceptSlot \/ AcceptFull
  PROVE  Mux!Next
<1> DEFINE c == Head(backlog)
<1>1. pc = "accept" /\ backlog' = Tail(backlog)
  BY DEF AcceptSlot, AcceptFull
<1>2. /\ c \in Waiting /\ c \in Conn /\ c \notin Open
      /\ Waiting' = Waiting \ {c}
  BY <1>1, AcceptFacts
<1>3. InUse \in SUBSET Slot
  BY DEF InUse
<1> HIDE DEF c
<1>4. CASE AcceptSlot
  <2>1. PICK s \in Slot, fd \in ClientFd :
          client_states[s] = -1 /\ LowestFd(fd) /\ peer' = [peer EXCEPT ![fd] = c]
    BY <1>4 DEF AcceptSlot, c
  <2>2. InUse # Slot
    BY <2>1 DEF InUse
  <2>3. Cardinality(Open) < MAX_CLIENTS
    BY <1>3, <2>2, SlotsCounted, OpenCounted, SizeAssumption
  <2>4. Open' = Open \cup {c}
    BY <1>2, <2>1, OpenOne DEF LowestFd
  <2>5. Mux!Admit(c)
    BY <1>2, <1>4, <2>3, <2>4, SameCardinality DEF Mux!Admit, AcceptSlot
  <2> QED
    BY <1>2, <2>5 DEF Mux!Next
<1>5. CASE AcceptFull
  <2>1. InUse = Slot
    BY <1>5 DEF AcceptFull, InUse
  <2>2. Cardinality(Open) = MAX_CLIENTS
    BY <1>3, <2>1, SlotsCounted, OpenCounted
  <2>3. Open' = Open
    BY <1>5 DEF AcceptFull, Open
  <2>4. Mux!Refuse(c)
    BY <1>2, <1>5, <2>2, <2>3, SameCardinality DEF Mux!Refuse, AcceptFull, c
  <2> QED
    BY <1>2, <2>4 DEF Mux!Next
<1> QED
  BY <1>4, <1>5

LEMMA ScanImplements ==
  ASSUME IInv, ScanData \/ ScanClose
  PROVE  Mux!Next
<1>1. Waiting' = Waiting
  BY DEF ScanData, ScanClose, Waiting
<1>2. CASE ScanData
  <2>1. PICK s \in Slot, c \in Conn, left \in 0..MAX_UNREAD :
          /\ NextReady(s) /\ c = peer[client_states[s]]
          /\ left < unread[c]
          /\ unread' = [unread EXCEPT ![c] = left]
    BY <1>2 DEF ScanData
  <2>2. c \in Open /\ Open' = Open
    BY <1>2, <2>1, HeldOpen DEF NextReady, Ready, Open, ScanData
  <2>3. unread \in [Conn -> 0..MAX_UNREAD] /\ unread[c] \in Nat /\ left \in Nat
    BY SizeAssumption DEF IInv, TypeOK
  <2>4. unread[c] - left \in 1..unread[c] /\ unread[c] - (unread[c] - left) = left
    BY <2>1, <2>3
  <2>5. \E n \in 1..unread[c] : unread' = [unread EXCEPT ![c] = @ - n]
    BY <2>1, <2>3, <2>4
  <2>6. Mux!Read(c)
    BY <1>1, <1>2, <2>2, <2>5 DEF Mux!Read, ScanData
  <2> QED
    BY <2>6 DEF Mux!Next
<1>3. CASE ScanClose
  <2>1. PICK s \in Slot, c \in Conn :
          /\ NextReady(s) /\ c = peer[client_states[s]]
          /\ c \in hup /\ unread[c] = 0
          /\ peer' = [peer EXCEPT ![client_states[s]] = None]
          /\ hup' = hup \ {c}
    BY <1>3 DEF ScanClose
  <2>2. client_states[s] \in ClientFd /\ c \in Open
    BY <2>1, HeldOpen DEF NextReady, Ready
  <2>3. Open' = Open \ {c}
    BY <2>1, <2>2, CloseOne
  <2>4. Mux!Close(c)
    BY <1>1, <1>3, <2>1, <2>2, <2>3 DEF Mux!Close, ScanClose
  <2> QED
    BY <2>4 DEF Mux!Next
<1> QED
  BY <1>2, <1>3

\* Every behaviour of the loop is one of a multiplexer, the same as for the poll loop.
THEOREM Refinement == Spec => ImplementsMultiplexer
<1>1. Init => Mux!Init
  <2> SUFFICES ASSUME Init PROVE Mux!Init
    OBVIOUS
  <2>1. backlog = <<>> /\ DOMAIN backlog = {} /\ \A fd \in ClientFd : peer[fd] = None
    BY DEF Init
  <2>2. Waiting = {} /\ Open = {}
    BY <2>1 DEF Waiting, Open
  <2> QED
    BY <2>2 DEF Init, Mux!Init
<1>2. IInv /\ [Next]_vars => [Mux!Next]_(Mux!vars)
  <2> SUFFICES ASSUME IInv, [Next]_vars
               PROVE  [Mux!Next]_(Mux!vars)
    OBVIOUS
  <2>1. ASSUME NEW c \in Conn, Connect(c) \/ Send(c) \/ Hangup(c)
        PROVE  Mux!Next
    BY <2>1, PeersImplement
  <2>2. CASE AcceptSlot \/ AcceptFull
    BY <2>2, AcceptImplements
  <2>3. CASE ScanData \/ ScanClose
    BY <2>3, ScanImplements
  <2>4. CASE Select \/ AcceptFails \/ ScanEnd \/ UNCHANGED vars
    <3>1. UNCHANGED kernelVars
      BY <2>4 DEF Select, AcceptFails, ScanEnd, vars
    <3> QED
      BY <3>1 DEF kernelVars, Mux!vars, Waiting, Open
  <2> QED
    BY <2>1, <2>2, <2>3, <2>4 DEF Next, Server
<1> QED
  BY <1>1, <1>2, Inductive, PTL DEF Spec, Mux!Spec, ImplementsMultiplexer
=============================================================================
