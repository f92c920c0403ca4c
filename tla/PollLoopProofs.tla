--------------------------- MODULE PollLoopProofs ---------------------------
(***************************************************************************)
(* Proofs about PollLoop: IInv is inductive, so the scan never looks at an *)
(* entry that poll did not fill in, whatever the number of peers, slots    *)
(* and queued connections; and the loop implements Multiplexer.            *)
(***************************************************************************)
EXTENDS PollLoop, FiniteSetTheorems, TLAPS

-----------------------------------------------------------------------------
(* Counting.                                                               *)

\* A set of slots is finite, and as large as the table only when it is all of it.
LEMMA SlotsCounted ==
  ASSUME NEW A \in SUBSET Slot
  PROVE  /\ IsFiniteSet(A)
         /\ Cardinality(A) \in Nat
         /\ Cardinality(A) <= MAX_CLIENTS
         /\ Cardinality(A) = MAX_CLIENTS <=> A = Slot
<1>1. IsFiniteSet(Slot) /\ Cardinality(Slot) = MAX_CLIENTS
  BY SizeAssumption, FS_Interval DEF Slot
<1>2. IsFiniteSet(A) /\ Cardinality(A) <= MAX_CLIENTS
      /\ (Cardinality(Slot) = Cardinality(A) => Slot = A)
  BY <1>1, FS_Subset
<1>3. Cardinality(A) \in Nat
  BY <1>2, FS_CardinalityType
<1> QED
  BY <1>1, <1>2, <1>3

LEMMA ActiveCounted ==
  /\ Active \in SUBSET Slot
  /\ IsFiniteSet(Active)
  /\ Cardinality(Active) \in Nat
  /\ Cardinality(Active) <= MAX_CLIENTS
  /\ Cardinality(Active) = MAX_CLIENTS <=> Active = Slot
<1>1. Active \in SUBSET Slot
  BY DEF Active
<1> QED
  BY <1>1, SlotsCounted

\* Rebuilding the array (main.c:82-89) copies the slots in use to the entries
\* from 1 to their number, every one of these entries getting a slot.
LEMMA PositionOnto ==
  /\ \A s \in Active : Position(s) \in 1..Cardinality(Active)
  /\ \A k \in 1..Cardinality(Active) : \E s \in Active : Position(s) = k
<1> DEFINE n == Cardinality(Active)
           Upto(s) == {t \in Active : t <= s}
           f == [s \in Active |-> Position(s)]
<1>1. IsFiniteSet(Active) /\ n \in Nat /\ Active \subseteq Int
  BY ActiveCounted DEF Slot
<1>2. \A s \in Active : IsFiniteSet(Upto(s)) /\ Cardinality(Upto(s)) \in 1..n
  <2> TAKE s \in Active
  <2>1. Upto(s) \in SUBSET Active
    OBVIOUS
  <2>2. IsFiniteSet(Upto(s)) /\ Cardinality(Upto(s)) <= n
    BY <1>1, <2>1, FS_Subset
  <2>3. s \in Upto(s)
    BY <1>1
  <2>4. Cardinality(Upto(s)) \in Nat /\ Cardinality(Upto(s)) # 0
    BY <2>2, <2>3, FS_CardinalityType, FS_EmptySet
  <2> QED
    BY <1>1, <2>2, <2>4
<1>3. \A s \in Active : Position(s) = Cardinality(Upto(s))
  BY DEF Position
<1>4. ASSUME NEW s \in Active, NEW t \in Active, s < t
      PROVE  Position(s) # Position(t)
  <2>1. s \in Int /\ t \in Int /\ \A u \in Active : u \in Int
    BY <1>1
  <2>2. t <= t /\ ~ (t <= s) /\ \A u \in Active : u <= s => u <= t
    BY <2>1, <1>4
  <2>3. t \in Upto(t) /\ t \notin Upto(s)
    BY <2>2
  <2>4. Upto(s) \in SUBSET Upto(t)
    BY <2>2, Zenon
  <2>5. Cardinality(Upto(t)) # Cardinality(Upto(s))
    BY <1>2, <2>3, <2>4, FS_Subset
  <2> QED
    BY <1>3, <2>5
<1>5. f \in Injection(Active, 1..n)
  <2>1. f \in [Active -> 1..n]
    BY <1>2, <1>3
  <2>2. \A s, t \in Active : f[s] = f[t] => s = t
    BY <1>1, <1>4
  <2> QED
    BY <2>1, <2>2 DEF Injection, IsInjective
<1>6. IsFiniteSet(1..n) /\ Cardinality(1..n) = n
  BY <1>1, FS_Interval
<1>7. f \in Surjection(Active, 1..n)
  BY <1>5, <1>6, FS_Injection
<1> QED
  BY <1>2, <1>3, <1>7 DEF Surjection

\* Enqueueing a connection that is not queued.
LEMMA QueueAppend ==
  ASSUME NEW S, NEW q \in Seq(S), NEW x \in S
  PROVE  /\ Append(q, x) \in Seq(S)
         /\ {Append(q, x)[k] : k \in DOMAIN Append(q, x)}
              = {q[k] : k \in DOMAIN q} \cup {x}
         /\ (/\ x \notin {q[k] : k \in DOMAIN q}
             /\ \A j, k \in DOMAIN q : q[j] = q[k] => j = k)
            => \A j, k \in DOMAIN Append(q, x) :
                 Append(q, x)[j] = Append(q, x)[k] => j = k
<1> DEFINE r == Append(q, x)
<1>1. /\ r \in Seq(S)
      /\ Len(q) \in Nat
      /\ DOMAIN q = 1..Len(q)
      /\ DOMAIN r = 1..(Len(q) + 1)
  OBVIOUS
<1>2. \A k \in 1..Len(q) : r[k] = q[k]
  OBVIOUS
<1>3. r[Len(q) + 1] = x
  OBVIOUS
<1>4. \A k \in DOMAIN r : k \in 1..Len(q) \/ k = Len(q) + 1
  BY <1>1
<1> HIDE DEF r
<1>5. {r[k] : k \in DOMAIN r} = {q[k] : k \in DOMAIN q} \cup {x}
  BY <1>1, <1>2, <1>3, <1>4
<1>6. ASSUME x \notin {q[k] : k \in DOMAIN q},
             \A j, k \in DOMAIN q : q[j] = q[k] => j = k,
             NEW j \in DOMAIN r, NEW k \in DOMAIN r, r[j] = r[k]
      PROVE  j = k
  BY <1>1, <1>2, <1>3, <1>4, <1>6
<1> QED
  BY <1>1, <1>5, <1>6 DEF r

\* Taking the first of a queue of distinct connections.
LEMMA QueueTail ==
  ASSUME NEW S, NEW q \in Seq(S), q # <<>>,
         \A j, k \in DOMAIN q : q[j] = q[k] => j = k
  PROVE  /\ Head(q) \in S
         /\ Head(q) \in {q[k] : k \in DOMAIN q}
         /\ Tail(q) \in Seq(S)
         /\ {Tail(q)[k] : k \in DOMAIN Tail(q)}
              = {q[k] : k \in DOMAIN q} \ {Head(q)}
         /\ \A j, k \in DOMAIN Tail(q) : Tail(q)[j] = Tail(q)[k] => j = k
<1> DEFINE r == Tail(q)
<1>1. /\ r \in Seq(S)
      /\ Len(q) \in Nat \ {0}
      /\ DOMAIN q = 1..Len(q)
      /\ DOMAIN r = 1..(Len(q) - 1)
  OBVIOUS
<1>2. Head(q) = q[1] /\ 1 \in DOMAIN q /\ q[1] \in S
  BY <1>1
<1>3. \A k \in 1..(Len(q) - 1) : r[k] = q[k + 1] /\ k + 1 \in DOMAIN q
  BY <1>1
<1>4. \A k \in DOMAIN q : k = 1 \/ (k - 1 \in DOMAIN r /\ r[k - 1] = q[k])
  BY <1>1, <1>3
<1>5. \A k \in DOMAIN r : r[k] # q[1]
  BY <1>1, <1>2, <1>3
<1> HIDE DEF r
<1>6. {r[k] : k \in DOMAIN r} = {q[k] : k \in DOMAIN q} \ {q[1]}
  <2>1. ASSUME NEW e \in {r[k] : k \in DOMAIN r}
        PROVE  e \in {q[k] : k \in DOMAIN q} \ {q[1]}
    <3>1. PICK k \in DOMAIN r : e = r[k]
      BY <2>1
    <3>2. e = q[k + 1] /\ k + 1 \in DOMAIN q /\ e # q[1]
      BY <1>1, <1>3, <1>5, <3>1
    <3> QED
      BY <3>2
  <2>2. ASSUME NEW e \in {q[k] : k \in DOMAIN q} \ {q[1]}
        PROVE  e \in {r[k] : k \in DOMAIN r}
    <3>1. PICK k \in DOMAIN q : e = q[k] /\ k # 1
      BY <2>2
    <3> QED
      BY <1>4, <3>1
  <2> QED
    BY <2>1, <2>2
<1>7. ASSUME NEW j \in DOMAIN r, NEW k \in DOMAIN r, r[j] = r[k]
      PROVE  j = k
  <2>1. q[j + 1] = q[k + 1] /\ j + 1 \in DOMAIN q /\ k + 1 \in DOMAIN q
    BY <1>1, <1>3, <1>7
  <2>2. j + 1 = k + 1 /\ j \in Int /\ k \in Int
    BY <1>1, <2>1
  <2> QED
    BY <2>2
<1> QED
  BY <1>1, <1>2, <1>6, <1>7 DEF r

-----------------------------------------------------------------------------
(* The inductive invariant.                                                *)

LEMMA InitIInv == Init => IInv
<1> SUFFICES ASSUME Init
             PROVE  IInv
  OBVIOUS
<1>1. TypeOK
  <2>1. 0 \in Entry /\ 0 \in 0..MAX_UNREAD /\ nfds \in 1..(MAX_CLIENTS + 1)
        /\ n_events \in 0..(MAX_CLIENTS + 1) /\ i \in 1..(MAX_CLIENTS + 1)
        /\ polled \in 0..MAX_CLIENTS
    BY SizeAssumption DEF Init, Entry
  <2> QED
    BY <2>1 DEF Init, TypeOK, State
<1>2. Active = {}
  BY DEF Init, Active
<1>3. DescriptorsOwned
  <2>1. Cardinality(Active) = 0
    BY <1>2, FS_EmptySet
  <2>2. nfds = Cardinality(Active) + 1
    BY <2>1 DEF Init
  <2>3. \A s \in Slot : client_states[s].fd = -1
    BY DEF Init
  <2>4. -1 \notin ClientFd
    BY DEF ClientFd
  <2>5. \A fd \in ClientFd : peer[fd] = None
    BY DEF Init
  <2> QED
    BY <1>2, <2>2, <2>3, <2>4, <2>5 DEF DescriptorsOwned
<1>4. BacklogDistinct
  <2>1. backlog = <<>> /\ DOMAIN backlog = {}
    BY DEF Init
  <2> QED
    BY <2>1 DEF BacklogDistinct, Waiting
<1>5. RoundAccounted
  BY SizeAssumption DEF Init, RoundAccounted, Entry
<1> QED
  BY <1>1, <1>3, <1>4, <1>5 DEF IInv

\* What the peers do disturbs neither the table nor the round: what was ready
\* stays ready.
LEMMA PeerStep ==
  ASSUME IInv, NEW c \in Conn, Connect(c) \/ Send(c) \/ Hangup(c)
  PROVE  IInv'
<1> USE DEF IInv
<1>1. /\ UNCHANGED <<loopVars, tableVars, peer>>
      /\ Active' = Active
      /\ Open' = Open
      /\ Pending' = Pending
  BY DEF Connect, Send, Hangup, loopVars, tableVars, Active, Open, Pending
<1>2. /\ backlog' \in Seq(Conn)
      /\ backlog # <<>> => backlog' # <<>>
      /\ BacklogDistinct'
  <2>1. CASE Connect(c)
    <3>1. backlog' = Append(backlog, c) /\ c \notin Waiting \cup Open
          /\ backlog \in Seq(Conn)
      BY <2>1 DEF Connect, TypeOK
    <3>2. backlog' \in Seq(Conn) /\ backlog' # <<>>
      BY <3>1, QueueAppend
    <3>3. Waiting' = Waiting \cup {c}
      BY <3>1, QueueAppend DEF Waiting
    <3>4. \A j, k \in DOMAIN backlog' : backlog'[j] = backlog'[k] => j = k
      BY <3>1, QueueAppend DEF Waiting, BacklogDistinct
    <3> QED
      BY <1>1, <3>1, <3>2, <3>3, <3>4 DEF BacklogDistinct
  <2>2. CASE Send(c) \/ Hangup(c)
    BY <1>1, <2>2 DEF Send, Hangup, BacklogDistinct, Waiting, TypeOK
  <2> QED
    BY <2>1, <2>2
<1>3. /\ unread' \in [Conn -> 0..MAX_UNREAD]
      /\ hup' \in SUBSET Conn
      /\ \A d \in Conn :
           unread[d] > 0 \/ d \in hup => unread'[d] > 0 \/ d \in hup'
  <2>1. CASE Connect(c)
    BY <2>1 DEF Connect, TypeOK
  <2>2. CASE Send(c)
    BY <2>2, SizeAssumption DEF Send, TypeOK
  <2>3. CASE Hangup(c)
    BY <2>3, SizeAssumption DEF Hangup, TypeOK
  <2> QED
    BY <2>1, <2>2, <2>3
<1>4. \A fd : Readable(fd) => Readable(fd)'
  BY <1>1, <1>2, <1>3 DEF Readable
<1>5. TypeOK'
  BY <1>1, <1>2, <1>3 DEF TypeOK, loopVars, tableVars
<1>6. DescriptorsOwned'
  BY <1>1 DEF DescriptorsOwned, tableVars
<1>7. RoundAccounted'
  BY <1>1, <1>2, <1>4 DEF RoundAccounted, loopVars, tableVars
<1> QED
  BY <1>2, <1>5, <1>6, <1>7

\* After the array is rebuilt, entry 0 is the listening socket and each entry
\* poll is given holds the descriptor of a slot, no two of the same slot.
LEMMA RebuiltEntries ==
  ASSUME IInv
  PROVE  /\ Rebuilt \in [Entry -> [fd : ClientFd \cup {0, LISTEN_FD},
                                   revents : BOOLEAN]]
         /\ Rebuilt[0].fd = LISTEN_FD
         /\ \A k \in 1..(nfds - 1) :
              \E s \in Active :
                Position(s) = k /\ Rebuilt[k].fd = client_states[s].fd
<1> USE DEF IInv
<1> DEFINE At(k) == CHOOSE s \in Active : Position(s) = k
<1>1. \A k : (\E s \in Active : Position(s) = k)
               => At(k) \in Active /\ Position(At(k)) = k
  OBVIOUS
<1>2. \A s \in Active : client_states[s].fd \in ClientFd
  BY DEF TypeOK, Active
<1>3. \A k \in Entry :
        Rebuilt[k] = IF \E s \in Active : Position(s) = k
                     THEN [fds[k] EXCEPT !.fd = client_states[At(k)].fd]
                     ELSE fds[k]
  BY DEF Rebuilt
<1> HIDE DEF At
<1>4. ASSUME NEW k \in Entry
      PROVE  Rebuilt[k] \in [fd : ClientFd \cup {0, LISTEN_FD}, revents : BOOLEAN]
  <2>1. fds[k] \in [fd : ClientFd \cup {0, LISTEN_FD}, revents : BOOLEAN]
    BY DEF TypeOK
  <2>2. CASE \E s \in Active : Position(s) = k
    <3>1. client_states[At(k)].fd \in ClientFd
      BY <1>1, <1>2, <2>2
    <3>2. Rebuilt[k] = [fds[k] EXCEPT !.fd = client_states[At(k)].fd]
      BY <1>3, <2>2
    <3> QED
      BY <2>1, <3>1, <3>2
  <2>3. CASE ~ \E s \in Active : Position(s) = k
    BY <1>3, <2>1, <2>3
  <2> QED
    BY <2>2, <2>3
<1>5. Rebuilt \in [Entry -> [fd : ClientFd \cup {0, LISTEN_FD}, revents : BOOLEAN]]
  BY <1>4 DEF Rebuilt
<1>6. Rebuilt[0].fd = LISTEN_FD
  <2>1. 0 \in Entry /\ \A s \in Active : Position(s) # 0
    BY PositionOnto, ActiveCounted, SizeAssumption DEF Entry
  <2> QED
    BY <1>3, <2>1 DEF RoundAccounted
<1>7. ASSUME NEW k \in 1..(nfds - 1)
      PROVE  \E s \in Active :
               Position(s) = k /\ Rebuilt[k].fd = client_states[s].fd
  <2>1. k \in Entry /\ k \in 1..Cardinality(Active)
    BY ActiveCounted, SizeAssumption DEF DescriptorsOwned, Entry
  <2>2. At(k) \in Active /\ Position(At(k)) = k
    BY <1>1, <2>1, PositionOnto
  <2>3. fds[k] \in [fd : ClientFd \cup {0, LISTEN_FD}, revents : BOOLEAN]
    BY <2>1 DEF TypeOK
  <2>4. Rebuilt[k].fd = client_states[At(k)].fd
    BY <1>3, <2>1, <2>2, <2>3
  <2> QED
    BY <2>2, <2>4
<1> QED
  BY <1>5, <1>6, <1>7

LEMMA PollStep ==
  ASSUME IInv, Poll
  PROVE  IInv'
<1> USE DEF IInv
<1> DEFINE n == nfds - 1
           ready == {k \in 0..(nfds - 1) : Readable(Rebuilt[k].fd)}
<1>1. /\ UNCHANGED <<client_states, nfds, backlog, peer, unread, hup>>
      /\ i' = 1 /\ polled' = n
      /\ fds' = [k \in Entry |->
                   IF k < nfds THEN [Rebuilt[k] EXCEPT !.revents = k \in ready]
                               ELSE Rebuilt[k]]
      /\ n_events' = Cardinality(ready)
      /\ pc' = IF 0 \in ready THEN "accept" ELSE "scan"
  BY DEF Poll, kernelVars
<1>2. /\ n \in Nat /\ MAX_CLIENTS \in Nat /\ n <= MAX_CLIENTS
      /\ nfds = n + 1 /\ n = Cardinality(Active)
  BY ActiveCounted, SizeAssumption DEF DescriptorsOwned
<1>0. /\ ready \subseteq 0..n /\ 0 \in 0..n
      /\ \A k \in 0..n : k \in ready <=> Readable(Rebuilt[k].fd)
  BY <1>2
<1> HIDE DEF n, ready
<1>3. /\ \A k \in Entry : fds'[k].fd = Rebuilt[k].fd
      /\ \A k \in 0..n : fds'[k].revents <=> k \in ready
      /\ fds' \in [Entry -> [fd : ClientFd \cup {0, LISTEN_FD}, revents : BOOLEAN]]
  <2>1. ASSUME NEW k \in Entry
        PROVE  /\ fds'[k].fd = Rebuilt[k].fd
               /\ k \in 0..n => (fds'[k].revents <=> k \in ready)
               /\ fds'[k] \in [fd : ClientFd \cup {0, LISTEN_FD}, revents : BOOLEAN]
    <3>1. Rebuilt[k] \in [fd : ClientFd \cup {0, LISTEN_FD}, revents : BOOLEAN]
      BY RebuiltEntries
    <3>2. (k \in ready) \in BOOLEAN /\ k \in Int
      BY DEF Entry
    <3>3. fds'[k] = IF k < nfds THEN [Rebuilt[k] EXCEPT !.revents = k \in ready]
                                ELSE Rebuilt[k]
      BY <1>1
    <3>4. k \in 0..n => k < nfds
      BY <1>2
    <3> QED
      BY <3>1, <3>2, <3>3, <3>4
  <2>2. 0..n \subseteq Entry
    BY <1>2 DEF Entry
  <2>3. fds' = [k \in Entry |-> fds'[k]]
    BY <1>1
  <2> QED
    BY <2>1, <2>2, <2>3
<1>4. IsFiniteSet(ready) /\ Cardinality(ready) \in 0..(MAX_CLIENTS + 1)
  <2>1. IsFiniteSet(0..n) /\ Cardinality(0..n) = n + 1
    BY <1>2, FS_Interval
  <2>2. ready \in SUBSET (0..n)
    BY <1>0
  <2>3. IsFiniteSet(ready) /\ Cardinality(ready) <= n + 1
    BY <2>1, <2>2, FS_Subset
  <2> QED
    BY <1>2, <2>3, FS_CardinalityType
<1>5. TypeOK'
  <2>1. 1 \in 1..(MAX_CLIENTS + 1)
    BY SizeAssumption
  <2> QED
    BY <1>1, <1>2, <1>3, <1>4, <2>1 DEF TypeOK
<1>6. DescriptorsOwned' /\ BacklogDistinct'
  <2>1. Active' = Active /\ Open' = Open /\ Waiting' = Waiting
    BY <1>1 DEF Active, Open, Waiting
  <2> QED
    BY <1>1, <2>1 DEF DescriptorsOwned, BacklogDistinct
<1>7. \A k \in 1..n :
        \E s \in Active : Position(s) = k /\ fds'[k].fd = client_states[s].fd
  BY <1>2, <1>3, RebuiltEntries DEF Entry
<1>8. n_events' = Cardinality(Pending') + (IF pc' = "accept" THEN 1 ELSE 0)
  <2>1. Pending' = {k \in 1..n : fds'[k].revents}
    BY <1>1 DEF Pending
  <2>2. Pending' = ready \ {0}
    <3>1. \A k \in 1..n : k \in 0..n /\ k # 0
      BY <1>2
    <3>2. \A k \in 0..n : k # 0 => k \in 1..n
      BY <1>2
    <3>3. \A k \in 1..n : fds'[k].revents <=> k \in ready
      BY <1>3, <3>1
    <3> QED
      BY <1>0, <2>1, <3>1, <3>2, <3>3
  <2>3. Cardinality(Pending') = IF 0 \in ready THEN Cardinality(ready) - 1
                                ELSE Cardinality(ready)
    BY <1>4, <2>2, FS_RemoveElement
  <2> QED
    BY <1>1, <1>4, <2>3
<1>9. RoundAccounted'
  <2>1. fds'[0].fd = LISTEN_FD
    BY <1>3, RebuiltEntries, SizeAssumption DEF Entry
  <2>2. pc' = "accept" => backlog' # <<>> /\ i' = 1
    <3>1. 0 \in ready => Readable(LISTEN_FD)
      BY <1>0, RebuiltEntries
    <3>2. LISTEN_FD \notin ClientFd
      BY DEF LISTEN_FD, ClientFd
    <3> QED
      BY <1>1, <3>1, <3>2 DEF Readable
  <2>3. \A j, k \in 1..polled' : fds'[j].fd = fds'[k].fd => j = k
    BY <1>1, <1>7 DEF DescriptorsOwned
  <2>4. ASSUME NEW k \in (i..polled)'
        PROVE  /\ fds'[k].fd \in ClientFd
               /\ \E s \in Slot : client_states'[s].fd = fds'[k].fd
               /\ fds'[k].revents => Readable(fds[k].fd)'
    <3>1. k \in 1..n
      BY <1>1
    <3>2. PICK s \in Active : fds'[k].fd = client_states[s].fd
      BY <1>7, <3>1
    <3>3. s \in Slot /\ client_states[s].fd \in ClientFd
      BY DEF Active, TypeOK
    <3>4. k \in 0..n /\ k \in Entry
      BY <1>2, <3>1 DEF Entry
    <3>5. fds'[k].revents => Readable(Rebuilt[k].fd)
      BY <1>0, <1>3, <3>4
    <3>6. fds'[k].fd = Rebuilt[k].fd
      BY <1>3, <3>4
    <3>7. Readable(fds'[k].fd) => Readable(fds[k].fd)'
      BY <1>1, Zenon DEF Readable
    <3> QED
      BY <1>1, <3>2, <3>3, <3>5, <3>6, <3>7
  <2> QED
    BY <1>8, <2>1, <2>2, <2>3, <2>4 DEF RoundAccounted
<1> QED
  BY <1>5, <1>6, <1>9

LEMMA PendingCounted ==
  ASSUME IInv
  PROVE  /\ Pending \in SUBSET (1..polled)
         /\ polled \in Nat /\ polled <= MAX_CLIENTS
         /\ IsFiniteSet(Pending)
         /\ Cardinality(Pending) \in Nat
<1>1. /\ Pending \in SUBSET (1..polled)
      /\ polled \in Nat /\ polled <= MAX_CLIENTS
  BY SizeAssumption DEF IInv, TypeOK, Pending
<1>2. IsFiniteSet(1..polled)
  BY <1>1, FS_Interval
<1>3. IsFiniteSet(Pending)
  BY <1>1, <1>2, FS_Subset
<1> QED
  BY <1>1, <1>3, FS_CardinalityType

\* Opening a connection under a descriptor that was not open.
LEMMA OpenOne ==
  ASSUME IInv, NEW fd \in ClientFd, NEW c \in Conn,
         peer[fd] = None, peer' = [peer EXCEPT ![fd] = c]
  PROVE  /\ Open' = Open \cup {c}
         /\ peer' \in [ClientFd -> Conn \cup {None}]
         /\ \A g \in ClientFd : g # fd => peer'[g] = peer[g]
         /\ peer'[fd] = c
<1>1. peer \in [ClientFd -> Conn \cup {None}]
  BY DEF IInv, TypeOK
<1>2. /\ peer' \in [ClientFd -> Conn \cup {None}]
      /\ \A g \in ClientFd : g # fd => peer'[g] = peer[g]
      /\ peer'[fd] = c
  BY <1>1
<1>3. Open' = Open \cup {c}
  <2>1. ASSUME NEW d \in Open' PROVE d \in Open \cup {c}
    <3>1. PICK g \in ClientFd : d = peer'[g] /\ d # None
      BY <2>1 DEF Open
    <3> QED
      BY <1>2, <3>1 DEF Open
  <2>2. ASSUME NEW d \in Open PROVE d \in Open'
    <3>1. PICK g \in ClientFd : d = peer[g] /\ d # None
      BY <2>2 DEF Open
    <3>2. g # fd
      BY <3>1
    <3> QED
      BY <1>2, <3>1, <3>2 DEF Open
  <2>3. c \in Open'
    BY <1>2, ConnAssumption DEF Open
  <2> QED
    BY <2>1, <2>2, <2>3
<1> QED
  BY <1>2, <1>3

\* Closing one: it was open under that descriptor only.
LEMMA CloseOne ==
  ASSUME IInv, NEW fd \in ClientFd, NEW c \in Conn,
         peer[fd] = c, peer' = [peer EXCEPT ![fd] = None]
  PROVE  /\ Open' = Open \ {c}
         /\ peer' \in [ClientFd -> Conn \cup {None}]
         /\ \A g \in ClientFd : g # fd => peer'[g] = peer[g] /\ peer[g] # c
         /\ peer'[fd] = None
<1>1. /\ peer \in [ClientFd -> Conn \cup {None}]
      /\ \A g, h \in ClientFd : peer[g] = peer[h] /\ g # h => peer[g] = None
  BY DEF IInv, TypeOK, DescriptorsOwned
<1>2. /\ peer' \in [ClientFd -> Conn \cup {None}]
      /\ \A g \in ClientFd : g # fd => peer'[g] = peer[g] /\ peer[g] # c
      /\ peer'[fd] = None
  BY <1>1, ConnAssumption
<1>3. Open' = Open \ {c}
  <2>1. ASSUME NEW d \in Open' PROVE d \in Open \ {c}
    <3>1. PICK g \in ClientFd : d = peer'[g] /\ d # None
      BY <2>1 DEF Open
    <3> QED
      BY <1>2, <3>1 DEF Open
  <2>2. ASSUME NEW d \in Open \ {c} PROVE d \in Open'
    <3>1. PICK g \in ClientFd : d = peer[g] /\ d # None
      BY <2>2 DEF Open
    <3> QED
      BY <1>2, <2>2, <3>1 DEF Open
  <2> QED
    BY <2>1, <2>2
<1> QED
  BY <1>2, <1>3

\* The queue loses its first connection, which is not open.
LEMMA AcceptFacts ==
  ASSUME IInv, pc = "accept", backlog' = Tail(backlog)
  PROVE  /\ Head(backlog) \in Waiting /\ Head(backlog) \in Conn
         /\ Head(backlog) \notin Open
         /\ backlog' \in Seq(Conn)
         /\ Waiting' = Waiting \ {Head(backlog)}
         /\ \A j, k \in DOMAIN backlog' : backlog'[j] = backlog'[k] => j = k
<1>1. backlog \in Seq(Conn) /\ backlog # <<>>
  BY DEF IInv, TypeOK, RoundAccounted
<1>2. \A j, k \in DOMAIN backlog : backlog[j] = backlog[k] => j = k
  BY DEF IInv, BacklogDistinct
<1>3. /\ Head(backlog) \in Conn
      /\ Head(backlog) \in Waiting
      /\ Tail(backlog) \in Seq(Conn)
      /\ {Tail(backlog)[k] : k \in DOMAIN Tail(backlog)} = Waiting \ {Head(backlog)}
      /\ \A j, k \in DOMAIN Tail(backlog) :
           Tail(backlog)[j] = Tail(backlog)[k] => j = k
  BY <1>1, <1>2, QueueTail DEF Waiting
<1>4. Waiting' = Waiting \ {Head(backlog)}
  BY <1>3 DEF Waiting
<1> QED
  BY <1>3, <1>4 DEF IInv, BacklogDistinct

\* The entries still to be handled are held by slots that were in use, so a
\* connection accepted meanwhile, in a free slot and under a free descriptor,
\* is not among them.
LEMMA AcceptSlotStep ==
  ASSUME IInv, AcceptSlot
  PROVE  IInv'
<1> DEFINE c == Head(backlog)
<1>1. PICK s \in Slot, fd \in ClientFd :
        /\ FirstFree(s)
        /\ LowestFd(fd)
        /\ client_states' = [client_states EXCEPT
                               ![s] = [fd |-> fd, state |-> "HELLO"]]
        /\ peer' = [peer EXCEPT ![fd] = c]
  BY DEF AcceptSlot
<1>2. /\ pc = "accept" /\ pc' = "scan"
      /\ backlog' = Tail(backlog)
      /\ nfds' = nfds + 1
      /\ n_events' = n_events - 1
      /\ UNCHANGED <<fds, i, polled, unread, hup>>
  BY DEF AcceptSlot
<1>3. /\ c \in Conn /\ c \notin Open
      /\ backlog' \in Seq(Conn)
      /\ Waiting' = Waiting \ {c}
      /\ \A j, k \in DOMAIN backlog' : backlog'[j] = backlog'[k] => j = k
  BY <1>2, AcceptFacts
<1> HIDE DEF c
<1>4. /\ client_states[s].fd = -1 /\ s \notin Active
      /\ peer[fd] = None
      /\ \A t \in Slot : client_states[t].fd # fd
      /\ fd # -1 /\ -1 \notin ClientFd
  BY <1>1 DEF FirstFree, LowestFd, IInv, DescriptorsOwned, Active, ClientFd
<1>5. /\ client_states' \in [Slot -> [fd : ClientFd \cup {-1}, state : State]]
      /\ client_states'[s].fd = fd
      /\ \A t \in Slot : t # s => client_states'[t] = client_states[t]
  BY <1>1 DEF IInv, TypeOK, State
<1>6. /\ Open' = Open \cup {c}
      /\ peer' \in [ClientFd -> Conn \cup {None}]
      /\ \A g \in ClientFd : g # fd => peer'[g] = peer[g]
      /\ peer'[fd] = c
  BY <1>1, <1>3, <1>4, OpenOne
<1>7. Active' = Active \cup {s}
  BY <1>4, <1>5 DEF Active
<1>8. /\ nfds' = Cardinality(Active') + 1
      /\ nfds' \in 1..(MAX_CLIENTS + 1)
  <2>1. Active' \in SUBSET Slot
    BY DEF Active
  <2>2. Cardinality(Active') \in Nat /\ Cardinality(Active') <= MAX_CLIENTS
    BY <2>1, SlotsCounted
  <2>3. Cardinality(Active') = Cardinality(Active) + 1
    BY <1>4, <1>7, ActiveCounted, FS_AddElement
  <2> QED
    BY <1>2, <2>2, <2>3, ActiveCounted, SizeAssumption DEF IInv, DescriptorsOwned
<1>9. n_events' = Cardinality(Pending') /\ n_events' \in 0..(MAX_CLIENTS + 1)
  <2>1. Pending' = Pending
    BY <1>2 DEF Pending
  <2>3. Cardinality(Pending) \in Nat
    BY PendingCounted
  <2>4. n_events = Cardinality(Pending) + 1
    BY <1>2 DEF IInv, RoundAccounted
  <2> QED
    BY <1>2, <2>1, <2>3, <2>4, SizeAssumption DEF IInv, TypeOK
<1>10. TypeOK'
  BY <1>2, <1>3, <1>5, <1>6, <1>8, <1>9 DEF IInv, TypeOK
<1>11. DescriptorsOwned'
  <2>1. ASSUME NEW g \in ClientFd
        PROVE  peer'[g] # None <=> \E t \in Slot : client_states'[t].fd = g
    <3>1. CASE g = fd
      BY <1>3, <1>5, <1>6, <3>1, ConnAssumption
    <3>2. CASE g # fd
      <4>1. peer[g] # None <=> \E t \in Slot : client_states[t].fd = g
        BY DEF IInv, DescriptorsOwned
      <4>2. \A t \in Slot : client_states'[t].fd = g <=> client_states[t].fd = g
        BY <1>4, <1>5, <3>2
      <4> QED
        BY <1>6, <3>2, <4>1, <4>2
    <3> QED
      BY <3>1, <3>2
  <2>2. ASSUME NEW t \in Active', NEW u \in Active',
               client_states'[t].fd = client_states'[u].fd
        PROVE  t = u
    <3>1. t \in Slot /\ u \in Slot
      BY <1>7 DEF Active
    <3>2. CASE t # s /\ u # s
      BY <1>5, <1>7, <2>2, <3>1, <3>2 DEF IInv, DescriptorsOwned
    <3>3. CASE t = s \/ u = s
      BY <1>4, <1>5, <2>2, <3>1, <3>3
    <3> QED
      BY <3>2, <3>3
  <2>3. ASSUME NEW g \in ClientFd, NEW h \in ClientFd, peer'[g] = peer'[h], g # h
        PROVE  peer'[g] = None
    <3>1. \A e \in ClientFd : peer[e] # c
      BY <1>3, ConnAssumption DEF Open
    <3>2. CASE g # fd /\ h # fd
      BY <1>6, <2>3, <3>2 DEF IInv, DescriptorsOwned
    <3>3. CASE g = fd \/ h = fd
      BY <1>6, <2>3, <3>1, <3>3
    <3> QED
      BY <3>2, <3>3
  <2> QED
    BY <1>8, <2>1, <2>2, <2>3 DEF DescriptorsOwned
<1>12. BacklogDistinct'
  BY <1>3, <1>6 DEF IInv, BacklogDistinct
<1>13. RoundAccounted'
  <2>1. ASSUME NEW k \in i..polled
        PROVE  /\ fds[k].fd \in ClientFd
               /\ \E t \in Slot : client_states'[t].fd = fds[k].fd
               /\ fds[k].revents => Readable(fds[k].fd)'
    <3>1. /\ fds[k].fd \in ClientFd
          /\ \E t \in Slot : client_states[t].fd = fds[k].fd
          /\ fds[k].revents => Readable(fds[k].fd)
      BY <1>2 DEF IInv, RoundAccounted
    <3>2. PICK t \in Slot : client_states[t].fd = fds[k].fd
      BY <3>1
    <3>3. t # s /\ fds[k].fd # fd
      BY <1>4, <3>1, <3>2
    <3>4. fds[k].fd # LISTEN_FD
      BY <3>1 DEF LISTEN_FD, ClientFd
    <3>5. Readable(fds[k].fd) => Readable(fds[k].fd)'
      BY <1>2, <1>6, <3>1, <3>3, <3>4 DEF Readable
    <3> QED
      BY <1>5, <3>1, <3>2, <3>3, <3>5
  <2> QED
    BY <1>2, <1>9, <2>1 DEF IInv, RoundAccounted
<1> QED
  BY <1>10, <1>11, <1>12, <1>13 DEF IInv

\* A refused connection was never open, so no entry stands for it; a failed
\* accept ends the round.
LEMMA RefuseStep ==
  ASSUME IInv, AcceptFull \/ AcceptFails
  PROVE  IInv'
<1>1. CASE AcceptFails
  <2>1. /\ UNCHANGED <<client_states, fds, nfds, i, polled, backlog, peer, unread, hup>>
        /\ pc' = "poll" /\ n_events' = 0
    BY <1>1 DEF AcceptFails, tableVars, kernelVars
  <2>2. Active' = Active /\ Open' = Open /\ Waiting' = Waiting
    BY <2>1 DEF Active, Open, Waiting
  <2>3. TypeOK'
    BY <2>1, SizeAssumption DEF IInv, TypeOK
  <2>4. DescriptorsOwned' /\ BacklogDistinct' /\ RoundAccounted'
    BY <2>1, <2>2 DEF IInv, DescriptorsOwned, BacklogDistinct, RoundAccounted
  <2> QED
    BY <2>3, <2>4 DEF IInv
<1>2. CASE AcceptFull
  <2> DEFINE c == Head(backlog)
  <2>1. /\ pc = "accept" /\ pc' = "scan"
        /\ backlog' = Tail(backlog)
        /\ unread' = [unread EXCEPT ![c] = 0]
        /\ hup' = hup \ {c}
        /\ n_events' = n_events - 1
        /\ UNCHANGED <<client_states, fds, nfds, i, polled, peer>>
    BY <1>2 DEF AcceptFull, tableVars
  <2>2. /\ c \in Conn /\ c \notin Open
        /\ backlog' \in Seq(Conn)
        /\ Waiting' = Waiting \ {c}
        /\ \A j, k \in DOMAIN backlog' : backlog'[j] = backlog'[k] => j = k
    BY <2>1, AcceptFacts
  <2> HIDE DEF c
  <2>3. Active' = Active /\ Open' = Open /\ Pending' = Pending
    BY <2>1 DEF Active, Open, Pending
  <2>4. n_events' = Cardinality(Pending') /\ n_events' \in 0..(MAX_CLIENTS + 1)
    <3>2. Cardinality(Pending) \in Nat
      BY PendingCounted
    <3>3. n_events = Cardinality(Pending) + 1
      BY <2>1 DEF IInv, RoundAccounted
    <3> QED
      BY <2>1, <2>3, <3>2, <3>3, SizeAssumption DEF IInv, TypeOK
  <2>5. TypeOK'
    BY <2>1, <2>2, <2>4, SizeAssumption DEF IInv, TypeOK
  <2>6. DescriptorsOwned' /\ BacklogDistinct'
    BY <2>1, <2>2, <2>3 DEF IInv, DescriptorsOwned, BacklogDistinct
  <2>7. ASSUME NEW k \in i..polled, fds[k].revents
        PROVE  Readable(fds[k].fd)'
    <3>1. fds[k].fd \in ClientFd /\ Readable(fds[k].fd) /\ fds[k].fd # LISTEN_FD
      BY <2>1, <2>7 DEF IInv, RoundAccounted, LISTEN_FD, ClientFd
    <3>2. peer[fds[k].fd] \in Conn /\ peer[fds[k].fd] # c
      BY <2>2, <3>1, ConnAssumption DEF Readable, Open
    <3> QED
      BY <2>1, <3>1, <3>2 DEF Readable, IInv, TypeOK
  <2>8. RoundAccounted'
    BY <2>1, <2>4, <2>7 DEF IInv, RoundAccounted
  <2> QED
    BY <2>5, <2>6, <2>8 DEF IInv
<1> QED
  BY <1>1, <1>2

\* While the scan has events left there is a ready entry at i or after it, so
\* it looks at one poll filled in; looking at it takes it off those pending.
LEMMA ScanningEntry ==
  ASSUME IInv, Scanning
  PROVE  /\ i \in 1..polled /\ i \in Entry
         /\ i + 1 \in 1..(MAX_CLIENTS + 1)
         /\ fds[i].fd \in ClientFd
         /\ \E s \in Slot : client_states[s].fd = fds[i].fd
         /\ fds[i].revents => Readable(fds[i].fd)
<1>1. n_events = Cardinality(Pending) /\ n_events > 0
  BY PendingCounted DEF IInv, RoundAccounted, Scanning
<1>2. Pending # {}
  BY <1>1, FS_EmptySet
<1>3. PICK k \in Pending : TRUE
  BY <1>2
<1>4. i \in Nat \ {0} /\ polled \in Nat /\ polled <= MAX_CLIENTS
      /\ MAX_CLIENTS \in Nat
  BY PendingCounted, SizeAssumption DEF IInv, TypeOK
<1>5. i \in i..polled
  BY <1>3, <1>4 DEF Pending
<1> QED
  BY <1>4, <1>5 DEF IInv, RoundAccounted, Scanning, Entry

LEMMA ScanAdvances ==
  ASSUME IInv, Scanning, i' = i + 1, UNCHANGED <<fds, polled>>
  PROVE  /\ Pending' = Pending \ {i}
         /\ Cardinality(Pending') =
              IF fds[i].revents THEN n_events - 1 ELSE n_events
<1>1. i \in 1..polled /\ polled \in Nat /\ i \in Nat
  BY ScanningEntry, PendingCounted
<1>2. \A k : k \in (i + 1)..polled <=> k \in i..polled /\ k # i
  BY <1>1
<1>3. Pending' = Pending \ {i}
  BY <1>2 DEF Pending
<1>4. i \in Pending <=> fds[i].revents
  BY <1>1 DEF Pending
<1>5. n_events = Cardinality(Pending)
  BY PendingCounted DEF IInv, RoundAccounted, Scanning
<1> QED
  BY <1>3, <1>4, <1>5, PendingCounted, FS_RemoveElement

\* The other entries are other descriptors, hence other connections.
LEMMA OthersPending ==
  ASSUME IInv, Scanning, NEW k \in (i + 1)..polled
  PROVE  /\ k \in i..polled
         /\ fds[k].fd \in ClientFd /\ fds[k].fd # fds[i].fd
         /\ fds[k].fd # LISTEN_FD
         /\ peer[fds[k].fd] \in Conn
         /\ peer[fds[k].fd] # peer[fds[i].fd]
<1>1. i \in 1..polled /\ polled \in Nat /\ i \in Nat /\ fds[i].fd \in ClientFd
  BY ScanningEntry, PendingCounted
<1>2. k \in i..polled /\ k \in 1..polled /\ k # i
  BY <1>1
<1>3. /\ fds[k].fd \in ClientFd
      /\ \E s \in Slot : client_states[s].fd = fds[k].fd
      /\ fds[k].fd # fds[i].fd
  BY <1>1, <1>2 DEF IInv, RoundAccounted, Scanning
<1>4. peer[fds[k].fd] # None
  BY <1>3 DEF IInv, DescriptorsOwned
<1> QED
  BY <1>1, <1>2, <1>3, <1>4
     DEF IInv, TypeOK, DescriptorsOwned, LISTEN_FD, ClientFd

LEMMA ScanIdleStep ==
  ASSUME IInv, ScanEnd \/ ScanSkip
  PROVE  IInv'
<1>1. /\ UNCHANGED <<client_states, fds, nfds, polled, backlog, peer, unread, hup>>
      /\ Active' = Active /\ Open' = Open /\ Waiting' = Waiting
  BY DEF ScanEnd, ScanSkip, tableVars, kernelVars, Active, Open, Waiting
<1>2. DescriptorsOwned' /\ BacklogDistinct'
  BY <1>1 DEF IInv, DescriptorsOwned, BacklogDistinct
<1>3. CASE ScanEnd
  <2>1. pc' = "poll" /\ n_events' = 0 /\ i' = 1
    BY <1>3 DEF ScanEnd
  <2>2. TypeOK' /\ RoundAccounted'
    BY <1>1, <2>1, SizeAssumption DEF IInv, TypeOK, RoundAccounted
  <2> QED
    BY <1>2, <2>2 DEF IInv
<1>4. CASE ScanSkip
  <2>1. Scanning /\ ~ fds[i].revents /\ i' = i + 1 /\ pc' = pc /\ n_events' = n_events
    BY <1>4 DEF ScanSkip
  <2>2. n_events' = Cardinality(Pending') /\ n_events' \in Int
    BY <1>1, <2>1, ScanAdvances DEF IInv, TypeOK
  <2>3. i + 1 \in 1..(MAX_CLIENTS + 1)
    BY <2>1, ScanningEntry
  <2>4. TypeOK'
    BY <1>1, <2>1, <2>3 DEF IInv, TypeOK
  <2>5. \A k \in (i + 1)..polled : k \in i..polled
    BY <2>1, OthersPending
  <2>6. \A fd : Readable(fd) => Readable(fd)'
    BY <1>1 DEF Readable
  <2>7. RoundAccounted'
    BY <1>1, <2>1, <2>2, <2>5, <2>6 DEF IInv, RoundAccounted, Scanning
  <2> QED
    BY <1>2, <2>4, <2>7 DEF IInv
<1> QED
  BY <1>3, <1>4

\* The slot that is read holds the descriptor of the entry that was ready.
LEMMA DataOfEntry ==
  ASSUME ScanData
  PROVE  \E s \in Slot, c \in Conn, left \in 0..MAX_UNREAD :
           /\ FirstWithFd(s, fds[i].fd)
           /\ c = peer[fds[i].fd]
           /\ left < unread[c]
           /\ unread' = [unread EXCEPT ![c] = left]
           /\ \E state \in AfterMessage(client_states[s].state) :
                client_states' = [client_states EXCEPT ![s].state = state]
<1>1. PICK s \in Slot, c \in Conn, left \in 0..MAX_UNREAD :
        /\ FirstWithFd(s, fds[i].fd)
        /\ c = peer[client_states[s].fd]
        /\ left < unread[c]
        /\ unread' = [unread EXCEPT ![c] = left]
        /\ \E state \in AfterMessage(client_states[s].state) :
             client_states' = [client_states EXCEPT ![s].state = state]
  BY DEF ScanData
<1>2. client_states[s].fd = fds[i].fd
  BY <1>1 DEF FirstWithFd
<1> QED
  BY <1>1, <1>2

LEMMA CloseOfEntry ==
  ASSUME ScanClose
  PROVE  \E s \in Slot, c \in Conn :
           /\ FirstWithFd(s, fds[i].fd)
           /\ c = peer[fds[i].fd]
           /\ c \in hup
           /\ unread[c] = 0
           /\ client_states' = [client_states EXCEPT
                                  ![s] = [fd |-> -1, state |-> "DISCONNECTED"]]
           /\ hup' = hup \ {c}
<1>1. PICK s \in Slot, c \in Conn :
        /\ FirstWithFd(s, fds[i].fd)
        /\ c = peer[client_states[s].fd]
        /\ c \in hup
        /\ unread[c] = 0
        /\ client_states' = [client_states EXCEPT
                               ![s] = [fd |-> -1, state |-> "DISCONNECTED"]]
        /\ hup' = hup \ {c}
  BY DEF ScanClose
<1>2. client_states[s].fd = fds[i].fd
  BY <1>1 DEF FirstWithFd
<1> QED
  BY <1>1, <1>2

\* Reading drains one connection; the table keeps its descriptors.
LEMMA ScanDataStep ==
  ASSUME IInv, ScanData
  PROVE  IInv'
<1>1. PICK s \in Slot, c \in Conn, left \in 0..MAX_UNREAD :
        /\ FirstWithFd(s, fds[i].fd)
        /\ c = peer[fds[i].fd]
        /\ left < unread[c]
        /\ unread' = [unread EXCEPT ![c] = left]
        /\ \E state \in AfterMessage(client_states[s].state) :
             client_states' = [client_states EXCEPT ![s].state = state]
  BY DataOfEntry
<1>2. /\ Scanning /\ fds[i].revents
      /\ n_events' = n_events - 1 /\ i' = i + 1
      /\ UNCHANGED <<pc, polled, fds, nfds, backlog, peer, hup>>
  BY DEF ScanData
<1>3. /\ client_states' \in [Slot -> [fd : ClientFd \cup {-1}, state : State]]
      /\ \A t \in Slot : client_states'[t].fd = client_states[t].fd
  <2>1. PICK state \in AfterMessage(client_states[s].state) :
          client_states' = [client_states EXCEPT ![s].state = state]
    BY <1>1
  <2>2. client_states \in [Slot -> [fd : ClientFd \cup {-1}, state : State]]
    BY DEF IInv, TypeOK
  <2>3. state \in State
    BY <2>2 DEF AfterMessage, State
  <2> QED
    BY <2>1, <2>2, <2>3
<1>4. Active' = Active /\ Open' = Open /\ Waiting' = Waiting
  BY <1>2, <1>3 DEF Active, Open, Waiting
<1>5. n_events' = Cardinality(Pending') /\ n_events' \in 0..(MAX_CLIENTS + 1)
  BY <1>2, ScanAdvances, SizeAssumption DEF IInv, TypeOK, Scanning
<1>6. i + 1 \in 1..(MAX_CLIENTS + 1)
  BY <1>2, ScanningEntry
<1>7. TypeOK'
  BY <1>1, <1>2, <1>3, <1>5, <1>6 DEF IInv, TypeOK
<1>8. DescriptorsOwned'
  <2>1. Active \subseteq Slot
    BY DEF Active
  <2> QED
    BY <1>2, <1>3, <1>4, <2>1 DEF IInv, DescriptorsOwned
<1>9. BacklogDistinct'
  BY <1>2, <1>4 DEF IInv, BacklogDistinct
<1>10. ASSUME NEW k \in (i + 1)..polled
       PROVE  /\ fds[k].fd \in ClientFd
              /\ \E t \in Slot : client_states'[t].fd = fds[k].fd
              /\ fds[k].revents => Readable(fds[k].fd)'
  <2>1. /\ k \in i..polled /\ fds[k].fd \in ClientFd /\ fds[k].fd # LISTEN_FD
        /\ peer[fds[k].fd] \in Conn /\ peer[fds[k].fd] # c
    BY <1>1, <1>2, OthersPending
  <2>2. /\ \E t \in Slot : client_states[t].fd = fds[k].fd
        /\ fds[k].revents => Readable(fds[k].fd)
    BY <1>2, <2>1 DEF IInv, RoundAccounted, Scanning
  <2>3. Readable(fds[k].fd) => Readable(fds[k].fd)'
    BY <1>1, <1>2, <2>1 DEF Readable, IInv, TypeOK
  <2> QED
    BY <1>3, <2>1, <2>2, <2>3
<1>11. RoundAccounted'
  BY <1>2, <1>5, <1>10 DEF IInv, RoundAccounted, Scanning
<1> QED
  BY <1>7, <1>8, <1>9, <1>11 DEF IInv

\* Closing frees the one slot and the one descriptor of the connection.
LEMMA ScanCloseStep ==
  ASSUME IInv, ScanClose
  PROVE  IInv'
<1> DEFINE fd == fds[i].fd
<1>1. PICK s \in Slot, c \in Conn :
        /\ FirstWithFd(s, fd)
        /\ c = peer[fd]
        /\ c \in hup
        /\ client_states' = [client_states EXCEPT
                               ![s] = [fd |-> -1, state |-> "DISCONNECTED"]]
        /\ hup' = hup \ {c}
  BY CloseOfEntry
<1>2. /\ Scanning /\ fds[i].revents
      /\ peer' = [peer EXCEPT ![fd] = None]
      /\ nfds' = nfds - 1
      /\ n_events' = n_events - 1 /\ i' = i + 1
      /\ UNCHANGED <<pc, polled, fds, backlog, unread>>
  BY DEF ScanClose
<1>3. fd \in ClientFd /\ i + 1 \in 1..(MAX_CLIENTS + 1)
  BY <1>2, ScanningEntry
<1> HIDE DEF fd
<1>4. /\ client_states[s].fd = fd /\ s \in Active
      /\ \A t \in Slot : client_states[t].fd = fd => t = s
  BY <1>1, <1>3 DEF FirstWithFd, Active, IInv, DescriptorsOwned, ClientFd
<1>5. /\ client_states' \in [Slot -> [fd : ClientFd \cup {-1}, state : State]]
      /\ client_states'[s].fd = -1
      /\ \A t \in Slot : t # s => client_states'[t] = client_states[t]
  BY <1>1 DEF IInv, TypeOK, State
<1>6. /\ Open' = Open \ {c}
      /\ peer' \in [ClientFd -> Conn \cup {None}]
      /\ \A g \in ClientFd : g # fd => peer'[g] = peer[g] /\ peer[g] # c
      /\ peer'[fd] = None
  BY <1>1, <1>2, <1>3, CloseOne
<1>7. Active' = Active \ {s}
  BY <1>4, <1>5 DEF Active
<1>8. nfds' = Cardinality(Active') + 1 /\ nfds' \in 1..(MAX_CLIENTS + 1)
  <2>1. Cardinality(Active') = Cardinality(Active) - 1
    BY <1>4, <1>7, ActiveCounted, FS_RemoveElement
  <2>2. Cardinality(Active') \in Nat
    BY <1>7, ActiveCounted, FS_RemoveElement, FS_CardinalityType
  <2> QED
    BY <1>2, <2>1, <2>2, ActiveCounted, SizeAssumption DEF IInv, DescriptorsOwned
<1>9. n_events' = Cardinality(Pending') /\ n_events' \in 0..(MAX_CLIENTS + 1)
  BY <1>2, ScanAdvances, SizeAssumption DEF IInv, TypeOK, Scanning
<1>10. TypeOK'
  BY <1>1, <1>2, <1>3, <1>5, <1>6, <1>8, <1>9 DEF IInv, TypeOK
<1>11. DescriptorsOwned'
  <2>1. ASSUME NEW g \in ClientFd
        PROVE  peer'[g] # None <=> \E t \in Slot : client_states'[t].fd = g
    <3>1. g # -1
      BY DEF ClientFd
    <3>2. CASE g = fd
      BY <1>4, <1>5, <1>6, <3>1, <3>2
    <3>3. CASE g # fd
      <4>1. peer[g] # None <=> \E t \in Slot : client_states[t].fd = g
        BY DEF IInv, DescriptorsOwned
      <4>2. \A t \in Slot : client_states'[t].fd = g <=> client_states[t].fd = g
        BY <1>4, <1>5, <3>1, <3>3
      <4> QED
        BY <1>6, <3>3, <4>1, <4>2
    <3> QED
      BY <3>2, <3>3
  <2>2. \A t, u \in Active' : client_states'[t].fd = client_states'[u].fd => t = u
    BY <1>5, <1>7 DEF IInv, DescriptorsOwned, Active
  <2>3. \A g, h \in ClientFd : peer'[g] = peer'[h] /\ g # h => peer'[g] = None
    BY <1>6 DEF IInv, DescriptorsOwned
  <2> QED
    BY <1>8, <2>1, <2>2, <2>3 DEF DescriptorsOwned
<1>12. BacklogDistinct'
  BY <1>2, <1>6 DEF IInv, BacklogDistinct, Waiting
<1>13. ASSUME NEW k \in (i + 1)..polled
       PROVE  /\ fds[k].fd \in ClientFd
              /\ \E t \in Slot : client_states'[t].fd = fds[k].fd
              /\ fds[k].revents => Readable(fds[k].fd)'
  <2>1. /\ k \in i..polled /\ fds[k].fd \in ClientFd /\ fds[k].fd # LISTEN_FD
        /\ fds[k].fd # fd
        /\ peer[fds[k].fd] \in Conn /\ peer[fds[k].fd] # c
    BY <1>1, <1>2, OthersPending DEF fd
  <2>2. /\ \E t \in Slot : client_states[t].fd = fds[k].fd
        /\ fds[k].revents => Readable(fds[k].fd)
    BY <1>2, <2>1 DEF IInv, RoundAccounted, Scanning
  <2>3. Readable(fds[k].fd) => Readable(fds[k].fd)'
    BY <1>1, <1>2, <1>6, <2>1 DEF Readable, IInv, TypeOK
  <2> QED
    BY <1>4, <1>5, <2>1, <2>2, <2>3
<1>14. RoundAccounted'
  BY <1>2, <1>9, <1>13 DEF IInv, RoundAccounted, Scanning
<1> QED
  BY <1>10, <1>11, <1>12, <1>14 DEF IInv

LEMMA StutterStep ==
  ASSUME IInv, UNCHANGED vars
  PROVE  IInv'
<1>1. /\ UNCHANGED <<pc, n_events, i, polled, client_states, fds, nfds,
                     backlog, peer, unread, hup>>
      /\ Active' = Active /\ Open' = Open /\ Waiting' = Waiting /\ Pending' = Pending
  BY DEF vars, loopVars, tableVars, kernelVars, Active, Open, Waiting, Pending
<1>2. \A fd : Readable(fd) => Readable(fd)'
  BY <1>1 DEF Readable
<1> QED
  BY <1>1, <1>2 DEF IInv, TypeOK, DescriptorsOwned, BacklogDistinct, RoundAccounted

-----------------------------------------------------------------------------
(* The theorems.                                                           *)

\* IInv holds throughout, for any number of peers, slots and queued connections.
THEOREM Inductive == Spec => []IInv
<1>1. Init => IInv
  BY InitIInv
<1>2. IInv /\ [Next]_vars => IInv'
  <2> SUFFICES ASSUME IInv, [Next]_vars
               PROVE  IInv'
    OBVIOUS
  <2>1. ASSUME NEW c \in Conn, Connect(c) \/ Send(c) \/ Hangup(c)
        PROVE  IInv'
    BY <2>1, PeerStep
  <2>2. CASE Poll
    BY <2>2, PollStep
  <2>3. CASE AcceptSlot
    BY <2>3, AcceptSlotStep
  <2>4. CASE AcceptFull \/ AcceptFails
    BY <2>4, RefuseStep
  <2>5. CASE ScanEnd \/ ScanSkip
    BY <2>5, ScanIdleStep
  <2>6. CASE ScanData
    BY <2>6, ScanDataStep
  <2>7. CASE ScanClose
    BY <2>7, ScanCloseStep
  <2>8. CASE UNCHANGED vars
    BY <2>8, StutterStep
  <2> QED
    BY <2>1, <2>2, <2>3, <2>4, <2>5, <2>6, <2>7, <2>8 DEF Next, Server
<1> QED
  BY <1>1, <1>2, PTL DEF Spec

\* Every variable keeps its type; in particular the scan index, the number of
\* entries and the number of events stay within the table.
THEOREM TypeCorrect == Spec => []TypeOK
<1>1. IInv => TypeOK
  BY DEF IInv
<1> QED
  BY <1>1, Inductive, PTL

\* The table and the kernel agree on the open descriptors between any two calls.
THEOREM DescriptorsAlwaysOwned == Spec => []DescriptorsOwned
<1>1. IInv => DescriptorsOwned
  BY DEF IInv
<1> QED
  BY <1>1, Inductive, PTL

\* The scan looks only at entries poll filled in, reads only descriptors a slot
\* holds and only when the read will not block.
THEOREM ScanAlwaysSound == Spec => []ScanIsSound
<1>1. IInv => ScanIsSound
  <2> SUFFICES ASSUME IInv, Scanning
               PROVE  /\ i <= polled
                      /\ fds[i].revents =>
                           /\ Readable(fds[i].fd)
                           /\ \E s \in Slot : client_states[s].fd = fds[i].fd
    BY DEF ScanIsSound
  <2> QED
    BY ScanningEntry, PendingCounted
<1> QED
  BY <1>1, Inductive, PTL

-----------------------------------------------------------------------------
(* The loop implements Multiplexer.                                        *)

\* Each slot in use stands for one open connection, so the table is full exactly
\* when the multiplexer has admitted all it may.
LEMMA OpenCounted ==
  ASSUME IInv
  PROVE  Cardinality(Open) = Cardinality(Active)
<1> DEFINE f == [s \in Active |-> peer[client_states[s].fd]]
<1>1. \A s \in Active : s \in Slot /\ client_states[s].fd \in ClientFd
  BY DEF IInv, TypeOK, Active
<1>2. f \in [Active -> Open]
  <2>1. \A s \in Active : peer[client_states[s].fd] # None
    BY <1>1 DEF IInv, DescriptorsOwned
  <2> QED
    BY <1>1, <2>1 DEF Open
<1>3. \A s, t \in Active : f[s] = f[t] => s = t
  <2>1. ASSUME NEW s \in Active, NEW t \in Active, f[s] = f[t]
        PROVE  s = t
    <3>1. f[s] # None
      BY <1>2 DEF Open
    <3>2. client_states[s].fd = client_states[t].fd
      BY <1>1, <2>1, <3>1 DEF IInv, DescriptorsOwned
    <3> QED
      BY <3>2 DEF IInv, DescriptorsOwned
  <2> QED
    BY <2>1
<1>4. \A c \in Open : \E s \in Active : f[s] = c
  <2>1. ASSUME NEW c \in Open
        PROVE  \E s \in Active : f[s] = c
    <3>1. PICK fd \in ClientFd : peer[fd] = c /\ peer[fd] # None
      BY <2>1 DEF Open
    <3>2. PICK s \in Slot : client_states[s].fd = fd
      BY <3>1 DEF IInv, DescriptorsOwned
    <3>3. s \in Active
      BY <3>2 DEF Active, ClientFd
    <3> QED
      BY <3>1, <3>2, <3>3
  <2> QED
    BY <2>1
<1>5. f \in Bijection(Active, Open)
  BY <1>2, <1>3, <1>4 DEF Bijection, Injection, Surjection, IsInjective
<1> QED
  BY <1>5, ActiveCounted, FS_Bijection DEF ExistsBijection

LEMMA SameCardinality == \A S : Mux!Cardinality(S) = Cardinality(S)
BY Zenon DEF Mux!Cardinality, Cardinality

LEMMA PeersImplement ==
  ASSUME IInv, NEW c \in Conn, Connect(c) \/ Send(c) \/ Hangup(c)
  PROVE  Mux!Next
<1>1. Open' = Open
  BY DEF Connect, Send, Hangup, Open
<1>2. CASE Connect(c)
  <2>1. Waiting' = Waiting \cup {c}
    <3>1. backlog \in Seq(Conn) /\ backlog' = Append(backlog, c)
      BY <1>2 DEF Connect, IInv, TypeOK
    <3>2. {backlog'[k] : k \in DOMAIN backlog'}
            = {backlog[k] : k \in DOMAIN backlog} \cup {c}
      BY <3>1, QueueAppend
    <3> QED
      BY <3>2 DEF Waiting
  <2>2. Mux!Connect(c)
    BY <1>1, <1>2, <2>1 DEF Connect, Mux!Connect
  <2> QED
    BY <2>2 DEF Mux!Next
<1>3. CASE Send(c)
  <2>1. Waiting' = Waiting
    BY <1>3 DEF Send, Waiting
  <2>2. Mux!Send(c)
    BY <1>1, <1>3, <2>1 DEF Send, Mux!Send
  <2> QED
    BY <2>2 DEF Mux!Next
<1>4. CASE Hangup(c)
  <2>1. Mux!Hangup(c)
    <3>1. Waiting' = Waiting
      BY <1>4 DEF Hangup, Waiting
    <3>2. /\ c \in (Waiting \cup Open) \ hup
          /\ hup' = hup \cup {c}
      BY <1>4 DEF Hangup
    <3>3. \E left \in {0, unread[c]} : unread' = [unread EXCEPT ![c] = left]
      BY <1>4 DEF Hangup
    <3> QED
      BY <1>1, <3>1, <3>2, <3>3 DEF Mux!Hangup
  <2> QED
    BY <2>1 DEF Mux!Next
<1> QED
  BY <1>2, <1>3, <1>4

LEMMA AcceptImplements ==
  ASSUME IInv, AcceptSlot \/ AcceptFull
  PROVE  Mux!Next
<1> DEFINE c == Head(backlog)
<1>1. pc = "accept" /\ backlog' = Tail(backlog)
  BY DEF AcceptSlot, AcceptFull
<1>2. /\ c \in Waiting /\ c \in Conn /\ c \notin Open
      /\ Waiting' = Waiting \ {c}
  BY <1>1, AcceptFacts
<1> HIDE DEF c
<1>3. CASE AcceptSlot
  <2>1. PICK s \in Slot, fd \in ClientFd :
          FirstFree(s) /\ LowestFd(fd) /\ peer' = [peer EXCEPT ![fd] = c]
    BY <1>3 DEF AcceptSlot, c
  <2>2. s \notin Active
    BY <2>1 DEF FirstFree, Active
  <2>3. Cardinality(Open) < MAX_CLIENTS
    BY <2>2, ActiveCounted, OpenCounted, SizeAssumption
  <2>4. Open' = Open \cup {c}
    BY <1>2, <2>1, OpenOne DEF LowestFd
  <2>5. Mux!Admit(c)
    BY <1>2, <1>3, <2>3, <2>4, SameCardinality DEF Mux!Admit, AcceptSlot
  <2> QED
    BY <1>2, <2>5 DEF Mux!Next
<1>4. CASE AcceptFull
  <2>1. Cardinality(Open) = MAX_CLIENTS
    BY <1>4, ActiveCounted, OpenCounted DEF AcceptFull
  <2>2. Open' = Open
    BY <1>4 DEF AcceptFull, Open
  <2>3. Mux!Refuse(c)
    BY <1>2, <1>4, <2>1, <2>2, SameCardinality DEF Mux!Refuse, AcceptFull, c
  <2> QED
    BY <1>2, <2>3 DEF Mux!Next
<1> QED
  BY <1>3, <1>4

LEMMA ScanImplements ==
  ASSUME IInv, ScanData \/ ScanClose
  PROVE  Mux!Next
<1>1. Scanning /\ backlog' = backlog
  BY DEF ScanData, ScanClose
<1>2. Waiting' = Waiting
  BY <1>1 DEF Waiting
<1>3. fds[i].fd \in ClientFd
  BY <1>1, ScanningEntry
<1>4. CASE ScanData
  <2>1. PICK c \in Conn, left \in 0..MAX_UNREAD :
          /\ c = peer[fds[i].fd]
          /\ left < unread[c]
          /\ unread' = [unread EXCEPT ![c] = left]
    BY <1>4, DataOfEntry
  <2>2. c \in Open /\ Open' = Open
    BY <1>3, <1>4, <2>1, ConnAssumption DEF Open, ScanData
  <2>3. unread \in [Conn -> 0..MAX_UNREAD] /\ unread[c] \in Nat /\ left \in Nat
    BY SizeAssumption DEF IInv, TypeOK
  <2>4. unread[c] - left \in 1..unread[c] /\ unread[c] - (unread[c] - left) = left
    BY <2>1, <2>3
  <2>5. \E n \in 1..unread[c] : unread' = [unread EXCEPT ![c] = @ - n]
    BY <2>1, <2>3, <2>4
  <2>6. Mux!Read(c)
    BY <1>2, <1>4, <2>2, <2>5 DEF Mux!Read, ScanData
  <2> QED
    BY <2>6 DEF Mux!Next
<1>5. CASE ScanClose
  <2>1. PICK c \in Conn :
          /\ c = peer[fds[i].fd]
          /\ c \in hup
          /\ unread[c] = 0
          /\ hup' = hup \ {c}
    BY <1>5, CloseOfEntry
  <2>2. peer' = [peer EXCEPT ![fds[i].fd] = None] /\ unread' = unread
    BY <1>5 DEF ScanClose
  <2>3. c \in Open /\ Open' = Open \ {c}
    BY <1>3, <2>1, <2>2, CloseOne, ConnAssumption DEF Open
  <2>4. Mux!Close(c)
    BY <1>2, <2>1, <2>2, <2>3 DEF Mux!Close
  <2> QED
    BY <2>4 DEF Mux!Next
<1> QED
  BY <1>4, <1>5

\* Every behaviour of the loop is one of a multiplexer: accepting admits or
\* refuses, a scanned entry is a read or a close, the rest are not visible.
THEOREM Refinement == Spec => ImplementsMultiplexer
<1>1. Init => Mux!Init
  <2> SUFFICES ASSUME Init PROVE Mux!Init
    OBVIOUS
  <2>1. backlog = <<>> /\ DOMAIN backlog = {} /\ \A fd \in ClientFd : peer[fd] = None
    BY DEF Init
  <2>2. Waiting = {} /\ Open = {}
    BY <2>1 DEF Waiting, Open
  <2> QED
    BY <2>2 DEF Init, Mux!Init
<1>2. IInv /\ [Next]_vars => [Mux!Next]_(Mux!vars)
  <2> SUFFICES ASSUME IInv, [Next]_vars
               PROVE  [Mux!Next]_(Mux!vars)
    OBVIOUS
  <2>1. ASSUME NEW c \in Conn, Connect(c) \/ Send(c) \/ Hangup(c)
        PROVE  Mux!Next
    BY <2>1, PeersImplement
  <2>2. CASE AcceptSlot \/ AcceptFull
    BY <2>2, AcceptImplements
  <2>3. CASE ScanData \/ ScanClose
    BY <2>3, ScanImplements
  <2>4. CASE Poll \/ AcceptFails \/ ScanEnd \/ ScanSkip \/ UNCHANGED vars
    <3>1. UNCHANGED kernelVars
      BY <2>4 DEF Poll, AcceptFails, ScanEnd, ScanSkip, vars
    <3> QED
      BY <3>1 DEF kernelVars, Mux!vars, Waiting, Open
  <2> QED
    BY <2>1, <2>2, <2>3, <2>4 DEF Next, Server
<1> QED
  BY <1>1, <1>2, Inductive, PTL DEF Spec, Mux!Spec, ImplementsMultiplexer
=============================================================================
