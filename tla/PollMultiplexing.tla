-------------------------- MODULE PollMultiplexing --------------------------
(***************************************************************************)
(* The server of 04_advanced_techniques/poll_multiplexing.c, from which    *)
(* the loop of the database server was made: the same rounds and the same  *)
(* slots (find_free_slot, find_slot_by_fd), so that its steps are those of *)
(* PollLoop, but no protocol.  What a client sends is read into the buffer *)
(* of its slot and printed from there.                                     *)
(*                                                                         *)
(* "HELLO" of PollLoop is STATE_CONNECTED here, and never left: the code   *)
(* does not call handle_client.  The descriptors are one lower, without a  *)
(* database file.                                                          *)
(***************************************************************************)
EXTENDS Integers, Sequences, FiniteSets

CONSTANTS Conn, None, MAX_CLIENTS, BACKLOG, MAX_UNREAD  \* see PollLoop

ASSUME ConnAssumption == None \notin Conn
ASSUME SizeAssumption ==
  /\ MAX_CLIENTS \in Nat \ {0}
  /\ BACKLOG \in Nat \ {0}
  /\ MAX_UNREAD \in Nat \ {0}

VARIABLES
  pc, client_states, fds, nfds, n_events, i, polled,
  backlog, peer, unread, hup,  \* see PollLoop
  buffer  \* whose bytes are in the 4096 of each slot

Loop == INSTANCE PollLoop

vars == <<Loop!vars, buffer>>

Init ==
  /\ Loop!Init
  /\ buffer = [s \in Loop!Slot |-> {}]

\* The slot that the scan reads from.
Reads(s) == Loop!FirstWithFd(s, fds[i].fd)

\* A read overwrites the beginning of the buffer.  What an earlier and longer
\* one left behind stays, and is printed as part of this one.
Receive ==
  /\ Loop!ScanData
  /\ UNCHANGED client_states
  /\ \E s \in Loop!Slot :
       /\ Reads(s)
       /\ \E tail \in {{}, buffer[s]} :
            buffer' = [buffer EXCEPT ![s] = tail \cup {peer[client_states[s].fd]}]

\* Slip: no memset.
ClearedNot(s) == buffer[s]

Cleared(s) == {}

Disconnect ==
  /\ Loop!ScanClose
  /\ \E s \in Loop!Slot :
       Reads(s) /\ buffer' = [buffer EXCEPT ![s] = Cleared(s)]

Server ==
  \/ Receive \/ Disconnect
  \/ /\ \/ Loop!Poll \/ Loop!AcceptSlot \/ Loop!AcceptFull \/ Loop!AcceptFails
        \/ Loop!ScanEnd \/ Loop!ScanSkip
     /\ UNCHANGED buffer

Peer(c) ==
  (Loop!Connect(c) \/ Loop!Send(c) \/ Loop!Hangup(c)) /\ UNCHANGED buffer

Next == Server \/ \E c \in Conn : Peer(c)

Spec == Init /\ [][Next]_vars

\* The calls are those of PollLoop, and return as there.
FairSpec == Spec /\ Loop!Fairness

-----------------------------------------------------------------------------
\* What is printed as received from a client (line 200) was sent by that client:
\* the buffer is printed up to its first zero, not up to the end of the read, and
\* slots are used again by other clients, yet it never holds bytes of another
\* connection, and none when the slot is free.
BufferIsOwn ==
  \A s \in Loop!Slot :
    buffer[s] \subseteq
      IF client_states[s].fd = -1 THEN {} ELSE {peer[client_states[s].fd]}

\* Every queued connection is admitted or refused, one with a full buffer is read,
\* and one whose peer hung up is closed (lines 104-203), also while the slots are
\* full and peers that connect and are refused, as often as they like, share
\* every round with the clients that are being served.
EveryPeerServed == Loop!EveryPeerServed

\* Inductive: it is what PollMultiplexingProofs proves.
IInv ==
  /\ Loop!IInv
  /\ buffer \in [Loop!Slot -> SUBSET Conn]
  /\ BufferIsOwn
=============================================================================
