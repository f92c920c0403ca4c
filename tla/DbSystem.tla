------------------------------ MODULE DbSystem ------------------------------
(***************************************************************************)
(* The server and its clients together: src/client/main.c on one side,     *)
(* handle_client_fsm (server_poll.c) with the employee store on the other, *)
(* and the connections between them.                                       *)
(*                                                                         *)
(* One action is one system call and the local code up to the next one.    *)
(* The poll loop is here what PollLoop is shown to implement: some ready   *)
(* connection is accepted, refused, read or closed.  A stream is cut into  *)
(* units: an add request (1032 bytes) and a record of a list (516) are two *)
(* each, and a read may find one of them; the other messages, of at most   *)
(* 10 bytes and alone in their stream, are one and arrive whole.           *)
(***************************************************************************)
EXTENDS Integers, Sequences, FiniteSets

CONSTANTS
  Client,       \* runs of the client; each names its own employee to add
  Old,          \* those built with another PROTO_VERSION
  Cut,          \* the employee that the beginning of a request names
  None,         \* no client, no employee
  Malformed,    \* an argument of -a that add_employee refuses
  Garbage, Absent, Torn,  \* see EmployeeStore
  COUNT_MOD,    \* header->count is an unsigned short: 65536
  MAX_CLIENTS,  \* connections served at a time (256 in the source)
  WINDOW,       \* bound: units a connection holds towards the client
  MAY           \* what may happen: a subset of {"split", "kill", "crash"}

ASSUME NameAssumption ==
  /\ Old \subseteq Client
  /\ {Cut, None, Malformed, Garbage} \cap Client = {}
  /\ Cut \notin {None, Malformed, Garbage} /\ None \notin {Malformed, Garbage}
ASSUME SystemAssumption ==
  /\ MAX_CLIENTS \in Nat \ {0}
  /\ WINDOW \in Nat \ {0, 1}
  /\ MAY \subseteq {"split", "kill", "crash"}

VARIABLES
  phase, header, employees, file, pos, next,  \* the store: see EmployeeStore
  serving,   \* whose message the server handles, or None
  answer,    \* what it is about to write
  listed,    \* records of a list written so far
  session,   \* the protocol state of each accepted connection
  link,      \* each connection: see Link
  toServer,  \* units sent and not read by the server
  toClient,  \* units sent and not read by the client
  client,    \* each client's program: see ClientState
  sigpipe    \* history: whose connection the server died of, or None

store == <<phase, header, employees, file, pos, next>>
server == <<serving, answer, listed>>
net == <<link, toServer, toClient>>
vars == <<store, server, session, net, client, sigpipe>>

Store == INSTANCE EmployeeStore WITH Employee <- Client \cup {Cut}, FAULTS <- {}

\* What the store assumes, for the employees of clients.
ASSUME StoreAssumption ==
  /\ Absent # Torn
  /\ COUNT_MOD \in Nat \ {0, 1}
  /\ \A none \in {Absent, Torn} :
       /\ none \notin Seq(Store!HeaderUnit \cup Store!HalfUnit)
       /\ none \notin Seq(Client \cup {Cut, Garbage})

-----------------------------------------------------------------------------
Answer == {"none", "hello", "hello error", "list", "records"}
Session == {"none", "HELLO", "MSG"}

\* "queued": in the listen queue; "shut": the server closed it, or died.
Link == {"off", "queued", "open", "shut"}

Served == {c \in Client : link[c] = "open"}

\* Slip: there is always room.
FullNever == FALSE

Full == Cardinality(Served) = MAX_CLIENTS

\* Where a client is: the call of main.c it makes next.
At == {"connect", "send hello", "read hello", "send add", "read add",
       "send list", "read list", "read record", "close", "done"}

Gone(c) == client[c].at = "done"

\* How much the server finds in one read.
Chunk(c) ==
  IF client[c].pieces THEN 1..Len(toServer[c]) ELSE {Len(toServer[c])} \ {0}

Unit(type) == [type |-> type, n |-> 0, who |-> None]
ListHeader(count) == [type |-> "list resp", n |-> count, who |-> None]
EmptyBuffer == [h \in 1..2 |-> Unit("none")]
Record(who) == [h \in 1..2 |-> [type |-> "record", n |-> h, who |-> who]]

-----------------------------------------------------------------------------
Init ==
  /\ Store!Init
  /\ serving = None
  /\ answer = "none"
  /\ listed = 0
  /\ session = [c \in Client |-> "none"]
  /\ link = [c \in Client |-> "off"]
  /\ toServer = [c \in Client |-> <<>>]
  /\ toClient = [c \in Client |-> <<>>]
  /\ client = [c \in Client |->
                 [at |-> "connect", add |-> None, list |-> FALSE,
                  pieces |-> FALSE, left |-> 0, buf |-> EmptyBuffer, order |-> "host",
                  printed |-> <<>>, said |-> {}]]
  /\ sigpipe = None

-----------------------------------------------------------------------------
(* The server between messages: connections come and go.                   *)

Free == phase = "idle" /\ serving = None

StartServer ==
  /\ Store!StartNew \/ Store!StartOpen
  /\ UNCHANGED <<server, session, net, client, sigpipe>>

Accept(c) ==
  /\ Free
  /\ link[c] = "queued"
  /\ ~ Full
  /\ link' = [link EXCEPT ![c] = "open"]
  /\ session' = [session EXCEPT ![c] = "HELLO"]
  /\ UNCHANGED <<store, server, toServer, toClient, client, sigpipe>>

Refuse(c) ==
  /\ Free
  /\ link[c] = "queued"
  /\ Full
  /\ link' = [link EXCEPT ![c] = "shut"]
  /\ toServer' = [toServer EXCEPT ![c] = <<>>]
  /\ UNCHANGED <<store, server, session, toClient, client, sigpipe>>

Close(c) ==
  /\ Free
  /\ link[c] = "open"
  /\ Gone(c) /\ toServer[c] = <<>>
  /\ link' = [link EXCEPT ![c] = "off"]
  /\ session' = [session EXCEPT ![c] = "none"]
  /\ UNCHANGED <<store, server, toServer, toClient, client, sigpipe>>

-----------------------------------------------------------------------------
(* handle_client_fsm: whatever a read returns is taken for one message,    *)
(* and its first bytes decide which.                                       *)

\* The server reads n units of c, the first of which is of one of these types.
Received(c, state, types, n) ==
  /\ Free
  /\ link[c] = "open"
  /\ session[c] = state
  /\ n \in Chunk(c)
  /\ toServer[c][1] \in types
  /\ toServer' = [toServer EXCEPT ![c] = SubSeq(@, n + 1, Len(@))]

\* The handler goes on to the write that answers c.
Answers(c, what) ==
  /\ serving' = c
  /\ answer' = what
  /\ UNCHANGED <<store, listed, session, link, toClient, client, sigpipe>>

\* Slip: the version is not looked at.
SameVersionAny(c) == TRUE

SameVersion(c) == c \notin Old

ReadHello(c) ==
  /\ SameVersion(c)
  /\ \E n \in Chunk(c) : Received(c, "HELLO", {"hello"}, n)
  /\ Answers(c, "hello")

\* "Protocol mismatch..."; a client sends nothing else before it was answered.
ReadHelloWrong(c) ==
  /\ ~ SameVersion(c)
  /\ \E n \in Chunk(c) : Received(c, "HELLO", {"hello"}, n)
  /\ Answers(c, "hello error")

\* Whom n units of an add request name.  The beginning alone may name somebody
\* else, when it ends within the text, or the same one, when it ends within the
\* zeros after it.
Named(c, n) ==
  (IF n = 1 THEN {client[c].add, Cut} ELSE {client[c].add}) \ {Malformed}

\* Slip: the rest of a request is taken with the header left in the buffer.
AddTypesAndRest == {"add", "rest"}

AddTypes == {"add"}

ReadAdd(c) ==
  /\ client[c].add # Malformed
  /\ \E n \in Chunk(c) :
       /\ Received(c, "MSG", AddTypes, n)
       /\ \E e \in Named(c, n) : Store!AddEmployee(e)
  /\ serving' = c
  /\ UNCHANGED <<answer, listed, session, link, toClient, client, sigpipe>>

\* Refused: as given, or because the part that was read lacks a field.
ReadAddRejected(c) ==
  /\ \E n \in Chunk(c) :
       /\ Received(c, "MSG", AddTypes, n)
       /\ n = 1 \/ client[c].add = Malformed
  /\ Store!AddRejected
  /\ serving' = c
  /\ UNCHANGED <<answer, listed, session, link, toClient, client, sigpipe>>

ReadList(c) ==
  /\ \E n \in Chunk(c) : Received(c, "MSG", {"list"}, n)
  /\ Answers(c, "list")

\* In STATE_MSG there is no answer to anything else: the rest of an add request
\* that was read in two pieces, with whatever was read behind it.
ReadOther(c) ==
  /\ \E n \in Chunk(c) : Received(c, "MSG", {"rest"}, n)
  /\ UNCHANGED <<store, server, session, link, toClient, client, sigpipe>>

-----------------------------------------------------------------------------
(* The writes to the client.  They block while the connection is full;     *)
(* once the client is gone they are lost, or kill the server by SIGPIPE,   *)
(* depending on whether the client's end has said so yet.                  *)

Write(c, units) ==
  IF Gone(c)
  THEN UNCHANGED toClient
  ELSE /\ Len(toClient[c]) + Len(units) <= WINDOW
       /\ toClient' = [toClient EXCEPT ![c] = @ \o units]

Writing ==
  serving # None /\ (answer # "none" \/ phase \in {"reply", "reply error"})

ReplyHello ==
  /\ answer = "hello"
  /\ Write(serving, <<Unit("hello resp")>>)
  /\ session' = [session EXCEPT ![serving] = "MSG"]
  /\ serving' = None
  /\ answer' = "none"
  /\ UNCHANGED <<store, listed, link, toServer, client, sigpipe>>

ReplyHelloError ==
  /\ answer = "hello error"
  /\ Write(serving, <<Unit("error")>>)
  /\ serving' = None
  /\ answer' = "none"
  /\ UNCHANGED <<store, listed, session, link, toServer, client, sigpipe>>

ReplyAdd ==
  /\ Store!ReplyAdd
  /\ Write(serving, <<Unit("add resp")>>)
  /\ UNCHANGED <<server, session, link, toServer, client, sigpipe>>

ReplyAddError ==
  /\ Store!ReplyError
  /\ Write(serving, <<Unit("error")>>)
  /\ serving' = None
  /\ UNCHANGED <<answer, listed, session, link, toServer, client, sigpipe>>

ReplyListHeader ==
  /\ answer = "list"
  /\ Write(serving, <<ListHeader(header.count)>>)
  /\ listed' = 0
  /\ answer' = "records"
  /\ UNCHANGED <<store, serving, session, link, toServer, client, sigpipe>>

\* Slip: the newest first.
NextListedNewest == header.count - listed

NextListed == listed + 1

ReplyRecord ==
  /\ answer = "records"
  /\ listed < header.count
  /\ Write(serving, Record(employees[NextListed].who))
  /\ listed' = listed + 1
  /\ UNCHANGED <<store, serving, answer, session, link, toServer, client, sigpipe>>

ReplyListEnd ==
  /\ answer = "records"
  /\ listed = header.count
  /\ serving' = None
  /\ answer' = "none"
  /\ UNCHANGED <<store, listed, session, net, client, sigpipe>>

\* output_file, after an add was answered.
Save ==
  /\ Store!OutputHeader \/ Store!OutputRecord
  /\ UNCHANGED <<server, session, net, client, sigpipe>>

SaveEnd ==
  /\ Store!OutputEnd
  /\ serving' = None
  /\ UNCHANGED <<answer, listed, session, net, client, sigpipe>>

-----------------------------------------------------------------------------
(* The server dies: every connection is gone, and what it had sent arrives *)
(* or not.                                                                 *)

Dies ==
  /\ Store!Crash
  /\ serving' = None
  /\ answer' = "none"
  /\ listed' = 0
  /\ session' = [c \in Client |-> "none"]
  /\ link' = [c \in Client |-> IF link[c] = "off" THEN "off" ELSE "shut"]
  /\ toServer' = [c \in Client |-> <<>>]
  /\ \E lost \in SUBSET {c \in Client : toClient[c] # <<>>} :
       toClient' = [c \in Client |-> IF c \in lost THEN <<>> ELSE toClient[c]]
  /\ UNCHANGED client

Crash ==
  /\ "crash" \in MAY
  /\ Dies
  /\ UNCHANGED sigpipe

Sigpipe ==
  /\ Writing /\ Gone(serving)
  /\ ~ (answer = "records" /\ listed = header.count)
  /\ Dies
  /\ sigpipe' = serving

-----------------------------------------------------------------------------
(* The client: main, send_hello, send_employee and list_employees.         *)

Goes(c, to) == client' = [client EXCEPT ![c].at = to]

GoesSaying(c, to, word) ==
  client' = [client EXCEPT ![c].at = to, ![c].said = @ \cup word]

\* The client ends: what it had not read is lost, and what it had sent may be,
\* if it leaves with something unread or is killed.
Leaves(c, word) ==
  /\ GoesSaying(c, "done", word)
  /\ toClient' = [toClient EXCEPT ![c] = <<>>]
  /\ \/ UNCHANGED toServer
     \/ /\ word # {} \/ toClient[c] # <<>>
        /\ toServer' = [toServer EXCEPT ![c] = <<>>]
  /\ UNCHANGED link

Connect(c) ==
  /\ client[c].at = "connect"
  /\ phase # "down"
  /\ link' = [link EXCEPT ![c] = "queued"]
  /\ \E add \in {c, Malformed, None}, list \in BOOLEAN, pieces \in BOOLEAN :
       /\ pieces => "split" \in MAY
       /\ client' = [client EXCEPT ![c].at = "send hello", ![c].add = add,
                                   ![c].list = list, ![c].pieces = pieces]
  /\ UNCHANGED <<store, server, session, toServer, toClient, sigpipe>>

ConnectFails(c) ==
  /\ client[c].at = "connect"
  /\ phase = "down"
  /\ Goes(c, "done")
  /\ UNCHANGED <<store, server, session, net, sigpipe>>

\* A write to a connection the server closed is lost, or the client dies of it.
Sends(c, units, to) ==
  \/ /\ link[c] \in {"queued", "open"}
     /\ toServer' = [toServer EXCEPT ![c] = @ \o units]
     /\ Goes(c, to)
     /\ UNCHANGED <<link, toClient>>
  \/ /\ link[c] = "shut"
     /\ Goes(c, to)
     /\ UNCHANGED net
  \/ /\ link[c] = "shut"
     /\ Leaves(c, {"killed"})

SendHello(c) ==
  /\ client[c].at = "send hello"
  /\ Sends(c, <<"hello">>, "read hello")
  /\ UNCHANGED <<store, server, session, sigpipe>>

SendAdd(c) ==
  /\ client[c].at = "send add"
  /\ Sends(c, <<"add", "rest">>, "read add")
  /\ UNCHANGED <<store, server, session, sigpipe>>

SendList(c) ==
  /\ client[c].at = "send list"
  /\ Sends(c, <<"list">>, "read list")
  /\ UNCHANGED <<store, server, session, sigpipe>>

AfterAdd(c) == IF client[c].list THEN "send list" ELSE "close"
AfterHello(c) == IF client[c].add # None THEN "send add" ELSE AfterAdd(c)

\* The one unit that a reply is.
Reply(c, type) ==
  /\ toClient[c] # <<>>
  /\ Head(toClient[c]).type = type
  /\ toClient' = [toClient EXCEPT ![c] = Tail(@)]

\* The connection is closed and all of it read: read returns 0 or -1, which
\* nobody looks at, and the buffer still holds the request.
NoReply(c) ==
  /\ link[c] = "shut"
  /\ toClient[c] = <<>>
  /\ UNCHANGED toClient

\* Slip: the client waits for another answer.
AfterErrorWaits == "read hello"

AfterError == "close"

ReadHelloReply(c) ==
  /\ client[c].at = "read hello"
  /\ \/ Reply(c, "hello resp") /\ Goes(c, AfterHello(c))
     \/ Reply(c, "error") /\ Goes(c, AfterError)
     \/ NoReply(c) /\ GoesSaying(c, AfterHello(c), {"unanswered"})
  /\ UNCHANGED <<store, server, session, link, toServer, sigpipe>>

\* Slip: any answer is good news.
ReportAdded(type) == "added"

Report(type) == IF type = "error" THEN "refused" ELSE "added"

\* Without an answer the buffer's type is MSG_EMPLOYEE_ADD_REQ: no MSG_ERROR.
ReadAddReply(c) ==
  /\ client[c].at = "read add"
  /\ \/ \E type \in {"add resp", "error"} :
          Reply(c, type) /\ GoesSaying(c, AfterAdd(c), {Report(type)})
     \/ NoReply(c) /\ GoesSaying(c, AfterAdd(c), {"added", "unanswered"})
  /\ UNCHANGED <<store, server, session, link, toServer, sigpipe>>

\* Slip: one record fewer is read.
AnnouncedLess(c) == Head(toClient[c]).n - 1

Announced(c) == Head(toClient[c]).n

ReadListReply(c) ==
  /\ client[c].at = "read list"
  /\ \/ /\ Reply(c, "list resp")
        /\ client' = [client EXCEPT ![c].at = "read record",
                                    ![c].left = Announced(c)]
     \/ NoReply(c) /\ GoesSaying(c, "close", {"unanswered"})
  /\ UNCHANGED <<store, server, session, link, toServer, sigpipe>>

\* The name a buffer prints as, when its halves belong together.
Printed(buf, order) ==
  IF buf[1].n = 1 /\ buf[2].n = 2 /\ buf[1].who = buf[2].who /\ order = "host"
  THEN buf[1].who ELSE Garbage

\* A read of up to 516 bytes, into the buffer of the record before, whose hours
\* were swapped to host order in place.
ReadRecord(c) ==
  /\ client[c].at = "read record"
  /\ client[c].left > 0
  /\ \E n \in 0..2 :
       LET units == SubSeq(toClient[c], 1, n)
           buf == [h \in 1..2 |-> IF h <= n THEN units[h] ELSE client[c].buf[h]]
           order == IF n = 2 THEN "host" ELSE Store!Swapped(client[c].order)
       IN  /\ \/ n = 0 /\ NoReply(c)
              \/ /\ n > 0 /\ n <= Len(toClient[c])
                 /\ n = 2 \/ client[c].pieces
                 /\ toClient' = [toClient EXCEPT ![c] = SubSeq(@, n + 1, Len(@))]
           /\ client' = [client EXCEPT
                ![c].left = @ - 1, ![c].buf = buf, ![c].order = order,
                ![c].printed = Append(@, Printed(buf, order)),
                ![c].said = @ \cup (IF n = 0 THEN {"unanswered"}
                                     ELSE IF n = 1 THEN {"short"} ELSE {})]
  /\ UNCHANGED <<store, server, session, link, toServer, sigpipe>>

ReadRecordsEnd(c) ==
  /\ client[c].at = "read record"
  /\ client[c].left = 0
  /\ client' = [client EXCEPT ![c].at = "close", ![c].buf = EmptyBuffer,
                              ![c].order = "host"]
  /\ UNCHANGED <<store, server, session, net, sigpipe>>

Ends(c) ==
  /\ client[c].at = "close"
  /\ Leaves(c, {})
  /\ UNCHANGED <<store, server, session, sigpipe>>

Kill(c) ==
  /\ "kill" \in MAY
  /\ client[c].at \notin {"connect", "done"}
  /\ Leaves(c, {"killed"})
  /\ UNCHANGED <<store, server, session, sigpipe>>

-----------------------------------------------------------------------------
ServerStep ==
  \/ \E c \in Client :
       \/ Accept(c) \/ Refuse(c) \/ Close(c)
       \/ ReadHello(c) \/ ReadHelloWrong(c)
       \/ ReadAdd(c) \/ ReadAddRejected(c) \/ ReadList(c) \/ ReadOther(c)
  \/ ReplyHello \/ ReplyHelloError \/ ReplyAdd \/ ReplyAddError
  \/ ReplyListHeader \/ ReplyRecord \/ ReplyListEnd
  \/ Save \/ SaveEnd

ClientStep(c) ==
  \/ Connect(c) \/ ConnectFails(c)
  \/ SendHello(c) \/ ReadHelloReply(c)
  \/ SendAdd(c) \/ ReadAddReply(c)
  \/ SendList(c) \/ ReadListReply(c) \/ ReadRecord(c) \/ ReadRecordsEnd(c)
  \/ Ends(c)

Next ==
  \/ StartServer \/ ServerStep \/ Crash \/ Sigpipe
  \/ \E c \in Client : ClientStep(c) \/ Kill(c)

Spec == Init /\ [][Next]_vars

(* The server and each client that runs are scheduled.  Nobody has to      *)
(* start a server or a client, and which ready connection the server turns *)
(* to is open.                                                             *)
Fairness ==
  /\ WF_vars(ServerStep)
  /\ \A c \in Client : WF_vars(client[c].at # "connect" /\ ClientStep(c))

FairSpec == Spec /\ Fairness

-----------------------------------------------------------------------------
Table == Store!Table

InTable(e) == \E k \in DOMAIN Table : Table[k] = e

Name == Client \cup {Cut, Garbage}
RecordUnit == [type : {"record"}, n : 1..2, who : Name]
MessageUnit ==
  [type : {"none", "hello resp", "error", "add resp", "list resp"}, n : 0..(COUNT_MOD - 1),
   who : {None}]

ClientState ==
  [at : At, add : Client \cup {Malformed, None}, list : BOOLEAN, pieces : BOOLEAN,
   left : 0..(COUNT_MOD - 1), buf : [1..2 -> RecordUnit \cup {Unit("none")}],
   order : Store!Order, printed : Seq(Name),
   said : SUBSET {"added", "refused", "unanswered", "short", "killed"}]

TypeOK ==
  /\ Store!TypeOK
  /\ serving \in Client \cup {None}
  /\ answer \in Answer
  /\ listed \in 0..(COUNT_MOD - 1)
  /\ session \in [Client -> Session]
  /\ link \in [Client -> Link] /\ IsFiniteSet(Served) /\ Cardinality(Served) <= MAX_CLIENTS
  /\ toServer \in [Client -> Seq({"hello", "add", "rest", "list"})]
  /\ toClient \in [Client -> Seq(RecordUnit \cup MessageUnit)]
  /\ \A c \in Client : Len(toClient[c]) <= WINDOW
  /\ client \in [Client -> ClientState]
  /\ \A c \in Client : client[c].add \in {c, Malformed, None}
  /\ sigpipe \in Client \cup {None}

\* What the client reports of its add (client/main.c:67-72), when it was told
\* at all, is what the server did: an employee reported added is in the table,
\* under its name or a cut one, as long as the connection lasts, and one
\* reported as improper is not.  Between the two lie a request that may be read
\* in pieces, a reply made before the save, and other clients.
ReportIsTrue ==
  \A c \in Client :
    LET said == client[c].said IN
      /\ "added" \in said /\ "unanswered" \notin said /\ link[c] = "open" =>
           \E e \in {c, Cut} : InTable(e)
      /\ "refused" \in said => ~ InTable(c)

\* An employee is in the table at most once (parse.c:107-139): a request read
\* in two pieces is not two requests, and neither a crash between the reply and
\* the save nor a restart adds anything again.
AddedOnce ==
  \A j, k \in DOMAIN Table :
    Table[j] = Table[k] /\ Table[j] # Cut => j = k

\* A client with another PROTO_VERSION changes nothing (server_poll.c:110-121):
\* its session never gets past STATE_HELLO, in any connection.
OldAddNothing ==
  \A c \in Old : session[c] # "MSG" /\ ~ InTable(c)

\* The names that c's employee may have in the table.
Under(c, pieces) == {c} \cup (IF pieces THEN {Cut} ELSE {})

\* A list is the table at one moment (server_poll.c:94-99): whatever others do
\* meanwhile, what a client has printed is the beginning of the table, and it
\* ends with its own employee in it, if that was added before (under the name
\* of Cut, if it was added from a piece of its request).  Only until the client
\* takes a piece of a record for a record: see EveryLineIsNext.
ListIsSnapshot ==
  \A c \in Client :
    LET own == client[c] IN
      link[c] = "open" /\ ~ Gone(c) /\ "short" \notin own.said =>
        /\ own.printed = SubSeq(Table, 1, Len(own.printed))
        /\ own.at = "close" /\ own.list /\ "added" \in own.said =>
             \E k \in DOMAIN own.printed : own.printed[k] \in Under(c, own.pieces)

\* The server dies of SIGPIPE (server_poll.c:45-98) only when a client was
\* killed, or took a piece of a record for a record: any other client that ends
\* has taken every byte that was written to it, and counts as the server does,
\* although its messages may be cut everywhere else.
OnlyAKillKills ==
  sigpipe # None => client[sigpipe].said \cap {"killed", "short"} # {}

\* What is reported added is safe once the server turns to the next message:
\* see SavedWhenIdle in EmployeeStore (server_poll.c:140-141).
SavedWhenIdle == Store!SavedWhenIdle

\* Every client that connects ends (client/main.c:30, 62, 90, 106), although
\* its reads and the server's writes block: each is answered, refused or cut
\* off, and no two sides wait for each other.
EveryClientEnds ==
  \A c \in Client : client[c].at # "connect" ~> client[c].at = "done"

\* "Succesfully added employee" (client/main.c:72): what the client says was
\* added is in the server's table while the server that took the connection
\* runs.
SaidAddedIsAdded ==
  \A c \in Client :
    "added" \in client[c].said /\ phase # "down" => InTable(c)

\* "Read next employee from list" (client/main.c:105): what a read yields is
\* the next employee of the table.
EveryLineIsNext ==
  \A c \in Client :
    link[c] = "open" =>
      client[c].printed = SubSeq(Table, 1, Len(client[c].printed))
=============================================================================
