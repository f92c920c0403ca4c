--------------------------- MODULE EmployeeStore ---------------------------
(***************************************************************************)
(* The database of the server: the table in memory, the file, and the      *)
(* start, add and save paths of src/server/main.c (main), file.c and       *)
(* parse.c, called from server_poll.c (handle_client_fsm).                 *)
(*                                                                         *)
(* The file is a sequence of units: the header is one, a record is two     *)
(* halves, so that a write cut short by a full disk leaves the next one    *)
(* misaligned.  One action is one write and the local code around it, so   *)
(* that the server may die between any two; a write that returned is kept  *)
(* by the kernel.  A number keeps the byte order it is in.                 *)
(***************************************************************************)
EXTENDS Integers, Sequences

CONSTANTS
  Employee,   \* the employees a well-formed add request may name
  Garbage,    \* what uninitialised memory, or halves of two records, name
  Absent,     \* the file does not exist
  Torn,       \* the file exists and validate_db_header refuses it
  COUNT_MOD,  \* header->count is an unsigned short: 65536
  FAULTS      \* which calls may fail: a subset of {"disk full", "read error"}

ASSUME ValueAssumption ==
  /\ Garbage \notin Employee
  /\ Absent # Torn
ASSUME CountAssumption == COUNT_MOD \in Nat \ {0, 1}
ASSUME FaultAssumption == FAULTS \subseteq {"disk full", "read error"}

VARIABLES
  phase,      \* what the server does: see Phase
  header,     \* the header in memory, each number with its byte order
  employees,  \* the table in memory
  file,       \* Absent, or the units of the file
  pos,        \* units before the file offset
  next        \* the record output_file writes next

memory == <<header, employees>>
disk == <<file, pos>>
vars == <<phase, memory, disk, next>>

-----------------------------------------------------------------------------
Phase == {"down", "idle", "reply", "reply error", "header", "records"}
Order == {"host", "net"}

\* htons, htonl, ntohs and ntohl all swap the bytes.
Swapped(order) == IF order = "host" THEN "net" ELSE "host"

HEADER == 1
RECORD == 2
FileSize(count) == HEADER + RECORD * count

Halves(r) == [h \in 1..RECORD |-> [who |-> r.who, half |-> h, order |-> r.order]]

NoHeader == [count |-> 0, order |-> "host", filesize |-> 0, sizeOrder |-> "host"]

-----------------------------------------------------------------------------
(* Opening: validate_db_header and read_employees.                         *)

IsHeader(unit) == DOMAIN unit = DOMAIN NoHeader

\* validate_db_header accepts f: it starts with a header, the magic number and
\* version say so, in network order, and its size is the one the header names.
Valid(f) ==
  /\ f # Absent
  /\ Len(f) >= HEADER
  /\ IsHeader(f[1])
  /\ f[1].order = "net" /\ f[1].sizeOrder = "net"
  /\ f[1].filesize = Len(f)

ReadHeader(f) ==
  [f[1] EXCEPT !.order = Swapped(@), !.sizeOrder = Swapped(@)]

\* The k-th record read: two halves, which one write put there together or not.
ReadRecord(f, k) ==
  LET a == f[HEADER + RECORD * k - 1]
      b == f[HEADER + RECORD * k]
      whole == /\ ~ IsHeader(a) /\ ~ IsHeader(b)
               /\ a.half = 1 /\ b = [a EXCEPT !.half = 2]
  IN  IF whole THEN [who |-> a.who, order |-> Swapped(a.order)]
               ELSE [who |-> Garbage, order |-> "host"]

\* Slip: the hours stay in network order.
ReadRecordsUnswapped(f) ==
  [k \in 1..f[1].count |-> [ReadRecord(f, k) EXCEPT !.order = Swapped(@)]]

ReadRecords(f) == [k \in 1..f[1].count |-> ReadRecord(f, k)]

-----------------------------------------------------------------------------
Init ==
  /\ phase = "down"
  /\ header = NoHeader
  /\ employees = <<>>
  /\ file = Absent
  /\ pos = 0
  /\ next = 1

\* create_db_file: "File already exists"
MayCreate == file = Absent

\* -n: after create_db_file, create_db_header makes a header in memory only; the
\* file stays empty.
StartNew ==
  /\ phase = "down"
  /\ MayCreate
  /\ file' = <<>>
  /\ pos' = 0
  /\ header' = [NoHeader EXCEPT !.filesize = HEADER]
  /\ phase' = "idle"
  /\ UNCHANGED <<employees, next>>

\* Without -n.  A refused file makes the program exit: there is no step.
StartOpen ==
  /\ phase = "down"
  /\ Valid(file)
  /\ header' = ReadHeader(file)
  /\ employees' = ReadRecords(file)
  /\ pos' = Len(file)
  /\ phase' = "idle"
  /\ UNCHANGED <<file, next>>

\* "Failed to read employees": the server goes on, with no table (main.c:233).
StartUnread ==
  /\ "read error" \in FAULTS
  /\ phase = "down"
  /\ Valid(file)
  /\ header' = ReadHeader(file)
  /\ employees' = <<>>
  /\ pos' = HEADER
  /\ phase' = "idle"
  /\ UNCHANGED <<file, next>>

-----------------------------------------------------------------------------
(* An add request in STATE_MSG: add_employee, the reply, output_file.      *)

\* The table after realloc: what it held, uninitialised memory in between when
\* it held less than header->count, and the new employee.
Grown(e) ==
  [k \in 1..(header.count + 1) |->
    IF k = header.count + 1 THEN [who |-> e, order |-> "host"]
    ELSE IF k <= Len(employees) THEN employees[k]
    ELSE [who |-> Garbage, order |-> "host"]]

\* Slip: the count is taken to be wide enough.
RoomAny == TRUE

Room == header.count + 1 < COUNT_MOD

AddEmployee(e) ==
  /\ phase = "idle"
  /\ Room
  /\ header' = [header EXCEPT !.count = @ + 1]
  /\ employees' = Grown(e)
  /\ phase' = "reply"
  /\ UNCHANGED <<disk, next>>

\* The 65536th employee: count becomes 0, realloc frees the table and returns
\* NULL, and writing to element -1 of it ends the process.  (In front of a table
\* that was not read, the write may hit anything; the model ends there as well.)
AddWraps ==
  /\ phase = "idle"
  /\ ~ Room
  /\ phase' = "down"
  /\ header' = NoHeader
  /\ employees' = <<>>
  /\ UNCHANGED <<disk, next>>

\* A request with a field missing or no hours changes nothing in the table.
AddRejected ==
  /\ phase = "idle"
  /\ phase' = "reply error"
  /\ UNCHANGED <<memory, disk, next>>

ReplyError ==
  /\ phase = "reply error"
  /\ phase' = "idle"
  /\ UNCHANGED <<memory, disk, next>>

\* Slip: the file is written after every other add only.
AfterReplyBatched == IF header.count % 2 = 1 THEN "header" ELSE "idle"

AfterReply == "header"

\* fsm_reply_add: the client is told before the file is touched.
ReplyAdd ==
  /\ phase = "reply"
  /\ phase' = AfterReply
  /\ UNCHANGED <<memory, disk, next>>

-----------------------------------------------------------------------------
(* output_file.  Nothing checks what write returns: on a full disk a write *)
(* that would grow the file stores the part that fits, or nothing, and the *)
(* next one goes on from there.                                            *)

\* The file after the first n units are written at offset p.
After(p, n, units) ==
  [k \in 1..(IF p + n > Len(file) THEN p + n ELSE Len(file)) |->
    IF k \in (p + 1)..(p + n) THEN units[k - p] ELSE file[k]]

WriteAt(p, units) ==
  \E n \in 0..Len(units) :
    /\ n = Len(units) \/ ("disk full" \in FAULTS /\ p + n >= Len(file))
    /\ file' = After(p, n, units)
    /\ pos' = p + n

\* Slip: the header keeps the size of the table before the add.
OutputHeaderOldSize ==
  /\ phase = "header"
  /\ header' = [header EXCEPT !.order = Swapped(@), !.sizeOrder = "net"]
  /\ WriteAt(0, <<header'>>)
  /\ next' = 1
  /\ phase' = "records"
  /\ UNCHANGED employees

\* The header goes to network order in memory, and is written from there.
OutputHeader ==
  /\ phase = "header"
  /\ header' = [header EXCEPT !.order = Swapped(@),
                              !.filesize = FileSize(header.count),
                              !.sizeOrder = "net"]
  /\ WriteAt(0, <<header'>>)
  /\ next' = 1
  /\ phase' = "records"
  /\ UNCHANGED employees

\* Slip: the loop stops one record early.
AllWrittenEarly == next >= header.count

AllWritten == next > header.count

\* A record is swapped, written and swapped back.
OutputRecord ==
  /\ phase = "records"
  /\ ~ AllWritten
  /\ WriteAt(pos, Halves([employees[next] EXCEPT !.order = Swapped(@)]))
  /\ next' = next + 1
  /\ UNCHANGED <<phase, memory>>

\* Slip: the header stays in network order.
RestoredNot == header.order

Restored == Swapped(header.order)

\* Back to host order, but for filesize: it is assigned ntohl of a number in
\* host order, and stays swapped until the next output_file assigns it again.
OutputEnd ==
  /\ phase = "records"
  /\ AllWritten
  /\ header' = [header EXCEPT !.order = Restored,
                              !.filesize = FileSize(header.count),
                              !.sizeOrder = Swapped("host")]
  /\ phase' = "idle"
  /\ UNCHANGED <<employees, disk, next>>

-----------------------------------------------------------------------------
\* The server dies: killed, out of memory, or by SIGPIPE on a reply to a client
\* that is gone.
Crash ==
  /\ phase # "down"
  /\ phase' = "down"
  /\ header' = NoHeader
  /\ employees' = <<>>
  /\ UNCHANGED <<disk, next>>

Next ==
  \/ StartNew \/ StartOpen \/ StartUnread
  \/ \E e \in Employee : AddEmployee(e)
  \/ AddWraps \/ AddRejected \/ ReplyError \/ ReplyAdd
  \/ OutputHeader \/ OutputRecord \/ OutputEnd
  \/ Crash

Spec == Init /\ [][Next]_vars

-----------------------------------------------------------------------------
Record == [who : Employee \cup {Garbage}, order : Order]
HeaderUnit == [count : 0..(COUNT_MOD - 1), order : Order,
               filesize : 0..FileSize(COUNT_MOD - 1), sizeOrder : Order]
HalfUnit == [who : Employee \cup {Garbage}, half : 1..RECORD, order : Order]

\* No file, and a refused one, are told from the units of a file and from a table.
ASSUME AbsenceAssumption ==
  \A none \in {Absent, Torn} :
    none \notin Seq(HeaderUnit \cup HalfUnit) /\ none \notin Seq(Employee \cup {Garbage})

TypeOK ==
  /\ phase \in Phase
  /\ header \in HeaderUnit
  /\ employees \in Seq(Record) /\ Len(employees) < COUNT_MOD
  /\ \/ file = Absent
     \/ file \in Seq(HeaderUnit \cup HalfUnit) /\ Len(file) <= FileSize(COUNT_MOD - 1)
  /\ pos \in 0..FileSize(COUNT_MOD - 1)
  /\ next \in 1..COUNT_MOD

\* Who a table names; an entry whose hours are in the wrong order names nobody.
Names(table) ==
  [k \in DOMAIN table |->
    IF table[k].order = "host" THEN table[k].who ELSE Garbage]

Table == Names(employees)

\* What a server started now would load.
Stored ==
  IF file = Absent THEN Absent
  ELSE IF Valid(file) THEN Names(ReadRecords(file))
  ELSE Torn

\* While the server waits for requests and while it replies, the header and the
\* table in memory describe each other, in host order, although output_file
\* (parse.c:159-177) keeps swapping them: list and add index the table by count.
\* Only a table that was not read (main.c:233) is not there at all.
HeaderDescribesTable ==
  phase \in {"idle", "reply", "reply error"} =>
    /\ header.order = "host"
    /\ header.count = Len(employees) \/ employees = <<>>
    /\ \A k \in DOMAIN employees : employees[k].order = "host"

\* Whenever the file would be accepted while the server runs, it holds the
\* server's table or that table without its last employee (parse.c:164-172,
\* server_poll.c:140-141): whatever write the server dies at, and however many
\* writes a full disk cut short before, an accepted file never holds an older
\* table, one with a hole, or a torn record.  Where the server itself never read
\* a name, the file may hold any.
LosesAtMostTheLastAdd ==
  /\ phase # "down" /\ header.count = Len(employees)
  /\ Stored \notin {Absent, Torn}
  => /\ Len(Stored) \in {Len(Table) - 1, Len(Table)}
     /\ \A k \in DOMAIN Stored : Table[k] \in {Stored[k], Garbage}

\* When no write fails, the table is in the file whenever the server is idle,
\* unless nothing was ever added to a new database.
SavedWhenIdle ==
  phase = "idle" /\ employees # <<>> => Stored = Table

\* A save none of whose writes was cut short leaves the table in the file
\* (parse.c:156-172), whatever a full disk left there in earlier saves, and also
\* where the table was not read: an accepted file is not all that survives, the
\* first whole save repairs a torn one.  The offset tells whether one was cut.
WholeSaveRepairs ==
  phase = "records" /\ AllWritten /\ pos = FileSize(header.count) => Stored = Table

(* What the steps preserve together, from which the properties above follow. *)

NetHeader(count) == [count |-> count, order |-> "net",
                     filesize |-> FileSize(count), sizeOrder |-> "net"]

\* One write put the k-th record of f there, naming who.
Holds(f, k, who) ==
  \A h \in 1..RECORD :
    f[HEADER + RECORD * (k - 1) + h] = [who |-> who, half |-> h, order |-> "net"]

\* Memory is in host order, except for the header while the records are written.
InMemory ==
  /\ phase = "down" => header = NoHeader /\ employees = <<>>
  /\ phase # "down" => file # Absent
  /\ IF phase = "records" THEN header = NetHeader(header.count) ELSE header.order = "host"
  /\ \A k \in DOMAIN employees : employees[k].order = "host"
  /\ \/ header.count = Len(employees)
     \/ employees = <<>> /\ phase \in {"idle", "reply error"}
  /\ phase \in {"reply", "header", "records"} => employees # <<>>

\* A header in the file names the size its own count makes, and a file of that
\* size has no torn record.
OnDisk ==
  file # Absent =>
    /\ file # <<>> /\ IsHeader(file[1]) => file[1] = NetHeader(file[1].count)
    /\ Valid(file) =>
         \A k \in 1..file[1].count : \E who \in Employee \cup {Garbage} : Holds(file, k, who)

\* Between two saves the file is no longer than the table it was written from,
\* and of that length only if it holds all of it.
Between ==
  /\ phase \in {"idle", "reply error"} =>
       /\ Len(file) <= FileSize(header.count)
       /\ Valid(file) => /\ file[1].count = header.count
                         /\ employees \in {ReadRecords(file), <<>>}
  /\ phase \in {"reply", "header"} =>
       /\ Len(file) <= FileSize(header.count - 1)
       /\ Valid(file) =>
            /\ file[1].count = header.count - 1
            /\ \A k \in 1..file[1].count :
                 employees[k] \in {ReadRecord(file, k), [who |-> Garbage, order |-> "host"]}

\* While the records are written, either nothing was cut short so far, or the
\* end of the file is too near its start for it to be completed.
Saving ==
  phase = "records" =>
    /\ next <= header.count + 1
    /\ pos <= Len(file)
    /\ Len(file) = pos \/ Len(file) <= FileSize(header.count - 1)
    /\ \/ /\ pos = FileSize(next - 1)
          /\ file[1] = NetHeader(header.count)
          /\ \A k \in 1..(next - 1) : Holds(file, k, employees[k].who)
       \/ /\ pos = Len(file) /\ pos < FileSize(next - 1)
          /\ file # <<>> /\ IsHeader(file[1]) => file[1] = NetHeader(header.count)

\* Where no call fails, the table was read and every write is complete.
Whole ==
  /\ header.count = Len(employees)
  /\ phase = "records" => pos = FileSize(next - 1)
  /\ phase \in {"idle", "reply error"} /\ employees # <<>> => Valid(file)

\* Inductive: it is what EmployeeStoreProofs proves.
IInv == TypeOK /\ InMemory /\ OnDisk /\ Between /\ Saving

\* The store is a durable table: a start finds the table before or after the
\* interrupted add, or a refused file.
Durable == INSTANCE DurableTable WITH
             MAX_COUNT <- COUNT_MOD - 1,
             up <- phase # "down",
             table <- Table,
             unread <- IF phase = "down" THEN 0 ELSE header.count - Len(employees),
             dirty <- phase \in {"reply", "header", "records"},
             stored <- Stored

ImplementsDurableTable == Durable!Spec
=============================================================================
