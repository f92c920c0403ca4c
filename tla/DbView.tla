------------------------------- MODULE DbView -------------------------------
(***************************************************************************)
(* dbview, the database on the command line: main.c, parse.c and file.c of *)
(* 01-lowlevel-academy-c/12_course_project.  Every command is a process of *)
(* its own, which opens the file, checks and reads it, adds at most one    *)
(* employee and writes everything back in place, header first.             *)
(*                                                                         *)
(* One action is one system call and the local code around it.  A run may  *)
(* be killed between any two, and another may be under way on the same     *)
(* file: nothing is locked.  The file is a sequence of units, the header   *)
(* and the records, each written by one call; numbers are in network order *)
(* in the file and in host order in memory, as the code converts them.     *)
(***************************************************************************)
EXTENDS Integers, Sequences

CONSTANTS
  Run,        \* processes that may be under way at the same time
  Employee,   \* the employees that -a may name
  Malformed,  \* an argument of -a that lacks a field
  None,       \* no -a
  Garbage,    \* what freed memory names: anybody
  Absent,     \* the file does not exist
  Torn,       \* the file exists and validate_db_header refuses it
  Unread,     \* the NULL pointer that main keeps when read_employees fails
  COUNT_MOD   \* header->count is an unsigned short: 65536

ASSUME NameAssumption == {Malformed, None, Garbage} \cap Employee = {}
ASSUME CountAssumption == COUNT_MOD \in Nat \ {0, 1}

VARIABLES
  file,    \* Absent, or the units of the file
  run,     \* each process: see Off
  longest  \* history: the most records of an accepted file

vars == <<file, run, longest>>

-----------------------------------------------------------------------------
Stage == {"off", "probe", "create", "open", "header", "stat", "records",
          "edit", "write header", "write records"}

\* A process: where it is, what -a names, header and table in memory, the
\* record it writes next; and, for the properties, what the file held when it
\* started, whether it was alone ever since, and whether realloc moved its table.
Off == [at |-> "off", add |-> None, count |-> 0, size |-> 0, table |-> <<>>, k |-> 1,
        base |-> Absent, alone |-> TRUE, moved |-> FALSE]

HEADER == 1
FileSize(count) == HEADER + count

\* Slip: a file that is longer than its header says will do.
FitsIn(size) == size <= Len(file)

\* The comparison with st_size.
Fits(size) == size = Len(file)

\* What validate_db_header and read_employees find, when nobody else is at work.
Stored ==
  IF file = Absent THEN Absent
  ELSE IF file = <<>> THEN Torn
  ELSE IF Fits(file[1].size) THEN SubSeq(file, 2, FileSize(file[1].count))
  ELSE Torn

Accepted == Stored \notin {Absent, Torn}

Init ==
  /\ file = Absent
  /\ longest = 0
  /\ run = [r \in Run |-> Off]

-----------------------------------------------------------------------------
Goes(r, to) == run' = [run EXCEPT ![r].at = to]

\* The process ends, at whatever point: what it has not written is gone.
Ends(r) == run' = [run EXCEPT ![r] = Off]

\* getopt: -n or not, -a or not.
Start(r) ==
  /\ run[r].at = "off"
  /\ \E stage \in {"probe", "open"}, add \in Employee \cup {Malformed, None} :
       run' = [q \in Run |->
         IF q = r
         THEN [Off EXCEPT !.at = stage, !.add = add, !.base = Stored,
                          !.alone = \A p \in Run \ {r} : run[p].at = "off"]
         ELSE [run[q] EXCEPT !.alone = run[q].at = "off"]]
  /\ UNCHANGED file

-----------------------------------------------------------------------------
(* Opening: create_db_file and create_db_header, or open_db_file and       *)
(* validate_db_header; then read_employees.                                *)

\* "File already exists"
Probe(r) ==
  /\ run[r].at = "probe"
  /\ IF file = Absent THEN Goes(r, "create") ELSE Ends(r)
  /\ UNCHANGED file

\* Without O_EXCL: a file that somebody made since the probe is opened as it is.
CreateFile(r) ==
  /\ run[r].at = "create"
  /\ file' = IF file = Absent THEN <<>> ELSE file
  /\ run' = [run EXCEPT ![r].at = "edit"]

Open(r) ==
  /\ run[r].at = "open"
  /\ IF file = Absent THEN Ends(r) ELSE Goes(r, "header")
  /\ UNCHANGED file

ReadHeader(r) ==
  /\ run[r].at = "header"
  /\ IF file = <<>> THEN Ends(r)
     ELSE run' = [run EXCEPT ![r].at = "stat", ![r].count = file[1].count,
                             ![r].size = file[1].size]
  /\ UNCHANGED file

Stat(r) ==
  /\ run[r].at = "stat"
  /\ IF Fits(run[r].size)
     THEN run' = [run EXCEPT ![r].at = "records", ![r].size = 0]
     ELSE Ends(r)
  /\ UNCHANGED file

ReadRecords(r) ==
  /\ run[r].at = "records"
  /\ run' = [run EXCEPT ![r].at = "edit",
                        ![r].table = SubSeq(file, 2, FileSize(run[r].count))]
  /\ UNCHANGED file

\* "Failed to read employees", and main goes on.
ReadFails(r) ==
  /\ run[r].at = "records"
  /\ run[r].count > 0
  /\ run' = [run EXCEPT ![r].at = "edit", ![r].table = Unread]
  /\ UNCHANGED file

-----------------------------------------------------------------------------
(* In memory.                                                              *)

\* Without -a.  With -l, a table that was not read ends the process here.
Keep(r) ==
  /\ run[r].at = "edit"
  /\ run[r].add = None
  /\ Goes(r, "write header") \/ (run[r].table = Unread /\ Ends(r))
  /\ UNCHANGED file

\* realloc of no bytes frees the table and returns NULL; add_employee follows
\* the NULL that strtok returned, or the one of a table that was not read.
AddFails(r) ==
  /\ run[r].at = "edit"
  /\ run[r].add # None
  /\ \/ run[r].count + 1 = COUNT_MOD
     \/ run[r].add = Malformed
     \/ run[r].table = Unread
  /\ Ends(r)
  /\ UNCHANGED file

\* Slip: the count in the header is left as it was.
CountKept(r) == run[r].count

Counted(r) == run[r].count + 1

\* Slip: the count is taken to be wide enough.
RoomAny(r) == TRUE

Room(r) == run[r].count + 1 < COUNT_MOD

CanAdd(r) ==
  /\ run[r].at = "edit"
  /\ run[r].add \in Employee
  /\ Room(r)
  /\ run[r].table # Unread

\* realloc has extended the block where it was.
Add(r) ==
  /\ CanAdd(r)
  /\ run' = [run EXCEPT ![r].at = "write header", ![r].count = Counted(r),
                        ![r].table = Append(@, run[r].add)]
  /\ UNCHANGED file

\* realloc has moved the block, and main goes on with the old one: the process
\* dies of it, or has in its table whatever is made of freed memory.
AddMoved(r) ==
  /\ CanAdd(r)
  /\ \/ Ends(r)
     \/ run' = [run EXCEPT
          ![r].at = "write header", ![r].count = Counted(r), ![r].moved = TRUE,
          ![r].table = [k \in 1..Counted(r) |-> Garbage]]
  /\ UNCHANGED file

-----------------------------------------------------------------------------
(* output_file.                                                            *)

WriteUnit(n, unit) ==
  file' = [j \in 1..(IF n > Len(file) THEN n ELSE Len(file)) |->
            IF j = n THEN unit ELSE file[j]]

WriteHeader(r) ==
  /\ run[r].at = "write header"
  /\ WriteUnit(1, [count |-> run[r].count, size |-> FileSize(run[r].count)])
  /\ Goes(r, "write records")

WriteRecord(r) ==
  /\ run[r].at = "write records"
  /\ run[r].k <= run[r].count
  /\ run[r].table # Unread
  /\ WriteUnit(HEADER + run[r].k, run[r].table[run[r].k])
  /\ run' = [run EXCEPT ![r].k = @ + 1]

\* The loop is over, or looks into a table that was not read.
Exit(r) ==
  /\ run[r].at = "write records"
  /\ run[r].k > run[r].count \/ run[r].table = Unread
  /\ Ends(r)
  /\ UNCHANGED file

Kill(r) ==
  /\ run[r].at # "off"
  /\ Ends(r)
  /\ UNCHANGED file

-----------------------------------------------------------------------------
Step(r) ==
  \/ Start(r)
  \/ Probe(r) \/ CreateFile(r)
  \/ Open(r) \/ ReadHeader(r) \/ Stat(r) \/ ReadRecords(r) \/ ReadFails(r)
  \/ Keep(r) \/ AddFails(r) \/ Add(r) \/ AddMoved(r)
  \/ WriteHeader(r) \/ WriteRecord(r) \/ Exit(r)
  \/ Kill(r)

Next ==
  /\ \E r \in Run : Step(r)
  /\ longest' = IF Accepted' /\ Len(Stored') > longest THEN Len(Stored') ELSE longest

Spec == Init /\ [][Next]_vars

-----------------------------------------------------------------------------
Count == 0..(COUNT_MOD - 1)
Record == Employee \cup {Garbage}
HeaderUnit == [count : Count, size : HEADER..FileSize(COUNT_MOD - 1)]
Units == Seq(Record \cup HeaderUnit)

\* No file, a refused one and a NULL pointer are told from a file and from a table.
ASSUME AbsenceAssumption ==
  /\ Absent # Torn
  /\ \A none \in {Absent, Torn, Unread} : none \notin Units /\ none \notin Seq(Record)

Process == [at : Stage, add : Employee \cup {Malformed, None}, count : Count,
            size : 0..FileSize(COUNT_MOD - 1), table : {Unread} \cup Seq(Record),
            k : 1..COUNT_MOD, base : {Absent, Torn} \cup Seq(Record),
            alone : BOOLEAN, moved : BOOLEAN]

TypeOK ==
  /\ file = Absent \/ file \in Units
  /\ run \in [Run -> Process]
  /\ longest \in Count

\* The table a run found, and the one it is to save, with the employee it adds.
Found(own) == IF own.base = Absent THEN <<>> ELSE own.base
Intended(own) == IF own.add = None THEN Found(own) ELSE Append(Found(own), own.add)

\* A run that no other overlaps is atomic (main.c:60-102, parse.c:132-156): until
\* it writes, the file is what it found; while it writes, a kill leaves the file
\* as it was, as it is to be, or refused; when it has written, the file is as it
\* is to be; and a file it found refused it does not touch.  A failed read, a
\* malformed employee and a full count leave the file as it was.  When realloc
\* moves the block (main.c:91), names are lost, but never a file that opens.
AloneRunIsAtomic ==
  \A r \in Run :
    LET own == run[r]
        writing == own.at \in {"write header", "write records"}
    IN  own.at # "off" /\ own.alone =>
          /\ Stored \in {own.base, Torn} \/ (writing /\ Stored = own.table)
          /\ Stored = Torn => own.base \in {Torn, Absent} \/ writing
          /\ writing =>
               /\ own.base # Torn
               /\ own.moved \/ own.table \in {Unread, Intended(own)}
          /\ own.at = "write records" /\ own.k > own.count => Stored = own.table

\* Runs that overlap may undo each other's adds (main.c:72-102), but an accepted
\* table is never followed by a shorter one: the file is never truncated, and an
\* older, shorter table written over it is refused (parse.c:67-71), for good.
AcceptedNeverShorter == Accepted => Len(Stored) >= longest

-----------------------------------------------------------------------------
(* What the steps preserve together, from which the properties above follow. *)

\* The header that output_file makes.
Header(count) == [count |-> count, size |-> FileSize(count)]

\* A file begins with a header, somebody's, and goes on with records, as many at least
\* as an accepted file ever had.
FileShape ==
  IF file \in {Absent, <<>>} THEN longest = 0
  ELSE /\ \E count \in Count : file[1] = Header(count)
       /\ \A j \in 2..Len(file) : file[j] \in Record
       /\ longest < Len(file)

\* Whoever else is at work: what a run holds fits together, and the file f has grown
\* far enough for its next call.
Coherent(own, f) ==
  /\ own.at = "off" => own = Off
  /\ own.at \notin {"off", "probe", "create", "open"} => f # Absent
  /\ own.at \in {"stat", "records", "write records"} => f # <<>>
  /\ own.at \in {"probe", "create", "open", "header"} => own.count = 0
  /\ own.moved => own.at \in {"write header", "write records"}
  /\ own.at = "stat" => own.size = FileSize(own.count)
  /\ own.at = "records" => FileSize(own.count) <= Len(f)
  /\ IF own.at \in {"edit", "write header", "write records"}
     THEN own.table = Unread \/ Len(own.table) = own.count
     ELSE own.table = <<>>
  /\ IF own.at = "write records" THEN own.k <= Len(f) /\ own.k <= own.count + 1
     ELSE own.k = 1

\* Nobody else was at work since the run started: what it holds is what it found in
\* the file, f, that a start would now find as stored; and the file is what it found
\* until it writes, and then what it has written so far over that.
Alone(own, f, stored) ==
  LET n == Len(Found(own)) IN
  /\ own.at \in {"probe", "open", "header", "stat", "records"} => stored = own.base
  /\ own.at = "create" => f = Absent /\ own.base = Absent
  /\ own.at = "stat" => own.count = f[1].count
  /\ own.at \in {"records", "edit", "write header", "write records"} =>
       /\ own.base # Torn
       /\ own.base = Absent \/ own.at = "write records" \/ stored = own.base
  /\ own.at = "records" => own.base # Absent
  /\ own.at \in {"edit", "write header"} /\ own.base = Absent => f = <<>>
  /\ own.at \in {"records", "edit"} => own.count = n
  /\ own.at = "edit" => own.table = Found(own) \/ (own.table = Unread /\ n > 0)
  /\ own.at \in {"write header", "write records"} =>
       \/ own.table = Unread /\ own.count = n /\ n > 0
       \/ own.table = Intended(own) /\ own.count = Len(Intended(own))
       \/ own.moved /\ own.count = n + 1
  /\ own.at = "write records" =>
       /\ f[1] = Header(own.count)
       /\ Len(f) = IF own.k > FileSize(n) THEN own.k ELSE FileSize(n)
       /\ own.table = Unread => own.k = 1
       /\ \A j \in 1..(Len(f) - 1) :
            f[j + 1] = IF j < own.k THEN own.table[j] ELSE Found(own)[j]

\* Inductive: it is what DbViewProofs proves.
IInv ==
  /\ TypeOK
  /\ FileShape
  /\ \A r \in Run : Coherent(run[r], file)
  /\ \A r \in Run :
       run[r].at # "off" /\ run[r].alone =>
         /\ \A q \in Run \ {r} : run[q].at = "off"
         /\ Alone(run[r], file, Stored)
=============================================================================
