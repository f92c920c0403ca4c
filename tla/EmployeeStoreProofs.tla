------------------------ MODULE EmployeeStoreProofs ------------------------
(***************************************************************************)
(* Proofs about EmployeeStore, for any set of employees, any width of the  *)
(* count and whichever calls fail: what the file holds when it is          *)
(* accepted, that memory is in host order between two saves, that a        *)
(* refused file is left alone, and that the store is a durable table.      *)
(***************************************************************************)
EXTENDS EmployeeStore, SequenceTheorems, TLAPS

-----------------------------------------------------------------------------
(* Units, records and writes.                                              *)

Unit == HeaderUnit \cup HalfUnit
Name == Employee \cup {Garbage}

\* The kinds of unit are told apart, and sizes are numbers.
LEMMA Units ==
  /\ \A u \in HeaderUnit : IsHeader(u)
  /\ \A u \in HalfUnit : ~ IsHeader(u)
  /\ \A c \in 0..(COUNT_MOD - 1) : NetHeader(c) \in HeaderUnit
  /\ \A c \in Int : FileSize(c) = 1 + 2 * c
  /\ COUNT_MOD \in Nat /\ COUNT_MOD >= 2
<1>1. COUNT_MOD \in Nat /\ COUNT_MOD >= 2
  BY CountAssumption
<1>2. \A c \in Int : FileSize(c) = 1 + 2 * c
  BY DEF FileSize, HEADER, RECORD
<1>3. \A c \in 0..(COUNT_MOD - 1) : NetHeader(c) \in HeaderUnit
  <2> SUFFICES ASSUME NEW c \in 0..(COUNT_MOD - 1) PROVE NetHeader(c) \in HeaderUnit
    OBVIOUS
  <2>1. FileSize(c) \in 0..FileSize(COUNT_MOD - 1)
    BY <1>1, <1>2
  <2> QED
    BY <2>1 DEF NetHeader, HeaderUnit, Order
<1>4. DOMAIN NoHeader = {"count", "order", "filesize", "sizeOrder"}
  BY DEF NoHeader
<1>5. \A u \in HeaderUnit : IsHeader(u)
  <2> SUFFICES ASSUME NEW u \in HeaderUnit PROVE IsHeader(u)
    OBVIOUS
  <2>1. DOMAIN u = {"count", "order", "filesize", "sizeOrder"}
    BY DEF HeaderUnit
  <2> QED
    BY <1>4, <2>1 DEF IsHeader
<1>6. \A u \in HalfUnit : ~ IsHeader(u)
  <2> SUFFICES ASSUME NEW u \in HalfUnit PROVE ~ IsHeader(u)
    OBVIOUS
  <2>1. DOMAIN u = {"who", "half", "order"}
    BY DEF HalfUnit
  <2>2. {"who", "half", "order"} # {"count", "order", "filesize", "sizeOrder"}
    <3>1. "who" \notin {"count", "order", "filesize", "sizeOrder"}
      OBVIOUS
    <3> QED
      BY <3>1
  <2> QED
    BY <1>4, <2>1, <2>2 DEF IsHeader
<1> QED
  BY <1>1, <1>2, <1>3, <1>5, <1>6

\* Where the k-th record is.
LEMMA HoldsBoth ==
  ASSUME NEW f, NEW k \in Nat \ {0}, NEW who
  PROVE  Holds(f, k, who) <=> /\ f[2 * k] = [who |-> who, half |-> 1, order |-> "net"]
                              /\ f[2 * k + 1] = [who |-> who, half |-> 2, order |-> "net"]
<1>1. 1..RECORD = {1, 2}
  BY DEF RECORD
<1>2. HEADER + RECORD * (k - 1) + 1 = 2 * k /\ HEADER + RECORD * (k - 1) + 2 = 2 * k + 1
  BY DEF HEADER, RECORD
<1> QED
  BY <1>1, <1>2 DEF Holds

\* A record that one write put there is read as it was written.
LEMMA ReadsHeld ==
  ASSUME NEW f, NEW k \in Nat \ {0}, NEW who \in Name, Holds(f, k, who)
  PROVE  ReadRecord(f, k) = [who |-> who, order |-> "host"]
<1> DEFINE a == [who |-> who, half |-> 1, order |-> "net"]
           b == [who |-> who, half |-> 2, order |-> "net"]
<1>1. f[2 * k] = a /\ f[2 * k + 1] = b
  BY HoldsBoth
<1>2. a \in HalfUnit /\ b \in HalfUnit
  BY DEF HalfUnit, RECORD, Order, Name
<1>3. ~ IsHeader(a) /\ ~ IsHeader(b)
  BY <1>2, Units
<1>4. a.half = 1 /\ b = [a EXCEPT !.half = 2] /\ a.who = who /\ Swapped(a.order) = "host"
  BY DEF Swapped
<1>5. HEADER + RECORD * k - 1 = 2 * k /\ HEADER + RECORD * k = 2 * k + 1
  BY DEF HEADER, RECORD
<1> HIDE DEF a, b
<1> QED
  BY <1>1, <1>3, <1>4, <1>5 DEF ReadRecord

\* A write inside the file, or at its end, replaces a stretch and keeps the rest.
LEMMA Written ==
  ASSUME NEW U, file \in Seq(U), NEW units \in Seq(U), NEW p \in 0..Len(file),
         NEW n \in 0..Len(units)
  PROVE  /\ After(p, n, units) \in Seq(U)
         /\ Len(After(p, n, units)) = IF p + n > Len(file) THEN p + n ELSE Len(file)
         /\ \A k \in 1..p : After(p, n, units)[k] = file[k]
         /\ \A k \in 1..n : After(p, n, units)[p + k] = units[k]
<1> DEFINE len == IF p + n > Len(file) THEN p + n ELSE Len(file)
<1>1. Len(file) \in Nat /\ Len(units) \in Nat /\ p \in Nat /\ n \in Nat /\ len \in Nat
      /\ p <= Len(file) /\ n <= Len(units)
  BY LenProperties
<1>2. ASSUME NEW k \in 1..len
      PROVE  (IF k \in (p + 1)..(p + n) THEN units[k - p] ELSE file[k]) \in U
  <2>1. CASE k \in (p + 1)..(p + n)
    BY <1>1, <2>1, ElementOfSeq
  <2>2. CASE k \notin (p + 1)..(p + n)
    <3>1. k \in 1..Len(file)
      BY <1>1, <2>2
    <3> QED
      BY <2>2, <3>1, ElementOfSeq
  <2> QED
    BY <2>1, <2>2
<1>3. After(p, n, units) = [k \in 1..len |-> IF k \in (p + 1)..(p + n) THEN units[k - p]
                                             ELSE file[k]]
  BY DEF After
<1>4. After(p, n, units) \in [1..len -> U]
  BY <1>2, <1>3
<1>5. After(p, n, units) \in Seq(U) /\ Len(After(p, n, units)) = len
  BY <1>1, <1>4
<1>6. \A k \in 1..p : k \in 1..len /\ k \notin (p + 1)..(p + n)
  BY <1>1
<1>7. \A k \in 1..n : p + k \in 1..len /\ p + k \in (p + 1)..(p + n) /\ (p + k) - p = k
  BY <1>1
<1> QED
  BY <1>3, <1>5, <1>6, <1>7

\* The two halves output_file writes of a record in host order.
LEMMA HalvesOf ==
  ASSUME NEW r \in Record, r.order = "host"
  PROVE  LET units == Halves([r EXCEPT !.order = Swapped(@)])
         IN  /\ units \in Seq(HalfUnit) /\ Len(units) = 2
             /\ units[1] = [who |-> r.who, half |-> 1, order |-> "net"]
             /\ units[2] = [who |-> r.who, half |-> 2, order |-> "net"]
<1> DEFINE s == [r EXCEPT !.order = Swapped(@)]
<1>1. s.who = r.who /\ s.order = "net" /\ r.who \in Name
  BY DEF Record, Swapped, Name
<1>2. 1..RECORD = 1..2 /\ 1 \in 1..2 /\ 2 \in 1..2
  BY DEF RECORD
<1> HIDE DEF s
<1>3. Halves(s) = [h \in 1..2 |-> [who |-> r.who, half |-> h, order |-> "net"]]
  BY <1>1, <1>2 DEF Halves
<1>4. \A h \in 1..2 : [who |-> r.who, half |-> h, order |-> "net"] \in HalfUnit
  BY <1>1, <1>2 DEF HalfUnit, Order, Name
<1>5. Halves(s) \in [1..2 -> HalfUnit]
  BY <1>3, <1>4
<1>6. Halves(s) \in Seq(HalfUnit) /\ Len(Halves(s)) = 2
  <2>1. Halves(s) \in Seq(HalfUnit) /\ DOMAIN Halves(s) = 1..2
    BY <1>5, SeqDef
  <2>2. Len(Halves(s)) \in Nat /\ 1..Len(Halves(s)) = 1..2
    BY <2>1, LenProperties
  <2> QED
    BY <2>1, <2>2
<1> QED
  BY <1>2, <1>3, <1>6 DEF s

\* How far output_file has come with a table of c employees: its next record is the
\* n-th, and it is at offset p of the file f.
Progress(f, c, n, p, table) ==
  /\ p <= Len(f)
  /\ Len(f) = p \/ Len(f) <= FileSize(c - 1)
  /\ \/ /\ p = FileSize(n - 1)
        /\ f[1] = NetHeader(c)
        /\ \A k \in 1..(n - 1) : Holds(f, k, table[k].who)
     \/ /\ p = Len(f) /\ p < FileSize(n - 1)
        /\ f # <<>> /\ IsHeader(f[1]) => f[1] = NetHeader(c)

\* A file being written is accepted only when the last record is in it.
LEMMA AcceptedWhenComplete ==
  ASSUME NEW f \in Seq(Unit), NEW c \in 1..(COUNT_MOD - 1), NEW n \in 1..(c + 1),
         NEW p \in Nat, NEW table, Progress(f, c, n, p, table)
  PROVE  /\ f # <<>> /\ IsHeader(f[1]) => f[1] = NetHeader(c)
         /\ Valid(f) => /\ n = c + 1 /\ p = Len(f) /\ f[1] = NetHeader(c)
                        /\ \A k \in 1..c : Holds(f, k, table[k].who)
         /\ n = c + 1 /\ p = FileSize(c) => Valid(f)
<1>1. /\ COUNT_MOD \in Nat /\ c \in Nat /\ n \in Nat /\ Len(f) \in Nat /\ c >= 1 /\ n <= c + 1
      /\ FileSize(c) = 1 + 2 * c /\ FileSize(c - 1) = 1 + 2 * (c - 1)
      /\ FileSize(n - 1) = 1 + 2 * (n - 1)
  <2>1. COUNT_MOD \in Nat /\ c \in Int /\ c - 1 \in Int /\ n - 1 \in Int
    BY Units
  <2>2. Len(f) \in Nat
    BY LenProperties
  <2>3. c \in Nat /\ n \in Nat /\ c >= 1 /\ n <= c + 1
    BY <2>1
  <2> QED
    BY <2>1, <2>2, <2>3, Units
<1>2. NetHeader(c).count = c /\ NetHeader(c).filesize = FileSize(c)
      /\ NetHeader(c).order = "net" /\ NetHeader(c).sizeOrder = "net"
  BY DEF NetHeader
<1>3. f # <<>> /\ IsHeader(f[1]) => f[1] = NetHeader(c)
  BY DEF Progress
<1>4. ASSUME Valid(f)
      PROVE  /\ n = c + 1 /\ p = Len(f) /\ f[1] = NetHeader(c)
             /\ \A k \in 1..c : Holds(f, k, table[k].who)
  <2>1. Len(f) >= 1 /\ IsHeader(f[1]) /\ f[1].filesize = Len(f)
    BY <1>4 DEF Valid, HEADER
  <2>2. f # <<>>
    BY <1>1, <2>1, EmptySeq
  <2>3. f[1] = NetHeader(c) /\ Len(f) = FileSize(c)
    BY <1>2, <1>3, <2>1, <2>2
  <2>4. p = Len(f)
    BY <1>1, <2>3 DEF Progress
  <2>5. p = FileSize(n - 1) /\ \A k \in 1..(n - 1) : Holds(f, k, table[k].who)
    BY <1>1, <2>3, <2>4 DEF Progress
  <2>6. n = c + 1 /\ n - 1 = c
    BY <1>1, <2>3, <2>4, <2>5
  <2> QED
    BY <2>3, <2>4, <2>5, <2>6
<1>5. ASSUME n = c + 1, p = FileSize(c)
      PROVE  Valid(f)
  <2>1. FileSize(n - 1) = FileSize(c)
    BY <1>1, <1>5
  <2>2. f[1] = NetHeader(c) /\ Len(f) = FileSize(c)
    BY <1>1, <1>5, <2>1 DEF Progress
  <2>3. c \in 0..(COUNT_MOD - 1) /\ Len(f) >= HEADER
    BY <1>1, <2>2 DEF HEADER
  <2>4. f # Absent
    BY AbsenceAssumption DEF Unit
  <2> QED
    BY <1>2, <2>2, <2>3, <2>4, Units DEF Valid
<1> QED
  BY <1>3, <1>4, <1>5

\* Reading a file that holds a table in full gives that table.
LEMMA CompleteReads ==
  ASSUME NEW f, NEW c \in Nat, f[1] = NetHeader(c),
         NEW table \in Seq(Record), Len(table) = c,
         \A k \in 1..c : table[k].order = "host" /\ Holds(f, k, table[k].who)
  PROVE  f[1].count = c /\ ReadRecords(f) = table
<1>1. f[1].count = c
  BY DEF NetHeader
<1>2. ASSUME NEW k \in 1..c
      PROVE  ReadRecord(f, k) = table[k]
  <2>1. table[k] \in Record /\ k \in Nat \ {0}
    BY ElementOfSeq
  <2>2. table[k].who \in Name
    BY <2>1 DEF Record, Name
  <2>3. ReadRecord(f, k) = [who |-> table[k].who, order |-> "host"]
    BY <2>1, <2>2, ReadsHeld
  <2> QED
    BY <2>1, <2>3 DEF Record
<1>3. ReadRecords(f) = [k \in 1..c |-> table[k]]
  BY <1>1, <1>2 DEF ReadRecords
<1> QED
  BY <1>1, <1>3, LenProperties

\* What a start finds in a file that is accepted.
LEMMA LoadedFile ==
  ASSUME TypeOK, OnDisk, Valid(file)
  PROVE  /\ file \in Seq(Unit) /\ file # Absent
         /\ file[1].count \in 0..(COUNT_MOD - 1)
         /\ file[1] = NetHeader(file[1].count)
         /\ Len(file) = FileSize(file[1].count)
         /\ ReadRecords(file) \in Seq(Record)
         /\ Len(ReadRecords(file)) = file[1].count
         /\ \A k \in 1..file[1].count :
              /\ ReadRecords(file)[k] = ReadRecord(file, k)
              /\ ReadRecord(file, k).order = "host" /\ ReadRecord(file, k).who \in Name
<1> DEFINE c == file[1].count
<1>1. file # Absent /\ file \in Seq(Unit) /\ Len(file) \in Nat /\ Len(file) >= 1
      /\ IsHeader(file[1]) /\ file[1].filesize = Len(file)
  BY LenProperties DEF TypeOK, Valid, HEADER, Unit
<1>2. file # <<>> /\ file[1] \in Unit
  BY <1>1, EmptySeq, ElementOfSeq
<1>3. file[1] = NetHeader(c)
  BY <1>1, <1>2 DEF OnDisk
<1>4. c \in 0..(COUNT_MOD - 1)
  <2>1. file[1] \in HeaderUnit
    BY <1>1, <1>2, Units DEF Unit
  <2> QED
    BY <2>1 DEF HeaderUnit
<1>5. Len(file) = FileSize(c)
  <2>1. NetHeader(c).filesize = FileSize(c)
    BY DEF NetHeader
  <2> QED
    BY <1>1, <1>3, <2>1
<1>6. ASSUME NEW k \in 1..c
      PROVE  /\ ReadRecord(file, k) \in Record
             /\ ReadRecord(file, k).order = "host" /\ ReadRecord(file, k).who \in Name
  <2>1. PICK who \in Name : Holds(file, k, who)
    BY <1>1 DEF OnDisk, Name
  <2>2. k \in Nat \ {0}
    BY <1>4
  <2>3. ReadRecord(file, k) = [who |-> who, order |-> "host"]
    BY <2>1, <2>2, ReadsHeld
  <2> QED
    BY <2>3 DEF Record, Order, Name
<1>7. ReadRecords(file) = [k \in 1..c |-> ReadRecord(file, k)]
  BY DEF ReadRecords
<1>8. ReadRecords(file) \in [1..c -> Record]
  BY <1>6, <1>7
<1>9. ReadRecords(file) \in Seq(Record) /\ Len(ReadRecords(file)) = c
  BY <1>4, <1>8
<1> QED
  BY <1>1, <1>3, <1>4, <1>5, <1>6, <1>7, <1>9

-----------------------------------------------------------------------------
(* Each step keeps the invariant: starting, adding, dying.                 *)

LEMMA DiskStays ==
  ASSUME OnDisk, UNCHANGED file
  PROVE  OnDisk'
BY DEF OnDisk

LEMMA NoTable ==
  ASSUME NEW table, table = <<>>, NEW S
  PROVE  table \in Seq(S) /\ Len(table) = 0 /\ \A k \in DOMAIN table : FALSE
BY EmptySeq

LEMMA Sizes ==
  /\ COUNT_MOD \in Nat /\ COUNT_MOD >= 2
  /\ FileSize(0) = 1 /\ FileSize(COUNT_MOD - 1) = 1 + 2 * (COUNT_MOD - 1)
  /\ 0 \in 0..FileSize(COUNT_MOD - 1) /\ 1 \in 0..FileSize(COUNT_MOD - 1)
<1>1. COUNT_MOD \in Nat /\ COUNT_MOD >= 2 /\ COUNT_MOD - 1 \in Int
  BY CountAssumption
<1>2. FileSize(0) = 1 /\ FileSize(COUNT_MOD - 1) = 1 + 2 * (COUNT_MOD - 1)
  BY <1>1, Units
<1> QED
  BY <1>1, <1>2

LEMMA StartNewKeeps ==
  ASSUME IInv, StartNew
  PROVE  IInv'
<1> USE DEF IInv
<1>1. /\ phase' = "idle" /\ file' = <<>> /\ pos' = 0 /\ employees' = <<>> /\ next' = next
      /\ header' = [count |-> 0, order |-> "host", filesize |-> 1, sizeOrder |-> "host"]
  BY DEF StartNew, InMemory, NoHeader, HEADER
<1>2. /\ employees' \in Seq(Record) /\ Len(employees') = 0 /\ \A k \in DOMAIN employees' : FALSE
      /\ file' \in Seq(Unit) /\ Len(file') = 0
  BY <1>1, NoTable
<1>3. TypeOK'
  <2>1. header' \in HeaderUnit
    BY <1>1, Sizes DEF HeaderUnit, Order
  <2>2. employees' \in Seq(Record) /\ Len(employees') < COUNT_MOD
    BY <1>2, Sizes
  <2>3. file' \in Seq(HeaderUnit \cup HalfUnit) /\ Len(file') <= FileSize(COUNT_MOD - 1)
    BY <1>2, Sizes DEF Unit
  <2>4. phase' \in Phase /\ pos' \in 0..FileSize(COUNT_MOD - 1) /\ next' \in 1..COUNT_MOD
    BY <1>1, Sizes DEF Phase, TypeOK
  <2> QED
    BY <2>1, <2>2, <2>3, <2>4 DEF TypeOK
<1>4. file' # Absent
  BY <1>2, AbsenceAssumption DEF Unit
<1>5. ~ Valid(file')
  BY <1>2 DEF Valid, HEADER
<1>6. InMemory'
  <2>1. header'.order = "host" /\ header'.count = Len(employees')
    BY <1>1, <1>2
  <2> QED
    BY <1>1, <1>2, <1>4, <2>1 DEF InMemory
<1>7. OnDisk'
  BY <1>1, <1>5 DEF OnDisk
<1>8. Between'
  <2>1. header'.count = 0 /\ Len(file') <= FileSize(0)
    BY <1>1, <1>2, Sizes
  <2> QED
    BY <1>1, <1>5, <2>1 DEF Between
<1>9. Saving'
  BY <1>1 DEF Saving
<1> QED
  BY <1>3, <1>6, <1>7, <1>8, <1>9

\* The header, once read, is in host order and names as many as the file holds.
LEMMA ReadHeaderSwaps ==
  ASSUME TypeOK, OnDisk, Valid(file)
  PROVE  /\ ReadHeader(file) \in HeaderUnit
         /\ ReadHeader(file).count = file[1].count /\ ReadHeader(file).order = "host"
<1>1. file[1] = NetHeader(file[1].count) /\ file[1].count \in 0..(COUNT_MOD - 1)
  BY LoadedFile
<1>2. NetHeader(file[1].count) \in HeaderUnit
  BY <1>1, Units
<1>3. file[1] \in HeaderUnit /\ file[1].order = "net" /\ file[1].sizeOrder = "net"
  BY <1>1, <1>2 DEF Valid
<1> QED
  BY <1>3 DEF ReadHeader, HeaderUnit, Swapped, Order

LEMMA StartOpenKeeps ==
  ASSUME IInv, StartOpen
  PROVE  IInv'
<1> USE DEF IInv
<1>1. /\ Valid(file) /\ phase' = "idle" /\ UNCHANGED <<file, next>> /\ pos' = Len(file)
      /\ header' = ReadHeader(file) /\ employees' = ReadRecords(file)
  BY DEF StartOpen
<1>2. Len(file) \in Nat /\ Len(file) = FileSize(file[1].count)
      /\ Len(ReadRecords(file)) = file[1].count /\ file[1].count \in 0..(COUNT_MOD - 1)
  BY <1>1, LoadedFile, LenProperties
<1>3. TypeOK'
  <2>1. Len(file) \in 0..FileSize(COUNT_MOD - 1)
    BY <1>1, <1>2, LoadedFile DEF TypeOK
  <2>2. Len(ReadRecords(file)) < COUNT_MOD
    BY <1>2, Sizes
  <2> QED
    BY <1>1, <2>1, <2>2, LoadedFile, ReadHeaderSwaps DEF TypeOK, Phase
<1>4. InMemory'
  <2>1. DOMAIN ReadRecords(file) = 1..file[1].count
    BY DEF ReadRecords
  <2> QED
    BY <1>1, <1>2, <2>1, LoadedFile, ReadHeaderSwaps DEF InMemory
<1>5. OnDisk'
  BY <1>1, DiskStays
<1>6. Between'
  <2>1. Len(file) <= FileSize(file[1].count)
    BY <1>2
  <2> QED
    BY <1>1, <2>1, ReadHeaderSwaps DEF Between
<1>7. Saving'
  BY <1>1 DEF Saving
<1> QED
  BY <1>3, <1>4, <1>5, <1>6, <1>7

LEMMA StartUnreadKeeps ==
  ASSUME IInv, StartUnread
  PROVE  IInv'
<1> USE DEF IInv
<1>1. /\ Valid(file) /\ phase' = "idle" /\ UNCHANGED <<file, next>> /\ pos' = 1
      /\ header' = ReadHeader(file) /\ employees' = <<>>
  BY DEF StartUnread, HEADER
<1>2. employees' \in Seq(Record) /\ Len(employees') = 0 /\ \A k \in DOMAIN employees' : FALSE
  BY <1>1, NoTable
<1>3. /\ header' \in HeaderUnit /\ header'.order = "host" /\ header'.count = file[1].count
      /\ file # Absent /\ Len(file) = FileSize(file[1].count) /\ Len(file) \in Nat
  BY <1>1, ReadHeaderSwaps, LoadedFile, LenProperties
<1>4. TypeOK'
  <2>1. Len(employees') < COUNT_MOD /\ pos' \in 0..FileSize(COUNT_MOD - 1)
    BY <1>1, <1>2, Sizes
  <2>2. phase' \in Phase
    BY <1>1 DEF Phase
  <2> QED
    BY <1>1, <1>2, <1>3, <2>1, <2>2 DEF TypeOK
<1>5. InMemory'
  BY <1>1, <1>2, <1>3 DEF InMemory
<1>6. OnDisk'
  BY <1>1, DiskStays
<1>7. Between'
  <2>1. Len(file') <= FileSize(header'.count) /\ file'[1].count = header'.count
    BY <1>1, <1>3
  <2> QED
    BY <1>1, <2>1 DEF Between
<1>8. Saving'
  BY <1>1 DEF Saving
<1> QED
  BY <1>4, <1>5, <1>6, <1>7, <1>8

\* Going down keeps the file and empties the memory.
LEMMA DownKeeps ==
  ASSUME IInv, phase' = "down", header' = NoHeader, employees' = <<>>,
         UNCHANGED <<disk, next>>
  PROVE  IInv'
<1> USE DEF IInv
<1>1. employees' \in Seq(Record) /\ Len(employees') = 0 /\ \A k \in DOMAIN employees' : FALSE
  BY NoTable
<1>2. header' \in HeaderUnit /\ header'.order = "host" /\ header'.count = 0
  BY Sizes DEF NoHeader, HeaderUnit, Order
<1>3. TypeOK'
  <2>1. Len(employees') < COUNT_MOD /\ phase' \in Phase
    BY <1>1, Sizes DEF Phase
  <2> QED
    BY <1>1, <1>2, <2>1 DEF TypeOK, disk
<1>4. InMemory'
  BY <1>1, <1>2 DEF InMemory
<1>5. OnDisk'
  BY DiskStays DEF disk
<1>6. Between' /\ Saving'
  BY DEF Between, Saving
<1> QED
  BY <1>3, <1>4, <1>5, <1>6

LEMMA AddEmployeeKeeps ==
  ASSUME IInv, NEW e \in Employee, AddEmployee(e)
  PROVE  IInv'
<1> USE DEF IInv
<1> DEFINE c == header.count
<1>1. /\ phase = "idle" /\ phase' = "reply" /\ UNCHANGED <<file, pos, next>>
      /\ header' = [header EXCEPT !.count = @ + 1] /\ employees' = Grown(e)
      /\ c + 1 < COUNT_MOD
  BY DEF AddEmployee, Room, disk
<1>2. /\ c \in 0..(COUNT_MOD - 1) /\ c \in Nat /\ COUNT_MOD \in Nat
      /\ header' \in HeaderUnit /\ header'.count = c + 1 /\ header'.order = "host"
  <2>1. header \in HeaderUnit /\ header.order = "host"
    BY <1>1 DEF TypeOK, InMemory
  <2>2. c \in 0..(COUNT_MOD - 1) /\ c \in Nat /\ COUNT_MOD \in Nat
        /\ c + 1 \in 0..(COUNT_MOD - 1)
    BY <1>1, <2>1, Sizes DEF HeaderUnit
  <2> QED
    BY <1>1, <2>1, <2>2 DEF HeaderUnit
<1>3. /\ Grown(e) \in Seq(Record) /\ Len(Grown(e)) = c + 1
      /\ \A k \in 1..(c + 1) : Grown(e)[k].order = "host"
      /\ \A k \in 1..c : Grown(e)[k] = IF k <= Len(employees) THEN employees[k]
                                       ELSE [who |-> Garbage, order |-> "host"]
  <2>1. Len(employees) \in Nat /\ (Len(employees) = c \/ Len(employees) = 0)
        /\ DOMAIN employees = 1..Len(employees)
    BY EmptySeq, LenProperties DEF TypeOK, InMemory
  <2>2. ASSUME NEW k \in 1..(c + 1)
        PROVE  /\ Grown(e)[k] \in Record /\ Grown(e)[k].order = "host"
    <3>1. CASE k = c + 1
      BY <3>1 DEF Grown, Record, Order
    <3>2. CASE k # c + 1 /\ k <= Len(employees)
      <4>1. k \in 1..Len(employees) /\ Grown(e)[k] = employees[k]
        BY <1>2, <2>1, <3>2 DEF Grown
      <4>2. employees \in Seq(Record)
        BY DEF TypeOK
      <4>3. employees[k] \in Record
        BY <4>1, <4>2, ElementOfSeq
      <4>4. employees[k].order = "host"
        BY <2>1, <4>1 DEF InMemory
      <4> QED
        BY <4>1, <4>3, <4>4
    <3>3. CASE k # c + 1 /\ ~ (k <= Len(employees))
      BY <3>3 DEF Grown, Record, Order
    <3> QED
      BY <3>1, <3>2, <3>3
  <2>3. Grown(e) \in [1..(c + 1) -> Record]
    BY <2>2 DEF Grown
  <2>4. Grown(e) \in Seq(Record) /\ Len(Grown(e)) = c + 1
    BY <1>2, <2>3
  <2>5. \A k \in 1..c : k \in 1..(c + 1) /\ k # c + 1
    BY <1>2
  <2> QED
    BY <2>2, <2>4, <2>5 DEF Grown
<1>4. TypeOK'
  BY <1>1, <1>2, <1>3 DEF TypeOK, Phase
<1>5. InMemory'
  <2>1. DOMAIN Grown(e) = 1..(c + 1) /\ Grown(e) # <<>>
    BY <1>2, <1>3, EmptySeq DEF Grown
  <2> QED
    BY <1>1, <1>2, <1>3, <2>1 DEF InMemory
<1>6. OnDisk'
  BY <1>1, DiskStays
<1>7. Between'
  <2>1. header'.count - 1 = c /\ Len(file') <= FileSize(c)
    BY <1>1, <1>2 DEF Between
  <2>2. ASSUME Valid(file), NEW k \in 1..file[1].count
        PROVE  /\ file[1].count = c
               /\ Grown(e)[k] \in {ReadRecord(file, k), [who |-> Garbage, order |-> "host"]}
    <3>1. file[1].count = c /\ employees \in {ReadRecords(file), <<>>}
      BY <1>1, <2>2 DEF Between
    <3>2. CASE employees = ReadRecords(file)
      <4>1. Len(employees) = c /\ employees[k] = ReadRecord(file, k)
        BY <2>2, <3>1, <3>2, LoadedFile
      <4> QED
        BY <1>2, <1>3, <2>2, <3>1, <4>1
    <3>3. CASE employees = <<>>
      BY <1>2, <1>3, <2>2, <3>1, <3>3
    <3> QED
      BY <3>1, <3>2, <3>3
  <2>3. Valid(file) => file[1].count = c
    BY <1>1 DEF Between
  <2> QED
    BY <1>1, <2>1, <2>2, <2>3 DEF Between
<1>8. Saving'
  BY <1>1 DEF Saving
<1> QED
  BY <1>4, <1>5, <1>6, <1>7, <1>8

\* A step between two phases in which memory and disk stay.
LEMMA PhaseKeeps ==
  ASSUME IInv, UNCHANGED <<memory, disk, next>>,
         \/ phase \in {"idle", "reply error"} /\ phase' \in {"idle", "reply error"}
         \/ phase = "reply" /\ phase' = "header"
  PROVE  IInv'
<1> USE DEF IInv, memory, disk
<1>1. TypeOK'
  BY DEF TypeOK, Phase
<1>2. InMemory'
  BY DEF InMemory
<1>3. OnDisk'
  BY DiskStays
<1>4. Between'
  BY DEF Between
<1>5. Saving'
  BY DEF Saving
<1> QED
  BY <1>1, <1>2, <1>3, <1>4, <1>5

-----------------------------------------------------------------------------
(* Each step keeps the invariant: output_file.                             *)

\* What Progress says of the file is what the invariant needs of a save.
LEMMA ProgressKeeps ==
  ASSUME TypeOK', InMemory', phase' = "records", next' <= header'.count + 1,
         Progress(file', header'.count, next', pos', employees')
  PROVE  IInv'
<1> DEFINE c == header'.count
<1>1. /\ file' # Absent /\ file' \in Seq(Unit) /\ pos' \in Nat
      /\ employees' \in Seq(Record) /\ Len(employees') = c /\ employees' # <<>>
  <2>1. COUNT_MOD \in Nat
    BY Sizes
  <2> QED
    BY <2>1, Sizes DEF TypeOK, InMemory, Unit
<1>2. c \in 1..(COUNT_MOD - 1) /\ next' \in 1..(c + 1)
  <2>1. Len(employees') \in Nat /\ Len(employees') # 0 /\ Len(employees') < COUNT_MOD
        /\ next' \in 1..COUNT_MOD
    BY <1>1, EmptySeq, LenProperties DEF TypeOK
  <2> QED
    BY <1>1, <2>1, Sizes
<1>3. /\ file' # <<>> /\ IsHeader(file'[1]) => file'[1] = NetHeader(c)
      /\ Valid(file') => /\ file'[1] = NetHeader(c)
                         /\ \A k \in 1..c : Holds(file', k, employees'[k].who)
  BY <1>1, <1>2, AcceptedWhenComplete
<1>4. NetHeader(c).count = c
  BY DEF NetHeader
<1>5. OnDisk'
  <2>1. \A k \in 1..c : employees'[k].who \in Employee \cup {Garbage}
    <3>1. \A k \in 1..c : employees'[k] \in Record
      BY <1>1, ElementOfSeq
    <3> QED
      BY <3>1 DEF Record
  <2> QED
    BY <1>3, <1>4, <2>1 DEF OnDisk
<1>6. Between'
  BY DEF Between
<1>7. Saving'
  BY DEF Saving, Progress
<1> QED
  BY <1>5, <1>6, <1>7 DEF IInv

\* What is true of a table that is being saved.
LEMMA Counted ==
  ASSUME IInv, phase \in {"reply", "header", "records"}
  PROVE  /\ header.count \in 1..(COUNT_MOD - 1) /\ COUNT_MOD \in Nat
         /\ Len(employees) = header.count /\ employees \in Seq(Record) /\ employees # <<>>
         /\ \A k \in 1..header.count : employees[k] \in Record /\ employees[k].order = "host"
         /\ file \in Seq(Unit) /\ file # Absent /\ Len(file) \in Nat
         /\ DOMAIN employees = 1..header.count
<1>1. /\ employees \in Seq(Record) /\ employees # <<>> /\ Len(employees) = header.count
      /\ file # Absent /\ file \in Seq(Unit)
  BY DEF IInv, TypeOK, InMemory, Unit
<1>2. Len(employees) \in Nat /\ Len(employees) # 0 /\ DOMAIN employees = 1..Len(employees)
  BY <1>1, EmptySeq, LenProperties
<1>3. COUNT_MOD \in Nat /\ header.count \in 1..(COUNT_MOD - 1)
  BY <1>1, <1>2, Sizes DEF IInv, TypeOK
<1>4. Len(file) \in Nat
  BY <1>1, LenProperties
<1>5. \A k \in 1..header.count : employees[k] \in Record /\ employees[k].order = "host"
  BY <1>1, <1>2, ElementOfSeq DEF IInv, InMemory
<1> QED
  BY <1>1, <1>2, <1>3, <1>4, <1>5

LEMMA OutputHeaderKeeps ==
  ASSUME IInv, OutputHeader
  PROVE  IInv'
<1> DEFINE c == header.count
<1>1. /\ phase = "header" /\ phase' = "records" /\ next' = 1 /\ employees' = employees
      /\ WriteAt(0, <<header'>>)
  BY DEF OutputHeader
<1>2. /\ c \in 1..(COUNT_MOD - 1) /\ COUNT_MOD \in Nat /\ Len(employees) = c /\ employees # <<>>
      /\ file \in Seq(Unit) /\ file # Absent /\ Len(file) \in Nat
      /\ Len(file) <= FileSize(c - 1)
  BY <1>1, Counted DEF IInv, Between
<1>3. header' = NetHeader(c) /\ header' \in HeaderUnit /\ header'.count = c
  <2>1. header \in HeaderUnit /\ header.order = "host"
    BY <1>1 DEF IInv, TypeOK, InMemory
  <2>2. header' = NetHeader(c)
    BY <2>1 DEF OutputHeader, HeaderUnit, NetHeader, Swapped
  <2>3. c \in 0..(COUNT_MOD - 1) /\ NetHeader(c).count = c
    BY <1>2 DEF NetHeader
  <2> QED
    BY <2>2, <2>3, Units
<1>4. /\ FileSize(c) = 1 + 2 * c /\ FileSize(c - 1) = 1 + 2 * (c - 1)
      /\ FileSize(COUNT_MOD - 1) = 1 + 2 * (COUNT_MOD - 1) /\ FileSize(0) = 1
  <2>1. c \in Int /\ c - 1 \in Int
    BY <1>2
  <2> QED
    BY <2>1, Units, Sizes
<1>5. <<header'>> \in Seq(Unit) /\ Len(<<header'>>) = 1 /\ <<header'>>[1] = header'
  BY <1>3 DEF Unit
<1>6. PICK n \in 0..1 : /\ n = 1 \/ n >= Len(file)
                        /\ file' = After(0, n, <<header'>>) /\ pos' = n
  <2>1. PICK n \in 0..Len(<<header'>>) :
          /\ n = Len(<<header'>>) \/ 0 + n >= Len(file)
          /\ file' = After(0, n, <<header'>>) /\ pos' = 0 + n
    BY <1>1 DEF WriteAt
  <2>2. n \in 0..1 /\ 0 + n = n
    BY <1>5, <2>1
  <2> QED
    BY <1>5, <2>1, <2>2
<1>7. /\ file' \in Seq(Unit) /\ Len(file') = IF n > Len(file) THEN n ELSE Len(file)
      /\ n = 1 => file'[1] = header'
  <2>1. 0 \in 0..Len(file) /\ n \in 0..Len(<<header'>>)
    BY <1>2, <1>5
  <2>2. /\ After(0, n, <<header'>>) \in Seq(Unit)
        /\ Len(After(0, n, <<header'>>)) = IF 0 + n > Len(file) THEN 0 + n ELSE Len(file)
        /\ \A k \in 1..n : After(0, n, <<header'>>)[0 + k] = <<header'>>[k]
    BY <1>2, <1>5, <2>1, Written
  <2> QED
    BY <1>5, <1>6, <2>2
<1>8. Progress(file', c, 1, pos', employees')
  <2>1. CASE n = 1
    <3>1. pos' = FileSize(1 - 1) /\ file'[1] = NetHeader(c) /\ \A k \in 1..(1 - 1) : FALSE
      BY <1>3, <1>4, <1>6, <1>7, <2>1
    <3>2. pos' <= Len(file') /\ (Len(file') = pos' \/ Len(file') <= FileSize(c - 1))
      BY <1>2, <1>4, <1>6, <1>7, <2>1
    <3> QED
      BY <3>1, <3>2 DEF Progress
  <2>2. CASE n = 0
    <3>1. Len(file') = 0 /\ pos' = 0
      BY <1>2, <1>6, <1>7, <2>2
    <3>2. file' = <<>>
      BY <1>7, <3>1, EmptySeq
    <3>3. pos' < FileSize(1 - 1)
      BY <1>4, <3>1
    <3> QED
      BY <3>1, <3>2, <3>3 DEF Progress
  <2> QED
    BY <1>6, <2>1, <2>2
<1>9. TypeOK'
  <2>1. Len(file') <= FileSize(COUNT_MOD - 1) /\ pos' \in 0..FileSize(COUNT_MOD - 1)
    BY <1>2, <1>4, <1>6, <1>7
  <2>2. phase' \in Phase /\ next' \in 1..COUNT_MOD
    BY <1>1, <1>2 DEF Phase
  <2> QED
    BY <1>1, <1>3, <1>7, <2>1, <2>2 DEF IInv, TypeOK, Unit
<1>10. InMemory'
  <2>1. file' # Absent
    BY <1>7, AbsenceAssumption DEF Unit
  <2> QED
    BY <1>1, <1>2, <1>3, <2>1 DEF IInv, InMemory
<1> QED
  BY <1>1, <1>2, <1>3, <1>8, <1>9, <1>10, ProgressKeeps

LEMMA OutputRecordKeeps ==
  ASSUME IInv, OutputRecord
  PROVE  IInv'
<1> DEFINE c == header.count
           r == employees[next]
           units == Halves([r EXCEPT !.order = Swapped(@)])
<1>1. /\ phase = "records" /\ next' = next + 1 /\ UNCHANGED <<phase, header, employees>>
      /\ next <= c /\ WriteAt(pos, units)
  BY Counted, Sizes DEF OutputRecord, AllWritten, memory, IInv, TypeOK
<1>2. /\ c \in 1..(COUNT_MOD - 1) /\ COUNT_MOD \in Nat /\ Len(employees) = c
      /\ file \in Seq(Unit) /\ Len(file) \in Nat /\ next \in Nat /\ next >= 1
      /\ r \in Record /\ r.order = "host"
  <2>1. next \in 1..COUNT_MOD /\ COUNT_MOD \in Nat
    BY Sizes DEF IInv, TypeOK
  <2>2. next \in 1..c
    BY <1>1, <2>1, Counted
  <2> QED
    BY <1>1, <2>1, <2>2, Counted
<1>3. /\ units \in Seq(Unit) /\ Len(units) = 2
      /\ units[1] = [who |-> r.who, half |-> 1, order |-> "net"]
      /\ units[2] = [who |-> r.who, half |-> 2, order |-> "net"]
      /\ units[1] \in HalfUnit
  <2>1. units \in Seq(HalfUnit) /\ Len(units) = 2
        /\ units[1] = [who |-> r.who, half |-> 1, order |-> "net"]
        /\ units[2] = [who |-> r.who, half |-> 2, order |-> "net"]
    BY <1>2, HalvesOf
  <2>2. units \in Seq(Unit)
    BY <2>1, SeqMonotonic DEF Unit
  <2>3. 1 \in 1..Len(units)
    BY <2>1
  <2> QED
    BY <2>1, <2>2, <2>3, ElementOfSeq
<1>4. /\ pos \in 0..Len(file) /\ pos \in Nat
      /\ Len(file) = pos \/ Len(file) <= FileSize(c - 1)
  BY <1>1, <1>2, Sizes DEF IInv, Saving, TypeOK
<1>5. PICK n \in 0..2 : /\ n = 2 \/ pos + n >= Len(file)
                        /\ file' = After(pos, n, units) /\ pos' = pos + n
  <2> HIDE DEF units
  <2> QED
    BY <1>1, <1>3 DEF WriteAt
<1>6. /\ file' \in Seq(Unit) /\ Len(file') = IF pos + n > Len(file) THEN pos + n ELSE Len(file)
      /\ \A k \in 1..pos : file'[k] = file[k]
      /\ \A k \in 1..n : file'[pos + k] = units[k]
  <2> HIDE DEF units
  <2>1. n \in 0..Len(units)
    BY <1>3
  <2> QED
    BY <1>2, <1>3, <1>4, <1>5, <2>1, Written
<1>7. /\ FileSize(c) = 1 + 2 * c /\ FileSize(c - 1) = 1 + 2 * (c - 1)
      /\ FileSize(next - 1) = 1 + 2 * (next - 1) /\ FileSize((next + 1) - 1) = 1 + 2 * next
      /\ FileSize(COUNT_MOD - 1) = 1 + 2 * (COUNT_MOD - 1)
  <2>1. c \in Int /\ c - 1 \in Int /\ next - 1 \in Int /\ (next + 1) - 1 \in Int
        /\ (next + 1) - 1 = next /\ COUNT_MOD - 1 \in Int
    BY <1>2
  <2> QED
    BY <2>1, Units
<1>8. /\ pos' \in Nat /\ pos' <= Len(file')
      /\ Len(file') = pos' \/ Len(file') <= FileSize(c - 1)
  BY <1>2, <1>4, <1>5, <1>6
<1> HIDE DEF units
<1>9. Progress(file', c, next + 1, pos', employees)
  <2>1. CASE /\ pos = FileSize(next - 1) /\ file[1] = NetHeader(c)
             /\ \A k \in 1..(next - 1) : Holds(file, k, employees[k].who)
    <3>1. file'[1] = NetHeader(c) /\ pos = 1 + 2 * (next - 1)
      <4>1. pos = 1 + 2 * (next - 1)
        BY <1>7, <2>1
      <4>2. 1 \in 1..pos
        BY <1>2, <4>1
      <4> QED
        BY <1>6, <2>1, <4>1, <4>2
    <3>2. CASE n = 2
      <4>1. pos' = FileSize((next + 1) - 1)
        BY <1>2, <1>5, <1>7, <2>1, <3>2
      <4>2. ASSUME NEW k \in 1..((next + 1) - 1)
            PROVE  Holds(file', k, employees[k].who)
        <5>1. CASE k = next
          <6>1. pos + 1 = 2 * k /\ pos + 2 = 2 * k + 1 /\ 1 \in 1..n /\ 2 \in 1..n
                /\ k \in Nat \ {0}
            BY <1>2, <3>1, <3>2, <5>1
          <6>2. file'[2 * k] = units[1] /\ file'[2 * k + 1] = units[2]
            BY <1>6, <6>1
          <6> QED
            BY <1>3, <5>1, <6>1, <6>2, HoldsBoth
        <5>2. CASE k # next
          <6>1. k \in 1..(next - 1) /\ 2 * k \in 1..pos /\ 2 * k + 1 \in 1..pos
                /\ k \in Nat \ {0}
            BY <1>2, <3>1, <5>2
          <6>2. file'[2 * k] = file[2 * k] /\ file'[2 * k + 1] = file[2 * k + 1]
            BY <1>6, <6>1
          <6>3. Holds(file, k, employees[k].who)
            BY <2>1, <6>1
          <6>4. /\ file[2 * k] = [who |-> employees[k].who, half |-> 1, order |-> "net"]
                /\ file[2 * k + 1] = [who |-> employees[k].who, half |-> 2, order |-> "net"]
            BY <6>1, <6>3, HoldsBoth
          <6> QED
            BY <6>1, <6>2, <6>4, HoldsBoth
        <5> QED
          BY <5>1, <5>2
      <4> QED
        BY <1>8, <3>1, <4>1, <4>2 DEF Progress
    <3>3. CASE n # 2
      <4>1. pos' = Len(file')
        BY <1>2, <1>4, <1>5, <1>6, <3>3
      <4>2. pos' < 1 + 2 * next
        BY <1>2, <1>5, <3>1, <3>3
      <4> QED
        BY <1>7, <1>8, <3>1, <4>1, <4>2 DEF Progress
    <3> QED
      BY <3>2, <3>3
  <2>2. CASE /\ pos = Len(file) /\ pos < FileSize(next - 1)
             /\ file # <<>> /\ IsHeader(file[1]) => file[1] = NetHeader(c)
    <3>1. pos' = Len(file') /\ pos' < FileSize((next + 1) - 1)
      <4>1. pos' = pos + n /\ pos \in Nat /\ n \in 0..2 /\ next \in Nat
        BY <1>2, <1>4, <1>5
      <4>2. Len(file') = pos + n
        BY <1>6, <2>2, <4>1
      <4>3. pos < 1 + 2 * (next - 1)
        BY <1>7, <2>2
      <4>4. pos + n < 1 + 2 * next
        BY ONLY <4>1, <4>3
      <4> QED
        BY <1>7, <4>1, <4>2, <4>4
    <3>2. file' # <<>> /\ IsHeader(file'[1]) => file'[1] = NetHeader(c)
      <4>1. CASE pos >= 1
        <5>1. 1 \in 1..pos /\ file # <<>>
          BY <1>4, <2>2, <4>1, EmptySeq
        <5> QED
          BY <1>6, <2>2, <5>1
      <4>2. CASE pos = 0 /\ n >= 1
        <5>1. 1 \in 1..n /\ pos + 1 = 1
          BY <4>2
        <5>2. file'[1] = units[1]
          BY <1>6, <5>1
        <5> QED
          BY <1>3, <5>2, Units
      <4>3. CASE pos = 0 /\ n = 0
        <5>1. Len(file') = 0
          BY <1>2, <1>6, <2>2, <4>3
        <5> QED
          BY <1>6, <5>1, EmptySeq
      <4> QED
        BY <1>4, <1>5, <4>1, <4>2, <4>3
    <3> QED
      BY <1>8, <3>1, <3>2 DEF Progress
  <2> QED
    BY <1>1, <2>1, <2>2 DEF IInv, Saving
<1>10. TypeOK'
  <2>1. pos' <= FileSize(next) /\ FileSize(next) = 1 + 2 * next
    <3>1. pos = FileSize(next - 1) \/ pos < FileSize(next - 1)
      BY <1>1 DEF IInv, Saving
    <3>2. pos <= 1 + 2 * (next - 1)
      BY <1>2, <1>4, <1>7, <3>1
    <3>3. FileSize(next) = 1 + 2 * next
      BY <1>2, Units
    <3> QED
      BY <1>2, <1>4, <1>5, <3>2, <3>3
  <2>2. Len(file') <= FileSize(COUNT_MOD - 1) /\ pos' \in 0..FileSize(COUNT_MOD - 1)
    <3>1. next <= c /\ c <= COUNT_MOD - 1 /\ next \in Nat /\ c \in Nat /\ COUNT_MOD \in Nat
      BY <1>1, <1>2
    <3>2. 1 + 2 * next <= FileSize(COUNT_MOD - 1) /\ FileSize(c - 1) <= FileSize(COUNT_MOD - 1)
          /\ FileSize(COUNT_MOD - 1) \in Nat /\ FileSize(c - 1) \in Int
      BY ONLY <1>7, <3>1
    <3>3. pos' <= FileSize(COUNT_MOD - 1) /\ pos' \in Nat
      BY ONLY <1>8, <2>1, <3>1, <3>2
    <3>4. Len(file') <= FileSize(COUNT_MOD - 1)
      BY ONLY <1>8, <3>2, <3>3
    <3> QED
      BY ONLY <3>2, <3>3, <3>4
  <2>3. next' \in 1..COUNT_MOD
    BY <1>1, <1>2
  <2> QED
    BY <1>1, <1>6, <2>2, <2>3 DEF IInv, TypeOK, Unit
<1>11. InMemory'
  <2>1. file' # Absent
    BY <1>6, AbsenceAssumption DEF Unit
  <2> QED
    BY <1>1, <2>1 DEF IInv, InMemory
<1>12. next' <= c + 1
  BY <1>1, <1>2
<1> QED
  BY <1>1, <1>9, <1>10, <1>11, <1>12, ProgressKeeps

LEMMA OutputEndKeeps ==
  ASSUME IInv, OutputEnd
  PROVE  IInv'
<1> DEFINE c == header.count
<1>1. /\ phase = "records" /\ phase' = "idle" /\ UNCHANGED <<employees, file, pos, next>>
      /\ next > c
  BY DEF OutputEnd, AllWritten, disk
<1>2. /\ c \in 1..(COUNT_MOD - 1) /\ COUNT_MOD \in Nat /\ Len(employees) = c
      /\ file \in Seq(Unit) /\ Len(file) \in Nat /\ file # Absent
      /\ employees \in Seq(Record) /\ DOMAIN employees = 1..c
      /\ \A k \in 1..c : employees[k] \in Record /\ employees[k].order = "host"
  BY <1>1, Counted
<1>3. /\ header' \in HeaderUnit /\ header'.count = c /\ header'.order = "host"
  <2>1. header \in HeaderUnit /\ header.order = "net"
    BY <1>1 DEF IInv, TypeOK, InMemory, NetHeader
  <2>2. FileSize(c) \in 0..FileSize(COUNT_MOD - 1)
    <3>1. c \in Int
      BY <1>2
    <3>2. FileSize(c) = 1 + 2 * c
      BY <3>1, Units
    <3> QED
      BY <1>2, <3>1, <3>2, Sizes
  <2> QED
    BY <2>1, <2>2 DEF OutputEnd, Restored, Swapped, HeaderUnit, Order
<1>4. next = c + 1 /\ Progress(file, c, next, pos, employees) /\ pos \in Nat
  BY <1>1, <1>2, Sizes DEF IInv, Saving, Progress, TypeOK
<1>5. TypeOK'
  BY <1>1, <1>3 DEF IInv, TypeOK, Phase
<1>6. InMemory'
  BY <1>1, <1>2, <1>3 DEF InMemory
<1>7. OnDisk'
  BY <1>1, DiskStays DEF IInv
<1>8. Between'
  <2>1. Len(file) <= FileSize(c)
    <3>1. c \in Int /\ c - 1 \in Int /\ next - 1 = c
      BY <1>2, <1>4
    <3>2. FileSize(c) = 1 + 2 * c /\ FileSize(c - 1) = 1 + 2 * (c - 1)
      BY <3>1, Units
    <3>3. pos <= FileSize(c)
      BY <1>2, <1>4, <3>1, <3>2 DEF Progress
    <3> QED
      BY <1>2, <1>4, <3>2, <3>3 DEF Progress
  <2>2. ASSUME Valid(file)
        PROVE  file[1].count = c /\ employees = ReadRecords(file)
    <3>1. next \in 1..(c + 1)
      BY <1>2, <1>4
    <3>2. file[1] = NetHeader(c) /\ \A k \in 1..c : Holds(file, k, employees[k].who)
      BY <1>2, <1>4, <2>2, <3>1, AcceptedWhenComplete
    <3> QED
      BY <1>2, <3>2, CompleteReads
  <2> QED
    BY <1>1, <1>3, <2>1, <2>2 DEF Between
<1>9. Saving'
  BY <1>1 DEF Saving
<1> QED
  BY <1>5, <1>6, <1>7, <1>8, <1>9 DEF IInv

-----------------------------------------------------------------------------
(* The invariant, and what follows from it.                                *)

LEMMA Initially == Init => IInv
<1> SUFFICES ASSUME Init PROVE IInv
  OBVIOUS
<1>1. phase = "down" /\ header = NoHeader /\ employees = <<>> /\ file = Absent
      /\ pos = 0 /\ next = 1
  BY DEF Init
<1>2. employees \in Seq(Record) /\ Len(employees) = 0 /\ \A k \in DOMAIN employees : FALSE
  BY <1>1, NoTable
<1>3. header \in HeaderUnit /\ header.order = "host" /\ header.count = 0
  BY <1>1, Sizes DEF NoHeader, HeaderUnit, Order
<1>4. TypeOK
  <2>1. Len(employees) < COUNT_MOD /\ phase \in Phase /\ next \in 1..COUNT_MOD
    BY <1>1, <1>2, Sizes DEF Phase
  <2> QED
    BY <1>1, <1>2, <1>3, <2>1, Sizes DEF TypeOK
<1>5. InMemory
  BY <1>1, <1>2, <1>3 DEF InMemory
<1>6. OnDisk /\ Between /\ Saving
  BY <1>1 DEF OnDisk, Between, Saving
<1> QED
  BY <1>4, <1>5, <1>6 DEF IInv

LEMMA Preserved == IInv /\ [Next]_vars => IInv'
<1> SUFFICES ASSUME IInv, [Next]_vars PROVE IInv'
  OBVIOUS
<1>1. CASE StartNew \/ StartOpen \/ StartUnread
  BY <1>1, StartNewKeeps, StartOpenKeeps, StartUnreadKeeps
<1>2. CASE \E e \in Employee : AddEmployee(e)
  BY <1>2, AddEmployeeKeeps
<1>3. CASE AddWraps \/ Crash
  BY <1>3, DownKeeps DEF AddWraps, Crash
<1>4. CASE AddRejected \/ ReplyError \/ ReplyAdd
  BY <1>4, PhaseKeeps DEF AddRejected, ReplyError, ReplyAdd, AfterReply
<1>5. CASE OutputHeader \/ OutputRecord \/ OutputEnd
  BY <1>5, OutputHeaderKeeps, OutputRecordKeeps, OutputEndKeeps
<1>6. CASE UNCHANGED vars
  <2>1. UNCHANGED <<phase, header, employees, file, pos, next>>
    BY <1>6 DEF vars, memory, disk
  <2>2. TypeOK' /\ InMemory' /\ OnDisk' /\ Between' /\ Saving'
    BY <2>1 DEF IInv, TypeOK, InMemory, OnDisk, Between, Saving
  <2> QED
    BY <2>2 DEF IInv
<1> QED
  BY <1>1, <1>2, <1>3, <1>4, <1>5, <1>6 DEF Next

\* The invariant is inductive, so that it holds in every state.
THEOREM Inductive == Spec => []IInv
BY Initially, Preserved, PTL DEF Spec

\* Every number kept of the file and of the table stays within the width of the count
\* (parse.c:25-48): sizes, offsets and the count itself.
THEOREM TypeCorrect == Spec => []TypeOK
<1>1. IInv => TypeOK
  BY DEF IInv
<1> QED
  BY <1>1, Inductive, PTL

\* While the server waits and replies, the header and the table describe each other in
\* host order, whatever output_file has swapped and whichever of its writes failed.
THEOREM HeaderAlwaysDescribes == Spec => []HeaderDescribesTable
<1>1. IInv => HeaderDescribesTable
  BY DEF IInv, InMemory, HeaderDescribesTable
<1> QED
  BY <1>1, Inductive, PTL

\* The names in a table in host order are the names.
LEMMA NamesOf ==
  ASSUME NEW table \in Seq(Record), \A k \in 1..Len(table) : table[k].order = "host"
  PROVE  /\ Names(table) \in Seq(Name) /\ Len(Names(table)) = Len(table)
         /\ DOMAIN Names(table) = 1..Len(table)
         /\ \A k \in 1..Len(table) : Names(table)[k] = table[k].who
<1>1. Len(table) \in Nat /\ DOMAIN table = 1..Len(table)
  BY LenProperties
<1>2. \A k \in 1..Len(table) : table[k].who \in Name
  <2>1. \A k \in 1..Len(table) : table[k] \in Record
    BY ElementOfSeq
  <2> QED
    BY <2>1 DEF Record, Name
<1>3. Names(table) = [k \in 1..Len(table) |-> table[k].who]
  BY <1>1 DEF Names
<1>4. Names(table) \in [1..Len(table) -> Name]
  BY <1>2, <1>3
<1>5. Names(table) \in Seq(Name) /\ DOMAIN Names(table) = 1..Len(table)
  BY <1>1, <1>4, SeqDef
<1>6. Len(Names(table)) \in Nat /\ 1..Len(Names(table)) = 1..Len(table)
  BY <1>5, LenProperties
<1>7. Len(Names(table)) = Len(table)
  BY <1>1, <1>6
<1> QED
  BY <1>3, <1>5, <1>7

\* What a start would load, if it starts at all.
LEMMA StoredWhenValid ==
  ASSUME IInv, Valid(file)
  PROVE  /\ Stored = Names(ReadRecords(file)) /\ Stored \notin {Absent, Torn}
         /\ Stored \in Seq(Name) /\ Len(Stored) = file[1].count
         /\ DOMAIN Stored = 1..file[1].count
         /\ \A k \in 1..file[1].count : Stored[k] = ReadRecord(file, k).who
<1>1. /\ file # Absent /\ ReadRecords(file) \in Seq(Record)
      /\ Len(ReadRecords(file)) = file[1].count
      /\ \A k \in 1..file[1].count : /\ ReadRecords(file)[k] = ReadRecord(file, k)
                                     /\ ReadRecord(file, k).order = "host"
  BY LoadedFile DEF IInv
<1>2. Stored = Names(ReadRecords(file))
  BY <1>1 DEF Stored
<1>3. /\ Stored \in Seq(Name) /\ Len(Stored) = file[1].count
      /\ DOMAIN Stored = 1..file[1].count
      /\ \A k \in 1..file[1].count : Stored[k] = ReadRecord(file, k).who
  BY <1>1, <1>2, NamesOf
<1>4. Stored \notin {Absent, Torn}
  BY <1>3, AbsenceAssumption DEF Name
<1> QED
  BY <1>2, <1>3, <1>4

LEMMA StoredOtherwise ==
  ~ Valid(file) => Stored = IF file = Absent THEN Absent ELSE Torn
BY DEF Stored

\* The server's table, by name.
LEMMA TableNames ==
  ASSUME IInv
  PROVE  /\ Table \in Seq(Name) /\ Len(Table) = Len(employees)
         /\ \A k \in 1..Len(employees) : Table[k] = employees[k].who
<1>1. employees \in Seq(Record) /\ DOMAIN employees = 1..Len(employees)
  BY LenProperties DEF IInv, TypeOK
<1>2. \A k \in 1..Len(employees) : employees[k].order = "host"
  BY <1>1 DEF IInv, InMemory
<1> QED
  BY <1>1, <1>2, NamesOf DEF Table

\* While the records are written, an accepted file is the table.
LEMMA AcceptedIsTable ==
  ASSUME IInv, phase = "records", Valid(file)
  PROVE  next = header.count + 1 /\ file[1].count = header.count /\ ReadRecords(file) = employees
<1>1. Progress(file, header.count, next, pos, employees) /\ pos \in Nat
      /\ next <= header.count + 1 /\ next \in Nat /\ next >= 1
  BY Sizes DEF IInv, Saving, Progress, TypeOK
<1>2. header.count \in 1..(COUNT_MOD - 1) /\ file \in Seq(Unit) /\ COUNT_MOD \in Nat
  BY Counted
<1>3. next \in 1..(header.count + 1)
  BY <1>1, <1>2
<1>4. next = header.count + 1 /\ file[1] = NetHeader(header.count)
      /\ \A k \in 1..header.count : Holds(file, k, employees[k].who)
  BY <1>1, <1>2, <1>3, AcceptedWhenComplete
<1>5. /\ header.count \in Nat /\ employees \in Seq(Record) /\ Len(employees) = header.count
      /\ \A k \in 1..header.count : employees[k].order = "host"
  BY <1>2, Counted
<1>6. file[1].count = header.count /\ ReadRecords(file) = employees
  BY <1>4, <1>5, CompleteReads
<1> QED
  BY <1>4, <1>6

\* An accepted file holds the server's table or that table without its last employee,
\* whatever write the server dies at and however many a full disk cut short: no accepted
\* file is older than that, has a hole or a torn record (parse.c:145-178).
THEOREM LosesAtMostAlways == Spec => []LosesAtMostTheLastAdd
<1>1. IInv => LosesAtMostTheLastAdd
  <2> SUFFICES ASSUME IInv, phase # "down", header.count = Len(employees),
                      Stored \notin {Absent, Torn}
               PROVE  /\ Len(Stored) \in {Len(Table) - 1, Len(Table)}
                      /\ \A k \in DOMAIN Stored : Table[k] \in {Stored[k], Garbage}
    BY DEF LosesAtMostTheLastAdd
  <2> DEFINE c == header.count
  <2>1. Valid(file)
    BY StoredOtherwise
  <2>2. /\ Len(Table) = c /\ c \in Nat /\ \A k \in 1..c : Table[k] = employees[k].who
        /\ Len(Stored) = file[1].count /\ DOMAIN Stored = 1..file[1].count
        /\ \A k \in 1..file[1].count : Stored[k] = ReadRecord(file, k).who
    BY <2>1, TableNames, StoredWhenValid, LenProperties
  <2>3. CASE phase = "records"
    <3>1. file[1].count = c /\ ReadRecords(file) = employees
      BY <2>1, <2>3, AcceptedIsTable
    <3>2. Stored = Table
      BY <2>1, <3>1, StoredWhenValid DEF Table
    <3> QED
      BY <2>2, <3>1, <3>2
  <2>4. CASE phase \in {"reply", "header"}
    <3>1. file[1].count = c - 1
      BY <2>1, <2>4 DEF IInv, Between
    <3>2. ASSUME NEW k \in 1..(c - 1)
          PROVE  Table[k] \in {Stored[k], Garbage}
      <4>1. k \in 1..c /\ k \in 1..file[1].count
        BY <2>2, <3>1
      <4>2. employees[k] \in {ReadRecord(file, k), [who |-> Garbage, order |-> "host"]}
        BY <2>1, <2>4, <4>1 DEF IInv, Between
      <4> QED
        BY <2>2, <4>1, <4>2
    <3> QED
      BY <2>2, <3>1, <3>2
  <2>5. CASE phase \in {"idle", "reply error"}
    <3>1. file[1].count = c /\ employees \in {ReadRecords(file), <<>>}
      BY <2>1, <2>5 DEF IInv, Between
    <3>2. CASE employees = ReadRecords(file)
      <4>1. Stored = Table
        BY <2>1, <3>2, StoredWhenValid DEF Table
      <4> QED
        BY <2>2, <3>1, <4>1
    <3>3. CASE employees = <<>>
      <4>1. c = 0
        BY <3>3, NoTable
      <4> QED
        BY <2>2, <3>1, <4>1
    <3> QED
      BY <3>1, <3>2, <3>3
  <2> QED
    BY <2>3, <2>4, <2>5 DEF IInv, TypeOK, Phase
<1> QED
  BY <1>1, Inductive, PTL

\* A save none of whose writes was cut short leaves the table in the file, whatever
\* earlier saves left there (parse.c:156-172).
THEOREM WholeSavesRepair == Spec => []WholeSaveRepairs
<1>1. ASSUME IInv, phase = "records", AllWritten, pos = FileSize(header.count)
      PROVE  Stored = Table
  <2>1. /\ Progress(file, header.count, next, pos, employees) /\ pos \in Nat
        /\ next <= header.count + 1 /\ next \in Nat /\ next >= 1
    BY <1>1, Sizes DEF IInv, Saving, Progress, TypeOK
  <2>2. header.count \in 1..(COUNT_MOD - 1) /\ file \in Seq(Unit) /\ COUNT_MOD \in Nat
    BY <1>1, Counted
  <2>3. next = header.count + 1 /\ next \in 1..(header.count + 1)
    BY <1>1, <2>1, <2>2 DEF AllWritten
  <2>4. Valid(file)
    BY <1>1, <2>1, <2>2, <2>3, AcceptedWhenComplete
  <2>5. ReadRecords(file) = employees
    BY <1>1, <2>4, AcceptedIsTable
  <2> QED
    BY <1>1, <2>4, <2>5, StoredWhenValid DEF Table
<1> QED
  BY <1>1, Inductive, PTL DEF WholeSaveRepairs

-----------------------------------------------------------------------------
(* The store is a durable table.                                           *)

Unread == IF phase = "down" THEN 0 ELSE header.count - Len(employees)

\* Only writes change what a start would find.
LEMMA StoredStays ==
  ASSUME UNCHANGED file
  PROVE  Stored' = Stored
BY DEF Stored

LEMMA TableStays ==
  ASSUME UNCHANGED employees
  PROVE  Table' = Table
BY DEF Table

\* No table has no names.
LEMMA NamesOfNone == Names(<<>>) = <<>>
<1>1. <<>> \in Seq(Record) /\ Len(<<>>) = 0 /\ \A k \in 1..0 : FALSE
  BY NoTable
<1>2. Names(<<>>) \in Seq(Name) /\ Len(Names(<<>>)) = 0
  BY <1>1, NamesOf
<1> QED
  BY <1>2, EmptySeq

LEMMA Unsaved ==
  ASSUME IInv
  PROVE  /\ phase \in {"reply", "header", "records"} => Unread = 0
         /\ header.count \in Nat /\ Len(employees) \in Nat
         /\ header.count = Len(employees) \/ employees = <<>>
<1>1. header.count \in Nat /\ Len(employees) \in Nat
  BY LenProperties DEF IInv, TypeOK, HeaderUnit
<1>2. phase \in {"reply", "header", "records"} => employees # <<>>
  BY DEF IInv, InMemory
<1>3. header.count = Len(employees) \/ employees = <<>>
  BY DEF IInv, InMemory
<1>4. header.count = Len(employees) => header.count - Len(employees) = 0
  BY <1>1
<1>5. phase \in {"reply", "header", "records"} => Unread = 0
  BY <1>2, <1>3, <1>4 DEF Unread
<1> QED
  BY <1>1, <1>3, <1>5

LEMMA StartNewCreates ==
  ASSUME IInv, StartNew
  PROVE  Durable!Next
<1>1. phase = "down" /\ phase' = "idle" /\ file = Absent /\ file' = <<>>
      /\ employees' = employees /\ employees = <<>> /\ header'.count = 0
  BY DEF StartNew, MayCreate, IInv, InMemory, NoHeader
<1>2. Stored = Absent
  BY <1>1 DEF Stored
<1>3. Stored' = Torn
  <2>1. file' \in Seq(Unit) /\ Len(file') = 0
    BY <1>1, NoTable
  <2>2. file' # Absent /\ ~ Valid(file')
    <3>1. file' # Absent
      BY <2>1, AbsenceAssumption DEF Unit
    <3>2. ~ (Len(file') >= HEADER)
      BY <2>1 DEF HEADER
    <3> QED
      BY <3>1, <3>2 DEF Valid
  <2> QED
    BY <2>2 DEF Stored
<1>4. Unread = 0 /\ Unread' = 0
  <2>1. Len(employees') = 0
    BY <1>1, NoTable
  <2>2. header'.count = 0
    BY <1>1
  <2>3. header'.count - Len(employees') = 0
    BY ONLY <2>1, <2>2
  <2> QED
    BY <1>1, <2>3 DEF Unread
<1>5. Table' = Table
  BY <1>1, TableStays
<1>6. Durable!Create
  BY <1>1, <1>2, <1>3, <1>4, <1>5 DEF Durable!Create, Unread
<1> QED
  BY <1>6 DEF Durable!Next

LEMMA StartOpens ==
  ASSUME IInv, StartOpen \/ StartUnread
  PROVE  Durable!Next
<1>1. /\ phase = "down" /\ phase' = "idle" /\ Valid(file) /\ file' = file
      /\ header' = ReadHeader(file)
      /\ employees' = ReadRecords(file) \/ employees' = <<>>
  BY DEF StartOpen, StartUnread
<1>2. Stored' = Stored /\ Stored \notin {Absent, Torn} /\ Len(Stored) = file[1].count
      /\ Stored = Names(ReadRecords(file))
  BY <1>1, StoredStays, StoredWhenValid
<1>3. header'.count = file[1].count /\ file[1].count \in Nat
  BY <1>1, ReadHeaderSwaps, LoadedFile DEF IInv
<1>4. CASE employees' = ReadRecords(file)
  <2>1. Table' = Stored
    BY <1>2, <1>4 DEF Table
  <2>2. Unread' = 0
    <3>1. Len(employees') = file[1].count
      BY <1>1, <1>4, LoadedFile DEF IInv
    <3> QED
      BY <1>1, <1>3, <3>1 DEF Unread
  <2>3. Durable!Open
    BY <1>1, <1>2, <2>1, <2>2 DEF Durable!Open, Unread
  <2> QED
    BY <2>3 DEF Durable!Next
<1>5. CASE employees' = <<>>
  <2>1. Table' = <<>>
    BY <1>5, NamesOfNone DEF Table
  <2>2. Unread' = Len(Stored)
    <3>1. Len(employees') = 0
      BY <1>5, NoTable
    <3> QED
      BY <1>1, <1>2, <1>3, <3>1 DEF Unread
  <2>3. Durable!Open
    BY <1>1, <1>2, <2>1, <2>2 DEF Durable!Open, Unread
  <2> QED
    BY <2>3 DEF Durable!Next
<1> QED
  BY <1>1, <1>4, <1>5

LEMMA AddAdds ==
  ASSUME IInv, NEW e \in Employee, AddEmployee(e)
  PROVE  Durable!Next
<1> DEFINE c == header.count
           gap == [k \in 1..Unread |-> Garbage]
<1>1. /\ phase = "idle" /\ phase' = "reply" /\ UNCHANGED file
      /\ header'.count = c + 1 /\ employees' = Grown(e) /\ c + 1 < COUNT_MOD
      /\ COUNT_MOD \in Nat
  <2>1. header \in HeaderUnit
    BY DEF IInv, TypeOK
  <2> QED
    BY <2>1, Sizes DEF AddEmployee, Room, disk, HeaderUnit
<1>2. /\ c \in Nat /\ Len(employees) \in Nat /\ Unread = c - Len(employees) /\ Unread \in Nat
      /\ Table \in Seq(Name) /\ Len(Table) = Len(employees)
      /\ c = Len(employees) \/ Len(employees) = 0
  BY <1>1, Unsaved, TableNames, NoTable DEF Unread
<1>3. Len(Grown(e)) = c + 1 /\ Table' \in Seq(Name) /\ Len(Table') = c + 1
      /\ \A k \in 1..(c + 1) : Table'[k] = Grown(e)[k].who
  <2>1. IInv'
    BY AddEmployeeKeeps
  <2>2. employees' \in Seq(Record) /\ Len(employees') = c + 1
        /\ \A k \in 1..Len(employees') : employees'[k].order = "host"
    <3>1. /\ employees' \in Seq(Record) /\ Len(employees') = header'.count
      BY <1>1, <2>1 DEF IInv, TypeOK, InMemory
    <3>2. DOMAIN employees' = 1..Len(employees')
      BY <3>1, LenProperties
    <3> QED
      BY <1>1, <2>1, <3>1, <3>2 DEF IInv, InMemory
  <2> QED
    BY <1>1, <2>2, NamesOf DEF Table
<1>4. gap \in Seq(Name) /\ Len(gap) = Unread /\ \A k \in 1..Unread : gap[k] = Garbage
  <2>1. gap \in [1..Unread -> Name]
    BY DEF Name
  <2>2. gap \in Seq(Name) /\ DOMAIN gap = 1..Unread
    BY <1>2, <2>1, SeqDef
  <2>3. Len(gap) \in Nat /\ 1..Len(gap) = 1..Unread
    BY <2>2, LenProperties
  <2> QED
    BY <1>2, <2>2, <2>3
<1>5. e \in Name /\ /\ Append(Table, e) \in Seq(Name)
                    /\ Len(Append(Table, e)) = Len(employees) + 1
                    /\ Append(Table, e)[Len(employees) + 1] = e
                    /\ \A k \in 1..Len(employees) : Append(Table, e)[k] = Table[k]
  <2>1. e \in Name
    BY DEF Name
  <2> QED
    BY <1>2, <2>1, AppendProperties
<1> HIDE DEF gap
<1>6. Table' = gap \o Append(Table, e)
  <2>1. /\ gap \o Append(Table, e) \in Seq(Name)
        /\ Len(gap \o Append(Table, e)) = Unread + (Len(employees) + 1)
        /\ \A k \in 1..(Unread + (Len(employees) + 1)) :
             (gap \o Append(Table, e))[k] = IF k <= Unread THEN gap[k]
                                            ELSE Append(Table, e)[k - Unread]
    <3>1. /\ gap \o Append(Table, e) \in Seq(Name)
          /\ Len(gap \o Append(Table, e)) = Len(gap) + Len(Append(Table, e))
          /\ \A k \in 1..(Len(gap) + Len(Append(Table, e))) :
               (gap \o Append(Table, e))[k] = IF k <= Len(gap) THEN gap[k]
                                              ELSE Append(Table, e)[k - Len(gap)]
      BY <1>4, <1>5, ConcatProperties
    <3> QED
      BY <1>4, <1>5, <3>1
  <2>2. Unread + (Len(employees) + 1) = c + 1
    BY <1>2
  <2>3. ASSUME NEW k \in 1..(c + 1)
        PROVE  Table'[k] = (gap \o Append(Table, e))[k]
    <3>1. CASE k = c + 1
      <4>1. Grown(e)[k].who = e
        BY <3>1 DEF Grown
      <4>2. ~ (k <= Unread) /\ k - Unread = Len(employees) + 1
        BY <1>2, <3>1
      <4> QED
        BY <1>3, <1>5, <2>1, <2>2, <4>1, <4>2
    <3>2. CASE k # c + 1 /\ k <= Len(employees)
      <4>1. Unread = 0 /\ ~ (k <= Unread) /\ k - Unread = k /\ k \in 1..Len(employees)
        BY <1>2, <3>2
      <4>2. Grown(e)[k] = employees[k]
        BY <3>2 DEF Grown
      <4>3. Table[k] = employees[k].who
        BY <4>1, TableNames
      <4> QED
        BY <1>3, <1>5, <2>1, <2>2, <4>1, <4>2, <4>3
    <3>3. CASE k # c + 1 /\ ~ (k <= Len(employees))
      <4>1. k <= Unread /\ k \in 1..Unread
        BY <1>2, <3>3
      <4>2. Grown(e)[k].who = Garbage
        BY <3>3 DEF Grown
      <4> QED
        BY <1>3, <1>4, <2>1, <2>2, <4>1, <4>2
    <3> QED
      BY <3>1, <3>2, <3>3
  <2> QED
    BY <1>3, <2>1, <2>2, <2>3, SeqEqual
<1>7. Unread' = 0
  BY <1>1, <1>2, <1>3 DEF Unread
<1>8. Unread + Len(Table) < COUNT_MOD - 1
  BY <1>1, <1>2
<1>9. Stored' = Stored
  BY <1>1, StoredStays
<1>10. Durable!Add(e)
  BY <1>1, <1>6, <1>7, <1>8, <1>9 DEF Durable!Add, Unread, gap
<1> QED
  BY <1>10 DEF Durable!Next

\* Going down forgets the table and leaves the file.
LEMMA DownCrashes ==
  ASSUME IInv, phase # "down", phase' = "down", employees' = <<>>, UNCHANGED file
  PROVE  Durable!Next
<1>1. Table' = <<>>
  BY NamesOfNone DEF Table
<1>2. Stored' = Stored
  BY StoredStays
<1>3. Durable!Crash
  BY <1>1, <1>2 DEF Durable!Crash
<1> QED
  BY <1>3 DEF Durable!Next

\* While the records are written, a start would find the table, or be refused.
LEMMA SavedOrTorn == IInv /\ phase = "records" => Stored \in {Table, Torn}
<1> SUFFICES ASSUME IInv, phase = "records" PROVE Stored \in {Table, Torn}
  OBVIOUS
<1>1. file # Absent
  BY DEF IInv, InMemory
<1>2. CASE Valid(file)
  <2>1. ReadRecords(file) = employees
    BY <1>2, AcceptedIsTable
  <2> QED
    BY <1>2, <2>1, StoredWhenValid DEF Table
<1>3. CASE ~ Valid(file)
  BY <1>1, <1>3, StoredOtherwise
<1> QED
  BY <1>2, <1>3

LEMMA WritesTearOrStore ==
  ASSUME IInv, OutputHeader \/ OutputRecord
  PROVE  Durable!Next
<1>1. /\ phase \in {"header", "records"} /\ phase' = "records" /\ employees' = employees
      /\ header'.count = header.count
  <2>1. header \in HeaderUnit
    BY DEF IInv, TypeOK
  <2> QED
    BY <2>1 DEF OutputHeader, OutputRecord, memory, HeaderUnit
<1>2. IInv'
  BY OutputHeaderKeeps, OutputRecordKeeps
<1>3. (IInv /\ phase = "records" => Stored \in {Table, Torn})'
  BY SavedOrTorn, PTL
<1>4. Table' = Table /\ Stored' \in {Table, Torn}
  BY <1>1, <1>2, <1>3, TableStays
<1>5. Unread' = Unread
  BY <1>1 DEF Unread
<1>6. Durable!Tear \/ Durable!Store
  BY <1>1, <1>4, <1>5 DEF Durable!Tear, Durable!Store, Unread
<1> QED
  BY <1>6 DEF Durable!Next

LEMMA OutputEndSaves ==
  ASSUME IInv, OutputEnd
  PROVE  Durable!Next
<1>1. /\ phase = "records" /\ phase' = "idle" /\ employees' = employees /\ file' = file
      /\ header'.count = header.count
  BY DEF OutputEnd, disk
<1>2. Table' = Table /\ Stored' = Stored /\ Stored \in {Table, Torn}
  BY <1>1, SavedOrTorn, TableStays, StoredStays
<1>3. Unread' = Unread
  BY <1>1 DEF Unread
<1>4. Durable!Saved
  BY <1>1, <1>2, <1>3 DEF Durable!Saved, Unread
<1> QED
  BY <1>4 DEF Durable!Next

\* The server that replies, or refuses a request, does nothing a start could find.
LEMMA ReplyStutters ==
  ASSUME AddRejected \/ ReplyError \/ ReplyAdd \/ UNCHANGED vars
  PROVE  UNCHANGED Durable!vars
<1>1. /\ header' = header /\ employees' = employees /\ file' = file
      /\ (phase' = "down") <=> (phase = "down")
      /\ phase' \in {"reply", "header", "records"} <=> phase \in {"reply", "header", "records"}
  BY DEF AddRejected, ReplyError, ReplyAdd, AfterReply, vars, memory, disk
<1>2. Table' = Table /\ Stored' = Stored
  BY <1>1, TableStays, StoredStays
<1>3. Unread' = Unread
  BY <1>1 DEF Unread
<1> QED
  BY <1>1, <1>2, <1>3 DEF Durable!vars, Unread

\* A start finds the table from before or after the add that was being saved, or a file
\* it refuses, and nothing else, whatever write the server dies at and however many the
\* disk cut short: the store implements the durable table (file.c, parse.c:40-178).
THEOREM Refinement == Spec => ImplementsDurableTable
<1>1. Init => Durable!Init
  <2> SUFFICES ASSUME Init PROVE Durable!Init
    OBVIOUS
  <2>1. Table = <<>> /\ Stored = Absent
    BY NamesOfNone DEF Init, Table, Stored
  <2> QED
    BY <2>1 DEF Init, Durable!Init
<1>2. IInv /\ [Next]_vars => [Durable!Next]_(Durable!vars)
  <2> SUFFICES ASSUME IInv, [Next]_vars PROVE [Durable!Next]_(Durable!vars)
    OBVIOUS
  <2>1. CASE StartNew
    BY <2>1, StartNewCreates
  <2>2. CASE StartOpen \/ StartUnread
    BY <2>2, StartOpens
  <2>3. CASE \E e \in Employee : AddEmployee(e)
    BY <2>3, AddAdds
  <2>4. CASE AddWraps \/ Crash
    <3>1. phase # "down" /\ phase' = "down" /\ employees' = <<>> /\ file' = file
      BY <2>4 DEF AddWraps, Crash, disk
    <3> QED
      BY <3>1, DownCrashes
  <2>5. CASE AddRejected \/ ReplyError \/ ReplyAdd \/ UNCHANGED vars
    <3>1. UNCHANGED Durable!vars
      BY <2>5, ReplyStutters
    <3> QED
      BY <3>1
  <2>6. CASE OutputHeader \/ OutputRecord
    BY <2>6, WritesTearOrStore
  <2>7. CASE OutputEnd
    BY <2>7, OutputEndSaves
  <2> QED
    BY <2>1, <2>2, <2>3, <2>4, <2>5, <2>6, <2>7 DEF Next
<1> QED
  BY <1>1, <1>2, Inductive, PTL DEF Spec, ImplementsDurableTable, Durable!Spec

-----------------------------------------------------------------------------
(* What the steps do where no call fails: DbSystem runs the store like that. *)

LEMMA WholeAtFirst == Init => Whole
<1>1. Init => header.count = 0 /\ employees = <<>> /\ phase = "down"
  BY DEF Init, NoHeader
<1>2. employees = <<>> => Len(employees) = 0
  BY NoTable
<1> QED
  BY <1>1, <1>2 DEF Whole

LEMMA OutputHeaderKeepsWhole ==
  ASSUME FAULTS = {}, IInv, Whole, OutputHeader
  PROVE  Whole'
<1>1. /\ phase' = "records" /\ employees' = employees /\ next' = 1
      /\ header'.count = header.count
  <2>1. header \in HeaderUnit
    BY DEF IInv, TypeOK
  <2> QED
    BY <2>1 DEF OutputHeader, HeaderUnit
<1>2. pos' = FileSize(next' - 1)
  <2>1. Len(<<header'>>) = 1
    OBVIOUS
  <2>2. PICK n \in 0..Len(<<header'>>) :
          /\ n = Len(<<header'>>) \/ ("disk full" \in FAULTS /\ 0 + n >= Len(file))
          /\ pos' = 0 + n
    BY DEF OutputHeader, WriteAt
  <2>3. pos' = 1
    BY <2>1, <2>2
  <2> QED
    BY <1>1, <2>3, Sizes
<1> QED
  BY <1>1, <1>2 DEF Whole

LEMMA OutputRecordKeepsWhole ==
  ASSUME FAULTS = {}, IInv, Whole, OutputRecord
  PROVE  Whole'
<1> DEFINE units == Halves([employees[next] EXCEPT !.order = Swapped(@)])
<1>1. /\ phase = "records" /\ phase' = "records" /\ employees' = employees
      /\ header' = header /\ next' = next + 1 /\ next <= header.count
  <2>1. header.count \in Nat /\ next \in Nat
    BY Unsaved, Sizes DEF IInv, TypeOK
  <2> QED
    BY <2>1 DEF OutputRecord, AllWritten, memory
<1>2. next \in 1..header.count /\ next \in Nat /\ pos = FileSize(next - 1)
  BY <1>1, Unsaved, Sizes DEF Whole, IInv, TypeOK
<1>3. Len(units) = 2
  <2>1. employees[next] \in Record /\ employees[next].order = "host"
    BY <1>1, <1>2, Counted
  <2> QED
    BY <2>1, HalvesOf
<1> HIDE DEF units
<1>4. PICK n \in 0..Len(units) :
        /\ n = Len(units) \/ ("disk full" \in FAULTS /\ pos + n >= Len(file))
        /\ pos' = pos + n
  BY DEF OutputRecord, WriteAt, units
<1>5. pos' = pos + 2
  BY <1>3, <1>4
<1>6. FileSize(next - 1) = 1 + 2 * (next - 1) /\ FileSize(next) = 1 + 2 * next
  BY <1>2, Units
<1>7. pos' = FileSize(next' - 1)
  BY <1>1, <1>2, <1>5, <1>6
<1> QED
  BY <1>1, <1>7 DEF Whole

LEMMA OutputEndKeepsWhole ==
  ASSUME IInv, Whole, OutputEnd
  PROVE  Whole'
<1>1. /\ phase = "records" /\ phase' = "idle" /\ UNCHANGED <<employees, file, next>>
      /\ header'.count = header.count /\ next > header.count
  <2>1. header \in HeaderUnit
    BY DEF IInv, TypeOK
  <2> QED
    BY <2>1 DEF OutputEnd, AllWritten, disk, HeaderUnit
<1>2. Progress(file, header.count, next, pos, employees) /\ pos \in Nat
      /\ next <= header.count + 1 /\ next \in Nat /\ next >= 1
  BY <1>1, Sizes DEF IInv, Saving, Progress, TypeOK
<1>3. header.count \in 1..(COUNT_MOD - 1) /\ file \in Seq(Unit) /\ COUNT_MOD \in Nat
  BY <1>1, Counted
<1>4. next = header.count + 1 /\ next \in 1..(header.count + 1)
  BY <1>1, <1>2, <1>3
<1>5. pos = FileSize(header.count)
  <2>1. next - 1 = header.count
    BY <1>3, <1>4
  <2> QED
    BY <1>1, <2>1 DEF Whole
<1>6. Valid(file)
  BY <1>2, <1>3, <1>4, <1>5, AcceptedWhenComplete
<1> QED
  BY <1>1, <1>6 DEF Whole

LEMMA WholeKept ==
  ASSUME FAULTS = {}, IInv, IInv', Whole, [Next]_vars
  PROVE  Whole'
<1>1. CASE StartNew
  <2>1. header'.count = 0 /\ employees' = <<>> /\ phase' = "idle"
    BY <1>1 DEF StartNew, NoHeader, IInv, InMemory
  <2> QED
    BY <2>1, NoTable DEF Whole
<1>2. CASE StartOpen
  <2>1. /\ Valid(file) /\ file' = file /\ phase' = "idle"
        /\ header' = ReadHeader(file) /\ employees' = ReadRecords(file)
    BY <1>2 DEF StartOpen
  <2>2. header'.count = Len(employees')
    BY <2>1, LoadedFile, ReadHeaderSwaps DEF IInv
  <2> QED
    BY <2>1, <2>2 DEF Whole
<1>3. CASE StartUnread
  BY <1>3 DEF StartUnread
<1>4. ASSUME NEW e \in Employee, AddEmployee(e)
      PROVE  Whole'
  <2>1. phase' = "reply" /\ employees' = Grown(e)
    BY <1>4 DEF AddEmployee
  <2>2. header'.count = Len(employees')
    BY <2>1 DEF IInv, InMemory
  <2> QED
    BY <2>1, <2>2 DEF Whole
<1>5. CASE AddWraps \/ Crash
  <2>1. phase' = "down" /\ header'.count = 0 /\ employees' = <<>>
    BY <1>5 DEF AddWraps, Crash, NoHeader
  <2> QED
    BY <2>1, NoTable DEF Whole
<1>6. CASE AddRejected \/ ReplyError \/ ReplyAdd \/ UNCHANGED vars
  BY <1>6 DEF AddRejected, ReplyError, ReplyAdd, AfterReply, Whole, vars, memory, disk
<1>7. CASE OutputHeader \/ OutputRecord \/ OutputEnd
  BY <1>7, OutputHeaderKeepsWhole, OutputRecordKeepsWhole, OutputEndKeepsWhole
<1> QED
  BY <1>1, <1>2, <1>3, <1>4, <1>5, <1>6, <1>7 DEF Next

LEMMA SavedWhenWhole == IInv /\ Whole => SavedWhenIdle
<1> SUFFICES ASSUME IInv, Whole, phase = "idle", employees # <<>> PROVE Stored = Table
  BY DEF SavedWhenIdle
<1>1. Valid(file)
  BY DEF Whole
<1>2. employees = ReadRecords(file)
  BY <1>1 DEF IInv, Between
<1> QED
  BY <1>1, <1>2, StoredWhenValid DEF Table

\* Where no call fails, the table is in the file whenever the server is idle
\* (server_poll.c:140-141, parse.c:141-180).
THEOREM SavedWithoutFaults ==
  ASSUME FAULTS = {}
  PROVE  Spec => [](IInv /\ Whole /\ SavedWhenIdle)
<1>1. IInv /\ IInv' /\ Whole /\ [Next]_vars => Whole'
  BY WholeKept
<1>2. Spec => []Whole
  BY <1>1, WholeAtFirst, Inductive, PTL DEF Spec
<1> QED
  BY <1>2, SavedWhenWhole, Inductive, PTL

\* What each call does to the table and to what a start would find.
LEMMA WhatStepsDo ==
  IInv /\ IInv' /\ Whole /\ Whole' =>
    /\ StartNew => Table' = <<>> /\ Stored = Absent /\ Stored' = Torn
    /\ StartOpen => Table' = Stored /\ Stored' = Stored /\ Stored \notin {Absent, Torn}
    /\ \A e \in Employee : AddEmployee(e) =>
         /\ Table' = Append(Table, e) /\ Stored' = Stored
         /\ header'.count = header.count + 1
    /\ AddRejected \/ ReplyError \/ ReplyAdd \/ OutputEnd =>
         Table' = Table /\ Stored' = Stored
    /\ OutputHeader \/ OutputRecord => Table' = Table /\ Stored' \in {Table, Torn}
    /\ Crash => Table' = <<>> /\ Stored' = Stored
<1> SUFFICES ASSUME IInv, IInv', Whole, Whole'
             PROVE  /\ StartNew => Table' = <<>> /\ Stored = Absent /\ Stored' = Torn
                    /\ StartOpen => /\ Table' = Stored /\ Stored' = Stored
                                    /\ Stored \notin {Absent, Torn}
                    /\ \A e \in Employee : AddEmployee(e) =>
                         /\ Table' = Append(Table, e) /\ Stored' = Stored
                         /\ header'.count = header.count + 1
                    /\ AddRejected \/ ReplyError \/ ReplyAdd \/ OutputEnd =>
                         Table' = Table /\ Stored' = Stored
                    /\ OutputHeader \/ OutputRecord =>
                         Table' = Table /\ Stored' \in {Table, Torn}
                    /\ Crash => Table' = <<>> /\ Stored' = Stored
  OBVIOUS
<1>1. ASSUME StartNew
      PROVE  Table' = <<>> /\ Stored = Absent /\ Stored' = Torn
  <2>1. phase' = "idle" /\ file = Absent /\ file' = <<>> /\ employees' = <<>>
    BY <1>1 DEF StartNew, MayCreate, IInv, InMemory
  <2>2. Stored = Absent /\ Table' = <<>>
    BY <2>1, NamesOfNone DEF Stored, Table
  <2>3. file' # Absent /\ ~ Valid(file')
    <3>1. file' \in Seq(Unit) /\ Len(file') = 0
      BY <2>1, NoTable
    <3>2. file' # Absent
      BY <3>1, AbsenceAssumption DEF Unit
    <3>3. ~ (Len(file') >= HEADER)
      BY <3>1 DEF HEADER
    <3> QED
      BY <3>2, <3>3 DEF Valid
  <2> QED
    BY <2>2, <2>3 DEF Stored
<1>2. ASSUME StartOpen
      PROVE  Table' = Stored /\ Stored' = Stored /\ Stored \notin {Absent, Torn}
  <2>1. Valid(file) /\ file' = file /\ employees' = ReadRecords(file)
    BY <1>2 DEF StartOpen
  <2> QED
    BY <2>1, StoredStays, StoredWhenValid DEF Table
<1>3. ASSUME NEW e \in Employee, AddEmployee(e)
      PROVE  Table' = Append(Table, e) /\ Stored' = Stored /\ header'.count = header.count + 1
  <2>1. file' = file /\ employees' = Grown(e) /\ header'.count = header.count + 1
    <3>1. header \in HeaderUnit
      BY DEF IInv, TypeOK
    <3> QED
      BY <1>3, <3>1 DEF AddEmployee, disk, HeaderUnit
  <2>2. /\ Len(employees) \in Nat /\ header.count = Len(employees)
        /\ Len(employees') = Len(employees) + 1
        /\ Table \in Seq(Name) /\ Len(Table) = Len(employees)
        /\ \A k \in 1..Len(employees) : Table[k] = employees[k].who
    BY <2>1, Unsaved, TableNames DEF Whole
  <2>3. /\ Table' \in Seq(Name) /\ Len(Table') = Len(employees) + 1
        /\ \A k \in 1..(Len(employees) + 1) : Table'[k] = Grown(e)[k].who
    <3>1. /\ employees' \in Seq(Record) /\ DOMAIN employees' = 1..Len(employees')
          /\ \A k \in DOMAIN employees' : employees'[k].order = "host"
      <4>1. employees' \in Seq(Record)
        BY DEF IInv, TypeOK
      <4>2. \A k \in DOMAIN employees' : employees'[k].order = "host"
        BY DEF IInv, InMemory
      <4> QED
        BY <4>1, <4>2, LenProperties
    <3> QED
      BY <2>1, <2>2, <3>1, NamesOf DEF Table
  <2>4. e \in Name /\ /\ Append(Table, e) \in Seq(Name)
                      /\ Len(Append(Table, e)) = Len(employees) + 1
                      /\ Append(Table, e)[Len(employees) + 1] = e
                      /\ \A k \in 1..Len(employees) : Append(Table, e)[k] = Table[k]
    <3>1. e \in Name
      BY DEF Name
    <3> QED
      BY <2>2, <3>1, AppendProperties
  <2>5. ASSUME NEW k \in 1..(Len(employees) + 1)
        PROVE  Table'[k] = Append(Table, e)[k]
    <3>1. CASE k = Len(employees) + 1
      <4>1. Grown(e)[k].who = e
        BY <2>2, <3>1 DEF Grown
      <4> QED
        BY <2>3, <2>4, <3>1, <4>1
    <3>2. CASE k # Len(employees) + 1
      <4>1. k \in 1..Len(employees) /\ k <= Len(employees) /\ k # header.count + 1
        BY <2>2, <3>2
      <4>2. Grown(e)[k] = employees[k]
        BY <2>2, <4>1 DEF Grown
      <4> QED
        BY <2>2, <2>3, <2>4, <4>1, <4>2
    <3> QED
      BY <3>1, <3>2
  <2>6. Table' = Append(Table, e)
    BY <2>3, <2>4, <2>5, SeqEqual
  <2> QED
    BY <2>1, <2>6, StoredStays
<1>4. ASSUME AddRejected \/ ReplyError \/ ReplyAdd \/ OutputEnd
      PROVE  Table' = Table /\ Stored' = Stored
  <2>1. employees' = employees /\ file' = file
    BY <1>4 DEF AddRejected, ReplyError, ReplyAdd, OutputEnd, memory, disk
  <2> QED
    BY <2>1, TableStays, StoredStays
<1>5. ASSUME OutputHeader \/ OutputRecord
      PROVE  Table' = Table /\ Stored' \in {Table, Torn}
  <2>1. phase' = "records" /\ employees' = employees
    BY <1>5 DEF OutputHeader, OutputRecord, memory
  <2>2. (IInv /\ phase = "records" => Stored \in {Table, Torn})'
    BY SavedOrTorn, PTL
  <2> QED
    BY <2>1, <2>2, TableStays
<1>6. ASSUME Crash
      PROVE  Table' = <<>> /\ Stored' = Stored
  <2>1. employees' = <<>> /\ file' = file
    BY <1>6 DEF Crash, disk
  <2> QED
    BY <2>1, NamesOfNone, StoredStays DEF Table
<1> QED
  BY <1>1, <1>2, <1>3, <1>4, <1>5, <1>6
=============================================================================
