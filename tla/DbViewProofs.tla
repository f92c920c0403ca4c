---------------------------- MODULE DbViewProofs ----------------------------
(***************************************************************************)
(* Proofs about DbView, for any number of processes, any employees and any *)
(* width of the count: that a run which no other overlaps is atomic, and   *)
(* that however many overlap, an accepted file is never followed by an     *)
(* accepted file that is shorter.                                          *)
(***************************************************************************)
EXTENDS DbView, SequenceTheorems, TLAPS

-----------------------------------------------------------------------------
(* Files.                                                                  *)

\* What a start finds in the file f.
StoredIn(f) ==
  IF f = Absent THEN Absent
  ELSE IF f = <<>> THEN Torn
  ELSE IF f[1].size = Len(f) THEN SubSeq(f, 2, FileSize(f[1].count))
  ELSE Torn

\* A file that the program made: a header and then records.
Shaped(f) ==
  /\ f \in Units
  /\ f # <<>>
  /\ \E count \in Count : f[1] = Header(count)
  /\ \A j \in 2..Len(f) : f[j] \in Record

File(f) == f = Absent \/ f = <<>> \/ Shaped(f)

\* As many records, at least, as an accepted file ever had.
Holds(f, most) == IF f \in {Absent, <<>>} THEN most = 0 ELSE most < Len(f)

LEMMA StoredNow == Stored = StoredIn(file)
  BY DEF Stored, StoredIn, Fits

\* The widths, and the names that are told apart.
LEMMA Names ==
  /\ COUNT_MOD \in Nat /\ COUNT_MOD >= 2
  /\ \A c \in Int : FileSize(c) = 1 + c
  /\ \A c \in Count : Header(c) \in HeaderUnit /\ Header(c).count = c /\ Header(c).size = 1 + c
  /\ Absent # Torn
  /\ \A f \in Units : f # Absent
  /\ \A t \in Seq(Record) : t # Absent /\ t # Torn /\ t # Unread
  /\ <<>> \in Units /\ <<>> \in Seq(Record) /\ Len(<<>>) = 0
  /\ None \notin Employee /\ Malformed \notin Employee
<1>1. COUNT_MOD \in Nat /\ COUNT_MOD >= 2
  BY CountAssumption
<1>2. \A c \in Int : FileSize(c) = 1 + c
  BY DEF FileSize, HEADER
<1>3. \A c \in Count : Header(c) \in HeaderUnit /\ Header(c).count = c /\ Header(c).size = 1 + c
  <2> SUFFICES ASSUME NEW c \in Count
               PROVE  Header(c) \in HeaderUnit /\ Header(c).count = c /\ Header(c).size = 1 + c
    OBVIOUS
  <2>1. c \in Nat /\ c <= COUNT_MOD - 1
    BY <1>1 DEF Count
  <2>2. FileSize(c) \in HEADER..FileSize(COUNT_MOD - 1) /\ FileSize(c) = 1 + c
    BY <1>1, <2>1 DEF FileSize, HEADER
  <2> QED
    BY <2>2 DEF Header, HeaderUnit
<1>4. /\ Absent # Torn
      /\ \A f \in Units : f # Absent
      /\ \A t \in Seq(Record) : t # Absent /\ t # Torn /\ t # Unread
  BY AbsenceAssumption
<1>5. <<>> \in Units /\ <<>> \in Seq(Record) /\ Len(<<>>) = 0
  BY EmptySeq DEF Units
<1>6. None \notin Employee /\ Malformed \notin Employee
  BY NameAssumption
<1> QED
  BY <1>1, <1>2, <1>3, <1>4, <1>5, <1>6

\* No file, or an empty one.
LEMMA StoredInNone ==
  /\ StoredIn(Absent) = Absent
  /\ StoredIn(<<>>) = Torn
<1>1. <<>> # Absent
  BY Names
<1> QED
  BY <1>1 DEF StoredIn

\* A file is accepted when its length is the one in its header, and then it holds as
\* many records as the header counts.
LEMMA StoredInShaped ==
  ASSUME NEW f, Shaped(f)
  PROVE  \E count \in Count :
           /\ f[1] = Header(count) /\ f[1].count = count /\ f[1].size = 1 + count
           /\ f # Absent /\ f # <<>>
           /\ Len(f) \in Nat /\ Len(f) >= 1
           /\ \/ Len(f) # 1 + count /\ StoredIn(f) = Torn
              \/ /\ Len(f) = 1 + count
                 /\ StoredIn(f) = SubSeq(f, 2, FileSize(f[1].count))
                 /\ StoredIn(f) \in Seq(Record)
                 /\ Len(StoredIn(f)) = count
                 /\ \A j \in 1..count : StoredIn(f)[j] = f[j + 1]
<1>1. PICK count \in Count : f[1] = Header(count)
  BY DEF Shaped
<1>2. f[1].count = count /\ f[1].size = 1 + count /\ count \in Nat /\ FileSize(count) = 1 + count
  <2>1. Header(count).count = count /\ Header(count).size = 1 + count
    BY Names
  <2>2. count \in Nat
    BY DEF Count
  <2>3. FileSize(count) = 1 + count
    BY <2>2, Names
  <2> QED
    BY <1>1, <2>1, <2>2, <2>3
<1>3. f \in Units /\ f # Absent /\ f # <<>>
  BY Names DEF Shaped
<1>4. Len(f) \in Nat /\ Len(f) >= 1
  BY <1>3, EmptySeq, LenProperties DEF Units
<1>5. ASSUME Len(f) = 1 + count
      PROVE  /\ SubSeq(f, 2, 1 + count) \in Seq(Record)
             /\ Len(SubSeq(f, 2, 1 + count)) = count
             /\ \A j \in 1..count : SubSeq(f, 2, 1 + count)[j] = f[j + 1]
  <2> DEFINE t == SubSeq(f, 2, 1 + count)
  <2>1. t = [j \in 1..count |-> f[j + 1]]
    BY <1>2, <1>3 DEF Units
  <2>2. \A j \in 1..count : f[j + 1] \in Record
    BY <1>2, <1>5 DEF Shaped
  <2>3. t \in [1..count -> Record]
    BY <2>1, <2>2
  <2> HIDE DEF t
  <2>4. t \in Seq(Record)
    BY <1>2, <2>3, SeqDef
  <2>5. DOMAIN t = 1..count
    BY <2>3
  <2>6. Len(t) = count
    BY <1>2, <2>4, <2>5, LenProperties
  <2> QED
    BY <2>1, <2>4, <2>6 DEF t
<1>6. CASE Len(f) # 1 + count
  <2>1. StoredIn(f) = Torn
    BY <1>2, <1>3, <1>6 DEF StoredIn
  <2> QED
    BY <1>1, <1>2, <1>3, <1>4, <1>6, <2>1
<1>7. CASE Len(f) = 1 + count
  <2>1. StoredIn(f) = SubSeq(f, 2, 1 + count)
    BY <1>2, <1>3, <1>7 DEF StoredIn
  <2> QED
    BY <1>1, <1>2, <1>3, <1>4, <1>5, <1>7, <2>1
<1> QED
  BY <1>6, <1>7

\* A write inside the file, or at its end, replaces a unit and keeps the rest.
LEMMA Written ==
  ASSUME NEW U, file \in Seq(U), NEW unit \in U, NEW n \in 1..(Len(file) + 1),
         WriteUnit(n, unit)
  PROVE  /\ file' \in Seq(U)
         /\ Len(file) \in Nat
         /\ Len(file') = IF n > Len(file) THEN n ELSE Len(file)
         /\ file'[n] = unit
         /\ \A j \in 1..Len(file) : j # n => file'[j] = file[j]
<1> DEFINE len == IF n > Len(file) THEN n ELSE Len(file)
<1>1. Len(file) \in Nat /\ len \in Nat /\ n \in 1..len /\ Len(file) <= len
  BY LenProperties
<1>2. ASSUME NEW j \in 1..len
      PROVE  (IF j = n THEN unit ELSE file[j]) \in U
  <2>1. j = n \/ j \in 1..Len(file)
    BY <1>1
  <2> QED
    BY <2>1, ElementOfSeq
<1>3. file' = [j \in 1..len |-> IF j = n THEN unit ELSE file[j]]
  BY DEF WriteUnit
<1> HIDE DEF len
<1>4. file' \in [1..len -> U]
  BY <1>2, <1>3
<1>5. file' \in Seq(U)
  BY <1>1, <1>4, SeqDef
<1>6. Len(file') = len
  <2>1. DOMAIN file' = 1..len
    BY <1>4
  <2> QED
    BY <1>1, <1>5, <2>1, LenProperties
<1>7. file'[n] = unit
  BY <1>1, <1>3
<1>8. \A j \in 1..Len(file) : j # n => file'[j] = file[j]
  <2>1. \A j \in 1..Len(file) : j \in 1..len
    BY <1>1
  <2> QED
    BY <1>3, <2>1
<1> QED
  BY <1>1, <1>5, <1>6, <1>7, <1>8 DEF len

\* What the invariant says of the file.
LEMMA FileOf ==
  ASSUME IInv
  PROVE  /\ File(file)
         /\ Holds(file, longest)
         /\ longest \in Count
<1>1. file = Absent \/ file \in Units
  BY DEF IInv, TypeOK
<1>2. CASE file \in {Absent, <<>>}
  BY <1>2 DEF IInv, TypeOK, FileShape, File, Holds
<1>3. CASE file \notin {Absent, <<>>}
  <2>1. Shaped(file)
    BY <1>1, <1>3 DEF IInv, FileShape, Shaped
  <2> QED
    BY <1>3, <2>1 DEF IInv, TypeOK, FileShape, File, Holds
<1> QED
  BY <1>2, <1>3

\* What a start finds has a type, and is no longer than the file has room for.
LEMMA StoredType ==
  ASSUME NEW f, File(f)
  PROVE  /\ StoredIn(f) \in {Absent, Torn} \cup Seq(Record)
         /\ StoredIn(f) \in Seq(Record) => /\ f # Absent /\ f # <<>>
                                           /\ Len(f) = 1 + Len(StoredIn(f))
                                           /\ Len(StoredIn(f)) \in Count
<1>1. CASE f = Absent
  BY <1>1, StoredInNone, Names
<1>2. CASE f = <<>>
  BY <1>2, StoredInNone, Names
<1>3. CASE Shaped(f)
  BY <1>3, StoredInShaped, Names
<1> QED
  BY <1>1, <1>2, <1>3 DEF File

\* The history: the longest accepted table still is shorter than the file.
LEMMA StillHolds ==
  ASSUME longest \in Count, File(file'), Holds(file', longest),
         longest' = IF Accepted' /\ Len(Stored') > longest THEN Len(Stored') ELSE longest
  PROVE  /\ file' = Absent \/ file' \in Units
         /\ FileShape'
         /\ longest' \in Count
<1>1. Stored' = StoredIn(file')
  BY DEF Stored, StoredIn, Fits
<1>2. Accepted' <=> StoredIn(file') \in Seq(Record)
  BY <1>1, StoredType, Names DEF Accepted
<1>3. longest' \in Count /\ Holds(file', longest')
  <2>1. CASE Accepted' /\ Len(Stored') > longest
    <3>1. longest' = Len(StoredIn(file')) /\ StoredIn(file') \in Seq(Record)
      BY <1>1, <1>2, <2>1
    <3>2. /\ file' \notin {Absent, <<>>}
          /\ Len(file') = 1 + longest'
          /\ longest' \in Count
      BY <3>1, StoredType
    <3> QED
      BY <3>2 DEF Holds, Count
  <2>2. CASE ~ (Accepted' /\ Len(Stored') > longest)
    BY <2>2
  <2> QED
    BY <2>1, <2>2
<1>4. CASE file' \in {Absent, <<>>}
  BY <1>3, <1>4, Names DEF FileShape, Holds
<1>5. CASE file' \notin {Absent, <<>>}
  <2>1. Shaped(file')
    BY <1>5 DEF File
  <2> QED
    BY <1>3, <1>5, <2>1 DEF FileShape, Holds, Shaped
<1> QED
  BY <1>3, <1>4, <1>5

-----------------------------------------------------------------------------
(* One process moves.                                                      *)

\* The history is brought up to date by every step.
Noted == longest' = IF Accepted' /\ Len(Stored') > longest THEN Len(Stored') ELSE longest

\* The program never removes a file and never cuts it.
Grown(f, g) ==
  /\ f # Absent => g # Absent
  /\ f \notin {Absent, <<>>} => g \notin {Absent, <<>>} /\ Len(f) <= Len(g)

LEMMA ProcessFields ==
  ASSUME NEW own \in Process
  PROVE  /\ own.add \in Employee \cup {Malformed, None}
         /\ own.count \in Nat /\ own.count < COUNT_MOD
         /\ own.k \in Nat /\ own.k >= 1 /\ own.k <= COUNT_MOD
         /\ own.table \in {Unread} \cup Seq(Record)
         /\ own.base \in {Absent, Torn} \cup Seq(Record)
<1>1. own.count \in Count /\ own.k \in 1..COUNT_MOD /\ own.add \in Employee \cup {Malformed, None}
  BY DEF Process
<1>2. own.table \in {Unread} \cup Seq(Record) /\ own.base \in {Absent, Torn} \cup Seq(Record)
  BY DEF Process
<1> QED
  BY <1>1, <1>2, CountAssumption DEF Count

\* What the invariant says of a process.
LEMMA ProcessOf ==
  ASSUME IInv, NEW r \in Run
  PROVE  /\ run[r] \in Process
         /\ Coherent(run[r], file)
         /\ run[r].at # "off" /\ run[r].alone =>
              /\ \A q \in Run \ {r} : run[q].at = "off"
              /\ Alone(run[r], file, StoredIn(file))
  BY StoredNow DEF IInv, TypeOK

\* Nothing a process relies on is undone by another that writes.
LEMMA CoherentStays ==
  ASSUME NEW own \in Process, NEW f, NEW g, File(f), File(g), Grown(f, g), Coherent(own, f)
  PROVE  Coherent(own, g)
<1>1. own.at \notin {"off", "probe", "create", "open"} => g # Absent
  BY DEF Coherent, Grown
<1>2. ASSUME own.at \in {"stat", "records", "write records"}
      PROVE  g # <<>> /\ Len(f) \in Nat /\ Len(g) \in Nat /\ Len(f) <= Len(g)
  <2>1. f \notin {Absent, <<>>} /\ g \notin {Absent, <<>>} /\ Len(f) <= Len(g)
    BY <1>2 DEF Coherent, Grown
  <2>2. Len(f) \in Nat /\ Len(g) \in Nat
    BY <2>1, StoredInShaped DEF File
  <2> QED
    BY <2>1, <2>2
<1>3. own.at = "records" => FileSize(own.count) <= Len(g)
  <2> SUFFICES ASSUME own.at = "records" PROVE FileSize(own.count) <= Len(g)
    OBVIOUS
  <2>1. own.count \in Nat
    BY ProcessFields
  <2>2. FileSize(own.count) <= Len(f) /\ FileSize(own.count) = 1 + own.count
    BY <2>1, Names DEF Coherent
  <2> QED
    BY <1>2, <2>1, <2>2
<1>4. own.at = "write records" => own.k <= Len(g)
  <2> SUFFICES ASSUME own.at = "write records" PROVE own.k <= Len(g)
    OBVIOUS
  <2>1. own.k \in Nat
    BY ProcessFields
  <2>2. own.k <= Len(f)
    BY DEF Coherent
  <2>3. Len(f) \in Nat /\ Len(g) \in Nat /\ Len(f) <= Len(g)
    BY <1>2
  <2> QED
    BY ONLY <2>1, <2>2, <2>3
<1> QED
  BY <1>1, <1>2, <1>3, <1>4 DEF Coherent

\* A step of one process preserves the invariant when it leaves the process coherent,
\* the file no shorter, and a process that is alone with what it is to have.
LEMMA OneMoves ==
  ASSUME IInv, Noted, NEW r \in Run, NEW own \in Process,
         run' = [run EXCEPT ![r] = own],
         run[r].at # "off",
         File(file'), Holds(file', longest), Grown(file, file'),
         Coherent(own, file'),
         own.at # "off" /\ own.alone => run[r].alone /\ Alone(own, file', StoredIn(file'))
  PROVE  IInv'
<1>1. run \in [Run -> Process]
  BY DEF IInv, TypeOK
<1>2. /\ run' \in [Run -> Process]
      /\ run'[r] = own
      /\ \A q \in Run \ {r} : run'[q] = run[q]
  BY <1>1
<1>3. (file' = Absent \/ file' \in Units) /\ FileShape' /\ longest' \in Count
  BY FileOf, StillHolds DEF Noted
<1>4. \A q \in Run : Coherent(run'[q], file')
  <2> SUFFICES ASSUME NEW q \in Run PROVE Coherent(run'[q], file')
    OBVIOUS
  <2>1. CASE q = r
    BY <1>2, <2>1
  <2>2. CASE q # r
    <3>1. run'[q] = run[q] /\ run[q] \in Process /\ Coherent(run[q], file) /\ File(file)
      BY <1>2, <2>2, ProcessOf, FileOf
    <3> QED
      BY <3>1, CoherentStays
  <2> QED
    BY <2>1, <2>2
<1>5. Stored' = StoredIn(file')
  BY DEF Stored, StoredIn, Fits
<1>6. ASSUME NEW p \in Run, run'[p].at # "off", run'[p].alone
      PROVE  /\ \A q \in Run \ {p} : run'[q].at = "off"
             /\ Alone(run'[p], file', StoredIn(file'))
  <2>1. p = r
    <3> SUFFICES ASSUME p # r PROVE FALSE
      OBVIOUS
    <3>1. run[p].at # "off" /\ run[p].alone
      BY <1>2, <1>6
    <3>2. run[r].at = "off"
      BY <3>1, ProcessOf
    <3> QED
      BY <3>2
  <2>2. own.at # "off" /\ own.alone
    BY <1>2, <1>6, <2>1
  <2>3. run[r].alone /\ Alone(own, file', StoredIn(file'))
    BY <2>2
  <2>4. \A q \in Run \ {r} : run[q].at = "off"
    BY <2>3, ProcessOf
  <2> QED
    BY <1>2, <2>1, <2>3, <2>4
<1> QED
  BY <1>2, <1>3, <1>4, <1>5, <1>6 DEF IInv, TypeOK

\* When the file is left alone.
LEMMA FileKept ==
  ASSUME IInv, file' = file
  PROVE  File(file') /\ Holds(file', longest) /\ Grown(file, file')
<1>1. File(file) /\ Holds(file, longest)
  BY FileOf
<1>2. file \notin {Absent, <<>>} => Len(file) \in Nat
  BY <1>1, StoredInShaped DEF File
<1> QED
  BY <1>1, <1>2 DEF Grown

LEMMA OffType ==
  /\ Off \in Process
  /\ Off.at = "off" /\ Off.alone = TRUE
  /\ \A f : Coherent(Off, f)
<1>1. Off \in Process
  <2>1. 0 \in Count /\ 0 \in 0..FileSize(COUNT_MOD - 1) /\ 1 \in 1..COUNT_MOD
    BY Names DEF Count, FileSize, HEADER
  <2>2. <<>> \in Seq(Record)
    BY Names
  <2> QED
    BY <2>1, <2>2 DEF Off, Process, Stage
<1>2. \A f : Coherent(Off, f)
  BY DEF Off, Coherent
<1> QED
  BY <1>1, <1>2 DEF Off

\* A process may end, or be killed, at any point.
LEMMA Ending ==
  ASSUME IInv, Noted, NEW r \in Run, run[r].at # "off", Ends(r), file' = file
  PROVE  IInv'
<1>1. run' = [run EXCEPT ![r] = Off]
  BY DEF Ends
<1> QED
  BY <1>1, OffType, OneMoves, FileKept

\* A process that reads, or works in memory.
LEMMA Quiet ==
  ASSUME IInv, Noted, NEW r \in Run, NEW own \in Process,
         run' = [run EXCEPT ![r] = own],
         run[r].at # "off",
         file' = file,
         Coherent(own, file),
         own.at # "off" /\ own.alone => run[r].alone /\ Alone(own, file, StoredIn(file))
  PROVE  IInv'
<1>1. File(file') /\ Holds(file', longest) /\ Grown(file, file')
  BY FileKept
<1>2. Coherent(own, file')
  OBVIOUS
<1>3. own.at # "off" /\ own.alone => run[r].alone /\ Alone(own, file', StoredIn(file'))
  OBVIOUS
<1> QED
  BY <1>1, <1>2, <1>3, OneMoves

-----------------------------------------------------------------------------
(* Every step preserves the invariant.                                     *)

\* The next stage of a process: what its fields are.
LEMMA At ==
  ASSUME NEW own \in Process, NEW to \in Stage
  PROVE  LET gone == [own EXCEPT !.at = to] IN
         /\ gone \in Process
         /\ gone.at = to /\ gone.add = own.add /\ gone.count = own.count /\ gone.size = own.size
         /\ gone.table = own.table /\ gone.k = own.k /\ gone.base = own.base
         /\ gone.alone = own.alone /\ gone.moved = own.moved
         /\ Found(gone) = Found(own) /\ Intended(gone) = Intended(own)
  BY DEF Process, Found, Intended

LEMMA StartKeeps ==
  ASSUME IInv, Noted, NEW r \in Run, Start(r)
  PROVE  IInv'
<1>1. run \in [Run -> Process] /\ run[r].at = "off"
  BY DEF IInv, TypeOK, Start
<1>2. PICK stage \in {"probe", "open"}, add \in Employee \cup {Malformed, None} :
        run' = [q \in Run |->
          IF q = r
          THEN [Off EXCEPT !.at = stage, !.add = add, !.base = Stored,
                           !.alone = \A p \in Run \ {r} : run[p].at = "off"]
          ELSE [run[q] EXCEPT !.alone = run[q].at = "off"]]
  BY DEF Start
<1> DEFINE alone == \A p \in Run \ {r} : run[p].at = "off"
           own == [Off EXCEPT !.at = stage, !.add = add, !.base = Stored, !.alone = alone]
<1>3. file' = file
  BY DEF Start
<1>4. Stored \in {Absent, Torn} \cup Seq(Record)
  BY FileOf, StoredType, StoredNow
<1>5. own \in Process /\ own.at = stage /\ own.alone = alone /\ own.base = Stored
  <2>1. Off \in Process
    BY OffType
  <2>2. stage \in Stage /\ alone \in BOOLEAN
    BY DEF Stage
  <2> HIDE DEF alone
  <2> QED
    BY <1>4, <2>1, <2>2 DEF Process
<1>6. run'[r] = own
  BY <1>2
<1>7. ASSUME NEW q \in Run, q # r
      PROVE  /\ run'[q] \in Process
             /\ run'[q].at = run[q].at
             /\ run'[q].at # "off" => ~ run'[q].alone
             /\ Coherent(run'[q], file)
  <2> DEFINE other == [run[q] EXCEPT !.alone = run[q].at = "off"]
  <2>1. run'[q] = other
    BY <1>2, <1>7
  <2>2. run[q] \in Process /\ Coherent(run[q], file)
    BY ProcessOf
  <2>3. (run[q].at = "off") \in BOOLEAN
    OBVIOUS
  <2>4. other \in Process /\ other.at = run[q].at /\ other.alone = (run[q].at = "off")
    BY <2>2, <2>3 DEF Process
  <2>5. CASE run[q].at = "off"
    <3>1. run[q] = Off
      BY <2>2, <2>5 DEF Coherent
    <3>2. [Off EXCEPT !.alone = Off.alone] = Off
      BY ONLY DEF Off
    <3>3. other = [Off EXCEPT !.alone = Off.alone]
      BY <2>5, <3>1, OffType
    <3>4. run'[q] = Off
      BY <2>1, <3>2, <3>3
    <3> HIDE DEF other
    <3> QED
      BY <2>5, <3>4, OffType
  <2>6. CASE run[q].at # "off"
    <3>1. /\ other.count = run[q].count /\ other.size = run[q].size /\ other.k = run[q].k
          /\ other.table = run[q].table /\ other.moved = run[q].moved
      BY <2>2 DEF Process
    <3> HIDE DEF other
    <3>2. Coherent(other, file)
      BY <2>2, <2>4, <2>6, <3>1 DEF Coherent
    <3> QED
      BY <2>1, <2>4, <2>6, <3>2
  <2> QED
    BY <2>5, <2>6
<1>8. Coherent(own, file)
  BY DEF Coherent, Off
<1>9. alone => Alone(own, file, StoredIn(file))
  BY StoredNow DEF Alone, Off
<1> HIDE DEF own
<1>10. run' \in [Run -> Process]
  <2>1. \A q \in Run : run'[q] \in Process
    BY <1>5, <1>6, <1>7
  <2> QED
    BY <1>2, <2>1
<1>11. (file' = Absent \/ file' \in Units) /\ FileShape' /\ longest' \in Count
  BY <1>3, FileKept, FileOf, StillHolds DEF Noted
<1>12. \A q \in Run : Coherent(run'[q], file')
  BY <1>3, <1>6, <1>7, <1>8
<1>13. ASSUME NEW p \in Run, run'[p].at # "off", run'[p].alone
       PROVE  /\ \A q \in Run \ {p} : run'[q].at = "off"
              /\ Alone(run'[p], file', Stored')
  <2>1. p = r
    BY <1>7, <1>13
  <2>2. alone
    BY <1>5, <1>6, <1>13, <2>1
  <2>3. Stored' = StoredIn(file)
    BY <1>3 DEF Stored, StoredIn, Fits
  <2> QED
    BY <1>3, <1>6, <1>7, <1>9, <2>1, <2>2, <2>3
<1> QED
  BY <1>10, <1>11, <1>12, <1>13 DEF IInv, TypeOK

LEMMA Going ==
  ASSUME IInv, NEW r \in Run, NEW to \in Stage, Goes(r, to)
  PROVE  run' = [run EXCEPT ![r] = [run[r] EXCEPT !.at = to]]
  BY DEF Goes

LEMMA OpeningKeeps ==
  ASSUME IInv, Noted, NEW r \in Run, Probe(r) \/ Open(r)
  PROVE  IInv'
<1> DEFINE own == run[r]
<1>1. own \in Process /\ Coherent(own, file) /\ file' = file /\ own.at # "off"
  BY ProcessOf DEF Probe, Open
<1>2. CASE Ends(r)
  BY <1>1, <1>2, Ending
<1>3. ASSUME NEW to \in {"create", "header"}, Goes(r, to),
             \/ to = "create" /\ own.at = "probe" /\ file = Absent
             \/ to = "header" /\ own.at = "open" /\ file # Absent
      PROVE  IInv'
  <2> DEFINE gone == [own EXCEPT !.at = to]
  <2>1. to \in Stage
    BY DEF Stage
  <2>2. /\ gone \in Process
        /\ gone.at = to /\ gone.count = own.count /\ gone.table = own.table
        /\ gone.k = own.k /\ gone.base = own.base /\ gone.alone = own.alone
        /\ gone.moved = own.moved
    BY <1>1, <2>1, At
  <2>3. run' = [run EXCEPT ![r] = gone]
    BY <1>3, <2>1, Going
  <2> HIDE DEF gone
  <2>4. Coherent(gone, file)
    BY <1>1, <1>3, <2>2 DEF Coherent
  <2>5. ASSUME own.alone PROVE Alone(gone, file, StoredIn(file))
    <3>1. StoredIn(file) = own.base
      BY <1>1, <1>3, <2>5, ProcessOf DEF Alone
    <3>2. to = "create" => own.base = Absent
      BY <1>3, <3>1, StoredInNone
    <3> QED
      BY <1>3, <2>2, <3>1, <3>2 DEF Alone
  <2> QED
    BY <1>1, <2>2, <2>3, <2>4, <2>5, Quiet
<1> QED
  BY <1>2, <1>3 DEF Probe, Open

LEMMA CreateFileKeeps ==
  ASSUME IInv, Noted, NEW r \in Run, CreateFile(r)
  PROVE  IInv'
<1> DEFINE own == run[r]
           gone == [own EXCEPT !.at = "edit"]
<1>1. /\ own \in Process /\ Coherent(own, file) /\ own.at = "create"
      /\ file' = IF file = Absent THEN <<>> ELSE file
  BY ProcessOf DEF CreateFile
<1>2. "edit" \in Stage
  BY DEF Stage
<1>3. /\ gone \in Process
      /\ gone.at = "edit" /\ gone.count = own.count /\ gone.table = own.table
      /\ gone.k = own.k /\ gone.base = own.base /\ gone.alone = own.alone
      /\ gone.moved = own.moved /\ Found(gone) = Found(own)
  BY <1>1, <1>2, At
<1>4. run' = [run EXCEPT ![r] = gone]
  BY DEF CreateFile
<1> HIDE DEF gone
<1>5. /\ File(file') /\ Holds(file', longest) /\ Grown(file, file')
      /\ file' # Absent
  <2>1. CASE file = Absent
    <3>1. file' = <<>> /\ <<>> # Absent /\ longest = 0
      BY <1>1, <2>1, FileOf, Names DEF Holds
    <3> QED
      BY <2>1, <3>1 DEF File, Holds, Grown
  <2>2. CASE file # Absent
    BY <1>1, <2>2, FileKept
  <2> QED
    BY <2>1, <2>2
<1>6. Coherent(gone, file')
  <2>1. own.count = 0 /\ own.table = <<>> /\ Len(<<>>) = 0
    BY <1>1, Names DEF Coherent
  <2> QED
    BY <1>1, <1>3, <1>5, <2>1 DEF Coherent
<1>7. ASSUME own.alone PROVE Alone(gone, file', StoredIn(file'))
  <2>1. file = Absent /\ own.base = Absent
    BY <1>1, <1>7, ProcessOf DEF Alone
  <2>2. file' = <<>> /\ Found(own) = <<>> /\ Len(<<>>) = 0 /\ Absent # Torn
    BY <1>1, <2>1, Names DEF Found
  <2>3. own.count = 0 /\ own.table = <<>>
    BY <1>1 DEF Coherent
  <2> QED
    BY <1>3, <2>1, <2>2, <2>3 DEF Alone
<1> QED
  BY <1>1, <1>3, <1>4, <1>5, <1>6, <1>7, OneMoves

LEMMA ReadHeaderKeeps ==
  ASSUME IInv, Noted, NEW r \in Run, ReadHeader(r)
  PROVE  IInv'
<1> DEFINE own == run[r]
           gone == [own EXCEPT !.at = "stat", !.count = file[1].count, !.size = file[1].size]
<1>1. /\ own \in Process /\ Coherent(own, file) /\ own.at = "header" /\ file' = file
      /\ file # Absent
  BY ProcessOf DEF ReadHeader, Coherent
<1>2. CASE file = <<>>
  <2>1. Ends(r)
    BY <1>2 DEF ReadHeader
  <2> QED
    BY <1>1, <2>1, Ending
<1>3. CASE file # <<>>
  <2>1. Shaped(file)
    BY <1>1, <1>3, FileOf DEF File
  <2>2. PICK count \in Count : file[1] = Header(count) /\ file[1].count = count
                               /\ file[1].size = 1 + count
    BY <2>1, StoredInShaped
  <2>3. count \in Nat /\ FileSize(count) = 1 + count /\ FileSize(COUNT_MOD - 1) = COUNT_MOD
        /\ 1 + count \in 0..FileSize(COUNT_MOD - 1)
    BY Names, CountAssumption DEF Count, FileSize, HEADER
  <2>4. /\ gone \in Process
        /\ gone.at = "stat" /\ gone.count = count /\ gone.size = FileSize(count)
        /\ gone.table = own.table /\ gone.k = own.k /\ gone.base = own.base
        /\ gone.alone = own.alone /\ gone.moved = own.moved
    BY <1>1, <2>2, <2>3 DEF Process, Stage
  <2>5. run' = [run EXCEPT ![r] = gone]
    BY <1>3 DEF ReadHeader
  <2> HIDE DEF gone
  <2>6. Coherent(gone, file)
    BY <1>1, <1>3, <2>4 DEF Coherent
  <2>7. ASSUME own.alone PROVE Alone(gone, file, StoredIn(file))
    <3>1. StoredIn(file) = own.base
      BY <1>1, <2>7, ProcessOf DEF Alone
    <3> QED
      BY <2>2, <2>4, <3>1 DEF Alone
  <2> QED
    BY <1>1, <2>4, <2>5, <2>6, <2>7, Quiet
<1> QED
  BY <1>2, <1>3

LEMMA StatKeeps ==
  ASSUME IInv, Noted, NEW r \in Run, Stat(r)
  PROVE  IInv'
<1> DEFINE own == run[r]
           gone == [own EXCEPT !.at = "records", !.size = 0]
<1>1. /\ own \in Process /\ Coherent(own, file) /\ own.at = "stat" /\ file' = file
      /\ file # Absent /\ file # <<>> /\ own.size = FileSize(own.count)
  BY ProcessOf DEF Stat, Coherent
<1>2. CASE ~ Fits(own.size)
  <2>1. Ends(r)
    BY <1>2 DEF Stat
  <2> QED
    BY <1>1, <2>1, Ending
<1>3. CASE Fits(own.size)
  <2>1. Len(file) = 1 + own.count /\ FileSize(own.count) = 1 + own.count /\ own.count \in Nat
    <3>1. own.count \in Nat
      BY <1>1, ProcessFields
    <3>2. FileSize(own.count) = 1 + own.count
      BY <3>1, Names
    <3> QED
      BY <1>1, <1>3, <3>1, <3>2 DEF Fits
  <2>2. 0 \in 0..FileSize(COUNT_MOD - 1)
    BY CountAssumption DEF FileSize, HEADER
  <2>3. /\ gone \in Process
        /\ gone.at = "records" /\ gone.count = own.count
        /\ gone.table = own.table /\ gone.k = own.k /\ gone.base = own.base
        /\ gone.alone = own.alone /\ gone.moved = own.moved /\ Found(gone) = Found(own)
    BY <1>1, <2>2 DEF Process, Stage, Found
  <2>4. run' = [run EXCEPT ![r] = gone]
    BY <1>3 DEF Stat
  <2> HIDE DEF gone
  <2>5. Coherent(gone, file)
    BY <1>1, <2>1, <2>3 DEF Coherent
  <2>6. ASSUME own.alone PROVE Alone(gone, file, StoredIn(file))
    <3>1. StoredIn(file) = own.base /\ own.count = file[1].count
      BY <1>1, <2>6, ProcessOf DEF Alone
    <3>2. Shaped(file)
      BY <1>1, FileOf DEF File
    <3>3. StoredIn(file) \in Seq(Record) /\ Len(StoredIn(file)) = own.count
      BY <2>1, <3>1, <3>2, StoredInShaped
    <3>4. own.base # Absent /\ own.base # Torn
      BY <3>1, <3>3, Names
    <3>5. Len(Found(own)) = own.count
      BY <3>1, <3>3, <3>4 DEF Found
    <3> QED
      BY <2>3, <3>1, <3>4, <3>5 DEF Alone
  <2> QED
    BY <1>1, <2>3, <2>4, <2>5, <2>6, Quiet
<1> QED
  BY <1>2, <1>3

LEMMA ReadRecordsKeeps ==
  ASSUME IInv, Noted, NEW r \in Run, ReadRecords(r)
  PROVE  IInv'
<1> DEFINE own == run[r]
           table == SubSeq(file, 2, FileSize(own.count))
           gone == [own EXCEPT !.at = "edit", !.table = table]
<1>1. /\ own \in Process /\ Coherent(own, file) /\ own.at = "records" /\ file' = file
      /\ file # Absent /\ file # <<>> /\ FileSize(own.count) <= Len(file)
  BY ProcessOf DEF ReadRecords, Coherent
<1>2. own.count \in Nat /\ FileSize(own.count) = 1 + own.count
  <2>1. own.count \in Nat
    BY <1>1, ProcessFields
  <2> QED
    BY <2>1, Names
<1>3. Shaped(file) /\ file \in Units
  BY <1>1, FileOf DEF File, Shaped
<1>4. table \in Seq(Record) /\ Len(table) = own.count
  <2>1. table = [j \in 1..own.count |-> file[j + 1]]
    BY <1>2, <1>3 DEF Units
  <2>2. \A j \in 1..own.count : file[j + 1] \in Record
    <3>1. Len(file) \in Nat
      BY <1>3, StoredInShaped
    <3>2. \A j \in 1..own.count : j + 1 \in 2..Len(file)
      BY <1>1, <1>2, <3>1
    <3> QED
      BY <1>3, <3>2 DEF Shaped
  <2>3. table \in [1..own.count -> Record]
    BY <2>1, <2>2
  <2> HIDE DEF table
  <2>4. table \in Seq(Record) /\ DOMAIN table = 1..own.count
    BY <1>2, <2>3, SeqDef
  <2> QED
    BY <1>2, <2>4, LenProperties
<1>5. run' = [run EXCEPT ![r] = gone]
  BY DEF ReadRecords
<1>6. own.alone => table = StoredIn(file) \/ StoredIn(file) = Torn \/ own.count # file[1].count
  BY <1>3, StoredInShaped
<1> HIDE DEF table
<1>7. /\ gone \in Process
      /\ gone.at = "edit" /\ gone.count = own.count
      /\ gone.table = table /\ gone.k = own.k /\ gone.base = own.base
      /\ gone.alone = own.alone /\ gone.moved = own.moved /\ Found(gone) = Found(own)
  BY <1>1, <1>4 DEF Process, Stage, Found
<1> HIDE DEF gone
<1>8. Coherent(gone, file)
  BY <1>1, <1>4, <1>7 DEF Coherent
<1>9. ASSUME own.alone PROVE Alone(gone, file, StoredIn(file))
  <2>1. /\ own.base # Torn /\ own.base # Absent /\ StoredIn(file) = own.base
        /\ own.count = Len(Found(own))
    BY <1>1, <1>9, ProcessOf DEF Alone
  <2>2. Found(own) = own.base
    BY <2>1 DEF Found
  <2>3. file[1].count = own.count
    <3>1. file[1].count = Len(own.base)
      BY <1>3, <2>1, StoredInShaped
    <3> QED
      BY <2>1, <2>2, <3>1
  <2>4. table = own.base
    BY <1>6, <1>9, <2>1, <2>3
  <2> QED
    BY <1>7, <2>1, <2>2, <2>4 DEF Alone
<1> QED
  BY <1>1, <1>5, <1>7, <1>8, <1>9, Quiet

LEMMA ReadFailsKeeps ==
  ASSUME IInv, Noted, NEW r \in Run, ReadFails(r)
  PROVE  IInv'
<1> DEFINE own == run[r]
           gone == [own EXCEPT !.at = "edit", !.table = Unread]
<1>1. /\ own \in Process /\ Coherent(own, file) /\ own.at = "records" /\ own.count > 0
      /\ file' = file /\ run' = [run EXCEPT ![r] = gone] /\ file # Absent
  BY ProcessOf DEF ReadFails, Coherent
<1>2. /\ gone \in Process
      /\ gone.at = "edit" /\ gone.count = own.count
      /\ gone.table = Unread /\ gone.k = own.k /\ gone.base = own.base
      /\ gone.alone = own.alone /\ gone.moved = own.moved /\ Found(gone) = Found(own)
  BY <1>1 DEF Process, Stage, Found
<1> HIDE DEF gone
<1>3. Coherent(gone, file)
  BY <1>1, <1>2 DEF Coherent
<1>4. ASSUME own.alone PROVE Alone(gone, file, StoredIn(file))
  <2>1. /\ own.base # Torn /\ own.base # Absent /\ StoredIn(file) = own.base
        /\ own.count = Len(Found(own))
    BY <1>1, <1>4, ProcessOf DEF Alone
  <2> QED
    BY <1>1, <1>2, <2>1 DEF Alone
<1> QED
  BY <1>1, <1>2, <1>3, <1>4, Quiet

\* A process that is about to write.
LEMMA AloneToWrite ==
  ASSUME NEW own, NEW f, NEW stored,
         own.at = "write header",
         own.base # Torn,
         own.base = Absent \/ stored = own.base,
         own.base = Absent => f = <<>>,
         \/ own.table = Unread /\ own.count = Len(Found(own)) /\ Len(Found(own)) > 0
         \/ own.table = Intended(own) /\ own.count = Len(Intended(own))
         \/ own.moved /\ own.count = Len(Found(own)) + 1
  PROVE  Alone(own, f, stored)
  BY Zenon DEF Alone

LEMMA KeepKeeps ==
  ASSUME IInv, Noted, NEW r \in Run, Keep(r)
  PROVE  IInv'
<1> DEFINE own == run[r]
           gone == [own EXCEPT !.at = "write header"]
<1>1. /\ own \in Process /\ Coherent(own, file) /\ own.at = "edit" /\ own.add = None
      /\ file' = file /\ file # Absent
  BY ProcessOf DEF Keep, Coherent
<1>2. CASE Ends(r)
  BY <1>1, <1>2, Ending
<1>3. CASE Goes(r, "write header")
  <2>1. "write header" \in Stage
    BY DEF Stage
  <2>2. /\ gone \in Process
        /\ gone.at = "write header" /\ gone.count = own.count /\ gone.add = own.add
        /\ gone.table = own.table /\ gone.k = own.k /\ gone.base = own.base
        /\ gone.alone = own.alone /\ gone.moved = own.moved
        /\ Found(gone) = Found(own) /\ Intended(gone) = Intended(own)
    BY <1>1, <2>1, At
  <2>3. run' = [run EXCEPT ![r] = gone]
    BY <1>3, <2>1, Going
  <2> HIDE DEF gone
  <2>4. Coherent(gone, file)
    BY <1>1, <2>2 DEF Coherent
  <2>5. ASSUME own.alone PROVE Alone(gone, file, StoredIn(file))
    <3>1. /\ own.base # Torn
          /\ own.base = Absent \/ StoredIn(file) = own.base
          /\ own.base = Absent => file = <<>>
          /\ own.count = Len(Found(own))
          /\ own.table = Found(own) \/ (own.table = Unread /\ Len(Found(own)) > 0)
      BY <1>1, <2>5, ProcessOf DEF Alone
    <3>2. Intended(own) = Found(own)
      BY <1>1 DEF Intended
    <3>3. \/ gone.table = Unread /\ gone.count = Len(Found(gone)) /\ Len(Found(gone)) > 0
          \/ gone.table = Intended(gone) /\ gone.count = Len(Intended(gone))
      BY <2>2, <3>1, <3>2
    <3>4. /\ gone.at = "write header" /\ gone.base # Torn
          /\ gone.base = Absent \/ StoredIn(file) = gone.base
          /\ gone.base = Absent => file = <<>>
      BY <2>2, <3>1
    <3> QED
      BY ONLY <3>3, <3>4, AloneToWrite, Zenon
  <2> QED
    BY <1>1, <2>2, <2>3, <2>4, <2>5, Quiet
<1> QED
  BY <1>2, <1>3 DEF Keep

LEMMA AddKeeps ==
  ASSUME IInv, Noted, NEW r \in Run, Add(r)
  PROVE  IInv'
<1> DEFINE own == run[r]
           gone == [own EXCEPT !.at = "write header", !.count = own.count + 1,
                               !.table = Append(own.table, own.add)]
<1>1. /\ own \in Process /\ Coherent(own, file) /\ own.at = "edit" /\ own.add \in Employee
      /\ own.count + 1 < COUNT_MOD /\ own.table # Unread
      /\ file' = file /\ file # Absent
  BY ProcessOf DEF Add, CanAdd, Room, Coherent
<1>2. own.table \in Seq(Record) /\ own.add \in Record /\ own.count \in Nat /\ own.count + 1 \in Count
  BY <1>1, ProcessFields, CountAssumption DEF Count, Record
<1>3. /\ Append(own.table, own.add) \in Seq(Record)
      /\ Len(Append(own.table, own.add)) = Len(own.table) + 1
  BY <1>2, AppendProperties
<1>4. /\ gone \in Process
      /\ gone.at = "write header" /\ gone.count = own.count + 1 /\ gone.add = own.add
      /\ gone.table = Append(own.table, own.add) /\ gone.k = own.k /\ gone.base = own.base
      /\ gone.alone = own.alone /\ gone.moved = own.moved
      /\ Found(gone) = Found(own) /\ Intended(gone) = Intended(own)
  BY <1>1, <1>2, <1>3 DEF Process, Stage, Found, Intended
<1>5. run' = [run EXCEPT ![r] = gone]
  BY DEF Add, Counted
<1> HIDE DEF gone
<1>6. Coherent(gone, file)
  BY <1>1, <1>3, <1>4 DEF Coherent
<1>7. ASSUME own.alone PROVE Alone(gone, file, StoredIn(file))
  <2>1. /\ own.base # Torn
        /\ own.base = Absent \/ StoredIn(file) = own.base
        /\ own.base = Absent => file = <<>>
        /\ own.count = Len(Found(own))
        /\ own.table = Found(own)
    BY <1>1, <1>7, ProcessOf DEF Alone
  <2>2. Intended(own) = Append(own.table, own.add)
    BY <1>1, <2>1, Names DEF Intended
  <2>3. Len(Intended(own)) = own.count + 1
    BY <1>3, <2>1, <2>2
  <2>4. /\ gone.at = "write header" /\ gone.base # Torn
        /\ gone.base = Absent \/ StoredIn(file) = gone.base
        /\ gone.base = Absent => file = <<>>
    BY <1>4, <2>1
  <2>5. gone.table = Intended(gone) /\ gone.count = Len(Intended(gone))
    BY <1>4, <2>2, <2>3
  <2> QED
    BY ONLY <2>4, <2>5, AloneToWrite, Zenon
<1> QED
  BY <1>1, <1>4, <1>5, <1>6, <1>7, Quiet

LEMMA AddMovedKeeps ==
  ASSUME IInv, Noted, NEW r \in Run, AddMoved(r)
  PROVE  IInv'
<1> DEFINE own == run[r]
           table == [k \in 1..(own.count + 1) |-> Garbage]
           gone == [own EXCEPT !.at = "write header", !.count = own.count + 1, !.moved = TRUE,
                               !.table = table]
<1>1. /\ own \in Process /\ Coherent(own, file) /\ own.at = "edit" /\ own.add \in Employee
      /\ own.count + 1 < COUNT_MOD
      /\ file' = file /\ file # Absent
  BY ProcessOf DEF AddMoved, CanAdd, Room, Coherent
<1>2. own.count \in Nat /\ own.count + 1 \in Count
  BY <1>1, ProcessFields, CountAssumption DEF Count
<1>3. table \in Seq(Record) /\ Len(table) = own.count + 1
  <2>1. table \in [1..(own.count + 1) -> Record]
    BY DEF Record
  <2> HIDE DEF table
  <2>2. table \in Seq(Record) /\ DOMAIN table = 1..(own.count + 1) /\ own.count + 1 \in Nat
    BY <1>2, <2>1, SeqDef
  <2> QED
    BY <2>2, LenProperties
<1>4. Ends(r) \/ run' = [run EXCEPT ![r] = gone]
  BY DEF AddMoved, Counted
<1> HIDE DEF table
<1>5. /\ gone \in Process
      /\ gone.at = "write header" /\ gone.count = own.count + 1
      /\ gone.table = table /\ gone.k = own.k /\ gone.base = own.base
      /\ gone.alone = own.alone /\ gone.moved = TRUE /\ Found(gone) = Found(own)
  BY <1>1, <1>2, <1>3 DEF Process, Stage, Found
<1> HIDE DEF gone
<1>6. Coherent(gone, file)
  BY <1>1, <1>3, <1>5 DEF Coherent
<1>7. ASSUME own.alone PROVE Alone(gone, file, StoredIn(file))
  <2>1. /\ own.base # Torn
        /\ own.base = Absent \/ StoredIn(file) = own.base
        /\ own.base = Absent => file = <<>>
        /\ own.count = Len(Found(own))
    BY <1>1, <1>7, ProcessOf DEF Alone
  <2>2. gone.moved /\ gone.count = Len(Found(gone)) + 1
    BY <1>5, <2>1
  <2>3. /\ gone.at = "write header" /\ gone.base # Torn
        /\ gone.base = Absent \/ StoredIn(file) = gone.base
        /\ gone.base = Absent => file = <<>>
    BY <1>5, <2>1
  <2> QED
    BY ONLY <2>2, <2>3, AloneToWrite, Zenon
<1>8. CASE run' = [run EXCEPT ![r] = gone]
  BY <1>1, <1>5, <1>6, <1>7, <1>8, Quiet
<1>9. CASE Ends(r)
  BY <1>1, <1>9, Ending
<1> QED
  BY <1>4, <1>8, <1>9

\* One write of output_file: the header, or a record after it.
LEMMA UnitWritten ==
  ASSUME IInv, file # Absent, NEW n \in 1..(Len(file) + 1), NEW unit, WriteUnit(n, unit),
         \/ n = 1 /\ \E count \in Count : unit = Header(count)
         \/ n > 1 /\ unit \in Record
  PROVE  /\ Shaped(file') /\ file' # Absent
         /\ Holds(file', longest)
         /\ Grown(file, file')
         /\ file'[n] = unit
         /\ Len(file) \in Nat
         /\ Len(file') = IF n > Len(file) THEN n ELSE Len(file)
         /\ \A j \in 1..Len(file) : j # n => file'[j] = file[j]
<1> DEFINE U == Record \cup HeaderUnit
<1>1. file = <<>> \/ Shaped(file)
  BY FileOf DEF File
<1>2. file \in Seq(U)
  BY <1>1, Names DEF Shaped, Units
<1>3. unit \in U
  BY Names
<1> HIDE DEF U
<1>4. /\ file' \in Seq(U)
      /\ Len(file) \in Nat
      /\ Len(file') = IF n > Len(file) THEN n ELSE Len(file)
      /\ file'[n] = unit
      /\ \A j \in 1..Len(file) : j # n => file'[j] = file[j]
  BY <1>2, <1>3, Written
<1>5. Len(file') >= 1 /\ Len(file') >= Len(file) /\ n \in Nat
  BY <1>4
<1>6. file' \in Units /\ file' # Absent /\ file' # <<>>
  <2>1. file' \in Units
    BY <1>4 DEF U, Units
  <2> QED
    BY <1>5, <2>1, Names
<1>7. \E count \in Count : file'[1] = Header(count)
  <2>1. CASE n = 1
    BY <1>4, <2>1
  <2>2. CASE n > 1
    <3>1. Len(file) >= 1 /\ 1 \in 1..Len(file) /\ 1 # n
      BY <1>4, <1>5, <2>2
    <3>2. Shaped(file)
      BY <1>1, <3>1, Names
    <3> QED
      BY <1>4, <3>1, <3>2 DEF Shaped
  <2> QED
    BY <2>1, <2>2
<1>8. ASSUME NEW j \in 2..Len(file') PROVE file'[j] \in Record
  <2>1. CASE j = n
    <3>1. n # 1
      BY <2>1
    <3> QED
      BY <1>4, <2>1, <3>1
  <2>2. CASE j # n
    <3>1. j \in 1..Len(file) /\ j \in 2..Len(file)
      BY <1>4, <1>5, <2>2
    <3>2. Shaped(file)
      <4>1. Len(file) # 0
        BY <3>1
      <4> QED
        BY <1>1, <4>1, Names
    <3> QED
      BY <1>4, <2>2, <3>1, <3>2 DEF Shaped
  <2> QED
    BY <2>1, <2>2
<1>9. Shaped(file')
  BY <1>6, <1>7, <1>8 DEF Shaped
<1>10. Holds(file', longest)
  <2>1. longest \in Nat
    BY FileOf, CountAssumption DEF Count
  <2>2. CASE file = <<>>
    <3>1. longest = 0
      BY <2>2, FileOf DEF Holds
    <3> QED
      BY <1>5, <1>6, <3>1 DEF Holds
  <2>3. CASE file # <<>>
    <3>1. longest < Len(file)
      BY <2>3, FileOf DEF Holds
    <3>2. longest < Len(file')
      BY <1>4, <1>5, <2>1, <3>1
    <3> QED
      BY <1>6, <3>2 DEF Holds
  <2> QED
    BY <2>2, <2>3
<1>11. Grown(file, file')
  BY <1>5, <1>6 DEF Grown
<1> QED
  BY <1>4, <1>6, <1>9, <1>10, <1>11

\* What a process that was alone has written.
SoFar(own, f) ==
  LET n == Len(Found(own)) IN
  /\ f[1] = Header(own.count)
  /\ Len(f) = IF own.k > FileSize(n) THEN own.k ELSE FileSize(n)
  /\ own.table = Unread => own.k = 1
  /\ \A j \in 1..(Len(f) - 1) :
       f[j + 1] = IF j < own.k THEN own.table[j] ELSE Found(own)[j]

LEMMA AloneInWriting ==
  ASSUME NEW own, NEW f, NEW stored, own.at = "write records"
  PROVE  Alone(own, f, stored) <=>
           /\ own.base # Torn
           /\ \/ own.table = Unread /\ own.count = Len(Found(own)) /\ Len(Found(own)) > 0
              \/ own.table = Intended(own) /\ own.count = Len(Intended(own))
              \/ own.moved /\ own.count = Len(Found(own)) + 1
           /\ SoFar(own, f)
  BY Zenon DEF Alone, SoFar

\* The table a process found, as the file holds it.
LEMMA FoundInFile ==
  ASSUME NEW own \in Process, own.base # Torn, NEW f, File(f),
         own.base # Absent => StoredIn(f) = own.base,
         own.base = Absent => f = <<>>
  PROVE  /\ Len(Found(own)) \in Nat
         /\ own.base = Absent => Len(Found(own)) = 0
         /\ own.base # Absent => /\ f # <<>>
                                 /\ Len(f) = 1 + Len(Found(own))
                                 /\ \A j \in 1..Len(Found(own)) : f[j + 1] = Found(own)[j]
<1>1. CASE own.base = Absent
  BY <1>1, Names DEF Found
<1>2. CASE own.base # Absent
  <2>1. own.base \in Seq(Record)
    BY <1>2, ProcessFields
  <2>2. Found(own) = own.base /\ StoredIn(f) = own.base
    BY <1>2 DEF Found
  <2>3. f # <<>> /\ Shaped(f) /\ StoredIn(f) # Torn
    BY <2>1, <2>2, StoredType, Names DEF File
  <2>4. PICK count \in Count :
          /\ Len(f) = 1 + count /\ Len(StoredIn(f)) = count
          /\ \A j \in 1..count : StoredIn(f)[j] = f[j + 1]
    BY <2>3, StoredInShaped
  <2> QED
    BY <1>2, <2>1, <2>2, <2>3, <2>4, LenProperties
<1> QED
  BY <1>1, <1>2

LEMMA WriteHeaderKeeps ==
  ASSUME IInv, Noted, NEW r \in Run, WriteHeader(r)
  PROVE  IInv'
<1> DEFINE own == run[r]
           gone == [own EXCEPT !.at = "write records"]
<1>1. /\ own \in Process /\ Coherent(own, file) /\ own.at = "write header"
      /\ file # Absent /\ own.k = 1 /\ own.count \in Count
      /\ WriteUnit(1, Header(own.count))
  BY ProcessOf DEF WriteHeader, Coherent, Header, Process
<1>2. "write records" \in Stage
  BY DEF Stage
<1>3. /\ gone \in Process
      /\ gone.at = "write records" /\ gone.count = own.count
      /\ gone.table = own.table /\ gone.k = own.k /\ gone.base = own.base
      /\ gone.alone = own.alone /\ gone.moved = own.moved
      /\ Found(gone) = Found(own) /\ Intended(gone) = Intended(own)
  BY <1>1, <1>2, At
<1>4. run' = [run EXCEPT ![r] = gone]
  BY <1>2, Going DEF WriteHeader
<1> HIDE DEF gone
<1>5. Len(file) \in Nat
  <2>1. file = <<>> \/ Shaped(file)
    BY <1>1, FileOf DEF File
  <2> QED
    BY <2>1, StoredInShaped, Names
<1>6. /\ Shaped(file') /\ file' # Absent
      /\ Holds(file', longest)
      /\ Grown(file, file')
      /\ file'[1] = Header(own.count)
      /\ Len(file') = IF 1 > Len(file) THEN 1 ELSE Len(file)
      /\ \A j \in 1..Len(file) : j # 1 => file'[j] = file[j]
  <2>1. 1 \in 1..(Len(file) + 1)
    BY <1>5
  <2> QED
    BY <1>1, <2>1, UnitWritten
<1>7. own.count \in Nat /\ Len(file') >= 1 /\ file' # <<>>
  <2>1. own.count \in Nat
    BY <1>1, ProcessFields
  <2>2. Len(file') >= 1
    BY <1>5, <1>6
  <2> QED
    BY <1>6, <2>1, <2>2 DEF Shaped
<1>8. Coherent(gone, file')
  <2>1. own.table = Unread \/ Len(own.table) = own.count
    BY <1>1 DEF Coherent
  <2>2. gone.k <= Len(file') /\ gone.k <= gone.count + 1
    <3>1. gone.k = 1 /\ gone.count = own.count
      BY <1>1, <1>3
    <3>2. 1 <= Len(file') /\ 1 <= own.count + 1
      BY <1>7
    <3> QED
      BY <3>1, <3>2
  <2> QED
    BY <1>3, <1>6, <1>7, <2>1, <2>2 DEF Coherent
<1>9. ASSUME own.alone PROVE Alone(gone, file', StoredIn(file'))
  <2>1. /\ own.base # Torn
        /\ own.base = Absent \/ StoredIn(file) = own.base
        /\ own.base = Absent => file = <<>>
        /\ \/ own.table = Unread /\ own.count = Len(Found(own)) /\ Len(Found(own)) > 0
           \/ own.table = Intended(own) /\ own.count = Len(Intended(own))
           \/ own.moved /\ own.count = Len(Found(own)) + 1
    BY <1>1, <1>9, ProcessOf, Zenon DEF Alone
  <2>2. /\ Len(Found(own)) \in Nat
        /\ own.base = Absent => Len(Found(own)) = 0
        /\ own.base # Absent => /\ file # <<>>
                                /\ Len(file) = 1 + Len(Found(own))
                                /\ \A j \in 1..Len(Found(own)) : file[j + 1] = Found(own)[j]
    BY <1>1, <2>1, FoundInFile, FileOf
  <2>3. FileSize(Len(Found(own))) = 1 + Len(Found(own))
    BY <2>2, Names
  <2>4. Len(file') = 1 + Len(Found(own))
    <3>1. CASE own.base = Absent
      <4>1. Len(file) = 0 /\ Len(Found(own)) = 0
        BY <2>1, <2>2, <3>1, Names
      <4> QED
        BY <1>6, <4>1
    <3>2. CASE own.base # Absent
      BY <1>6, <2>2, <3>2
    <3> QED
      BY <3>1, <3>2
  <2>5. \A j \in 1..Len(Found(own)) : file'[j + 1] = Found(own)[j]
    <3> SUFFICES ASSUME NEW j \in 1..Len(Found(own)) PROVE file'[j + 1] = Found(own)[j]
      OBVIOUS
    <3>1. own.base # Absent
      BY <2>2
    <3>2. j + 1 \in 1..Len(file) /\ j + 1 # 1 /\ file[j + 1] = Found(own)[j]
      BY <2>2, <3>1
    <3> QED
      BY <1>6, <3>2
  <2>6. SoFar(gone, file')
    <3>1. gone.k = 1 /\ Found(gone) = Found(own) /\ gone.count = own.count
      BY <1>1, <1>3
    <3>2. Len(file') = IF 1 > FileSize(Len(Found(own))) THEN 1 ELSE FileSize(Len(Found(own)))
      BY <2>2, <2>3, <2>4
    <3>3. \A j \in 1..(Len(file') - 1) : ~ j < 1 /\ j \in 1..Len(Found(own))
      BY <2>2, <2>4
    <3> QED
      BY <1>6, <2>5, <3>1, <3>2, <3>3 DEF SoFar
  <2>7. /\ gone.base # Torn
        /\ \/ gone.table = Unread /\ gone.count = Len(Found(gone)) /\ Len(Found(gone)) > 0
           \/ gone.table = Intended(gone) /\ gone.count = Len(Intended(gone))
           \/ gone.moved /\ gone.count = Len(Found(gone)) + 1
    BY <1>3, <2>1
  <2> QED
    BY <1>3, <2>6, <2>7, AloneInWriting
<1> QED
  BY <1>1, <1>3, <1>4, <1>6, <1>8, <1>9, OneMoves DEF File

LEMMA WriteRecordKeeps ==
  ASSUME IInv, Noted, NEW r \in Run, WriteRecord(r)
  PROVE  IInv'
<1> DEFINE own == run[r]
           k == own.k
           gone == [own EXCEPT !.k = k + 1]
<1>1. /\ own \in Process /\ Coherent(own, file) /\ own.at = "write records"
      /\ file # Absent /\ file # <<>>
      /\ k <= own.count /\ k <= Len(file)
      /\ own.table # Unread /\ Len(own.table) = own.count
      /\ WriteUnit(HEADER + k, own.table[k])
  BY ProcessOf DEF WriteRecord, Coherent
<1>2. /\ k \in Nat /\ k >= 1 /\ own.count \in Nat /\ own.count < COUNT_MOD
      /\ own.table \in Seq(Record) /\ HEADER + k = k + 1
  <2>1. k \in Nat /\ k >= 1 /\ own.count \in Nat /\ own.count < COUNT_MOD
    BY <1>1, ProcessFields
  <2>2. own.table \in Seq(Record)
    BY <1>1, ProcessFields
  <2>3. HEADER + k = k + 1
    BY ONLY <2>1 DEF HEADER
  <2> QED
    BY <2>1, <2>2, <2>3
<1>3. own.table[k] \in Record
  <2>1. Len(own.table) = own.count /\ k <= own.count
    BY <1>1
  <2>2. k \in 1..Len(own.table)
    BY ONLY <1>2, <2>1
  <2> QED
    BY <1>2, <2>2, ElementOfSeq
<1>4. k + 1 \in 1..COUNT_MOD
  <2>1. k <= own.count /\ COUNT_MOD \in Nat
    BY <1>1, CountAssumption
  <2> QED
    BY ONLY <1>2, <2>1
<1>5. /\ gone \in Process
      /\ gone.at = own.at /\ gone.count = own.count
      /\ gone.table = own.table /\ gone.k = k + 1 /\ gone.base = own.base
      /\ gone.alone = own.alone /\ gone.moved = own.moved
      /\ Found(gone) = Found(own) /\ Intended(gone) = Intended(own)
  BY <1>1, <1>4 DEF Process, Found, Intended
<1>6. run' = [run EXCEPT ![r] = gone]
  BY DEF WriteRecord
<1> HIDE DEF gone
<1>7. Len(file) \in Nat
  BY <1>1, FileOf, StoredInShaped DEF File
<1>8. /\ Shaped(file') /\ file' # Absent
      /\ Holds(file', longest)
      /\ Grown(file, file')
      /\ file'[k + 1] = own.table[k]
      /\ Len(file') = IF k + 1 > Len(file) THEN k + 1 ELSE Len(file)
      /\ \A j \in 1..Len(file) : j # k + 1 => file'[j] = file[j]
  <2>1. k + 1 \in 1..(Len(file) + 1) /\ k + 1 > 1
    <3>1. k <= Len(file)
      BY <1>1
    <3> QED
      BY ONLY <1>2, <1>7, <3>1
  <2>2. WriteUnit(k + 1, own.table[k])
    BY <1>1, <1>2
  <2> QED
    BY <1>1, <1>3, <2>1, <2>2, UnitWritten
<1>9. Coherent(gone, file')
  <2>1. gone.k <= Len(file') /\ gone.k <= gone.count + 1 /\ file' # <<>>
    <3>1. k + 1 <= Len(file') /\ k + 1 <= own.count + 1
      <4>1. k <= own.count
        BY <1>1
      <4> QED
        BY ONLY <1>2, <1>7, <1>8, <4>1
    <3>2. file' # <<>>
      BY <1>8 DEF Shaped
    <3> QED
      BY <1>5, <3>1, <3>2
  <2> QED
    BY <1>1, <1>5, <1>8, <2>1 DEF Coherent
<1>10. ASSUME own.alone PROVE Alone(gone, file', StoredIn(file'))
  <2>1. Alone(own, file, StoredIn(file))
    BY <1>1, <1>10, ProcessOf
  <2>2. /\ own.base # Torn
        /\ \/ own.table = Intended(own) /\ own.count = Len(Intended(own))
           \/ own.moved /\ own.count = Len(Found(own)) + 1
        /\ SoFar(own, file)
    BY <1>1, <2>1, AloneInWriting
  <2> DEFINE n == Len(Found(own))
  <2>3. n \in Nat /\ FileSize(n) = 1 + n
    <3>1. Found(own) \in Seq(Record)
      BY <1>1, <2>2, ProcessFields, Names DEF Found
    <3>2. n \in Nat
      BY <3>1, LenProperties
    <3> QED
      BY <3>2, Names
  <2>4. /\ file[1] = Header(own.count)
        /\ Len(file) = IF k > 1 + n THEN k ELSE 1 + n
        /\ \A j \in 1..(Len(file) - 1) :
             file[j + 1] = IF j < k THEN own.table[j] ELSE Found(own)[j]
    BY <2>2, <2>3 DEF SoFar
  <2> HIDE DEF n
  <2>5. Len(file') = IF k + 1 > 1 + n THEN k + 1 ELSE 1 + n
    BY <1>2, <1>7, <1>8, <2>3, <2>4
  <2>6. file'[1] = Header(own.count)
    <3>1. 1 \in 1..Len(file) /\ 1 # k + 1
      <4>1. k <= Len(file)
        BY <1>1
      <4> QED
        BY ONLY <1>2, <1>7, <4>1
    <3> QED
      BY <1>8, <2>4, <3>1
  <2>7. ASSUME NEW j \in 1..(Len(file') - 1)
        PROVE  file'[j + 1] = IF j < k + 1 THEN own.table[j] ELSE Found(own)[j]
    <3>1. CASE j = k
      <4>1. j < k + 1
        BY <1>2, <3>1
      <4> QED
        BY <1>8, <3>1, <4>1
    <3>2. CASE j # k
      <4>1. /\ j \in 1..(Len(file) - 1) /\ j + 1 \in 1..Len(file) /\ j + 1 # k + 1
            /\ (j < k + 1) <=> (j < k)
        <5>1. Len(file) = IF k > 1 + n THEN k ELSE 1 + n
          BY <2>4
        <5>2. k \in Nat /\ k >= 1 /\ n \in Nat
          BY <1>2, <2>3
        <5>3. j \in 1..((IF k + 1 > 1 + n THEN k + 1 ELSE 1 + n) - 1)
          BY <2>5
        <5> HIDE DEF k
        <5> QED
          BY ONLY <3>2, <5>1, <5>2, <5>3
      <4>2. file'[j + 1] = file[j + 1]
        BY <1>8, <4>1
      <4> QED
        BY <2>4, <4>1, <4>2
    <3> QED
      BY <3>1, <3>2
  <2>8. SoFar(gone, file')
    <3>1. gone.k = k + 1 /\ gone.table = own.table /\ gone.table # Unread
      BY <1>1, <1>5
    <3>2. Found(gone) = Found(own) /\ gone.count = own.count /\ FileSize(Len(Found(gone))) = 1 + n
      BY <1>5, <2>3 DEF n
    <3> QED
      BY <2>5, <2>6, <2>7, <3>1, <3>2 DEF SoFar
  <2>9. /\ gone.base # Torn
        /\ \/ gone.table = Intended(gone) /\ gone.count = Len(Intended(gone))
           \/ gone.moved /\ gone.count = Len(Found(gone)) + 1
    BY <1>5, <2>2
  <2> QED
    BY <1>1, <1>5, <2>8, <2>9, AloneInWriting
<1> QED
  BY <1>1, <1>5, <1>6, <1>8, <1>9, <1>10, OneMoves DEF File

\* The inductive invariant: what processes hold and what the file holds fit together,
\* and a process that is alone is on the way from what it found to what it is to save
\* (main.c:42-103, parse.c:40-165, file.c:7-34).
THEOREM Inductive == Spec => []IInv
<1>1. Init => IInv
  <2> SUFFICES ASSUME Init PROVE IInv
    OBVIOUS
  <2>1. run = [r \in Run |-> Off] /\ file = Absent /\ longest = 0
    BY DEF Init
  <2>2. 0 \in Count
    BY CountAssumption DEF Count
  <2>3. run \in [Run -> Process] /\ \A r \in Run : run[r].at = "off" /\ Coherent(run[r], file)
    BY <2>1, OffType
  <2> QED
    BY <2>1, <2>2, <2>3 DEF IInv, TypeOK, FileShape
<1>2. IInv /\ [Next]_vars => IInv'
  <2> SUFFICES ASSUME IInv, [Next]_vars PROVE IInv'
    OBVIOUS
  <2>1. CASE UNCHANGED vars
    <3>1. run' = run /\ file' = file /\ longest' = longest
      BY <2>1 DEF vars
    <3>2. Stored' = Stored
      BY <3>1 DEF Stored, Fits
    <3> QED
      BY <3>1, <3>2 DEF IInv, TypeOK, FileShape
  <2>2. ASSUME Noted, NEW r \in Run, Step(r)
        PROVE  IInv'
    <3>1. CASE Start(r)
      BY <2>2, <3>1, StartKeeps
    <3>2. CASE Probe(r) \/ Open(r)
      BY <2>2, <3>2, OpeningKeeps
    <3>3. CASE CreateFile(r)
      BY <2>2, <3>3, CreateFileKeeps
    <3>4. CASE ReadHeader(r)
      BY <2>2, <3>4, ReadHeaderKeeps
    <3>5. CASE Stat(r)
      BY <2>2, <3>5, StatKeeps
    <3>6. CASE ReadRecords(r)
      BY <2>2, <3>6, ReadRecordsKeeps
    <3>7. CASE ReadFails(r)
      BY <2>2, <3>7, ReadFailsKeeps
    <3>8. CASE Keep(r)
      BY <2>2, <3>8, KeepKeeps
    <3>9. CASE AddFails(r) \/ Exit(r) \/ Kill(r)
      <4>1. run[r].at # "off" /\ Ends(r) /\ file' = file
        BY <3>9 DEF AddFails, Exit, Kill
      <4> QED
        BY <2>2, <4>1, Ending
    <3>10. CASE Add(r)
      BY <2>2, <3>10, AddKeeps
    <3>11. CASE AddMoved(r)
      BY <2>2, <3>11, AddMovedKeeps
    <3>12. CASE WriteHeader(r)
      BY <2>2, <3>12, WriteHeaderKeeps
    <3>13. CASE WriteRecord(r)
      BY <2>2, <3>13, WriteRecordKeeps
    <3> QED
      BY <2>2, <3>1, <3>2, <3>3, <3>4, <3>5, <3>6, <3>7, <3>8, <3>9, <3>10, <3>11, <3>12, <3>13
         DEF Step
  <2> QED
    BY <2>1, <2>2 DEF Next, Noted
<1> QED
  BY <1>1, <1>2, PTL DEF Spec

-----------------------------------------------------------------------------
(* What follows from the invariant.                                        *)

\* Every variable keeps its type: counts and sizes within the width of the header's
\* (common.h, parse.h).
THEOREM TypeCorrect == Spec => []TypeOK
  BY Inductive, PTL DEF IInv

\* What an accepted file holds is one record shorter than the file, and the file is
\* longer than any table that ever was accepted: however many runs overlap, no accepted
\* file is followed by a shorter one (file.c:22-33, parse.c:67-71).
THEOREM AcceptedAlwaysNeverShorter == Spec => []AcceptedNeverShorter
<1>1. IInv => AcceptedNeverShorter
  <2> SUFFICES ASSUME IInv, Accepted PROVE Len(Stored) >= longest
    BY DEF AcceptedNeverShorter
  <2>1. StoredIn(file) \in Seq(Record) /\ Stored = StoredIn(file)
    BY FileOf, StoredType, StoredNow DEF Accepted
  <2>2. /\ file \notin {Absent, <<>>}
        /\ Len(file) = 1 + Len(Stored)
        /\ Len(Stored) \in Nat
    BY <2>1, FileOf, StoredType, LenProperties
  <2>3. longest < Len(file) /\ longest \in Nat
    BY <2>2, FileOf, CountAssumption DEF Holds, Count
  <2> QED
    BY <2>2, <2>3
<1> QED
  BY <1>1, Inductive, PTL

\* While a process that is alone writes, the file is what it found, or refused, or what
\* the process has in memory; and when it has written everything it is that.
LEMMA WritingIsAtomic ==
  ASSUME NEW own \in Process, NEW f, Shaped(f), own.at = "write records",
         Coherent(own, f), Alone(own, f, StoredIn(f))
  PROVE  /\ StoredIn(f) \in {own.base, Torn} \/ StoredIn(f) = own.table
         /\ own.k > own.count => StoredIn(f) = own.table
<1> DEFINE n == Len(Found(own))
           k == own.k
           count == own.count
           len == Len(f)
<1>1. /\ own.base # Torn
      /\ \/ own.table = Unread /\ count = n /\ n > 0
         \/ own.table = Intended(own) /\ count = Len(Intended(own))
         \/ own.moved /\ count = n + 1
      /\ SoFar(own, f)
  BY AloneInWriting
<1>2. Found(own) \in Seq(Record) /\ n \in Nat /\ FileSize(n) = 1 + n
  <2>1. Found(own) \in Seq(Record)
    BY <1>1, ProcessFields, Names DEF Found
  <2>2. n \in Nat
    BY <2>1, LenProperties
  <2>3. FileSize(n) = 1 + n
    <3>1. \A c \in Nat : FileSize(c) = 1 + c
      BY ONLY DEF FileSize, HEADER
    <3> QED
      BY <2>2, <3>1
  <2> QED
    BY <2>1, <2>2, <2>3
<1>3. own.table = Unread \/ (own.table \in Seq(Record) /\ Len(own.table) = count)
  <2>1. own.table = Unread \/ own.table \in Seq(Record)
    BY ProcessFields
  <2> QED
    BY <2>1 DEF Coherent
<1>4. /\ f[1] = Header(count)
      /\ own.table = Unread => k = 1
      /\ \A j \in 1..(len - 1) :
           f[j + 1] = IF j < k THEN own.table[j] ELSE Found(own)[j]
  BY <1>1, <1>2 DEF SoFar
<1>5. /\ n \in Nat /\ k \in Nat /\ k >= 1 /\ count \in Nat /\ k <= count + 1
      /\ len \in Nat /\ len = IF k > 1 + n THEN k ELSE 1 + n
  <2>1. k \in Nat /\ k >= 1 /\ count \in Nat
    BY ProcessFields
  <2>2. k <= count + 1
    BY DEF Coherent
  <2>3. len \in Nat
    BY StoredInShaped
  <2>4. len = IF k > 1 + n THEN k ELSE 1 + n
    BY <1>1, <1>2 DEF SoFar
  <2> QED
    BY <1>2, <2>1, <2>2, <2>3, <2>4
<1>6. /\ own.add = None => Intended(own) = Found(own)
      /\ own.add # None => Len(Intended(own)) = n + 1
  <2>1. own.add # None => own.add \in Record \cup {Malformed}
    BY ProcessFields DEF Record
  <2>2. \A e : Append(Found(own), e) \in Seq(Record \cup {e}) /\ Len(Append(Found(own), e)) = n + 1
    <3> SUFFICES ASSUME NEW e
                 PROVE  Append(Found(own), e) \in Seq(Record \cup {e})
                        /\ Len(Append(Found(own), e)) = n + 1
      OBVIOUS
    <3>1. Found(own) \in Seq(Record \cup {e}) /\ e \in Record \cup {e}
      BY <1>2, SeqMonotonic
    <3> QED
      BY <3>1, AppendProperties
  <2> QED
    BY <2>2 DEF Intended
<1>7. count = n \/ count = n + 1
  BY <1>1, <1>6
<1>8. \/ len # 1 + count /\ StoredIn(f) = Torn
      \/ /\ len = 1 + count
         /\ StoredIn(f) \in Seq(Record)
         /\ Len(StoredIn(f)) = count
         /\ \A j \in 1..count : StoredIn(f)[j] = f[j + 1]
  <2>1. count \in Count
    BY DEF Process
  <2>2. Header(count).count = count
    BY <2>1, Names
  <2>3. \A c \in Count : f[1] = Header(c) => c = count
    BY <1>4, <2>2, Names
  <2> QED
    BY <2>3, StoredInShaped
<1>9. own.table # Unread /\ count = n => own.table = Found(own)
  <2> SUFFICES ASSUME own.table # Unread, count = n PROVE own.table = Found(own)
    OBVIOUS
  <2>1. n # n + 1
    BY ONLY <1>5
  <2>2. own.table = Intended(own) /\ Len(Intended(own)) = n
    BY <1>1, <2>1
  <2> QED
    BY <1>6, <2>1, <2>2
<1> HIDE DEF n, k, count, len
<1>10. CASE count = n /\ own.table = Unread
  <2>1. n > 0
    <3>1. count # n + 1
      BY ONLY <1>5, <1>10
    <3>2. CASE own.table = Intended(own) /\ count = Len(Intended(own))
      <4>1. own.table = Found(own)
        BY <1>6, <1>10, <3>1, <3>2 DEF n, count
      <4> QED
        BY <1>2, <1>10, <4>1, Names
    <3> QED
      BY <1>1, <3>1, <3>2 DEF n, count
  <2>2. k = 1 /\ len = 1 + count /\ ~ k > count
    <3>1. k = 1 /\ count = n
      BY <1>4, <1>10
    <3> QED
      BY ONLY <1>5, <2>1, <3>1
  <2>3. \A j \in 1..n : ~ j < k /\ j \in 1..(len - 1)
    BY ONLY <1>5, <1>10, <2>2
  <2>4. /\ StoredIn(f) \in Seq(Record) /\ Len(StoredIn(f)) = n
        /\ \A j \in 1..n : StoredIn(f)[j] = Found(own)[j]
    BY <1>4, <1>8, <1>10, <2>2, <2>3
  <2>5. StoredIn(f) = Found(own)
    BY <1>2, <2>4, SeqEqual DEF n
  <2>6. own.base # Absent
    <3> SUFFICES ASSUME own.base = Absent PROVE FALSE
      OBVIOUS
    <3>1. n = 0
      BY Names DEF n, Found
    <3> QED
      BY ONLY <2>1, <3>1
  <2> QED
    BY <2>2, <2>5, <2>6 DEF Found, k, count
<1>11. CASE own.table # Unread
  <2>1. CASE len = 1 + count
    <3>1. ASSUME NEW j \in 1..count PROVE f[j + 1] = own.table[j]
      <4>1. j \in 1..(len - 1)
        BY ONLY <1>5, <2>1
      <4>2. CASE count = n
        BY <1>4, <1>9, <1>11, <4>1, <4>2
      <4>3. CASE count = n + 1
        <5>1. j < k
          BY ONLY <1>5, <2>1, <4>3
        <5> QED
          BY <1>4, <4>1, <5>1
      <4> QED
        BY <1>7, <4>2, <4>3 DEF n, count
    <3>2. own.table \in Seq(Record) /\ Len(own.table) = count
      BY <1>3, <1>11
    <3>3. /\ StoredIn(f) \in Seq(Record) /\ Len(StoredIn(f)) = count
          /\ \A j \in 1..count : StoredIn(f)[j] = own.table[j]
      BY <1>8, <2>1, <3>1
    <3>4. StoredIn(f) = own.table
      BY <3>2, <3>3, SeqEqual
    <3> QED
      BY <3>4
  <2>2. CASE len # 1 + count
    <3>1. StoredIn(f) = Torn
      BY <1>8, <2>2
    <3>2. ~ k > count
      BY ONLY <1>5, <1>7, <2>2
    <3> QED
      BY <3>1, <3>2 DEF k, count
  <2> QED
    BY <2>1, <2>2
<1>12. CASE count = n + 1 /\ own.table = Unread
  <2>1. k = 1
    BY <1>4, <1>12
  <2>2. len # 1 + count /\ ~ k > count
    BY ONLY <1>5, <1>12, <2>1
  <2> QED
    BY <1>8, <2>2 DEF k, count
<1> QED
  BY <1>7, <1>10, <1>11, <1>12

\* A run that no other overlaps is atomic: killed or not, it leaves the file as it found
\* it, as it is to be, or refused, and a file it found refused it leaves alone
\* (main.c:60-102, parse.c:132-156).
THEOREM AloneRunAlwaysAtomic == Spec => []AloneRunIsAtomic
<1>1. IInv => AloneRunIsAtomic
  <2> SUFFICES ASSUME IInv, NEW r \in Run, run[r].at # "off", run[r].alone
               PROVE  LET own == run[r]
                          writing == own.at \in {"write header", "write records"}
                      IN  /\ StoredIn(file) \in {own.base, Torn} \/ (writing /\ StoredIn(file) = own.table)
                          /\ StoredIn(file) = Torn => own.base \in {Torn, Absent} \/ writing
                          /\ writing =>
                               /\ own.base # Torn
                               /\ own.moved \/ own.table \in {Unread, Intended(own)}
                          /\ own.at = "write records" /\ own.k > own.count =>
                               StoredIn(file) = own.table
    BY StoredNow, Zenon DEF AloneRunIsAtomic
  <2> DEFINE own == run[r]
  <2>1. own \in Process /\ Coherent(own, file) /\ Alone(own, file, StoredIn(file))
    BY ProcessOf
  <2> HIDE DEF own
  <2>2. CASE own.at \in {"probe", "open", "header", "stat", "records"}
    <3>1. StoredIn(file) = own.base
      BY <2>1, <2>2 DEF Alone
    <3> QED
      BY <2>2, <3>1 DEF own
  <2>3. CASE own.at = "create"
    <3>1. StoredIn(file) = own.base /\ own.base = Absent /\ Absent # Torn
      BY <2>1, <2>3, StoredInNone, Names DEF Alone
    <3> QED
      BY <2>3, <3>1 DEF own
  <2>4. CASE own.at \in {"edit", "write header"}
    <3>1. /\ own.base # Torn
          /\ own.base = Absent \/ StoredIn(file) = own.base
          /\ own.base = Absent => file = <<>>
      BY <2>1, <2>4 DEF Alone
    <3>2. StoredIn(file) \in {own.base, Torn}
      BY <3>1, StoredInNone
    <3>3. own.at = "write header" => own.moved \/ own.table \in {Unread, Intended(own)}
      BY <2>1, Zenon DEF Alone
    <3> QED
      BY <2>4, <3>1, <3>2, <3>3 DEF own
  <2>5. CASE own.at = "write records"
    <3>1. /\ own.base # Torn
          /\ own.moved \/ own.table \in {Unread, Intended(own)}
      BY <2>1, <2>5, Zenon DEF Alone
    <3>2. Shaped(file)
      BY <2>1, <2>5, FileOf DEF Coherent, File
    <3>3. /\ StoredIn(file) \in {own.base, Torn} \/ StoredIn(file) = own.table
          /\ own.k > own.count => StoredIn(file) = own.table
      BY <2>1, <2>5, <3>2, WritingIsAtomic
    <3> QED
      BY <2>5, <3>1, <3>3 DEF own
  <2>6. own.at \in Stage /\ own.at # "off"
    BY <2>1 DEF Process, own
  <2> QED
    BY <2>2, <2>3, <2>4, <2>5, <2>6 DEF Stage
<1> QED
  BY <1>1, Inductive, PTL
=============================================================================
