----------------------------- MODULE DbSystemProofs -----------------------------
(***************************************************************************)
(* Proofs about DbSystem, for any number of clients, any width of the      *)
(* count, any size of the connections and of the table of clients, and     *)
(* whatever is cut, killed or crashes: what a client was told and printed  *)
(* is what the server did, and the file is up to date.                     *)
(***************************************************************************)
EXTENDS DbSystemInvariant, SequenceTheorems, FiniteSetTheorems, TLAPS

-----------------------------------------------------------------------------
(* The store: what EmployeeStoreProofs proves, where no call fails.        *)

Proofs == INSTANCE EmployeeStoreProofs WITH Employee <- Client \cup {Cut}, FAULTS <- {}

LEMMA StoreAssumptions ==
  /\ Proofs!ValueAssumption /\ Proofs!CountAssumption
  /\ Proofs!FaultAssumption /\ Proofs!AbsenceAssumption
<1>1. Proofs!ValueAssumption
  BY NameAssumption, StoreAssumption DEF Proofs!ValueAssumption
<1>2. Proofs!CountAssumption /\ Proofs!FaultAssumption
  BY StoreAssumption DEF Proofs!CountAssumption, Proofs!FaultAssumption
<1>3. Proofs!AbsenceAssumption
  <2>1. Proofs!HeaderUnit = Store!HeaderUnit /\ Proofs!HalfUnit = Store!HalfUnit
    BY DEF Store!HeaderUnit, Proofs!HeaderUnit, Store!HalfUnit, Proofs!HalfUnit,
           Store!FileSize, Proofs!FileSize, Store!HEADER, Proofs!HEADER, Store!RECORD,
           Proofs!RECORD, Store!Order, Proofs!Order
  <2>2. (Client \cup {Cut}) \cup {Garbage} = Client \cup {Cut, Garbage}
    OBVIOUS
  <2> QED
    BY <2>1, <2>2, StoreAssumption DEF Proofs!AbsenceAssumption
<1> QED
  BY <1>1, <1>2, <1>3

\* The store of DbSystem and the one the proofs are about define the same.
LEMMA SameInvariant == (Store!IInv <=> Proofs!IInv) /\ (Store!Whole <=> Proofs!Whole)
<1>1. Store!IInv <=> Proofs!IInv
  BY DEF Store!IInv, Proofs!IInv, Store!TypeOK, Proofs!TypeOK, Store!Phase,
         Proofs!Phase, Store!Record, Proofs!Record, Store!HeaderUnit, Proofs!HeaderUnit,
         Store!HalfUnit, Proofs!HalfUnit, Store!InMemory, Proofs!InMemory, Store!OnDisk,
         Proofs!OnDisk, Store!Between, Proofs!Between, Store!Saving, Proofs!Saving,
         Store!NetHeader, Proofs!NetHeader, Store!Holds, Proofs!Holds, Store!Swapped,
         Proofs!Swapped, Store!HEADER, Proofs!HEADER, Store!RECORD, Proofs!RECORD,
         Store!FileSize, Proofs!FileSize, Store!NoHeader, Proofs!NoHeader,
         Store!IsHeader, Proofs!IsHeader, Store!Order, Proofs!Order, Store!Valid,
         Proofs!Valid, Store!ReadHeader, Proofs!ReadHeader, Store!ReadRecord,
         Proofs!ReadRecord, Store!ReadRecords, Proofs!ReadRecords
<1>2. Store!Whole <=> Proofs!Whole
  BY DEF Store!Whole, Proofs!Whole, Store!Swapped, Proofs!Swapped, Store!HEADER,
         Proofs!HEADER, Store!RECORD, Proofs!RECORD, Store!FileSize, Proofs!FileSize,
         Store!NoHeader, Proofs!NoHeader, Store!IsHeader, Proofs!IsHeader, Store!Order,
         Proofs!Order, Store!Valid, Proofs!Valid, Store!ReadHeader, Proofs!ReadHeader,
         Store!ReadRecord, Proofs!ReadRecord, Store!ReadRecords, Proofs!ReadRecords
<1> QED
  BY <1>1, <1>2

LEMMA SameContents == Store!Table = Proofs!Table /\ Store!Stored = Proofs!Stored
BY DEF Store!Names, Proofs!Names, Store!Table, Proofs!Table, Store!Stored,
       Proofs!Stored, Store!Swapped, Proofs!Swapped, Store!HEADER, Proofs!HEADER,
       Store!RECORD, Proofs!RECORD, Store!FileSize, Proofs!FileSize, Store!NoHeader,
       Proofs!NoHeader, Store!IsHeader, Proofs!IsHeader, Store!Order, Proofs!Order,
       Store!Valid, Proofs!Valid, Store!ReadHeader, Proofs!ReadHeader, Store!ReadRecord,
       Proofs!ReadRecord, Store!ReadRecords, Proofs!ReadRecords

LEMMA SameNext == [Store!Next]_(Store!vars) => [Proofs!Next]_(Proofs!vars)
BY DEF Store!Next, Proofs!Next, Store!vars, Proofs!vars, Store!memory, Proofs!memory,
       Store!disk, Proofs!disk, Store!StartNew, Proofs!StartNew, Store!MayCreate,
       Proofs!MayCreate, Store!StartOpen, Proofs!StartOpen, Store!StartUnread,
       Proofs!StartUnread, Store!Grown, Proofs!Grown, Store!Room, Proofs!Room,
       Store!AddEmployee, Proofs!AddEmployee, Store!AddWraps, Proofs!AddWraps,
       Store!AddRejected, Proofs!AddRejected, Store!ReplyError, Proofs!ReplyError,
       Store!AfterReply, Proofs!AfterReply, Store!ReplyAdd, Proofs!ReplyAdd,
       Store!After, Proofs!After, Store!WriteAt, Proofs!WriteAt, Store!Halves,
       Proofs!Halves, Store!OutputHeader, Proofs!OutputHeader, Store!AllWritten,
       Proofs!AllWritten, Store!OutputRecord, Proofs!OutputRecord, Store!Restored,
       Proofs!Restored, Store!OutputEnd, Proofs!OutputEnd, Store!Crash, Proofs!Crash,
       Store!Swapped, Proofs!Swapped, Store!HEADER, Proofs!HEADER, Store!RECORD,
       Proofs!RECORD, Store!FileSize, Proofs!FileSize, Store!NoHeader, Proofs!NoHeader,
       Store!IsHeader, Proofs!IsHeader, Store!Order, Proofs!Order, Store!Valid,
       Proofs!Valid, Store!ReadHeader, Proofs!ReadHeader, Store!ReadRecord,
       Proofs!ReadRecord, Store!ReadRecords, Proofs!ReadRecords

LEMMA StoreAtFirst == Store!Init => Store!IInv /\ Store!Whole
<1>1. Store!Init => Proofs!Init
  BY DEF Store!Init, Proofs!Init, Store!NoHeader, Proofs!NoHeader
<1>2. Proofs!Init => Proofs!IInv /\ Proofs!Whole
  BY StoreAssumptions, Proofs!Initially, Proofs!WholeAtFirst
<1> QED
  BY <1>1, <1>2, SameInvariant

LEMMA StoreKept ==
  Store!IInv /\ Store!Whole /\ [Store!Next]_(Store!vars) => Store!IInv' /\ Store!Whole'
<1> SUFFICES ASSUME Store!IInv, Store!Whole, [Store!Next]_(Store!vars)
             PROVE  Store!IInv' /\ Store!Whole'
  OBVIOUS
<1>1. Proofs!IInv /\ Proofs!Whole /\ [Proofs!Next]_(Proofs!vars)
  BY SameInvariant, SameNext
<1>2. Proofs!IInv'
  BY <1>1, StoreAssumptions, Proofs!Preserved
<1>3. Proofs!Whole'
  BY <1>1, <1>2, StoreAssumptions, Proofs!WholeKept
<1>4. ((Store!IInv <=> Proofs!IInv) /\ (Store!Whole <=> Proofs!Whole))'
  BY SameInvariant, PTL
<1> QED
  BY <1>2, <1>3, <1>4

\* What a call does to the table, and to what a start would find.
LEMMA StoreSteps ==
  Store!IInv /\ Store!IInv' /\ Store!Whole /\ Store!Whole' =>
    /\ Store!StartNew => Table' = <<>> /\ Store!Stored = Absent /\ Store!Stored' = Torn
    /\ Store!StartOpen => /\ Table' = Store!Stored /\ Store!Stored' = Store!Stored
                          /\ Store!Stored \notin {Absent, Torn}
    /\ \A e \in Client \cup {Cut} : Store!AddEmployee(e) =>
         /\ Table' = Append(Table, e) /\ Store!Stored' = Store!Stored
         /\ header'.count = header.count + 1
    /\ Store!AddRejected \/ Store!ReplyError \/ Store!ReplyAdd \/ Store!OutputEnd =>
         Table' = Table /\ Store!Stored' = Store!Stored
    /\ Store!OutputHeader \/ Store!OutputRecord =>
         Table' = Table /\ Store!Stored' \in {Table, Torn}
    /\ Store!Crash => Table' = <<>> /\ Store!Stored' = Store!Stored
<1> SUFFICES ASSUME Store!IInv, Store!IInv', Store!Whole, Store!Whole'
             PROVE  /\ Store!StartNew => /\ Table' = <<>>
                                         /\ Store!Stored = Absent /\ Store!Stored' = Torn
                    /\ Store!StartOpen => /\ Table' = Store!Stored
                                          /\ Store!Stored' = Store!Stored
                                          /\ Store!Stored \notin {Absent, Torn}
                    /\ \A e \in Client \cup {Cut} : Store!AddEmployee(e) =>
                         /\ Table' = Append(Table, e) /\ Store!Stored' = Store!Stored
                         /\ header'.count = header.count + 1
                    /\ Store!AddRejected \/ Store!ReplyError \/ Store!ReplyAdd
                         \/ Store!OutputEnd =>
                         Table' = Table /\ Store!Stored' = Store!Stored
                    /\ Store!OutputHeader \/ Store!OutputRecord =>
                         Table' = Table /\ Store!Stored' \in {Table, Torn}
                    /\ Store!Crash => Table' = <<>> /\ Store!Stored' = Store!Stored
  OBVIOUS
<1>1. ((Store!IInv <=> Proofs!IInv) /\ (Store!Whole <=> Proofs!Whole))'
  BY SameInvariant, PTL
<1>2. (Store!Table = Proofs!Table /\ Store!Stored = Proofs!Stored)'
  BY SameContents, PTL
<1>3. Proofs!IInv /\ Proofs!IInv' /\ Proofs!Whole /\ Proofs!Whole'
  BY <1>1, SameInvariant
<1>4. /\ Table = Proofs!Table /\ Table' = Proofs!Table'
      /\ Store!Stored = Proofs!Stored /\ Store!Stored' = Proofs!Stored'
  BY <1>2, SameContents DEF Table
<1>5. /\ Proofs!StartNew => Proofs!Table' = <<>> /\ Proofs!Stored = Absent /\ Proofs!Stored' = Torn
      /\ Proofs!StartOpen => /\ Proofs!Table' = Proofs!Stored /\ Proofs!Stored' = Proofs!Stored
                             /\ Proofs!Stored \notin {Absent, Torn}
      /\ \A e \in Client \cup {Cut} : Proofs!AddEmployee(e) =>
           /\ Proofs!Table' = Append(Proofs!Table, e) /\ Proofs!Stored' = Proofs!Stored
           /\ header'.count = header.count + 1
      /\ Proofs!AddRejected \/ Proofs!ReplyError \/ Proofs!ReplyAdd \/ Proofs!OutputEnd =>
           Proofs!Table' = Proofs!Table /\ Proofs!Stored' = Proofs!Stored
      /\ Proofs!OutputHeader \/ Proofs!OutputRecord =>
           Proofs!Table' = Proofs!Table /\ Proofs!Stored' \in {Proofs!Table, Torn}
      /\ Proofs!Crash => Proofs!Table' = <<>> /\ Proofs!Stored' = Proofs!Stored
  BY <1>3, StoreAssumptions, Proofs!WhatStepsDo
<1>6. /\ Store!StartNew => Proofs!StartNew
      /\ Store!StartOpen => Proofs!StartOpen
      /\ Store!AddRejected => Proofs!AddRejected
      /\ Store!ReplyError => Proofs!ReplyError
      /\ Store!ReplyAdd => Proofs!ReplyAdd
      /\ Store!OutputEnd => Proofs!OutputEnd
      /\ Store!Crash => Proofs!Crash
  BY DEF Store!StartNew, Proofs!StartNew, Store!MayCreate, Proofs!MayCreate,
         Store!StartOpen, Proofs!StartOpen, Store!AddRejected, Proofs!AddRejected,
         Store!ReplyError, Proofs!ReplyError, Store!AfterReply, Proofs!AfterReply,
         Store!ReplyAdd, Proofs!ReplyAdd, Store!OutputEnd, Proofs!OutputEnd,
         Store!AllWritten, Proofs!AllWritten, Store!Restored, Proofs!Restored,
         Store!Crash, Proofs!Crash, Store!memory, Proofs!memory, Store!disk,
         Proofs!disk, Store!Swapped, Proofs!Swapped, Store!HEADER, Proofs!HEADER,
         Store!RECORD, Proofs!RECORD, Store!FileSize, Proofs!FileSize, Store!NoHeader,
         Proofs!NoHeader, Store!IsHeader, Proofs!IsHeader, Store!Order, Proofs!Order,
         Store!Valid, Proofs!Valid, Store!ReadHeader, Proofs!ReadHeader,
         Store!ReadRecord, Proofs!ReadRecord, Store!ReadRecords, Proofs!ReadRecords
<1>7. \A e \in Client \cup {Cut} : Store!AddEmployee(e) => Proofs!AddEmployee(e)
  BY DEF Store!AddEmployee, Proofs!AddEmployee, Store!Grown, Proofs!Grown, Store!Room,
         Proofs!Room, Store!disk, Proofs!disk
<1>8. /\ Store!OutputHeader => Proofs!OutputHeader
      /\ Store!OutputRecord => Proofs!OutputRecord
  BY DEF Store!OutputHeader, Proofs!OutputHeader, Store!OutputRecord,
         Proofs!OutputRecord, Store!AllWritten, Proofs!AllWritten, Store!WriteAt,
         Proofs!WriteAt, Store!After, Proofs!After, Store!Halves, Proofs!Halves,
         Store!memory, Proofs!memory, Store!Swapped, Proofs!Swapped, Store!HEADER,
         Proofs!HEADER, Store!RECORD, Proofs!RECORD, Store!FileSize, Proofs!FileSize,
         Store!NoHeader, Proofs!NoHeader, Store!IsHeader, Proofs!IsHeader, Store!Order,
         Proofs!Order
<1> QED
  BY <1>4, <1>5, <1>6, <1>7, <1>8

-----------------------------------------------------------------------------
(* Streams of one or two units.                                            *)

LEMMA SecondOf ==
  ASSUME NEW a, NEW b
  PROVE  SubSeq(<<a, b>>, 2, 2) = <<b>>
<1> DEFINE s == <<a, b>>
           t == SubSeq(s, 2, 2)
           u == <<b>>
<1>1. s \in Seq({a, b}) /\ Len(s) = 2 /\ s[2] = b
  OBVIOUS
<1> HIDE DEF s
<1>2. t \in Seq({a, b}) /\ Len(t) = 1 /\ t[1] = s[2]
  <2>1. \A k \in 2..2 : s[k] \in {a, b}
    BY <1>1
  <2>2. t \in Seq({a, b}) /\ Len(t) = (IF 2 <= 2 THEN 2 - 2 + 1 ELSE 0)
        /\ \A k \in 1..(2 - 2 + 1) : t[k] = s[2 + k - 1]
    BY <2>1, SubSeqProperties
  <2> HIDE DEF t
  <2> QED
    BY <2>2
<1>3. u \in Seq({a, b}) /\ Len(u) = 1 /\ u[1] = b
  OBVIOUS
<1> HIDE DEF t, u
<1>4. \A k \in 1..Len(t) : t[k] = u[k]
  BY <1>1, <1>2, <1>3
<1>5. t = u
  BY <1>2, <1>3, <1>4, SeqEqual
<1> QED
  BY <1>5 DEF s, t, u

LEMMA OneAndOne ==
  ASSUME NEW a, NEW b
  PROVE  <<a>> \o <<b>> = <<a, b>>
<1> DEFINE s == <<a>>
           t == <<b>>
           u == <<a, b>>
           v == s \o t
<1>1. s \in Seq({a, b}) /\ Len(s) = 1 /\ s[1] = a
      /\ t \in Seq({a, b}) /\ Len(t) = 1 /\ t[1] = b
      /\ u \in Seq({a, b}) /\ Len(u) = 2 /\ u[1] = a /\ u[2] = b
  OBVIOUS
<1> HIDE DEF s, t, u
<1>2. v \in Seq({a, b}) /\ Len(v) = Len(s) + Len(t)
      /\ \A k \in 1..(Len(s) + Len(t)) : v[k] = IF k <= Len(s) THEN s[k] ELSE t[k - Len(s)]
  BY <1>1, ConcatProperties
<1> HIDE DEF v
<1>3. Len(v) = Len(u) /\ \A k \in 1..Len(v) : v[k] = u[k]
  BY <1>1, <1>2
<1>4. v = u
  BY <1>1, <1>2, <1>3, SeqEqual
<1> QED
  BY <1>4 DEF s, t, u, v

\* What may be read of what a client sends: by its first unit, what is left.
LEMMA Requested ==
  ASSUME NEW ts \in Requests, NEW n \in 1..Len(ts)
  PROVE  LET left == SubSeq(ts, n + 1, Len(ts)) IN
         /\ ts[1] = "hello" => ts = <<"hello">> /\ left = <<>>
         /\ ts[1] = "add" => /\ ts = <<"add", "rest">> /\ left \in Rest
                             /\ n = Len(ts) => n = 2
         /\ ts[1] = "list" => ts = <<"list">> /\ left = <<>>
         /\ ts[1] = "rest" => /\ ts \in {<<"rest">>, <<"rest", "list">>}
                              /\ left \in {<<>>, <<"list">>}
                              /\ ts = <<"rest">> => left = <<>>
<1>1. SubSeq(<<"add", "rest">>, 2, 2) = <<"rest">> /\ SubSeq(<<"rest", "list">>, 2, 2) = <<"list">>
  BY SecondOf
<1>2. SubSeq(<<"add", "rest">>, 3, 2) = <<>> /\ SubSeq(<<"rest", "list">>, 3, 2) = <<>>
  BY SubSeqEmpty
<1>3. /\ SubSeq(<<"hello">>, 2, 1) = <<>> /\ SubSeq(<<"list">>, 2, 1) = <<>>
      /\ SubSeq(<<"rest">>, 2, 1) = <<>>
  BY SubSeqEmpty
<1>4. CASE ts = <<>>
  BY <1>4
<1>5. CASE ts \in {<<"hello">>, <<"list">>, <<"rest">>}
  <2>1. Len(ts) = 1
    BY <1>5
  <2>2. n = 1
    BY <2>1
  <2> QED
    BY <1>3, <1>5, <2>1, <2>2 DEF Rest
<1>6. CASE ts \in {<<"add", "rest">>, <<"rest", "list">>}
  <2>1. Len(ts) = 2
    BY <1>6
  <2>2. n \in {1, 2}
    BY <2>1
  <2> QED
    BY <1>1, <1>2, <1>6, <2>1, <2>2 DEF Rest
<1> QED
  BY <1>4, <1>5, <1>6 DEF Requests, Rest

\* What is sent behind what is there.
LEMMA Sent ==
  /\ <<>> \o <<"hello">> = <<"hello">> /\ <<>> \o <<"add", "rest">> = <<"add", "rest">>
  /\ <<>> \o <<"list">> = <<"list">> /\ <<"rest">> \o <<"list">> = <<"rest", "list">>
  /\ \A unit : <<>> \o <<unit>> = <<unit>>
BY OneAndOne

\* Streams that are told apart.
LEMMA Distinct ==
  /\ <<"add", "rest">> \notin Rest \cup {<<"hello">>, <<"list">>, <<"rest", "list">>}
  /\ <<Unit("error")>> \notin {<<>>, <<Unit("add resp")>>, <<Unit("hello resp")>>}
  /\ <<Unit("add resp")>> \notin {<<>>, <<Unit("hello resp")>>}
  /\ <<Unit("hello resp")>> # <<>>
  /\ Unit("error").type = "error" /\ Unit("add resp").type = "add resp"
  /\ Unit("hello resp").type = "hello resp"
BY DEF Rest, Unit

-----------------------------------------------------------------------------
(* One connection while others are served.                                 *)

\* What holds of a connection goes on to do so while the table grows, unless its list
\* is being written.
LEMMA Stays ==
  ASSUME NEW c, NEW own, NEW l, NEW s, NEW ts, NEW tc, NEW turn,
         NEW table, NEW stored, NEW count, NEW sent,
         NEW table2, NEW stored2, NEW count2, NEW sent2,
         Fits(c, own, l, s, ts, tc, turn, table, stored, count, sent),
         Known(c, table2, stored2) => Known(c, table, stored),
         l = "open" => /\ Added(c, own.pieces, table) => Added(c, own.pieces, table2)
                       /\ Len(table) \in Nat /\ Len(table2) \in Nat
                       /\ Len(table) <= Len(table2)
                       /\ \A k \in 1..Len(table) : table2[k] = table[k],
         turn = "records" => count2 = count /\ sent2 = sent,
         Len(own.printed) \in Nat, own.left \in Nat
  PROVE  Fits(c, own, l, s, ts, tc, turn, table2, stored2, count2, sent2)
<1> DEFINE names == Under(c, own.pieces)
<1>1. Talks(own, l, s, ts, tc, turn)
  BY DEF Fits
<1>2. Told(own, l, ts, tc, turn, Known(c, table2, stored2), Added(c, own.pieces, table2))
  BY DEF Fits, Told
<1>3. c \in Old => Mismatched(s, turn, Known(c, table2, stored2))
  BY DEF Fits, Mismatched
<1>4. ASSUME l = "open", "short" \notin own.said
      PROVE  Lists(c, own, tc, turn, table2, count2, sent2)
  <2>1. Lists(c, own, tc, turn, table, count, sent)
    BY <1>4 DEF Fits
  <2>2. ASSUME NEW units, NEW p \in Nat, NEW m \in Nat,
               Listing(names, own.said, units, p, m, turn, table, count, sent)
        PROVE  Listing(names, own.said, units, p, m, turn, table2, count2, sent2)
    <3>1. PICK r \in 0..m :
            /\ Lines(units, p, r, table)
            /\ p + r <= m /\ m <= Len(table)
            /\ turn = "records" => sent = p + r /\ count = m
            /\ turn = "none" => p + r = m
            /\ "added" \in own.said => \E k \in 1..m : table[k] \in names
      BY <2>2 DEF Listing
    <3>2. Lines(units, p, r, table2)
      <4>1. r \in Nat /\ Len(table) \in Nat /\ Len(table2) \in Nat
            /\ Len(units) = 2 * r /\ p + r <= Len(table) /\ Len(table) <= Len(table2)
        BY <1>4, <3>1 DEF Lines
      <4>2. ASSUME NEW j \in 1..r
            PROVE  table2[p + j] = table[p + j]
        <5>1. p + j \in 1..Len(table)
          BY <4>1
        <5> QED
          BY <1>4, <5>1
      <4>3. \A j \in 1..r : /\ units[2 * j - 1] = Line(1, table[p + j])
                            /\ units[2 * j] = Line(2, table[p + j])
        BY <3>1 DEF Lines
      <4>4. p + r <= Len(table2)
        BY <4>1
      <4> QED
        BY <4>1, <4>2, <4>3, <4>4 DEF Lines
    <3>3. m <= Len(table2) /\ ("added" \in own.said => \E k \in 1..m : table2[k] \in names)
      BY <1>4, <3>1
    <3> QED
      BY <3>1, <3>2, <3>3 DEF Listing
  <2>3. Head(tc).n \in Nat \/ ~ (own.at = "read list" /\ tc # <<>>)
    <3>1. own.at = "read list" /\ tc # <<>> =>
            \E m \in 0..(COUNT_MOD - 1) : Head(tc) = ListHeader(m)
      BY <1>1 DEF Talks, Incoming
    <3> QED
      <4>1. \A m \in 0..(COUNT_MOD - 1) : ListHeader(m).n = m /\ m \in Nat
        BY StoreAssumption DEF ListHeader
      <4> QED
        BY <3>1, <4>1
  <2> DEFINE p == Len(own.printed)
  <2>4. own.at = "read list" /\ tc # <<>> =>
          Listing(names, own.said, Tail(tc), 0, Head(tc).n, turn, table2, count2, sent2)
    BY <2>1, <2>2, <2>3 DEF Lists
  <2>5. own.at \in {"read record", "close"} =>
          p <= Len(table2) /\ \A k \in 1..p : own.printed[k] = table2[k]
    <3> SUFFICES ASSUME own.at \in {"read record", "close"}
                 PROVE  p <= Len(table2) /\ \A k \in 1..p : own.printed[k] = table2[k]
      OBVIOUS
    <3>1. p <= Len(table) /\ \A k \in 1..p : own.printed[k] = table[k]
      BY <2>1 DEF Lists
    <3>2. p \in Nat /\ Len(table) \in Nat /\ Len(table2) \in Nat /\ Len(table) <= Len(table2)
      BY <1>4
    <3>3. \A k \in 1..Len(table) : table2[k] = table[k]
      BY <1>4
    <3> HIDE DEF p
    <3>4. p <= Len(table)
      BY <3>1
    <3>5. p <= Len(table2) /\ \A k \in 1..p : k \in 1..Len(table)
      BY ONLY <3>2, <3>4
    <3> QED
      BY ONLY <3>1, <3>3, <3>5
  <2>6. own.at = "read record" =>
          Listing(names, own.said, tc, p, p + own.left, turn, table2, count2, sent2)
    <3>1. p \in Nat /\ p + own.left \in Nat
      OBVIOUS
    <3> QED
      BY <2>1, <2>2, <3>1 DEF Lists
  <2>7. /\ own.at = "close" =>
             /\ tc = <<>>
             /\ own.list /\ "added" \in own.said => \E k \in 1..p : own.printed[k] \in names
        /\ own.at = "close" \/ (own.at = "done" /\ "killed" \notin own.said) =>
             (turn = "records" => sent2 = count2)
    BY <2>1 DEF Lists
  <2> QED
    BY <2>4, <2>5, <2>6, <2>7 DEF Lists
<1> QED
  BY <1>1, <1>2, <1>3, <1>4 DEF Fits

-----------------------------------------------------------------------------
(* The state, and the store in it.                                         *)

Request == {"hello", "add", "rest", "list"}

\* Who is in the server's table, and how many.
LEMMA TheTable ==
  ASSUME Store!IInv, Store!Whole
  PROVE  /\ Table \in Seq(Name) /\ Len(Table) \in Nat /\ DOMAIN Table = 1..Len(Table)
         /\ header.count = Len(Table) /\ Len(employees) = Len(Table)
         /\ header.count \in 0..(COUNT_MOD - 1)
         /\ \A k \in 1..Len(Table) : Table[k] = employees[k].who
         /\ phase = "down" => Table = <<>>
         /\ phase \in {"down", "idle", "reply", "reply error", "header", "records"}
<1>1. Proofs!IInv
  BY SameInvariant
<1>2. /\ Table \in Seq((Client \cup {Cut}) \cup {Garbage}) /\ Len(Table) = Len(employees)
      /\ \A k \in 1..Len(employees) : Table[k] = employees[k].who
  BY <1>1, SameContents, StoreAssumptions, Proofs!TableNames DEF Table, Proofs!Name
<1>3. (Client \cup {Cut}) \cup {Garbage} = Name
  BY DEF Name
<1>4. Table \in Seq(Name) /\ Len(Table) \in Nat /\ DOMAIN Table = 1..Len(Table)
  BY <1>2, <1>3, LenProperties
<1>5. header.count = Len(Table)
  BY <1>2 DEF Store!Whole
<1>6. header.count \in 0..(COUNT_MOD - 1)
  BY DEF Store!IInv, Store!TypeOK, Store!HeaderUnit
<1>7. phase = "down" => Table = <<>>
  <2>1. phase = "down" => Len(employees) = 0
    <3>1. phase = "down" => employees = <<>>
      BY DEF Store!IInv, Store!InMemory
    <3> QED
      BY <3>1
  <2> QED
    BY <1>2, <1>4, <2>1, EmptySeq
<1>8. phase \in {"down", "idle", "reply", "reply error", "header", "records"}
  BY DEF Store!IInv, Store!TypeOK, Store!Phase
<1> QED
  BY <1>2, <1>4, <1>5, <1>6, <1>7, <1>8

LEMMA Typed ==
  ASSUME IInv, NEW c \in Client
  PROVE  /\ client[c] \in ClientState /\ Len(client[c].printed) \in Nat
         /\ client[c].left \in Nat /\ client[c].add \in {c, Malformed, None}
         /\ link[c] \in Link /\ session[c] \in Session
         /\ toServer[c] \in Seq(Request)
         /\ toClient[c] \in Seq(RecordUnit \cup MessageUnit)
         /\ Len(toClient[c]) <= WINDOW /\ Len(toClient[c]) \in Nat
         /\ Good(c)
<1>1. /\ client[c] \in ClientState /\ client[c].add \in {c, Malformed, None}
      /\ link[c] \in Link /\ session[c] \in Session
      /\ toServer[c] \in Seq(Request)
      /\ toClient[c] \in Seq(RecordUnit \cup MessageUnit)
      /\ Len(toClient[c]) <= WINDOW
  BY DEF IInv, TypeOK, Request
<1>2. client[c].printed \in Seq(Name) /\ client[c].left \in Nat
  BY <1>1, StoreAssumption DEF ClientState
<1>3. Len(client[c].printed) \in Nat /\ Len(toClient[c]) \in Nat
  BY <1>1, <1>2, LenProperties
<1>4. Good(c)
  BY DEF IInv
<1> QED
  BY <1>1, <1>2, <1>3, <1>4

\* A connection that the server does not turn to, nor its client.
LEMMA Bystander ==
  ASSUME IInv, Store!IInv', Store!Whole', NEW d \in Client,
         client'[d] = client[d], link'[d] = link[d], session'[d] = session[d],
         toServer'[d] = toServer[d], toClient'[d] = toClient[d],
         Turn(d, serving', answer', phase') = Turn(d, serving, answer, phase),
         Turn(d, serving, answer, phase) = "records" =>
           header'.count = header.count /\ listed' = listed,
         \/ Table' = Table /\ Store!Stored' \in {Store!Stored, Table, Torn}
         \/ Store!Stored' = Store!Stored /\ \E e \in Name \ {d} : Table' = Append(Table, e)
         \/ /\ link[d] # "open"
            /\ Known(d, Table', Store!Stored') => Known(d, Table, Store!Stored)
  PROVE  Good(d)'
<1>1. Len(client[d].printed) \in Nat /\ client[d].left \in Nat
  BY Typed
<1>2. Fits(d, client[d], link[d], session[d], toServer[d], toClient[d],
           Turn(d, serving, answer, phase), Table, Store!Stored, header.count, listed)
  BY DEF IInv, Good
<1>3. Table \in Seq(Name) /\ Len(Table) \in Nat /\ DOMAIN Table = 1..Len(Table)
  BY TheTable DEF IInv
<1>4. /\ Known(d, Table', Store!Stored') => Known(d, Table, Store!Stored)
      /\ link[d] = "open" =>
           /\ Added(d, client[d].pieces, Table) => Added(d, client[d].pieces, Table')
           /\ Len(Table) \in Nat /\ Len(Table') \in Nat
           /\ Len(Table) <= Len(Table')
           /\ \A k \in 1..Len(Table) : Table'[k] = Table[k]
  <2>1. CASE Table' = Table /\ Store!Stored' \in {Store!Stored, Table, Torn}
    <3>1. Known(d, Table', Store!Stored') => Known(d, Table, Store!Stored)
      <4>1. CASE Store!Stored' = Store!Stored
        BY <2>1, <4>1
      <4>2. CASE Store!Stored' = Table
        BY <2>1, <4>2 DEF Known
      <4>3. CASE Store!Stored' = Torn
        BY <2>1, <4>3 DEF Known
      <4> QED
        BY <2>1, <4>1, <4>2, <4>3
    <3>2. Added(d, client[d].pieces, Table) => Added(d, client[d].pieces, Table')
      BY <2>1
    <3>3. Len(Table) <= Len(Table') /\ \A k \in 1..Len(Table) : Table'[k] = Table[k]
      <4>1. \A t \in Seq(Name) : \A t2 :
              t2 = t => Len(t) <= Len(t2) /\ \A k \in 1..Len(t) : t2[k] = t[k]
        OBVIOUS
      <4> QED
        BY ONLY <1>3, <2>1, <4>1
    <3>4. Len(Table') \in Nat
      BY ONLY <1>3, <2>1
    <3> QED
      BY <1>3, <3>1, <3>2, <3>3, <3>4
  <2>2. ASSUME Store!Stored' = Store!Stored, NEW e \in Name \ {d}, Table' = Append(Table, e)
        PROVE  /\ Known(d, Table', Store!Stored') => Known(d, Table, Store!Stored)
               /\ Added(d, client[d].pieces, Table) => Added(d, client[d].pieces, Table')
               /\ Len(Table') \in Nat
               /\ Len(Table) <= Len(Table')
               /\ \A k \in 1..Len(Table) : Table'[k] = Table[k]
    <3>1. /\ Len(Table') = Len(Table) + 1 /\ DOMAIN Table' = 1..(Len(Table) + 1)
          /\ Table'[Len(Table) + 1] = e
          /\ \A k \in 1..Len(Table) : Table'[k] = Table[k]
      <4>1. /\ Append(Table, e) \in Seq(Name) /\ Len(Append(Table, e)) = Len(Table) + 1
            /\ Append(Table, e)[Len(Table) + 1] = e
            /\ \A k \in 1..Len(Table) : Append(Table, e)[k] = Table[k]
        BY <1>3, AppendProperties
      <4> QED
        BY <2>2, <4>1, LenProperties
    <3>2. Among(d, Table') => Among(d, Table)
      <4> SUFFICES ASSUME NEW k \in 1..(Len(Table) + 1), Table'[k] = d
                   PROVE  Among(d, Table)
        BY <3>1 DEF Among
      <4>1. k # Len(Table) + 1
        BY <2>2, <3>1
      <4>2. k \in 1..Len(Table)
        BY <1>3, <4>1
      <4> QED
        BY <1>3, <3>1, <4>2 DEF Among
    <3>3. \A f : Among(f, Table) => Among(f, Table')
      <4> SUFFICES ASSUME NEW f, NEW k \in 1..Len(Table), Table[k] = f
                   PROVE  Among(f, Table')
        BY <1>3 DEF Among
      <4>1. k \in DOMAIN Table' /\ Table'[k] = f
        BY <1>3, <3>1
      <4> QED
        BY <4>1 DEF Among
    <3>4. Known(d, Table', Store!Stored') => Known(d, Table, Store!Stored)
      BY <2>2, <3>2 DEF Known
    <3>5. Added(d, client[d].pieces, Table) => Added(d, client[d].pieces, Table')
      BY <3>3 DEF Added
    <3> QED
      BY <1>3, <3>1, <3>4, <3>5
  <2> QED
    BY <1>3, <2>1, <2>2
<1>5. Fits(d, client[d], link[d], session[d], toServer[d], toClient[d],
           Turn(d, serving, answer, phase), Table', Store!Stored', header'.count, listed')
  BY <1>1, <1>2, <1>4, Stays
<1> QED
  BY <1>5 DEF Good

-----------------------------------------------------------------------------
(* Steps that concern one connection.                                      *)

\* What the handler of a message does to the table, and the save after it.
Tables(c) ==
  \/ Table' = Table /\ Store!Stored' \in {Store!Stored, Table, Torn}
  \/ /\ Store!Stored' = Store!Stored
     /\ \E e \in {c, Cut} : Table' = Append(Table, e) /\ (e = c => ~ Among(c, Table))

LEMMA OnceKept ==
  ASSUME IInv, NEW c \in Client, Tables(c)
  PROVE  NamedOnce'
<1>1. /\ Table \in Seq(Name) /\ Len(Table) \in Nat /\ DOMAIN Table = 1..Len(Table)
      /\ Once(Table) /\ (Store!Stored \notin {Absent, Torn} => Once(Store!Stored))
  BY TheTable DEF IInv, NamedOnce
<1>2. CASE Table' = Table /\ Store!Stored' \in {Store!Stored, Table, Torn}
  <2>1. Once(Table')
    BY <1>1, <1>2
  <2>2. Store!Stored' \notin {Absent, Torn} => Once(Store!Stored')
    <3>1. CASE Store!Stored' = Store!Stored
      BY <1>1, <3>1
    <3>2. CASE Store!Stored' = Table
      BY <1>1, <3>2
    <3> QED
      BY <1>2, <3>1, <3>2
  <2> QED
    BY <2>1, <2>2 DEF NamedOnce
<1>3. ASSUME Store!Stored' = Store!Stored, NEW e \in {c, Cut}, Table' = Append(Table, e),
             e = c => ~ Among(c, Table)
      PROVE  NamedOnce'
  <2>1. e \in Name
    BY DEF Name
  <2>2. /\ DOMAIN Append(Table, e) = 1..(Len(Table) + 1) /\ Append(Table, e)[Len(Table) + 1] = e
        /\ \A k \in 1..Len(Table) : Append(Table, e)[k] = Table[k]
    BY <1>1, <2>1, AppendProperties
  <2>3. e # Cut => \A k \in 1..Len(Table) : Table[k] # e
    BY <1>1, <1>3 DEF Among
  <2>4. Once(Append(Table, e))
    <3> SUFFICES ASSUME NEW j \in 1..(Len(Table) + 1), NEW k \in 1..(Len(Table) + 1),
                        Append(Table, e)[j] = Append(Table, e)[k],
                        Append(Table, e)[j] # Cut
                 PROVE  j = k
      BY <2>2 DEF Once
    <3>1. CASE j \in 1..Len(Table) /\ k \in 1..Len(Table)
      BY <1>1, <2>2, <3>1 DEF Once
    <3>2. CASE j = Len(Table) + 1 \/ k = Len(Table) + 1
      <4>1. \A i \in 1..(Len(Table) + 1) : i = Len(Table) + 1 \/ i \in 1..Len(Table)
        BY <1>1
      <4> QED
        BY <2>2, <2>3, <3>2, <4>1
    <3> QED
      BY <1>1, <3>1, <3>2
  <2> QED
    BY <1>1, <1>3, <2>4 DEF NamedOnce
<1> QED
  BY <1>2, <1>3 DEF Tables

LEMMA Still ==
  UNCHANGED store =>
    /\ phase' = phase /\ header' = header /\ Table' = Table /\ Store!Stored' = Store!Stored
    /\ [Store!Next]_(Store!vars)
BY DEF store, Table, Store!Table, Store!Names, Store!Stored, Store!Valid, Store!IsHeader,
       Store!ReadRecords, Store!ReadRecord, Store!vars, Store!memory, Store!disk

LEMMA Moves ==
  ASSUME IInv, NEW c \in Client, [Store!Next]_(Store!vars), Tables(c),
         \A d \in Client \ {c} :
           /\ client'[d] = client[d] /\ link'[d] = link[d] /\ session'[d] = session[d]
           /\ toServer'[d] = toServer[d] /\ toClient'[d] = toClient[d],
         UNCHANGED <<store, server>> \/ {serving, serving'} \subseteq {c, None},
         TypeOK', ServerInOrder', SigpipeEarned', Good(c)'
  PROVE  IInv'
<1>1. Store!IInv' /\ Store!Whole'
  BY StoreKept DEF IInv
<1>2. NamedOnce'
  BY OnceKept
<1>3. ASSUME NEW d \in Client \ {c}
      PROVE  Good(d)'
  <2>1. /\ Turn(d, serving', answer', phase') = Turn(d, serving, answer, phase)
        /\ Turn(d, serving, answer, phase) = "records" =>
             header'.count = header.count /\ listed' = listed
    <3>1. CASE UNCHANGED <<store, server>>
      BY <3>1 DEF store, server
    <3>2. CASE {serving, serving'} \subseteq {c, None}
      <4>1. serving # d /\ serving' # d
        BY <3>2, NameAssumption
      <4> QED
        BY <4>1 DEF Turn
    <3> QED
      BY <3>1, <3>2
  <2>2. \/ Table' = Table /\ Store!Stored' \in {Store!Stored, Table, Torn}
        \/ Store!Stored' = Store!Stored /\ \E e \in Name \ {d} : Table' = Append(Table, e)
    <3>1. {c, Cut} \subseteq Name \ {d}
      BY NameAssumption DEF Name
    <3> QED
      BY <3>1 DEF Tables
  <2> QED
    BY <1>1, <1>3, <2>1, <2>2, Bystander
<1> QED
  BY <1>1, <1>2, <1>3 DEF IInv

\* The client of c makes a call.
LEMMA ClientActs ==
  ASSUME IInv, NEW c \in Client, UNCHANGED <<store, server, session, sigpipe>>,
         client[c].at # "done",
         client' \in [Client -> ClientState], client'[c].add \in {c, Malformed, None},
         toServer' \in [Client -> Seq(Request)],
         toClient' \in [Client -> Seq(RecordUnit \cup MessageUnit)],
         Len(toClient'[c]) <= WINDOW,
         link' \in [Client -> Link],
         link'[c] = link[c] \/ (link[c] = "off" /\ link'[c] = "queued"),
         \A d \in Client \ {c} :
           /\ client'[d] = client[d] /\ link'[d] = link[d]
           /\ toServer'[d] = toServer[d] /\ toClient'[d] = toClient[d],
         Fits(c, client'[c], link'[c], session[c], toServer'[c], toClient'[c],
              Turn(c, serving, answer, phase), Table, Store!Stored, header.count, listed)
  PROVE  IInv'
<1>1. /\ phase' = phase /\ header' = header /\ Table' = Table /\ Store!Stored' = Store!Stored
      /\ [Store!Next]_(Store!vars) /\ UNCHANGED <<store, server>>
      /\ serving' = serving /\ answer' = answer /\ listed' = listed
      /\ session' = session /\ sigpipe' = sigpipe
  BY Still DEF server
<1>2. Tables(c)
  BY <1>1 DEF Tables
<1>3. \A d \in Client : link'[d] = "open" <=> link[d] = "open"
  BY DEF Link
<1>4. Served' = Served
  BY <1>3 DEF Served
<1>5. TypeOK'
  <2>1. Store!TypeOK'
    BY <1>1, StoreKept DEF IInv, Store!IInv
  <2>2. IsFiniteSet(Served') /\ Cardinality(Served') <= MAX_CLIENTS
    BY <1>4 DEF IInv, TypeOK
  <2>3. /\ serving' \in Client \cup {None} /\ answer' \in Answer
        /\ listed' \in 0..(COUNT_MOD - 1) /\ session' \in [Client -> Session]
        /\ sigpipe' \in Client \cup {None}
    BY <1>1 DEF IInv, TypeOK
  <2>4. \A d \in Client : Len(toClient'[d]) <= WINDOW /\ client'[d].add \in {d, Malformed, None}
    BY DEF IInv, TypeOK
  <2> QED
    BY <2>1, <2>2, <2>3, <2>4 DEF TypeOK, Request
<1>6. ServerInOrder'
  <2>1. serving # None => serving \in Client
    BY DEF IInv, TypeOK
  <2> QED
    BY <1>1, <1>3, <1>4, <2>1 DEF ServerInOrder, IInv
<1>7. SigpipeEarned'
  BY <1>1 DEF SigpipeEarned, Gone, IInv, TypeOK
<1>8. Good(c)'
  BY <1>1 DEF Good
<1> QED
  BY <1>1, <1>2, <1>5, <1>6, <1>7, <1>8, Moves

\* The server handles a message of c.
LEMMA ServerActs ==
  ASSUME IInv, NEW c \in Client, [Store!Next]_(Store!vars), Tables(c),
         UNCHANGED <<link, client, sigpipe>>, link[c] = "open",
         {serving, serving'} \subseteq {c, None},
         answer' \in Answer, listed' \in 0..(COUNT_MOD - 1),
         session' \in [Client -> Session],
         toServer' \in [Client -> Seq(Request)],
         toClient' \in [Client -> Seq(RecordUnit \cup MessageUnit)],
         Len(toClient'[c]) <= WINDOW,
         \A d \in Client \ {c} : /\ session'[d] = session[d]
                                 /\ toServer'[d] = toServer[d] /\ toClient'[d] = toClient[d],
         phase' # "down",
         serving' = None => answer' = "none" /\ phase' = "idle",
         serving' # None => IF answer' = "none" THEN phase' # "idle" ELSE phase' = "idle",
         answer' = "records" => listed' <= header'.count,
         Fits(c, client[c], "open", session'[c], toServer'[c], toClient'[c],
              Turn(c, serving', answer', phase'), Table', Store!Stored', header'.count, listed')
  PROVE  IInv'
<1>1. Store!IInv' /\ Store!Whole'
  BY StoreKept DEF IInv
<1>2. link' = link /\ client' = client /\ sigpipe' = sigpipe
  OBVIOUS
<1>3. Served' = Served
  BY <1>2 DEF Served
<1>4. TypeOK'
  <2>1. Store!TypeOK'
    BY <1>1 DEF Store!IInv
  <2>2. IsFiniteSet(Served') /\ Cardinality(Served') <= MAX_CLIENTS
    BY <1>3 DEF IInv, TypeOK
  <2>3. /\ serving' \in Client \cup {None} /\ link' \in [Client -> Link]
        /\ client' \in [Client -> ClientState] /\ sigpipe' \in Client \cup {None}
    BY <1>2 DEF IInv, TypeOK
  <2>4. \A d \in Client : Len(toClient'[d]) <= WINDOW /\ client'[d].add \in {d, Malformed, None}
    BY <1>2 DEF IInv, TypeOK
  <2> QED
    BY <2>1, <2>2, <2>3, <2>4 DEF TypeOK, Request
<1>5. ServerInOrder'
  <2>1. serving' # None => serving' = c
    OBVIOUS
  <2> QED
    BY <1>2, <2>1 DEF ServerInOrder
<1>6. SigpipeEarned'
  BY <1>2 DEF SigpipeEarned, Gone, IInv
<1>7. Good(c)'
  BY <1>2 DEF Good
<1> QED
  BY <1>2, <1>4, <1>5, <1>6, <1>7, Moves

\* The server takes or leaves a connection.
LEMMA ConnectionMoves ==
  ASSUME IInv, NEW c \in Client, Free, UNCHANGED <<store, server, toClient, client, sigpipe>>,
         link' \in [Client -> Link], session' \in [Client -> Session],
         toServer' \in [Client -> Seq(Request)],
         \A d \in Client \ {c} :
           link'[d] = link[d] /\ session'[d] = session[d] /\ toServer'[d] = toServer[d],
         IsFiniteSet(Served'), Cardinality(Served') <= MAX_CLIENTS,
         Fits(c, client[c], link'[c], session'[c], toServer'[c], toClient[c],
              "none", Table, Store!Stored, header.count, listed)
  PROVE  IInv'
<1>1. /\ phase' = phase /\ header' = header /\ Table' = Table /\ Store!Stored' = Store!Stored
      /\ [Store!Next]_(Store!vars) /\ UNCHANGED <<store, server>>
      /\ serving' = serving /\ answer' = answer /\ listed' = listed
      /\ client' = client /\ toClient' = toClient /\ sigpipe' = sigpipe
  BY Still DEF server
<1>2. phase = "idle" /\ serving = None /\ answer = "none"
  BY DEF Free, IInv, ServerInOrder
<1>3. Tables(c)
  BY <1>1 DEF Tables
<1>4. TypeOK'
  <2>1. Store!TypeOK'
    BY <1>1, StoreKept DEF IInv, Store!IInv
  <2>2. /\ serving' \in Client \cup {None} /\ answer' \in Answer
        /\ listed' \in 0..(COUNT_MOD - 1) /\ client' \in [Client -> ClientState]
        /\ toClient' \in [Client -> Seq(RecordUnit \cup MessageUnit)]
        /\ sigpipe' \in Client \cup {None}
    BY <1>1 DEF IInv, TypeOK
  <2>3. \A d \in Client : Len(toClient'[d]) <= WINDOW /\ client'[d].add \in {d, Malformed, None}
    BY <1>1 DEF IInv, TypeOK
  <2> QED
    BY <2>1, <2>2, <2>3 DEF TypeOK, Request
<1>5. ServerInOrder'
  BY <1>1, <1>2 DEF ServerInOrder
<1>6. SigpipeEarned'
  BY <1>1 DEF SigpipeEarned, Gone, IInv
<1>7. Good(c)'
  <2>1. Turn(c, serving', answer', phase') = "none"
    BY <1>1, <1>2, NameAssumption DEF Turn
  <2> QED
    BY <1>1, <2>1 DEF Good
<1> QED
  BY <1>1, <1>3, <1>4, <1>5, <1>6, <1>7, Moves

\* What is known of a connection when the server turns to it.
LEMMA Waiting ==
  ASSUME IInv, Free, NEW c \in Client
  PROVE  /\ Talks(client[c], link[c], session[c], toServer[c], toClient[c], "none")
         /\ Told(client[c], link[c], toServer[c], toClient[c], "none",
                 Known(c, Table, Store!Stored), Added(c, client[c].pieces, Table))
         /\ c \in Old => Mismatched(session[c], "none", Known(c, Table, Store!Stored))
         /\ link[c] = "open" /\ "short" \notin client[c].said =>
              Lists(c, client[c], toClient[c], "none", Table, header.count, listed)
         /\ phase = "idle" /\ serving = None /\ answer = "none"
<1>1. phase = "idle" /\ serving = None /\ answer = "none"
  BY DEF Free, IInv, ServerInOrder
<1>2. Turn(c, serving, answer, phase) = "none"
  BY <1>1, NameAssumption DEF Turn
<1>3. Fits(c, client[c], link[c], session[c], toServer[c], toClient[c], "none",
           Table, Store!Stored, header.count, listed)
  BY <1>2 DEF IInv, Good
<1> QED
  BY <1>1, <1>3 DEF Fits

LEMMA Accepted ==
  ASSUME IInv, NEW c \in Client, Accept(c)
  PROVE  IInv'
<1> DEFINE own == client[c]
           known == Known(c, Table, Store!Stored)
           added == Added(c, own.pieces, Table)
<1>1. /\ Talks(own, "queued", session[c], toServer[c], toClient[c], "none")
      /\ Told(own, "queued", toServer[c], toClient[c], "none", known, added)
      /\ c \in Old => Mismatched(session[c], "none", known)
  BY Waiting DEF Accept
<1>2. /\ Free /\ UNCHANGED <<store, server, toClient, client, sigpipe>> /\ toServer' = toServer
      /\ link' = [link EXCEPT ![c] = "open"] /\ session' = [session EXCEPT ![c] = "HELLO"]
      /\ link \in [Client -> Link] /\ session \in [Client -> Session]
      /\ toServer \in [Client -> Seq(Request)]
  BY DEF Accept, IInv, TypeOK, Request
<1>3. /\ link' \in [Client -> Link] /\ session' \in [Client -> Session]
      /\ link'[c] = "open" /\ session'[c] = "HELLO" /\ toServer' \in [Client -> Seq(Request)]
      /\ \A d \in Client \ {c} : link'[d] = link[d] /\ session'[d] = session[d]
  BY <1>2 DEF Link, Session
<1>4. IsFiniteSet(Served') /\ Cardinality(Served') <= MAX_CLIENTS
  <2>1. Served' = Served \cup {c} /\ c \notin Served
    BY <1>2, <1>3 DEF Served, Accept
  <2>2. IsFiniteSet(Served) /\ Cardinality(Served) <= MAX_CLIENTS
        /\ Cardinality(Served) # MAX_CLIENTS
    BY DEF IInv, TypeOK, Accept, Full
  <2>3. /\ Cardinality(Served) \in Nat /\ IsFiniteSet(Served \cup {c})
        /\ Cardinality(Served \cup {c}) = Cardinality(Served) + 1
    BY <2>1, <2>2, FS_CardinalityType, FS_AddElement
  <2> QED
    BY <2>1, <2>2, <2>3, SystemAssumption
<1>5. Talks(own, "open", "HELLO", toServer[c], toClient[c], "none")
  BY <1>1 DEF Talks, Unopened, Opened, Requests, Rest
<1>6. Told(own, "open", toServer[c], toClient[c], "none", known, added)
  BY <1>1 DEF Talks, Unopened, Told, BeforeAdd
<1>7. c \in Old => Mismatched("HELLO", "none", known)
  BY <1>1 DEF Mismatched
<1>8. Lists(c, own, toClient[c], "none", Table, header.count, listed)
  BY <1>1 DEF Talks, Unopened, Lists
<1>9. Fits(c, own, "open", "HELLO", toServer[c], toClient[c], "none",
           Table, Store!Stored, header.count, listed)
  BY <1>5, <1>6, <1>7, <1>8 DEF Fits
<1> QED
  BY <1>2, <1>3, <1>4, <1>9, ConnectionMoves

LEMMA Refused ==
  ASSUME IInv, NEW c \in Client, Refuse(c)
  PROVE  IInv'
<1> DEFINE own == client[c]
           known == Known(c, Table, Store!Stored)
           added == Added(c, own.pieces, Table)
<1>1. /\ Talks(own, "queued", session[c], toServer[c], toClient[c], "none")
      /\ Told(own, "queued", toServer[c], toClient[c], "none", known, added)
      /\ c \in Old => Mismatched(session[c], "none", known)
  BY Waiting DEF Refuse
<1>2. /\ Free /\ UNCHANGED <<store, server, toClient, client, sigpipe>> /\ session' = session
      /\ link' = [link EXCEPT ![c] = "shut"] /\ toServer' = [toServer EXCEPT ![c] = <<>>]
      /\ link \in [Client -> Link] /\ session \in [Client -> Session]
      /\ toServer \in [Client -> Seq(Request)] /\ link[c] = "queued"
  BY DEF Refuse, IInv, TypeOK, Request
<1>3. /\ link' \in [Client -> Link] /\ session' \in [Client -> Session]
      /\ link'[c] = "shut" /\ toServer'[c] = <<>> /\ toServer' \in [Client -> Seq(Request)]
      /\ \A d \in Client \ {c} : link'[d] = link[d] /\ toServer'[d] = toServer[d]
  BY <1>2 DEF Link, Session
<1>4. IsFiniteSet(Served') /\ Cardinality(Served') <= MAX_CLIENTS
  <2>1. Served' = Served
    BY <1>2, <1>3 DEF Served
  <2> QED
    BY <2>1 DEF IInv, TypeOK
<1>5. Talks(own, "shut", session[c], <<>>, toClient[c], "none")
  BY <1>1 DEF Talks, Unopened
<1>6. Told(own, "shut", <<>>, toClient[c], "none", known, added)
  BY <1>1 DEF Talks, Unopened, Told
<1>7. Fits(c, own, "shut", session[c], <<>>, toClient[c], "none",
           Table, Store!Stored, header.count, listed)
  BY <1>1, <1>5, <1>6 DEF Fits
<1> QED
  BY <1>2, <1>3, <1>4, <1>7, ConnectionMoves

LEMMA Closed ==
  ASSUME IInv, NEW c \in Client, Close(c)
  PROVE  IInv'
<1> DEFINE own == client[c]
           known == Known(c, Table, Store!Stored)
           added == Added(c, own.pieces, Table)
<1>1. /\ Talks(own, "open", session[c], <<>>, toClient[c], "none")
      /\ Told(own, "open", <<>>, toClient[c], "none", known, added)
      /\ c \in Old => Mismatched(session[c], "none", known)
      /\ own.at = "done"
  BY Waiting DEF Close, Gone
<1>2. /\ Free /\ UNCHANGED <<store, server, toClient, client, sigpipe>> /\ toServer' = toServer
      /\ link' = [link EXCEPT ![c] = "off"] /\ session' = [session EXCEPT ![c] = "none"]
      /\ link \in [Client -> Link] /\ session \in [Client -> Session]
      /\ toServer \in [Client -> Seq(Request)] /\ toServer[c] = <<>>
  BY DEF Close, IInv, TypeOK, Request
<1>3. /\ link' \in [Client -> Link] /\ session' \in [Client -> Session]
      /\ link'[c] = "off" /\ session'[c] = "none" /\ toServer' \in [Client -> Seq(Request)]
      /\ \A d \in Client \ {c} : link'[d] = link[d] /\ session'[d] = session[d]
  BY <1>2 DEF Link, Session
<1>4. IsFiniteSet(Served') /\ Cardinality(Served') <= MAX_CLIENTS
  <2>1. Served' \subseteq Served
    BY <1>2, <1>3 DEF Served
  <2>2. IsFiniteSet(Served) /\ Cardinality(Served) <= MAX_CLIENTS
    BY DEF IInv, TypeOK
  <2>3. /\ Cardinality(Served) \in Nat /\ IsFiniteSet(Served')
        /\ Cardinality(Served') <= Cardinality(Served) /\ Cardinality(Served') \in Nat
    BY <2>1, <2>2, FS_CardinalityType, FS_Subset
  <2> QED
    BY <2>2, <2>3, SystemAssumption
<1>5. Talks(own, "off", "none", <<>>, toClient[c], "none")
  BY <1>1 DEF Talks, Unopened
<1>6. Told(own, "off", <<>>, toClient[c], "none", known, added)
  BY <1>1 DEF Talks, Told
<1>7. c \in Old => Mismatched("none", "none", known)
  BY <1>1 DEF Mismatched
<1>8. Fits(c, own, "off", "none", <<>>, toClient[c], "none",
           Table, Store!Stored, header.count, listed)
  BY <1>5, <1>6, <1>7 DEF Fits
<1> QED
  BY <1>2, <1>3, <1>4, <1>8, ConnectionMoves

-----------------------------------------------------------------------------
(* The messages the server reads.                                          *)

LEMMA Reading ==
  ASSUME IInv, NEW c \in Client, NEW state, NEW types, NEW n, Received(c, state, types, n)
  PROVE  /\ Free /\ link[c] = "open" /\ session[c] = state /\ toServer[c][1] \in types
         /\ toServer[c] \in Requests
         /\ toServer' \in [Client -> Seq(Request)]
         /\ \A d \in Client \ {c} : toServer'[d] = toServer[d]
         /\ toServer[c][1] = "hello" => toServer[c] = <<"hello">> /\ toServer'[c] = <<>>
         /\ toServer[c][1] = "add" => /\ toServer[c] = <<"add", "rest">> /\ toServer'[c] \in Rest
                                      /\ n \in {1, 2} /\ (n = 1 => client[c].pieces)
         /\ toServer[c][1] = "list" => toServer[c] = <<"list">> /\ toServer'[c] = <<>>
         /\ toServer[c][1] = "rest" => /\ toServer[c] \in {<<"rest">>, <<"rest", "list">>}
                                       /\ toServer'[c] \in {<<>>, <<"list">>}
                                       /\ toServer[c] = <<"rest">> => toServer'[c] = <<>>
<1> DEFINE ts == toServer[c]
           left == SubSeq(ts, n + 1, Len(ts))
<1>1. /\ Free /\ link[c] = "open" /\ session[c] = state /\ ts[1] \in types /\ n \in Chunk(c)
      /\ toServer' = [toServer EXCEPT ![c] = left]
      /\ toServer \in [Client -> Seq(Request)] /\ ts \in Seq(Request)
  BY DEF Received, IInv, TypeOK, Request
<1>2. ts \in Requests
  <2>1. Opened(client[c], session[c], ts, toClient[c], "none")
    BY <1>1, Waiting DEF Talks
  <2>2. client[c].at \in At
    BY Typed DEF ClientState
  <2> QED
    BY <2>1, <2>2 DEF Opened, Requests, Rest, At
<1>3. Len(ts) \in Nat
  BY <1>1, LenProperties
<1>4. n \in 1..Len(ts) /\ (~ client[c].pieces => n = Len(ts))
  <2>1. CASE client[c].pieces
    BY <1>1, <2>1 DEF Chunk
  <2>2. CASE ~ client[c].pieces
    BY <1>1, <1>3, <2>2 DEF Chunk
  <2> QED
    BY <2>1, <2>2
<1>5. toServer'[c] = left
  BY <1>1
<1>6. left \in Seq(Request)
  <2>1. \A k \in (n + 1)..Len(ts) : ts[k] \in Request
    BY <1>1, <1>3, <1>4, ElementOfSeq
  <2> QED
    BY <1>3, <1>4, <2>1, SubSeqProperties
<1>7. toServer' \in [Client -> Seq(Request)] /\ \A d \in Client \ {c} : toServer'[d] = toServer[d]
  BY <1>1, <1>6
<1>8. ts[1] = "add" => n \in {1, 2} /\ (n = 1 => client[c].pieces)
  <2> SUFFICES ASSUME ts[1] = "add"
               PROVE  n \in {1, 2} /\ (n = 1 => client[c].pieces)
    OBVIOUS
  <2>1. ts = <<"add", "rest">>
    BY <1>2, <1>4, Requested
  <2>2. Len(ts) = 2
    BY <2>1
  <2> QED
    BY <1>4, <2>2
<1>9. LET l == left IN
      /\ ts[1] = "hello" => ts = <<"hello">> /\ l = <<>>
      /\ ts[1] = "add" => ts = <<"add", "rest">> /\ l \in Rest
      /\ ts[1] = "list" => ts = <<"list">> /\ l = <<>>
      /\ ts[1] = "rest" => /\ ts \in {<<"rest">>, <<"rest", "list">>}
                           /\ l \in {<<>>, <<"list">>}
                           /\ ts = <<"rest">> => l = <<>>
  BY <1>2, <1>4, Requested
<1> HIDE DEF left, ts
<1>10. /\ Free /\ link[c] = "open" /\ session[c] = state /\ ts[1] \in types
       /\ ts \in Requests /\ toServer' \in [Client -> Seq(Request)]
       /\ \A d \in Client \ {c} : toServer'[d] = toServer[d]
  BY <1>1, <1>2, <1>7
<1> QED
  BY <1>5, <1>8, <1>9, <1>10 DEF ts

LEMMA Answered ==
  ASSUME IInv, NEW c \in Client, NEW what \in {"hello", "hello error", "list"}, Answers(c, what),
         Free, link[c] = "open",
         toServer' \in [Client -> Seq(Request)],
         \A d \in Client \ {c} : toServer'[d] = toServer[d],
         Talks(client[c], "open", session[c], toServer'[c], toClient[c], what),
         toServer'[c] = <<>>,
         what = "hello" => c \notin Old
  PROVE  IInv'
<1> DEFINE own == client[c]
           known == Known(c, Table, Store!Stored)
           added == Added(c, own.pieces, Table)
<1>1. /\ Talks(own, "open", session[c], toServer[c], toClient[c], "none")
      /\ Told(own, "open", toServer[c], toClient[c], "none", known, added)
      /\ c \in Old => Mismatched(session[c], "none", known)
      /\ "short" \notin own.said => Lists(c, own, toClient[c], "none", Table, header.count, listed)
      /\ phase = "idle" /\ serving = None /\ answer = "none"
  BY Waiting
<1>2. /\ UNCHANGED store /\ listed' = listed /\ session' = session /\ toClient' = toClient
      /\ UNCHANGED <<link, client, sigpipe>> /\ serving' = c /\ answer' = what
  BY DEF Answers
<1>3. /\ phase' = phase /\ header' = header /\ Table' = Table /\ Store!Stored' = Store!Stored
      /\ [Store!Next]_(Store!vars)
  BY <1>2, Still
<1>4. Tables(c)
  BY <1>3 DEF Tables
<1>5. /\ answer' \in Answer /\ listed' \in 0..(COUNT_MOD - 1)
      /\ session' \in [Client -> Session]
      /\ toClient' \in [Client -> Seq(RecordUnit \cup MessageUnit)]
      /\ Len(toClient'[c]) <= WINDOW
  BY <1>2 DEF IInv, TypeOK, Answer
<1>6. /\ serving' # None /\ answer' \notin {"none", "records"} /\ phase' = "idle"
      /\ {serving, serving'} \subseteq {c, None}
      /\ Turn(c, serving', answer', phase') = what
  BY <1>1, <1>2, <1>3, NameAssumption DEF Turn
<1>7. Told(own, "open", toServer'[c], toClient[c], what, known, added)
  <2>1. <<>> # <<"add", "rest">>
    BY Distinct DEF Rest
  <2>2. Told(own, "open", <<>>, toClient[c], what, known, added)
    BY <1>1, <2>1 DEF Told
  <2> QED
    BY <2>2
<1>8. c \in Old => Mismatched(session[c], what, known)
  BY <1>1 DEF Mismatched
<1>9. "short" \notin own.said => Lists(c, own, toClient[c], what, Table, header.count, listed)
  BY <1>1 DEF Lists, Listing
<1>10. Fits(c, own, "open", session[c], toServer'[c], toClient[c], what,
            Table, Store!Stored, header.count, listed)
  BY <1>7, <1>8, <1>9 DEF Fits
<1>11. Fits(c, client[c], "open", session'[c], toServer'[c], toClient'[c],
            Turn(c, serving', answer', phase'), Table', Store!Stored', header'.count, listed')
  BY <1>2, <1>3, <1>6, <1>10
<1>12. /\ \A d \in Client \ {c} : session'[d] = session[d] /\ toServer'[d] = toServer[d]
                                  /\ toClient'[d] = toClient[d]
       /\ answer' = "records" => listed' <= header'.count
       /\ phase' # "down"
       /\ serving' = None => answer' = "none" /\ phase' = "idle"
       /\ serving' # None => IF answer' = "none" THEN phase' # "idle" ELSE phase' = "idle"
  BY <1>2, <1>6
<1> QED
  BY <1>2, <1>3, <1>4, <1>5, <1>6, <1>11, <1>12, ServerActs

LEMMA HelloRead ==
  ASSUME IInv, NEW c \in Client, ReadHello(c)
  PROVE  IInv'
<1>1. PICK n \in Chunk(c) : Received(c, "HELLO", {"hello"}, n)
  BY DEF ReadHello
<1>2. /\ Free /\ link[c] = "open" /\ session[c] = "HELLO" /\ toServer[c] = <<"hello">>
      /\ toServer' \in [Client -> Seq(Request)] /\ toServer'[c] = <<>>
      /\ \A d \in Client \ {c} : toServer'[d] = toServer[d]
  BY <1>1, Reading
<1>3. Talks(client[c], "open", "HELLO", <<"hello">>, toClient[c], "none")
  BY <1>2, Waiting
<1>4. Talks(client[c], "open", "HELLO", <<>>, toClient[c], "hello")
  BY <1>3 DEF Talks, Opened, Rest, Requests
<1>5. c \notin Old /\ Answers(c, "hello")
  BY DEF ReadHello, SameVersion
<1> QED
  BY <1>2, <1>4, <1>5, Answered

LEMMA HelloReadWrong ==
  ASSUME IInv, NEW c \in Client, ReadHelloWrong(c)
  PROVE  IInv'
<1>1. PICK n \in Chunk(c) : Received(c, "HELLO", {"hello"}, n)
  BY DEF ReadHelloWrong
<1>2. /\ Free /\ link[c] = "open" /\ session[c] = "HELLO" /\ toServer[c] = <<"hello">>
      /\ toServer' \in [Client -> Seq(Request)] /\ toServer'[c] = <<>>
      /\ \A d \in Client \ {c} : toServer'[d] = toServer[d]
  BY <1>1, Reading
<1>3. Talks(client[c], "open", "HELLO", <<"hello">>, toClient[c], "none")
  BY <1>2, Waiting
<1>4. Talks(client[c], "open", "HELLO", <<>>, toClient[c], "hello error")
  BY <1>3 DEF Talks, Opened, Rest, Requests
<1>5. Answers(c, "hello error")
  BY DEF ReadHelloWrong
<1> QED
  BY <1>2, <1>4, <1>5, Answered

LEMMA ListRead ==
  ASSUME IInv, NEW c \in Client, ReadList(c)
  PROVE  IInv'
<1>1. PICK n \in Chunk(c) : Received(c, "MSG", {"list"}, n)
  BY DEF ReadList
<1>2. /\ Free /\ link[c] = "open" /\ session[c] = "MSG" /\ toServer[c] = <<"list">>
      /\ toServer' \in [Client -> Seq(Request)] /\ toServer'[c] = <<>>
      /\ \A d \in Client \ {c} : toServer'[d] = toServer[d]
  BY <1>1, Reading
<1>3. Talks(client[c], "open", "MSG", <<"list">>, toClient[c], "none")
  BY <1>2, Waiting
<1>4. Talks(client[c], "open", "MSG", <<>>, toClient[c], "list")
  BY <1>3 DEF Talks, Opened, Rest, Requests
<1>5. Answers(c, "list")
  BY DEF ReadList
<1> QED
  BY <1>2, <1>4, <1>5, Answered

LEMMA OtherRead ==
  ASSUME IInv, NEW c \in Client, ReadOther(c)
  PROVE  IInv'
<1> DEFINE own == client[c]
           known == Known(c, Table, Store!Stored)
           added == Added(c, own.pieces, Table)
<1>1. PICK n \in Chunk(c) : Received(c, "MSG", {"rest"}, n)
  BY DEF ReadOther
<1>2. /\ Free /\ link[c] = "open" /\ session[c] = "MSG"
      /\ toServer' \in [Client -> Seq(Request)]
      /\ \A d \in Client \ {c} : toServer'[d] = toServer[d]
      /\ toServer[c] \in {<<"rest">>, <<"rest", "list">>}
      /\ toServer'[c] \in {<<>>, <<"list">>}
      /\ toServer[c] = <<"rest">> => toServer'[c] = <<>>
  BY <1>1, Reading
<1>3. /\ Talks(own, "open", "MSG", toServer[c], toClient[c], "none")
      /\ Told(own, "open", toServer[c], toClient[c], "none", known, added)
      /\ c \in Old => Mismatched("MSG", "none", known)
      /\ "short" \notin own.said => Lists(c, own, toClient[c], "none", Table, header.count, listed)
      /\ phase = "idle" /\ serving = None /\ answer = "none"
  BY <1>2, Waiting
<1>4. /\ UNCHANGED <<store, server, session, link, toClient, client, sigpipe>>
      /\ link \in [Client -> Link] /\ session \in [Client -> Session]
      /\ IsFiniteSet(Served) /\ Cardinality(Served) <= MAX_CLIENTS
  BY DEF ReadOther, IInv, TypeOK
<1>5. Served' = Served
  BY <1>4 DEF Served
<1>6. Talks(own, "open", "MSG", toServer'[c], toClient[c], "none")
  <2>1. CASE toServer[c] = <<"rest">>
    <3>1. Talks(own, "open", "MSG", <<"rest">>, toClient[c], "none")
      BY <1>3, <2>1
    <3>2. Talks(own, "open", "MSG", <<>>, toClient[c], "none")
      BY <3>1 DEF Talks, Opened, Rest, Requests
    <3> QED
      BY <1>2, <2>1, <3>2
  <2>2. CASE toServer[c] = <<"rest", "list">>
    <3>1. Talks(own, "open", "MSG", <<"rest", "list">>, toClient[c], "none")
      BY <1>3, <2>2
    <3>2. Talks(own, "open", "MSG", <<>>, toClient[c], "none")
      BY <3>1 DEF Talks, Opened, Rest, Requests
    <3>3. Talks(own, "open", "MSG", <<"list">>, toClient[c], "none")
      BY <3>1 DEF Talks, Opened, Rest, Requests
    <3> QED
      BY <1>2, <3>2, <3>3
  <2> QED
    BY <1>2, <2>1, <2>2
<1>7. Told(own, "open", toServer'[c], toClient[c], "none", known, added)
  BY <1>2, <1>3, Distinct DEF Told, Rest
<1>8. Fits(c, own, "open", "MSG", toServer'[c], toClient[c], "none",
           Table, Store!Stored, header.count, listed)
  BY <1>3, <1>6, <1>7 DEF Fits
<1> QED
  BY <1>2, <1>4, <1>5, <1>8, ConnectionMoves

\* The beginning of an add request was read, and the handler has come to its reply.
LEMMA AddRead ==
  ASSUME IInv, NEW c \in Client, NEW n \in Chunk(c), Received(c, "MSG", {"add"}, n),
         UNCHANGED <<answer, listed, session, link, toClient, client, sigpipe>>, serving' = c,
         [Store!Next]_(Store!vars), phase' \in {"reply", "reply error"}, Tables(c),
         phase' = "reply" => Added(c, client[c].pieces, Table'),
         phase' = "reply error" => Table' = Table /\ Store!Stored' = Store!Stored
  PROVE  IInv'
<1> DEFINE own == client[c]
           known == Known(c, Table, Store!Stored)
           added == Added(c, own.pieces, Table)
           known2 == Known(c, Table', Store!Stored')
           added2 == Added(c, own.pieces, Table')
<1>1. /\ Free /\ link[c] = "open" /\ session[c] = "MSG" /\ toServer[c] = <<"add", "rest">>
      /\ toServer' \in [Client -> Seq(Request)] /\ toServer'[c] \in Rest
      /\ \A d \in Client \ {c} : toServer'[d] = toServer[d]
  <2>1. Received(c, "MSG", {"add"}, n)
    OBVIOUS
  <2> QED
    BY ONLY IInv, <2>1, Reading
<1>2. /\ Talks(own, "open", "MSG", <<"add", "rest">>, toClient[c], "none")
      /\ Told(own, "open", <<"add", "rest">>, toClient[c], "none", known, added)
      /\ c \in Old => Mismatched("MSG", "none", known)
      /\ "short" \notin own.said => Lists(c, own, toClient[c], "none", Table, header.count, listed)
      /\ phase = "idle" /\ serving = None /\ answer = "none"
  BY <1>1, Waiting
<1>3. /\ answer' = answer /\ listed' = listed /\ session' = session /\ toClient' = toClient
      /\ UNCHANGED <<link, client, sigpipe>>
  OBVIOUS
<1>4. /\ answer' \in Answer /\ listed' \in 0..(COUNT_MOD - 1)
      /\ session' \in [Client -> Session]
      /\ toClient' \in [Client -> Seq(RecordUnit \cup MessageUnit)]
      /\ Len(toClient'[c]) <= WINDOW
  BY <1>3 DEF IInv, TypeOK, Answer
<1>5. c \notin Old
  BY <1>2 DEF Mismatched
<1>6. toServer'[c] # <<"add", "rest">>
  BY <1>1, Distinct
<1>7. /\ ~ known /\ "refused" \notin own.said
      /\ own.at = "read add" \/ (own.at = "done" /\ "killed" \in own.said)
      /\ own.at = "read add" => toClient[c] = <<>> /\ own.said \cap {"added", "refused"} = {}
  <2>1. own.at \in At
    BY Typed DEF ClientState
  <2>2. ~ known /\ "refused" \notin own.said
        /\ (own.at = "read add" => own.said \cap {"added", "refused"} = {})
    BY <1>2 DEF Told
  <2>3. /\ own.at = "read add" \/ (own.at = "done" /\ "killed" \in own.said)
        /\ own.at = "read add" => toClient[c] = <<>>
    BY <1>2, <2>1, Distinct DEF Talks, Opened, At, Rest
  <2> QED
    BY <2>2, <2>3
<1>8. Turn(c, serving', answer', phase') = phase'
  BY <1>2 DEF Turn
<1>9. Talks(own, "open", "MSG", toServer'[c], toClient[c], phase')
  BY <1>1, <1>2, <1>7 DEF Talks, Opened, Rest, Requests
<1>10. Told(own, "open", toServer'[c], toClient[c], phase', known2, added2)
  <2>1. <<>> # <<Unit("error")>> /\ <<>> # <<Unit("add resp")>>
    BY Distinct
  <2>2. own.at = "read add" => own.add # None
    BY <1>2 DEF Told
  <2>3. own.at \notin BeforeAdd
    BY <1>7 DEF BeforeAdd
  <2>4. own.at # "send add"
    BY <1>7
  <2>5. CASE phase' = "reply"
    BY <1>6, <1>7, <2>1, <2>2, <2>3, <2>4, <2>5 DEF Told
  <2>6. CASE phase' = "reply error"
    <3>1. known2 = known /\ added2 = added
      BY <2>6
    <3>2. "added" \in own.said => added
      BY <1>2 DEF Told
    <3> QED
      BY <1>6, <1>7, <2>1, <2>2, <2>3, <2>4, <2>6, <3>1, <3>2 DEF Told
  <2> QED
    BY <2>5, <2>6
<1>11. Lists(c, own, toClient[c], phase', Table', header'.count, listed)
  BY <1>7 DEF Lists
<1>12. Fits(c, own, "open", session'[c], toServer'[c], toClient'[c],
            Turn(c, serving', answer', phase'), Table', Store!Stored', header'.count, listed')
  BY <1>1, <1>3, <1>5, <1>8, <1>9, <1>10, <1>11 DEF Fits
<1>13. /\ \A d \in Client \ {c} : session'[d] = session[d] /\ toServer'[d] = toServer[d]
                                  /\ toClient'[d] = toClient[d]
       /\ answer' = "records" => listed' <= header'.count
       /\ phase' # "down" /\ phase' # "idle" /\ serving' # None
       /\ {serving, serving'} \subseteq {c, None} /\ answer' = "none"
  BY <1>1, <1>2, <1>3, NameAssumption
<1> QED
  BY <1>1, <1>3, <1>4, <1>12, <1>13, ServerActs

LEMMA AddTaken ==
  ASSUME IInv, NEW c \in Client, ReadAdd(c)
  PROVE  IInv'
<1>1. PICK n \in Chunk(c) : /\ Received(c, "MSG", {"add"}, n)
                            /\ \E e \in Named(c, n) : Store!AddEmployee(e)
  BY DEF ReadAdd, AddTypes
<1>2. PICK e \in Named(c, n) : Store!AddEmployee(e)
  BY <1>1
<1>3. Received(c, "MSG", {"add"}, n) /\ Store!AddEmployee(e)
  BY <1>1, <1>2
<1>4. /\ UNCHANGED <<answer, listed, session, link, toClient, client, sigpipe>> /\ serving' = c
      /\ client[c].add # Malformed
  BY DEF ReadAdd
<1>5. /\ Free /\ link[c] = "open" /\ session[c] = "MSG" /\ toServer[c] = <<"add", "rest">>
      /\ n = 1 => client[c].pieces
  BY <1>3, Reading
<1>6. /\ Told(client[c], "open", <<"add", "rest">>, toClient[c], "none",
              Known(c, Table, Store!Stored), Added(c, client[c].pieces, Table))
  BY <1>5, Waiting
<1>7. client[c].add = c /\ ~ Among(c, Table)
  <2>1. client[c].add # None /\ ~ Known(c, Table, Store!Stored)
    BY <1>6 DEF Told
  <2> QED
    BY <1>4, <2>1, Typed DEF Known
<1>8. e \in {c, Cut} /\ (e = Cut => client[c].pieces)
  BY <1>5, <1>7, NameAssumption DEF Named
<1>9. Store!Next /\ phase' = "reply"
  <2>1. e \in Client \cup {Cut}
    BY <1>8
  <2> QED
    BY <1>3, <2>1 DEF Store!Next, Store!AddEmployee
<1>10. Table' = Append(Table, e) /\ Store!Stored' = Store!Stored
  <2>1. Store!IInv' /\ Store!Whole'
    BY <1>9, StoreKept DEF IInv
  <2>2. e \in Client \cup {Cut}
    BY <1>8
  <2> QED
    BY <1>3, <2>1, <2>2, StoreSteps DEF IInv
<1>11. Tables(c)
  BY <1>7, <1>8, <1>10 DEF Tables
<1>12. Among(e, Table')
  <2>1. Table \in Seq(Name) /\ Len(Table) \in Nat /\ e \in Name
    BY <1>8, TheTable DEF IInv, Name
  <2>2. /\ DOMAIN Append(Table, e) = 1..(Len(Table) + 1)
        /\ Append(Table, e)[Len(Table) + 1] = e
    BY <2>1, AppendProperties
  <2>3. Len(Table) + 1 \in 1..(Len(Table) + 1)
    BY <2>1
  <2>4. Among(e, Append(Table, e))
    BY <2>2, <2>3 DEF Among
  <2> QED
    BY <1>10, <2>4
<1>13. Added(c, client[c].pieces, Table')
  BY <1>8, <1>12 DEF Added
<1> QED
  BY <1>3, <1>4, <1>9, <1>11, <1>13, AddRead

LEMMA AddRefused ==
  ASSUME IInv, NEW c \in Client, ReadAddRejected(c)
  PROVE  IInv'
<1>1. PICK n \in Chunk(c) : Received(c, "MSG", {"add"}, n)
  BY DEF ReadAddRejected, AddTypes
<1>2. /\ UNCHANGED <<answer, listed, session, link, toClient, client, sigpipe>> /\ serving' = c
      /\ Store!AddRejected
  BY DEF ReadAddRejected
<1>3. Store!Next /\ phase' = "reply error"
  BY <1>2 DEF Store!Next, Store!AddRejected
<1>4. Table' = Table /\ Store!Stored' = Store!Stored
  <2>1. Store!IInv' /\ Store!Whole'
    BY <1>3, StoreKept DEF IInv
  <2> QED
    BY <1>2, <2>1, StoreSteps DEF IInv
<1>5. Tables(c)
  BY <1>4 DEF Tables
<1> QED
  BY <1>1, <1>2, <1>3, <1>4, <1>5, AddRead

-----------------------------------------------------------------------------
(* The answers the server writes.                                          *)

\* What is known of the connection whose message the server handles.
LEMMA AtWork ==
  ASSUME IInv, serving # None, NEW turn, Turn(serving, serving, answer, phase) = turn
  PROVE  /\ serving \in Client /\ link[serving] = "open"
         /\ IF answer = "none" THEN phase \notin {"down", "idle"} ELSE phase = "idle"
         /\ Talks(client[serving], "open", session[serving], toServer[serving],
                  toClient[serving], turn)
         /\ Told(client[serving], "open", toServer[serving], toClient[serving], turn,
                 Known(serving, Table, Store!Stored),
                 Added(serving, client[serving].pieces, Table))
         /\ serving \in Old =>
              Mismatched(session[serving], turn, Known(serving, Table, Store!Stored))
         /\ "short" \notin client[serving].said =>
              Lists(serving, client[serving], toClient[serving], turn, Table,
                    header.count, listed)
         /\ client[serving].at \in At
<1>1. /\ serving \in Client /\ link[serving] = "open"
      /\ IF answer = "none" THEN phase \notin {"down", "idle"} ELSE phase = "idle"
  BY DEF IInv, TypeOK, ServerInOrder
<1>2. Fits(serving, client[serving], "open", session[serving], toServer[serving],
           toClient[serving], turn, Table, Store!Stored, header.count, listed)
  BY <1>1 DEF IInv, Good
<1>3. client[serving].at \in At
  BY <1>1, Typed DEF ClientState
<1> QED
  BY <1>1, <1>2, <1>3 DEF Fits

LEMMA Wrote ==
  ASSUME IInv, NEW c \in Client, NEW units \in Seq(RecordUnit \cup MessageUnit),
         Write(c, units)
  PROVE  /\ toClient' \in [Client -> Seq(RecordUnit \cup MessageUnit)]
         /\ Len(toClient'[c]) <= WINDOW
         /\ \A d \in Client \ {c} : toClient'[d] = toClient[d]
         /\ client[c].at = "done" => toClient'[c] = toClient[c]
         /\ client[c].at # "done" => toClient'[c] = toClient[c] \o units
<1>1. /\ toClient \in [Client -> Seq(RecordUnit \cup MessageUnit)]
      /\ toClient[c] \in Seq(RecordUnit \cup MessageUnit) /\ Len(toClient[c]) <= WINDOW
  BY DEF IInv, TypeOK
<1>2. CASE client[c].at = "done"
  BY <1>1, <1>2 DEF Write, Gone
<1>3. CASE client[c].at # "done"
  <2>1. /\ Len(toClient[c]) + Len(units) <= WINDOW
        /\ toClient' = [toClient EXCEPT ![c] = toClient[c] \o units]
    BY <1>3 DEF Write, Gone
  <2>2. /\ toClient[c] \o units \in Seq(RecordUnit \cup MessageUnit)
        /\ Len(toClient[c] \o units) = Len(toClient[c]) + Len(units)
    BY <1>1, ConcatProperties
  <2> QED
    BY <1>1, <1>3, <2>1, <2>2
<1> QED
  BY <1>2, <1>3

LEMMA OneUnit ==
  /\ <<Unit("hello resp")>> \in Seq(RecordUnit \cup MessageUnit)
  /\ <<Unit("error")>> \in Seq(RecordUnit \cup MessageUnit)
  /\ <<Unit("add resp")>> \in Seq(RecordUnit \cup MessageUnit)
<1> DEFINE M == RecordUnit \cup MessageUnit
<1>1. 0 \in 0..(COUNT_MOD - 1)
  BY StoreAssumption
<1>2. Unit("hello resp") \in MessageUnit
  BY <1>1 DEF Unit, MessageUnit
<1>3. Unit("error") \in MessageUnit
  BY <1>1 DEF Unit, MessageUnit
<1>4. Unit("add resp") \in MessageUnit
  BY <1>1 DEF Unit, MessageUnit
<1>5. Unit("hello resp") \in M /\ Unit("error") \in M /\ Unit("add resp") \in M
  BY <1>2, <1>3, <1>4
<1> HIDE DEF M
<1>6. \A unit \in M : <<unit>> \in Seq(M)
  OBVIOUS
<1> QED
  BY <1>5, <1>6 DEF M

\* The server is through with c.
LEMMA Through ==
  ASSUME IInv, NEW c \in Client, serving = c, link[c] = "open", serving' = None,
         answer' = "none", phase' = "idle",
         UNCHANGED <<listed, link, toServer, client, sigpipe>>,
         [Store!Next]_(Store!vars), Table' = Table, Store!Stored' = Store!Stored,
         session' \in [Client -> Session],
         toClient' \in [Client -> Seq(RecordUnit \cup MessageUnit)],
         Len(toClient'[c]) <= WINDOW,
         \A d \in Client \ {c} : session'[d] = session[d] /\ toClient'[d] = toClient[d],
         Talks(client[c], "open", session'[c], toServer[c], toClient'[c], "none"),
         Told(client[c], "open", toServer[c], toClient'[c], "none",
              Known(c, Table, Store!Stored), Added(c, client[c].pieces, Table)),
         c \in Old => Mismatched(session'[c], "none", Known(c, Table, Store!Stored)),
         "short" \notin client[c].said =>
           Lists(c, client[c], toClient'[c], "none", Table, header.count, listed)
  PROVE  IInv'
<1> DEFINE own == client[c]
<1>1. /\ listed' = listed /\ toServer' = toServer /\ UNCHANGED <<link, client, sigpipe>>
  OBVIOUS
<1>2. /\ answer' \in Answer /\ listed' \in 0..(COUNT_MOD - 1)
      /\ toServer' \in [Client -> Seq(Request)]
  BY <1>1 DEF IInv, TypeOK, Answer, Request
<1>3. Tables(c)
  BY DEF Tables
<1>4. Turn(c, serving', answer', phase') = "none"
  BY NameAssumption DEF Turn
<1>5. "short" \notin own.said => Lists(c, own, toClient'[c], "none", Table, header'.count, listed)
  BY DEF Lists, Listing
<1>6. Fits(c, own, "open", session'[c], toServer[c], toClient'[c], "none",
           Table, Store!Stored, header'.count, listed)
  BY <1>5 DEF Fits
<1>7. Fits(c, client[c], "open", session'[c], toServer'[c], toClient'[c],
           Turn(c, serving', answer', phase'), Table', Store!Stored', header'.count, listed')
  BY <1>1, <1>4, <1>6
<1>8. /\ \A d \in Client \ {c} : session'[d] = session[d] /\ toServer'[d] = toServer[d]
                                 /\ toClient'[d] = toClient[d]
      /\ answer' = "records" => listed' <= header'.count
      /\ phase' # "down" /\ {serving, serving'} \subseteq {c, None}
  BY <1>1
<1> QED
  BY <1>1, <1>2, <1>3, <1>7, <1>8, ServerActs

LEMMA HelloReplied ==
  ASSUME IInv, ReplyHello
  PROVE  IInv'
<1> DEFINE c == serving
           own == client[c]
           known == Known(c, Table, Store!Stored)
           added == Added(c, own.pieces, Table)
<1>1. /\ answer = "hello" /\ Write(c, <<Unit("hello resp")>>)
      /\ session' = [session EXCEPT ![c] = "MSG"] /\ serving' = None /\ answer' = "none"
      /\ UNCHANGED <<store, listed, link, toServer, client, sigpipe>>
  BY DEF ReplyHello
<1>2. serving # None /\ Turn(c, serving, answer, phase) = "hello"
  BY <1>1 DEF IInv, ServerInOrder, Turn
<1>3. /\ c \in Client /\ link[c] = "open" /\ phase = "idle"
      /\ Talks(own, "open", session[c], toServer[c], toClient[c], "hello")
      /\ Told(own, "open", toServer[c], toClient[c], "hello", known, added)
      /\ c \in Old => Mismatched(session[c], "hello", known)
      /\ "short" \notin own.said => Lists(c, own, toClient[c], "hello", Table, header.count, listed)
      /\ own.at \in At
  BY <1>1, <1>2, AtWork
<1>4. /\ toClient' \in [Client -> Seq(RecordUnit \cup MessageUnit)]
      /\ Len(toClient'[c]) <= WINDOW
      /\ \A d \in Client \ {c} : toClient'[d] = toClient[d]
      /\ own.at = "done" => toClient'[c] = toClient[c]
      /\ own.at # "done" => toClient'[c] = toClient[c] \o <<Unit("hello resp")>>
  BY <1>1, <1>3, OneUnit, Wrote
<1>5. /\ session' \in [Client -> Session] /\ session'[c] = "MSG"
      /\ \A d \in Client \ {c} : session'[d] = session[d]
  BY <1>1, <1>3 DEF IInv, TypeOK, Session
<1>6. /\ phase' = phase /\ Table' = Table /\ Store!Stored' = Store!Stored
      /\ [Store!Next]_(Store!vars)
  BY <1>1, Still
<1>7. c \notin Old
  BY <1>3 DEF Mismatched
<1>8. CASE own.at = "done"
  <2>1. Talks(own, "open", "MSG", toServer[c], toClient[c], "none")
    BY <1>3, <1>8 DEF Talks, Opened
  <2>2. Told(own, "open", toServer[c], toClient[c], "none", known, added)
    BY <1>3, <1>8 DEF Told
  <2>3. "short" \notin own.said => Lists(c, own, toClient[c], "none", Table, header.count, listed)
    BY <1>3, <1>8 DEF Lists
  <2> QED
    BY <1>1, <1>3, <1>4, <1>5, <1>6, <1>7, <1>8, <2>1, <2>2, <2>3, Through
<1>9. CASE own.at # "done"
  <2>1. own.at = "read hello" /\ toServer[c] = <<>> /\ toClient[c] = <<>>
        /\ own.printed = <<>>
    BY <1>3, <1>9 DEF Talks, Opened, At
  <2>2. toClient'[c] = <<Unit("hello resp")>>
    BY <1>4, <1>9, <2>1, Sent
  <2>3. Talks(own, "open", "MSG", toServer[c], toClient'[c], "none")
    BY <2>1, <2>2, Distinct DEF Talks, Incoming, Opened
  <2>4. Told(own, "open", toServer[c], toClient'[c], "none", known, added)
    BY <1>3, <2>1 DEF Told
  <2>5. Lists(c, own, toClient'[c], "none", Table, header.count, listed)
    BY <2>1 DEF Lists
  <2> QED
    BY <1>1, <1>3, <1>4, <1>5, <1>6, <1>7, <2>3, <2>4, <2>5, Through
<1> QED
  BY <1>8, <1>9

LEMMA HelloErrorReplied ==
  ASSUME IInv, ReplyHelloError
  PROVE  IInv'
<1> DEFINE c == serving
           own == client[c]
           known == Known(c, Table, Store!Stored)
           added == Added(c, own.pieces, Table)
<1>1. /\ answer = "hello error" /\ Write(c, <<Unit("error")>>)
      /\ session' = session /\ serving' = None /\ answer' = "none"
      /\ UNCHANGED <<store, listed, link, toServer, client, sigpipe>>
  BY DEF ReplyHelloError
<1>2. serving # None /\ Turn(c, serving, answer, phase) = "hello error"
  BY <1>1 DEF IInv, ServerInOrder, Turn
<1>3. /\ c \in Client /\ link[c] = "open" /\ phase = "idle"
      /\ Talks(own, "open", session[c], toServer[c], toClient[c], "hello error")
      /\ Told(own, "open", toServer[c], toClient[c], "hello error", known, added)
      /\ c \in Old => Mismatched(session[c], "hello error", known)
      /\ own.at \in At
  BY <1>1, <1>2, AtWork
<1>4. /\ toClient' \in [Client -> Seq(RecordUnit \cup MessageUnit)]
      /\ Len(toClient'[c]) <= WINDOW
      /\ \A d \in Client \ {c} : toClient'[d] = toClient[d]
      /\ own.at = "done" => toClient'[c] = toClient[c]
      /\ own.at # "done" => toClient'[c] = toClient[c] \o <<Unit("error")>>
  BY <1>1, <1>3, OneUnit, Wrote
<1>5. session' \in [Client -> Session] /\ \A d \in Client : session'[d] = session[d]
  BY <1>1 DEF IInv, TypeOK
<1>6. /\ phase' = phase /\ Table' = Table /\ Store!Stored' = Store!Stored
      /\ [Store!Next]_(Store!vars)
  BY <1>1, Still
<1>7. c \in Old => Mismatched(session[c], "none", known)
  BY <1>3 DEF Mismatched
<1>8. CASE own.at = "done"
  <2>1. Talks(own, "open", session[c], toServer[c], toClient[c], "none")
    BY <1>3, <1>8 DEF Talks, Opened
  <2>2. Told(own, "open", toServer[c], toClient[c], "none", known, added)
    BY <1>3, <1>8 DEF Told
  <2>3. Lists(c, own, toClient[c], "none", Table, header.count, listed)
    BY <1>8 DEF Lists
  <2> QED
    BY <1>1, <1>3, <1>4, <1>5, <1>6, <1>7, <1>8, <2>1, <2>2, <2>3, Through
<1>9. CASE own.at # "done"
  <2>1. own.at = "read hello" /\ toServer[c] = <<>> /\ toClient[c] = <<>>
        /\ own.printed = <<>> /\ session[c] = "HELLO"
    BY <1>3, <1>9 DEF Talks, Opened, At
  <2>2. toClient'[c] = <<Unit("error")>>
    BY <1>4, <1>9, <2>1, Sent
  <2>3. Talks(own, "open", session[c], toServer[c], toClient'[c], "none")
    BY <2>1, <2>2, Distinct DEF Talks, Incoming, Opened
  <2>4. Told(own, "open", toServer[c], toClient'[c], "none", known, added)
    BY <1>3, <2>1 DEF Told
  <2>5. Lists(c, own, toClient'[c], "none", Table, header.count, listed)
    BY <2>1 DEF Lists
  <2> QED
    BY <1>1, <1>3, <1>4, <1>5, <1>6, <1>7, <2>3, <2>4, <2>5, Through
<1> QED
  BY <1>8, <1>9

LEMMA AddErrorReplied ==
  ASSUME IInv, ReplyAddError
  PROVE  IInv'
<1> DEFINE c == serving
           own == client[c]
           known == Known(c, Table, Store!Stored)
           added == Added(c, own.pieces, Table)
<1>1. /\ Store!ReplyError /\ Write(c, <<Unit("error")>>) /\ serving' = None
      /\ answer' = answer /\ session' = session
      /\ UNCHANGED <<listed, link, toServer, client, sigpipe>>
  BY DEF ReplyAddError
<1>2. phase = "reply error" /\ phase' = "idle"
  BY <1>1 DEF Store!ReplyError
<1>3. serving # None /\ answer = "none" /\ Turn(c, serving, answer, phase) = "reply error"
  BY <1>2 DEF IInv, ServerInOrder, Turn
<1>4. /\ c \in Client /\ link[c] = "open"
      /\ Talks(own, "open", session[c], toServer[c], toClient[c], "reply error")
      /\ Told(own, "open", toServer[c], toClient[c], "reply error", known, added)
      /\ c \in Old => Mismatched(session[c], "reply error", known)
      /\ own.at \in At
  BY <1>3, AtWork
<1>5. /\ toClient' \in [Client -> Seq(RecordUnit \cup MessageUnit)]
      /\ Len(toClient'[c]) <= WINDOW
      /\ \A d \in Client \ {c} : toClient'[d] = toClient[d]
      /\ own.at = "done" => toClient'[c] = toClient[c]
      /\ own.at # "done" => toClient'[c] = toClient[c] \o <<Unit("error")>>
  BY <1>1, <1>4, OneUnit, Wrote
<1>6. session' \in [Client -> Session] /\ \A d \in Client : session'[d] = session[d]
  BY <1>1 DEF IInv, TypeOK
<1>7. /\ Table' = Table /\ Store!Stored' = Store!Stored /\ [Store!Next]_(Store!vars)
  <2>1. Store!Next
    BY <1>1 DEF Store!Next
  <2>2. Store!IInv' /\ Store!Whole'
    BY <2>1, StoreKept DEF IInv
  <2> QED
    BY <1>1, <2>1, <2>2, StoreSteps DEF IInv
<1>8. c \in Old => Mismatched(session[c], "none", known)
  BY <1>4 DEF Mismatched
<1>9. CASE own.at = "done"
  <2>1. Talks(own, "open", session[c], toServer[c], toClient[c], "none")
    BY <1>4, <1>9 DEF Talks, Opened
  <2>2. Told(own, "open", toServer[c], toClient[c], "none", known, added)
    BY <1>4, <1>9 DEF Told
  <2>3. Lists(c, own, toClient[c], "none", Table, header.count, listed)
    BY <1>9 DEF Lists
  <2> QED
    BY <1>1, <1>2, <1>3, <1>4, <1>5, <1>6, <1>7, <1>8, <1>9, <2>1, <2>2, <2>3, Through
<1>10. CASE own.at # "done"
  <2>1. own.at = "read add" /\ toServer[c] \in Rest /\ toClient[c] = <<>>
        /\ own.printed = <<>> /\ session[c] = "MSG"
    BY <1>4, <1>10 DEF Talks, Opened, At
  <2>2. toClient'[c] = <<Unit("error")>>
    BY <1>5, <1>10, <2>1, Sent
  <2>3. Talks(own, "open", session[c], toServer[c], toClient'[c], "none")
    BY <2>1, <2>2, Distinct DEF Talks, Incoming, Opened
  <2>4. Told(own, "open", toServer[c], toClient'[c], "none", known, added)
    BY <1>4, <2>1, <2>2, Distinct DEF Told
  <2>5. Lists(c, own, toClient'[c], "none", Table, header.count, listed)
    BY <2>1 DEF Lists
  <2> QED
    BY <1>1, <1>2, <1>3, <1>4, <1>5, <1>6, <1>7, <1>8, <2>3, <2>4, <2>5, Through
<1> QED
  BY <1>9, <1>10

LEMMA AddReplied ==
  ASSUME IInv, ReplyAdd
  PROVE  IInv'
<1> DEFINE c == serving
           own == client[c]
           known == Known(c, Table, Store!Stored)
           added == Added(c, own.pieces, Table)
<1>1. /\ Store!ReplyAdd /\ Write(c, <<Unit("add resp")>>) /\ serving' = serving
      /\ answer' = answer /\ listed' = listed /\ session' = session /\ toServer' = toServer
      /\ UNCHANGED <<link, client, sigpipe>>
  BY DEF ReplyAdd, server
<1>2. phase = "reply" /\ phase' = "header"
  BY <1>1 DEF Store!ReplyAdd, Store!AfterReply
<1>3. serving # None /\ answer = "none" /\ Turn(c, serving, answer, phase) = "reply"
      /\ Turn(c, serving', answer', phase') = "save"
  BY <1>1, <1>2 DEF IInv, ServerInOrder, Turn
<1>4. /\ c \in Client /\ link[c] = "open"
      /\ Talks(own, "open", session[c], toServer[c], toClient[c], "reply")
      /\ Told(own, "open", toServer[c], toClient[c], "reply", known, added)
      /\ c \in Old => Mismatched(session[c], "reply", known)
      /\ own.at \in At
  BY <1>3, AtWork
<1>5. /\ toClient' \in [Client -> Seq(RecordUnit \cup MessageUnit)]
      /\ Len(toClient'[c]) <= WINDOW
      /\ \A d \in Client \ {c} : toClient'[d] = toClient[d]
      /\ own.at = "done" => toClient'[c] = toClient[c]
      /\ own.at # "done" => toClient'[c] = toClient[c] \o <<Unit("add resp")>>
  BY <1>1, <1>4, OneUnit, Wrote
<1>6. /\ answer' \in Answer /\ listed' \in 0..(COUNT_MOD - 1)
      /\ session' \in [Client -> Session] /\ toServer' \in [Client -> Seq(Request)]
  BY <1>1 DEF IInv, TypeOK, Request
<1>7. /\ Table' = Table /\ Store!Stored' = Store!Stored /\ [Store!Next]_(Store!vars)
  <2>1. Store!Next
    BY <1>1 DEF Store!Next
  <2>2. Store!IInv' /\ Store!Whole'
    BY <2>1, StoreKept DEF IInv
  <2> QED
    BY <1>1, <2>1, <2>2, StoreSteps DEF IInv
<1>8. c \in Old => Mismatched(session[c], "save", known)
  BY <1>4 DEF Mismatched
<1>9. Fits(c, own, "open", session[c], toServer[c], toClient'[c], "save",
           Table, Store!Stored, header'.count, listed)
  <2>1. CASE own.at = "done"
    <3>1. Talks(own, "open", session[c], toServer[c], toClient[c], "save")
      BY <1>4, <2>1 DEF Talks, Opened
    <3>2. Told(own, "open", toServer[c], toClient[c], "save", known, added)
      BY <1>4, <2>1 DEF Told
    <3>3. Lists(c, own, toClient[c], "save", Table, header'.count, listed)
      BY <2>1 DEF Lists
    <3> QED
      BY <1>5, <1>8, <2>1, <3>1, <3>2, <3>3 DEF Fits
  <2>2. CASE own.at # "done"
    <3>1. own.at = "read add" /\ toServer[c] \in Rest /\ toClient[c] = <<>>
          /\ own.printed = <<>> /\ session[c] = "MSG"
      BY <1>4, <2>2 DEF Talks, Opened, At
    <3>2. toClient'[c] = <<Unit("add resp")>>
      BY <1>5, <2>2, <3>1, Sent
    <3>3. Talks(own, "open", session[c], toServer[c], toClient'[c], "save")
      BY <3>1, <3>2, Distinct DEF Talks, Incoming, Opened
    <3>4. Told(own, "open", toServer[c], toClient'[c], "save", known, added)
      BY <1>4, <3>1, <3>2, Distinct DEF Told
    <3>5. Lists(c, own, toClient'[c], "save", Table, header'.count, listed)
      BY <3>1 DEF Lists
    <3> QED
      BY <1>8, <3>3, <3>4, <3>5 DEF Fits
  <2> QED
    BY <2>1, <2>2
<1>10. Tables(c)
  BY <1>7 DEF Tables
<1>11. Fits(c, client[c], "open", session'[c], toServer'[c], toClient'[c],
            Turn(c, serving', answer', phase'), Table', Store!Stored', header'.count, listed')
  BY <1>1, <1>3, <1>7, <1>9
<1>12. /\ \A d \in Client \ {c} : session'[d] = session[d] /\ toServer'[d] = toServer[d]
                                  /\ toClient'[d] = toClient[d]
       /\ answer' = "none" /\ phase' \notin {"down", "idle"} /\ serving' # None
       /\ {serving, serving'} \subseteq {c, None}
  BY <1>1, <1>2, <1>3, <1>5
<1> QED
  BY <1>1, <1>4, <1>5, <1>6, <1>7, <1>10, <1>11, <1>12, ServerActs

LEMMA Saves ==
  ASSUME IInv, Save
  PROVE  IInv'
<1> DEFINE c == serving
<1>1. /\ Store!OutputHeader \/ Store!OutputRecord
      /\ serving' = serving /\ answer' = answer /\ listed' = listed
      /\ session' = session /\ link' = link /\ toServer' = toServer /\ toClient' = toClient
      /\ client' = client /\ sigpipe' = sigpipe
  BY DEF Save, server, net
<1>2. phase \in {"header", "records"} /\ phase' = "records"
  BY <1>1 DEF Store!OutputHeader, Store!OutputRecord
<1>3. serving # None /\ answer = "none" /\ Turn(c, serving, answer, phase) = "save"
      /\ Turn(c, serving', answer', phase') = "save"
  BY <1>1, <1>2 DEF IInv, ServerInOrder, Turn
<1>4. c \in Client /\ link[c] = "open"
  BY <1>3 DEF IInv, TypeOK, ServerInOrder
<1>5. Store!Next
  BY <1>1 DEF Store!Next
<1>6. Store!IInv' /\ Store!Whole'
  BY <1>5, StoreKept DEF IInv
<1>7. Table' = Table /\ Store!Stored' \in {Store!Stored, Table, Torn}
  BY <1>1, <1>6, StoreSteps DEF IInv
<1>8. Good(c)'
  BY <1>1, <1>3, <1>4, <1>6, <1>7, Bystander
<1>9. TypeOK'
  <2>1. Store!TypeOK'
    BY <1>6 DEF Store!IInv
  <2>2. Served' = Served
    BY <1>1 DEF Served
  <2> QED
    BY <1>1, <2>1, <2>2 DEF IInv, TypeOK
<1>10. ServerInOrder'
  BY <1>1, <1>2, <1>3, <1>4 DEF ServerInOrder
<1>11. SigpipeEarned'
  BY <1>1 DEF SigpipeEarned, Gone, IInv
<1>12. Tables(c) /\ {serving, serving'} \subseteq {c, None}
  BY <1>1, <1>7 DEF Tables
<1> QED
  BY <1>1, <1>4, <1>5, <1>8, <1>9, <1>10, <1>11, <1>12, Moves

LEMMA SaveEnds ==
  ASSUME IInv, SaveEnd
  PROVE  IInv'
<1> DEFINE c == serving
           own == client[c]
           known == Known(c, Table, Store!Stored)
           added == Added(c, own.pieces, Table)
<1>1. /\ Store!OutputEnd /\ serving' = None /\ answer' = answer /\ session' = session
      /\ toClient' = toClient /\ UNCHANGED <<listed, link, toServer, client, sigpipe>>
  BY DEF SaveEnd, net
<1>2. phase = "records" /\ phase' = "idle"
  BY <1>1 DEF Store!OutputEnd
<1>3. serving # None /\ answer = "none" /\ Turn(c, serving, answer, phase) = "save"
  BY <1>2 DEF IInv, ServerInOrder, Turn
<1>4. /\ c \in Client /\ link[c] = "open"
      /\ Talks(own, "open", session[c], toServer[c], toClient[c], "save")
      /\ Told(own, "open", toServer[c], toClient[c], "save", known, added)
      /\ c \in Old => Mismatched(session[c], "save", known)
      /\ "short" \notin own.said => Lists(c, own, toClient[c], "save", Table, header.count, listed)
  BY <1>3, AtWork
<1>5. /\ toClient' \in [Client -> Seq(RecordUnit \cup MessageUnit)]
      /\ Len(toClient'[c]) <= WINDOW /\ session' \in [Client -> Session]
      /\ \A d \in Client : session'[d] = session[d] /\ toClient'[d] = toClient[d]
  BY <1>1, <1>4 DEF IInv, TypeOK
<1>6. /\ Table' = Table /\ Store!Stored' = Store!Stored /\ [Store!Next]_(Store!vars)
  <2>1. Store!Next
    BY <1>1 DEF Store!Next
  <2>2. Store!IInv' /\ Store!Whole'
    BY <2>1, StoreKept DEF IInv
  <2> QED
    BY <1>1, <2>1, <2>2, StoreSteps DEF IInv
<1>7. Talks(own, "open", session[c], toServer[c], toClient[c], "none")
  BY <1>4 DEF Talks, Opened
<1>8. Told(own, "open", toServer[c], toClient[c], "none", known, added)
  BY <1>4 DEF Told
<1>9. c \in Old => Mismatched(session[c], "none", known)
  BY <1>4 DEF Mismatched
<1>10. "short" \notin own.said => Lists(c, own, toClient[c], "none", Table, header.count, listed)
  BY <1>4 DEF Lists, Talks, Opened
<1> QED
  BY <1>1, <1>2, <1>3, <1>4, <1>5, <1>6, <1>7, <1>8, <1>9, <1>10, Through

LEMMA ListEndReplied ==
  ASSUME IInv, ReplyListEnd
  PROVE  IInv'
<1> DEFINE c == serving
           own == client[c]
           known == Known(c, Table, Store!Stored)
           added == Added(c, own.pieces, Table)
           names == Under(c, own.pieces)
<1>1. /\ answer = "records" /\ listed = header.count /\ serving' = None /\ answer' = "none"
      /\ UNCHANGED store /\ session' = session
      /\ toClient' = toClient /\ UNCHANGED <<listed, link, toServer, client, sigpipe>>
  BY DEF ReplyListEnd, net
<1>2. serving # None /\ Turn(c, serving, answer, phase) = "records"
  BY <1>1 DEF IInv, ServerInOrder, Turn
<1>3. /\ c \in Client /\ link[c] = "open" /\ phase = "idle"
      /\ Talks(own, "open", session[c], toServer[c], toClient[c], "records")
      /\ Told(own, "open", toServer[c], toClient[c], "records", known, added)
      /\ c \in Old => Mismatched(session[c], "records", known)
      /\ "short" \notin own.said =>
           Lists(c, own, toClient[c], "records", Table, header.count, listed)
  BY <1>1, <1>2, AtWork
<1>4. /\ toClient' \in [Client -> Seq(RecordUnit \cup MessageUnit)]
      /\ Len(toClient'[c]) <= WINDOW /\ session' \in [Client -> Session]
      /\ \A d \in Client : session'[d] = session[d] /\ toClient'[d] = toClient[d]
  BY <1>1, <1>3 DEF IInv, TypeOK
<1>5. /\ phase' = phase /\ Table' = Table /\ Store!Stored' = Store!Stored
      /\ [Store!Next]_(Store!vars)
  BY <1>1, Still
<1>6. Talks(own, "open", session[c], toServer[c], toClient[c], "none")
  BY <1>3 DEF Talks, Opened
<1>7. Told(own, "open", toServer[c], toClient[c], "none", known, added)
  BY <1>3 DEF Told
<1>8. c \in Old => Mismatched(session[c], "none", known)
  BY <1>3 DEF Mismatched
<1>9. "short" \notin own.said => Lists(c, own, toClient[c], "none", Table, header.count, listed)
  <2>1. \A units, p, m : Listing(names, own.said, units, p, m, "records",
                                 Table, header.count, listed)
          => Listing(names, own.said, units, p, m, "none", Table, header.count, listed)
    BY <1>1 DEF Listing
  <2> QED
    BY <1>3, <2>1 DEF Lists
<1> QED
  BY <1>1, <1>3, <1>4, <1>5, <1>6, <1>7, <1>8, <1>9, Through

-----------------------------------------------------------------------------
(* A list: the count, and the records one by one.                          *)

LEMMA TwoHalves ==
  ASSUME NEW who \in Name
  PROVE  /\ Record(who) \in Seq(RecordUnit) /\ Len(Record(who)) = 2
         /\ Record(who)[1] = Line(1, who) /\ Record(who)[2] = Line(2, who)
<1> DEFINE half(h) == [type |-> "record", n |-> h, who |-> who]
           s == [h \in 1..2 |-> half(h)]
<1>1. \A h \in 1..2 : half(h) \in RecordUnit
  BY DEF RecordUnit
<1>2. half(1) = Line(1, who) /\ half(2) = Line(2, who)
  BY DEF Line
<1> HIDE DEF half
<1>3. s \in Seq(RecordUnit) /\ Len(s) = 2 /\ s[1] = half(1) /\ s[2] = half(2)
  BY <1>1
<1>4. Record(who) = s
  BY DEF Record, half
<1> QED
  BY <1>2, <1>3, <1>4

\* The next record behind those on their way.
LEMMA LinesGrow ==
  ASSUME NEW table, Len(table) \in Nat, NEW units \in Seq(RecordUnit), NEW p \in Nat, NEW r \in Nat,
         Lines(units, p, r, table), p + r + 1 <= Len(table), table[p + r + 1] \in Name
  PROVE  Lines(units \o Record(table[p + r + 1]), p, r + 1, table)
<1> DEFINE who == table[p + r + 1]
           more == Record(who)
           all == units \o more
<1>1. /\ Len(units) = 2 * r
      /\ \A j \in 1..r : /\ units[2 * j - 1] = Line(1, table[p + j])
                         /\ units[2 * j] = Line(2, table[p + j])
  BY DEF Lines
<1>2. more \in Seq(RecordUnit) /\ Len(more) = 2 /\ more[1] = Line(1, who) /\ more[2] = Line(2, who)
  BY TwoHalves
<1> HIDE DEF more
<1>3. /\ Len(all) = Len(units) + Len(more)
      /\ \A k \in 1..(Len(units) + Len(more)) :
           all[k] = IF k <= Len(units) THEN units[k] ELSE more[k - Len(units)]
  <2>1. units \in Seq(RecordUnit) /\ more \in Seq(RecordUnit)
    BY <1>2
  <2> QED
    BY ONLY <2>1, ConcatProperties
<1> HIDE DEF all
<1>4. ASSUME NEW j \in 1..(r + 1)
      PROVE  all[2 * j - 1] = Line(1, table[p + j]) /\ all[2 * j] = Line(2, table[p + j])
  <2>1. CASE j <= r
    <3>1. /\ j \in 1..r /\ 2 * j - 1 \in 1..(2 * r + 2) /\ 2 * j \in 1..(2 * r + 2)
          /\ 2 * j - 1 <= 2 * r /\ 2 * j <= 2 * r
      BY <2>1
    <3>2. all[2 * j - 1] = units[2 * j - 1] /\ all[2 * j] = units[2 * j]
      BY <1>1, <1>2, <1>3, <3>1
    <3> QED
      BY <1>1, <3>1, <3>2
  <2>2. CASE j = r + 1
    <3>1. /\ 2 * j - 1 \in 1..(2 * r + 2) /\ 2 * j \in 1..(2 * r + 2)
          /\ ~ (2 * j - 1 <= 2 * r) /\ ~ (2 * j <= 2 * r)
          /\ 2 * j - 1 - 2 * r = 1 /\ 2 * j - 2 * r = 2 /\ p + j = p + r + 1
      BY <2>2
    <3>2. all[2 * j - 1] = more[1] /\ all[2 * j] = more[2]
      BY <1>1, <1>2, <1>3, <3>1
    <3> QED
      BY <1>2, <3>1, <3>2
  <2> QED
    BY <2>1, <2>2
<1>5. Len(all) = 2 * (r + 1) /\ p + (r + 1) <= Len(table)
  BY <1>1, <1>2, <1>3
<1>6. Lines(all, p, r + 1, table)
  BY <1>4, <1>5 DEF Lines
<1> QED
  BY <1>6 DEF all, more

LEMMA Announcement ==
  ASSUME NEW m \in 0..(COUNT_MOD - 1)
  PROVE  /\ <<ListHeader(m)>> \in Seq(RecordUnit \cup MessageUnit)
         /\ <<ListHeader(m)>> # <<>> /\ Head(<<ListHeader(m)>>) = ListHeader(m)
         /\ Tail(<<ListHeader(m)>>) = <<>> /\ ListHeader(m).n = m
<1> DEFINE unit == ListHeader(m)
           M == RecordUnit \cup MessageUnit
<1>1. unit \in M /\ unit.n = m
  BY DEF ListHeader, MessageUnit
<1> HIDE DEF unit, M
<1>2. <<unit>> \in Seq(M) /\ <<unit>> # <<>> /\ Head(<<unit>>) = unit
  BY <1>1
<1>3. Tail(<<unit>>) = <<>>
  <2>1. Tail(<<unit>>) \in Seq(M) /\ Len(Tail(<<unit>>)) = 0
    BY <1>2
  <2> QED
    BY <2>1, EmptySeq
<1> QED
  BY <1>1, <1>2, <1>3 DEF unit, M

LEMMA ListHeaderReplied ==
  ASSUME IInv, ReplyListHeader
  PROVE  IInv'
<1> DEFINE c == serving
           own == client[c]
           known == Known(c, Table, Store!Stored)
           added == Added(c, own.pieces, Table)
           names == Under(c, own.pieces)
           m == header.count
<1>1. /\ answer = "list" /\ Write(c, <<ListHeader(m)>>)
      /\ listed' = 0 /\ answer' = "records" /\ serving' = serving
      /\ UNCHANGED store /\ session' = session /\ toServer' = toServer
      /\ UNCHANGED <<link, client, sigpipe>>
  BY DEF ReplyListHeader
<1>2. serving # None /\ Turn(c, serving, answer, phase) = "list"
  BY <1>1 DEF IInv, ServerInOrder, Turn
<1>3. /\ c \in Client /\ link[c] = "open" /\ phase = "idle"
      /\ Talks(own, "open", session[c], toServer[c], toClient[c], "list")
      /\ Told(own, "open", toServer[c], toClient[c], "list", known, added)
      /\ c \in Old => Mismatched(session[c], "list", known)
      /\ own.at \in At
  BY <1>1, <1>2, AtWork
<1>4. m \in 0..(COUNT_MOD - 1) /\ m = Len(Table) /\ DOMAIN Table = 1..Len(Table) /\ m \in Nat
  BY TheTable DEF IInv
<1>5. /\ toClient' \in [Client -> Seq(RecordUnit \cup MessageUnit)]
      /\ Len(toClient'[c]) <= WINDOW
      /\ \A d \in Client \ {c} : toClient'[d] = toClient[d]
      /\ own.at = "done" => toClient'[c] = toClient[c]
      /\ own.at # "done" => toClient'[c] = toClient[c] \o <<ListHeader(m)>>
  BY <1>1, <1>3, <1>4, Announcement, Wrote
<1>6. /\ answer' \in Answer /\ listed' \in 0..(COUNT_MOD - 1)
      /\ session' \in [Client -> Session] /\ toServer' \in [Client -> Seq(Request)]
  <2>1. 0 \in 0..(COUNT_MOD - 1)
    BY StoreAssumption
  <2> QED
    BY <1>1, <2>1 DEF IInv, TypeOK, Request, Answer
<1>7. /\ phase' = phase /\ header' = header /\ Table' = Table /\ Store!Stored' = Store!Stored
      /\ [Store!Next]_(Store!vars)
  BY <1>1, Still
<1>8. c \in Old => Mismatched(session[c], "records", known)
  BY <1>3 DEF Mismatched
<1>9. Turn(c, serving', answer', phase') = "records"
  BY <1>1 DEF Turn
<1>10. Fits(c, own, "open", session[c], toServer[c], toClient'[c], "records",
            Table, Store!Stored, m, 0)
  <2>1. CASE own.at = "done"
    <3>1. Talks(own, "open", session[c], toServer[c], toClient[c], "records")
      BY <1>3, <2>1 DEF Talks, Opened
    <3>2. Told(own, "open", toServer[c], toClient[c], "records", known, added)
      BY <1>3, <2>1 DEF Told
    <3>3. Lists(c, own, toClient[c], "records", Table, m, 0)
      BY <1>3, <2>1 DEF Lists, Talks, Opened
    <3> QED
      BY <1>5, <1>8, <2>1, <3>1, <3>2, <3>3 DEF Fits
  <2>2. CASE own.at # "done"
    <3>1. own.at = "read list" /\ toServer[c] = <<>> /\ toClient[c] = <<>>
          /\ own.printed = <<>> /\ session[c] = "MSG"
      BY <1>3, <2>2 DEF Talks, Opened, At
    <3>2. toClient'[c] = <<ListHeader(m)>>
      BY <1>5, <2>2, <3>1, Sent
    <3>3. /\ toClient'[c] # <<>> /\ Head(toClient'[c]) = ListHeader(m)
          /\ Tail(toClient'[c]) = <<>> /\ Head(toClient'[c]).n = m
      BY <1>4, <3>2, Announcement
    <3>4. Talks(own, "open", session[c], toServer[c], toClient'[c], "records")
      <4>1. \A S : <<>> \in Seq(S)
        OBVIOUS
      <4> QED
        BY <1>4, <3>1, <3>3, <4>1 DEF Talks, Incoming, Opened
    <3>5. Told(own, "open", toServer[c], toClient'[c], "records", known, added)
      BY <1>3, <3>1 DEF Told
    <3>6. ASSUME "short" \notin own.said
          PROVE  Lists(c, own, toClient'[c], "records", Table, m, 0)
      <4>1. Lines(<<>>, 0, 0, Table)
        BY <1>4 DEF Lines
      <4>2. "added" \in own.said => \E k \in 1..m : Table[k] \in names
        BY <1>3, <1>4, <3>6 DEF Told, Added, Among, Under
      <4>3. Listing(names, own.said, <<>>, 0, m, "records", Table, m, 0)
        BY <1>4, <4>1, <4>2 DEF Listing
      <4> QED
        BY <3>1, <3>3, <4>3 DEF Lists
    <3> QED
      BY <1>8, <3>4, <3>5, <3>6 DEF Fits
  <2> QED
    BY <2>1, <2>2
<1>11. Tables(c)
  BY <1>7 DEF Tables
<1>12. Fits(c, client[c], "open", session'[c], toServer'[c], toClient'[c],
            Turn(c, serving', answer', phase'), Table', Store!Stored', header'.count, listed')
  BY <1>1, <1>7, <1>9, <1>10
<1>13. /\ \A d \in Client \ {c} : session'[d] = session[d] /\ toServer'[d] = toServer[d]
                                  /\ toClient'[d] = toClient[d]
       /\ answer' # "none" /\ phase' = "idle" /\ serving' # None
       /\ listed' <= header'.count /\ {serving, serving'} \subseteq {c, None}
  BY <1>1, <1>2, <1>3, <1>4, <1>5, <1>7
<1> QED
  BY <1>1, <1>3, <1>5, <1>6, <1>7, <1>11, <1>12, <1>13, ServerActs

LEMMA Behind ==
  ASSUME NEW S, NEW s \in Seq(S), s # <<>>, NEW t \in Seq(S)
  PROVE  s \o t # <<>> /\ Head(s \o t) = Head(s) /\ Tail(s \o t) = Tail(s) \o t
<1> DEFINE u == s \o t
           v == Tail(s)
           w == v \o t
           x == Tail(u)
<1>1. /\ u \in Seq(S) /\ Len(u) = Len(s) + Len(t)
      /\ \A k \in 1..(Len(s) + Len(t)) : u[k] = IF k <= Len(s) THEN s[k] ELSE t[k - Len(s)]
  BY ConcatProperties
<1>2. /\ Len(s) \in Nat /\ Len(t) \in Nat /\ Len(s) # 0 /\ Head(s) = s[1]
      /\ v \in Seq(S) /\ Len(v) = Len(s) - 1 /\ \A k \in 1..Len(v) : v[k] = s[k + 1]
  BY EmptySeq, HeadTailProperties, LenProperties
<1> HIDE DEF u, v
<1>3. u # <<>> /\ Head(u) = u[1]
  <2>1. Len(u) # 0
    BY <1>1, <1>2
  <2>2. u # <<>>
    BY <2>1
  <2> QED
    BY <1>1, <2>2
<1>4. x \in Seq(S) /\ Len(x) = Len(u) - 1 /\ \A k \in 1..Len(x) : x[k] = u[k + 1]
  BY <1>1, <1>3, HeadTailProperties
<1>5. /\ w \in Seq(S) /\ Len(w) = Len(v) + Len(t)
      /\ \A k \in 1..(Len(v) + Len(t)) : w[k] = IF k <= Len(v) THEN v[k] ELSE t[k - Len(v)]
  BY <1>2, ConcatProperties
<1> HIDE DEF w, x
<1>6. Head(u) = Head(s)
  BY <1>1, <1>2, <1>3
<1>7. Len(x) = Len(w)
  BY <1>1, <1>2, <1>4, <1>5
<1>8. ASSUME NEW k \in 1..Len(x)
      PROVE  x[k] = w[k]
  <2>1. x[k] = u[k + 1] /\ k + 1 \in 1..(Len(s) + Len(t)) /\ k \in 1..(Len(v) + Len(t))
    BY <1>1, <1>2, <1>4
  <2>2. CASE k <= Len(v)
    <3>1. k + 1 <= Len(s) /\ k \in 1..Len(v)
      BY <1>2, <2>2
    <3> QED
      BY <1>1, <1>2, <1>5, <2>1, <2>2, <3>1
  <2>3. CASE ~ (k <= Len(v))
    <3>1. ~ (k + 1 <= Len(s)) /\ k + 1 - Len(s) = k - Len(v)
      BY <1>2, <2>3
    <3>2. u[k + 1] = t[k + 1 - Len(s)]
      BY <1>1, <2>1, <3>1
    <3>3. w[k] = t[k - Len(v)]
      BY <1>5, <2>1, <2>3
    <3> QED
      BY ONLY <2>1, <3>1, <3>2, <3>3
  <2> QED
    BY <2>2, <2>3
<1>9. x = w
  BY <1>4, <1>5, <1>7, <1>8, SeqEqual
<1> QED
  BY <1>3, <1>6, <1>9 DEF u, v, w, x

LEMMA ListingGrows ==
  ASSUME NEW names, NEW said, NEW table \in Seq(Name), NEW units \in Seq(RecordUnit), NEW p \in Nat,
         NEW m \in Nat, NEW count \in Nat, NEW sent \in Nat, sent < count,
         Listing(names, said, units, p, m, "records", table, count, sent)
  PROVE  Listing(names, said, units \o Record(table[sent + 1]), p, m, "records", table, count,
                 sent + 1)
<1>1. PICK r \in 0..m :
        /\ Lines(units, p, r, table)
        /\ p + r <= m /\ m <= Len(table)
        /\ sent = p + r /\ count = m
        /\ "added" \in said => \E k \in 1..m : table[k] \in names
  BY DEF Listing
<1>2. Len(table) \in Nat /\ r \in Nat
  BY <1>1, LenProperties
<1>3. p + r + 1 <= m /\ p + r + 1 <= Len(table) /\ p + r + 1 \in 1..Len(table) /\ r + 1 \in 0..m
  BY <1>1, <1>2
<1>4. table[p + r + 1] \in Name
  BY <1>3, ElementOfSeq
<1>5. Lines(units \o Record(table[p + r + 1]), p, r + 1, table)
  BY <1>1, <1>2, <1>3, <1>4, LinesGrow
<1>6. Lines(units \o Record(table[sent + 1]), p, r + 1, table)
  BY <1>1, <1>5
<1>7. p + (r + 1) <= m /\ sent + 1 = p + (r + 1)
  BY <1>1, <1>3
<1> QED
  BY <1>1, <1>3, <1>6, <1>7 DEF Listing

LEMMA RecordReplied ==
  ASSUME IInv, ReplyRecord
  PROVE  IInv'
<1> DEFINE c == serving
           own == client[c]
           known == Known(c, Table, Store!Stored)
           added == Added(c, own.pieces, Table)
           names == Under(c, own.pieces)
           m == header.count
           tc == toClient[c]
           more == Record(Table[listed + 1])
<1>1. /\ answer = "records" /\ listed < m /\ listed' = listed + 1
      /\ Write(c, Record(employees[listed + 1].who))
      /\ answer' = answer /\ serving' = serving
      /\ UNCHANGED store /\ session' = session /\ toServer' = toServer
      /\ UNCHANGED <<link, client, sigpipe>>
  BY DEF ReplyRecord, NextListed
<1>2. serving # None /\ Turn(c, serving, answer, phase) = "records"
  BY <1>1 DEF IInv, ServerInOrder, Turn
<1>3. /\ c \in Client /\ link[c] = "open" /\ phase = "idle"
      /\ Talks(own, "open", session[c], toServer[c], tc, "records")
      /\ Told(own, "open", toServer[c], tc, "records", known, added)
      /\ c \in Old => Mismatched(session[c], "records", known)
      /\ "short" \notin own.said => Lists(c, own, tc, "records", Table, m, listed)
      /\ own.at \in At
  BY <1>1, <1>2, AtWork
<1>4. /\ m \in 0..(COUNT_MOD - 1) /\ m = Len(Table) /\ m \in Nat /\ Table \in Seq(Name)
      /\ listed \in Nat
      /\ \A k \in 1..Len(Table) : Table[k] = employees[k].who
  <2>1. listed \in Nat
    BY DEF IInv, TypeOK
  <2> QED
    BY <2>1, TheTable DEF IInv
<1>5. /\ listed + 1 \in 1..m /\ listed + 1 \in 0..(COUNT_MOD - 1)
  BY <1>1, <1>4, StoreAssumption
<1>6. /\ more \in Seq(RecordUnit) /\ more \in Seq(RecordUnit \cup MessageUnit)
      /\ Write(c, more)
  <2>1. Table[listed + 1] \in Name /\ Table[listed + 1] = employees[listed + 1].who
    BY <1>4, <1>5, ElementOfSeq
  <2>2. more \in Seq(RecordUnit)
    BY <2>1, TwoHalves
  <2>3. \A s : s \in Seq(RecordUnit) => s \in Seq(RecordUnit \cup MessageUnit)
    OBVIOUS
  <2> QED
    BY <1>1, <2>1, <2>2, <2>3
<1>7. tc \in Seq(RecordUnit \cup MessageUnit)
  BY <1>3, Typed
<1> HIDE DEF more
<1>8. /\ toClient' \in [Client -> Seq(RecordUnit \cup MessageUnit)]
      /\ Len(toClient'[c]) <= WINDOW
      /\ \A d \in Client \ {c} : toClient'[d] = toClient[d]
      /\ own.at = "done" => toClient'[c] = tc
      /\ own.at # "done" => toClient'[c] = tc \o more
  BY <1>3, <1>6, Wrote
<1>9. /\ answer' \in Answer /\ listed' \in 0..(COUNT_MOD - 1)
      /\ session' \in [Client -> Session] /\ toServer' \in [Client -> Seq(Request)]
  BY <1>1, <1>5 DEF IInv, TypeOK, Request
<1>10. /\ phase' = phase /\ header' = header /\ Table' = Table /\ Store!Stored' = Store!Stored
       /\ [Store!Next]_(Store!vars)
  BY <1>1, Still
<1>11. Turn(c, serving', answer', phase') = "records"
  BY <1>1 DEF Turn
<1>12. Fits(c, own, "open", session[c], toServer[c], toClient'[c], "records",
            Table, Store!Stored, m, listed + 1)
  <2>1. CASE own.at = "done"
    <3>1. ASSUME "short" \notin own.said
          PROVE  Lists(c, own, tc, "records", Table, m, listed + 1)
      <4>1. "killed" \notin own.said => listed = m
        BY <1>3, <2>1, <3>1 DEF Lists
      <4>2. "killed" \in own.said
        BY <1>1, <1>4, <4>1
      <4> QED
        BY <2>1, <4>2 DEF Lists
    <3> QED
      BY <1>3, <1>8, <2>1, <3>1 DEF Fits
  <2>2. CASE own.at = "read list"
    <3>1. tc # <<>>
      BY <1>3, <2>2 DEF Talks, Opened
    <3>2. PICK k \in 0..(COUNT_MOD - 1) : Head(tc) = ListHeader(k)
      BY <1>3, <2>2, <3>1 DEF Talks, Incoming
    <3>3. Tail(tc) \in Seq(RecordUnit)
      BY <1>3, <2>2, <3>1 DEF Talks, Incoming
    <3>4. /\ toClient'[c] # <<>> /\ Head(toClient'[c]) = Head(tc)
          /\ Tail(toClient'[c]) = Tail(tc) \o more
      BY <1>6, <1>7, <1>8, <2>2, <3>1, Behind
    <3>5. Tail(tc) \o more \in Seq(RecordUnit)
      BY <1>6, <3>3, ConcatProperties
    <3>6. Talks(own, "open", session[c], toServer[c], toClient'[c], "records")
      BY <1>3, <2>2, <3>2, <3>4, <3>5 DEF Talks, Incoming, Opened
    <3>7. Told(own, "open", toServer[c], toClient'[c], "records", known, added)
      BY <1>3, <2>2 DEF Told
    <3>8. ASSUME "short" \notin own.said
          PROVE  Lists(c, own, toClient'[c], "records", Table, m, listed + 1)
      <4>1. Listing(names, own.said, Tail(tc), 0, Head(tc).n, "records", Table, m, listed)
        BY <1>3, <2>2, <3>1, <3>8 DEF Lists
      <4>2. Head(tc).n \in Nat
        BY <3>2, Announcement
      <4>3. Listing(names, own.said, Tail(tc) \o more, 0, Head(tc).n, "records",
                    Table, m, listed + 1)
        BY <1>1, <1>4, <3>3, <4>1, <4>2, ListingGrows DEF more
      <4> QED
        BY <2>2, <3>4, <4>3 DEF Lists
    <3> QED
      BY <1>3, <3>6, <3>7, <3>8 DEF Fits
  <2>3. CASE own.at \in {"read record", "close"}
    <3>1. tc \in Seq(RecordUnit)
      BY <1>3, <2>3 DEF Talks, Incoming
    <3>2. toClient'[c] = tc \o more /\ tc \o more \in Seq(RecordUnit)
      BY <1>6, <1>8, <2>3, <3>1, ConcatProperties
    <3>3. Talks(own, "open", session[c], toServer[c], toClient'[c], "records")
      BY <1>3, <2>3, <3>2 DEF Talks, Incoming, Opened
    <3>4. Told(own, "open", toServer[c], toClient'[c], "records", known, added)
      BY <1>3, <2>3 DEF Told
    <3>5. ASSUME "short" \notin own.said
          PROVE  Lists(c, own, toClient'[c], "records", Table, m, listed + 1)
      <4> DEFINE p == Len(own.printed)
      <4>1. own.at = "read record"
        <5>1. own.at = "close" => listed = m
          BY <1>3, <3>5 DEF Lists
        <5>2. listed # m
          BY <1>1, <1>4
        <5> QED
          BY <2>3, <5>1, <5>2
      <4>2. Listing(names, own.said, tc, p, p + own.left, "records", Table, m, listed)
        BY <1>3, <3>5, <4>1 DEF Lists
      <4>3. p \in Nat /\ p + own.left \in Nat
        BY <1>3, Typed
      <4>4. Listing(names, own.said, tc \o more, p, p + own.left, "records", Table, m, listed + 1)
        BY <1>1, <1>4, <3>1, <4>2, <4>3, ListingGrows DEF more
      <4>5. p <= Len(Table) /\ \A k \in 1..p : own.printed[k] = Table[k]
        BY <1>3, <3>5, <4>1 DEF Lists
      <4> QED
        BY <3>2, <4>1, <4>4, <4>5 DEF Lists
    <3> QED
      BY <1>3, <3>3, <3>4, <3>5 DEF Fits
  <2>4. own.at \in {"done", "read list", "read record", "close"}
    BY <1>3 DEF Talks, Opened, At
  <2> QED
    BY <2>1, <2>2, <2>3, <2>4
<1>13. Tables(c)
  BY <1>10 DEF Tables
<1>14. Fits(c, client[c], "open", session'[c], toServer'[c], toClient'[c],
            Turn(c, serving', answer', phase'), Table', Store!Stored', header'.count, listed')
  BY <1>1, <1>10, <1>11, <1>12
<1>15. /\ \A d \in Client \ {c} : session'[d] = session[d] /\ toServer'[d] = toServer[d]
                                  /\ toClient'[d] = toClient[d]
       /\ answer' # "none" /\ phase' = "idle" /\ serving' # None
       /\ listed' <= header'.count /\ {serving, serving'} \subseteq {c, None}
  BY <1>1, <1>2, <1>3, <1>4, <1>5, <1>8, <1>10
<1> QED
  BY <1>1, <1>3, <1>8, <1>9, <1>10, <1>13, <1>14, <1>15, ServerActs

-----------------------------------------------------------------------------
(* The server starts, and dies.                                            *)

LEMMA Started ==
  ASSUME IInv, StartServer
  PROVE  IInv'
<1>1. /\ Store!StartNew \/ Store!StartOpen
      /\ serving' = serving /\ answer' = answer /\ listed' = listed
      /\ session' = session /\ link' = link /\ toServer' = toServer /\ toClient' = toClient
      /\ client' = client /\ sigpipe' = sigpipe
  BY DEF StartServer, server, net
<1>2. phase = "down" /\ phase' = "idle"
  BY <1>1 DEF Store!StartNew, Store!StartOpen
<1>3. serving = None /\ answer = "none" /\ \A d \in Client : link[d] # "open"
  BY <1>2 DEF IInv, TypeOK, ServerInOrder, Served
<1>4. Store!Next
  BY <1>1 DEF Store!Next
<1>5. Store!IInv' /\ Store!Whole'
  BY <1>4, StoreKept DEF IInv
<1>6. \/ Table' = <<>> /\ Store!Stored' = Torn
      \/ /\ Table' = Store!Stored /\ Store!Stored' = Store!Stored
         /\ Store!Stored \notin {Absent, Torn}
  BY <1>1, <1>5, StoreSteps DEF IInv
<1>7. \A d \in Client : Known(d, Table', Store!Stored') => Known(d, Table, Store!Stored)
  BY <1>6 DEF Known, Among
<1>8. ASSUME NEW d \in Client
      PROVE  Good(d)'
  <2>1. Turn(d, serving, answer, phase) = "none" /\ Turn(d, serving', answer', phase') = "none"
    BY <1>1, <1>3, NameAssumption DEF Turn
  <2> QED
    BY <1>1, <1>3, <1>5, <1>7, <2>1, Bystander
<1>9. TypeOK'
  <2>1. Store!TypeOK'
    BY <1>5 DEF Store!IInv
  <2>2. Served' = Served
    BY <1>1 DEF Served
  <2> QED
    BY <1>1, <2>1, <2>2 DEF IInv, TypeOK
<1>10. ServerInOrder'
  BY <1>1, <1>2, <1>3 DEF ServerInOrder
<1>11. SigpipeEarned'
  BY <1>1 DEF SigpipeEarned, Gone, IInv
<1>12. NamedOnce'
  BY <1>6 DEF IInv, NamedOnce, Once
<1> QED
  BY <1>5, <1>8, <1>9, <1>10, <1>11, <1>12 DEF IInv

LEMMA Died ==
  ASSUME IInv, Dies, SigpipeEarned', sigpipe' \in Client \cup {None}
  PROVE  IInv'
<1>1. PICK lost \in SUBSET {c \in Client : toClient[c] # <<>>} :
        toClient' = [c \in Client |-> IF c \in lost THEN <<>> ELSE toClient[c]]
  BY DEF Dies
<1>2. /\ Store!Crash /\ serving' = None /\ answer' = "none" /\ listed' = 0
      /\ session' = [c \in Client |-> "none"]
      /\ link' = [c \in Client |-> IF link[c] = "off" THEN "off" ELSE "shut"]
      /\ toServer' = [c \in Client |-> <<>>] /\ client' = client
  BY DEF Dies
<1>3. Store!Next /\ phase' = "down"
  BY <1>2 DEF Store!Next, Store!Crash
<1>4. Store!IInv' /\ Store!Whole'
  BY <1>3, StoreKept DEF IInv
<1>5. Table' = <<>> /\ Store!Stored' = Store!Stored
  BY <1>2, <1>4, StoreSteps DEF IInv
<1>6. Served' = {}
  BY <1>2 DEF Served
<1>7. TypeOK'
  <2>1. Store!TypeOK'
    BY <1>4 DEF Store!IInv
  <2>2. IsFiniteSet(Served') /\ Cardinality(Served') <= MAX_CLIENTS
    BY <1>6, FS_EmptySet, SystemAssumption
  <2>3. /\ serving' \in Client \cup {None} /\ answer' \in Answer
        /\ session' \in [Client -> Session] /\ link' \in [Client -> Link]
        /\ client' \in [Client -> ClientState]
    BY <1>2 DEF IInv, TypeOK, Answer, Session, Link
  <2>4. listed' \in 0..(COUNT_MOD - 1)
    <3>1. 0 \in 0..(COUNT_MOD - 1)
      BY StoreAssumption
    <3> QED
      BY <1>2, <3>1
  <2>5. \A S : <<>> \in Seq(S)
    OBVIOUS
  <2>6. toServer' \in [Client -> Seq(Request)]
    BY <1>2, <2>5
  <2>7. /\ toClient' \in [Client -> Seq(RecordUnit \cup MessageUnit)]
        /\ \A d \in Client : Len(toClient'[d]) <= WINDOW
    <3>1. \A d \in Client : /\ toClient[d] \in Seq(RecordUnit \cup MessageUnit)
                            /\ Len(toClient[d]) <= WINDOW
      BY Typed
    <3>2. Len(<<>>) <= WINDOW
      BY SystemAssumption
    <3> QED
      BY <1>1, <2>5, <3>1, <3>2
  <2>8. \A d \in Client : client'[d].add \in {d, Malformed, None}
    BY <1>2 DEF IInv, TypeOK
  <2> QED
    BY <2>1, <2>2, <2>3, <2>4, <2>6, <2>7, <2>8 DEF TypeOK, Request
<1>8. ServerInOrder'
  BY <1>2, <1>3, <1>6 DEF ServerInOrder
<1>9. NamedOnce'
  BY <1>5 DEF IInv, NamedOnce, Once
<1>10. ASSUME NEW d \in Client
       PROVE  Good(d)'
  <2> DEFINE own == client[d]
             tc == toClient[d]
             turn == Turn(d, serving, answer, phase)
             known == Known(d, Table, Store!Stored)
             known2 == Known(d, <<>>, Store!Stored)
             added2 == Added(d, own.pieces, <<>>)
             l == IF link[d] = "off" THEN "off" ELSE "shut"
  <2>1. /\ Talks(own, link[d], session[d], toServer[d], tc, turn)
        /\ Told(own, link[d], toServer[d], tc, turn, known, Added(d, own.pieces, Table))
        /\ d \in Old => Mismatched(session[d], turn, known)
    BY DEF IInv, Good, Fits
  <2>2. toClient'[d] \in {<<>>, tc}
    BY <1>1
  <2>3. known2 => known
    BY DEF Known, Among
  <2>4. Talks(own, l, "none", <<>>, toClient'[d], "none")
    <3>1. \A S : <<>> \in Seq(S)
      OBVIOUS
    <3>2. Incoming(own.at, toClient'[d])
      BY <2>1, <2>2, <3>1 DEF Talks, Incoming
    <3>3. own.at \notin {"read record", "close", "done"} => own.printed = <<>>
      BY <2>1 DEF Talks
    <3>4. own.at = "connect" => link[d] = "off"
      BY <2>1 DEF Talks, Opened, Unopened
    <3>5. link[d] = "off" => own.at \in {"connect", "done"}
      BY <2>1 DEF Talks, Unopened
    <3>6. Unopened(own, l, "none", <<>>, toClient'[d], "none")
      BY <3>4, <3>5 DEF Unopened
    <3> QED
      BY <3>2, <3>3, <3>6 DEF Talks
  <2>5. Told(own, l, <<>>, toClient'[d], "none", known2, added2)
    <3>1. <<>> # <<"add", "rest">> /\ <<>> # <<Unit("error")>>
      BY Distinct DEF Rest
    <3>2. toClient'[d] = <<Unit("error")>> => tc = <<Unit("error")>>
      BY <2>2, <3>1
    <3>3. l # "open"
      OBVIOUS
    <3> QED
      BY <2>1, <2>3, <3>1, <3>2, <3>3 DEF Told
  <2>6. d \in Old => Mismatched("none", "none", known2)
    BY <2>1, <2>3 DEF Mismatched
  <2>7. Fits(d, own, l, "none", <<>>, toClient'[d], "none", <<>>, Store!Stored,
             header'.count, 0)
    BY <2>4, <2>5, <2>6 DEF Fits
  <2>8. Turn(d, serving', answer', phase') = "none"
    BY <1>2, NameAssumption DEF Turn
  <2>9. client'[d] = own /\ link'[d] = l /\ session'[d] = "none" /\ toServer'[d] = <<>>
    BY <1>2
  <2> QED
    BY <1>2, <1>5, <2>7, <2>8, <2>9 DEF Good
<1> QED
  BY <1>4, <1>7, <1>8, <1>9, <1>10 DEF IInv

LEMMA Crashed ==
  ASSUME IInv, Crash
  PROVE  IInv'
<1>1. Dies /\ sigpipe' = sigpipe /\ client' = client
  BY DEF Crash, Dies
<1>2. SigpipeEarned'
  BY <1>1 DEF SigpipeEarned, Gone, IInv
<1>3. sigpipe' \in Client \cup {None}
  BY <1>1 DEF IInv, TypeOK
<1> QED
  BY <1>1, <1>2, <1>3, Died

\* The client had gone with something unread, or counted otherwise than the server.
LEMMA KilledBySigpipe ==
  ASSUME IInv, Sigpipe
  PROVE  IInv'
<1> DEFINE c == serving
           own == client[c]
           turn == Turn(c, serving, answer, phase)
<1>1. /\ Dies /\ sigpipe' = c /\ client' = client /\ serving # None /\ own.at = "done"
      /\ answer # "none" \/ phase \in {"reply", "reply error"}
      /\ ~ (answer = "records" /\ listed = header.count)
  BY DEF Sigpipe, Dies, Writing, Gone
<1>2. /\ c \in Client
      /\ Talks(own, "open", session[c], toServer[c], toClient[c], turn)
      /\ "short" \notin own.said => Lists(c, own, toClient[c], turn, Table, header.count, listed)
      /\ IF answer = "none" THEN phase \notin {"down", "idle"} ELSE phase = "idle"
  BY <1>1, AtWork
<1>3. turn \notin {"none", "save"} /\ (turn = "records" => answer = "records")
  BY <1>1, <1>2 DEF Turn, IInv, TypeOK, Answer
<1>4. own.said \cap {"killed", "short"} # {}
  <2>1. "killed" \in own.said \/ turn = "records"
    BY <1>1, <1>2, <1>3 DEF Talks, Opened
  <2>2. turn = "records" /\ own.said \cap {"killed", "short"} = {} => listed = header.count
    BY <1>1, <1>2 DEF Lists
  <2> QED
    BY <1>1, <1>3, <2>1, <2>2
<1>5. SigpipeEarned'
  BY <1>1, <1>4 DEF SigpipeEarned, Gone
<1>6. sigpipe' \in Client \cup {None}
  BY <1>1, <1>2
<1> QED
  BY <1>1, <1>5, <1>6, Died

-----------------------------------------------------------------------------
(* The calls of a client.                                                  *)

Words == {"added", "refused", "unanswered", "killed"}

\* Nothing of c's program changes but where it is and what it has said.
Goneto(c, to, word) ==
  /\ client' \in [Client -> ClientState]
  /\ \A d \in Client \ {c} : client'[d] = client[d]
  /\ client'[c].at = to /\ client'[c].said = client[c].said \cup word
  /\ client'[c].add = client[c].add /\ client'[c].list = client[c].list
  /\ client'[c].pieces = client[c].pieces /\ client'[c].printed = client[c].printed
  /\ client'[c].left = client[c].left

LEMMA Went ==
  ASSUME IInv, NEW c \in Client, NEW to \in At, NEW word \in SUBSET Words
  PROVE  /\ GoesSaying(c, to, word) => Goneto(c, to, word)
         /\ Goes(c, to) => Goneto(c, to, {})
<1> DEFINE own == client[c]
<1>1. client \in [Client -> ClientState] /\ own \in ClientState
  BY DEF IInv, TypeOK
<1>2. ASSUME GoesSaying(c, to, word)
      PROVE  Goneto(c, to, word)
  <2> DEFINE new == [[own EXCEPT !.at = to] EXCEPT !.said = @ \cup word]
  <2>1. client' = [client EXCEPT ![c] = new]
    BY <1>1, <1>2 DEF GoesSaying
  <2>2. /\ new \in ClientState
        /\ new.at = to /\ new.said = own.said \cup word /\ new.add = own.add
        /\ new.list = own.list /\ new.pieces = own.pieces /\ new.printed = own.printed
        /\ new.left = own.left
    BY <1>1 DEF ClientState, Words
  <2> QED
    BY <1>1, <2>1, <2>2 DEF Goneto
<1>3. ASSUME Goes(c, to)
      PROVE  Goneto(c, to, {})
  <2> DEFINE new == [own EXCEPT !.at = to]
  <2>1. client' = [client EXCEPT ![c] = new]
    BY <1>1, <1>3 DEF Goes
  <2>2. /\ new \in ClientState
        /\ new.at = to /\ new.said = own.said \cup {} /\ new.add = own.add
        /\ new.list = own.list /\ new.pieces = own.pieces /\ new.printed = own.printed
        /\ new.left = own.left
    BY <1>1 DEF ClientState
  <2> QED
    BY <1>1, <2>1, <2>2 DEF Goneto
<1> QED
  BY <1>2, <1>3

\* What is known of a connection when its client makes a call.
LEMMA Before ==
  ASSUME IInv, NEW c \in Client, NEW turn, turn = Turn(c, serving, answer, phase)
  PROVE  /\ Talks(client[c], link[c], session[c], toServer[c], toClient[c], turn)
         /\ Told(client[c], link[c], toServer[c], toClient[c], turn,
                 Known(c, Table, Store!Stored), Added(c, client[c].pieces, Table))
         /\ c \in Old => Mismatched(session[c], turn, Known(c, Table, Store!Stored))
         /\ link[c] = "open" /\ "short" \notin client[c].said =>
              Lists(c, client[c], toClient[c], turn, Table, header.count, listed)
         /\ client[c].at \in At /\ link[c] \in Link
         /\ link \in [Client -> Link] /\ toServer \in [Client -> Seq(Request)]
         /\ toClient \in [Client -> Seq(RecordUnit \cup MessageUnit)]
         /\ Len(toClient[c]) <= WINDOW /\ client[c].add \in {c, Malformed, None}
<1>1. client[c].at \in At /\ link[c] \in Link
  BY Typed DEF ClientState
<1> QED
  BY <1>1 DEF IInv, Good, Fits, TypeOK, Request

LEMMA Empty ==
  /\ \A S : <<>> \in Seq(S)
  /\ Len(<<>>) <= WINDOW
<1>1. \A S : <<>> \in Seq(S)
  OBVIOUS
<1>2. Len(<<>>) <= WINDOW
  BY SystemAssumption
<1> QED
  BY <1>1, <1>2

LEMMA Left ==
  ASSUME IInv, NEW c \in Client, NEW word \in {{}, {"killed"}}, Leaves(c, word),
         client[c].at \notin {"connect", "done"},
         word = {} => client[c].at = "close",
         UNCHANGED <<store, server, session, sigpipe>>
  PROVE  IInv'
<1> DEFINE own == client[c]
           new == client'[c]
           turn == Turn(c, serving, answer, phase)
           known == Known(c, Table, Store!Stored)
           added == Added(c, own.pieces, Table)
           l == link[c]
           s == session[c]
           ts == toServer[c]
           ts2 == toServer'[c]
           tc == toClient[c]
<1>1. /\ Talks(own, l, s, ts, tc, turn)
      /\ Told(own, l, ts, tc, turn, known, added)
      /\ c \in Old => Mismatched(s, turn, known)
      /\ l = "open" /\ "short" \notin own.said =>
           Lists(c, own, tc, turn, Table, header.count, listed)
      /\ own.at \in At /\ l \in Link
      /\ link \in [Client -> Link] /\ toServer \in [Client -> Seq(Request)]
      /\ toClient \in [Client -> Seq(RecordUnit \cup MessageUnit)]
      /\ own.add \in {c, Malformed, None}
  BY Before
<1>2. /\ link' = link /\ toClient' = [toClient EXCEPT ![c] = <<>>]
      /\ toServer' = toServer \/ toServer' = [toServer EXCEPT ![c] = <<>>]
      /\ Goneto(c, "done", word)
  <2>1. "done" \in At /\ word \in SUBSET Words
    BY DEF At, Words
  <2> QED
    BY <2>1, Went DEF Leaves
<1>3. /\ link' \in [Client -> Link] /\ toServer' \in [Client -> Seq(Request)]
      /\ toClient' \in [Client -> Seq(RecordUnit \cup MessageUnit)]
      /\ toClient'[c] = <<>> /\ Len(toClient'[c]) <= WINDOW /\ ts2 \in {ts, <<>>}
      /\ \A d \in Client \ {c} : link'[d] = link[d] /\ toServer'[d] = toServer[d]
                                 /\ toClient'[d] = toClient[d]
  BY <1>1, <1>2, Empty
<1>4. /\ client' \in [Client -> ClientState] /\ \A d \in Client \ {c} : client'[d] = client[d]
      /\ new.at = "done" /\ new.said = own.said \cup word /\ new.add = own.add
      /\ new.pieces = own.pieces
  BY <1>2 DEF Goneto
<1>5. /\ word = {"killed"} => "killed" \in new.said
      /\ \A w \in {"added", "refused"} : w \in new.said <=> w \in own.said
      /\ word = {} => own.at = "close" /\ new.said = own.said
  BY <1>4
<1>6. word = {} \/ word = {"killed"}
  OBVIOUS
<1> HIDE DEF new, turn, known, added, l, s, ts, ts2, tc
<1>7. Incoming(new.at, <<>>)
  BY <1>4 DEF Incoming
<1>8. CASE l = "open"
  <2>1. Opened(own, s, ts, tc, turn)
    BY <1>1, <1>8 DEF Talks
  <2>2. ts \in Requests
    BY <1>1, <2>1 DEF Opened, At, Requests, Rest
  <2>3. ts2 \in Requests
    BY <1>3, <2>2 DEF Requests, Rest
  <2>4. word = {} => ts2 \in Rest /\ turn \in {"none", "save", "records"}
    BY <1>3, <1>5, <2>1 DEF Opened, Rest
  <2>5. s \in {"HELLO", "MSG"}
    BY <2>1 DEF Opened
  <2>6. Opened(new, s, ts2, <<>>, turn)
    BY <1>4, <1>5, <1>6, <2>3, <2>4, <2>5 DEF Opened
  <2>7. Talks(new, l, s, ts2, <<>>, turn)
    BY <1>4, <1>7, <1>8, <2>6 DEF Talks
  <2>8. Told(new, l, ts2, <<>>, turn, known, added)
    BY <1>1, <1>3, <1>4, <1>5, <1>8, Distinct DEF Told, BeforeAdd, Rest
  <2>9. "short" \notin new.said => Lists(c, new, <<>>, turn, Table, header.count, listed)
    BY <1>1, <1>4, <1>5, <1>6, <1>8 DEF Lists
  <2>10. Fits(c, new, l, s, ts2, <<>>, turn, Table, Store!Stored, header.count, listed)
    BY <1>1, <1>4, <2>7, <2>8, <2>9 DEF Fits, known, added
  <2> QED
    BY <1>1, <1>2, <1>3, <1>4, <2>10, ClientActs DEF new, turn, l, s, ts2
<1>9. CASE l # "open"
  <2>1. Unopened(own, l, s, ts, tc, turn)
    BY <1>1, <1>9 DEF Talks
  <2>2. l = "queued" => own.said \cap {"added", "refused"} = {} /\ word = {"killed"}
    BY <1>1, <1>5, <1>6, <2>1 DEF Unopened, Told, BeforeAdd
  <2>3. Unopened(new, l, s, ts2, <<>>, turn)
    BY <1>3, <1>4, <1>5, <2>1, <2>2 DEF Unopened
  <2>4. Talks(new, l, s, ts2, <<>>, turn)
    BY <1>4, <1>7, <1>9, <2>3 DEF Talks
  <2>5. Told(new, l, ts2, <<>>, turn, known, added)
    BY <1>1, <1>3, <1>4, <1>5, <1>9, Distinct DEF Told, BeforeAdd, Rest
  <2>6. Fits(c, new, l, s, ts2, <<>>, turn, Table, Store!Stored, header.count, listed)
    BY <1>1, <1>4, <1>9, <2>4, <2>5 DEF Fits, known, added
  <2> QED
    BY <1>1, <1>2, <1>3, <1>4, <2>6, ClientActs DEF new, turn, l, s, ts2
<1> QED
  BY <1>8, <1>9

LEMMA Ended ==
  ASSUME IInv, NEW c \in Client, Ends(c)
  PROVE  IInv'
<1>1. /\ Leaves(c, {}) /\ client[c].at = "close"
      /\ UNCHANGED <<store, server, session, sigpipe>>
  BY DEF Ends
<1> QED
  BY <1>1, Left

LEMMA Killed ==
  ASSUME IInv, NEW c \in Client, Kill(c)
  PROVE  IInv'
<1>1. /\ Leaves(c, {"killed"}) /\ client[c].at \notin {"connect", "done"}
      /\ UNCHANGED <<store, server, session, sigpipe>>
  BY DEF Kill
<1> QED
  BY <1>1, Left

LEMMA NotConnected ==
  ASSUME IInv, NEW c \in Client, ConnectFails(c)
  PROVE  IInv'
<1> DEFINE own == client[c]
           new == client'[c]
           turn == Turn(c, serving, answer, phase)
           known == Known(c, Table, Store!Stored)
           added == Added(c, own.pieces, Table)
           l == link[c]
           s == session[c]
           ts == toServer[c]
           tc == toClient[c]
<1>1. /\ Talks(own, l, s, ts, tc, turn)
      /\ Told(own, l, ts, tc, turn, known, added)
      /\ c \in Old => Mismatched(s, turn, known)
      /\ l \in Link /\ link \in [Client -> Link] /\ toServer \in [Client -> Seq(Request)]
      /\ toClient \in [Client -> Seq(RecordUnit \cup MessageUnit)]
      /\ Len(toClient[c]) <= WINDOW /\ own.add \in {c, Malformed, None}
  BY Before
<1>2. /\ own.at = "connect" /\ Goes(c, "done") /\ UNCHANGED <<store, server, session, sigpipe>>
      /\ link' = link /\ toServer' = toServer /\ toClient' = toClient
  BY DEF ConnectFails, net
<1>3. Goneto(c, "done", {})
  <2>1. "done" \in At /\ {} \in SUBSET Words
    BY DEF At, Words
  <2> QED
    BY <1>2, <2>1, Went
<1>4. /\ client' \in [Client -> ClientState] /\ \A d \in Client \ {c} : client'[d] = client[d]
      /\ new.at = "done" /\ new.said = own.said /\ new.add = own.add
      /\ new.pieces = own.pieces
  BY <1>3 DEF Goneto
<1>5. l = "off" /\ s = "none" /\ turn = "none" /\ ts = <<>> /\ tc = <<>>
  BY <1>1, <1>2 DEF Talks, Incoming, Opened, Unopened
<1>6. Talks(new, l, s, ts, tc, turn)
  BY <1>4, <1>5 DEF Talks, Incoming, Unopened
<1>7. Told(new, l, ts, tc, turn, known, added)
  BY <1>1, <1>2, <1>4, <1>5, Distinct DEF Told, BeforeAdd, Rest
<1>8. Fits(c, new, l, s, ts, tc, turn, Table, Store!Stored, header.count, listed)
  BY <1>1, <1>4, <1>5, <1>6, <1>7 DEF Fits
<1>9. /\ link'[c] = l /\ toServer'[c] = ts /\ toClient'[c] = tc
      /\ link' \in [Client -> Link] /\ toServer' \in [Client -> Seq(Request)]
      /\ toClient' \in [Client -> Seq(RecordUnit \cup MessageUnit)]
      /\ Len(toClient'[c]) <= WINDOW /\ new.add \in {c, Malformed, None}
      /\ \A d \in Client \ {c} : link'[d] = link[d] /\ toServer'[d] = toServer[d]
                                 /\ toClient'[d] = toClient[d]
  BY <1>1, <1>2, <1>4
<1> QED
  BY <1>2, <1>4, <1>8, <1>9, ClientActs

LEMMA Connected ==
  ASSUME IInv, NEW c \in Client, Connect(c)
  PROVE  IInv'
<1> DEFINE own == client[c]
           new == client'[c]
           turn == Turn(c, serving, answer, phase)
           known == Known(c, Table, Store!Stored)
           added == Added(c, own.pieces, Table)
           added2 == Added(c, new.pieces, Table)
           s == session[c]
           ts == toServer[c]
           tc == toClient[c]
<1>1. /\ Talks(own, link[c], s, ts, tc, turn)
      /\ Told(own, link[c], ts, tc, turn, known, added)
      /\ c \in Old => Mismatched(s, turn, known)
      /\ link \in [Client -> Link] /\ toServer \in [Client -> Seq(Request)]
      /\ toClient \in [Client -> Seq(RecordUnit \cup MessageUnit)]
      /\ Len(toClient[c]) <= WINDOW
  BY Before
<1>2. /\ own.at = "connect" /\ UNCHANGED <<store, server, session, sigpipe>>
      /\ link' = [link EXCEPT ![c] = "queued"] /\ toServer' = toServer /\ toClient' = toClient
  BY DEF Connect
<1>3. PICK add \in {c, Malformed, None}, list \in BOOLEAN, pieces \in BOOLEAN :
        client' = [client EXCEPT ![c].at = "send hello", ![c].add = add,
                                 ![c].list = list, ![c].pieces = pieces]
  BY DEF Connect
<1>4. /\ client' \in [Client -> ClientState] /\ \A d \in Client \ {c} : client'[d] = client[d]
      /\ new.at = "send hello" /\ new.said = own.said /\ new.add = add
      /\ new.printed = own.printed
  <2> DEFINE x == [own EXCEPT !.at = "send hello", !.add = add, !.list = list,
                              !.pieces = pieces]
  <2>1. client \in [Client -> ClientState] /\ own \in ClientState
    BY DEF IInv, TypeOK
  <2>2. client' = [client EXCEPT ![c] = x]
    BY <1>3, <2>1
  <2>3. /\ x \in ClientState /\ x.at = "send hello" /\ x.said = own.said /\ x.add = add
        /\ x.printed = own.printed
    BY <2>1 DEF ClientState, At
  <2> QED
    BY <2>1, <2>2, <2>3
<1>5. link[c] = "off" /\ s = "none" /\ turn = "none" /\ ts = <<>> /\ tc = <<>>
      /\ own.printed = <<>>
  BY <1>1, <1>2 DEF Talks, Incoming, Opened, Unopened
<1>6. Talks(new, "queued", s, ts, tc, turn)
  BY <1>4, <1>5 DEF Talks, Incoming, Unopened
<1>7. Told(new, "queued", ts, tc, turn, known, added2)
  BY <1>1, <1>2, <1>4, <1>5, Distinct DEF Told, BeforeAdd, Rest
<1>8. Fits(c, new, "queued", s, ts, tc, turn, Table, Store!Stored, header.count, listed)
  BY <1>1, <1>6, <1>7 DEF Fits
<1>9. /\ link'[c] = "queued" /\ toServer'[c] = ts /\ toClient'[c] = tc
      /\ link' \in [Client -> Link] /\ toServer' \in [Client -> Seq(Request)]
      /\ toClient' \in [Client -> Seq(RecordUnit \cup MessageUnit)]
      /\ Len(toClient'[c]) <= WINDOW /\ new.add \in {c, Malformed, None}
      /\ \A d \in Client \ {c} : link'[d] = link[d] /\ toServer'[d] = toServer[d]
                                 /\ toClient'[d] = toClient[d]
  BY <1>1, <1>2, <1>4 DEF Link
<1> QED
  BY <1>2, <1>4, <1>5, <1>8, <1>9, ClientActs

\* The client goes on.
LEMMA GoesOn ==
  ASSUME IInv, NEW c \in Client, NEW to, NEW word, Goneto(c, to, word),
         client[c].at # "done",
         UNCHANGED <<store, server, session, sigpipe>>, link' = link,
         toServer' \in [Client -> Seq(Request)],
         toClient' \in [Client -> Seq(RecordUnit \cup MessageUnit)],
         Len(toClient'[c]) <= WINDOW,
         \A d \in Client \ {c} : toServer'[d] = toServer[d] /\ toClient'[d] = toClient[d],
         NEW turn, turn = Turn(c, serving, answer, phase),
         NEW known, known = Known(c, Table, Store!Stored),
         NEW added, added = Added(c, client[c].pieces, Table),
         Talks(client'[c], link[c], session[c], toServer'[c], toClient'[c], turn),
         Told(client'[c], link[c], toServer'[c], toClient'[c], turn, known, added),
         link[c] = "open" /\ "short" \notin client[c].said =>
           Lists(c, client'[c], toClient'[c], turn, Table, header.count, listed)
  PROVE  IInv'
<1>1. /\ client' \in [Client -> ClientState] /\ \A d \in Client \ {c} : client'[d] = client[d]
      /\ client'[c].add = client[c].add /\ client'[c].pieces = client[c].pieces
  BY DEF Goneto
<1>2. /\ c \in Old => Mismatched(session[c], turn, known)
      /\ link \in [Client -> Link] /\ client[c].add \in {c, Malformed, None}
  BY Before
<1>3. "short" \notin client'[c].said => "short" \notin client[c].said
  BY DEF Goneto
<1>4. Fits(c, client'[c], link[c], session[c], toServer'[c], toClient'[c], turn,
           Table, Store!Stored, header.count, listed)
  BY <1>1, <1>2, <1>3 DEF Fits
<1>5. /\ link' \in [Client -> Link] /\ link'[c] = link[c] /\ client'[c].add \in {c, Malformed, None}
      /\ \A d \in Client \ {c} : link'[d] = link[d]
  BY <1>1, <1>2
<1>6. Fits(c, client'[c], link'[c], session[c], toServer'[c], toClient'[c],
           Turn(c, serving, answer, phase), Table, Store!Stored, header.count, listed)
  BY <1>4, <1>5
<1> QED
  BY <1>1, <1>5, <1>6, ClientActs

\* What is sent to a server that may read it, and what is lost.
LEMMA Sending ==
  ASSUME IInv, NEW c \in Client, NEW units \in Seq(Request), NEW to \in At,
         Sends(c, units, to)
  PROVE  \/ Leaves(c, {"killed"}) /\ link[c] = "shut"
         \/ /\ Goneto(c, to, {}) /\ link' = link /\ toClient' = toClient
            /\ toServer' \in [Client -> Seq(Request)]
            /\ toClient' \in [Client -> Seq(RecordUnit \cup MessageUnit)]
            /\ Len(toClient'[c]) <= WINDOW
            /\ \A d \in Client \ {c} : toServer'[d] = toServer[d] /\ toClient'[d] = toClient[d]
            /\ \/ link[c] \in {"queued", "open"} /\ toServer'[c] = toServer[c] \o units
               \/ link[c] = "shut" /\ toServer'[c] = toServer[c]
<1>1. /\ toServer \in [Client -> Seq(Request)]
      /\ toClient \in [Client -> Seq(RecordUnit \cup MessageUnit)]
      /\ Len(toClient[c]) <= WINDOW
  BY Before
<1>2. Goes(c, to) => Goneto(c, to, {})
  <2>1. {} \in SUBSET Words
    OBVIOUS
  <2> QED
    BY <2>1, Went
<1>3. toServer[c] \o units \in Seq(Request)
  BY <1>1, ConcatProperties
<1> QED
  BY <1>1, <1>2, <1>3 DEF Sends, net

LEMMA HelloSent ==
  ASSUME IInv, NEW c \in Client, SendHello(c)
  PROVE  IInv'
<1> DEFINE own == client[c]
           new == client'[c]
           turn == Turn(c, serving, answer, phase)
           known == Known(c, Table, Store!Stored)
           added == Added(c, own.pieces, Table)
           l == link[c]
           s == session[c]
           ts == toServer[c]
           ts2 == toServer'[c]
           tc == toClient[c]
<1>1. /\ Talks(own, l, s, ts, tc, turn)
      /\ Told(own, l, ts, tc, turn, known, added)
      /\ l \in Link
  BY Before
<1>2. /\ own.at = "send hello" /\ UNCHANGED <<store, server, session, sigpipe>>
      /\ Sends(c, <<"hello">>, "read hello")
  BY DEF SendHello
<1>3. <<"hello">> \in Seq(Request) /\ "read hello" \in At
  BY DEF Request, At
<1>4. CASE Leaves(c, {"killed"})
  BY <1>2, <1>4, Left
<1>5. CASE ~ Leaves(c, {"killed"})
  <2>1. /\ Goneto(c, "read hello", {}) /\ link' = link /\ toClient' = toClient
        /\ toServer' \in [Client -> Seq(Request)]
        /\ toClient' \in [Client -> Seq(RecordUnit \cup MessageUnit)]
        /\ Len(toClient'[c]) <= WINDOW
        /\ \A d \in Client \ {c} : toServer'[d] = toServer[d] /\ toClient'[d] = toClient[d]
        /\ \/ l \in {"queued", "open"} /\ ts2 = ts \o <<"hello">>
           \/ l = "shut" /\ ts2 = ts
    BY <1>2, <1>3, <1>5, Sending
  <2>2. new.at = "read hello" /\ new.said = own.said /\ new.printed = own.printed
        /\ new.add = own.add
    BY <2>1 DEF Goneto
  <2>3. tc = <<>> /\ ts = <<>> /\ own.printed = <<>>
    BY <1>1, <1>2, <2>1 DEF Talks, Incoming, Opened, Unopened
  <2>4. l # "shut" => ts2 = <<"hello">>
    BY <2>1, <2>3, Sent
  <2>5. Talks(new, l, s, ts2, tc, turn)
    <3>1. CASE l = "open"
      <4>1. s = "HELLO" /\ turn = "none"
        BY <1>1, <1>2, <3>1 DEF Talks, Opened
      <4> QED
        BY <2>2, <2>3, <2>4, <3>1, <4>1 DEF Talks, Incoming, Opened
    <3>2. CASE l # "open"
      <4>1. s = "none" /\ turn = "none" /\ l \in {"queued", "shut"}
        BY <1>1, <1>2, <2>1, <3>2 DEF Talks, Unopened
      <4> QED
        BY <2>1, <2>2, <2>3, <2>4, <3>2, <4>1 DEF Talks, Incoming, Unopened
    <3> QED
      BY <3>1, <3>2
  <2>6. ts2 # <<"add", "rest">>
    BY <2>1, <2>3, <2>4, Distinct DEF Rest
  <2>7. Told(new, l, ts2, tc, turn, known, added)
    BY <1>1, <1>2, <2>2, <2>3, <2>6, Distinct DEF Told, BeforeAdd, Rest
  <2>8. Lists(c, new, tc, turn, Table, header.count, listed)
    BY <2>2 DEF Lists
  <2>9. toClient'[c] = tc
    BY <2>1
  <2> QED
    BY <1>2, <2>1, <2>5, <2>7, <2>8, <2>9, GoesOn
<1> QED
  BY <1>4, <1>5

LEMMA AddSent ==
  ASSUME IInv, NEW c \in Client, SendAdd(c)
  PROVE  IInv'
<1> DEFINE own == client[c]
           new == client'[c]
           turn == Turn(c, serving, answer, phase)
           known == Known(c, Table, Store!Stored)
           added == Added(c, own.pieces, Table)
           l == link[c]
           s == session[c]
           ts == toServer[c]
           ts2 == toServer'[c]
           tc == toClient[c]
<1>1. /\ Talks(own, l, s, ts, tc, turn)
      /\ Told(own, l, ts, tc, turn, known, added)
      /\ l \in Link
  BY Before
<1>2. /\ own.at = "send add" /\ UNCHANGED <<store, server, session, sigpipe>>
      /\ Sends(c, <<"add", "rest">>, "read add")
  BY DEF SendAdd
<1>3. <<"add", "rest">> \in Seq(Request) /\ "read add" \in At
  BY DEF Request, At
<1>4. CASE Leaves(c, {"killed"})
  BY <1>2, <1>4, Left
<1>5. CASE ~ Leaves(c, {"killed"})
  <2>1. /\ Goneto(c, "read add", {}) /\ link' = link /\ toClient' = toClient
        /\ toServer' \in [Client -> Seq(Request)]
        /\ toClient' \in [Client -> Seq(RecordUnit \cup MessageUnit)]
        /\ Len(toClient'[c]) <= WINDOW
        /\ \A d \in Client \ {c} : toServer'[d] = toServer[d] /\ toClient'[d] = toClient[d]
        /\ \/ l \in {"queued", "open"} /\ ts2 = ts \o <<"add", "rest">>
           \/ l = "shut" /\ ts2 = ts
    BY <1>2, <1>3, <1>5, Sending
  <2>2. new.at = "read add" /\ new.said = own.said /\ new.printed = own.printed
        /\ new.add = own.add
    BY <2>1 DEF Goneto
  <2>3. /\ tc = <<>> /\ ts = <<>> /\ own.printed = <<>> /\ turn = "none"
        /\ \/ l = "open" /\ s = "MSG"
           \/ l = "shut" /\ s = "none"
    BY <1>1, <1>2, <2>1 DEF Talks, Incoming, Opened, Unopened
  <2>4. l # "shut" => ts2 = <<"add", "rest">>
    BY <2>1, <2>3, Sent
  <2>5. Talks(new, l, s, ts2, tc, turn)
    <3>1. CASE l = "open"
      BY <2>2, <2>3, <2>4, <3>1 DEF Talks, Incoming, Opened
    <3>2. CASE l = "shut"
      BY <2>1, <2>2, <2>3, <3>2 DEF Talks, Incoming, Unopened
    <3> QED
      BY <2>3, <3>1, <3>2
  <2>6. ~ known /\ own.said \cap {"added", "refused"} = {} /\ own.add # None
    BY <1>1, <1>2 DEF Told, BeforeAdd
  <2>7. <<>> # <<Unit("error")>> /\ <<>> # <<Unit("add resp")>>
    BY Distinct
  <2>8. Told(new, l, ts2, tc, turn, known, added)
    BY <2>2, <2>3, <2>6, <2>7 DEF Told
  <2>9. Lists(c, new, tc, turn, Table, header.count, listed)
    BY <2>2 DEF Lists
  <2>10. toClient'[c] = tc
    BY <2>1
  <2> QED
    BY <1>2, <2>1, <2>5, <2>8, <2>9, <2>10, GoesOn
<1> QED
  BY <1>4, <1>5

LEMMA ListSent ==
  ASSUME IInv, NEW c \in Client, SendList(c)
  PROVE  IInv'
<1> DEFINE own == client[c]
           new == client'[c]
           turn == Turn(c, serving, answer, phase)
           known == Known(c, Table, Store!Stored)
           added == Added(c, own.pieces, Table)
           l == link[c]
           s == session[c]
           ts == toServer[c]
           ts2 == toServer'[c]
           tc == toClient[c]
<1>1. /\ Talks(own, l, s, ts, tc, turn)
      /\ Told(own, l, ts, tc, turn, known, added)
      /\ l \in Link
  BY Before
<1>2. /\ own.at = "send list" /\ UNCHANGED <<store, server, session, sigpipe>>
      /\ Sends(c, <<"list">>, "read list")
  BY DEF SendList
<1>3. <<"list">> \in Seq(Request) /\ "read list" \in At
  BY DEF Request, At
<1>4. CASE Leaves(c, {"killed"})
  BY <1>2, <1>4, Left
<1>5. CASE ~ Leaves(c, {"killed"})
  <2>1. /\ Goneto(c, "read list", {}) /\ link' = link /\ toClient' = toClient
        /\ toServer' \in [Client -> Seq(Request)]
        /\ toClient' \in [Client -> Seq(RecordUnit \cup MessageUnit)]
        /\ Len(toClient'[c]) <= WINDOW
        /\ \A d \in Client \ {c} : toServer'[d] = toServer[d] /\ toClient'[d] = toClient[d]
        /\ \/ l \in {"queued", "open"} /\ ts2 = ts \o <<"list">>
           \/ l = "shut" /\ ts2 = ts
    BY <1>2, <1>3, <1>5, Sending
  <2>2. new.at = "read list" /\ new.said = own.said /\ new.printed = own.printed
        /\ new.add = own.add
    BY <2>1 DEF Goneto
  <2>3. /\ tc = <<>> /\ own.printed = <<>>
        /\ \/ l = "open" /\ s = "MSG" /\ ts \in Rest /\ turn \in {"none", "save"}
           \/ l = "shut" /\ s = "none" /\ ts = <<>> /\ turn = "none"
    BY <1>1, <1>2, <2>1 DEF Talks, Incoming, Opened, Unopened
  <2>4. l # "shut" => ts2 \in {<<"list">>, <<"rest", "list">>}
    BY <2>1, <2>3, Sent DEF Rest
  <2>5. Talks(new, l, s, ts2, tc, turn)
    <3>1. CASE l = "open"
      BY <2>2, <2>3, <2>4, <3>1 DEF Talks, Incoming, Opened
    <3>2. CASE l = "shut"
      BY <2>1, <2>2, <2>3, <3>2 DEF Talks, Incoming, Unopened
    <3> QED
      BY <2>3, <3>1, <3>2
  <2>6. ts2 # <<"add", "rest">>
    BY <2>1, <2>3, <2>4, Distinct DEF Rest
  <2>7. /\ "refused" \in own.said => ~ known
        /\ l = "open" /\ "added" \in own.said => added
    BY <1>1 DEF Told
  <2>8. Told(new, l, ts2, tc, turn, known, added)
    BY <2>2, <2>6, <2>7 DEF Told, BeforeAdd
  <2>9. Lists(c, new, tc, turn, Table, header.count, listed)
    BY <2>2, <2>3 DEF Lists
  <2>10. toClient'[c] = tc
    BY <2>1
  <2> QED
    BY <1>2, <2>1, <2>5, <2>8, <2>9, <2>10, GoesOn
<1> QED
  BY <1>4, <1>5

\* The reply that the client takes is the one that was on its way.
LEMMA Replying ==
  ASSUME IInv, NEW c \in Client, NEW kind, Reply(c, kind)
  PROVE  /\ toClient[c] # <<>> /\ Head(toClient[c]).type = kind
         /\ toClient'[c] = Tail(toClient[c])
         /\ toClient' \in [Client -> Seq(RecordUnit \cup MessageUnit)]
         /\ Len(toClient'[c]) <= WINDOW
         /\ \A d \in Client \ {c} : toClient'[d] = toClient[d]
<1> DEFINE M == RecordUnit \cup MessageUnit
           tc == toClient[c]
<1>1. /\ tc # <<>> /\ Head(tc).type = kind /\ toClient' = [toClient EXCEPT ![c] = Tail(tc)]
      /\ toClient \in [Client -> Seq(M)] /\ tc \in Seq(M) /\ Len(tc) <= WINDOW
  BY Before DEF Reply
<1>2. Tail(tc) \in Seq(M) /\ Len(Tail(tc)) = Len(tc) - 1 /\ Len(tc) \in Nat
  BY <1>1, HeadTailProperties, LenProperties
<1>3. Len(Tail(tc)) <= WINDOW
  BY <1>1, <1>2, SystemAssumption
<1> QED
  BY <1>1, <1>2, <1>3

\* The one unit that a short reply is.
LEMMA ShortReply ==
  ASSUME NEW unit
  PROVE  <<unit>> # <<>> /\ Head(<<unit>>) = unit /\ Tail(<<unit>>) = <<>>
<1>1. <<unit>> \in Seq({unit}) /\ <<unit>> # <<>> /\ Head(<<unit>>) = unit
      /\ Len(<<unit>>) = 1
  OBVIOUS
<1>2. Tail(<<unit>>) \in Seq({unit}) /\ Len(Tail(<<unit>>)) = 0
  BY <1>1, HeadTailProperties
<1> QED
  BY <1>1, <1>2, EmptySeq

LEMMA HelloAnswered ==
  ASSUME IInv, NEW c \in Client, ReadHelloReply(c)
  PROVE  IInv'
<1> DEFINE own == client[c]
           new == client'[c]
           turn == Turn(c, serving, answer, phase)
           known == Known(c, Table, Store!Stored)
           added == Added(c, own.pieces, Table)
           l == link[c]
           s == session[c]
           ts == toServer[c]
           tc == toClient[c]
<1>1. /\ Talks(own, l, s, ts, tc, turn)
      /\ Told(own, l, ts, tc, turn, known, added)
      /\ l \in Link /\ toServer \in [Client -> Seq(Request)]
      /\ toClient \in [Client -> Seq(RecordUnit \cup MessageUnit)]
      /\ Len(toClient[c]) <= WINDOW
  BY Before
<1>2. /\ own.at = "read hello" /\ UNCHANGED <<store, server, session, sigpipe>>
      /\ link' = link /\ toServer' = toServer
  BY DEF ReadHelloReply
<1>3. \A to \in {"send add", "send list", "close"}, word \in {{}, {"unanswered"}} :
        to \in At /\ word \in SUBSET Words
  BY DEF At, Words
<1>4. /\ AfterHello(c) \in {"send add", "send list", "close"}
      /\ AfterHello(c) = "send add" => own.add # None
  BY DEF AfterHello, AfterAdd
<1>5. /\ tc \in {<<>>, <<Unit("hello resp")>>, <<Unit("error")>>}
      /\ l = "open" /\ tc # <<>> => ts = <<>> /\ turn = "none"
                                    /\ (tc # <<Unit("error")>> => s = "MSG")
      /\ l # "open" /\ tc # <<>> => l = "shut"
      /\ own.printed = <<>>
  BY <1>1, <1>2 DEF Talks, Incoming, Opened, Unopened, Link
<1>6. \E to, word :
        /\ to \in {"send add", "send list", "close"} /\ word \in {{}, {"unanswered"}}
        /\ Goneto(c, to, word)
        /\ to = "send add" => own.add # None
        /\ toClient'[c] = <<>>
        /\ toClient' \in [Client -> Seq(RecordUnit \cup MessageUnit)]
        /\ Len(toClient'[c]) <= WINDOW
        /\ \A d \in Client \ {c} : toClient'[d] = toClient[d]
        /\ \/ l = "open" /\ ts = <<>> /\ turn = "none" /\ (s = "MSG" \/ to = "close")
           \/ l = "shut"
  <2>1. CASE Reply(c, "hello resp") /\ Goes(c, AfterHello(c))
    <3>1. /\ tc # <<>> /\ Head(tc).type = "hello resp" /\ toClient'[c] = Tail(tc)
          /\ toClient' \in [Client -> Seq(RecordUnit \cup MessageUnit)]
          /\ Len(toClient'[c]) <= WINDOW
          /\ \A d \in Client \ {c} : toClient'[d] = toClient[d]
      BY <2>1, Replying
    <3>2. tc # <<Unit("error")>>
      <4>1. tc = <<Unit("error")>> => Head(tc).type = "error"
        BY ShortReply, Distinct
      <4> QED
        BY <3>1, <4>1
    <3>3. toClient'[c] = <<>>
      BY <1>5, <3>1, ShortReply
    <3>4. Goneto(c, AfterHello(c), {})
      BY <1>3, <1>4, <2>1, Went
    <3> QED
      BY <1>4, <1>5, <3>1, <3>2, <3>3, <3>4
  <2>2. CASE Reply(c, "error") /\ Goes(c, AfterError)
    <3>1. /\ tc # <<>> /\ toClient'[c] = Tail(tc)
          /\ toClient' \in [Client -> Seq(RecordUnit \cup MessageUnit)]
          /\ Len(toClient'[c]) <= WINDOW
          /\ \A d \in Client \ {c} : toClient'[d] = toClient[d]
      BY <2>2, Replying
    <3>2. toClient'[c] = <<>>
      BY <1>5, <3>1, ShortReply
    <3>3. Goneto(c, "close", {})
      BY <1>3, <2>2, Went DEF AfterError
    <3>4. "close" # "send add"
      OBVIOUS
    <3> QED
      BY <1>5, <3>1, <3>2, <3>3, <3>4
  <2>3. CASE NoReply(c) /\ GoesSaying(c, AfterHello(c), {"unanswered"})
    <3>1. l = "shut" /\ tc = <<>> /\ toClient' = toClient
      BY <2>3 DEF NoReply
    <3>2. Goneto(c, AfterHello(c), {"unanswered"})
      BY <1>3, <1>4, <2>3, Went
    <3> QED
      BY <1>1, <1>4, <3>1, <3>2
  <2> QED
    BY <2>1, <2>2, <2>3 DEF ReadHelloReply
<1>7. PICK to, word :
        /\ to \in {"send add", "send list", "close"} /\ word \in {{}, {"unanswered"}}
        /\ Goneto(c, to, word)
        /\ to = "send add" => own.add # None
        /\ toClient'[c] = <<>>
        /\ toClient' \in [Client -> Seq(RecordUnit \cup MessageUnit)]
        /\ Len(toClient'[c]) <= WINDOW
        /\ \A d \in Client \ {c} : toClient'[d] = toClient[d]
        /\ \/ l = "open" /\ ts = <<>> /\ turn = "none" /\ (s = "MSG" \/ to = "close")
           \/ l = "shut"
  BY <1>6
<1>8. /\ new.at = to /\ new.add = own.add /\ new.printed = <<>>
      /\ \A w \in {"added", "refused"} : w \in new.said <=> w \in own.said
  BY <1>5, <1>7 DEF Goneto
<1>9. ~ known /\ own.said \cap {"added", "refused"} = {}
  BY <1>1, <1>2 DEF Told, BeforeAdd
<1>10. Talks(new, l, s, ts, <<>>, turn)
  <2>1. Incoming(new.at, <<>>)
    BY <1>7, <1>8, Empty DEF Incoming
  <2>2. CASE l = "open"
    <3>1. s \in {"HELLO", "MSG"}
      BY <1>1, <2>2 DEF Talks, Opened
    <3> QED
      BY <1>7, <1>8, <2>1, <2>2, <3>1 DEF Talks, Opened, Rest
  <2>3. CASE l = "shut"
    <3>1. s = "none" /\ turn = "none" /\ ts = <<>>
      BY <1>1, <2>3 DEF Talks, Unopened
    <3> QED
      BY <1>7, <1>8, <2>1, <2>3, <3>1 DEF Talks, Unopened
  <2> QED
    BY <1>7, <2>2, <2>3
<1>11. ts # <<"add", "rest">>
  <2>1. ts = <<>>
    BY <1>1, <1>7 DEF Talks, Unopened
  <2> QED
    BY <2>1, Distinct DEF Rest
<1>12. Told(new, l, ts, <<>>, turn, known, added)
  BY <1>7, <1>8, <1>9, <1>11 DEF Told
<1>13. ASSUME l = "open"
       PROVE  Lists(c, new, <<>>, turn, Table, header.count, listed)
  <2>1. Len(new.printed) = 0 /\ 0 <= Len(Table) /\ \A k \in 1..0 : FALSE
    <3>1. Len(<<>>) = 0 /\ \A k \in 1..0 : FALSE
      OBVIOUS
    <3>2. Len(Table) \in Nat
      BY TheTable DEF IInv
    <3> QED
      BY <1>8, <3>1, <3>2
  <2>2. /\ turn = "none" /\ "added" \notin new.said
        /\ new.at \notin {"read list", "read record", "done"}
    BY <1>7, <1>8, <1>9, <1>13
  <2> QED
    BY <2>1, <2>2 DEF Lists
<1> QED
  BY <1>1, <1>2, <1>7, <1>10, <1>12, <1>13, GoesOn

LEMMA AddAnswered ==
  ASSUME IInv, NEW c \in Client, ReadAddReply(c)
  PROVE  IInv'
<1> DEFINE own == client[c]
           new == client'[c]
           turn == Turn(c, serving, answer, phase)
           known == Known(c, Table, Store!Stored)
           added == Added(c, own.pieces, Table)
           l == link[c]
           s == session[c]
           ts == toServer[c]
           tc == toClient[c]
           to == AfterAdd(c)
<1>1. /\ Talks(own, l, s, ts, tc, turn)
      /\ Told(own, l, ts, tc, turn, known, added)
      /\ l \in Link /\ toServer \in [Client -> Seq(Request)]
      /\ toClient \in [Client -> Seq(RecordUnit \cup MessageUnit)]
      /\ Len(toClient[c]) <= WINDOW
  BY Before
<1>2. /\ own.at = "read add" /\ UNCHANGED <<store, server, session, sigpipe>>
      /\ link' = link /\ toServer' = toServer
  BY DEF ReadAddReply
<1>3. /\ to \in At
      /\ \A word \in {{"added"}, {"refused"}, {"added", "unanswered"}} : word \in SUBSET Words
  BY DEF At, Words, AfterAdd
<1>4. to \in {"send list", "close"} /\ (to = "close" => ~ own.list)
  BY DEF AfterAdd
<1>5. /\ tc \in {<<>>, <<Unit("add resp")>>, <<Unit("error")>>}
      /\ l = "open" /\ tc # <<>> => s = "MSG" /\ ts \in Rest /\ turn \in {"none", "save"}
      /\ l # "open" /\ tc # <<>> => l = "shut"
      /\ own.printed = <<>>
  BY <1>1, <1>2 DEF Talks, Incoming, Opened, Unopened, Link
<1>6. /\ own.said \cap {"added", "refused"} = {} /\ own.add # None
      /\ known => ts # <<"add", "rest">>
      /\ tc = <<Unit("error")>> => ~ known /\ ts # <<"add", "rest">>
      /\ l = "open" /\ tc = <<Unit("add resp")>> => added
  BY <1>1, <1>2 DEF Told
<1>7. \E word :
        /\ word \in {{"added"}, {"refused"}, {"added", "unanswered"}}
        /\ Goneto(c, to, word)
        /\ toClient'[c] = <<>>
        /\ toClient' \in [Client -> Seq(RecordUnit \cup MessageUnit)]
        /\ Len(toClient'[c]) <= WINDOW
        /\ \A d \in Client \ {c} : toClient'[d] = toClient[d]
        /\ "refused" \in word => ~ known /\ ts # <<"add", "rest">>
        /\ \/ l = "open" /\ s = "MSG" /\ ts \in Rest /\ turn \in {"none", "save"}
              /\ ("added" \in word => added)
           \/ l = "shut"
  <2>1. ASSUME NEW kind, kind \in {"add resp", "error"}, Reply(c, kind),
               GoesSaying(c, to, {Report(kind)})
        PROVE  \E word :
          /\ word \in {{"added"}, {"refused"}, {"added", "unanswered"}}
          /\ Goneto(c, to, word)
          /\ toClient'[c] = <<>>
          /\ toClient' \in [Client -> Seq(RecordUnit \cup MessageUnit)]
          /\ Len(toClient'[c]) <= WINDOW
          /\ \A d \in Client \ {c} : toClient'[d] = toClient[d]
          /\ "refused" \in word => ~ known /\ ts # <<"add", "rest">>
          /\ \/ l = "open" /\ s = "MSG" /\ ts \in Rest /\ turn \in {"none", "save"}
                /\ ("added" \in word => added)
             \/ l = "shut"
    <3>1. /\ tc # <<>> /\ Head(tc).type = kind /\ toClient'[c] = Tail(tc)
          /\ toClient' \in [Client -> Seq(RecordUnit \cup MessageUnit)]
          /\ Len(toClient'[c]) <= WINDOW
          /\ \A d \in Client \ {c} : toClient'[d] = toClient[d]
      BY <2>1, Replying
    <3>2. toClient'[c] = <<>>
      BY <1>5, <3>1, ShortReply
    <3>3. tc = <<Unit(kind)>>
      <4>1. /\ tc = <<Unit("add resp")>> => Head(tc).type = "add resp"
            /\ tc = <<Unit("error")>> => Head(tc).type = "error"
        <5>1. /\ Head(<<Unit("add resp")>>) = Unit("add resp")
              /\ Head(<<Unit("error")>>) = Unit("error")
          BY ShortReply
        <5>2. Unit("add resp").type = "add resp" /\ Unit("error").type = "error"
          BY DEF Unit
        <5> HIDE DEF tc
        <5> QED
          BY <5>1, <5>2
      <4>2. tc = <<Unit("add resp")>> \/ tc = <<Unit("error")>>
        BY <1>5, <3>1
      <4> QED
        BY <3>1, <4>1, <4>2
    <3>4. {Report(kind)} \in {{"added"}, {"refused"}, {"added", "unanswered"}}
      BY DEF Report
    <3>5. Goneto(c, to, {Report(kind)})
      BY <1>3, <2>1, <3>4, Went
    <3>6. "refused" \in {Report(kind)} => kind = "error"
      BY <2>1 DEF Report
    <3>7. "added" \in {Report(kind)} => kind = "add resp"
      BY <2>1 DEF Report
    <3>8. l = "open" \/ l = "shut"
      BY <1>5, <3>1
    <3>9. l = "open" => s = "MSG" /\ ts \in Rest /\ turn \in {"none", "save"}
      BY <1>5, <3>1
    <3>10. "refused" \in {Report(kind)} => ~ known /\ ts # <<"add", "rest">>
      BY <1>6, <3>3, <3>6
    <3>11. l = "open" /\ "added" \in {Report(kind)} => added
      BY <1>6, <3>3, <3>7
    <3> HIDE DEF to, known, added, ts, tc, l, s, turn
    <3> QED
      BY <3>1, <3>2, <3>4, <3>5, <3>8, <3>9, <3>10, <3>11
  <2>2. CASE NoReply(c) /\ GoesSaying(c, to, {"added", "unanswered"})
    <3>1. l = "shut" /\ tc = <<>> /\ toClient' = toClient
      BY <2>2 DEF NoReply
    <3>2. Goneto(c, to, {"added", "unanswered"})
      BY <1>3, <2>2, Went
    <3> QED
      BY <1>1, <3>1, <3>2
  <2> QED
    BY <2>1, <2>2 DEF ReadAddReply
<1>8. PICK word :
        /\ word \in {{"added"}, {"refused"}, {"added", "unanswered"}}
        /\ Goneto(c, to, word)
        /\ toClient'[c] = <<>>
        /\ toClient' \in [Client -> Seq(RecordUnit \cup MessageUnit)]
        /\ Len(toClient'[c]) <= WINDOW
        /\ \A d \in Client \ {c} : toClient'[d] = toClient[d]
        /\ "refused" \in word => ~ known /\ ts # <<"add", "rest">>
        /\ \/ l = "open" /\ s = "MSG" /\ ts \in Rest /\ turn \in {"none", "save"}
              /\ ("added" \in word => added)
           \/ l = "shut"
  BY <1>7
<1>9. /\ new.at = to /\ new.add = own.add /\ new.printed = <<>> /\ new.list = own.list
      /\ "added" \in new.said => "added" \in word
      /\ "refused" \in new.said => "refused" \in word
  BY <1>5, <1>6, <1>8 DEF Goneto
<1>10. Talks(new, l, s, ts, <<>>, turn)
  <2>1. Incoming(new.at, <<>>)
    BY <1>4, <1>9, Empty DEF Incoming
  <2>2. CASE l = "open"
    BY <1>4, <1>8, <1>9, <2>1, <2>2 DEF Talks, Opened, Rest
  <2>3. CASE l = "shut"
    <3>1. s = "none" /\ turn = "none" /\ ts = <<>>
      BY <1>1, <2>3 DEF Talks, Unopened
    <3> QED
      BY <1>4, <1>9, <2>1, <2>3, <3>1 DEF Talks, Unopened
  <2> QED
    BY <1>8, <2>2, <2>3
<1>11. Told(new, l, ts, <<>>, turn, known, added)
  BY <1>4, <1>6, <1>8, <1>9 DEF Told, BeforeAdd
<1>12. ASSUME l = "open"
       PROVE  Lists(c, new, <<>>, turn, Table, header.count, listed)
  <2>1. Len(new.printed) = 0 /\ 0 <= Len(Table) /\ \A k \in 1..0 : FALSE
    <3>1. Len(<<>>) = 0 /\ \A k \in 1..0 : FALSE
      OBVIOUS
    <3>2. Len(Table) \in Nat
      BY TheTable DEF IInv
    <3> QED
      BY <1>9, <3>1, <3>2
  <2>2. turn # "records" /\ new.at \in {"send list", "close"} /\ (new.at = "close" => ~ new.list)
    BY <1>4, <1>8, <1>9, <1>12
  <2> QED
    BY <2>1, <2>2 DEF Lists
<1> QED
  BY <1>1, <1>2, <1>8, <1>10, <1>11, <1>12, GoesOn

\* The client reads what was sent to it, and its buffers change.
LEMMA ReadsOn ==
  ASSUME IInv, NEW c \in Client, NEW new, new \in ClientState,
         client' = [client EXCEPT ![c] = new],
         new.add = client[c].add, new.pieces = client[c].pieces,
         client[c].at # "done",
         UNCHANGED <<store, server, session, sigpipe>>, link' = link, toServer' = toServer,
         toClient' \in [Client -> Seq(RecordUnit \cup MessageUnit)],
         Len(toClient'[c]) <= WINDOW,
         \A d \in Client \ {c} : toClient'[d] = toClient[d],
         NEW turn, turn = Turn(c, serving, answer, phase),
         NEW known, known = Known(c, Table, Store!Stored),
         NEW added, added = Added(c, client[c].pieces, Table),
         Talks(new, link[c], session[c], toServer[c], toClient'[c], turn),
         Told(new, link[c], toServer[c], toClient'[c], turn, known, added),
         link[c] = "open" /\ "short" \notin new.said =>
           Lists(c, new, toClient'[c], turn, Table, header.count, listed)
  PROVE  IInv'
<1>1. client \in [Client -> ClientState]
  BY DEF IInv, TypeOK
<1>2. /\ c \in Old => Mismatched(session[c], turn, known)
      /\ link \in [Client -> Link] /\ client[c].add \in {c, Malformed, None}
      /\ toServer \in [Client -> Seq(Request)]
  BY Before
<1>3. Fits(c, new, link[c], session[c], toServer[c], toClient'[c], turn,
           Table, Store!Stored, header.count, listed)
  BY <1>2 DEF Fits
<1>4. /\ client' \in [Client -> ClientState] /\ client'[c] = new
      /\ \A d \in Client \ {c} : client'[d] = client[d]
  BY <1>1
<1>5. /\ link' \in [Client -> Link] /\ link'[c] = link[c] /\ client'[c].add \in {c, Malformed, None}
      /\ toServer' \in [Client -> Seq(Request)] /\ toServer'[c] = toServer[c]
      /\ \A d \in Client \ {c} : link'[d] = link[d] /\ toServer'[d] = toServer[d]
  BY <1>2, <1>4
<1>6. Fits(c, client'[c], link'[c], session[c], toServer'[c], toClient'[c],
           Turn(c, serving, answer, phase), Table, Store!Stored, header.count, listed)
  BY <1>3, <1>4, <1>5
<1> QED
  BY <1>4, <1>5, <1>6, ClientActs

LEMMA ListAnswered ==
  ASSUME IInv, NEW c \in Client, ReadListReply(c)
  PROVE  IInv'
<1> DEFINE own == client[c]
           turn == Turn(c, serving, answer, phase)
           known == Known(c, Table, Store!Stored)
           added == Added(c, own.pieces, Table)
           names == Under(c, own.pieces)
           l == link[c]
           s == session[c]
           ts == toServer[c]
           tc == toClient[c]
<1>1. /\ Talks(own, l, s, ts, tc, turn)
      /\ Told(own, l, ts, tc, turn, known, added)
      /\ l = "open" /\ "short" \notin own.said =>
           Lists(c, own, tc, turn, Table, header.count, listed)
      /\ l \in Link /\ toServer \in [Client -> Seq(Request)]
      /\ toClient \in [Client -> Seq(RecordUnit \cup MessageUnit)]
      /\ Len(toClient[c]) <= WINDOW
  BY Before
<1>2. /\ own.at = "read list" /\ UNCHANGED <<store, server, session, sigpipe>>
      /\ link' = link /\ toServer' = toServer
  BY DEF ReadListReply
<1>3. own \in ClientState /\ own.printed = <<>>
  BY <1>1, <1>2, Typed DEF Talks
<1>4. /\ "refused" \in own.said => ~ known /\ ts # <<"add", "rest">>
      /\ l = "open" /\ "added" \in own.said => added
      /\ ts = <<"add", "rest">> => own.add # None
      /\ known => ts # <<"add", "rest">>
  BY <1>1 DEF Told
<1>5. CASE /\ Reply(c, "list resp")
           /\ client' = [client EXCEPT ![c].at = "read record", ![c].left = Announced(c)]
  <2>1. /\ tc # <<>> /\ toClient'[c] = Tail(tc)
        /\ toClient' \in [Client -> Seq(RecordUnit \cup MessageUnit)]
        /\ Len(toClient'[c]) <= WINDOW
        /\ \A d \in Client \ {c} : toClient'[d] = toClient[d]
    BY <1>5, Replying
  <2>2. PICK m : m \in 0..(COUNT_MOD - 1) /\ Head(tc) = ListHeader(m)
    BY <1>1, <1>2, <2>1 DEF Talks, Incoming
  <2>3. Announced(c) = m /\ Head(tc).n = m /\ m \in Nat
    <3>1. ListHeader(m).n = m
      BY <2>2, Announcement
    <3>2. m \in Nat
      BY <2>2, StoreAssumption
    <3> QED
      BY <2>2, <3>1, <3>2 DEF Announced
  <2> DEFINE new == [own EXCEPT !.at = "read record", !.left = m]
  <2>4. client' = [client EXCEPT ![c] = new]
    <3>1. client \in [Client -> ClientState]
      BY DEF IInv, TypeOK
    <3> QED
      BY <1>5, <2>3, <3>1
  <2>5. /\ new \in ClientState /\ new.at = "read record" /\ new.left = m
        /\ new.add = own.add /\ new.pieces = own.pieces /\ new.list = own.list
        /\ new.said = own.said /\ new.printed = <<>>
    BY <1>3, <2>2 DEF ClientState, At
  <2> HIDE DEF new
  <2>6. /\ Tail(tc) \in Seq(RecordUnit)
        /\ l = "open" => s = "MSG" /\ ts = <<>> /\ turn \in {"none", "records"}
        /\ l # "open" => l = "shut" /\ s = "none" /\ ts = <<>> /\ turn = "none"
    BY <1>1, <1>2, <2>1 DEF Talks, Incoming, Opened, Unopened, Link
  <2>7. Talks(new, l, s, ts, Tail(tc), turn)
    <3>1. CASE l = "open"
      BY <2>5, <2>6, <3>1 DEF Talks, Incoming, Opened
    <3>2. CASE l # "open"
      BY <2>5, <2>6, <3>2 DEF Talks, Incoming, Unopened
    <3> QED
      BY <3>1, <3>2
  <2>8. Told(new, l, ts, Tail(tc), turn, known, added)
    BY <1>4, <2>5 DEF Told, BeforeAdd
  <2>9. ASSUME l = "open", "short" \notin own.said
        PROVE  Lists(c, new, Tail(tc), turn, Table, header.count, listed)
    <3>1. new.printed = <<>>
      BY <2>5
    <3>2. new.left = m
      BY <2>5
    <3>3. Listing(names, own.said, Tail(tc), 0, m, turn, Table, header.count, listed)
      BY <1>1, <1>2, <2>1, <2>3, <2>9 DEF Lists
    <3>4. Len(new.printed) = 0 /\ 0 <= Len(Table) /\ \A k \in 1..0 : FALSE
      <4>1. Len(<<>>) = 0 /\ \A k \in 1..0 : FALSE
        BY ONLY EmptySeq
      <4>2. Len(Table) \in Nat
        BY TheTable DEF IInv
      <4> QED
        BY <3>1, <4>1, <4>2
    <3>5. 0 + new.left = m
      BY <2>3, <3>2
    <3> HIDE DEF tc, turn, l
    <3> QED
      BY <2>5, <3>3, <3>4, <3>5 DEF Lists
  <2> QED
    BY <1>1, <1>2, <2>1, <2>4, <2>5, <2>7, <2>8, <2>9, ReadsOn
<1>6. CASE NoReply(c) /\ GoesSaying(c, "close", {"unanswered"})
  <2> DEFINE new == client'[c]
  <2>1. l = "shut" /\ tc = <<>> /\ toClient' = toClient
    BY <1>6 DEF NoReply
  <2>2. Goneto(c, "close", {"unanswered"})
    <3>1. "close" \in At /\ {"unanswered"} \in SUBSET Words
      BY DEF At, Words
    <3> QED
      BY <1>6, <3>1, Went
  <2>3. /\ new.at = "close" /\ new.add = own.add
        /\ \A w \in {"added", "refused"} : w \in new.said <=> w \in own.said
    BY <2>2 DEF Goneto
  <2>4. Talks(new, l, s, ts, tc, turn)
    <3>1. s = "none" /\ turn = "none" /\ ts = <<>>
      BY <1>1, <2>1 DEF Talks, Unopened
    <3> QED
      BY <2>1, <2>3, <3>1, Empty DEF Talks, Incoming, Unopened
  <2>5. Told(new, l, ts, tc, turn, known, added)
    BY <1>4, <2>1, <2>3 DEF Told, BeforeAdd
  <2> QED
    BY <1>1, <1>2, <2>1, <2>2, <2>4, <2>5, GoesOn
<1> QED
  BY <1>5, <1>6 DEF ReadListReply

LEMMA RecordsEnded ==
  ASSUME IInv, NEW c \in Client, ReadRecordsEnd(c)
  PROVE  IInv'
<1> DEFINE own == client[c]
           new == [own EXCEPT !.at = "close", !.buf = EmptyBuffer, !.order = "host"]
           turn == Turn(c, serving, answer, phase)
           known == Known(c, Table, Store!Stored)
           added == Added(c, own.pieces, Table)
           names == Under(c, own.pieces)
           l == link[c]
           s == session[c]
           ts == toServer[c]
           tc == toClient[c]
           p == Len(own.printed)
<1>1. /\ Talks(own, l, s, ts, tc, turn)
      /\ Told(own, l, ts, tc, turn, known, added)
      /\ l = "open" /\ "short" \notin own.said =>
           Lists(c, own, tc, turn, Table, header.count, listed)
      /\ l \in Link /\ toServer \in [Client -> Seq(Request)]
      /\ toClient \in [Client -> Seq(RecordUnit \cup MessageUnit)]
      /\ Len(toClient[c]) <= WINDOW
  BY Before
<1>2. /\ own.at = "read record" /\ own.left = 0
      /\ UNCHANGED <<store, server, session, sigpipe>>
      /\ link' = link /\ toServer' = toServer /\ toClient' = toClient
  BY DEF ReadRecordsEnd, net
<1>3. own \in ClientState /\ p \in Nat
  BY Typed
<1>4. client' = [client EXCEPT ![c] = new]
  <2>1. client \in [Client -> ClientState]
    BY DEF IInv, TypeOK
  <2> QED
    BY <2>1 DEF ReadRecordsEnd
<1>5. /\ new \in ClientState /\ new.at = "close" /\ new.list = own.list
      /\ new.add = own.add /\ new.pieces = own.pieces
      /\ new.said = own.said /\ new.printed = own.printed
  <2>1. EmptyBuffer \in [1..2 -> RecordUnit \cup {Unit("none")}] /\ "host" \in Store!Order
    BY DEF EmptyBuffer, Store!Order
  <2> QED
    BY <1>3, <2>1 DEF ClientState, At
<1> HIDE DEF new
<1>6. tc \in Seq(RecordUnit)
  BY <1>1, <1>2 DEF Talks, Incoming
<1>7. Talks(new, l, s, ts, tc, turn)
  <2>1. CASE l = "open"
    BY <1>1, <1>2, <1>5, <1>6, <2>1 DEF Talks, Incoming, Opened, Rest
  <2>2. CASE l # "open"
    BY <1>1, <1>2, <1>5, <1>6, <2>2 DEF Talks, Incoming, Unopened
  <2> QED
    BY <2>1, <2>2
<1>8. Told(new, l, ts, tc, turn, known, added)
  BY <1>1, <1>2, <1>5 DEF Told, BeforeAdd
<1>9. ASSUME l = "open", "short" \notin own.said
      PROVE  Lists(c, new, tc, turn, Table, header.count, listed)
  <2>1. /\ Listing(names, own.said, tc, p, p + own.left, turn, Table, header.count, listed)
        /\ p <= Len(Table) /\ \A k \in 1..p : own.printed[k] = Table[k]
    BY <1>1, <1>2, <1>9 DEF Lists
  <2>2. p + own.left = p
    <3>1. own.left = 0
      BY <1>2
    <3> QED
      BY <1>3, <3>1
  <2>3. PICK r \in 0..p :
          /\ Lines(tc, p, r, Table)
          /\ p + r <= p
          /\ turn = "records" => listed = p + r /\ header.count = p
          /\ "added" \in own.said => \E k \in 1..p : Table[k] \in names
    BY <2>1, <2>2 DEF Listing
  <2>4. r = 0 /\ p + r = p
    BY <1>3, <2>3
  <2>5. tc = <<>>
    BY <1>6, <2>3, <2>4, EmptySeq DEF Lines
  <2>6. "added" \in own.said => \E k \in 1..p : own.printed[k] \in names
    BY <2>1, <2>3
  <2>7. turn = "records" => listed = header.count
    BY <2>3, <2>4
  <2> HIDE DEF tc, turn, l
  <2> QED
    BY <1>5, <2>1, <2>5, <2>6, <2>7 DEF Lists
<1>10. /\ toClient' \in [Client -> Seq(RecordUnit \cup MessageUnit)]
       /\ Len(toClient'[c]) <= WINDOW /\ toClient'[c] = tc
       /\ \A d \in Client \ {c} : toClient'[d] = toClient[d]
  BY <1>1, <1>2
<1> QED
  BY <1>1, <1>2, <1>4, <1>5, <1>7, <1>8, <1>9, <1>10, ReadsOn

\* What a client prints of a buffer is a name; of the halves of one record, the
\* name in it.
LEMMA Prints ==
  ASSUME NEW buf \in [1..2 -> RecordUnit \cup {Unit("none")}], NEW order
  PROVE  /\ Printed(buf, order) \in Name
         /\ \A who : buf[1] = Line(1, who) /\ buf[2] = Line(2, who) /\ order = "host"
              => Printed(buf, order) = who
<1>1. Garbage \in Name
  BY DEF Name
<1>2. buf[1].n = 1 => buf[1].who \in Name
  <2>1. buf[1] \in RecordUnit \/ buf[1] = Unit("none")
    OBVIOUS
  <2>2. Unit("none").n = 0
    BY DEF Unit
  <2>3. \A u \in RecordUnit : u.who \in Name
    BY DEF RecordUnit
  <2> QED
    BY <2>1, <2>2, <2>3
<1>3. \A h, who : Line(h, who).n = h /\ Line(h, who).who = who
  BY DEF Line
<1> QED
  BY <1>1, <1>2, <1>3 DEF Printed

LEMMA Remainder ==
  ASSUME NEW S, NEW s \in Seq(S), NEW n \in Nat, n <= Len(s)
  PROVE  /\ SubSeq(s, n + 1, Len(s)) \in Seq(S)
         /\ Len(SubSeq(s, n + 1, Len(s))) = Len(s) - n
         /\ \A i \in 1..(Len(s) - n) : SubSeq(s, n + 1, Len(s))[i] = s[i + n]
<1> DEFINE t == SubSeq(s, n + 1, Len(s))
<1>1. Len(s) \in Nat /\ \A i \in 1..Len(s) : s[i] \in S
  BY ElementOfSeq, LenProperties
<1>2. n + 1 \in Int /\ Len(s) \in Int /\ \A i \in (n + 1)..Len(s) : s[i] \in S
  BY <1>1
<1>3. /\ t \in Seq(S) /\ Len(t) = IF n + 1 <= Len(s) THEN Len(s) - (n + 1) + 1 ELSE 0
      /\ \A i \in 1..(Len(s) - (n + 1) + 1) : t[i] = s[n + 1 + i - 1]
  BY ONLY <1>2, SubSeqProperties
<1> HIDE DEF t
<1>4. Len(t) = Len(s) - n
  BY <1>1, <1>3
<1>5. ASSUME NEW i \in 1..(Len(s) - n)
      PROVE  t[i] = s[i + n]
  <2>1. i \in 1..(Len(s) - (n + 1) + 1) /\ n + 1 + i - 1 = i + n
    BY <1>1
  <2> QED
    BY <1>3, <2>1
<1> QED
  BY <1>3, <1>4, <1>5 DEF t

\* Once the client has read a record, one less is on its way.
LEMMA ListingShrinks ==
  ASSUME NEW names, NEW said, NEW table, Len(table) \in Nat, NEW units \in Seq(RecordUnit),
         NEW p \in Nat, NEW m \in Nat, NEW turn, NEW count, NEW sent,
         2 <= Len(units),
         Listing(names, said, units, p, m, turn, table, count, sent)
  PROVE  /\ Listing(names, said, SubSeq(units, 3, Len(units)), p + 1, m, turn, table, count, sent)
         /\ p + 1 <= Len(table)
         /\ units[1] = Line(1, table[p + 1]) /\ units[2] = Line(2, table[p + 1])
<1> DEFINE rest == SubSeq(units, 3, Len(units))
<1>1. PICK r \in 0..m :
        /\ Lines(units, p, r, table)
        /\ p + r <= m /\ m <= Len(table)
        /\ turn = "records" => sent = p + r /\ count = m
        /\ turn = "none" => p + r = m
        /\ "added" \in said => \E k \in 1..m : table[k] \in names
  BY DEF Listing
<1>2. /\ Len(units) = 2 * r /\ p + r <= Len(table)
      /\ \A j \in 1..r : /\ units[2 * j - 1] = Line(1, table[p + j])
                         /\ units[2 * j] = Line(2, table[p + j])
  BY <1>1 DEF Lines
<1>3. r \in Nat /\ 1 <= r /\ 1 \in 1..r /\ r - 1 \in 0..m
  BY <1>1, <1>2
<1>4. units[1] = Line(1, table[p + 1]) /\ units[2] = Line(2, table[p + 1])
  <2>1. 2 * 1 - 1 = 1 /\ 2 * 1 = 2
    OBVIOUS
  <2>2. units[2 * 1 - 1] = Line(1, table[p + 1]) /\ units[2 * 1] = Line(2, table[p + 1])
    BY <1>2, <1>3
  <2> QED
    BY <2>1, <2>2
<1>5. Len(rest) = 2 * (r - 1) /\ \A i \in 1..(2 * (r - 1)) : rest[i] = units[i + 2]
  <2>1. 2 \in Nat /\ 2 + 1 = 3 /\ Len(units) - 2 = 2 * (r - 1)
    BY <1>2, <1>3
  <2>2. /\ Len(SubSeq(units, 2 + 1, Len(units))) = Len(units) - 2
        /\ \A i \in 1..(Len(units) - 2) : SubSeq(units, 2 + 1, Len(units))[i] = units[i + 2]
    BY <2>1, Remainder
  <2> QED
    BY <2>1, <2>2
<1> HIDE DEF rest
<1>6. Lines(rest, p + 1, r - 1, table)
  <2>1. ASSUME NEW j \in 1..(r - 1)
        PROVE  /\ rest[2 * j - 1] = Line(1, table[p + 1 + j])
               /\ rest[2 * j] = Line(2, table[p + 1 + j])
    <3>1. /\ j + 1 \in 1..r /\ p + (j + 1) = p + 1 + j
          /\ 2 * (j + 1) - 1 = 2 * j - 1 + 2 /\ 2 * (j + 1) = 2 * j + 2
          /\ 2 * j - 1 \in 1..(2 * (r - 1)) /\ 2 * j \in 1..(2 * (r - 1))
      BY <1>3
    <3>2. rest[2 * j - 1] = units[2 * j - 1 + 2] /\ rest[2 * j] = units[2 * j + 2]
      BY <1>5, <3>1
    <3>3. /\ units[2 * (j + 1) - 1] = Line(1, table[p + (j + 1)])
          /\ units[2 * (j + 1)] = Line(2, table[p + (j + 1)])
      BY <1>2, <3>1
    <3> QED
      BY <3>1, <3>2, <3>3
  <2>2. p + 1 + (r - 1) <= Len(table)
    BY <1>2, <1>3
  <2> QED
    BY <1>5, <2>1, <2>2 DEF Lines
<1>7. p + 1 + (r - 1) = p + r /\ p + 1 <= Len(table)
  BY <1>2, <1>3
<1>8. Listing(names, said, rest, p + 1, m, turn, table, count, sent)
  BY <1>1, <1>3, <1>6, <1>7 DEF Listing
<1> QED
  BY <1>4, <1>7, <1>8 DEF rest

LEMMA RecordRead ==
  ASSUME IInv, NEW c \in Client, ReadRecord(c)
  PROVE  IInv'
<1> DEFINE own == client[c]
           turn == Turn(c, serving, answer, phase)
           known == Known(c, Table, Store!Stored)
           added == Added(c, own.pieces, Table)
           names == Under(c, own.pieces)
           l == link[c]
           s == session[c]
           ts == toServer[c]
           tc == toClient[c]
           tc2 == toClient'[c]
           p == Len(own.printed)
<1>1. /\ Talks(own, l, s, ts, tc, turn)
      /\ Told(own, l, ts, tc, turn, known, added)
      /\ l = "open" /\ "short" \notin own.said =>
           Lists(c, own, tc, turn, Table, header.count, listed)
      /\ l \in Link /\ toServer \in [Client -> Seq(Request)]
      /\ toClient \in [Client -> Seq(RecordUnit \cup MessageUnit)]
      /\ Len(toClient[c]) <= WINDOW
  BY Before
<1>2. /\ own.at = "read record" /\ own.left > 0
      /\ UNCHANGED <<store, server, session, sigpipe>>
      /\ link' = link /\ toServer' = toServer
  BY DEF ReadRecord
<1>3. own \in ClientState /\ p \in Nat /\ own.left \in Nat
  BY Typed
<1>4. tc \in Seq(RecordUnit) /\ Len(tc) \in Nat
  <2>1. tc \in Seq(RecordUnit)
    BY <1>1, <1>2 DEF Talks, Incoming
  <2> QED
    BY <2>1, LenProperties
<1> DEFINE units(n) == SubSeq(tc, 1, n)
           buf(n) == [h \in 1..2 |-> IF h <= n THEN units(n)[h] ELSE own.buf[h]]
           order(n) == IF n = 2 THEN "host" ELSE Store!Swapped(own.order)
           word(n) == own.said \cup (IF n = 0 THEN {"unanswered"}
                               ELSE IF n = 1 THEN {"short"} ELSE {})
           new(n) == [own EXCEPT !.left = @ - 1, !.buf = buf(n), !.order = order(n),
                                 !.printed = Append(@, Printed(buf(n), order(n))),
                                 !.said = word(n)]
<1>5. PICK n \in 0..2 :
        /\ \/ n = 0 /\ NoReply(c)
           \/ /\ n > 0 /\ n <= Len(tc)
              /\ n = 2 \/ own.pieces
              /\ toClient' = [toClient EXCEPT ![c] = SubSeq(@, n + 1, Len(@))]
        /\ client' = [client EXCEPT
             ![c].left = @ - 1, ![c].buf = buf(n), ![c].order = order(n),
             ![c].printed = Append(@, Printed(buf(n), order(n))),
             ![c].said = @ \cup (IF n = 0 THEN {"unanswered"}
                                  ELSE IF n = 1 THEN {"short"} ELSE {})]
  BY DEF ReadRecord
<1>6. client' = [client EXCEPT ![c] = new(n)]
  <2>1. client \in [Client -> ClientState]
    BY DEF IInv, TypeOK
  <2> QED
    BY <1>5, <2>1
<1>7. /\ tc2 \in Seq(RecordUnit)
      /\ toClient' \in [Client -> Seq(RecordUnit \cup MessageUnit)]
      /\ Len(tc2) <= WINDOW
      /\ \A d \in Client \ {c} : toClient'[d] = toClient[d]
      /\ n # 0 => n <= Len(tc) /\ tc2 = SubSeq(tc, n + 1, Len(tc))
  <2> HIDE DEF buf, order
  <2>1. CASE n = 0
    <3>1. NoReply(c)
      BY <1>5, <2>1
    <3>2. toClient' = toClient
      BY <3>1 DEF NoReply
    <3> QED
      BY <1>1, <1>4, <2>1, <3>2
  <2>2. CASE n # 0
    <3> DEFINE rest == SubSeq(tc, n + 1, Len(tc))
    <3>1. n <= Len(tc) /\ toClient' = [toClient EXCEPT ![c] = rest]
      BY <1>5, <2>2
    <3>2. /\ rest \in Seq(RecordUnit) /\ Len(rest) = Len(tc) - n
          /\ rest \in Seq(RecordUnit \cup MessageUnit)
      <4>1. tc \in Seq(RecordUnit \cup MessageUnit) /\ n \in Nat
        BY <1>1
      <4> QED
        BY <1>4, <3>1, <4>1, Remainder
    <3> HIDE DEF rest
    <3>3. tc2 = rest /\ toClient' \in [Client -> Seq(RecordUnit \cup MessageUnit)]
          /\ \A d \in Client \ {c} : toClient'[d] = toClient[d]
      BY <1>1, <3>1, <3>2
    <3>4. Len(rest) <= WINDOW
      <4>1. Len(tc) - n <= WINDOW
        BY <1>1, <1>4, SystemAssumption
      <4> QED
        BY <3>2, <4>1
    <3> QED
      BY <3>1, <3>2, <3>3, <3>4 DEF rest
  <2> QED
    BY <2>1, <2>2
<1>8. \A h \in 1..n : units(n)[h] = tc[h] /\ tc[h] \in RecordUnit
  <2>1. CASE n = 0
    BY <2>1
  <2>2. CASE n # 0
    <3>1. /\ n <= Len(tc) /\ n \in Int /\ 1 \in Int
          /\ \A h \in 1..n : tc[h] \in RecordUnit
      BY <1>4, <1>7, <2>2, ElementOfSeq
    <3>2. \A h \in 1..(n - 1 + 1) : SubSeq(tc, 1, n)[h] = tc[1 + h - 1]
      BY ONLY <3>1, SubSeqProperties
    <3>3. \A h \in 1..n : h \in 1..(n - 1 + 1) /\ 1 + h - 1 = h
      OBVIOUS
    <3> HIDE DEF tc
    <3>4. \A h \in 1..n : SubSeq(tc, 1, n)[h] = tc[h]
      BY <3>2, <3>3
    <3> QED
      BY <3>1, <3>4
  <2> QED
    BY <2>1, <2>2
<1>9. /\ buf(n) \in [1..2 -> RecordUnit \cup {Unit("none")}]
      /\ \A h \in 1..n : buf(n)[h] = tc[h]
  <2>1. own.buf \in [1..2 -> RecordUnit \cup {Unit("none")}]
    BY <1>3 DEF ClientState
  <2> HIDE DEF units
  <2>2. \A h \in 1..2 : h <= n => h \in 1..n
    OBVIOUS
  <2> QED
    BY <1>8, <2>1, <2>2
<1> DEFINE name == Printed(buf(n), order(n))
<1>10. name \in Name
  BY <1>9, Prints
<1>11. /\ new(n) \in ClientState /\ new(n).at = "read record" /\ new(n).list = own.list
       /\ new(n).add = own.add /\ new(n).pieces = own.pieces /\ new(n).left = own.left - 1
       /\ new(n).said = word(n) /\ new(n).printed = Append(own.printed, name)
  <2>1. order(n) \in Store!Order
    BY <1>3 DEF ClientState, Store!Order, Store!Swapped
  <2>2. Append(own.printed, name) \in Seq(Name) /\ own.left - 1 \in 0..(COUNT_MOD - 1)
    <3>1. own.printed \in Seq(Name) /\ own.left \in 0..(COUNT_MOD - 1)
      BY <1>3 DEF ClientState
    <3>2. Append(own.printed, name) \in Seq(Name)
      BY <1>10, <3>1, AppendProperties
    <3>3. own.left - 1 \in 0..(COUNT_MOD - 1)
      <4>1. own.left > 0
        BY <1>2
      <4> QED
        BY <1>3, <3>1, <4>1, StoreAssumption
    <3> QED
      BY <3>2, <3>3
  <2>3. word(n) \in SUBSET {"added", "refused", "unanswered", "short", "killed"}
    BY <1>3 DEF ClientState
  <2> HIDE DEF buf, order, word, name
  <2> QED
    BY <1>2, <1>3, <1>9, <2>1, <2>2, <2>3 DEF ClientState, name
<1>12. /\ \A w \in {"added", "refused"} : w \in word(n) <=> w \in own.said
       /\ "short" \notin word(n) => n # 1 /\ "short" \notin own.said
  OBVIOUS
<1>13. PICK all : all = new(n)
  OBVIOUS
<1>14. /\ client' = [client EXCEPT ![c] = all] /\ all \in ClientState
       /\ all.at = "read record" /\ all.add = own.add /\ all.pieces = own.pieces
       /\ all.left = own.left - 1 /\ all.printed = Append(own.printed, name)
       /\ \A w \in {"added", "refused"} : w \in all.said <=> w \in own.said
       /\ "short" \notin all.said => n # 1 /\ "short" \notin own.said
  <2> HIDE DEF new, name, word
  <2> QED
    BY <1>6, <1>11, <1>12, <1>13
<1>15. Talks(all, l, s, ts, tc2, turn)
  <2>1. CASE l = "open"
    BY <1>1, <1>2, <1>7, <1>14, <2>1 DEF Talks, Incoming, Opened
  <2>2. CASE l # "open"
    BY <1>1, <1>2, <1>7, <1>14, <2>2 DEF Talks, Incoming, Unopened
  <2> QED
    BY <2>1, <2>2
<1>16. Told(all, l, ts, tc2, turn, known, added)
  <2>1. /\ "refused" \in own.said => ~ known /\ ts # <<"add", "rest">>
        /\ l = "open" /\ "added" \in own.said => added
        /\ ts = <<"add", "rest">> => own.add # None
        /\ known => ts # <<"add", "rest">>
    BY <1>1 DEF Told
  <2> QED
    BY <1>14, <2>1 DEF Told, BeforeAdd
<1>17. ASSUME l = "open", "short" \notin all.said
       PROVE  Lists(c, all, tc2, turn, Table, header.count, listed)
  <2> DEFINE m == p + own.left
  <2>1. /\ Listing(names, own.said, tc, p, m, turn, Table, header.count, listed)
        /\ p <= Len(Table) /\ \A k \in 1..p : own.printed[k] = Table[k]
    BY <1>1, <1>2, <1>14, <1>17 DEF Lists
  <2>2. n = 2 /\ 2 <= Len(tc) /\ tc2 = SubSeq(tc, 3, Len(tc))
    <3> HIDE DEF buf, order
    <3>1. ~ NoReply(c)
      BY <1>17 DEF NoReply
    <3>2. n # 0 /\ n # 1
      <4>1. n # 0
        BY <1>5, <3>1
      <4>2. "short" \notin all.said => n # 1
        BY <1>14
      <4> QED
        BY <1>17, <4>1, <4>2
    <3>3. n = 2
      BY <3>2
    <3> QED
      BY <1>7, <3>3
  <2>3. Len(Table) \in Nat /\ m \in Nat /\ p + 1 + (own.left - 1) = m
    <3>1. Len(Table) \in Nat
      BY TheTable DEF IInv
    <3>2. \A i, j \in Nat : i + j \in Nat /\ i + 1 + (j - 1) = i + j
      OBVIOUS
    <3> QED
      BY <1>3, <3>1, <3>2
  <2>4. /\ Listing(names, own.said, tc2, p + 1, m, turn, Table, header.count, listed)
        /\ p + 1 <= Len(Table)
        /\ tc[1] = Line(1, Table[p + 1]) /\ tc[2] = Line(2, Table[p + 1])
    <3>1. p \in Nat /\ tc \in Seq(RecordUnit) /\ 2 <= Len(tc) /\ Len(tc) \in Nat
      BY <1>3, <1>4, <2>2
    <3> HIDE DEF tc, tc2, m, p, turn, names
    <3>2. /\ Listing(names, own.said, SubSeq(tc, 3, Len(tc)), p + 1, m, turn, Table,
                     header.count, listed)
          /\ p + 1 <= Len(Table)
          /\ tc[1] = Line(1, Table[p + 1]) /\ tc[2] = Line(2, Table[p + 1])
      BY ONLY <2>1, <2>3, <3>1, ListingShrinks
    <3> QED
      BY <2>2, <3>2
  <2>5. name = Table[p + 1]
    <3>1. buf(n)[1] = tc[1] /\ buf(n)[2] = tc[2]
      BY <1>9, <2>2
    <3>2. order(n) = "host"
      BY <2>2
    <3> HIDE DEF buf, order
    <3> QED
      BY <1>9, <2>4, <3>1, <3>2, Prints
  <2>6. /\ Len(all.printed) = p + 1
        /\ \A k \in 1..(p + 1) : all.printed[k] = Table[k]
    <3> HIDE DEF name
    <3>1. own.printed \in Seq(Name)
      BY <1>3 DEF ClientState
    <3>2. /\ Len(Append(own.printed, name)) = p + 1
          /\ \A k \in 1..p : Append(own.printed, name)[k] = own.printed[k]
          /\ Append(own.printed, name)[p + 1] = name
      BY <1>10, <3>1, AppendProperties
    <3>3. \A k \in 1..(p + 1) : k \in 1..p \/ k = p + 1
      BY <1>3
    <3> QED
      BY <1>14, <2>1, <2>5, <3>2, <3>3
  <2>7. Listing(names, all.said, tc2, p + 1, p + 1 + all.left, turn, Table, header.count, listed)
    <3>1. p + 1 + all.left = m
      BY <1>14, <2>3
    <3>2. "added" \in all.said <=> "added" \in own.said
      BY <1>14
    <3> HIDE DEF m, tc2, p, turn
    <3> QED
      BY <2>4, <3>1, <3>2 DEF Listing
  <2> QED
    BY <1>14, <2>4, <2>6, <2>7 DEF Lists
<1> HIDE DEF new, name, word, buf, order
<1> QED
  BY <1>1, <1>2, <1>7, <1>14, <1>15, <1>16, <1>17, ReadsOn

-----------------------------------------------------------------------------
(* The theorems.                                                           *)

LEMMA AtFirst == Init => IInv
<1> SUFFICES ASSUME Init
             PROVE  IInv
  OBVIOUS
<1>1. Store!IInv /\ Store!Whole
  BY StoreAtFirst DEF Init
<1>2. phase = "down"
  BY DEF Init, Store!Init
<1>3. Table \in Seq(Name) /\ Table = <<>> /\ DOMAIN Table = 1..0
  <2>1. /\ Table = <<>> /\ DOMAIN Table = 1..Len(Table)
    BY <1>1, <1>2, TheTable
  <2>2. Len(<<>>) = 0
    OBVIOUS
  <2> QED
    BY <2>1, <2>2, <1>1, TheTable
<1>4. ~ (Store!Stored \notin {Absent, Torn})
  BY DEF Init, Store!Init, Store!Stored
<1>5. TypeOK
  <2>1. Store!TypeOK
    BY <1>1 DEF Store!IInv
  <2>2. /\ serving \in Client \cup {None} /\ answer \in Answer /\ listed \in 0..(COUNT_MOD - 1)
        /\ session \in [Client -> Session] /\ link \in [Client -> Link]
        /\ sigpipe \in Client \cup {None}
    BY StoreAssumption DEF Init, Answer, Session, Link
  <2>3. IsFiniteSet(Served) /\ Cardinality(Served) <= MAX_CLIENTS
    <3>1. Served = {}
      BY DEF Init, Served
    <3> QED
      BY <3>1, FS_EmptySet, SystemAssumption
  <2>4. /\ toServer \in [Client -> Seq({"hello", "add", "rest", "list"})]
        /\ toClient \in [Client -> Seq(RecordUnit \cup MessageUnit)]
        /\ \A c \in Client : Len(toClient[c]) <= WINDOW
    BY Empty DEF Init
  <2>5. /\ client \in [Client -> ClientState]
        /\ \A c \in Client : client[c].add \in {c, Malformed, None}
    <3> DEFINE first == [at |-> "connect", add |-> None, list |-> FALSE,
                         pieces |-> FALSE, left |-> 0, buf |-> EmptyBuffer, order |-> "host",
                         printed |-> <<>>, said |-> {}]
    <3>1. /\ EmptyBuffer \in [1..2 -> RecordUnit \cup {Unit("none")}] /\ "host" \in Store!Order
          /\ 0 \in 0..(COUNT_MOD - 1)
      BY StoreAssumption DEF EmptyBuffer, Store!Order
    <3>2. first \in ClientState /\ first.add = None
      BY <3>1, Empty DEF ClientState, At
    <3>3. client = [c \in Client |-> first]
      BY DEF Init
    <3> HIDE DEF first
    <3> QED
      BY <3>2, <3>3
  <2> QED
    BY <2>1, <2>2, <2>3, <2>4, <2>5 DEF TypeOK
<1>6. ServerInOrder /\ SigpipeEarned
  <2>1. Served = {}
    BY DEF Init, Served
  <2> QED
    BY <1>2, <2>1 DEF Init, ServerInOrder, SigpipeEarned
<1>7. NamedOnce
  BY <1>3, <1>4 DEF NamedOnce, Once
<1>8. ASSUME NEW c \in Client
      PROVE  Good(c)
  <2> DEFINE own == client[c]
             turn == Turn(c, serving, answer, phase)
  <2>1. /\ own.at = "connect" /\ own.said = {} /\ own.printed = <<>> /\ link[c] = "off"
        /\ session[c] = "none" /\ toServer[c] = <<>> /\ toClient[c] = <<>>
    BY DEF Init
  <2>2. turn = "none"
    <3>1. serving # c
      BY NameAssumption DEF Init
    <3> QED
      BY <3>1 DEF Turn
  <2>3. ~ Known(c, Table, Store!Stored)
    BY <1>3, <1>4 DEF Known, Among
  <2> HIDE DEF turn, own
  <2>4. Talks(own, link[c], session[c], toServer[c], toClient[c], turn)
    BY <2>1, <2>2 DEF Talks, Incoming, Unopened
  <2>5. Told(own, link[c], toServer[c], toClient[c], turn, Known(c, Table, Store!Stored),
             Added(c, own.pieces, Table))
    BY <2>1, <2>2, <2>3, Distinct DEF Told, BeforeAdd, Rest
  <2>6. Mismatched(session[c], turn, Known(c, Table, Store!Stored))
    BY <2>1, <2>2, <2>3 DEF Mismatched
  <2>7. link[c] # "open"
    BY <2>1
  <2> QED
    BY <2>4, <2>5, <2>6, <2>7 DEF Good, Fits, own, turn
<1> QED
  BY <1>1, <1>5, <1>6, <1>7, <1>8 DEF IInv

LEMMA Stutters ==
  ASSUME IInv, UNCHANGED vars
  PROVE  IInv'
<1>1. /\ phase' = phase /\ header' = header /\ Table' = Table /\ Store!Stored' = Store!Stored
      /\ [Store!Next]_(Store!vars)
      /\ serving' = serving /\ answer' = answer /\ listed' = listed
      /\ session' = session /\ link' = link /\ toServer' = toServer /\ toClient' = toClient
      /\ client' = client /\ sigpipe' = sigpipe
  BY Still DEF vars, server, net
<1>2. Store!IInv' /\ Store!Whole'
  BY <1>1, StoreKept DEF IInv
<1>3. Served' = Served
  BY <1>1 DEF Served
<1>4. TypeOK'
  <2>1. Store!TypeOK'
    BY <1>2 DEF Store!IInv
  <2> QED
    BY <1>1, <1>3, <2>1 DEF TypeOK, IInv
<1>5. ServerInOrder' /\ SigpipeEarned' /\ NamedOnce'
  BY <1>1, <1>3 DEF IInv, ServerInOrder, SigpipeEarned, Gone, NamedOnce, Once
<1>6. ASSUME NEW d \in Client
      PROVE  Good(d)'
  BY <1>1, <1>2, Bystander
<1> QED
  BY <1>2, <1>4, <1>5, <1>6 DEF IInv

LEMMA Keeps == IInv /\ [Next]_vars => IInv'
<1> SUFFICES ASSUME IInv, [Next]_vars
             PROVE  IInv'
  OBVIOUS
<1>1. CASE StartServer \/ Crash \/ Sigpipe
  BY <1>1, Started, Crashed, KilledBySigpipe
<1>2. ASSUME NEW c \in Client, Accept(c) \/ Refuse(c) \/ Close(c)
      PROVE  IInv'
  BY <1>2, Accepted, Refused, Closed
<1>3. ASSUME NEW c \in Client,
             \/ ReadHello(c) \/ ReadHelloWrong(c)
             \/ ReadAdd(c) \/ ReadAddRejected(c) \/ ReadList(c) \/ ReadOther(c)
      PROVE  IInv'
  BY <1>3, HelloRead, HelloReadWrong, AddTaken, AddRefused, ListRead, OtherRead
<1>4. CASE ReplyHello \/ ReplyHelloError \/ ReplyAdd \/ ReplyAddError
  BY <1>4, HelloReplied, HelloErrorReplied, AddReplied, AddErrorReplied
<1>5. CASE ReplyListHeader \/ ReplyRecord \/ ReplyListEnd
  BY <1>5, ListHeaderReplied, RecordReplied, ListEndReplied
<1>6. CASE Save \/ SaveEnd
  BY <1>6, Saves, SaveEnds
<1>7. ASSUME NEW c \in Client,
             Connect(c) \/ ConnectFails(c) \/ SendHello(c) \/ SendAdd(c) \/ SendList(c)
      PROVE  IInv'
  BY <1>7, Connected, NotConnected, HelloSent, AddSent, ListSent
<1>8. ASSUME NEW c \in Client,
             \/ ReadHelloReply(c) \/ ReadAddReply(c) \/ ReadListReply(c)
             \/ ReadRecord(c) \/ ReadRecordsEnd(c)
      PROVE  IInv'
  BY <1>8, HelloAnswered, AddAnswered, ListAnswered, RecordRead, RecordsEnded
<1>9. ASSUME NEW c \in Client, Ends(c) \/ Kill(c)
      PROVE  IInv'
  BY <1>9, Ended, Killed
<1>10. CASE UNCHANGED vars
  BY <1>10, Stutters
<1>11. ServerStep => IInv'
  BY <1>2, <1>3, <1>4, <1>5, <1>6 DEF ServerStep
<1>12. \A c \in Client : ClientStep(c) => IInv'
  BY <1>7, <1>8, <1>9 DEF ClientStep
<1> QED
  BY <1>1, <1>9, <1>10, <1>11, <1>12 DEF Next

\* What the two sides of every connection know of each other, and the server's
\* table, file and turn, never fall apart (server_poll.c:45-160, client/main.c:20-107),
\* for any number of clients, whatever is split, killed or crashed.
THEOREM Inductive == Spec => []IInv
<1> QED
  BY AtFirst, Keeps, PTL DEF Spec

\* Every variable has its type, in particular the protocol states, the list of
\* connections, at most MAX_CLIENTS long (server_poll.c:250-263), and the count.
THEOREM TypeCorrect == Spec => []TypeOK
<1>1. IInv => TypeOK
  BY DEF IInv
<1> QED
  BY <1>1, Inductive, PTL

\* An employee is added at most once (parse.c:107-139), by how many connections,
\* pieces, crashes and restarts it may be.
THEOREM NobodyTwice == Spec => []AddedOnce
<1>1. IInv => AddedOnce
  BY DEF IInv, NamedOnce, Once, AddedOnce
<1> QED
  BY <1>1, Inductive, PTL

\* The server lets a client with another PROTO_VERSION no further than
\* STATE_HELLO (server_poll.c:110-121), and its employee is never in the table.
THEOREM OldKeptOut == Spec => []OldAddNothing
<1>1. ASSUME IInv, NEW c \in Old
      PROVE  session[c] # "MSG" /\ ~ InTable(c)
  <2>1. c \in Client
    BY NameAssumption
  <2>2. Mismatched(session[c], Turn(c, serving, answer, phase), Known(c, Table, Store!Stored))
    BY <1>1, <2>1 DEF IInv, Good, Fits
  <2> QED
    BY <2>2 DEF Mismatched, Known, Among, InTable
<1>2. IInv => OldAddNothing
  BY <1>1 DEF OldAddNothing
<1> QED
  BY <1>2, Inductive, PTL

\* What a client reports of its add is what the server did (client/main.c:67-72,
\* parse.c:107-139), whatever other connections and the save do meanwhile.
THEOREM ReportsAreTrue == Spec => []ReportIsTrue
<1>1. ASSUME IInv, NEW c \in Client
      PROVE  /\ "added" \in client[c].said /\ link[c] = "open" => \E e \in {c, Cut} : InTable(e)
             /\ "refused" \in client[c].said => ~ InTable(c)
  <2>1. Told(client[c], link[c], toServer[c], toClient[c], Turn(c, serving, answer, phase),
             Known(c, Table, Store!Stored), Added(c, client[c].pieces, Table))
    BY <1>1 DEF IInv, Good, Fits
  <2> QED
    BY <2>1 DEF Told, Known, Added, Among, InTable
<1>2. IInv => ReportIsTrue
  BY <1>1 DEF ReportIsTrue
<1> QED
  BY <1>2, Inductive, PTL

\* Only the connection of a killed client, or of one that took a piece of a record
\* for a record, kills the server by SIGPIPE (server_poll.c:45-98).
THEOREM KilledByAKillOnly == Spec => []OnlyAKillKills
<1>1. IInv => OnlyAKillKills
  BY DEF IInv, SigpipeEarned, OnlyAKillKills
<1> QED
  BY <1>1, Inductive, PTL

\* What a client prints of a list is the table as it was at one moment
\* (server_poll.c:94-99, client/main.c:79-107), with its own employee in it, as long as
\* no record was taken in pieces.
THEOREM ListsAreSnapshots == Spec => []ListIsSnapshot
<1>1. ASSUME IInv, NEW c \in Client, link[c] = "open", ~ Gone(c), "short" \notin client[c].said
      PROVE  /\ client[c].printed = SubSeq(Table, 1, Len(client[c].printed))
             /\ client[c].at = "close" /\ client[c].list /\ "added" \in client[c].said =>
                  \E k \in DOMAIN client[c].printed :
                    client[c].printed[k] \in Under(c, client[c].pieces)
  <2> DEFINE own == client[c]
             s == own.printed
             p == Len(s)
             t == SubSeq(Table, 1, p)
             turn == Turn(c, serving, answer, phase)
  <2>1. /\ Talks(own, "open", session[c], toServer[c], toClient[c], turn)
        /\ Lists(c, own, toClient[c], turn, Table, header.count, listed)
        /\ own \in ClientState
    BY <1>1, Before, Typed
  <2>2. s \in Seq(Name) /\ p \in Nat /\ DOMAIN s = 1..p
    BY <2>1, LenProperties DEF ClientState
  <2>3. Table \in Seq(Name) /\ Len(Table) \in Nat
    BY <1>1, TheTable DEF IInv
  <2>4. p <= Len(Table) /\ \A k \in 1..p : s[k] = Table[k]
    <3>1. CASE own.at \in {"read record", "close"}
      BY <2>1, <3>1 DEF Lists
    <3>2. CASE own.at \notin {"read record", "close"}
      <4>1. s = <<>>
        BY <1>1, <2>1, <3>2 DEF Talks, Gone
      <4>2. p = 0
        BY <4>1
      <4> HIDE DEF p, s
      <4> QED
        BY <2>3, <4>2
    <3> QED
      BY <3>1, <3>2
  <2>5. s = t
    <3> HIDE DEF s, p
    <3>1. 1 \in Int /\ p \in Int /\ \A k \in 1..p : Table[k] \in Name
      BY <2>2, <2>3, <2>4, ElementOfSeq
    <3>2. /\ t \in Seq(Name) /\ Len(t) = IF 1 <= p THEN p - 1 + 1 ELSE 0
          /\ \A k \in 1..(p - 1 + 1) : t[k] = Table[1 + k - 1]
      BY ONLY <3>1, SubSeqProperties
    <3> HIDE DEF t
    <3>3. \A k \in 1..p : k \in 1..(p - 1 + 1) /\ 1 + k - 1 = k
      BY <2>2
    <3>4. Len(t) = p /\ \A k \in 1..p : t[k] = Table[k]
      BY <2>2, <3>2, <3>3
    <3>5. Len(s) = p
      BY DEF p
    <3> QED
      BY <2>2, <2>4, <3>2, <3>4, <3>5, SeqEqual
  <2>6. own.at = "close" /\ own.list /\ "added" \in own.said =>
          \E k \in 1..p : s[k] \in Under(c, own.pieces)
    BY <2>1 DEF Lists
  <2> QED
    BY <2>2, <2>5, <2>6
<1>2. IInv => ListIsSnapshot
  BY <1>1 DEF ListIsSnapshot
<1> QED
  BY <1>2, Inductive, PTL

\* What is reported added is in the file before the server turns to the next
\* message (server_poll.c:140-141, parse.c:141-180).
THEOREM SavedWheneverIdle == Spec => []SavedWhenIdle
<1>1. ASSUME IInv
      PROVE  SavedWhenIdle
  <2>1. Proofs!IInv /\ Proofs!Whole
    BY <1>1, SameInvariant DEF IInv
  <2>2. Proofs!SavedWhenIdle
    BY <2>1, StoreAssumptions, Proofs!SavedWhenWhole
  <2>3. Store!SavedWhenIdle
    BY <2>2, SameContents DEF Store!SavedWhenIdle, Proofs!SavedWhenIdle
  <2> QED
    BY <2>3 DEF SavedWhenIdle
<1> QED
  BY <1>1, Inductive, PTL

LEMMA StoreActs ==
  IInv /\ [Next]_vars => [Store!Next]_(Store!vars)
<1> SUFFICES ASSUME IInv, [Next]_vars
             PROVE  [Store!Next]_(Store!vars)
  OBVIOUS
<1>1. UNCHANGED store => [Store!Next]_(Store!vars)
  BY Still
<1>2. CASE StartServer
  BY <1>2 DEF StartServer, Store!Next
<1>3. CASE Crash \/ Sigpipe
  BY <1>3 DEF Crash, Sigpipe, Dies, Store!Next
<1>4. ASSUME NEW c \in Client, Accept(c) \/ Refuse(c) \/ Close(c)
      PROVE  UNCHANGED store
  BY <1>4 DEF Accept, Refuse, Close
<1>5. ASSUME NEW c \in Client,
             ReadHello(c) \/ ReadHelloWrong(c) \/ ReadList(c) \/ ReadOther(c)
      PROVE  UNCHANGED store
  BY <1>5 DEF ReadHello, ReadHelloWrong, ReadList, ReadOther, Answers
<1>6. ASSUME NEW c \in Client, ReadAdd(c)
      PROVE  Store!Next
  <2>1. PICK n \in Chunk(c) : /\ Received(c, "MSG", {"add"}, n)
                              /\ \E e \in Named(c, n) : Store!AddEmployee(e)
    BY <1>6 DEF ReadAdd, AddTypes
  <2>2. PICK e \in Named(c, n) : Store!AddEmployee(e)
    BY <2>1
  <2>3. /\ link[c] = "open" /\ session[c] = "MSG" /\ toServer[c] = <<"add", "rest">> /\ Free
    BY <2>1, Reading
  <2>4. Told(client[c], "open", <<"add", "rest">>, toClient[c], "none",
             Known(c, Table, Store!Stored), Added(c, client[c].pieces, Table))
    BY <2>3, Waiting
  <2>5. client[c].add = c
    <3>1. client[c].add # None /\ client[c].add # Malformed
      BY <1>6, <2>4 DEF Told, ReadAdd
    <3> QED
      BY <3>1, Typed
  <2>6. e \in Client \cup {Cut}
    BY <2>5 DEF Named
  <2> QED
    BY <2>2, <2>6 DEF Store!Next
<1>7. ASSUME NEW c \in Client, ReadAddRejected(c)
      PROVE  Store!Next
  BY <1>7 DEF ReadAddRejected, Store!Next
<1>8. CASE ReplyHello \/ ReplyHelloError \/ ReplyListHeader \/ ReplyRecord \/ ReplyListEnd
  BY <1>1, <1>8 DEF ReplyHello, ReplyHelloError, ReplyListHeader, ReplyRecord, ReplyListEnd
<1>9. CASE ReplyAdd \/ ReplyAddError \/ Save \/ SaveEnd
  BY <1>9 DEF ReplyAdd, ReplyAddError, Save, SaveEnd, Store!Next
<1>10. ASSUME NEW c \in Client, ClientStep(c) \/ Kill(c)
       PROVE  UNCHANGED store
  BY <1>10 DEF ClientStep, Kill, Connect, ConnectFails, SendHello, ReadHelloReply, SendAdd,
               ReadAddReply, SendList, ReadListReply, ReadRecord, ReadRecordsEnd, Ends
<1>11. CASE UNCHANGED vars
  BY <1>1, <1>11 DEF vars
<1>12. ServerStep => [Store!Next]_(Store!vars)
  BY <1>1, <1>4, <1>5, <1>6, <1>7, <1>8, <1>9 DEF ServerStep
<1> QED
  BY <1>1, <1>2, <1>3, <1>10, <1>11, <1>12 DEF Next

\* The server does nothing to its table and file but what EmployeeStore says
\* (server_poll.c:94-160 calls only add_employee and output_file), so that what is
\* proved of the store alone holds of it.
THEOREM RunsTheStore == Spec => Store!Spec
<1>1. Init => Store!Init
  BY DEF Init
<1> QED
  BY <1>1, StoreActs, Inductive, PTL DEF Spec, Store!Spec
=============================================================================
