------------------------- MODULE DbSystemInvariant -------------------------
(***************************************************************************)
(* What every step of DbSystem preserves, and from which its safety        *)
(* properties follow: for each connection, where in an exchange of main.c  *)
(* (client) and handle_client_fsm (server_poll.c) its two sides are, and   *)
(* what the client's words and lines have to do with the server's table.   *)
(***************************************************************************)
EXTENDS DbSystem

-----------------------------------------------------------------------------
(* The server.                                                             *)

\* What the server is about to do for c, when it serves who, is to answer what, and
\* the store is at where.
Turn(c, who, what, where) ==
  IF who # c THEN "none"
  ELSE IF what # "none" THEN what
  ELSE IF where \in {"header", "records"} THEN "save"
  ELSE where

ServerInOrder ==
  /\ serving = None => answer = "none" /\ phase \in {"down", "idle"}
  /\ serving # None =>
       /\ link[serving] = "open"
       /\ IF answer = "none" THEN phase \notin {"down", "idle"} ELSE phase = "idle"
  /\ phase = "down" => Served = {}
  /\ answer = "records" => listed <= header.count

-----------------------------------------------------------------------------
(* One connection.                                                         *)

\* What may be on its way to a client, by the call the client makes next.
Incoming(at, tc) ==
  /\ at = "read hello" => tc \in {<<>>, <<Unit("hello resp")>>, <<Unit("error")>>}
  /\ at = "read add" => tc \in {<<>>, <<Unit("add resp")>>, <<Unit("error")>>}
  /\ at = "read list" /\ tc # <<>> =>
       /\ \E m \in 0..(COUNT_MOD - 1) : Head(tc) = ListHeader(m)
       /\ Tail(tc) \in Seq(RecordUnit)
  /\ at \in {"read record", "close"} => tc \in Seq(RecordUnit)
  /\ at \in {"connect", "send hello", "send add", "send list", "done"} => tc = <<>>

\* What is left of an add request that was read, and every beginning of a stream.
Rest == {<<>>, <<"rest">>}
Requests == Rest \cup {<<"hello">>, <<"add", "rest">>, <<"list">>, <<"rest", "list">>}

\* A connection that is not open: nobody has read from it yet, or nobody will.
Unopened(own, l, s, ts, tc, turn) ==
  /\ s = "none" /\ turn = "none"
  /\ own.at = "connect" => l = "off"
  /\ l = "off" => own.at \in {"connect", "done"}
  /\ l \in {"off", "shut"} => ts = <<>>
  /\ l = "queued" =>
       /\ tc = <<>>
       /\ \/ own.at = "send hello" /\ ts = <<>>
          \/ own.at = "read hello" /\ ts = <<"hello">>
          \/ /\ own.at = "done" /\ ts \in {<<>>, <<"hello">>}
             /\ "killed" \in own.said /\ "added" \notin own.said

\* An open one: one request, or one answer, is under way at a time.
Opened(own, s, ts, tc, turn) ==
  /\ own.at # "connect" /\ s \in {"HELLO", "MSG"}
  /\ own.at = "send hello" => s = "HELLO" /\ ts = <<>> /\ turn = "none"
  /\ own.at = "read hello" =>
       \/ s = "HELLO" /\ ts = <<"hello">> /\ tc = <<>> /\ turn = "none"
       \/ s = "HELLO" /\ ts = <<>> /\ tc = <<>> /\ turn \in {"hello", "hello error"}
       \/ s = "MSG" /\ ts = <<>> /\ tc = <<Unit("hello resp")>> /\ turn = "none"
       \/ s = "HELLO" /\ ts = <<>> /\ tc = <<Unit("error")>> /\ turn = "none"
  /\ own.at = "send add" => s = "MSG" /\ ts = <<>> /\ turn = "none"
  /\ own.at = "read add" =>
       /\ s = "MSG"
       /\ \/ ts = <<"add", "rest">> /\ tc = <<>> /\ turn = "none"
          \/ ts \in Rest /\ tc = <<>> /\ turn \in {"reply", "reply error"}
          \/ ts \in Rest /\ tc = <<Unit("add resp")>> /\ turn \in {"none", "save"}
          \/ ts \in Rest /\ tc = <<Unit("error")>> /\ turn = "none"
  /\ own.at = "send list" => s = "MSG" /\ ts \in Rest /\ turn \in {"none", "save"}
  /\ own.at = "read list" =>
       /\ s = "MSG"
       /\ \/ ts \in {<<"list">>, <<"rest", "list">>} /\ tc = <<>> /\ turn \in {"none", "save"}
          \/ ts = <<>> /\ tc = <<>> /\ turn \in {"none", "list"}
          \/ ts = <<>> /\ tc # <<>> /\ turn \in {"none", "records"}
  /\ own.at = "read record" => s = "MSG" /\ ts = <<>> /\ turn \in {"none", "records"}
  /\ own.at = "close" => ts \in Rest /\ turn \in {"none", "save", "records"}
  /\ own.at = "done" =>
       /\ ts \in Requests
       /\ "killed" \in own.said \/ (ts \in Rest /\ turn \in {"none", "save", "records"})

Talks(own, l, s, ts, tc, turn) ==
  /\ Incoming(own.at, tc)
  /\ own.at \notin {"read record", "close", "done"} => own.printed = <<>>
  /\ IF l = "open" THEN Opened(own, s, ts, tc, turn) ELSE Unopened(own, l, s, ts, tc, turn)

-----------------------------------------------------------------------------
(* What a client was told, and what is in the table and in the file.       *)

Among(e, table) == \E k \in DOMAIN table : table[k] = e

Known(e, table, stored) ==
  Among(e, table) \/ (stored \notin {Absent, Torn} /\ Among(e, stored))

\* What was read in pieces may be there under the name that its beginning makes.
Added(c, pieces, table) == Among(c, table) \/ (pieces /\ Among(Cut, table))

BeforeAdd == {"connect", "send hello", "read hello", "send add"}

\* Whose words they are: c, its connection, and whether the store knows it.
Told(own, l, ts, tc, turn, known, added) ==
  /\ own.at \in BeforeAdd \cup {"read add"} => own.said \cap {"added", "refused"} = {}
  /\ own.at \in {"send add", "read add"} \/ ts = <<"add", "rest">> => own.add # None
  /\ known => own.at \notin BeforeAdd /\ ts # <<"add", "rest">>
  /\ \/ "refused" \in own.said
     \/ own.at = "read add" /\ (tc = <<Unit("error")>> \/ turn = "reply error")
     => ~ known /\ ts # <<"add", "rest">>
  /\ l = "open" =>
       (\/ "added" \in own.said
        \/ own.at = "read add" /\ (tc = <<Unit("add resp")>> \/ turn = "reply")
        => added)

\* A table names nobody twice, but for those whom the beginning of a request names.
Once(t) == \A j, k \in DOMAIN t : t[j] = t[k] /\ t[j] # Cut => j = k

NamedOnce ==
  /\ Once(Table)
  /\ Store!Stored \notin {Absent, Torn} => Once(Store!Stored)

\* A client of another version.
Mismatched(s, turn, known) == s # "MSG" /\ turn # "hello" /\ ~ known

-----------------------------------------------------------------------------
(* A list, where no record was taken in pieces.                            *)

Line(h, who) == [type |-> "record", n |-> h, who |-> who]

\* r records are on their way, the first of which is the one after p.
Lines(units, p, r, table) ==
  /\ Len(units) = 2 * r
  /\ p + r <= Len(table)
  /\ \A j \in 1..r : /\ units[2 * j - 1] = Line(1, table[p + j])
                     /\ units[2 * j] = Line(2, table[p + j])

\* m records were announced, p of them printed, and units are on their way.
Listing(names, said, units, p, m, turn, table, count, sent) ==
  \E r \in 0..m :
    /\ Lines(units, p, r, table)
    /\ p + r <= m /\ m <= Len(table)
    /\ turn = "records" => sent = p + r /\ count = m
    /\ turn = "none" => p + r = m
    /\ "added" \in said => \E k \in 1..m : table[k] \in names

Lists(c, own, tc, turn, table, count, sent) ==
  LET p == Len(own.printed)
      names == Under(c, own.pieces) IN
  /\ own.at = "read list" /\ tc # <<>> =>
       Listing(names, own.said, Tail(tc), 0, Head(tc).n, turn, table, count, sent)
  /\ own.at \in {"read record", "close"} =>
       p <= Len(table) /\ \A k \in 1..p : own.printed[k] = table[k]
  /\ own.at = "read record" =>
       Listing(names, own.said, tc, p, p + own.left, turn, table, count, sent)
  /\ own.at = "close" =>
       /\ tc = <<>>
       /\ own.list /\ "added" \in own.said => \E k \in 1..p : own.printed[k] \in names
  /\ own.at = "close" \/ (own.at = "done" /\ "killed" \notin own.said) =>
       (turn = "records" => sent = count)

-----------------------------------------------------------------------------
\* What holds of c, its connection, and the server's side of that.
Fits(c, own, l, s, ts, tc, turn, table, stored, count, sent) ==
  /\ Talks(own, l, s, ts, tc, turn)
  /\ Told(own, l, ts, tc, turn, Known(c, table, stored), Added(c, own.pieces, table))
  /\ c \in Old => Mismatched(s, turn, Known(c, table, stored))
  /\ l = "open" /\ "short" \notin own.said => Lists(c, own, tc, turn, table, count, sent)

Good(c) ==
  Fits(c, client[c], link[c], session[c], toServer[c], toClient[c],
       Turn(c, serving, answer, phase), Table, Store!Stored, header.count, listed)

SigpipeEarned ==
  sigpipe # None =>
    /\ Gone(sigpipe)
    /\ client[sigpipe].said \cap {"killed", "short"} # {}

\* Inductive: it is what DbSystemProofs proves.
IInv ==
  /\ TypeOK /\ Store!IInv /\ Store!Whole
  /\ ServerInOrder /\ NamedOnce
  /\ \A c \in Client : Good(c)
  /\ SigpipeEarned
=============================================================================
