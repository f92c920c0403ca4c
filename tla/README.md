# lowlevel-academy in TLA+

The repository is a set of C lessons; a few of them are complete programs with
state, concurrency or persistence worth specifying. This directory models those,
checks the models with TLC and proves the main results about each of them with
TLAPS. `05_course_project` without a prefix is
`02-networking-code/05_course_project`; bare file names are those of its
`src/server`, and `client/main.c` is `src/client/main.c`.

## 1. Inventory

### The employee database server

One process, one thread; three parts that call each other.

**Poll loop and client slots** (`main.c:poll_loop`, `server_poll.c`).
*State*: `client_states[256]` (descriptor, protocol state, buffer per slot),
`fds[257]` for `poll`, `nfds`; on the kernel's side the listen queue, the open
descriptors, unread bytes and hangups. *Operations*: rebuild the array from the
slots in use, `poll`, accept into the first free slot or refuse, scan the
entries, read, close. *Hard*: peers act between any two system calls; `fds` is
never cleared, so entries of earlier rounds stay behind the live ones with their
old `revents`; `nfds` changes during a scan, up after an accept and down after a
close; slots and descriptors are reused in different orders; refused and failing `accept` calls share a round with ready clients.
*Correct when*: the scan acts only on what this round's `poll` reported, a read
never blocks, descriptors and slots correspond one to one, no peer can starve another.

**Protocol state machine** (`server_poll.c:handle_client_fsm`). Called by the
loop with whatever a `read` returned, which it takes for one message. *State*:
`STATE_HELLO` or `STATE_MSG` per slot. *Operations*: a hello with the right
version is answered and leads to `STATE_MSG`, any other first message is answered
by `MSG_ERROR`; an add is answered by `MSG_EMPLOYEE_ADD_RESP` or `MSG_ERROR`, and
then saved; a list is answered by a header and one write per employee; nothing
else is answered. *Hard*: blocking writes from the only thread; a write to a peer
that is gone raises SIGPIPE and ends the server; streams keep no message
boundaries. *Correct when*: what a client is told is true, lists are consistent,
a client that follows the protocol is neither left waiting nor able to end the
server.

**Employee store** (`parse.c`, `file.c`, `main.c:main`). *State*: header and
table in memory, the file and its offset. *Operations*: create or open, load, add
(in memory), save (the whole file is rewritten in place, header first). *Hard*:
numbers are swapped to network order in place and back; a crash between two
writes; writes nobody checks; a 16-bit count; a failed read that is survived.
*Correct when*: an accepted file is a complete table, at most the add being saved
is lost, and a save that succeeds brings a file in order again.

### The client (`client/main.c`)

Connect, hello, add and/or list, exit. Every reply is one `read` whose result is
not looked at. *Correct when* what it prints is what happened, and it ends.

### The thread pool (`03-posix-threads/05_course_project/main.c`)

*State*: a ring of tasks with `queued`, `queue_front`, `queue_back`, a `stop`
flag, one mutex, one condition variable. *Operations*: the worker loop (wait,
take, run), `threadpool_add_task` (signal), `threadpool_destroy` (broadcast, join,
destroy). *Hard*: every interleaving, spurious wakeups, one signal per task, the
full ring, a stop that finds the threads anywhere. *Correct when*: tasks start in
order, each at most once, none is left to a sleeping worker, and destroy returns
with nobody inside.

### Multiplexing servers (`02-networking-code/04_advanced_techniques`)

A `poll` server, from which the poll loop above was made, without a protocol: it
prints what it receives. And a `select` server: the same job with descriptor sets
that are rebuilt every round and a scan over the slots. *Hard*: `nfds` must exceed
the largest descriptor; a descriptor accepted in this round is not in the set; the
buffer of a slot is printed as a string, outlives the read that filled it and the
connection it was filled from. *Correct when*: as for the poll loop, and what is
printed for a client is the client's own.

### dbview (`01-lowlevel-academy-c/12_course_project`)

The ancestor of the store, a command: every run opens the file, loads it, adds at
most one employee and saves. *State*: the file; within a run header, table and file
offset. *Operations*: `-n` (probe, then create), open and check, read, add, list,
save in place. *Hard*: two runs at once, since nothing is locked; a run killed
anywhere; the result of `realloc` is thrown away (main.c:91), so that a block that
moves leaves a dangling table; errors after which main goes on. *Correct when*: a
run that nobody overlaps happens completely, or not at all, or leaves a file that is
refused; and no combination of runs makes an accepted table shorter.

### Thread lessons (`03-posix-threads`)

`race.c`, `mutex.c`, `spinlock.c`: one counter, incremented in a loop by ten threads
without or with a lock, and printed after the lock is released. `02_pthread_basics`:
one structure, handed to every thread and changed between creations.
`semaphores.c`: one event. *Hard*: the interleavings are what the lessons are about.
*Correct when* a locked count is exact and somebody prints all of it, an argument is
never older than the thread's own, the event is not lost, and every program ends.

### Not modelled

- Hello server and client (`02-networking-code/03_socket_programming`): one
  connection at a time, one constant message, one read; no state outlives a
  connection. The client of the database begins in the same way.
- Thread attributes, thread-local storage and `pthread_key`: the threads share
  nothing.
- The language, file, library and assembly lessons: they print constants or make one
  call, and keep no state.

## 2. Modules

| module | models | state and actions in the code |
|---|---|---|
| `Multiplexer` | what a single-threaded socket server promises its peers | abstract: connections wait, are admitted or refused, read, closed |
| `PollLoop` | `poll_loop` and the slot table | `Poll` = main.c:80-100, `Accept*` = 100-122, `Scan*` = 124-150; peers `Connect`, `Send`, `Hangup` |
| `PollMultiplexing` | `poll_multiplexing.c`; the rounds of `PollLoop` by INSTANCE | `Receive` and `Disconnect` = 179-203 with the buffers; the rest is `PollLoop`'s |
| `SelectLoop` | `select_multiplexing.c` | `Select` = 107-133, `Accept*` = 132-151, `Scan*` = 153-168 |
| `DurableTable` | what the database promises over crashes | abstract: add, tear, store, crash, open |
| `EmployeeStore` | header, table and file | `Start*` = main.c:208-237, `AddEmployee` = parse.c:107-139, `Output*` = parse.c:141-180 |
| `DbView` | the command-line database | `Start` = main.c:31-60, `Probe`, `CreateFile`, `Open` = file.c, `ReadHeader`, `Stat`, `ReadRecords` = parse.c:30-105, `Add*` = main.c:89-96, `Write*` = parse.c:132-156 |
| `DbSystem` | `handle_client_fsm`, the clients, the connections; uses `EmployeeStore` by INSTANCE | `Read*` = server_poll.c:102-148, `Reply*` = 34-100, client actions = client/main.c:14-185 |
| `DbSystemInvariant` | what every step of `DbSystem` preserves | nothing of its own: for each connection, which calls of client/main.c:14-112 and server_poll.c:102-148 go together |
| `TaskQueue` | what a thread pool promises | abstract: accept, drop, start in order, finish, stop |
| `ThreadPool` | the pool's threads, mutex and condition variable | `thread_function` = main.c:25-49, `threadpool_add_task` = 86-101, `threadpool_destroy` = 65-76 |
| `ThreadLessons` | `race.c`, `mutex.c`, `spinlock.c`, `semaphores.c`, `02_pthread_basics/main.c` | `Create`, `CreateFails`, `End` = the `main`s; `Lock`, `Load`, `Store`, `Unlock`, `PrintCount`, `PrintArg`, `Wait`, `Post` = the threads |
| `*Proofs` | | the theorems about the module of that name (section 6) |
| `MC*` | | the constants of the runs |

How they fit: `PollLoop` and `SelectLoop` implement `Multiplexer`, and
`PollMultiplexing` takes the steps of `PollLoop`;
`EmployeeStore` implements `DurableTable`, `ThreadPool` implements `TaskQueue`.
`DbSystem` is the composition: it treats the poll loop as what it was shown to be
(some ready connection is accepted, refused, read or closed), and takes the
store's own actions as the server's steps between the read of an add and the next
message. `DbView` and `ThreadLessons` stand alone, like the programs.

An operator whose comment starts with "Slip:" is not part of any specification:
it is the definition after it with a plausible mistake, kept to show that the
properties notice it. The conditions where such mistakes are likely have names of
their own for that reason (`HasRoom`, `AllWritten`, `Report`).

## 3. Conventions and abstractions

- **Steps.** One action is one system call with the local code up to the next one,
  since that is where others act. In `ThreadPool` a critical section is two
  actions (data, then indices), so that the mutex matters.
- **Kernel and network** are modelled from how the code uses them: the lowest free
  descriptor, a FIFO listen queue, `read` that returns part of what is there, a
  reset that discards data. In the loops a call other than `poll` and `select`
  returns; that includes the blocking writes of `handle_client_fsm`
  (server_poll.c:98), which are modelled in `DbSystem`. A write that returned stays in the file when the
  process dies; power failure is not modelled.
- **Undefined behaviour.** There is no step that reads `client_states[-1]`
  (main.c:129): `ScanIsSound` says that it does not happen. The add that overflows
  the 16-bit count ends in a write through a null pointer: `AddWraps` ends the
  process.
- **Errors that exit** (socket, bind, listen, poll, select) have no step; a failing
  `accept` does (`AcceptFails`), because the loop goes on.
- **Threads that are not created.** `CreateFails` is a step where the code looks at
  the result of `pthread_create`. The thread pool (`05_course_project/main.c:61`) and
  `semaphores.c:35-36` do not: the model takes those calls to succeed, and all workers
  exist from the start. Where one fails, the program joins a thread identifier that
  was never assigned (semaphores.c: or waits for an event that nobody posts), so that
  `DestroyReturns` and `ProgramEnds` are about runs in which they succeed.
- **PollLoop** keeps of a message only what it may do to the slot's state. `polled`
  is a history variable: how many entries the last `poll` filled in. On Linux,
  hangup and error come with POLLIN, so one flag per entry is enough.
- **EmployeeStore** counts the file in units: the header is one, a record two
  halves, so that a short write on a full disk misaligns what follows. A number
  carries its byte order; `filesize` is left swapped by `output_file`
  (parse.c:177), which the model keeps and which nothing reads. A start whose read
  fails goes on with a count and no table; an add then fills the gap with
  `Garbage`. What a list would do there (follow a null pointer) is left out.
- **DbSystem** cuts streams into units: an add request and a record are two each, and
  a read may find one of them when the network cuts that client's messages
  (`pieces`, chosen when it connects if `"split" \in MAY`); messages of at most 10
  bytes come whole. A client's employee is named like the client. `Cut` is what the
  beginning of a request names. `said` holds what a client's messages say and, for the
  properties to refer to, what befell it: a read without an answer, a piece of a record
  taken for a record (`"short"`), a kill. A client may be killed (`Kill`), the server may be
  (`Crash`), and the server may die of a write to a client that is gone
  (`Sigpipe`). Clients are builds of `client/main.c`, some with another
  `PROTO_VERSION`; other programs that speak to the server are not modelled. The add
  that overflows the count is left to `EmployeeStore`: here an add is
  read while there is room, which takes 65535 clients to exhaust, and the composed
  model has no step for the one after that.
- **ThreadPool**: `main` sleeps for 25 seconds and stops the pool; the model lets it
  sleep for any time. The full ring cannot occur in the shipped program (100 tasks,
  100 slots); the model has more tasks than slots.
- **PollMultiplexing** keeps of a buffer whose bytes it holds. A read of the full 4096
  bytes leaves no zero, and the print runs on into the next slot's descriptor; those
  bytes are nobody's data and contain a zero, so they are left out.
- **DbView** counts the file in units, header and records, each written by one call; a
  full disk is left to `EmployeeStore`. When `realloc` moves the block, the run dies
  or saves `Garbage` under every name. A run that never writes again, for whatever
  reason, simply ends.
- **ThreadLessons**: `counter++` is a load and a store, a data race without a lock. The
  outcomes that a build can produce are those of the unoptimised loop and of one
  that adds what is left at once (`Merged`). A spinlock and a mutex are the same
  here. `myargs`, when main has returned, is `None`.

## 4. Runs

| run | bounds | shows |
|---|---|---|
| `poll_safety` | 4 peers, 3 slots, queue of 2, 1 unread chunk; symmetric peers | the accounting of a round, the correspondence of slots, entries and descriptors, the refinement |
| `poll_live` | 3 peers, 3 slots, queue of 1 | every peer is served, though closes make the scan skip entries |
| `select_loop` | 4 peers, 3 slots, queue of 1 | the same for the `select` server |
| `store` | 2 names, count modulo 6, full disk, failing reads | at most the last add is lost, whatever write the server dies at; a whole save repairs the file; the refinement |
| `system` | 2 clients, messages in pieces, kills, crashes | no add is applied twice, reports are true, lists are snapshots, the file is up to date; what it takes to end the server |
| `system_live` | 2 clients (one of another version), 1 place, a connection that holds less than a list, kills, crashes | every client ends; the other version changes nothing |
| `system_full` | 2 clients, 1 place | *violated*: a refused client reports success |
| `system_reads` | 2 clients, short reads | *violated*: half a record is printed as an employee |
| `poll_lesson` | 3 peers, 2 slots, queue of 1, 2 unread chunks | what is printed for a client is its own; every peer is served, though others are refused |
| `dbview` | 2 runs at a time, any number in turn, 2 names, count modulo 4; runs and names symmetric | a run alone is atomic; runs that overlap never shorten an accepted table |
| `threads` | 3 threads of 3 increments; all five programs | at least two increments survive a race, a locked count is exact, what is printed, that every program ends |
| `pool` | 3 workers, 5 tasks, ring of 2 | order, once each, no task left to a sleeper, destroy returns |

The runs of components that are proved about also check the inductive invariant
`IInv`, of which the type invariant `TypeOK` is a part; for `DbSystem`, `system_live`
does. That of `PollMultiplexing` is the loop's, which `poll_safety` checks, with
`BufferIsOwn`.

Why the bounds are enough. Three slots are the smallest table in which a close
makes the scan skip a ready entry while another is still live, and four peers fill
it with one more in the queue; reuse of slots and descriptors in different orders
needs two. `poll_live` has those three slots and the three peers that fill them, so
that two closes in a round make the scan skip the third; a server that is full needs
one peer more, which makes its liveness graph too large. `poll_lesson`, whose slots
have no protocol state, and `select_loop` check that refusals starve nobody, and
`poll_safety` what a refusal does to the table. A count modulo 6 gives
tables of up to five records: saves torn at every place, short writes that
misalign several records and are later overwritten, and the overflow. Two runs of
dbview at a time, with any number before and after them, give every order of one
run's reads with another's writes; a table of three records is enough to be torn
in the middle. Two threads of two increments are enough to bring a race down to
two; three of three is the smallest instance in which a third thread or a third
round could bring it lower. Two clients give every order of one client's add with
another's list; the number of sessions matters only through the multiplexer, which
is checked apart. Three workers allow a signal to wake one while a second takes
the task and a third stays parked; five tasks on a ring of two wrap around it and
overflow it.

Deadlock is checked for the loops and the pool. It is not for the store (a refused
file stops the program for good), the composed system (all clients have ended, and
the server waits) and the thread lessons (which end: `ProgramEnds`).

**Fairness.** `PollLoop` (and `PollMultiplexing`), `SelectLoop`: the loop keeps running (weak fairness of
the server's steps) and `accept` does not fail for ever while a connection is
queued (strong fairness of accepting or refusing, since each failure disables it
until the next round). That the loop keeps running means that each of its calls
returns, the writes to a client included: `EveryPeerServed` says that the rounds
starve nobody, and `EveryClientEnds`, where those writes block, that the shipped
client lets them return. Nothing is assumed of the peers, nor about which part of
the data a `read` returns beyond one chunk. `DbSystem`: the server and each
connected client are scheduled; which ready connection the server turns to is
open; nobody has to start a server, and crashes are not fair. `ThreadPool`: weak
fairness of each thread's steps and strong fairness of taking the mutex, which is
what a mutex that does not starve gives; spurious wakeups and the end of `main`'s
sleep are not relied on. `ThreadLessons`: weak fairness of main and of each thread;
a thread asks for the lock once, so the others cannot keep it for ever.

## 5. Findings

- **A refused client reports success** (`system_full`). `send_hello` and
  `send_employee` ignore the result of `read`; after a close the buffer still holds
  the request, whose type is not `MSG_ERROR`, and the client prints "Succesfully
  added employee".
- **Short reads shift the list** (`system_reads`). `list_employees` takes every read
  for a whole record. The client may then also end while the server is still
  writing to it, which kills the server.
- Not violations of a statement in the repository, but worth knowing, and in the
  models: a server started with `-n` that stops before its first add leaves an empty
  file, which no later start accepts and `-n` takes for existing (main.c:239 is
  commented out); an add is acknowledged before it is saved; a crash during a save leaves a
  file that no start accepts, so that the whole table is unreachable; after "Failed
  to read employees" an add saves uninitialised memory over the stored employees;
  the rest of an add request that is read together with a list request swallows the
  latter, and the client waits for ever (`system_live` is therefore about requests
  that arrive whole); two runs of dbview that overlap lose one of their adds, or leave
  a file that is refused for good; `realloc` in dbview (main.c:91) may leave every
  stored name replaced by whatever is in freed memory.

## 6. Proofs

TLC checks the instances of section 4; TLAPS checks the following for every value of
the constants that the assumptions of the modules allow: any number of peers, slots,
workers, tasks, threads, rounds, employees and processes, any width of the count. A
`*Proofs` module has one lemma per action and part of the invariant, then `Inductive`
(`Spec => []IInv`), then the properties. `IInv` is written in the module of the
component, or in `DbSystemInvariant`, as a conjunction of named parts of which `TypeOK`
is the first, and a run checks it (section 4); each property below needs it because it is not
inductive by itself.

**`PollLoopProofs`** (`TypeCorrect`, `ScanAlwaysSound`, `DescriptorsAlwaysOwned`,
`Refinement` of `Multiplexer`). `ScanIsSound` is not
inductive: that the scan stops before the leftover entries depends on `n_events`
being exactly the number of ready entries it has still to meet. `RoundAccounted` says
so (`n_events = Cardinality(Pending)`, plus the listener's event until the accept),
and that the entries `poll` filled in stand for different descriptors, each held by a
slot until the scan has passed it. A close can then only affect the entry it was made
for, and an accept only descriptors that no entry stands for. `DescriptorsOwned`
gives `nfds = Cardinality(Active) + 1`; a lemma on `Position` (the k-th slot in use
goes to entry k) shows that the rebuilt entries 1 to `nfds - 1` are exactly the slots
in use, which is what `poll` needs to re-establish `RoundAccounted`. The refinement
uses the invariant for two things: a read happens only on data or a hangup of an open
connection, and the slots are full exactly when `MAX_CLIENTS` connections are open.

**`PollMultiplexingProofs`** (`ScanAlwaysSound`, `BufferAlwaysOwn`).
Every step of the lesson server is a step of `PollLoop` or leaves it alone, so that
the theorems above hold of it as they stand. A buffer then changes hands only through
a slot that the scan closes, and the invariant of the loop says that no other slot
holds that slot's descriptor.

**`SelectLoopProofs`** (`TypeCorrect`, `ScanAlwaysSound`, `Refinement` of
`Multiplexer`). The same argument without the event count: until the accept of a round
is over, `read_fds` holds descriptors of that round (`RoundSound`), and an accept takes
the lowest free descriptor, which is in nobody's slot and was not asked about.

**`ThreadPoolProofs`** (`TypeCorrect`, `EachTaskOnceAlways`, `NoTaskWaitsAlways`,
`DestroyedUnusedAlways`, `Refinement` of `TaskQueue`). `MutexHeld` makes the critical
sections exclusive, so that what a thread has seen of the ring stays true until it
writes (`InHand`, `MainInOrder`). `TasksApart` is the accounting of tasks as set
equations; the sums of cardinalities of `EachTaskOnce` follow from it, and lemmas on
the ring (index arithmetic modulo `QUEUE_SIZE`) show that taking removes the oldest
task and publishing appends one. `NoTaskWaitsForASleeper` is not inductive: inside a
critical section the worker that holds the mutex counts as awake, and `EnoughAwake`
says that `queued` never exceeds the number of workers awake while one is parked.

**`EmployeeStoreProofs`** (`TypeCorrect`, `HeaderAlwaysDescribes`,
`LosesAtMostAlways`, `WholeSavesRepair`, `Refinement` of `DurableTable`), with
whichever of the faults. A full disk may cut any write short, so that the file may be a
mixture of several saves. `Saving` says why that does no harm: once a write was cut
short, the file offset is at the end of the file and behind where it should be, and
the file can no longer reach the size that its header names; `Between` carries that
over to the next save, by bounding the file by the size of the table it was written
from; `OnDisk` says that a file of the right size has no torn record. The same
invariant says that a save that nothing cuts short ends with a file of exactly that
size, whatever it started from. That an accepted
file is the table follows by induction over the writes, not over the file.

**`DbViewProofs`** (`TypeCorrect`, `AloneRunAlwaysAtomic`,
`AcceptedAlwaysNeverShorter`), for any number of processes. `AcceptedNeverShorter`
rests on `FileShape`: the file begins with a header some run made and has, with
`longest`, never had more accepted records than it has now, since a run writes at
offsets it has reached itself (`Coherent`) and nothing truncates. `AloneRunIsAtomic`
needs `Alone`: unit by unit, the file of a run that nobody overlapped is what it has
written so far over what it found.

**`ThreadLessonsProofs`** (`TypeCorrect`, `CountedAtLeastAlways`,
`PrintsWhatIsDoneAlways`, `ArgNeverOlder`). The number of increments done is a sum over
the threads, a fold; lemmas give what one thread's step does to it. That a race leaves
at least two needs `RaceLeaves`: whoever stores has loaded a value of at least one
after a first store, or adds all of its loop at once. `PrintsWhatIsDone` (fewer than k
threads print less than k loops' worth) is inductive together with `LockProtects`: the
thread that leaves the lock prints at least what the threads before it have done.

**`DbSystemProofs`** (`TypeCorrect`, `NobodyTwice`, `OldKeptOut`, `ReportsAreTrue`,
`KilledByAKillOnly`, `ListsAreSnapshots`, `SavedWheneverIdle`, `RunsTheStore`), for any
number of clients, any `WINDOW` of at least two units, and whichever of `MAY`. None of
the properties is inductive: each relates what a client says or prints to a table that
the server changed some messages ago. The invariant therefore follows a message from one
end to the other. `Talks` says, for each call a client makes next, what may be on its way
in either direction and what the server may be about to do for it: one request or one
answer at a time, but for the rest of an add that was read in pieces (`Rest`). `Told`
carries the outcome of an add through the reply into what the client says, and says that
the store does not know a client's employee before its request is read, neither in memory
nor in the file (`Known`), so that no restart brings one back before it was added.
`Lists` says where in the table the records on their way are (`Lines`), and that the count
announced is that of a table which has only grown since; it
holds until the client takes a piece of a record for a record (`"short"` in its `said`).
`SigpipeEarned` follows because a client that ends by itself has taken all that the server
wrote (`turn = "records"` implies that no record is left to write). Most steps concern one
connection: `ClientActs`, `ServerActs` and `ConnectionMoves` reduce a step to the `Good`
of that connection, and `Bystander` shows that any other stays as it was, although the
table may have grown. `Store!Whole` is what the store keeps where no call fails;
`EmployeeStoreProofs` proves it (`SavedWithoutFaults`), and `RunsTheStore` shows that the
server does nothing to the store but what that module says.

**Assumptions.** Those that the modules state: the values that stand for nobody or
nothing are none of the others (`ConnAssumption`, `NoTaskAssumption`,
`NameAssumption`, `ValueAssumption`); sizes are positive (`SizeAssumption`,
`CountAssumption`, `SystemAssumption`); there are finitely many workers
(`ThreadAssumption`); the values
`Absent` and `Torn` are no file content and no table (`AbsenceAssumption`,
`StoreAssumption`), which in the
code is the difference between an error code and data.

**Only model-checked.** Liveness (`EveryPeerServed`, `QueuedTaskRuns`,
`DestroyReturns`, `ProgramEnds`, `EveryClientEnds`), which is out of the prover's
reach. Every invariant, action property and refinement that a passing run checks is
proved.

## 7. Plan

| order | what | status |
|---|---|---|
| 1 | the models: `PollLoop`, `EmployeeStore`, `ThreadPool`, `DbSystem`, `SelectLoop`, `DbView`, `ThreadLessons`, `PollMultiplexing` and their abstract specifications | done |
| 2 | the proofs about each of them: an inductive invariant, the properties of the runs, the refinements | done |
