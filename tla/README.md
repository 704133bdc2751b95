# Cefeika: formal models

Cefeika (`dmitigr/cefeika`) is a C++17 toolkit for backend development: some
thirty small libraries, most of them header-only. This directory has TLA+
models of the libraries that have control or state, the TLC runs that check
them on small instances, and TLAPS proofs for every instance.

- [Inventory](#inventory): the parts of the system and what is hard about them
- [Modules](#modules): which module models which part, and how
- [Runs](#runs): what each run checks, with its bounds and fairness
- [Known deviations](#known-deviations): where the code differs from its words
- [Proofs](#proofs): what holds for every value of the constants, and why
- [Not modelled](#not-modelled)

Running a check and a proof:

    tlc -workers 2 -config SessionProtocol.cfg Session
    tlapm ThreadPoolProofs.tla

`PROJECT.json` lists the components, the runs with their properties, the lines
each definition translates, a mutation of the code that breaks each property,
the hazards, and the theorems.

## Inventory

Paths are relative to `src/`.

| Component | State | Operations | Talks to | Hard about it |
|---|---|---|---|---|
| `concur`: `Simple_thread_pool` | queue of functions, running flag, worker threads, two mutexes, a condition variable | `submit`, `clear`, `start`, `stop`, `size`, `is_running`, the worker loop | the functions it runs, which may call it back | threads, lost wakeups, lock order, failure in the middle of `start()` |
| `pgfe`: `Connection` | libpq connection, polling status, queue of requests, current response and its status, registry of prepared statements, cached field names | connect, disconnect, execute, prepare, describe, unprepare, handle the input, wait, release the response, `process_responses()` | libpq, the server, the caller's callbacks and handlers | a response is preprocessed one request late, polling against waiting, lost links at any step, callbacks that throw or stop, stale data of the last request or session |
| `pgfe`: `Prepared_statement` | parameters, bound data, description | bind, describe, execute, invoke | `Connection`, `Sql_string` | ownership of bound data, numbering of parameters |
| `pgfe`: `Connection_pool` | slots (pointer and busy flag), connected flag, mutex, handlers | `connect`, `disconnect`, `connection`, `release`, handles | `Connection`, several threads | exceptions between two updates, connections lent across a disconnect |
| `pgfe`: `Large_object`, moves of a `Connection` | descriptor number and back pointer | open, close, move, swap | `Connection`, transactions of the server | numbers and pointers that mean another object later |
| `pgfe`: `Sql_string`, `Sql_vector` | fragments, caches of parameters, extra data | parse, append, replace a parameter, find, insert | `Prepared_statement` | a hand-written lexer, caches of iterators and positions |
| `pgfe`: data, rows, composites, arrays, conversions, options | values | read, write, copy, compare, set | `Connection`, libpq | two formats, owners and views, sign and width |
| `fcgi`: server, connection, stream buffers | record being read or written, unread content and padding, role, request state | accept, read, write, close the streams, end the request | the web server, `net` | records split over reads, management records in a stream, closing order |
| `http`: connections, cookies | head buffer, unreceived and unsent content lengths | receive and send head and content, dismiss, close; cookies as texts and objects | `net` | content that arrives with the head, short reads |
| `net`: descriptors, listeners, endpoints | descriptor, listening state | listen, wait, accept, close | the operating system | resets, partial failure, waiting for a peer |
| `ws`: listener, connection, `Http_io`, timers, options | list of connections, representation pointer, deferred handshake, timers | open, message, close, abort, broadcast | uWebSockets' event loop, other threads through the loop | callbacks that erase what is being iterated, use after close |
| `wscl`: WebSocket client | the client's socket, buffers, open flag, timers | connect, send, close, destroy | uwsc, its event loop | callbacks that destroy the client, numbers of sockets used again |
| `sqlixx`: connection, statement | last step result, handles | bind, step, reset, execute, transactions | SQLite | suspended and failed statements, memory that SQLite refers to |
| `os`: detaching, signals, PID file | cleanup function, PID file | detach, run, terminate | the operating system | signals during cleanup |
| `que`: FIFO containers | array, offsets | push, pop, restore | | limits |
| `mulf`, `url`, `ttpl`, `cfg`, `str`, `progpar`, `dt`, `math`, `jrpc`, `rajson` | parsed values | parse, look up, set, print | texts of clients | boundaries, what is printed against what is read |
| `uuid`, `rng`, `crc`, `fsmisc`, `filesystem`, `web`, `algo`, `assert`, `base`, `mem`, `testo` | | random bits, tables, I/O, templates | | |

What makes the parts correct:

- **Thread pool.** Functions start in the order of submission and none starts
  twice. `stop()` leaves no worker behind. A worker never takes the front of
  an empty queue. No work is forgotten by sleeping workers. `start()` never
  assigns a joinable `std::thread`. `stop()` returns (it need not, see below).
- **Connection.** The queue of requests, the "unready" state and libpq agree on
  whether a request is in flight. What a request leaves for its response (the
  statement, the name) is there when the response is handled and gone
  afterwards. A response is taken for the response of its own request, its rows
  and its error reach the caller, whatever a callback does. The registry of
  statements is the server's. Nothing survives a session. No `assert()` fails.
  The waiting calls return. What is bound to a parameter is what is sent for it.
- **Connection pool.** A connection has one owner. What is lent is ready to use
  and cleaned. Nothing is lost from the pool, and a disconnected pool keeps
  nothing open.
- **Servers.** Each byte of content reaches its reader once, wherever the reads
  of the socket end. A reply is whole, and no response is lost to a reset. No
  handler is called for what is gone. A process leaves no PID file behind.
- **Texts and values.** What is read is what was written, also if it ends
  anywhere; caches, indices and copies agree with what they are made of.

The parts share little: a pool owns connections and a connection its
statements and large objects; `fcgi` and `http` read and write the descriptors
of `net` by one contract (a read returns some of what has come, or nothing at
the end; a write takes all or throws); the parsers take texts and give values.

## Modules

| Module | Models | Remarks |
|---|---|---|
| `ThreadPool` | `concur/concur.hpp` | state machine of clients and workers |
| `Executor` | what a thread pool promises, abstractly | seven actions, no locks |
| `Connection` | `pgfe/connection.{hpp,cpp}`: data, establishment, loss, reset | extended by `Session` |
| `Session` | requests and responses, on top of `Connection`; with its actions the whole behaviour | |
| `ConnectionPool` | `pgfe/connection_pool.{hpp,cpp}` | |
| `Responses` | `Connection::process_responses()` with its callbacks | |
| `Statements` | `pgfe/prepared_statement.{hpp,cpp}`, `invoke()`, `call()` | extends `SqlParser` |
| `LargeObjects` | `pgfe/large_object.{hpp,cpp}` and moves of a `Connection` | |
| `SqlParser`, `SqlExtras` | the SQL preparser; extra data in comments, `Sql_vector` | texts |
| `SqlStrings` | composition of an `Sql_string`, its caches | |
| `Conversions`, `Values`, `Options` | array literals and other conversions of `pgfe`, those of `rajson`; `Data`, `Row`, `Composite`; options of `pgfe` and `ws` | |
| `FastCGI`, `Records` | `fcgi`: the life of a request; the bytes of its records | |
| `HTTP`, `Cookies` | `http`: a pair of connections; the cookie headers | |
| `Net`, `Addresses` | `net`: listener and descriptor; endpoints and timeouts | |
| `WebSockets`, `Timers` | `ws` | |
| `Clients` | `wscl`, with the part of `3rdparty/uwsc/uwsc.c` it drives | |
| `Processes` | `os`: detaching, PID file, signals | |
| `Sqlite`, `Bindings` | `sqlixx`: statements and transactions; memory and columns | |
| `Queues`, `Multipart`, `Queries`, `Templates`, `Jrpc`, `Utilities`, `Dates` | `que`, `mulf`, `url`, `ttpl`, `jrpc`, `str`, `cfg`, `progpar` and `math`, `dt` | |
| `Servers` | composes `FastCGI`, `HTTP`, `Net`, `WebSockets`, `Timers`, `Processes` | |
| `Objects` | composes `Sqlite`, `Bindings`, `Responses`, `LargeObjects` and `Clients` | |
| `Data` | composes `Jrpc`, `Conversions` and `Options` | |
| `Libraries` | composes `Objects` and `Data` with the other modules of texts and objects | |
| `MCConnectionPool` | instances for TLC, with the symmetry of the threads; the other runs give all constants in their `.cfg` | |
| `ThreadPoolProofs`, `ConnectionPoolProofs`, `SessionProofs`, `FastCGIProofs`, `ServersProofs`, `ObjectsProofs`, `DataProofs`, `LibrariesProofs` | proofs | |

Definitions whose comment begins with "Mutant" are not part of the model: each
is a plausible mistake in the definition it follows or precedes, and
`PROJECT.json` names the property and the run in which TLC finds it.

### ThreadPool

Members keep their names (`queue_`, `is_running_`); `joinable` is the set of
workers whose `std::thread` object is joinable, `queueOwner` and `workOwner`
the holders of the two mutexes. `pc[w]` is the line of `wait_and_run()` worker
w is at: waiting for `queue_mutex_` (`lock`), evaluating the predicate of the
wait, between a false predicate and the wait (`block`), asleep, after the wait
(`decide`), in the function (`task`), in the function after its call on the
pool (`task_end`). `call[t]` is the pool function thread t is in.

A function that takes a mutex, does its work and leaves is one action
(`Submit`, `Clear`, `Start`). `stop()` is several, because it holds only
`work_mutex_` and so runs concurrently with the workers: `StopBegin`,
`StopIdle` or `StopClearFlag`, `StopNotify`, `StopJoin` for each worker,
`StopEnd`, or `StopJoinSelf` where `join()` throws. The workers' wait is split
at the point that matters: the predicate is evaluated under `queue_mutex_`,
and `stop()` changes the flag and notifies without it. Spurious wakeups are an
action. `start()` may fail at any worker if `SpawnFails`: `std::thread`'s
constructor throws, `is_running_` remains set and `notify_all()` is not
reached. A running function may make one call of `TaskCalls` on its own pool,
or none. Functions of the queue that only look (`queue_size()`,
`is_queue_empty()`) and the logger are left out; the constructor's argument
check is the assumption `N \in Nat \ {0}`.

`is_running_` is a plain `bool`, written under one mutex and read under
another: a data race. The model gives the reader the old or the new value and
covers both orders; a compiler that hoists the read is outside of it.

### Executor

The abstract specification: works are issued, dropped, begun in order on a
free place of an open executor, and finished; it is closed only when nothing
runs. `ThreadPool!ImplementsExecutor` maps the pool to it: a place is a worker,
the executor is "closing" while a `stop()` holds `work_mutex_`, a worker in
`task` or `task_end` occupies its place.

### Connection and Session

`Connection` has the data members (with their names), `status()`, the class
invariant `is_invariant_ok()`, `connect_nio()`, `connect(timeout)`,
`disconnect()`, `reset_session()` and the loss of the link. `Session` has the
four requests, `handle_input()`, `wait_response(timeout)`, the functions that
release a response, and the synchronous `prepare()` and `describe()`.

libpq and the server are external: `command` is the command libpq has in
progress, `server` the statements the server knows. A command is answered by
rows (execute only), one final result and the null result that ends it.
`handle_input(false)` asks `PQisBusy()` before each of these, so a final result
may be taken in one call and the null in a later one: `Handle_incomplete` and
`Handle_null`. The other cases of the function are `Handle_row`,
`Handle_completion` (final result and null in one call), `Handle_nothing`
(idle) and `Handle_busy`. In all of them the preprocessing of the response is
part of the action, as it is part of the function.

A response carries the number of its request (`of`, `id`) so that properties
can speak of whose response it is; the code does not know. Statements are kept
by name and by the number of the request that registered them, which stands
for their address: `last_prepared_statement_` is such a number.

The debug build is modelled: an `assert()` that fails ends the behaviour and
leaves its file and line in `failed`. One is recorded and passed: the class
invariant at the end of `handle_input()` (`connection.cpp:366`), which fails in
the call that finds the link lost. The debug build ends there; the release build
goes on to the end of the session, which the other properties follow. The other functions' assertions are
their documented requirements and appear as guards. `Usage` says what the
caller does beyond the ordinary, `Faults` what the environment does; each run
gives both, so it is plain under which use a property holds.

### ConnectionPool

A slot of `connections_` is a pointer (`present`) and a flag (`busy`). A
connection keeps the number of its slot when it is moved to a handle
(`held[t]`). `link` and `session` are what the pool can see of a connection:
its status and what its holder left behind. All functions of the pool hold
`mutex_` throughout, so each is one action, except for `connect()`, whose
steps (`Connect`, `Connect_slot`, `Connect_end`, `Connect_throws`,
`Connect_null`) leave room for the holders of connections, who need no mutex.
`connection()` is three actions by outcome: an invalid handle, a lent
connection, an exception. `Release` runs the release handler inside it, which
may throw (`Release_handler`): the default one processes the pending request and
executes `DISCARD ALL`, and an error of the former or of the latter is caught by
`release()`, which takes the connection back as it is. `undiscarded` is the
history of that: the slots whose connection came back so.

`Use` is what a holder does with its connection. The release build of
`Connection` is assumed here: a release handler that executes `DISCARD ALL` on
a connection that is not ready throws, and the pool catches it (the debug
build asserts, `prepared_statement.cpp:97`).

### Responses, Statements and LargeObjects

`Responses` is the loop of `process_responses()`: the request at the front, the
rows and the error that are still to come, the callback with what it does on
each row (take it, throw, return `complete` or `suspend`), and the error
handler. The calls wait without a timeout; timeouts are in `Session`.

`Statements` has what `bind()`, `bind_no_copy()`, `describe` and `execute_nio()`
do to the vector of parameters and to the arrays that libpq is given, with the
owner of each datum, and the texts that `invoke()` and `call()` write of their
arguments.

In `LargeObjects` two connections and two objects are at addresses, since
objects keep the address of their connection: a swap or a move of a connection
moves its session but not the pointers. The server gives the lowest free
descriptor of the transaction, so that numbers mean other objects later.

### Texts: SqlParser, SqlExtras, Conversions, Multipart, Queries, Cookies, Templates, Jrpc, Utilities, Dates, Records

A text is a sequence of characters of a small alphabet, in which a word that is
never cut is one character. Each parser is the translation of its loop: an
operator per state of the machine (`SqlParser`), or a function of the position.
What is read is compared with a definition that is not derived from the code: a
token of SQL is where PostgreSQL's lexical rules say by position that it is, a
form is what `Encode` writes of its entries, a cookie what its parts are.
Outcomes of a parser are "parsed", "thrown" and "terminated" (a failed
`DMITIGR_ASSERT`), which the properties tell apart.

### Objects: SqlStrings, Options, Values, Conversions, Cookies, Templates, Jrpc, Queues, Bindings, Clients

Each setter or other operation is an action with its precondition. Where the
code caches (iterators to named parameters, positions, offsets), the cache is a
variable and a property relates it to what it is a cache of. Memory is modelled
where ownership matters: `Bindings` has the blocks that SQLite refers to,
`Values` the owner of each datum.

`Clients` has two connections and the descriptors of sockets, whose numbers are
used again. The callbacks of uwsc are run by one iteration of its loop, and a
handler may close or destroy its connection within it (`unwinding`).

### FastCGI

A byte of the connection is a cell, and what is on the wire is chosen when the
reader gets to it: the record whose header has been completed. `Fill` reads any
number of cells, so content, padding and headers end on every side of the end
of the buffer. `underflow()` is a loop over the buffer (`TakeContent`,
`DiscardContent`, `SkipPadding`, `AccumulateHeader`, `ProcessHeader`), with
`Values` for the recursive reading of a get-values record. `ProcessHeader` is
the switch over the type of the record and the role of the request. `reply` is
the log of records written for the request; each run of one kind is kept once.
A write may fail when the client has gone. `provoked` keeps which unusual
records the client has sent.

### HTTP, Net, WebSockets, Timers, Processes

`HTTP` is a client and a server that share the class `Connection`; any number of
cells may arrive at once, and the start line has four cells which separate the
ways a read may end in it. `Net` is the listener with the failures of its
steps, and one descriptor with the state of the kernel behind it. `WebSockets`
is the event loop: handlers run to completion, calls deferred by other threads
are run in between, and the iteration of `close_connections()` and `for_each()`
is stepwise since the close callbacks erase from what is iterated. `Timers` has
the places of a vector that is reallocated. In `Processes` each step of
`start()` may fail, and signals come at any moment, also during the cleanup.

### Sqlite

An object has a handle and the result of its last step; SQLite has the state of
each statement and what is bound. `Execute` resets and binds by the condition
of the code, the steps with the callbacks come one by one, so the callback may
execute, close or move other objects. `Cleared` and the moves are those of
`Statement`.

### Servers and Libraries

Both compose modules that share no variable: the first state chooses what runs
(`unit`), and the others stay in their first state. This keeps one
configuration and one instance of each constant for modules that meet only by
contracts, and costs no more states than the sum of theirs. In `Libraries` a
text grows by a symbol as long as its reader would take it, so that every text
up to the bound is read; an object takes any sequence of calls.

## Runs

| Run | Constants | Properties | States |
|---|---|---|---|
| `thread_pool_safety` | 2 workers, 2 clients, functions submit and query, spawning may fail, 3 works, 3 starts | `NeverTerminates StoppedMeansQuiet InOrder ImplementsExecutor` | 73 860 |
| `thread_pool_any_call` | 2 workers, 1 client, functions submit, query and stop, spawning may fail, 3 works, 3 starts, fairness | `AssertionHolds WorkIsTaken` | 30 399 |
| `thread_pool_stop` (violation) | 2 workers, 1 client, fairness | `StopReturns` | |
| `session_protocol` | 2 statement names and the unnamed one, 5 requests, waiting, polling, `prepare()`/`describe()`, links break, fairness | `AssertionsHold RequestInFlight FieldNamesFresh ResponseOfProcessedRequest NoDanglingStatement RegistryMatchesServer InvariantOk SyncReturns` | 75 647 |
| `session_any_use` | 1 name, 3 requests, every use and fault | `TypeOK NoSessionNoData` | 433 510 |
| `session_busy` (violation) | 1 request, polling at any time | `UncompletedRequestIsKnown` | |
| `pool_any_use` | 2 connections, 2 threads, every use and fault | `OneOwner FreeSlotHasConnection` | 23 780 |
| `pool_lending` | 3 connections, 2 threads, default handlers, links break | `NothingLentMeansFree DisconnectedMeansClosed LentReady` | 96 137 |
| `pool_leak` (violation) | 2 connections, 1 thread, `Connection::connect()` may throw | `NothingLentMeansFree` | |
| `servers` | a buffer and a header of 2 cells, contents of up to 3, 4 records; heads of up to 7 cells, contents of 2; 3 segments; 2 peers, 2 deferred calls; 3 timers; 2 processes | `ContentDelivered ReplyWellFormed RequestAnswered HeadReceived ContentAccounted NotReset ConnectionsLive NothingDangling TimerCallsItself PidFileKept` | 825 609 |
| `libraries` | texts of up to 6 characters of alphabets of 4 to 8 symbols, or of a few larger pieces (`MaxText`); sequences of calls over 2 objects, 2 or 3 values | `PgfeDataKept ObjectsKept OptionsKept FormsRead HeadTextsRead TemplatesKept JrpcUnderstood StatementsRun UtilitiesKept` | 517 218 |
| `sql_doubled_quotes` (violation) | those of `libraries` | `DoubledQuotesKept` | |

**Bounds.** Two workers are the fewest that compete for the queue while a third
party stops the pool, and two clients the fewest whose `stop()` and `start()`
overlap; three works let one run, one wait and one arrive; three starts let a
failed start, a stop and a restart happen in one behaviour. Two statement names
let one be prepared under the other's registration, and five requests are
enough to prepare, unprepare and prepare again with an error in between; a
session has one request in flight at most, so longer sequences only repeat
states, for which the history counter `seq` is the only difference. In the pool
the state space is finite without a bound. `MaxTimeout` is one tick, with
elapsed times of up to two: enough for "in time", "just over" and "well over".

In `servers` a buffer of two cells and records of up to three let every part of
a record end before, at and behind the end of the buffer, and be longer than
it; four records are the begin of a stream, two contents or a foreign record,
and its end. Three segments are what arrives before, during and after a close.
Two peers let one be closed by the handler of the other. Three timers are the
fewest of which a removal moves one that a reallocation has moved. Two
processes are a program and its successor.

In `libraries` the texts are as long as the longest token with something before
and behind it: a dollar quote with a tag and a content has six characters, an
escape of a URL in a value five, a parameter of a template seven. The numbers
have bytes of four values (`ByteBase`) and two bytes, so that sign, overflow and
order of the bytes all occur. Years start at 1583, 1599 and 1699 and days are
counted on for more than two years, over leap years and centuries. What is bound
to a prepared statement is owned, a view or null, one value of each, which tell
the parameters apart; a connection has one large object open at a time
(`MaxDescriptor`), and there are two values for SQLite (`Datum`), the fewest with
which a value that is kept for too long shows. The theorems of `LibrariesProofs` are
for every number of descriptors and every set of values.

In a behaviour of `libraries` only the variables of its unit change, those of the
others are as they were in its initial state, which the unit determines.
`LibrariesView` is what is left of a state, and the run compares states by it: it
merges none and spares TLC the fingerprint of 69 variables. The readers of long
texts are recursive functions over the position, and not `FoldLeft`, which chooses
the greatest of the positions that are left each time.

**Symmetry.** Used in `pool_any_use` and `pool_lending`, over the threads; their properties are
invariants and one action property, and none distinguishes a thread.

**Deadlock.** Not checked in the thread pool and the session, where clients may
stop making calls, the bounds on works, starts and requests run out, and
(in `session_any_use`) a failed assertion ends the program; nor in
`pool_any_use`, where a dereferenced null pointer does; nor in `servers` and
`libraries`, where a connection is destroyed, a process exits and a text is
read to its end. `pool_lending` and `pool_leak` check it.

**Fairness.** `ThreadPool!Fairness`: a thread that can go on does
(weak fairness of the worker's steps outside of a mutex's acquisition), and a
mutex that becomes free again and again is granted in the end (strong fairness
of `Lock`, of the observers and of the steps of `stop()`). A function that runs
ends. Nothing makes a client call anything and no spurious wakeup is needed, so
`WorkIsTaken` rests on the notifications alone. `Session!Fairness`: the thread
blocked in `prepare()` or `describe()` goes on when the server's answer
arrives, and the server answers a request or the link is found broken. It is
not assumed of a polling caller. `servers` and `libraries` state no fairness:
a read blocks until the peer sends, and nothing obliges it to; the one promise
in time of these parts, that a silent WebSocket server is noticed, is a bound
on the number of ticks and so an invariant.

**What they show.** The passing runs show the properties for the uses they
name. Every property is broken by a mutation of the code that `PROJECT.json`
names, under the same configuration, so none holds by the shape of the model.
The violation runs show disagreements between the code and its words:

- `thread_pool_stop`: `stop()` (`concur.hpp:150-151`) sets the flag and notifies
  without `queue_mutex_`. A worker that has evaluated its predicate and is
  about to wait misses both, and `stop()` joins it forever.
- `session_busy`: `handle_input(false)` before anything has arrived falls
  through to `dismiss_request()` (`connection.cpp:350`), and the request in
  flight is forgotten: `has_uncompleted_request()` is false.
- `pool_leak`: `connection()` sets the slot's flag before it connects
  (`connection_pool.cpp:116`); if that throws, the slot is never lent again.
- `sql_doubled_quotes`: of two adjacent quotes in a string constant the
  preparser keeps one (`sql_string.cpp:982`).

The properties of `servers`:

| Property | Says | Excepts |
|---|---|---|
| `ContentDelivered` | what the reader of a FastCGI stream gets is the content of its records, complete at its end | clients that send foreign or discarded records, or padding in the begin-request record or in a final one |
| `ReplyWellFormed` | streams end once, in order, and then the request | a client that breaks the protocol |
| `RequestAnswered` | a destroyed connection has sent the end of its request | the client has gone; a Filter with unread input |
| `HeadReceived` | an HTTP head is accepted wherever the reads end in it | reads that end in the start line |
| `ContentAccounted` | content delivered and to be delivered make what was announced | a small read of held content; a full head buffer |
| `NotReset` | closing does not cost the client the response | a client that sends after a second of silence |
| `ConnectionsLive` | the listener's list has each open connection once, while it is iterated too; a close is told once | |
| `NothingDangling` | no handler, thread or application call reaches what is gone | the uses of `UsageKind`; the write of `close()` and `abort()` to their connection, which their close handler has destroyed (kept apart in `ill` as "written") |
| `TimerCallsItself` | a timer calls its own handler after every reallocation | timers moved by a removal |
| `PidFileKept` | the PID file is that of the process that works and is removed with it | a relative path of a process that detaches |

The properties of `libraries` are conjunctions, one for a group of units; each
conjunct is a definition of its module with its own comment:
`SqlKept`, `SqlParts`, `ExtraRead`, `VectorRead`, `ArrayRead`, `RowRead`,
`NumberRead`, `NumbersExchanged`, `BoolRead`, `QueryNumbered`,
`InvokedAsGiven`, `ParametersSent`, `CompositesKept`, `DataKept`
(`PgfeDataKept`); `RowsKept`, `ErrorsReported`, `DescriptorsOwned`,
`BindingsKept`, `HandlersInOrder`, `SocketsOwned` (`ObjectsKept`);
`InvariantKept`, `OnlyAuthorityLost`, `LibpqTold`, `IdleTimeoutTold` (`OptionsKept`); `EntriesFound`
and the reading of whole and of cut forms (`FormsRead`); `Queries!Read`,
`CookieRead`, `SetCookieRead`, `Kept`, `NamesRead`, `RecordRead`,
`ValuesAnswered` (`HeadTextsRead`); `TextKept`, `ParametersMatch`
(`TemplatesKept`); `Understood`, `Fetched`, `RequestChecked`, `ResponseChecked`,
`MembersRead` (`JrpcUnderstood`); `HelpersAgree`, `QuotesRead`, `EntryRead`,
`ConfigRead`, `ParametersRead`, `TimestampRead`, `CalendarKept`, `QueuesAgree`,
`ColumnsRead`, `EndpointsReached`, `TimeoutsTold`, `SilenceNoticed`,
`IntervalKept`, `SizesAligned` (`UtilitiesKept`).

## Known deviations

The code does more than its words say, or less, in the cases below; the
properties except them, by name or by what the models let the environment do.

### Statements that do not hold

They are in the modules and have no run of their own. Each is reproduced with
the configuration of the run named, by adding the values to the constant (the
first column of values is `Usage` if nothing else is said) and checking the
property. For `AssertionsHold` the last state's `failed` names the assertion.

| Run to extend | Add | Property | What the code does |
|---|---|---|---|
| `thread_pool_safety` | `"stop"` to `TaskCalls` | `NeverTerminates` | A function that stops its own pool cannot join its own thread: `join()` throws (`concur.hpp:154`), threads stay joinable, the next `start()` assigns over one and the program terminates. |
| `thread_pool_stop` | `"query"` to `TaskCalls` | `StopReturns` | `is_running()` and `size()` need `work_mutex_`, held by the `stop()` that waits for the function which calls them (`concur.hpp:161`). |
| `session_protocol` | `"give_up"` | `AssertionsHold` (`hpp:242`) | `disconnect()` during the establishment leaves `polling_status_` set, so `status()` is not `disconnected`. |
| `session_protocol` | `"connect"` | `AssertionsHold` (`cpp:171`) | `connect(timeout)` asserts that the socket is unready when the time is up, although it may have become ready in the last wait. |
| `session_protocol` | `"bad_response"` to `Faults` | `AssertionsHold` (`cpp:366`, `cpp:448`, `cpp:468`, `cpp:619`, `hpp:1290`), `FieldNamesFresh` | A `PGRES_BAD_RESPONSE` completes a request (`cpp:254`) but is not preprocessed (`cpp:319-349`): the pending statement, the pending name and the cached field names stay, for the next request to find. |
| `session_protocol` | `"poll_busy"`, and `"no_pop"` | `AssertionsHold` (`cpp:366`, `cpp:322`; `cpp:331`) | `handle_input(false)` of a busy connection takes the request off the queue (`cpp:350`), or preprocesses the last response again, as `response_status_` is still `ready`: a row, which is not a final result, or the response of the last `PREPARE`, whose statement is gone. |
| `session_protocol` | `"early_pop"` | `AssertionsHold` (`cpp:433`) | `completion()` while the first response is unready uses a request id that has no value yet. |
| `session_protocol` | `"redescribe"` | `AssertionsHold` (`hpp:714`) | Describing a statement a second time asserts that it is not described. |
| `session_protocol` | `"handler"` | `AssertionsHold` (`hpp:1290`) | After an error that the handler has handled, `prepare()` goes on and asserts that there is a statement. |
| `session_any_use` | nothing | `TimedWaitHasResponse` | `wait_response(timeout)` returns false at once if nothing has arrived when it is called (`cpp:396`): the status is `empty`, not `unready`. |
| `session_any_use` | nothing | `TimedWaitIsBounded` | The remaining time is not checked for zero before the next wait (`cpp:390`); -1 means no limit. |
| `session_protocol` | nothing | `ReadyMeansResponse` | `wait_response()` returns true for a describe request, whose response has been consumed (`cpp:342`). |
| `session_protocol` | `"no_pop"` | `NoDanglingStatement` | `unregister_ps()` destroys the statement that `last_prepared_statement_` points to (`cpp:347`). |
| `session_protocol` | `"discard"` to `Faults` | `RegistryMatchesServer` | An executed `DISCARD ALL` leaves the registry as it was. |
| `pool_any_use` | nothing | `NoNullDereference` | `connect()` after a `disconnect()` dereferences the null pointers of lent connections (`connection_pool.cpp:78`). |
| `pool_lending` | nothing | `LentIsConfigured` | A connection that `connection()` reconnects is lent without a call of the connect handler (`connection_pool.cpp:118`). |
| `pool_lending` | `"connect"` to `Faults` | `DisconnectedMeansClosed` | A `connect()` that throws midway leaves connections open, and `disconnect()` returns at once (`connection_pool.cpp:90`). |
| `pool_lending` | `"timeout"` to `Faults` | `NothingLentMeansFree` | A wait of the release handler that runs out leaves the connection with a request (`connection_pool.cpp:49`, caught at 142); the next `connection()` finds it not ready, throws, and its slot is never lent again (116-122). |
| `pool_lending` | `"assign"` to `Usage` | `NothingLentMeansFree` | Assigning to a valid handle destroys its connection without a release (`connection_pool.hpp:50`). |
| `servers` | `StartMoved = TRUE` | `TimerCallsItself` | The move assignment of `iTimer` does not store its address in the extension area (`ws/timer.cpp:48`), and `remove_timer()` move-assigns the timers behind the removed one. |
| `servers` | `"close_in_close"`, `"close_again"`, `"close_in_for_each"`, `"stale_io"` or `"chunk"` | `NothingDangling`, `ConnectionsLive` | A close handler that closes another connection of the `close_connections()` in progress, or a callback of `for_each()` that closes one, invalidates the iteration (`ws/listener.cpp:315`); a close handler that closes its own connection again fails an assertion; an `Http_io` stays valid after an immediate handshake, and after a response that `send_data()` has completed with a response handler set (`ws/http_io.cpp:72`); a response handler that returns true before all is sent (93) leaves the next call of its wrapper without `rep_`. |
| `servers` | `Rivals = TRUE` | `PidFileKept` | `dump_pid()` truncates the file of an instance that runs. |
| `libraries` | `ReplacedLate = TRUE` | `ObjectsKept` (`SocketsOwned`) | After an error or a close by the server `uwsc_free()` has closed the socket but keeps its number, and the destructor of the connection closes that number again. |
| `libraries` | nothing | `LargeObjects!CloseKeepsTransaction` | `close()` that succeeds assigns `Large_object{}`, whose temporary has the old descriptor and closes it again: an error of the server, which aborts the transaction (`large_object.hpp:127`). |
| `libraries` | nothing | `Sqlite!ClosedOnce` | `close()` after a failed step keeps the handle, which is finalized a second time. |

Some properties state the deviation themselves, as what the code does:

- `AssertionsHold`: a link found broken in `handle_input()` makes `status()`
  `failure` while the session's start time is set (`connection.cpp:533`), so that
  the class invariant asserted at line 366 fails, in that call and in no other.
- `LentReady`: a connection whose release handler threw on its last return is lent
  with what its holder left. The default handler throws before `DISCARD ALL`
  when the pending request ends in an error (`connection_pool.cpp:49`), and at it
  in a transaction (50).
- `OptionsKept`: `ssl_certificate_authority_file(nullopt)` with verification
  enabled breaks the invariant (`connection_options.cpp:344`, 399), and no other
  call does. A WebSocket idle timeout below one second is none, although
  only `nullopt` is said to be eternity (`ws/listener_options.hpp:74`); one of one
  up to eight seconds terminates the program in uWebSockets.
- `FormsRead`: a form with `filename=""` or `charset=""` terminates the program
  (`mulf.hpp:655`).
- `ParametersFound` (of `Queries!Read`): `remove_parameter(name, offset)` removes the first of the name
  behind the offset, so of `a&a` one stays, although its effect is said to be
  `!has_parameter(name, offset)` (`url.hpp:320`).
- `RequestChecked`, `ResponseChecked`: a float for an id terminates the program, also
  in a request that is invalid for another reason (`request.hpp:687`,
  `response.hpp:183`, 223).
- `ExtraRead`: an empty line before a second text of a query terminates a debug
  build (`sql_string.cpp:495`).

### What the properties except

**`concur`, `pgfe` connections.** A callback of `process_responses()` that takes
errors and has returned `complete` does not get a later error, which is thrown
instead (`connection.hpp:602`; the comment at 503 says it is passed). An error
handler that returns true yields an invalid `Completion`. `remove_large_object()`
returns the result of `lo_unlink()` as a bool, so that the failure -1 is true
(`connection.hpp:1070`). Moves of a `Connection` leave the pointers of its
statements and large objects at the old address; copies of a `Large_object`
share a descriptor.

**`pgfe` statements and data.** `bind_no_copy(index, const Data&)` calls `bind()`
with a pointer and so binds the text of an address (`prepared_statement.hpp:392`).
`parameter_count() == index + 1` after `bind()` (293) does not hold if there are
more. Binary data shorter than the type land in the most significant bytes on a
little-endian host, and are not sign-extended on the other. `to<short>()` of a
text checks the maximum only. A blank text converts to an uninitialized
unsigned number, "" and "o" to the bool true. `Composite` dereferences null data
in copies and comparisons, `cmp()` is not antisymmetric, `insert()` cannot
append, `append(Composite&&)` leaves nameless fields behind, and `remove(name)`
removes one of several fields of the name. `Data_view::to_data()` of a text has
no terminating zero, which `to_bytea` reads.

**SQL texts.** The character that follows a token is not interpreted: `a-:b`,
`1/:a`, `:a:b`, `'x'--c`. `$;` and `/;` do not terminate a statement, and at the
end of a text the position is behind it, at which `Sql_vector` throws. `**/` does
not end a comment. `$a$ x $b$a$` and a lone `$` in a dollar quote are missed, and
quotes inside `[...]` are ignored. After an `append()` or `replace_parameter()`
that throws, `named_parameters_` refers to fragments that are gone. Comments of one
line are never joined, so that data over several of them throw; a lone `$` in a
related comment throws; empty lines in a bordered comment prevent the removal of
the border; named parameters make `query_absolute_position()` wrong.

**Arrays.** An escaped backslash before the closing quote is misread,
backslashes are not escaped by `to_array_literal()`, an empty quoted element is
rejected, `{1,{2}}` is flattened, `{{1}{2}}` and `{"a""b"}` are accepted, and
trailing spaces of unquoted elements are kept.

**Options.** The invariant does not check timeouts.
`detail::pq::Connection_options` exchanges pointers into strings that are moved.

**`fcgi`.** `read_header_length` is not reset, so that after a discarded or
management record the same header is processed again. The invariant bounds the
unread content by the size of the buffer, though a record may have more.
`reset_reader()` forgets the padding of an end-of-stream record, and `accept()`
does not read that of the begin-request record (`fcgi/listener.cpp:166-169`), so
that the stream begins inside it. A get-values
record reads the records behind it, too. A foreign record of the request's own type
gets an end of the request, and `close()` writes another. A Filter may close
before the end of its standard input, or throws and never ends the request. A
first header that comes in parts is refused without an answer. A get-values
record that repeats variables fails an assertion. `Names_values::add(name, value)`
does not copy. Lengths of four bytes overflow `int` when added.

**`http`.** `close()` terminates the program always. A start line whose first read
is shorter than 16 bytes or ends between CR and LF makes `receive_head()` fail
for ever, one split elsewhere needs another call. A small `receive_content()` of
held content does not decrement what is to be received, and the content in a
full head buffer is never subtracted. `dismiss_content()` terminates if the content
comes in parts. A header line without a colon ends the head. In cookies `=v; a=b`
terminates and `=v` is accepted; two cookies of one name make `remove_entry()`
terminate; a `Set-Cookie` with an empty value at the end, or a value that begins
with a separator, is printed but not read; `__Secure-x=1` without `Secure`
terminates.

**`net`, `os`.** A Unix domain socket is made with the protocol of TCP, which Linux
refuses. After a `listen()` that fails `is_listening()` is true. `Socket_address`
truncates the port, and the invariant of `Endpoint` does not check it; a
listener's socket is always of IPv4. A poll that is interrupted throws. With a
relative path a process that detaches writes its PID file before the directory
changes and removes it after. A failed step of `detach()` leaves the file. The
handler of SIGSEGV, SIGFPE and SIGILL returns to the instruction that faults.

**`ws`, `wscl`.** `close()` and `abort()` of a connection end it in uWebSockets,
whose close handler destroys the `Conn`, and then write its `ws_`
(`ws/connection.cpp:84`, 91), as does every plain use. `close_connections()` after `close()` does nothing, and connections
upgraded after it keep `run()` going. References of `add_timer()` dangle after the
next. The close frame of the client's destructor is dropped with its buffer. Ping
timeouts are forgotten when the interval is longer than five seconds
(`uwsc.c:603-641`), so that a silent server is not noticed; `ping_interval_` is
uninitialized by default. `is_open()` is false also before `handle_error()`.

**`sqlixx`.** `execute(values)` after a failed or stopped execution uses the old
bindings (`statement.hpp:308`). A callback with an integer gets `SQLITE_ROW` per row
where the comment says 0. `parameter_name()` asks for a column's name. A
connection that is destroyed with live statements, or whose opening failed, leaks its
handle. A temporary `Data` is freed before it is bound, so NULL is bound.

**`mulf`, `url`, `ttpl`, `jrpc`, `rajson`.** A form that is cut behind a delimiter
terminates the program, `;` behind a value is rejected, a form that begins with the
delimiter is not found.
`a=1&&b` terminates, a text that ends within `%X` is accepted, characters below
16 are encoded by one digit. An unfinished `{{` at the end is lost, `{{  }}` is
dropped, the character behind `}}` is always text, and a replacement that contains
the replaced name terminates. `parameter(position)` beyond the size terminates; `parameters_not_null()` accepts NULL (`request.hpp:433`; the
comment at 421 says it throws). A member with an empty name is not found.

**`str`, `cfg`, `progpar`, `dt`, `que`, `math`.** A quoted text whose last character is
a quote that is escaped, or alone, is accepted unclosed. `a=''` terminates the reader of
configurations. `--=b` is taken for the end of the options. `operator<` of timestamps
compares any field and is no ordering; `set_time()` accepts hours of up to 59, for which
the assertion of the invariant terminates; `from_rfc7231()` ignores the characters
between fields. `pop_front()` of an empty array moves behind what was pushed
(`fifo_array.hpp:93`), `push_back()` at the capacity is unchecked. `is_power_of_two(0)`
is true, `aligned()` overflows to zero.

## Proofs

`tlapm` proves the theorems for every value of the constants that the named
assumptions allow: any number of workers, connections, peers, timers or
processes, buffers and contents of any size. The assumptions are
`PoolAssumption` (in `ThreadPool` and in `ConnectionPool`),
`ConnectionAssumption`, `FastCGIAssumption`, `ServersAssumption`,
`StmtAssumption`, `ObjectsAssumption` and `DataAssumption`: model values are distinct from each other, bounds and sizes
are numbers, and a buffer has room for something. TLC evaluates them on the
runs. A theorem that holds only for some uses says so in its statement, with a
condition on `Usage`, `Faults`, `TaskCalls`, `Rivals`, `StartMoved`,
`ReplacedLate` or `ByteBase`; the runs of the same property satisfy it.

Every safety property that a run checks is a theorem, with an invariant that is
inductive, but five of the nine of `libraries`, see [Left to TLC](#left-to-tlc).

### ThreadPoolProofs

| Theorem | States | Under |
|---|---|---|
| `TypeCorrect` | `Spec => []TypeOK` | |
| `AssertionCorrect` | `Spec => []AssertionHolds` | |
| `TerminationCorrect` | `Spec => []NeverTerminates` | no function stops its pool |
| `QuietCorrect` | `Spec => []StoppedMeansQuiet` | no function stops its pool |
| `OrderCorrect` | `Spec => []InOrder` | |
| `ExecutorImplemented` | `Spec => ImplementsExecutor` | no function stops its pool |

`AssertionHolds` is about a worker that has left its wait and reads
`is_running_` again: a work is there. It is not inductive: a worker that left
its wait because the pool was stopped sees the flag set if a `start()` comes
before its second read. `AssertionInv` adds what prevents it: a worker from the
predicate to the decision owns `queue_mutex_`, so nobody empties the queue; a
running thread has not been joined (`AliveIsJoinable`), so `start()`, which
assigns only over threads that are not joinable or terminates the program,
cannot meet a worker that is still deciding; and a worker calls the pool only
from its function (`CallerInTask`), never under `queue_mutex_`. This holds even if functions stop
their own pool.

`StopInv` is the invariant of a `stop()` in progress: it holds `work_mutex_`,
the flag is down, the workers with an index below `joinIndex` have been joined
and the others have not been touched. When it ends all have ended; so the next
`start()` finds nothing joinable. It needs that no function stops its pool,
because `StopJoinSelf` ends the loop in the middle. `OrderInv` says that works
begun and waiting are increasing and at most the number of submissions.

`ExecutorImplemented` maps every action of the pool to an action of `Executor`
or to a stutter. The interesting steps are the end of `stop()`, which closes
the executor and by `StopInv` finds every place free, and `Take`, which by its
second read of the flag happens only in the open phase. The initial condition
is `RefinementInit`, the step `RefinementStep`.

### ConnectionPoolProofs

| Theorem | States | Under |
|---|---|---|
| `TypeCorrect` | `Spec => []TypeOK` | |
| `OwnerCorrect` | `Spec => []OneOwner` | |
| `FreeSlotCorrect` | `Spec => []FreeSlotHasConnection` | |
| `LentReadyCorrect` | `Spec => LentReady` | |
| `DisconnectCorrect` | `Spec => []DisconnectedMeansClosed` | `ConnectionReturns`, the connect handler does not throw |
| `NothingLostCorrect` | `Spec => []NothingLentMeansFree` | `ConnectionReturns`, no valid handle is assigned over |

`OwnerInv` is the conjunction of the first three, which is inductive: a
connection can be lent without having another owner because a free slot has its
own, and a slot is freed only when its connection is back. `ReadyInv` adds
`SlotsDiscarded`: with the release handler in place an open connection in a slot
is clean, or its handler threw when it came back; so `LentReady` holds of
`Acquire`, the only step that lends (`OnlyAcquireLends`).
`ConnectionReturns` says that the release handler is in place, that no
wait in it runs out and that `Connection::connect()` does not fail: a connection
in its slot may then have traces, but never a request, and `connection()` does not
throw (`NeverThrows`). In that case the flag of a slot is set
exactly while its connection is away (`FlagsTrue`), from which the last two
follow: `disconnect()` passes over the lent connections only, which `Release`
closes, and a busy slot has a holder (`BusyMeansLent`). `pool_leak` shows that
the condition is needed.

### SessionProofs

| Theorem | States | Under |
|---|---|---|
| `TypeCorrect` | `Spec => []TypeOK` | |
| `NoDataWithoutSession` | `Spec => []NoSessionNoData` | |
| `RequestInFlightCorrect` | `Spec => []RequestInFlight` | `NeverBusy`: no polling of a busy connection, no waiting with a timeout |
| `InvariantOkCorrect` | `Spec => []InvariantOk` | `NeverBusy`, no `disconnect()` during the establishment |
| `ResponseOfProcessedRequestCorrect` | `Spec => []ResponseOfProcessedRequest` | `NeverBusy` |
| `FieldNamesFreshCorrect` | `Spec => []FieldNamesFresh` | `NeverEarly`: `NeverBusy`, no `completion()` of an unready response, no `PGRES_BAD_RESPONSE` |
| `RegistryMatchesServerCorrect` | `Spec => []RegistryMatchesServer` | `ServerKept`: `NeverEarly`, no `DISCARD ALL` |
| `NoDanglingStatementCorrect` | `Spec => []NoDanglingStatement` | `AlwaysPops`: `NeverBusy`, each response is released before the next request |
| `AssertionsHoldCorrect` | `Spec => AssertionsHold` | `AsDocumented`: `NeverEarly`, and none of `connect`, `handler`, `redescribe`, `give_up` of [Known deviations](#known-deviations) |

The argument has layers, each an invariant that is inductive relative to the
ones before it:

1. `SessionInv`, for every use and fault: types; without a session there are no
   data of one and no command; a row in the response has its field names; the
   registry has a newest statement of each name (`HasNewest`).
2. `FlightInv`: a request is in the queue exactly while libpq has a command in
   progress, the name kept for its response is the name in the command, and a
   response that is unready is that of the command. It needs `NeverBusy`, as
   `session_busy` shows.
3. `Establishing`: the polling status is set only while a connection is being
   made, from which the class invariant follows.
4. `ResultInv`: an unready response is one that the server may give to the
   request, what was kept for a response is cleared with it, and field names are
   those of the response in progress.
5. `RegistryInv`: a name is registered once, and the registry follows the server:
   it lags behind by the statement of the command whose result has not been
   preprocessed, and by no other.
6. `PointerInv`: while a request is in flight, `last_prepared_statement_` is null,
   so the end of an unprepare request leaves nothing dangling.
7. `AssertionInv`: the facts that the assertions test when they are reached; for
   the synchronous functions the command, its outcome and whose response it is.
   The class invariant holds at the end of every step of `handle_input()` but the
   one that finds the link lost, whose `status()` is then `failure`.

The conditions are necessary: adding one of the excluded uses to a run gives the
counterexample in [Known deviations](#known-deviations).

### FastCGIProofs

| Theorem | States | Under |
|---|---|---|
| `TypeCorrect` | `Spec => []TypeOK` | |
| `ContentReachesReader` | `Spec => []ContentDelivered` | |
| `ReplyIsWellFormed` | `Spec => []ReplyWellFormed` | |
| `RequestIsAnswered` | `Spec => []RequestAnswered` | |

`Inv` is `TypeOK`, and that the values of a record are being read only while there
is one. `ContentInv`, for clients that send none of the records in `provoked`:
what is owed to the reader is what is unread of the record, of which there is
something when a header has just been completed, and at the end of the stream
nothing. `ReplyInv` says that the log of records is ordered (a stream ends once,
the error stream before the output, the end of the request last), that an end
is in it only when the stream is closed, which happens only when the request
is served, and which stages may see which input; `RequestAnswered` needs the
last. The lemmas about what is appended to an ordered log carry most of it.

### ServersProofs

| Theorem | States | Under |
|---|---|---|
| `ResponseNotReset` | `ServersSpec => []NotReset` | |
| `TimersCallThemselves` | `ServersSpec => []TimerCallsItself` | `~StartMoved` |
| `PidFileAlwaysKept` | `ServersSpec => []PidFileKept` | `~Rivals` |
| `ConnectionsAlwaysLive` | `ServersSpec => []ConnectionsLive` | none of the uses of `UsageKind` |
| `NothingEverDangling` | `ServersSpec => []NothingDangling` | none of the uses of `UsageKind` |
| `HeadAlwaysReceived` | `ServersSpec => []HeadReceived` | |
| `ContentAlwaysAccounted` | `ServersSpec => []ContentAccounted` | |

Each component has an invariant over its own variables, preserved by its own
next-state relation and by the stuttering of the others.

- `NetInv`: when the drain of `close()` is over and something is unread, it was
  sent after the second of silence (`late`).
- `TimersInv`: the names of the timers are distinct and `TimerCallsItself`. The
  position of a timer is followed through the reallocation in `Add_timer`, which
  stores it anew, and the removal in `Remove_timer`, which does not (`shifted`).
- `ProcessesInv`: one process at most is active; what `start()` has still to do
  (`Started`) says what it has done; a working process that has a PID file has
  its number in it; the number of a process is only where it will look for it
  (`OwnPlace`), unless it detached with a relative path (`Misled`).
- `WebSocketsInv`: a connection is represented while its exchange is open and
  told of its close once; a valid `Http_io` belongs to a pending exchange, or to one
  that was completed behind its back and that nobody uses again; the
  list has each open connection once (`Distinct`), or while `close_connections()`
  iterates, what is left of the list has (`Left`). The hard steps are the close
  callbacks in the iteration (`Close_next`).
- `HTTPInv`: for each direction, what the sender has sent and announced
  (`SentInv`) and what the receiver has of it (`ReceivedInv`), which is
  `HeadInv` before the head is complete and `CountedInv` after it: the cells in
  flight, unsent, delivered and held in the head buffer make what was announced,
  and `unreceived_content_length_` counts at least what is held.

### ObjectsProofs, DataProofs and LibrariesProofs

| Theorem | States | Under |
|---|---|---|
| `StatementsAlwaysRun` | `LibrariesSpec => []StatementsRun` | |
| `ResponsesAlwaysKept` | `LibrariesSpec => [](R!RowsKept /\ R!ErrorsReported)` | |
| `LargeObjectsAlwaysOwned` | `LibrariesSpec => []L!DescriptorsOwned` | |
| `BindingsAlwaysKept` | `LibrariesSpec => []I!BindingsKept` | |
| `HandlersAlwaysInOrder` | `LibrariesSpec => []W!HandlersInOrder` | |
| `ObjectsAlwaysKept` | `LibrariesSpec => []ObjectsKept` | `~ReplacedLate` |
| `OptionsAlwaysKept` | `LibrariesSpec => OptionsKept` | |
| `JrpcAlwaysUnderstood` | `LibrariesSpec => []JrpcUnderstood` | a byte has 2, 4, 16 or 256 values (`ByteBase`) |

`ObjectsAlwaysKept` puts the four before it together with `SocketsOwned`. The invariants
are over the variables of one object each, and `ObjectsProofs` and `DataProofs` know no
other object; `LibrariesProofs` adds that a step of the libraries is one of the
object that runs or leaves it as it is (`ObjectsMove`, `OptionsMove`, `JrpcMove`).

- `StatementsInv` is `StatementsRun` itself with the types, with what it says of a
  run also before its first step (`Asked`), and that an object without a
  statement has no result of one. The moves and swaps permute the holders;
  `Execute` resets and binds by the condition of the code.
- `ResponsesInv`: what is to come is rows and then the end that the server has
  decided on, and while the callback wants rows they are the next ones
  (`ComingInv`); how `process_responses()` may be suspended, and in which state
  it is when it calls itself (`CallInv`); nothing is reported before the end,
  and at the end an error and nothing else is (`ReportInv`).
- `LargeObjectsInv`: no two sessions have the same transaction (`OneTransaction`),
  so that an object of an earlier transaction can be told from those of this
  one; an object has an open descriptor as long as its transaction goes on
  (`OpenInOwn`), and a descriptor that is not copied is in one of them
  (`OwnedOnce`). The lemma that carries the proof is `ClosedTransactions`: since
  `close()` closes twice, a close of any valid object aborts the transaction that
  its connection is in, and every other one keeps what is open in it. Descriptors
  are given by `Min`, which is the least free one
  (`LeastFree`, by the well-founded order of the natural numbers).
- `BindingsInv`: what a parameter is bound with is what has been asked for it
  (`FitInv`), a block that SQLite refers to being one that nobody may write or
  free, and memory has one owner (`MemoryInv`).
- `CallsInv`: which handlers have been called in each phase of a connection;
  `SocketsInv`: a descriptor is that of the connection it has been opened for, if
  this connection has not closed it (`OwnedInv`, `HoldingInv`), and the one that
  `uwsc_free()` is still to close when `onclose` has returned is not another's
  (`UnwindingInv`). The condition is necessary: with `ReplacedLate` the number may
  have been given to another connection when the destructor closes it again.
- `OptionsInv`, `ListenerInv`: each option has a value that its setter accepts, a
  host is named, and the limits of a listener fit an `int`. One lemma
  for each kind of option says what its validator accepts (`ValidPort`, ...);
  `SetOptionOnly` says of a step that breaks the class invariant that it removes
  the authority (`AuthorityPart`).
- `JrpcInv`: a request is its base members and, behind them, the parameters, which
  are what was set last, by position or by name (`PositionsSaid`, `NamesSaid`). That exactly the documents of JSON-RPC 2.0 are accepted
  (`RequestRead`, `ResponseRead`) and that a member is read in the types that have
  its value (`MembersAllRead`) is proved for any document. A search for a member is a
  recursive function over the position; what it finds is proved by the least
  counterexample (`Least`, `FindFirst`), which needs no induction theorem. That
  a number is read in the types it fits needs their widths, hence `ByteBase`.

### Left to TLC

- Liveness (`WorkIsTaken`, `SyncReturns`), which rests on fairness, and
  everything with ENABLED: the prover has no rule for them.
- What a parser computes for every text. The readers of `libraries` are loops over
  a text, written as recursive functions or folds, and their correctness needs an
  induction over the text, whose theorem takes the induction hypothesis as an
  operator; none of the provers can instantiate it. Where the search is simple, as
  in `Jrpc`, the least counterexample replaces it. Their properties are checked
  for every text up to the bound. `ParametersSent` is of this kind too: the arrays
  that libpq is given are made by a fold.
- The parts about objects of `PgfeDataKept`, `HeadTextsRead`, `TemplatesKept` and
  `UtilitiesKept` (composites, SQL strings, cookies, templates, calendar, queues),
  which are not proved yet.
- The deviations: that something does not hold is shown by a counterexample.

No module that a theorem reaches declares a RECURSIVE operator.

## Not modelled

- In `concur`: `queue_size()` and `is_queue_empty()`; a function that calls
  `start()` (it needs `work_mutex_` as the observers do) or `clear()`.
- In `pgfe`: COPY, notifications and notices, SSL, moves of a `Connection` during
  a request, reading and writing of large objects, escaping by libpq, the tables
  of error codes and messages, conversions of containers and of user types. In the
  statement cache: the text of the statement behind the unnamed name. In the
  pool: a handler that calls the pool (it would lock a non-recursive mutex
  twice), and moves of handles other than assignment of a result.
- In `fcgi`: several connections at a time, which its server does not have, and
  debugging output. In `http`: headers other than those of cookies and of the
  content's length, which are passed through. In `net`: named pipes. In `ws`:
  the message and drain handlers, which change no state. In `wscl`: masks,
  fragments, TLS.
- In `sqlixx`: opening a database and `release()`. In `os`: the environment and the
  redirection of logs. In `math`: averages and statistics. In `str`: wrappers of
  `<cctype>`. In `url`, `jrpc`, `rajson` and `dt`: plain setters, the table of
  error codes, serialization by RapidJSON, the clock.
- `uuid` and `rng` are random data, `crc` is a table, `fsmisc` and `filesystem` are
  file access, `algo`, `assert`, `base` and `mem` are macros and small templates,
  `testo` serves the tests. `web` renders pages out of `fcgi`, `http`, `mulf` and
  `ttpl` without a state of its own.
- The build system, tools and `3rdparty`, which is vendored; what the code
  needs of uWebSockets, uwsc, libpq and SQLite is in the models, marked external.

What is worth doing next: invariants of the other objects; the refinement of
an abstract request-and-response specification by `Session`; moves of a
connection with its statements and large objects in one model.
