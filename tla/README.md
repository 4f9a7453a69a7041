# A verification project for wacs

wacs collects the probe requests of Wi-Fi devices. A daemon receives one packet per request, stamps it
and stores it in an LMDB database (libmdbx on Linux); command line and HTTP clients read the database,
load files into it and remove records from it. A variant of the daemon stores into PostgreSQL.

This directory holds TLA+ models of that program, the TLC configurations that check them and proofs for
TLAPS. Line numbers are those of `src/`.

## The system

### Components

| Component | Source | State | Operations |
|---|---|---|---|
| LMDB store | `dblog.cpp`, `dblog.h` | one ordered table with records of three tags: `L` log records (key: tag, MAC, time), `P` last probes (key: tag, MAC; value: time), `T` notifications; per process a `dbenv` with the environment and the current transaction | `openDb`, `closeDb`, `putLog`, `putLogEntries`, `readLog`, `rmLog`, `readLastProbe`, `putNotification`, `lsNotification`, `rmNotification`, `getNotification`; inside them `processMapFull` |
| collector | `lmdbwriter.cpp`, `wacs.cpp` | a socket, a `dbenv`, `stop_request` | `run`, `stop`, `reload`, the signal handler |
| client | `wacsc.cpp` | options, a `dbenv` per command | `log`, `probe`, the counts, `macs-per-time`, `remove`, `log-read`, the notification commands, `test` |
| HTTP server | `http-server.cpp`, `wacs-http.cpp` | a thread and a `dbenv` per request, `stop_request` | `/log`, `/last-probe`, the counts, `/macs-per-time`, files; `run`, `stop`, `reload` |
| PostgreSQL store and collector | `pglog.cpp`, `pgwriter.cpp`, `wacs-pg.cpp` | a connection | `openDb`, `putLog`, `putLogEntries`, `readLog`; the loop of the collector |
| histogram | `histogrammacspertime.cpp` | slots of a time range | `put`, `toString`, `toJSON` |
| SNMP | `snmp-params.cpp`, `utilsnmp.cpp`, `snmpagent-wacs.cpp`, `wacs-snmp.cpp` | counters of packets | `put`, `clear`, the agent's thread, the monitor |
| sender, codecs | `send-log-entry.cpp`, `wacs-c.cpp`, `hostapd-log-entry.cpp` | a socket | open, send, close; byte order and text conversions |
| daemonizer | `daemonize.cpp` | descriptors, session | `init` |
| the rest | option parsers, utilities, `third_party` | | |

### How they interact

Senders (`hostapd` through `wacs-c.cpp`, `wacsc test`) give packets to nanomsg, from where a collector
receives them. Beyond that the programs share nothing but the database file, or the PostgreSQL server. Every transaction, those of readers included, is begun
with flags 0 and is therefore a write transaction: the library lets one exist at a time, over all the
processes, and `mdb_txn_begin` waits. `putLog` is called by the collector for every packet; `putLogEntries`
and `rmLog` are called once, or once per MAC, by a client command. The readers give each record to a
callback, from inside the transaction.

### What is hard in it

* **A full memory map** (`processMapFull`, 52-101). A put or a commit that finds no room gives its
  transaction up, closes the environment, sets twice the size on a handle that it closes again, opens the
  database, begins a new transaction, and its caller repeats the call that failed, and only that. The
  writer lock is free in between; every one of the steps can fail.
* **Errors on the way**: what a failed call leaves in `env->txn` and `env->env`, and who ends it.
* **Keys that are bytes of C structures**: `LogKey` has a byte between `sa` and `dt` that nothing assigns,
  and a notification is stored under 16 bytes from the address of a 7-byte structure.
* **Cursor scans** that begin where a key of the query sorts and end at a record that is taken to be the last.
* **Threads and signals**: `stop_request`, the SNMP counters, `exit` in the handler of SIGINT; Ctrl-C in a client;
  requests that are being answered when the HTTP server stops.
* **Loops over MACs** of the clients: each MAC is a transaction of its own, other processes come in between, and
  pages, counts and return values go over all of them.
* **Waiting**: `mdb_txn_begin` waits for the writer lock as long as another process keeps it, without a limit (130, 200).
* **Delivery**: a bus that drops, a connection for each socket and each reconnect, hosts of two byte orders, statements that
  fail, and a server that may be lost.

What makes the components correct: a call stores all of its records or none, and undoes nothing of another
process; a record always has the last probe of its MAC; no process stops the others by keeping the lock; a
query gives what its parameters select; what a client says it printed, counted or removed is what it did; a packet is
stored at most once, as it was sent; and a stop that is asked for ends the process. `PROJECT.json` lists under "hazards" each place where these can fail.

## The modules

| Module | Models | Kind |
|---|---|---|
| `LogKeys` | keys, their order, a query, the scans of `readLog` and `rmLog`, the order in which a cursor gives rows | operators |
| `ProbeStore` | what the database promises its readers | abstract specification |
| `Dblog` | `putLog`, `putLogEntries`, `rmLog`, `openDb`, `closeDb`, `processMapFull`, by many processes | specification |
| `LogQuery` | the table as readers see it, with its three kinds of records | specification |
| `LogEntry` | the numbers of a packet and the byte order of hosts | operators |
| `Sender` | the senders of packets and nanomsg | component |
| `Pglog` | the PostgreSQL store: its calls, statement by statement | component |
| `PgDelivery` | senders, the collector of wacs-pg, `Pglog` and programs beside it | composition |
| `Courier` | what senders and a collector promise together | abstract specification |
| `Daemon` | the process of the collector: background, loop, agent, signals; wacs-snmp | specification |
| `HttpServer` | requests on their threads, on the table of `LogQuery`; start and stop | specification |
| `Client` | the commands of wacsc, on the table of `LogQuery`; Ctrl-C | specification |
| `MC...` | instances for TLC | |
| `LogEntryProofs`, `LogKeysProofs` | lemmas about numbers and hosts, about keys, scans, slices and counts | proofs |
| `DblogProofs`, `LogQueryProofs`, `PgDeliveryProofs`, `DaemonProofs`, `HttpServerProofs`, `ClientProofs` | theorems about the modules of these names | proofs |

How they hang together: `Dblog` has the calls of the store step by step and shows that each is one change of
`ProbeStore`; `LogQuery` takes each call as one step and looks into the table, which is why it says nothing
of crashes or of calls that meet; `HttpServer` and `Client` use `LogQuery` for each transaction (its `Next` is what other processes do meanwhile) and have the
loops around it. `PgDelivery` composes `Sender` and `Pglog` and implements `Courier`.

Operators whose comment begins with "Mutant of" are wrong versions of the definition they stand beside;
no specification uses them. Put in its place, each makes the property that `PROJECT.json` names fail.

### Dblog

A process is a collector, a loader (`wacsc log-read`) or a remover (`wacsc remove`). An action is one call
of the code to the library, with what the code does before the next.

| Variable | In the code |
|---|---|
| `db` | the committed table: `log`, the keys with tag `L`, and `probe`, the time under each key with tag `P` (0: none) |
| `lock` | the library's writer lock |
| `mapSize` | the size of the map in the file, counted in entries |
| `clock` | `time(NULL)` |
| `pc`, `step` | the place in the call: `begin`, `put`, `next` (a line of the file), `scan`, `commit`; `mfAbort`, `mfOpen`, `mfBegin` (inside `processMapFull`); `retry`, `failed` (what its caller does next); and which put or commit it is about |
| `env`, `txn` | `dbenv.env` and `dbenv.txn`: a pointer to a transaction that has ended is `stale` |
| `work` | what the transaction has written: the table it would commit |
| `rec`, `count`, `seen`, `ret` | the locals `key`, `c` or `cnt`, `current_info.me_mapsize`, and the value the call returned |
| `batch`, `recovered` | history: the records the call was given, and whether it went through `processMapFull` |

The library is modelled from how the code uses it and is the external part of the map: `Acquire`
(`mdb_txn_begin`), `Abandon` (`mdb_txn_abort`, or a commit that fails: both free the transaction),
`Publish` (`mdb_txn_commit`), `Fits` (`MDB_MAP_FULL`). `Faults` says which errors a run has: `begin`,
`commit` (the commit finds the map full), `info`, `size` (the doubled size is refused, which is only logged, or forgotten with the handle
it was set on, which is up to the library), `reopen` (`openDb` fails outside its transaction, or at its
commit), `dbi` (at `mdb_dbi_open`, with its transaction alive) and `crash`. A use of a freed transaction
(`RetryOnStale`, the second abort in `MapFullAbort` and `RecoveryFailed`) is undefined in the code: the
model lets the library refuse it, and a run with `crash` lets the process die there.

Left out: the data of a record (device and signal), which no property tells apart; the two error codes of
the two puts are one; the errors of a put other than a full map, and of `mdb_cursor_open`. An overwriting
put may need a page in a copy-on-write tree; here it needs no room when the entry is there already. The
clock does not go back. `ret` is reset when the next call begins.

### LogQuery

One table; a call is one step. The rows sort by tag, then MAC, then what follows in the key. Calls that only
read are operators, so that an invariant can ask every query of every table. `Junk` is what the stack
holds after a `LastProbeKey`; `TextTime` is what the first bytes of a notification give when they are read as
a time (below 0: the text is too short for one, and `readLastProbe` passes it over, `WithTime`). `PutLog` stands for a whole call of `putLog`, or for a line of a file: transactions are Dblog's.
`LogKeys` has the scans of the log, where the byte that nothing assigns is `pad`.

### LogEntry, Sender, Pglog, PgDelivery

`LogEntry` has the two bytes of a number in a host's memory. A sender always swaps (`htons`), a collector only when it
was compiled for a little-endian host (`#if BYTE_ORDER`): `Sent` and `Received`. In the program a byte has 256 values;
`Base` is a constant.

`Sender`: `sock` is what `openSocketLog` leaves, `call` the loop of `sendLogEntrySocket`, `calls` the loops of `sendTest`.
nanomsg is external: it connects some time after `nn_connect` returned, and again when a connection breaks (`LosesConnection`), drops a message
where there is no connection or no room, and gives each message once. Each connection is a pipe of its own (`Channel`, `links`; `pipe` has the messages
on their way, `sent` the history): what a closed socket or a broken connection has still to deliver (`Breaks`: some beginning of
the pipe) stays there, and the collector takes from any pipe. So the messages of one connection arrive in their order, and those of two, of one sender too, in any. `hostapd` keeps a socket or opens one for
each call; `wacsc test` opens one for each call, whose result it does not look at.

`Pglog`: a call is the list of its statements (`todo`), and an action is one statement with the server's
answer. `conn` is the pointer in `dbenv`: after `CHECK_STMT` it is `finished`, and the code goes on with it; `link`
tells whether the server can be reached, `session` is the transaction at the server, `loc` the table; `given` (the rows the call is to
store) and `outcome` (what the calls that ended returned) are history.
A use of a finished connection is undefined: libpq refuses it (`UsesFinished`) or the process dies (`Exit`, `Gone`).
The lost answer to `END` is `EndUnanswered`.

`PgDelivery` adds the loop of `pgwriter.cpp` (`stage`), which can end at any point by a signal and start again, and programs
that call `putLogEntries` or `readLog` once. No program of the repository makes these two calls to PostgreSQL; they
are modelled because `pglog.h` offers them.

### Daemon

`at` is the place of the main thread in `main`, `Daemonize::init` and `run`, one value for each place between two steps
that another thread, a signal or a descriptor can tell apart. `fds` has what is open under each descriptor, since a
daemon closes all of them but 0 and new ones get the lowest numbers that are free. `handler` is the handler of SIGINT,
on the main thread or the agent's, which is held up by it: it sets `stop_request`, then calls `exit`, which ends the
process or hangs. A packet may be shorter than a `LogEntry` (`ReceiveShort`): `putLog` returns at once (`PutLogShort`), its bytes stay as they are, and
the loop counts it all the same; `whole` of `e`, `counter` and `monitor` is the history of that. The agent waits in `agent_check_and_process`, whatever
`stop_request` becomes meanwhile: it may answer one more request after a stop, until `snmpDone` closes its session. `counter` is `MonitoringParams` as far as packets change it; `put` is two steps, and the agent may read
between them, or in the middle of the first (`Torn`). `monitor` is wacs-snmp. `asked` is history: where the main thread was
when a stop was asked for.

### HttpServer

A thread with a request has the parameters, `ReqEnv`, the histogram, and the MACs that are left. A step is `openDb`, one
scan with all its callbacks (one transaction), `closeDb`, the answer. Between two scans other
processes change the database (`Others`, the whole of `LogQuery!Next`). `server` is the main thread: `MHD_start_daemon` accepts before it has returned,
`MHD_stop_daemon`, called by the handler of SIGINT, shuts the listener and all the connections down (`ShutDown`), so that an answer that is not
sent by then is cut (`Cut`), and joins the threads (`StopDaemon`). SIGINT before `MHD_start_daemon` has returned finds no daemon to stop, and the process
exits with its threads running (`"unstopped"`). Sizes are `size_t`: `SizeT` reduces them.

### Client

`client` is the process: the command line, the place, the arguments that are left, `ReqEnv`'s position and sum, and what the
function of the command returns. The arguments are what `strtomacaddress` makes of them: a prefix with its size, 0 for a text that is
no MAC, -1 for an empty one, which `main` puts there when there is none. A step is a transaction with its callbacks; Ctrl-C may come before any row of
it (`f` is the first row that is printed with the flag set), and the second one ends the process. Of the errors of the library a
missing row (`MDB_NOTFOUND`), a failing `mdb_txn_begin` and a put that fails are there; the others take the same ways through
these loops. `log-read` stores all its lines, or none, or, where the map is full at one of them, only those behind it (`Loaded`), as `putLogEntries` does
in Dblog; `effect` is what really came of a command.

## The runs

| Run | Instance | What it shows |
|---|---|---|
| `mapfull` | a collector and a loader of at most 2 lines, one MAC, times 1..2, a map of 1 entry that may double twice, or not, all the library errors and crashes | Every path through `processMapFull`: transactions and lock agree (`LiveTransaction`), nothing of another process is undone (`Isolation`, `CommitsOwnRecords`), a record has its last probe (`RecordsHaveProbes`), a success without `processMapFull` stored everything (`StoredUnlessRecovered`) and is one step of `ProbeStore` (`WholeUnlessRecovered`), the lock is given up (`LockIsReleased`) |
| `collectors` | two collectors and a remover, two MACs, times 1..3, room for all, failing begins and crashes | The last probe is the newest record of its MAC (`ProbeIsNewest`) and never goes back (`ProbeNeverRegresses`); each change of the database is one whole call (`ImplementsProbeStore`). This needs a map that does not fill, see `success`; the batches of a loader, with crashes, are in `mapfull` |
| `query` | MACs of two bytes, times 1..2, two values of each unassigned byte, at most 2 records and 2 MACs in a table | Every query: part of a MAC is answered exactly; a whole one is if the unassigned bytes agree; a removal deletes what is selected and can only miss records of the MAC that continues with zeros; last probes and notifications are all found |
| `success` | a collector and a loader of one line, a map of 3 entries | violated: see the findings |
| `pad` | as `query` | violated |
| `lastprobe` | as `query` | violated |
| `delivery` | `hostapd` on a big-endian host, with two calls of two messages each, for which it keeps its socket or opens another, two connections, pipes of two; a collector, a loader of two lines; statements are refused, connections drop, answers get lost, processes end anywhere | `Courier` is implemented (`ImplementsCourier`): nothing is stored twice, and what came over one connection is in its order, though a message of an old socket may come behind those of a new one; a call tells truly what it stored (`OutcomeIsTrue`); no transaction stays open on a connection that is used again (`NoIdleTransaction`); after a failed call none succeeds until the collector is started anew (`FailureIsForGood`) |
| `daemon` | with and without daemonizing and agent; whole packets of one MAC and one signal strength that is another number backwards, short ones of any bytes; a socket takes two descriptors | the log of a daemon does not go into the database (`LogNotInDatabase`); what wacs-snmp shows of a whole packet is a signal that was sent (`AnswersAreSent`); SIGINT ends the loop and the process wherever it comes, if the handler does not hang and the writer lock does not stay away for ever (`StopEndsLoop`, `StopEndsProcess`) |
| `signal` | as `daemon` | violated: see the findings |
| `http` | MACs of one byte, times 1..2, two rows; nine requests with two MACs each, among them a page above the default count, a histogram of a range given backwards and one without an end; a second thread; a `size_t` of 8 values | pages are slices of what was found (`PageIsSlice`), counts are running totals (`CountsAreTotals`), slots count what is in them (`HistogramAgrees`), although the database changes between the MACs; a request is answered unless the server stops listening or the writer lock stays away for ever (`RequestsAreAnswered`), and SIGINT ends the server unless a thread waits for that lock for ever (`InterruptEndsServer`) |
| `pagesize` | as `http` | violated: see the findings |
| `client` | MACs of one byte, times 1..2, three rows; twelve command lines with up to three arguments, of which some are no MACs; one value of the unassigned byte | rows printed are a slice of those found (`PrintsSlice`); `log` and `log-count` miss no record of any MAC that was there all the time, unless a transaction cannot begin (`ReadsAllMacs`; of a whole MAC this needs an unassigned byte that always has the same value, see `pad`); the number that `remove` and the notification commands print is that of what was removed or stored (`CountIsOfEffect`); what is removed was named (`RemovalIsNamed`); after Ctrl-C each MAC that is left prints one row at most (`InterruptIsPrompt`) |

**Bounds.** `MaxTime` ends the clock; `BatchMax` the lines of a file; `InitMap` and `MapLimit` the map;
`MaxRows` and `MaxMacs` the table of `LogQuery`. Two processes are enough for what the lock decides: one in a
recovery and one that commits in between; the third in `collectors` is one that removes. A map
of one entry fills at the put of a last probe and, doubled, at the put of a second record, so a
recovery is met at each kind of put, and a second one in the same call; doubled twice it holds a whole batch of two; not doubled, the repeated put fails. A batch of two has an
earlier line to lose. The properties of `query` are about pairs of rows (one selected, one that ends the
scan, or one selected that sorts before the cursor): two rows, one in a range and one before or after it, show each case. The
proofs have none of these bounds.

`MaxCalls`, `Repeats` and `MaxLinks` end what a sender sends, `PipeMax` what is on its way: two messages in one pipe have an order to lose, and
each can be lost before, after or around the other, stored, refused, or stored without the collector's knowledge; two connections show what one cannot, the rest of an old socket
that comes behind what the next one sent. `wacsc test` is a sender that never keeps its socket, which hostapd may do too: `delivery` has the one sender, the proofs have any number of both kinds. `Base = 2` gives words of two bits: 1 backwards is 2, so a
swap too many, too few or too wide shows. `LastFd` and `SocketFds` leave room for the agent, the socket and the database. Requests with two MACs show what goes over
the border of two scans; of three rows one can be before, one on and one behind a page. `DefaultCount = 1` is less than the rows there can be, and one page asks for more. `SizeMax = 8` has room for all sums of
the requests but the one of a count of -1, which is to wrap. The second thread of `http` asks for
files: threads share only the database, which `Others` changes anyway, and the stop, for which all requests are alike.

**Deadlock** is checked in every run: collectors, servers and clients can always be started again.

**Fairness.** `FairSpec` adds weak fairness of `TxnStep(p)`: a process inside its transaction goes on. The
code there calls the library and computes; it does not wait for another process, and the file of a
loader ends (the bound `BatchMax`). Nothing is assumed of the arrival of packets, of the acquisition of the lock, of the
clock or of an error. That lock decides the rest: `mdb_txn_begin` waits for it without a limit (`dblog.cpp:130`, 200, 441, 693), and a `log-read` from standard input, or the
transaction that `openDb` leaves (below), may keep it. So no step that begins a transaction is fair, neither in `Daemon` (`LockStep`: `OpenDb`, `PutLog`) nor in `HttpServer` (`OpenDb`, `Scan`),
and the properties excuse a thread that waits for ever: `[](at = "put")`, `[]Waits(t)`. In `Daemon` the other steps of the main thread are fair (`WF(MainStep)`: it computes, or waits for the second of `NN_RCVTIMEO` at the most), and so is the handler of a signal
that came (`WF(HandlerStep)`); packets, requests of wacs-snmp and signals are not, and a handler that hangs is
not assumed away. In `HttpServer` the steps of a thread that neither begin a transaction nor send to a client are fair (`WF(Computes(t))`), and so is the
stop that has begun (`WF(ShutDown \/ StopDaemon \/ Exit)`); requests, clients that take their answer, and SIGINT are not. `PgDelivery` and `Client` have no liveness: the network may
stay away, and Ctrl-C may never come. `LockIsReleased` leaves out a process whose `env->env` is NULL: when `openDb` fails at
`mdb_dbi_open` inside a recovery that began at the commit of `putLog`, nobody ends its transaction
(`dblog.cpp:139`, 298-302) and the lock is kept until the process ends.

## Findings

* `success`: `putLog` and `putLogEntries` return a success ("@return 0 - success", `dblog.cpp:177-181`, 309-311)
  after the record, or the lines before the one that found the map full, went with the transaction that
  `processMapFull` aborted. In the counterexample the log record of a packet is put, the put of its last probe
  finds the map full, and the last probe alone is committed. What stays true is proved:
  a call never loses what another process committed (`CommitsAreOwn`), and a success without
  a full map means what it says (`SuccessMeansStored`). `wacsc log-read` prints the full count as "records added." (`wacsc.cpp:600`); the
  numbers of the other commands are right (`CountsAreOfEffects`).
* `pad`: the key of a log record has a byte that the README's table (361-366) does not have and nothing assigns.
  `readLog` with a whole MAC misses records where the byte differs.
* `lastprobe`: `readLastProbe` reports notifications as last probes: its loop has no test of the tag.
* `signal`: the loop counts a packet whatever `putLog` returned (`lmdbwriter.cpp:142-145`). One that is too short comes back from `putLog` before its bytes are
  swapped (`dblog.cpp:192-197`), and the monitor shows them as the "last signal SSI, dB" (`mib/WACS-COMMANDUS-MIB:162-163`). For whole packets `SignalsAreSent` is proved.
* `pagesize`: "Maximum record/page size is 1000." (`README.md:135`), but the 1000 (`wacs-http-config.cpp:19`) is the count of a request without one; any other count is taken as it is
  (`http-server.cpp:253`). What a page of any count holds is right (`PagesAreSlices`).

Not the subject of a run: `readLog` of `pglog.cpp` (135-144), which no program calls, always fails on a server that answers, since `CHECK_STMT` (45-52) compares the status of its
`SELECT` with `PGRES_COMMAND_OK` and libpq answers with `PGRES_TUPLES_OK`. `Select` of `Pglog` has it so.

## The proofs

Every invariant, action property and refinement that a passing run checks is also a theorem, for every value of the constants:
any processes, threads and senders, MACs of any length, any bytes, times, maps, files, requests, command lines and errors.
The proofs assume only what the named `ASSUME`s of the modules say (`KeyConstants`, `DblogConstants`, `QueryConstants`, `BaseConstant`,
`SenderConstants`, `PglogConstants`, `DeliveryConstants`, `DaemonConstants`, `HttpConstants`, `ClientConstants`): roles are disjoint, bounds and bytes are
numbers, a host has a byte order, a command line has an argument (`wacsc` puts an empty one where there is none). TLC evaluates them in every run.

Each module proves an inductive invariant `IInv` (`InvariantHolds`), from which its theorems follow.

### Dblog

| Theorem | States |
|---|---|
| `TypeCorrect` | `Spec => []TypeOK` |
| `TransactionsAreLive` | `Spec => []LiveTransaction` |
| `CallsAreIsolated` | `Spec => []Isolation` |
| `ProbesOfRecords` | `Spec => []RecordsHaveProbes` |
| `CommitsAreOwn` | `Spec => CommitsOwnRecords` |
| `SuccessMeansStored` | `Spec => StoredUnlessRecovered` |
| `CallsAreWhole` | `Spec => WholeUnlessRecovered` |
| `StoreIsImplemented` | `Spec /\ []NoRecovery => ImplementsProbeStore` |
| `ProbesAreNewest` | `Loaders = {} => (Spec /\ []NoRecovery => []ProbeIsNewest)` |
| `ProbesNeverRegress` | `Loaders = {} => (Spec /\ []NoRecovery => ProbeNeverRegresses)` |
| `RoomSuffices` | `RoomForAll => (Spec => []NoRecovery)` |

The first seven follow from `IInv`. The four invariants among them are not inductive alone; `IInv` adds

* `Locals`: at each place of a call, which role is there and what its locals hold (the record being put is
  one of the call's, a recovery is noted, a new call has no records yet);
* `LeftAlive`: a process that is between calls, or whose recovery failed, may still have a live transaction (the
  one `openDb` left), but it holds what the database holds; without it a later step could commit anything;
* `StoredSoFar`: as long as the call did not go through `processMapFull`, every record it was given but the one in
  hand is in the transaction with its last probe;
* `ProbesFollow`: in a transaction only the record in hand may not have its last probe yet.

Each part has a lemma for the step, by cases on the actions. That only the process with the lock
commits is `LiveTransaction`; that its transaction starts from the current database is `Acquire`; that nobody
else changes the database meanwhile follows from the two, which is `Isolation`. `CommitsAreOwn`, `SuccessMeansStored` and
`CallsAreWhole` are properties of steps: `DbChanges` shows that only a commit changes the database, and the invariant
says what it publishes. `CallsAreWhole` is the step of the refinement: with `Isolation` (nothing but its own records) and
`StoredSoFar` (all of them), a commit is `Record(batch)` or `Remove` of `ProbeStore`.

The other properties are false of `Spec`: a recovery breaks the refinement (run `success`), and a last probe that is put again after one is
older than those committed in between. `NoRecovery` says that no call goes into `processMapFull`; it is a hypothesis about a behaviour, not about
the code. `RoomSuffices` shows that a map with room for every key there can be meets it (`RoomForAll`; the run `collectors` has such a map),
by counting keys. With it every commit is whole (`StoreIsImplemented`). The invariant for the last probe is `Newest`: no time
in a table is later than the clock; and in a transaction the last probes are no older than those of the database (`InHand`), since the
record was stamped with the lock held, when all that was committed before had older stamps or the same. It needs `Loaders = {}`: lines of a file have any time.

### LogEntry, LogKeys

`NumbersSurvive`: a number that is sent is the one that is received, for every base and all byte orders of the hosts. It is what makes `PgDelivery` and
`Daemon` right about values.

`LogKeysProofs` has the lemmas for the rest: `Before` orders the keys of the log (`BeforeTransitive`, `BeforeTotal`), and what begins with the same bytes stands
together (`OthersFollow`); what a scan from a key on reaches, with a part of a MAC, a whole one, or zeros in place of the rest (`PartialRead`, `FullRead`, `PartialRemoval`); that `InOrder` gives each row once, in the order of the keys (a set of numbers has a least
member: the induction over numbers that the prover cannot instantiate is not needed); slices and counts of sequences that are put together.

### LogQuery

| Theorem | States |
|---|---|
| `TypeCorrect` | `Spec => []TypeOK` |
| `PartialReads` | `Spec => []PartialReadIsExact` |
| `FullReads` | `Spec => []FullReadIsExact` |
| `Removals` | `Spec => []RemovalIsSelected` |
| `LastProbesAreRead` | `Spec => []LastProbesAreExact` |
| `NotificationsFound` | `Spec => []NotificationsAreFound` |

`TypeOK` is inductive, and what the scans give follows from it and the order of the keys: a key that begins with the
bytes of a query is not before it; a row at which the loop ends is behind all that were selected. For `rmLog` with a part of a MAC the cursor is placed at
a key filled with zeros, which only keys of that very MAC can be before.

### PgDelivery (with Sender and Pglog)

| Theorem | States |
|---|---|
| `TypeCorrect` | `Spec => []TypeOK` |
| `OutcomesAreTrue` | `Spec => []OutcomeIsTrue` |
| `NoTransactionStays` | `Spec => []NoIdleTransaction` |
| `NoSuccessAfterFailure` | `Spec => FailureIsForGood` |
| `DeliveryImplementsCourier` | `Spec => ImplementsCourier` |

`IInv` says of each call which statements are left and that the open transaction holds exactly the rows of those that are done (`Calls`); that one collector at a time
has bound the socket (`OneCollector`); and where a packet is: in the pipe of its connection behind all that were sent there before it (`PipesInOrder`), in the hand of the one collector (`PuttersRow`), or
settled, stored or given up, and then older than all of its connection's that may still be stored (`SettledRows`). Nothing is said, or true, of the order between connections. The last part is what makes the refinement go through: a commit appends packets that
are newer than those of their connection that are stored, hence none twice and none out of its order. `SenderCounts` bounds the numbers, `ClientsRows` is the file of a client, which is loaded once.

### Daemon

| Theorem | States |
|---|---|
| `TypeCorrect` | `Spec => []TypeOK` |
| `DatabaseIsNotTheLog` | `Spec => []LogNotInDatabase` |
| `SignalsAreSent` | `Spec => []AnswersAreSent` |

`LogDescriptor` says where the free descriptors begin at each place between `main` and `openDb`: a daemon has closed 1 and 2,
but the socket takes at least two descriptors, and so these are gone when the database is opened. `Counted`: a whole packet gets to the counters only after `putLog` swapped it in place; what a short one leaves there is marked. `HandlerLives`: no handler outlives its process.

### HttpServer

| Theorem | States |
|---|---|
| `TypeCorrect` | `Spec => []TypeOK` |
| `PagesAreSlices` | `Spec => []PageIsSlice` |
| `CountsAreRight` | `Spec => []CountsAreTotals` |
| `HistogramsAgree` | `Spec => []HistogramAgrees` |

The properties are about a finished answer; `IInv` says the same of every moment between two scans: what is in the page, the sums and
the slots is right for the rows that were read so far (`Working`), whatever other processes did to the table, of which only `Database` (finite tables of keys) is needed.
The lemma of a scan (`PageStep`, `CountStep`, `HistogramStep`) carries it over the rows of the next MAC.

### Client

| Theorem | States |
|---|---|
| `TypeCorrect` | `Spec => []TypeOK` |
| `SlicesArePrinted` | `Spec => []PrintsSlice` |
| `AllMacsAreRead` | `Spec => []ReadsAllMacs` |
| `CountsAreOfEffects` | `Spec => []CountIsOfEffect` |
| `RemovalsAreNamed` | `Spec => []RemovalIsNamed` |
| `InterruptsArePrompt` | `Spec => []InterruptIsPrompt` |

`IInv` is `Works`, for the arguments that are done: what was printed is a slice of what was read (`Slices`), what `remove` and the notification commands return so far is the number of the effects (`Counted`), what was taken was named
(`NamedOnly`), one late row for each (`Prompt`), and the records that stay were read (`Complete`). `Database` has that each record's MAC has a last probe, also
after calls of other processes: where `lsLog` ends because a scan finds no row at or behind its key, the table has no last probe behind it either, hence
no record of the MACs that are left. The attempt to prove `ReadsAllMacs` showed that it must ask of a whole MAC that the unassigned byte has one value: when another record
carries another value, a scan may begin behind all rows, and the command gives the following MACs up.

### Only model-checked

`LockIsReleased`, `StopEndsLoop`, `StopEndsProcess`, `RequestsAreAnswered` and `InterruptEndsServer`: liveness under fairness is out of the prover's reach. The theorems about `Dblog`, `Daemon` and
`HttpServer` are about `Spec`, which the specifications with fairness imply.

## Not modelled

* `getNotification`, `sendNotification2queue`, the message queue and `reload`: nothing calls or reaches them.
* The class of `NanoMessage.cpp`: no program makes one.
* Option parsing beyond what wacsc's commands get (`Client!Request`): its results are constants and inputs.
* Text: formatting of dates and MACs, JSON, HTML, headers and types of files; `toString` and `toJSON` of the histogram.
* `setFdLimit` and the pid file, which is overwritten without a look; the Windows service and all `#ifdef _MSC_VER`.
* The functions of `pglog.cpp` that return `ERRCODE_NOT_IMPLEMENTED`.
* SIGINT on a thread that answers a request: `MHD_stop_daemon` would wait there for its own thread. Where the kernel delivers it is not
  the program's choice; `HttpServer` has it on the main thread.
* A deletion that finds the map full (`dblog.cpp:648`), and notifications put into a full map.
* The conversion that `sendLogEntry` makes (83-86) and does not use.
* Vendored code.

## Plan

Done: the modules of the table above, their runs, and theorems for every safety property that a passing run checks.

1. What a success through `processMapFull` leaves true: the entry that was put again is stored, and the records that are missing are those of the same call that came before it. A property of `Dblog`,
   checked by `mapfull`, then its theorem with the `recovered` cases of `StoredSoFar`.
2. The hazards of `PROJECT.json` that have no property: how far a last probe can go back, by a file of old records or by one that is put again.
3. `StoreIsImplemented` for calls that go through `processMapFull`, of a store that may lose the first part of a call.
