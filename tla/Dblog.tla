------------------------------- MODULE Dblog -------------------------------
(***************************************************************************)
(* The processes that write the log database, at the granularity of the    *)
(* calls dblog.cpp makes to the storage library.                           *)
(*                                                                         *)
(* A collector is the wacs daemon (lmdbwriter.cpp): it calls putLog for    *)
(* every packet.  A loader is `wacsc log-read`, which calls putLogEntries  *)
(* once; a remover is `wacsc remove`, which calls rmLog for each MAC.      *)
(* Every transaction is begun with flags 0, hence is a write transaction:  *)
(* the library lets one process at a time have one.  A put that finds no   *)
(* room in the memory map goes through processMapFull, which gives the     *)
(* transaction up, opens the database again and begins another.            *)
(*                                                                         *)
(* The library (LMDB, or libmdbx on Linux) is modelled from how dblog.cpp  *)
(* uses it: the writer lock, the private copy a transaction works on, the  *)
(* map that can fill, and the errors the code tests for, which a run       *)
(* enables with Faults.                                                    *)
(***************************************************************************)
EXTENDS LogKeys, FiniteSets

CONSTANTS
    Collectors, Loaders, Removers,  \* processes
    NoProc,         \* the owner of a free lock
    NoKey,          \* no record is being stored
    InitMap,        \* the size of the map, in entries, when the database is new
    MapLimit,       \* the size mdb_env_set_mapsize refuses to exceed
    Faults,         \* the library errors of a run
    BatchMax        \* bound: the lines of a file `wacsc log-read` loads

Procs == Collectors \cup Loaders \cup Removers

FaultKinds == {"begin", "commit", "info", "size", "reopen", "dbi", "crash"}

ASSUME DblogConstants ==
    /\ Collectors \cap Loaders = {}
    /\ Collectors \cap Removers = {}
    /\ Loaders \cap Removers = {}
    /\ NoProc \notin Procs
    /\ NoKey \notin LogKey
    /\ InitMap \in Nat \ {0} /\ MapLimit \in Nat
    /\ Faults \subseteq FaultKinds
    /\ BatchMax \in Nat

VARIABLES
    db,         \* the committed contents: the log and the last probes
    lock,       \* the process that has the write transaction
    mapSize,    \* the size of the map, in entries
    clock,      \* time(NULL)
    pc,         \* where a process is
    step,       \* which call a put or a recovery is about: "log", "probe", "commit"
    env,        \* dbenv.env: "closed", "open", or "null" after a failed openDb
    txn,        \* dbenv.txn: "none", "active", "stale" (ended, the pointer kept)
    work,       \* what the transaction of a process would commit
    rec,        \* the record being stored
    batch,      \* history: the records the current call was given so far
    count,      \* records stored (putLogEntries) or removed (rmLog) by the call
    seen,       \* me_mapsize, read by processMapFull before it closes the database
    recovered,  \* history: processMapFull ran in the current call
    ret         \* what the last call returned, until the next one

libVars  == <<db, lock, mapSize>>
callVars == <<rec, batch, count, seen, recovered, ret>>
vars == <<libVars, clock, pc, step, env, txn, work, callVars>>

Store == [log : SUBSET LogKey, probe : [Mac -> 0..MaxTime]]
EmptyStore == [log |-> {}, probe |-> [m \in Mac |-> 0]]

\* Negative return values; 0 and a positive count are successes.
ErrBegin == -1
ErrPut == -2
ErrCommit == -3
ErrSize == -4
ErrNotFound == -5
Errors == {ErrBegin, ErrPut, ErrCommit, ErrSize, ErrNotFound}

\* The places where the code calls the library on env->txn.
InTxn == {"next", "put", "retry", "scan", "commit"}
Places == {"down", "idle", "begin", "mfAbort", "mfOpen", "mfBegin", "failed"} \cup InTxn
-----------------------------------------------------------------------------
(* The storage library. *)

Set(f, p, v) == [f EXCEPT ![p] = v]

\* Mutant of Acquire: a database opened without the writer lock (MDB_NOLOCK).
AcquireUnlocked(p) ==
    /\ lock' = p
    /\ txn' = Set(txn, p, "active")
    /\ work' = Set(work, p, db)

Acquire(p) ==
    /\ lock = NoProc
    /\ lock' = p
    /\ txn' = Set(txn, p, "active")
    /\ work' = Set(work, p, db)

\* The transaction, if it is alive, ends without a trace; env->txn keeps its value.
Abandon(p) ==
    /\ lock' = IF lock = p THEN NoProc ELSE lock
    /\ txn' = Set(txn, p, "stale")
    /\ work' = Set(work, p, EmptyStore)

Publish(p) ==
    /\ db' = work[p]
    /\ Abandon(p)

\* A put: of the log record, or of the last probe of its MAC address.
WithEntry(d, s, k) ==
    IF s = "log" THEN [d EXCEPT !.log = @ \cup {k}]
                 ELSE [d EXCEPT !.probe = [@ EXCEPT ![k.mac] = k.dt]]

Entries(d) == Cardinality(d.log) + Cardinality({m \in Mac : d.probe[m] # 0})

Fits(d) == Entries(d) <= mapSize

\* The sizes the map may have after mdb_env_set_mapsize(2 * me_mapsize): refused past the
\* limit, never less than the file says; an error of it is only logged, and it is up to the
\* library whether a size that was set on a handle closed unused survives.
Grown(p) ==
    {IF 2 * seen[p] <= MapLimit /\ 2 * seen[p] > mapSize THEN 2 * seen[p] ELSE mapSize}
        \cup (IF "size" \in Faults THEN {mapSize} ELSE {})
-----------------------------------------------------------------------------
Init ==
    /\ db = EmptyStore
    /\ lock = NoProc
    /\ mapSize = InitMap
    /\ clock = 1
    /\ pc = [p \in Procs |-> "down"]
    /\ step = [p \in Procs |-> "log"]
    /\ env = [p \in Procs |-> "closed"]
    /\ txn = [p \in Procs |-> "none"]
    /\ work = [p \in Procs |-> EmptyStore]
    /\ rec = [p \in Procs |-> NoKey]
    /\ batch = [p \in Procs |-> {}]
    /\ count = [p \in Procs |-> 0]
    /\ seen = [p \in Procs |-> 0]
    /\ recovered = [p \in Procs |-> FALSE]
    /\ ret = [p \in Procs |-> 0]

Tick ==
    /\ clock < MaxTime
    /\ clock' = clock + 1
    /\ UNCHANGED <<libVars, pc, step, env, txn, work, callVars>>

Goto(p, place) == pc' = Set(pc, p, place)

\* The call is over; its locals are gone.
Return(p, code) ==
    /\ Goto(p, "idle")
    /\ step' = Set(step, p, "log")
    /\ ret' = Set(ret, p, code)
    /\ rec' = Set(rec, p, NoKey)
    /\ batch' = Set(batch, p, {})
    /\ count' = Set(count, p, 0)
    /\ seen' = Set(seen, p, 0)
    /\ recovered' = Set(recovered, p, FALSE)

\* openDb: its own transaction has to wait for the writer lock and changes nothing.
Open(p) ==
    /\ pc[p] = "down"
    /\ lock = NoProc
    /\ env' = Set(env, p, "open")
    /\ txn' = Set(txn, p, "stale")
    /\ Goto(p, "idle")
    /\ UNCHANGED <<libVars, clock, step, work, callVars>>

\* closeDb at the end of run or of a command, and the end of the process: a
\* transaction that was left alive ends with it.
Close(p) ==
    /\ pc[p] = "idle"
    /\ lock' = IF lock = p THEN NoProc ELSE lock
    /\ env' = Set(env, p, "closed")
    /\ txn' = Set(txn, p, "none")
    /\ work' = Set(work, p, EmptyStore)
    /\ ret' = Set(ret, p, 0)
    /\ Goto(p, "down")
    /\ UNCHANGED <<db, mapSize, clock, step, rec, batch, count, seen, recovered>>

\* Mutant of Crash: what was written so far is in the database.
CrashKeepsWork(p) ==
    /\ "crash" \in Faults
    /\ pc[p] # "down"
    /\ db' = IF lock = p THEN work[p] ELSE db
    /\ lock' = IF lock = p THEN NoProc ELSE lock
    /\ Goto(p, "down")
    /\ env' = Set(env, p, "closed")
    /\ UNCHANGED <<mapSize, clock, step, txn, work, callVars>>

\* The process dies at any point: the library frees its lock, nothing is committed.
Crash(p) ==
    /\ "crash" \in Faults
    /\ pc[p] # "down"
    /\ lock' = IF lock = p THEN NoProc ELSE lock
    /\ pc' = Set(pc, p, "down")
    /\ step' = Set(step, p, "log")
    /\ env' = Set(env, p, "closed")
    /\ txn' = Set(txn, p, "none")
    /\ work' = Set(work, p, EmptyStore)
    /\ rec' = Set(rec, p, NoKey)
    /\ batch' = Set(batch, p, {})
    /\ count' = Set(count, p, 0)
    /\ seen' = Set(seen, p, 0)
    /\ recovered' = Set(recovered, p, FALSE)
    /\ ret' = Set(ret, p, 0)
    /\ UNCHANGED <<db, mapSize, clock>>
-----------------------------------------------------------------------------
(* The calls: putLog, putLogEntries and rmLog. *)

\* nn_recv gave the collector a packet shorter than a LogEntry.
ReceiveShort(p) ==
    /\ p \in Collectors
    /\ pc[p] = "idle"
    /\ Return(p, ErrSize)
    /\ UNCHANGED <<libVars, clock, env, txn, work>>

\* nn_recv gave the collector a packet: putLog waits for its transaction.  The
\* record is noted with the time the packet came; the unassigned byte is whatever it is.
Receive(p) ==
    /\ p \in Collectors
    /\ pc[p] = "idle"
    /\ \E m \in Mac, b \in PadByte :
          rec' = Set(rec, p, [mac |-> m, pad |-> b, dt |-> clock])
    /\ Goto(p, "begin")
    /\ ret' = Set(ret, p, 0)
    /\ UNCHANGED <<libVars, clock, step, env, txn, work, batch, count, seen, recovered>>

\* wacsc calls putLogEntries or rmLog.
Call(p) ==
    /\ p \in Loaders \cup Removers
    /\ pc[p] = "idle"
    /\ Goto(p, "begin")
    /\ ret' = Set(ret, p, 0)
    /\ UNCHANGED <<libVars, clock, step, env, txn, work, rec, batch, count, seen, recovered>>

\* Mutants of Stamp: the time is never set; it is the time the packet came.
StampUnset(p) == [rec[p] EXCEPT !.dt = 0]
StampArrival(p) == rec[p]

\* putLog reads the clock once its transaction has begun.
Stamp(p) == [rec[p] EXCEPT !.dt = clock]

Begin(p) ==
    /\ pc[p] = "begin"
    /\ env[p] = "open"
    /\ Acquire(p)
    /\ \/ /\ p \in Collectors
          /\ rec' = Set(rec, p, Stamp(p))
          /\ batch' = Set(batch, p, {Stamp(p)})
          /\ Goto(p, "put")
       \/ /\ p \in Loaders
          /\ Goto(p, "next")
          /\ UNCHANGED <<rec, batch>>
       \/ /\ p \in Removers
          /\ Goto(p, "scan")
          /\ UNCHANGED <<rec, batch>>
    /\ UNCHANGED <<db, mapSize, clock, step, env, count, seen, recovered, ret>>

\* A dead environment, or an error of mdb_txn_begin: the packet is lost.
BeginFails(p) ==
    /\ pc[p] = "begin"
    /\ env[p] = "null" \/ "begin" \in Faults
    /\ Return(p, ErrBegin)
    /\ UNCHANGED <<libVars, clock, env, txn, work>>

\* onPutLogEntry gives putLogEntries a line of the file, or its end.
NextLine(p) ==
    /\ pc[p] = "next"
    /\ \/ /\ count[p] < BatchMax
          /\ \E m \in Mac, b \in PadByte, t \in Time :
                LET k == [mac |-> m, pad |-> b, dt |-> t]
                IN  /\ rec' = Set(rec, p, k)
                    /\ batch' = Set(batch, p, batch[p] \cup {k})
          /\ Goto(p, "put")
       \/ /\ Goto(p, "commit")
          /\ UNCHANGED <<rec, batch>>
    /\ UNCHANGED <<libVars, clock, step, env, txn, work, count, seen, recovered, ret>>

\* Mutant of Advance: the last probe is not put.
AdvanceWithoutProbe(p) ==
    /\ count' = Set(count, p, count[p] + 1)
    /\ Goto(p, IF p \in Loaders THEN "next" ELSE "commit")
    /\ UNCHANGED step

\* What follows a put that succeeded: the put of the last probe, then the
\* commit of putLog or the next line of putLogEntries.
Advance(p) ==
    \/ /\ step[p] = "log"
       /\ step' = Set(step, p, "probe")
       /\ Goto(p, "put")
       /\ UNCHANGED count
    \/ /\ step[p] = "probe"
       /\ step' = Set(step, p, "log")
       /\ count' = Set(count, p, count[p] + 1)
       /\ Goto(p, IF p \in Loaders THEN "next" ELSE "commit")

\* Mutant of Put: a full map is taken for a success.
PutUnchecked(p) ==
    /\ pc[p] = "put"
    /\ LET new == WithEntry(work[p], step[p], rec[p])
       IN  work' = IF Fits(new) THEN Set(work, p, new) ELSE work
    /\ Advance(p)
    /\ UNCHANGED <<libVars, clock, env, txn, rec, batch, seen, recovered, ret>>

Put(p) ==
    /\ pc[p] = "put"
    /\ LET new == WithEntry(work[p], step[p], rec[p])
       IN  \/ /\ Fits(new)
              /\ work' = Set(work, p, new)
              /\ Advance(p)
           \/ /\ ~Fits(new)
              /\ Goto(p, "mfAbort")
              /\ UNCHANGED <<work, step, count>>
    /\ UNCHANGED <<libVars, clock, env, txn, rec, batch, seen, recovered, ret>>

\* MDB_SET_RANGE finds no key at or after `from`: the last probes follow the log.
NothingFrom(d, from) ==
    /\ d.probe = EmptyStore.probe
    /\ \A k \in d.log : Before(KeyBytes(k), from)

\* rmLog deletes what its scan reaches, or ends its transaction and returns
\* MDB_NOTFOUND.
Scan(p) ==
    /\ pc[p] = "scan"
    /\ \E q \in Query :
          \/ /\ NothingFrom(work[p], RmFrom(q))
             /\ Abandon(p)
             /\ Return(p, ErrNotFound)
          \/ /\ ~NothingFrom(work[p], RmFrom(q))
             /\ work' = Set(work, p, [work[p] EXCEPT !.log = @ \ RmHits(@, q)])
             /\ count' = Set(count, p, Cardinality(RmHits(work[p].log, q)))
             /\ Goto(p, "commit")
             /\ UNCHANGED <<lock, txn, step, rec, batch, seen, recovered, ret>>
    /\ UNCHANGED <<db, mapSize, clock, env>>

\* putLog returns 0, putLogEntries and rmLog return their counts.
Result(p) == IF p \in Collectors THEN 0 ELSE count[p]

Commit(p) ==
    /\ pc[p] = "commit"
    /\ Publish(p)
    /\ Return(p, Result(p))
    /\ UNCHANGED <<mapSize, clock, env>>

\* Mutant of CommitFails: the failed commit is made again.
CommitFailsAgain(p) ==
    /\ pc[p] = "commit"
    /\ "commit" \in Faults
    /\ Abandon(p)
    /\ UNCHANGED <<db, mapSize, clock, pc, step, env, callVars>>

\* The commit itself finds the map full: it frees the transaction all the same.
\* putLog goes through processMapFull, the others return the error.
CommitFails(p) ==
    /\ pc[p] = "commit"
    /\ "commit" \in Faults
    /\ Abandon(p)
    /\ \/ /\ p \in Collectors
          /\ step' = Set(step, p, "commit")
          /\ Goto(p, "mfAbort")
          /\ UNCHANGED callVars
       \/ /\ p \notin Collectors
          /\ Return(p, ErrCommit)
    /\ UNCHANGED <<db, mapSize, clock, env>>
-----------------------------------------------------------------------------
(* processMapFull, and what its caller does next. *)

\* mdb_txn_abort (of a transaction the failed commit already freed, when that is
\* the caller) and mdb_env_info.  From here the writer lock is free.
MapFullAbort(p) ==
    /\ pc[p] = "mfAbort"
    /\ Abandon(p)
    /\ recovered' = Set(recovered, p, TRUE)
    /\ \/ /\ seen' = Set(seen, p, mapSize)
          /\ Goto(p, "mfOpen")
       \/ /\ "info" \in Faults
          /\ Goto(p, "failed")
          /\ UNCHANGED seen
    /\ UNCHANGED <<db, mapSize, clock, step, env, rec, batch, count, ret>>

\* closeDb, the handle that sets the new size, openDb.
MapFullOpen(p) ==
    /\ pc[p] = "mfOpen"
    /\ lock = NoProc
    /\ mapSize' \in Grown(p)
    /\ Goto(p, "mfBegin")
    /\ UNCHANGED <<db, lock, clock, step, env, txn, work, callVars>>

\* openDb fails before its transaction or at its commit: processMapFull returns
\* what the first mdb_env_open returned, which may well be 0, and then the caller
\* goes on with a transaction that is not there.
MapFullOpenFails(p) ==
    /\ pc[p] = "mfOpen"
    /\ "reopen" \in Faults
    /\ \E e \in {"null", "open"} : env' = Set(env, p, e)
    /\ \E place \in {"retry", "failed"} : Goto(p, place)
    /\ mapSize' \in {mapSize} \cup Grown(p)
    /\ UNCHANGED <<db, lock, clock, step, txn, work, callVars>>

\* openDb fails at mdb_dbi_open: its transaction stays alive in env->txn.
MapFullOpenFailsAtDbi(p) ==
    /\ pc[p] = "mfOpen"
    /\ "dbi" \in Faults
    /\ Acquire(p)
    /\ env' = Set(env, p, "null")
    /\ \E place \in {"retry", "failed"} : Goto(p, place)
    /\ mapSize' \in Grown(p)
    /\ UNCHANGED <<db, clock, step, callVars>>

\* Mutant of MapFullBegin: the transaction goes on with the contents it had.
MapFullResume(p) ==
    /\ pc[p] = "mfBegin"
    /\ lock = NoProc
    /\ lock' = p
    /\ txn' = Set(txn, p, "active")
    /\ Goto(p, "retry")
    /\ UNCHANGED <<db, mapSize, work, clock, step, env, callVars>>

\* The new transaction starts from what the database holds now.
MapFullBegin(p) ==
    /\ pc[p] = "mfBegin"
    /\ Acquire(p)
    /\ Goto(p, "retry")
    /\ UNCHANGED <<db, mapSize, clock, step, env, callVars>>

MapFullBeginFails(p) ==
    /\ pc[p] = "mfBegin"
    /\ "begin" \in Faults
    /\ Goto(p, "failed")
    /\ UNCHANGED <<libVars, clock, step, env, txn, work, callVars>>

\* The call that found the map full is made again, it alone.
Retry(p) ==
    /\ pc[p] = "retry"
    /\ txn[p] = "active"
    /\ \/ /\ step[p] # "commit"
          /\ Fits(WithEntry(work[p], step[p], rec[p]))
          /\ work' = Set(work, p, WithEntry(work[p], step[p], rec[p]))
          /\ Advance(p)
          /\ UNCHANGED <<db, lock, txn, rec, batch, seen, recovered, ret>>
       \/ /\ step[p] = "commit"
          /\ Publish(p)
          /\ Return(p, Result(p))
    /\ UNCHANGED <<mapSize, clock, env>>

\* Mutant of RetryFails: the error is returned without mdb_txn_abort.
RetryFailsUnaborted(p) ==
    /\ pc[p] = "retry"
    /\ txn[p] = "active"
    /\ step[p] # "commit"
    /\ ~Fits(WithEntry(work[p], step[p], rec[p]))
    /\ Return(p, ErrPut)
    /\ UNCHANGED <<libVars, clock, env, txn, work>>

\* The map is still full: mdb_txn_abort and an error.
RetryFails(p) ==
    /\ pc[p] = "retry"
    /\ txn[p] = "active"
    /\ step[p] # "commit"
    /\ ~Fits(WithEntry(work[p], step[p], rec[p]))
    /\ Abandon(p)
    /\ Return(p, ErrPut)
    /\ UNCHANGED <<db, mapSize, clock, env>>

\* A call on a transaction that was freed: undefined.  The library refuses it,
\* or the process dies (Crash).
RetryOnStale(p) ==
    /\ pc[p] = "retry"
    /\ txn[p] # "active"
    /\ Return(p, IF step[p] = "commit" THEN ErrCommit ELSE ErrPut)
    /\ UNCHANGED <<libVars, clock, env, txn, work>>

\* processMapFull returned an error: after a put the transaction is aborted
\* (again, most often); after a commit it is not.
RecoveryFailed(p) ==
    /\ pc[p] = "failed"
    /\ \/ /\ step[p] # "commit"
          /\ Abandon(p)
          /\ Return(p, ErrPut)
       \/ /\ step[p] = "commit"
          /\ Return(p, ErrCommit)
          /\ UNCHANGED <<lock, txn, work>>
    /\ UNCHANGED <<db, mapSize, clock, env>>
-----------------------------------------------------------------------------
\* What a process does while it may have the lock.
TxnStep(p) ==
    \/ NextLine(p) \/ Put(p) \/ Scan(p) \/ Commit(p)
    \/ MapFullAbort(p) \/ Retry(p) \/ RetryFails(p) \/ RetryOnStale(p)
    \/ RecoveryFailed(p)

OtherStep(p) ==
    \/ Open(p) \/ Close(p) \/ Crash(p)
    \/ ReceiveShort(p) \/ Receive(p) \/ Call(p) \/ Begin(p) \/ BeginFails(p)
    \/ CommitFails(p)
    \/ MapFullOpen(p) \/ MapFullOpenFails(p) \/ MapFullOpenFailsAtDbi(p)
    \/ MapFullBegin(p) \/ MapFullBeginFails(p)

Next == Tick \/ \E p \in Procs : TxnStep(p) \/ OtherStep(p)

Spec == Init /\ [][Next]_vars

\* A process that can take a step inside its transaction takes it: nothing in
\* there waits for another process, and a file has an end.
FairSpec == Spec /\ \A p \in Procs : WF_vars(TxnStep(p))
-----------------------------------------------------------------------------
(* Properties. *)

\* The variables hold what the code can put there, and every table is finite.
TypeOK ==
    /\ db \in Store /\ IsFiniteSet(db.log)
    /\ lock \in Procs \cup {NoProc}
    /\ mapSize \in Nat
    /\ clock \in Time
    /\ pc \in [Procs -> Places]
    /\ step \in [Procs -> {"log", "probe", "commit"}]
    /\ env \in [Procs -> {"closed", "open", "null"}]
    /\ txn \in [Procs -> {"none", "active", "stale"}]
    /\ work \in [Procs -> Store] /\ \A p \in Procs : IsFiniteSet(work[p].log)
    /\ rec \in [Procs -> LogKey \cup {NoKey}]
    /\ batch \in [Procs -> SUBSET LogKey]
    /\ count \in [Procs -> Nat]
    /\ seen \in [Procs -> Nat]
    /\ recovered \in [Procs -> BOOLEAN]
    /\ ret \in [Procs -> Errors \cup Nat]

Writers == Collectors \cup Loaders

\* The last probe of m that the records of S leave.
ProbeFrom(S, m, t) == \E k \in S : k.mac = m /\ k.dt = t

\* The store `new` is the store `old` with records of S, and with last probes of S.
Extends(old, new, S) ==
    /\ old.log \subseteq new.log
    /\ new.log \subseteq old.log \cup S
    /\ \A m \in Mac : new.probe[m] = old.probe[m] \/ ProbeFrom(S, m, new.probe[m])

\* The store `new` is the store `old` without some records of the log.
Shrinks(old, new) == new.log \subseteq old.log /\ new.probe = old.probe

\* What the call that p is making may turn the store `old` into.
OwnChange(p, old, new) ==
    \/ p \in Writers /\ Extends(old, new, batch[p])
    \/ p \in Removers /\ Shrinks(old, new)

\* The store `new` holds every record of S, and last probes of S.
Holds(new, S) ==
    /\ S \subseteq new.log
    /\ \A k \in S : ProbeFrom(S, k.mac, new.probe[k.mac])

\* A transaction is alive exactly while its process has the writer lock, and every
\* call putLog, putLogEntries and rmLog make between begin and commit is on a live
\* one: whatever processMapFull does, only the call it retries may find none.
LiveTransaction ==
    \A p \in Procs :
        /\ txn[p] = "active" <=> lock = p
        /\ pc[p] \in InTxn \ {"retry"} => lock = p

\* Whatever a process is about to commit is what the database holds now plus
\* records of its own call (or, for rmLog, less some records): a transaction
\* that processMapFull gave up and began again drops no record another process
\* committed while the lock was free.
Isolation ==
    \A p \in Procs : lock = p => OwnChange(p, db, work[p])

\* A step changes the database only as the commit of the call that has the lock,
\* and then by records this call was given, or by a removal that leaves the last probes.
CommitsOwnRecords ==
    [][db' # db => \E p \in Procs : lock = p /\ OwnChange(p, db, db')]_vars

Succeeds(p) == pc[p] \in {"commit", "retry"} /\ pc'[p] = "idle" /\ ret'[p] >= 0

\* putLog and putLogEntries: when a call that never went through processMapFull
\* returns a success, every record it was given is in the log with its last probe.
StoredUnlessRecovered ==
    [][\A p \in Writers : Succeeds(p) /\ ~recovered[p] => Holds(db', batch[p])]_vars

\* dblog.cpp 177-181: "Store input packet to the LMDB ... @return 0 - success", and
\* 309-311 of putLogEntries.  When one of them returns a success, every record it
\* was given is in the log.
SuccessStored ==
    [][\A p \in Writers : Succeeds(p) => batch[p] \subseteq db'.log]_vars

\* With collectors alone as writers, the last probe of a MAC is no older than any
\* of its records: the time is read when the lock is held, and the log record and
\* the last probe are committed together.
ProbeIsNewest == \A k \in db.log : k.dt <= db.probe[k.mac]

\* With collectors alone as writers, the last probe of a MAC never goes back, however
\* their packets and their transactions interleave.
ProbeNeverRegresses == [][\A m \in Mac : db.probe[m] <= db'.probe[m]]_vars

\* A record in the log always has a last probe of its MAC: no put that fails, no
\* map that fills and no removal leaves the one without the other.
RecordsHaveProbes == \A k \in db.log : db.probe[k.mac] # 0

\* What the database promises its readers (ProbeStore): a reader sees a call whole or
\* not at all, a batch of putLogEntries included, and a crash leaves no part of one.
AbstractStore == INSTANCE ProbeStore
ImplementsProbeStore == AbstractStore!Spec

\* The same, whatever the map and the library do, of a call that did not go through
\* processMapFull: what it commits is a whole call, or nothing.
WholeUnlessRecovered ==
    [][\A p \in Procs : lock = p /\ ~recovered[p] /\ db' # db => AbstractStore!Next]_vars

\* No process whose database is open keeps the writer lock for ever: every return of
\* the three calls, the ones on an error included, ends the transaction that was begun.
LockIsReleased == \A p \in Procs : lock = p /\ env[p] = "open" ~> lock # p
-----------------------------------------------------------------------------
(* What makes the invariants inductive (DblogProofs). *)

Recovering == {"mfAbort", "mfOpen", "mfBegin", "retry", "failed"}

\* Where a process can be, by its role, and what its locals are there.
Locals ==
    \A p \in Procs :
        /\ pc[p] = "scan" => p \in Removers
        /\ pc[p] = "next" => p \in Loaders
        /\ pc[p] = "put" \/ pc[p] \in Recovering => p \in Writers
        /\ pc[p] \notin Recovering => step[p] # "commit"
        /\ pc[p] \notin Recovering \cup {"put"} => step[p] = "log"
        /\ pc[p] = "put" \/ (pc[p] \in Recovering /\ step[p] # "commit")
              => rec[p] \in batch[p]
        /\ pc[p] \in {"mfOpen", "mfBegin", "retry", "failed"} => recovered[p]
        /\ pc[p] \in {"down", "idle", "begin"} => batch[p] = {}
        /\ pc[p] = "begin" /\ p \in Collectors => rec[p] \in LogKey

\* A recovery gives the lock up; a transaction a failed one leaves alive holds nothing.
LeftAlive ==
    \A p \in Procs : lock = p =>
        /\ pc[p] \notin {"mfOpen", "mfBegin"}
        /\ pc[p] \in {"down", "idle", "begin", "failed"} => work[p] = db

\* Every record of the call but the one being stored is in the transaction with its
\* last probe, as long as processMapFull has not run.
StoredSoFar ==
    \A p \in Writers :
        ~recovered[p] =>
           /\ pc[p] \in {"next", "commit"} => Holds(work[p], batch[p])
           /\ pc[p] = "put" =>
                 /\ batch[p] \ {rec[p]} \subseteq work[p].log
                 /\ step[p] = "probe" => rec[p] \in work[p].log
                 /\ \A k \in batch[p] \ {rec[p]} :
                       ProbeFrom(batch[p], k.mac, work[p].probe[k.mac])

\* In a transaction only the record being stored may not have its last probe yet.
ProbesFollow ==
    \A p \in Procs : \A k \in work[p].log :
        \/ work[p].probe[k.mac] # 0
        \/ pc[p] \in {"put", "mfAbort"} /\ step[p] = "probe" /\ k = rec[p]

IInv ==
    /\ TypeOK /\ LiveTransaction /\ Isolation /\ RecordsHaveProbes
    /\ Locals /\ LeftAlive /\ StoredSoFar /\ ProbesFollow
=============================================================================
