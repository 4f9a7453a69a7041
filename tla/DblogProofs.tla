---------------------------- MODULE DblogProofs ----------------------------
(***************************************************************************)
(* Theorems about Dblog, for any number of collectors, loaders and         *)
(* removers, any map, any file and any of the library errors.              *)
(***************************************************************************)
EXTENDS Dblog, FiniteSetTheorems, TLAPS

\* Storing a record, or the last probe of one, in a store gives a store.
LEMMA WithEntryType ==
    ASSUME NEW d \in Store, IsFiniteSet(d.log), NEW s, NEW k \in LogKey
    PROVE  WithEntry(d, s, k) \in Store /\ IsFiniteSet(WithEntry(d, s, k).log)
<1>1. IsFiniteSet(d.log \cup {k})
  BY FS_AddElement
<1>2. k.mac \in Mac /\ k.dt \in 0..MaxTime
  BY KeyConstants DEF LogKey, Time
<1>3. CASE s = "log"
  BY <1>1, <1>3 DEF WithEntry, Store
<1>4. CASE s # "log"
  BY <1>2, <1>4 DEF WithEntry, Store
<1> QED
  BY <1>3, <1>4

\* The empty store is a store.
LEMMA EmptyStoreType == EmptyStore \in Store /\ IsFiniteSet(EmptyStore.log)
  BY FS_EmptySet, KeyConstants DEF EmptyStore, Store

\* The initial state has its types.
LEMMA InitType == Init => TypeOK
<1> SUFFICES ASSUME Init PROVE TypeOK
  OBVIOUS
<1> USE EmptyStoreType DEF Init
<1>1. clock \in Time /\ mapSize \in Nat
  BY KeyConstants, DblogConstants DEF Time
<1> QED
  BY <1>1 DEF TypeOK, Places, Errors
-----------------------------------------------------------------------------
(* Types. The parts of the state that the operators of Dblog change together. *)

LibType == /\ lock \in Procs \cup {NoProc}
           /\ txn \in [Procs -> {"none", "active", "stale"}]
           /\ work \in [Procs -> Store] /\ \A p \in Procs : IsFiniteSet(work[p].log)

DbType == db \in Store /\ IsFiniteSet(db.log)

PlaceType == /\ pc \in [Procs -> Places]
             /\ step \in [Procs -> {"log", "probe", "commit"}]

LocalType == /\ rec \in [Procs -> LogKey \cup {NoKey}]
             /\ batch \in [Procs -> SUBSET LogKey]
             /\ count \in [Procs -> Nat]
             /\ seen \in [Procs -> Nat]
             /\ recovered \in [Procs -> BOOLEAN]
             /\ ret \in [Procs -> Errors \cup Nat]

OuterType == /\ mapSize \in Nat
             /\ clock \in Time
             /\ env \in [Procs -> {"closed", "open", "null"}]

\* TypeOK is the types of the five parts of the state, before a step and after it.
LEMMA TypeParts ==
    /\ TypeOK => DbType /\ LibType /\ PlaceType /\ LocalType /\ OuterType
    /\ DbType' /\ LibType' /\ PlaceType' /\ LocalType' /\ OuterType' => TypeOK'
  BY DEF TypeOK, DbType, LibType, PlaceType, LocalType, OuterType

\* Beginning a transaction: its copy is the committed store.
LEMMA AcquireType ==
    ASSUME DbType, LibType, NEW p \in Procs, Acquire(p) PROVE LibType'
  BY DEF DbType, LibType, Acquire, Set

\* Ending a transaction.
LEMMA AbandonType ==
    ASSUME LibType, NEW p \in Procs, Abandon(p) PROVE LibType'
  BY EmptyStoreType DEF LibType, Abandon, Set

\* A commit leaves a store.
LEMMA PublishType ==
    ASSUME LibType, NEW p \in Procs, Publish(p) PROVE LibType' /\ DbType'
  BY AbandonType DEF LibType, DbType, Publish

\* The end of a call resets its locals.
LEMMA ReturnType ==
    ASSUME PlaceType, LocalType, NEW p \in Procs, NEW code \in Errors \cup Nat,
           Return(p, code)
    PROVE  PlaceType' /\ LocalType'
  BY DEF PlaceType, LocalType, Return, Goto, Set, Places

\* The errors the calls return.
LEMMA ErrorsAreCodes ==
    /\ ErrBegin \in Errors /\ ErrPut \in Errors /\ ErrCommit \in Errors
    /\ ErrSize \in Errors /\ ErrNotFound \in Errors
  BY DEF Errors

\* What the record being stored adds to a transaction.
LEMMA PutType ==
    ASSUME LibType, LocalType, NEW p \in Procs, rec[p] \in LogKey,
           work' = Set(work, p, WithEntry(work[p], step[p], rec[p])),
           UNCHANGED <<lock, txn>>
    PROVE  LibType'
<1> DEFINE new == WithEntry(work[p], step[p], rec[p])
<1>1. new \in Store /\ IsFiniteSet(new.log)
  BY WithEntryType DEF LibType
<1> HIDE DEF new
<1>2. work' = [work EXCEPT ![p] = new]
  BY DEF Set, new
<1> QED
  BY <1>1, <1>2 DEF LibType

\* What follows a put that succeeded.
LEMMA AdvanceType ==
    ASSUME PlaceType, LocalType, NEW p \in Procs, Advance(p),
           UNCHANGED <<rec, batch, seen, recovered, ret>>
    PROVE  PlaceType' /\ LocalType'
  BY DEF PlaceType, LocalType, Advance, Goto, Set, Places, InTxn

\* Every step keeps the types.  Locals says that a process that puts has a record.
LEMMA TypeStep == TypeOK /\ Locals /\ [Next]_vars => TypeOK'
<1> SUFFICES ASSUME TypeOK, Locals, [Next]_vars PROVE TypeOK'
  OBVIOUS
<1>0. DbType /\ LibType /\ PlaceType /\ LocalType /\ OuterType
  BY TypeParts
<1> USE <1>0
<1>1. CASE Tick
  <2>1. DbType' /\ LibType' /\ PlaceType' /\ LocalType'
    BY <1>1 DEF Tick, libVars, callVars, DbType, LibType, PlaceType, LocalType
  <2>2. OuterType'
    BY <1>1, KeyConstants DEF Tick, libVars, OuterType, Time
  <2> QED
    BY <2>1, <2>2, TypeParts
<1>2. CASE UNCHANGED vars
  BY <1>2, TypeParts DEF vars, libVars, callVars, DbType, LibType, PlaceType, LocalType,
     OuterType
<1>3. ASSUME NEW p \in Procs, TxnStep(p) PROVE TypeOK'
  <2> USE <1>3
  <2>1. CASE NextLine(p)
    <3>1. PlaceType' /\ LibType' /\ DbType' /\ OuterType'
      BY <2>1 DEF NextLine, Goto, Set, libVars, DbType, LibType, PlaceType, OuterType,
         Places, InTxn
    <3>2. LocalType'
      BY <2>1 DEF NextLine, Set, LocalType, LogKey
    <3> QED
      BY <3>1, <3>2, TypeParts
  <2>2. CASE Put(p)
    <3>1. rec[p] \in LogKey
      BY <2>2 DEF Put, Locals, LocalType, PlaceType
    <3>2. DbType' /\ OuterType'
      BY <2>2 DEF Put, libVars, DbType, OuterType
    <3>3. CASE Advance(p) /\ work' = Set(work, p, WithEntry(work[p], step[p], rec[p]))
      BY <2>2, <3>1, <3>2, <3>3, PutType, AdvanceType, TypeParts DEF Put, libVars
    <3>4. CASE Goto(p, "mfAbort") /\ UNCHANGED <<work, step, count>>
      BY <2>2, <3>2, <3>4, TypeParts
      DEF Put, libVars, Goto, Set, LibType, PlaceType, LocalType, Places
    <3> QED
      BY <2>2, <3>3, <3>4 DEF Put
  <2>3. CASE Scan(p)
    <3> PICK q \in Query :
          \/ /\ NothingFrom(work[p], RmFrom(q))
             /\ Abandon(p)
             /\ Return(p, ErrNotFound)
          \/ /\ ~NothingFrom(work[p], RmFrom(q))
             /\ work' = Set(work, p, [work[p] EXCEPT !.log = @ \ RmHits(@, q)])
             /\ count' = Set(count, p, Cardinality(RmHits(work[p].log, q)))
             /\ Goto(p, "commit")
             /\ UNCHANGED <<lock, txn, step, rec, batch, seen, recovered, ret>>
      BY <2>3 DEF Scan
    <3>1. DbType' /\ OuterType'
      BY <2>3 DEF Scan, DbType, OuterType
    <3>2. CASE Abandon(p) /\ Return(p, ErrNotFound)
      BY <3>1, <3>2, AbandonType, ReturnType, ErrorsAreCodes, TypeParts
    <3>3. CASE /\ work' = Set(work, p, [work[p] EXCEPT !.log = @ \ RmHits(@, q)])
               /\ count' = Set(count, p, Cardinality(RmHits(work[p].log, q)))
               /\ Goto(p, "commit")
               /\ UNCHANGED <<lock, txn, step, rec, batch, seen, recovered, ret>>
      <4> DEFINE hits == RmHits(work[p].log, q)
                 new == [work[p] EXCEPT !.log = @ \ hits]
      <4>1. work[p] \in Store /\ IsFiniteSet(work[p].log)
        BY DEF LibType
      <4>2. hits \subseteq work[p].log
        BY DEF RmHits, Hits, Visited
      <4>3. Cardinality(hits) \in Nat /\ IsFiniteSet(work[p].log \ hits)
        BY <4>1, <4>2, FS_Subset, FS_CardinalityType, FS_Difference
      <4>4. new \in Store /\ IsFiniteSet(new.log)
        BY <4>1, <4>2, <4>3 DEF Store
      <4>5. work' = [work EXCEPT ![p] = new] /\ count' = [count EXCEPT ![p] = Cardinality(hits)]
        BY <3>3 DEF Set
      <4> HIDE DEF hits, new
      <4>6. LibType'
        BY <3>3, <4>4, <4>5 DEF LibType
      <4>7. PlaceType' /\ LocalType'
        BY <3>3, <4>3, <4>5 DEF PlaceType, LocalType, Goto, Set, Places, InTxn
      <4> QED
        BY <3>1, <4>6, <4>7, TypeParts
    <3> QED
      BY <3>2, <3>3
  <2>4. CASE Commit(p)
    <3>1. Result(p) \in Errors \cup Nat
      BY DEF Result, LocalType
    <3>2. OuterType'
      BY <2>4 DEF Commit, OuterType
    <3> QED
      BY <2>4, <3>1, <3>2, PublishType, ReturnType, TypeParts DEF Commit
  <2>5. CASE MapFullAbort(p)
    <3>1. DbType' /\ OuterType' /\ PlaceType' /\ LocalType'
      BY <2>5 DEF MapFullAbort, DbType, OuterType, PlaceType, LocalType, Goto, Set, Places
    <3> QED
      BY <2>5, <3>1, AbandonType, TypeParts DEF MapFullAbort
  <2>6. CASE Retry(p)
    <3>1. OuterType'
      BY <2>6 DEF Retry, OuterType
    <3>2. CASE step[p] # "commit"
      <4>1. rec[p] \in LogKey
        BY <2>6, <3>2 DEF Retry, Locals, LocalType, Recovering
      <4>2. DbType' /\ LibType' /\ PlaceType' /\ LocalType'
        BY <2>6, <3>2, <4>1, PutType, AdvanceType DEF Retry, DbType
      <4> QED
        BY <3>1, <4>2, TypeParts
    <3>3. CASE step[p] = "commit"
      <4>1. Result(p) \in Errors \cup Nat
        BY DEF Result, LocalType
      <4> QED
        BY <2>6, <3>1, <3>3, <4>1, PublishType, ReturnType, TypeParts DEF Retry
    <3> QED
      BY <3>2, <3>3
  <2>7. CASE RetryFails(p)
    <3>1. DbType' /\ OuterType'
      BY <2>7 DEF RetryFails, DbType, OuterType
    <3> QED
      BY <2>7, <3>1, AbandonType, ReturnType, ErrorsAreCodes, TypeParts DEF RetryFails
  <2>8. CASE RetryOnStale(p)
    <3>1. DbType' /\ OuterType' /\ LibType'
      BY <2>8 DEF RetryOnStale, libVars, DbType, OuterType, LibType
    <3> QED
      BY <2>8, <3>1, ReturnType, ErrorsAreCodes, TypeParts DEF RetryOnStale
  <2>9. CASE RecoveryFailed(p)
    <3>1. DbType' /\ OuterType'
      BY <2>9 DEF RecoveryFailed, DbType, OuterType
    <3>2. LibType'
      BY <2>9, AbandonType DEF RecoveryFailed, LibType
    <3>3. PlaceType' /\ LocalType'
      <4>1. CASE Return(p, ErrPut)
        BY <4>1, ReturnType, ErrorsAreCodes
      <4>2. CASE Return(p, ErrCommit)
        BY <4>2, ReturnType, ErrorsAreCodes
      <4> QED
        BY <2>9, <4>1, <4>2 DEF RecoveryFailed
    <3> QED
      BY <3>1, <3>2, <3>3, TypeParts
  <2> QED
    BY <2>1, <2>2, <2>3, <2>4, <2>5, <2>6, <2>7, <2>8, <2>9 DEF TxnStep
<1>4. ASSUME NEW p \in Procs, OtherStep(p) PROVE TypeOK'
  <2> USE <1>4
  <2>1. CASE Open(p) \/ Close(p) \/ Crash(p)
    <3>1. DbType' /\ OuterType' /\ PlaceType'
      BY <2>1 DEF Open, Close, Crash, DbType, OuterType, PlaceType, Goto, Set, Places, libVars
    <3>2. LibType'
      BY <2>1, EmptyStoreType DEF Open, Close, Crash, libVars, callVars, LibType, Set
    <3>3. LocalType'
      <4>1. CASE Open(p)
        BY <4>1 DEF Open, LocalType, callVars
      <4>2. CASE Close(p)
        BY <4>2 DEF Close, LocalType, Set
      <4>3. CASE Crash(p)
        BY <4>3 DEF Crash, LocalType, Set
      <4> QED
        BY <2>1, <4>1, <4>2, <4>3
    <3> QED
      BY <3>1, <3>2, <3>3, TypeParts
  <2>2. CASE ReceiveShort(p) \/ BeginFails(p)
    <3>1. DbType' /\ OuterType' /\ LibType'
      BY <2>2 DEF ReceiveShort, BeginFails, DbType, OuterType, LibType, libVars
    <3>2. PlaceType' /\ LocalType'
      BY <2>2, ReturnType, ErrorsAreCodes DEF ReceiveShort, BeginFails
    <3> QED
      BY <3>1, <3>2, TypeParts
  <2>3. CASE Receive(p)
    <3>1. DbType' /\ OuterType' /\ LibType' /\ PlaceType'
      BY <2>3 DEF Receive, DbType, OuterType, LibType, PlaceType, Goto, Set, Places, libVars
    <3>2. LocalType'
      BY <2>3 DEF Receive, LocalType, OuterType, Set, LogKey
    <3> QED
      BY <3>1, <3>2, TypeParts
  <2>4. CASE Call(p)
    BY <2>4, TypeParts DEF Call, DbType, OuterType, LibType, PlaceType, LocalType, Goto, Set,
       Places, libVars
  <2>5. CASE Begin(p)
    <3>1. DbType' /\ OuterType' /\ PlaceType'
      BY <2>5 DEF Begin, DbType, OuterType, PlaceType, Goto, Set, Places, InTxn
    <3>2. LibType'
      BY <2>5, AcquireType DEF Begin
    <3>3. LocalType'
      <4>1. ASSUME p \in Collectors PROVE Stamp(p) \in LogKey
        <5>1. rec[p] \in LogKey
          BY <2>5, <4>1 DEF Begin, Locals, LocalType
        <5> QED
          BY <5>1 DEF Stamp, LogKey, OuterType
      <4> QED
        BY <2>5, <4>1 DEF Begin, LocalType, Set
    <3> QED
      BY <3>1, <3>2, <3>3, TypeParts
  <2>6. CASE CommitFails(p)
    <3>1. DbType' /\ OuterType' /\ LibType'
      BY <2>6, AbandonType DEF CommitFails, DbType, OuterType
    <3>2. PlaceType' /\ LocalType'
      <4>1. CASE p \in Collectors
        BY <2>6, <4>1 DEF CommitFails, PlaceType, LocalType, Goto, Set, Places, callVars
      <4>2. CASE p \notin Collectors
        BY <2>6, <4>2, ReturnType, ErrorsAreCodes DEF CommitFails
      <4> QED
        BY <4>1, <4>2
    <3> QED
      BY <3>1, <3>2, TypeParts
  <2>7. CASE MapFullOpen(p) \/ MapFullOpenFails(p) \/ MapFullOpenFailsAtDbi(p)
    <3>1. mapSize \in Nat /\ Grown(p) \subseteq Nat
      BY DEF Grown, OuterType, LocalType
    <3>2. DbType' /\ OuterType' /\ PlaceType' /\ LocalType'
      BY <2>7, <3>1 DEF MapFullOpen, MapFullOpenFails, MapFullOpenFailsAtDbi, DbType,
         OuterType, PlaceType, LocalType, Goto, Set, Places, InTxn, callVars
    <3>3. LibType'
      BY <2>7, AcquireType DEF MapFullOpen, MapFullOpenFails, MapFullOpenFailsAtDbi, LibType
    <3> QED
      BY <3>2, <3>3, TypeParts
  <2>8. CASE MapFullBegin(p) \/ MapFullBeginFails(p)
    <3>1. DbType' /\ OuterType' /\ PlaceType' /\ LocalType'
      BY <2>8 DEF MapFullBegin, MapFullBeginFails, DbType, OuterType, PlaceType, LocalType,
         Goto, Set, Places, InTxn, callVars, libVars
    <3>2. LibType'
      BY <2>8, AcquireType DEF MapFullBegin, MapFullBeginFails, LibType, libVars
    <3> QED
      BY <3>1, <3>2, TypeParts
  <2> QED
    BY <2>1, <2>2, <2>3, <2>4, <2>5, <2>6, <2>7, <2>8 DEF OtherStep
<1> QED
  BY <1>1, <1>2, <1>3, <1>4 DEF Next
-----------------------------------------------------------------------------
(* The places and the locals of the processes. *)

\* Every step keeps what is known of a process by its place.
LEMMA LocalsStep == TypeOK /\ Locals /\ [Next]_vars => Locals'
<1> SUFFICES ASSUME TypeOK, Locals, [Next]_vars PROVE Locals'
  OBVIOUS
<1>0. PlaceType /\ LocalType
  BY TypeParts
<1> USE <1>0 DEF Locals, PlaceType, LocalType, Recovering, Set, Goto, Return
<1>1. CASE Tick
  BY <1>1 DEF Tick, callVars
<1>2. CASE UNCHANGED vars
  BY <1>2 DEF vars, callVars
<1>3. ASSUME NEW p \in Procs, TxnStep(p) PROVE Locals'
  <2>1. CASE NextLine(p)
    BY <2>1 DEF NextLine, Writers
  <2>2. CASE Put(p)
    BY <2>2, DblogConstants DEF Put, Advance, Writers, Procs
  <2>3. CASE Scan(p)
    BY <2>3, DblogConstants DEF Scan, Writers
  <2>4. CASE Commit(p)
    BY <2>4 DEF Commit
  <2>5. CASE MapFullAbort(p)
    BY <2>5 DEF MapFullAbort
  <2>6. CASE Retry(p)
    BY <2>6 DEF Retry, Advance, Writers
  <2>7. CASE RetryFails(p)
    BY <2>7 DEF RetryFails
  <2>8. CASE RetryOnStale(p)
    BY <2>8 DEF RetryOnStale
  <2>9. CASE RecoveryFailed(p)
    BY <2>9 DEF RecoveryFailed
  <2> QED
    BY <1>3, <2>1, <2>2, <2>3, <2>4, <2>5, <2>6, <2>7, <2>8, <2>9 DEF TxnStep
<1>4. ASSUME NEW p \in Procs, OtherStep(p) PROVE Locals'
  <2>1. CASE Open(p)
    BY <2>1 DEF Open, callVars
  <2>2. CASE Close(p)
    BY <2>2 DEF Close
  <2>3. CASE Crash(p)
    BY <2>3 DEF Crash
  <2>4. CASE ReceiveShort(p)
    BY <2>4 DEF ReceiveShort
  <2>5. CASE Receive(p)
    <3>1. rec'[p] \in LogKey
      BY <2>5, TypeParts DEF Receive, LogKey, OuterType
    <3> QED
      BY <2>5, <3>1 DEF Receive
  <2>6. CASE Call(p)
    BY <2>6, DblogConstants DEF Call
  <2>7. CASE Begin(p)
    BY <2>7 DEF Begin, Writers
  <2>8. CASE BeginFails(p)
    BY <2>8 DEF BeginFails
  <2>9. CASE CommitFails(p)
    BY <2>9 DEF CommitFails, Writers, callVars
  <2>10. CASE MapFullOpen(p)
    BY <2>10 DEF MapFullOpen, callVars
  <2>11. CASE MapFullOpenFails(p)
    BY <2>11 DEF MapFullOpenFails, callVars
  <2>12. CASE MapFullOpenFailsAtDbi(p)
    BY <2>12 DEF MapFullOpenFailsAtDbi, callVars
  <2>13. CASE MapFullBegin(p)
    BY <2>13 DEF MapFullBegin, callVars
  <2>14. CASE MapFullBeginFails(p)
    BY <2>14 DEF MapFullBeginFails, callVars
  <2> QED
    BY <1>4, <2>1, <2>2, <2>3, <2>4, <2>5, <2>6, <2>7, <2>8, <2>9, <2>10, <2>11, <2>12,
       <2>13, <2>14 DEF OtherStep
<1> QED
  BY <1>1, <1>2, <1>3, <1>4 DEF Next
-----------------------------------------------------------------------------
(* Transactions and the writer lock. *)

\* Every step keeps the lock and the transactions in agreement: one process at a
\* time acquires the lock, and leaves the places where it needs one when it gives it up.
LEMMA LiveTransactionStep ==
    TypeOK /\ Locals /\ LiveTransaction /\ [Next]_vars => LiveTransaction'
<1> SUFFICES ASSUME TypeOK, Locals, LiveTransaction, [Next]_vars PROVE LiveTransaction'
  OBVIOUS
<1>0. LibType /\ PlaceType /\ NoProc \notin Procs
  BY TypeParts, DblogConstants
<1> USE <1>0 DEF LiveTransaction, LibType, PlaceType, InTxn, Set, Goto, Return, Acquire,
        Abandon, Publish
<1>1. CASE Tick
  BY <1>1 DEF Tick, libVars
<1>2. CASE UNCHANGED vars
  BY <1>2 DEF vars, libVars
<1>3. ASSUME NEW p \in Procs, TxnStep(p) PROVE LiveTransaction'
  <2>1. CASE NextLine(p)
    BY <2>1 DEF NextLine, libVars
  <2>2. CASE Put(p)
    BY <2>2 DEF Put, libVars, Advance
  <2>3. CASE Scan(p)
    BY <2>3 DEF Scan
  <2>4. CASE Commit(p)
    BY <2>4 DEF Commit
  <2>5. CASE MapFullAbort(p)
    BY <2>5 DEF MapFullAbort
  <2>6. CASE Retry(p)
    BY <2>6 DEF Retry, Advance
  <2>7. CASE RetryFails(p)
    BY <2>7 DEF RetryFails
  <2>8. CASE RetryOnStale(p)
    BY <2>8 DEF RetryOnStale, libVars
  <2>9. CASE RecoveryFailed(p)
    BY <2>9 DEF RecoveryFailed
  <2> QED
    BY <1>3, <2>1, <2>2, <2>3, <2>4, <2>5, <2>6, <2>7, <2>8, <2>9 DEF TxnStep
<1>4. ASSUME NEW p \in Procs, OtherStep(p) PROVE LiveTransaction'
  <2>1. CASE Open(p)
    BY <2>1 DEF Open, libVars
  <2>2. CASE Close(p)
    BY <2>2 DEF Close
  <2>3. CASE Crash(p)
    BY <2>3 DEF Crash
  <2>4. CASE ReceiveShort(p)
    BY <2>4 DEF ReceiveShort, libVars
  <2>5. CASE Receive(p)
    BY <2>5 DEF Receive, libVars
  <2>6. CASE Call(p)
    BY <2>6 DEF Call, libVars
  <2>7. CASE Begin(p)
    BY <2>7 DEF Begin
  <2>8. CASE BeginFails(p)
    BY <2>8 DEF BeginFails, libVars
  <2>9. CASE CommitFails(p)
    BY <2>9 DEF CommitFails
  <2>10. CASE MapFullOpen(p)
    BY <2>10 DEF MapFullOpen
  <2>11. CASE MapFullOpenFails(p)
    BY <2>11 DEF MapFullOpenFails
  <2>12. CASE MapFullOpenFailsAtDbi(p)
    BY <2>12 DEF MapFullOpenFailsAtDbi
  <2>13. CASE MapFullBegin(p)
    BY <2>13 DEF MapFullBegin
  <2>14. CASE MapFullBeginFails(p)
    BY <2>14 DEF MapFullBeginFails, libVars
  <2> QED
    BY <1>4, <2>1, <2>2, <2>3, <2>4, <2>5, <2>6, <2>7, <2>8, <2>9, <2>10, <2>11, <2>12,
       <2>13, <2>14 DEF OtherStep
<1> QED
  BY <1>1, <1>2, <1>3, <1>4 DEF Next

\* Every step keeps LeftAlive: only a failed openDb leaves a transaction alive, and
\* nothing was put in it.
LEMMA LeftAliveStep ==
    TypeOK /\ LiveTransaction /\ LeftAlive /\ [Next]_vars => LeftAlive'
<1> SUFFICES ASSUME TypeOK, LiveTransaction, LeftAlive, [Next]_vars PROVE LeftAlive'
  OBVIOUS
<1>0. LibType /\ PlaceType /\ NoProc \notin Procs
  BY TypeParts, DblogConstants
<1> USE <1>0 DEF LiveTransaction, LeftAlive, LibType, PlaceType, InTxn, Set, Goto, Return,
        Acquire, Abandon, Publish
<1>1. CASE Tick
  BY <1>1 DEF Tick, libVars
<1>2. CASE UNCHANGED vars
  BY <1>2 DEF vars, libVars
<1>3. ASSUME NEW p \in Procs, TxnStep(p) PROVE LeftAlive'
  <2>1. CASE NextLine(p)
    BY <2>1 DEF NextLine, libVars
  <2>2. CASE Put(p)
    BY <2>2 DEF Put, libVars, Advance
  <2>3. CASE Scan(p)
    BY <2>3 DEF Scan
  <2>4. CASE Commit(p)
    BY <2>4 DEF Commit
  <2>5. CASE MapFullAbort(p)
    BY <2>5 DEF MapFullAbort
  <2>6. CASE Retry(p)
    BY <2>6 DEF Retry, Advance
  <2>7. CASE RetryFails(p)
    BY <2>7 DEF RetryFails
  <2>8. CASE RetryOnStale(p)
    BY <2>8 DEF RetryOnStale, libVars
  <2>9. CASE RecoveryFailed(p)
    BY <2>9 DEF RecoveryFailed
  <2> QED
    BY <1>3, <2>1, <2>2, <2>3, <2>4, <2>5, <2>6, <2>7, <2>8, <2>9 DEF TxnStep
<1>4. ASSUME NEW p \in Procs, OtherStep(p) PROVE LeftAlive'
  <2>1. CASE Open(p)
    BY <2>1 DEF Open, libVars
  <2>2. CASE Close(p)
    BY <2>2 DEF Close
  <2>3. CASE Crash(p)
    BY <2>3 DEF Crash
  <2>4. CASE ReceiveShort(p)
    BY <2>4 DEF ReceiveShort, libVars
  <2>5. CASE Receive(p)
    BY <2>5 DEF Receive, libVars
  <2>6. CASE Call(p)
    BY <2>6 DEF Call, libVars
  <2>7. CASE Begin(p)
    BY <2>7 DEF Begin
  <2>8. CASE BeginFails(p)
    BY <2>8 DEF BeginFails, libVars
  <2>9. CASE CommitFails(p)
    BY <2>9 DEF CommitFails
  <2>10. CASE MapFullOpen(p)
    BY <2>10 DEF MapFullOpen
  <2>11. CASE MapFullOpenFails(p)
    BY <2>11 DEF MapFullOpenFails
  <2>12. CASE MapFullOpenFailsAtDbi(p)
    BY <2>12 DEF MapFullOpenFailsAtDbi
  <2>13. CASE MapFullBegin(p)
    BY <2>13 DEF MapFullBegin
  <2>14. CASE MapFullBeginFails(p)
    BY <2>14 DEF MapFullBeginFails, libVars
  <2> QED
    BY <1>4, <2>1, <2>2, <2>3, <2>4, <2>5, <2>6, <2>7, <2>8, <2>9, <2>10, <2>11, <2>12,
       <2>13, <2>14 DEF OtherStep
<1> QED
  BY <1>1, <1>2, <1>3, <1>4 DEF Next
-----------------------------------------------------------------------------
(* Isolation. *)

\* A store extends itself by the records of any call.
LEMMA ExtendsReflexive ==
    ASSUME NEW d, NEW S PROVE Extends(d, d, S)
  BY DEF Extends

\* What a call may turn a store into only grows with the records it was given.
LEMMA OwnChangeMonotone ==
    ASSUME NEW old, NEW new, NEW S, NEW T, S \subseteq T, Extends(old, new, S)
    PROVE  Extends(old, new, T)
  BY DEF Extends, ProbeFrom

\* Storing a record of the call, or the last probe of one.
LEMMA ExtendsByEntry ==
    ASSUME NEW old, NEW d \in Store, NEW s, NEW S \in SUBSET LogKey, NEW k \in S,
           Extends(old, d, S)
    PROVE  Extends(old, WithEntry(d, s, k), S)
<1>1. CASE s = "log"
  BY <1>1 DEF Extends, WithEntry, Store
<1>2. CASE s # "log"
  <2>1. WithEntry(d, s, k).log = d.log
    BY <1>2 DEF WithEntry, Store
  <2>2. ASSUME NEW m \in Mac
        PROVE  \/ WithEntry(d, s, k).probe[m] = d.probe[m]
               \/ m = k.mac /\ WithEntry(d, s, k).probe[m] = k.dt
    BY <1>2 DEF WithEntry, Store
  <2> QED
    BY <2>1, <2>2 DEF Extends, ProbeFrom
<1> QED
  BY <1>1, <1>2

\* A put of a record of the call is its own change.
LEMMA StoringKeepsIsolation ==
    ASSUME TypeOK, LiveTransaction, Isolation, Locals,
           NEW p \in Procs, pc[p] \in {"put", "retry"}, rec[p] \in batch[p],
           work' = Set(work, p, WithEntry(work[p], step[p], rec[p])),
           UNCHANGED <<db, lock, batch>>
    PROVE  Isolation'
<1> DEFINE new == WithEntry(work[p], step[p], rec[p])
<1>1. work[p] \in Store /\ batch[p] \in SUBSET LogKey
  BY TypeParts DEF LibType, LocalType
<1>2. p \in Writers /\ p \notin Removers
  BY DblogConstants DEF Locals, Recovering, Writers
<1>3. Extends(db, work[p], batch[p]) => Extends(db, new, batch[p])
  BY <1>1, ExtendsByEntry
<1>4. work' = [work EXCEPT ![p] = new]
  BY DEF Set
<1> HIDE DEF new
<1> QED
  BY <1>2, <1>3, <1>4, TypeParts DEF Isolation, OwnChange, LibType

\* Nobody has a transaction any more.
LEMMA FreeLockIsolation ==
    ASSUME lock' = NoProc PROVE Isolation'
  BY DblogConstants DEF Isolation

\* A process that has no transaction changes only what is its own.
LEMMA OthersIsolation ==
    ASSUME Isolation, NEW p \in Procs, lock # p, UNCHANGED <<db, lock>>,
           \A q \in Procs : q # p => work'[q] = work[q] /\ batch'[q] = batch[q]
    PROVE  Isolation'
  BY DEF Isolation, OwnChange

\* Every step keeps Isolation: no process commits while another has the lock.
LEMMA IsolationStep ==
    /\ TypeOK /\ LiveTransaction /\ Isolation /\ Locals /\ LeftAlive /\ [Next]_vars
    => Isolation'
<1> SUFFICES ASSUME TypeOK, LiveTransaction, Isolation, Locals, LeftAlive, [Next]_vars
             PROVE  Isolation'
  OBVIOUS
<1>0. LibType /\ PlaceType /\ LocalType /\ NoProc \notin Procs
  BY TypeParts, DblogConstants
<1> USE <1>0 DEF Isolation, LibType, PlaceType
<1>1. CASE Tick
  BY <1>1 DEF Tick, libVars, callVars, OwnChange
<1>2. CASE UNCHANGED vars
  BY <1>2 DEF vars, libVars, callVars, OwnChange
<1>3. ASSUME NEW p \in Procs, TxnStep(p) PROVE Isolation'
  <2>1. CASE NextLine(p)
    <3>1. lock' = lock /\ db' = db /\ work' = work
      BY <2>1 DEF NextLine, libVars
    <3>2. ASSUME NEW q \in Procs PROVE batch[q] \subseteq batch'[q]
      <4>1. CASE q = p
        BY <2>1, <4>1 DEF NextLine, LocalType, Set
      <4>2. CASE q # p
        BY <2>1, <4>2 DEF NextLine, LocalType, Set
      <4> QED
        BY <4>1, <4>2
    <3>3. ASSUME NEW q \in Procs, Extends(db, work[q], batch[q])
          PROVE  Extends(db, work[q], batch'[q])
      BY <3>2, <3>3, OwnChangeMonotone
    <3> QED
      BY <3>1, <3>3 DEF OwnChange
  <2>2. CASE Put(p)
    <3>0. rec[p] \in batch[p] /\ pc[p] \in {"put", "retry"}
      BY <2>2 DEF Put, Locals
    <3>1. CASE Advance(p) /\ work' = Set(work, p, WithEntry(work[p], step[p], rec[p]))
      BY <2>2, <3>0, <3>1, StoringKeepsIsolation DEF Put, libVars
    <3>2. CASE work' = work
      BY <2>2, <3>2 DEF Put, libVars, OwnChange
    <3> QED
      BY <2>2, <3>1, <3>2 DEF Put
  <2>3. CASE Scan(p)
    <3>1. p \in Removers /\ p \notin Writers
      BY <2>3, DblogConstants DEF Scan, Locals, Writers
    <3>2. CASE Abandon(p)
      BY <2>3, <3>2, FreeLockIsolation DEF Scan, Abandon, LiveTransaction, InTxn
    <3>3. ASSUME NEW q \in Query,
                 work' = Set(work, p, [work[p] EXCEPT !.log = @ \ RmHits(@, q)]),
                 UNCHANGED <<lock, batch>>
          PROVE  Isolation'
      <4> DEFINE new == [work[p] EXCEPT !.log = @ \ RmHits(@, q)]
      <4>1. Shrinks(db, work[p]) => Shrinks(db, new)
        BY DEF Shrinks, Store
      <4>2. work'[p] = new /\ \A r \in Procs : r # p => work'[r] = work[r]
        BY <3>3 DEF Set
      <4> HIDE DEF new
      <4>3. db' = db
        BY <2>3 DEF Scan
      <4> QED
        BY <3>1, <3>3, <4>1, <4>2, <4>3 DEF OwnChange
    <3> QED
      BY <2>3, <3>2, <3>3 DEF Scan
  <2>4. CASE Commit(p)
    <3>1. lock' = NoProc
      BY <2>4 DEF Commit, Publish, Abandon, LiveTransaction, InTxn
    <3> QED
      BY <3>1, FreeLockIsolation
  <2>5. CASE MapFullAbort(p)
    BY <2>5 DEF MapFullAbort, OwnChange, Abandon, Return, Set
  <2>6. CASE Retry(p)
    <3>1. CASE step[p] # "commit"
      <4>1. rec[p] \in batch[p] /\ pc[p] \in {"put", "retry"}
        BY <2>6, <3>1 DEF Retry, Locals, Recovering
      <4> QED
        BY <2>6, <3>1, <4>1, StoringKeepsIsolation DEF Retry
    <3>2. CASE step[p] = "commit"
      BY <2>6, <3>2, FreeLockIsolation DEF Retry, Publish, Abandon, LiveTransaction
    <3> QED
      BY <3>1, <3>2
  <2>7. CASE RetryFails(p)
    <3>1. lock' = NoProc
      BY <2>7 DEF RetryFails, Abandon, LiveTransaction
    <3> QED
      BY <3>1, FreeLockIsolation
  <2>8. CASE RetryOnStale(p)
    <3>1. lock # p /\ UNCHANGED <<db, lock, work>>
      BY <2>8 DEF RetryOnStale, LiveTransaction, libVars
    <3> QED
      BY <2>8, <3>1, OthersIsolation DEF RetryOnStale, Return, Set, LocalType
  <2>9. CASE RecoveryFailed(p)
    <3>1. CASE lock = p /\ step[p] = "commit"
      <4>1. work[p] = db /\ p \in Writers
        BY <2>9, <3>1 DEF RecoveryFailed, LeftAlive, Locals, Recovering
      <4>2. \A q \in Procs : lock' = q => q = p
        BY <2>9, <3>1 DEF RecoveryFailed
      <4>3. work' = work /\ db' = db
        BY <2>9, <3>1 DEF RecoveryFailed
      <4> QED
        BY <4>1, <4>2, <4>3, ExtendsReflexive DEF OwnChange
    <3>2. CASE lock = p /\ step[p] # "commit"
      BY <2>9, <3>2, FreeLockIsolation DEF RecoveryFailed, Abandon
    <3>3. CASE lock # p
      BY <2>9, <3>3, OthersIsolation DEF RecoveryFailed, Abandon, Return, Set, LocalType
    <3> QED
      BY <3>1, <3>2, <3>3
  <2> QED
    BY <1>3, <2>1, <2>2, <2>3, <2>4, <2>5, <2>6, <2>7, <2>8, <2>9 DEF TxnStep
<1>4. ASSUME NEW p \in Procs, OtherStep(p) PROVE Isolation'
  <2>1. CASE Open(p)
    BY <2>1 DEF Open, OwnChange, Abandon, Return, Set, libVars, callVars
  <2>2. CASE Close(p)
    BY <2>2 DEF Close, OwnChange, Abandon, Return, Set
  <2>3. CASE Crash(p)
    BY <2>3 DEF Crash, OwnChange, Abandon, Return, Set
  <2>4. CASE ReceiveShort(p)
    <3>1. batch' = batch
      BY <2>4 DEF ReceiveShort, Return, Set, Locals, LocalType
    <3> QED
      BY <2>4, <3>1 DEF ReceiveShort, libVars, OwnChange
  <2>5. CASE Receive(p)
    BY <2>5 DEF Receive, OwnChange, Abandon, Return, Set, libVars
  <2>6. CASE Call(p)
    BY <2>6 DEF Call, OwnChange, Abandon, Return, Set, libVars
  <2>7. CASE Begin(p)
    <3>1. db' = db /\ lock' = p /\ work'[p] = db /\ p \in Writers \cup Removers
      BY <2>7 DEF Begin, Acquire, Set, Writers, Procs
    <3> QED
      BY <3>1, ExtendsReflexive DEF OwnChange, Shrinks
  <2>8. CASE BeginFails(p)
    <3>1. batch' = batch
      BY <2>8 DEF BeginFails, Return, Set, Locals, LocalType
    <3> QED
      BY <2>8, <3>1 DEF BeginFails, libVars, OwnChange
  <2>9. CASE CommitFails(p)
    <3>1. lock' = NoProc
      BY <2>9 DEF CommitFails, Abandon, LiveTransaction, InTxn
    <3> QED
      BY <3>1, FreeLockIsolation
  <2>10. CASE MapFullOpen(p)
    BY <2>10 DEF MapFullOpen, OwnChange, Abandon, Return, Set, callVars
  <2>11. CASE MapFullOpenFails(p)
    BY <2>11 DEF MapFullOpenFails, OwnChange, Abandon, Return, Set, callVars
  <2>12. CASE MapFullOpenFailsAtDbi(p)
    <3>1. db' = db /\ lock' = p /\ work'[p] = db /\ p \in Writers
      BY <2>12 DEF MapFullOpenFailsAtDbi, Acquire, Set, Locals, Recovering
    <3> QED
      BY <3>1, ExtendsReflexive DEF OwnChange
  <2>13. CASE MapFullBegin(p)
    <3>1. db' = db /\ lock' = p /\ work'[p] = db /\ p \in Writers
      BY <2>13 DEF MapFullBegin, Acquire, Set, Locals, Recovering
    <3> QED
      BY <3>1, ExtendsReflexive DEF OwnChange
  <2>14. CASE MapFullBeginFails(p)
    BY <2>14 DEF MapFullBeginFails, OwnChange, Abandon, Return, Set, libVars, callVars
  <2> QED
    BY <1>4, <2>1, <2>2, <2>3, <2>4, <2>5, <2>6, <2>7, <2>8, <2>9, <2>10, <2>11, <2>12,
       <2>13, <2>14 DEF OtherStep
<1> QED
  BY <1>1, <1>2, <1>3, <1>4 DEF Next
-----------------------------------------------------------------------------
(* What a call has stored. *)

\* Every step keeps StoredSoFar: a put adds its record or its last probe, and only
\* processMapFull takes any away.
LEMMA StoredSoFarStep == TypeOK /\ Locals /\ StoredSoFar /\ [Next]_vars => StoredSoFar'
<1> SUFFICES ASSUME TypeOK, Locals, StoredSoFar, [Next]_vars PROVE StoredSoFar'
  OBVIOUS
<1>0. LibType /\ PlaceType /\ LocalType /\ Writers \subseteq Procs
  BY TypeParts DEF Writers, Procs
<1> USE <1>0 DEF StoredSoFar, LibType, PlaceType, LocalType, Set, Goto, Return
<1>1. CASE Tick
  BY <1>1 DEF Tick, libVars, callVars
<1>2. CASE UNCHANGED vars
  BY <1>2 DEF vars, libVars, callVars
<1>3. ASSUME NEW p \in Procs, TxnStep(p) PROVE StoredSoFar'
  <2>1. CASE NextLine(p)
    <3>1. work' = work /\ recovered' = recovered
      BY <2>1 DEF NextLine, libVars
    <3>2. CASE Goto(p, "commit") /\ UNCHANGED <<rec, batch>>
      BY <2>1, <3>1, <3>2 DEF NextLine
    <3>3. ASSUME NEW k \in LogKey, rec' = Set(rec, p, k),
                 batch' = Set(batch, p, batch[p] \cup {k}), Goto(p, "put")
          PROVE  StoredSoFar'
      <4>1. ASSUME Holds(work[p], batch[p])
            PROVE  /\ batch'[p] \ {rec'[p]} \subseteq work[p].log
                   /\ \A j \in batch'[p] \ {rec'[p]} :
                         ProbeFrom(batch'[p], j.mac, work[p].probe[j.mac])
        BY <3>3, <4>1 DEF Holds, ProbeFrom
      <4>2. pc'[p] = "put" /\ step'[p] = "log"
        BY <2>1, <3>3 DEF NextLine, Locals, Recovering
      <4>3. pc[p] = "next"
        BY <2>1 DEF NextLine
      <4>4. \A q \in Procs : q # p => /\ batch'[q] = batch[q] /\ rec'[q] = rec[q]
                                      /\ pc'[q] = pc[q] /\ step'[q] = step[q]
        BY <2>1, <3>3 DEF NextLine
      <4> QED
        BY <3>1, <4>1, <4>2, <4>3, <4>4 DEF Writers, Procs
    <3>4. \A m \in Mac, b \in PadByte, t \in Time : [mac |-> m, pad |-> b, dt |-> t] \in LogKey
      BY DEF LogKey
    <3> QED
      BY <2>1, <3>2, <3>3, <3>4 DEF NextLine
  <2>2. CASE Put(p)
    <3>1. CASE Goto(p, "mfAbort") /\ UNCHANGED <<work, step, count>>
      BY <2>2, <3>1 DEF Put
    <3>2. CASE /\ Advance(p)
               /\ work' = Set(work, p, WithEntry(work[p], step[p], rec[p]))
      <4> DEFINE new == WithEntry(work[p], step[p], rec[p])
      <4>1. /\ rec[p] \in batch[p] /\ batch[p] \subseteq LogKey
            /\ work[p] \in Store /\ pc[p] = "put"
        BY <2>2 DEF Put, Locals
      <4>2. work'[p] = new /\ \A q \in Procs : q # p => work'[q] = work[q]
        BY <3>2
      <4>3. /\ UNCHANGED <<batch, rec, recovered>>
            /\ \A q \in Procs : q # p => pc'[q] = pc[q] /\ step'[q] = step[q]
        BY <2>2, <3>2 DEF Put, Advance
      <4>4. CASE step[p] = "log"
        <5>1. new.log = work[p].log \cup {rec[p]} /\ new.probe = work[p].probe
          BY <4>1, <4>4 DEF WithEntry, Store
        <5>2. pc'[p] = "put" /\ step'[p] = "probe"
          BY <3>2, <4>4 DEF Advance
        <5> HIDE DEF new
        <5> QED
          BY <4>1, <4>2, <4>3, <5>1, <5>2 DEF Writers, Procs
      <4>5. CASE step[p] = "probe"
        <5>1. /\ new.log = work[p].log /\ new.probe[rec[p].mac] = rec[p].dt
              /\ \A m \in Mac : m # rec[p].mac => new.probe[m] = work[p].probe[m]
          BY <4>1, <4>5 DEF WithEntry, Store, LogKey
        <5>2. pc'[p] \in {"next", "commit"}
          BY <3>2, <4>5 DEF Advance
        <5>3. ASSUME p \in Writers, ~recovered[p] PROVE Holds(new, batch[p])
          <6>1. batch[p] \subseteq new.log
            BY <4>1, <4>5, <5>1, <5>3
          <6>2. ASSUME NEW k \in batch[p] PROVE ProbeFrom(batch[p], k.mac, new.probe[k.mac])
            <7>1. CASE k.mac = rec[p].mac
              BY <4>1, <5>1, <7>1 DEF ProbeFrom
            <7>2. CASE k.mac # rec[p].mac
              <8>1. k.mac \in Mac /\ k \in batch[p] \ {rec[p]}
                BY <4>1, <6>2, <7>2 DEF LogKey
              <8>2. ProbeFrom(batch[p], k.mac, work[p].probe[k.mac])
                BY <4>1, <5>3, <8>1
              <8> QED
                BY <5>1, <7>2, <8>1, <8>2
            <7> QED
              BY <7>1, <7>2
          <6> QED
            BY <6>1, <6>2 DEF Holds
        <5> HIDE DEF new
        <5> QED
          BY <4>2, <4>3, <5>2, <5>3 DEF Writers, Procs
      <4> QED
        BY <3>2, <4>4, <4>5 DEF Advance
    <3> QED
      BY <2>2, <3>1, <3>2 DEF Put
  <2>3. CASE Scan(p)
    <3>1. p \notin Writers
      BY <2>3, DblogConstants DEF Scan, Locals, Writers
    <3>2. \A q \in Procs : q # p => /\ work'[q] = work[q] /\ pc'[q] = pc[q] /\ step'[q] = step[q]
                                    /\ rec'[q] = rec[q] /\ batch'[q] = batch[q]
                                    /\ recovered'[q] = recovered[q]
      BY <2>3 DEF Scan, Abandon
    <3> QED
      BY <3>1, <3>2 DEF Writers, Procs
  <2>4. CASE Commit(p)
    BY <2>4 DEF Commit, Publish, Abandon
  <2>5. CASE MapFullAbort(p)
    BY <2>5 DEF MapFullAbort, Abandon
  <2>6. CASE Retry(p)
    <3>1. \A q \in Procs : q # p => /\ work'[q] = work[q] /\ pc'[q] = pc[q] /\ step'[q] = step[q]
                                    /\ rec'[q] = rec[q] /\ batch'[q] = batch[q]
                                    /\ recovered'[q] = recovered[q]
      BY <2>6 DEF Retry, Advance, Publish, Abandon
    <3>2. recovered'[p] \/ pc'[p] = "idle"
      BY <2>6 DEF Retry, Locals
    <3> QED
      BY <3>1, <3>2 DEF Writers, Procs
  <2>7. CASE RetryFails(p)
    BY <2>7 DEF RetryFails, Abandon
  <2>8. CASE RetryOnStale(p)
    BY <2>8 DEF RetryOnStale, libVars
  <2>9. CASE RecoveryFailed(p)
    BY <2>9 DEF RecoveryFailed, Abandon
  <2> QED
    BY <1>3, <2>1, <2>2, <2>3, <2>4, <2>5, <2>6, <2>7, <2>8, <2>9 DEF TxnStep
<1>4. ASSUME NEW p \in Procs, OtherStep(p) PROVE StoredSoFar'
  <2>1. CASE Open(p)
    BY <2>1 DEF Open, libVars, callVars
  <2>2. CASE Close(p)
    BY <2>2 DEF Close
  <2>3. CASE Crash(p)
    BY <2>3 DEF Crash
  <2>4. CASE ReceiveShort(p)
    BY <2>4 DEF ReceiveShort, libVars
  <2>5. CASE Receive(p)
    BY <2>5 DEF Receive, libVars
  <2>6. CASE Call(p)
    BY <2>6 DEF Call, libVars
  <2>7. CASE Begin(p)
    <3>1. \A q \in Procs : q # p => /\ work'[q] = work[q] /\ pc'[q] = pc[q] /\ step'[q] = step[q]
                                    /\ rec'[q] = rec[q] /\ batch'[q] = batch[q]
                                    /\ recovered'[q] = recovered[q]
      BY <2>7 DEF Begin, Acquire
    <3>2. CASE p \in Collectors
      <4>1. /\ pc'[p] = "put" /\ step'[p] = "log"
            /\ batch'[p] = {Stamp(p)} /\ rec'[p] = Stamp(p)
        BY <2>7, <3>2, DblogConstants DEF Begin, Locals, Recovering
      <4> QED
        BY <3>1, <4>1 DEF Writers, Procs
    <3>3. CASE p \in Loaders
      <4>1. batch'[p] = {} /\ pc'[p] = "next"
        BY <2>7, <3>3, DblogConstants DEF Begin, Locals
      <4> QED
        BY <3>1, <4>1 DEF Writers, Procs, Holds
    <3>4. CASE p \in Removers
      <4>1. p \notin Writers
        BY <3>4, DblogConstants DEF Writers
      <4> QED
        BY <3>1, <4>1 DEF Writers, Procs
    <3> QED
      BY <3>2, <3>3, <3>4 DEF Procs
  <2>8. CASE BeginFails(p)
    BY <2>8 DEF BeginFails, libVars
  <2>9. CASE CommitFails(p)
    BY <2>9 DEF CommitFails, callVars, Abandon
  <2>10. CASE MapFullOpen(p)
    BY <2>10 DEF MapFullOpen, callVars
  <2>11. CASE MapFullOpenFails(p)
    BY <2>11 DEF MapFullOpenFails, callVars
  <2>12. CASE MapFullOpenFailsAtDbi(p)
    BY <2>12 DEF MapFullOpenFailsAtDbi, callVars, Acquire
  <2>13. CASE MapFullBegin(p)
    BY <2>13 DEF MapFullBegin, callVars, Acquire
  <2>14. CASE MapFullBeginFails(p)
    BY <2>14 DEF MapFullBeginFails, libVars, callVars
  <2> QED
    BY <1>4, <2>1, <2>2, <2>3, <2>4, <2>5, <2>6, <2>7, <2>8, <2>9, <2>10, <2>11, <2>12,
       <2>13, <2>14 DEF OtherStep
<1> QED
  BY <1>1, <1>2, <1>3, <1>4 DEF Next
-----------------------------------------------------------------------------
(* Records and their last probes. *)

\* Storing a last probe takes none away, and gives the record its own.
LEMMA WithProbe ==
    ASSUME NEW d \in Store, NEW k \in LogKey, NEW j \in LogKey,
           d.probe[j.mac] # 0 \/ j = k
    PROVE  WithEntry(d, "probe", k).probe[j.mac] # 0
<1>1. k.dt # 0 /\ j.mac \in Mac /\ k.mac \in Mac
  BY KeyConstants DEF LogKey, Time
<1>2. WithEntry(d, "probe", k).probe = [d.probe EXCEPT ![k.mac] = k.dt]
  BY DEF WithEntry, Store
<1>3. d.probe \in [Mac -> 0..MaxTime]
  BY DEF Store
<1> QED
  BY <1>1, <1>2, <1>3

\* A put keeps ProbesFollow for the process that makes it.
LEMMA PutProbesFollow ==
    ASSUME TypeOK, Locals, ProbesFollow, NEW p \in Procs,
           pc[p] = "put" \/ (pc[p] = "retry" /\ step[p] # "commit"),
           work' = Set(work, p, WithEntry(work[p], step[p], rec[p])),
           Advance(p), UNCHANGED rec
    PROVE  \A k \in work'[p].log :
              \/ work'[p].probe[k.mac] # 0
              \/ pc'[p] \in {"put", "mfAbort"} /\ step'[p] = "probe" /\ k = rec'[p]
<1> DEFINE new == WithEntry(work[p], step[p], rec[p])
<1>0. PlaceType /\ LocalType /\ LibType
  BY TypeParts
<1>1. rec[p] \in LogKey
  BY <1>0 DEF Locals, LocalType, Recovering
<1>2. work[p] \in Store /\ work[p].log \subseteq LogKey /\ work'[p] = new
  BY <1>0 DEF LibType, Store, Set
<1>3. CASE step[p] = "log"
  <2>1. new.log = work[p].log \cup {rec[p]} /\ new.probe = work[p].probe
    BY <1>2, <1>3 DEF WithEntry, Store
  <2>2. pc'[p] = "put" /\ step'[p] = "probe" /\ rec'[p] = rec[p]
    BY <1>0, <1>3 DEF Advance, Goto, Set, PlaceType
  <2>3. \A k \in work[p].log : work[p].probe[k.mac] # 0
    BY <1>3 DEF ProbesFollow
  <2> HIDE DEF new
  <2> QED
    BY <1>2, <2>1, <2>2, <2>3
<1>4. CASE step[p] = "probe"
  <2>1. new.log = work[p].log
    BY <1>2, <1>4 DEF WithEntry, Store
  <2>2. ASSUME NEW k \in new.log PROVE new.probe[k.mac] # 0
    <3>1. k \in LogKey /\ (work[p].probe[k.mac] # 0 \/ k = rec[p])
      BY <1>2, <2>1, <2>2 DEF ProbesFollow
    <3> QED
      BY <1>1, <1>2, <1>4, <3>1, WithProbe
  <2> HIDE DEF new
  <2> QED
    BY <1>2, <2>2
<1> QED
  BY <1>3, <1>4 DEF Advance

\* Every step of a process keeps ProbesFollow: a new transaction starts from a
\* database in which every record has its last probe.
LEMMA ProbesFollowStep ==
    TypeOK /\ Locals /\ RecordsHaveProbes /\ ProbesFollow /\ [Next]_vars => ProbesFollow'
<1> SUFFICES ASSUME TypeOK, Locals, RecordsHaveProbes, ProbesFollow, [Next]_vars
             PROVE  ProbesFollow'
  OBVIOUS
<1>0. LibType /\ PlaceType /\ LocalType
  BY TypeParts
<1> DEFINE Follows(p) ==
      \A k \in work'[p].log :
         \/ work'[p].probe[k.mac] # 0
         \/ pc'[p] \in {"put", "mfAbort"} /\ step'[p] = "probe" /\ k = rec'[p]
<1>1. CASE Tick
  BY <1>1 DEF Tick, libVars, callVars, ProbesFollow
<1>2. CASE UNCHANGED vars
  BY <1>2 DEF vars, libVars, callVars, ProbesFollow
<1>e. EmptyStore.log = {}
  BY DEF EmptyStore
<1>3. ASSUME NEW p \in Procs, TxnStep(p) PROVE ProbesFollow'
  <2>1. \A q \in Procs : q # p => /\ work'[q] = work[q] /\ pc'[q] = pc[q]
                                  /\ step'[q] = step[q] /\ rec'[q] = rec[q]
    BY <1>0, <1>3 DEF TxnStep, NextLine, Put, Scan, Commit, MapFullAbort, Retry, RetryFails,
       RetryOnStale, RecoveryFailed, Advance, Publish, Abandon, Return, Goto, Set, libVars,
       LibType, PlaceType, LocalType
  <2>2. Follows(p)
    <3> USE <1>0, <1>3 DEF LibType, PlaceType, LocalType, Set, Goto, Return
    <3>1. CASE NextLine(p)
      BY <3>1 DEF NextLine, libVars, ProbesFollow
    <3>2. CASE Put(p)
      <4>1. CASE Advance(p) /\ work' = Set(work, p, WithEntry(work[p], step[p], rec[p]))
        BY <3>2, <4>1, PutProbesFollow DEF Put
      <4>2. CASE Goto(p, "mfAbort") /\ UNCHANGED <<work, step, count>>
        BY <3>2, <4>2 DEF Put, ProbesFollow
      <4> QED
        BY <3>2, <4>1, <4>2 DEF Put
    <3>3. CASE Scan(p)
      <4>1. /\ work'[p].log \subseteq work[p].log
            /\ work'[p].log # {} => work'[p].probe = work[p].probe
        BY <1>e, <3>3 DEF Scan, Abandon, Store
      <4>2. pc[p] = "scan"
        BY <3>3 DEF Scan
      <4> QED
        BY <4>1, <4>2 DEF ProbesFollow
    <3>4. CASE Commit(p)
      BY <1>e, <3>4 DEF Commit, Publish, Abandon
    <3>5. CASE MapFullAbort(p)
      BY <1>e, <3>5 DEF MapFullAbort, Abandon
    <3>6. CASE Retry(p)
      <4>1. CASE step[p] = "commit"
        BY <1>e, <3>6, <4>1 DEF Retry, Publish, Abandon
      <4>2. CASE step[p] # "commit"
        BY <3>6, <4>2, PutProbesFollow DEF Retry
      <4> QED
        BY <4>1, <4>2
    <3>7. CASE RetryFails(p)
      BY <1>e, <3>7 DEF RetryFails, Abandon
    <3>8. CASE RetryOnStale(p)
      BY <3>8 DEF RetryOnStale, libVars, ProbesFollow
    <3>9. CASE RecoveryFailed(p)
      BY <1>e, <3>9 DEF RecoveryFailed, Abandon, ProbesFollow
    <3> QED
      BY <3>1, <3>2, <3>3, <3>4, <3>5, <3>6, <3>7, <3>8, <3>9 DEF TxnStep
  <2> QED
    BY <2>1, <2>2 DEF ProbesFollow
<1>4. ASSUME NEW p \in Procs, OtherStep(p) PROVE ProbesFollow'
  <2>1. \A q \in Procs : q # p => /\ work'[q] = work[q] /\ pc'[q] = pc[q]
                                  /\ step'[q] = step[q] /\ rec'[q] = rec[q]
    BY <1>0, <1>4 DEF OtherStep, Open, Close, Crash, ReceiveShort, Receive, Call, Begin,
       BeginFails, CommitFails, MapFullOpen, MapFullOpenFails, MapFullOpenFailsAtDbi,
       MapFullBegin, MapFullBeginFails, Acquire, Abandon, Return, Goto, Set, libVars,
       callVars, LibType, PlaceType, LocalType
  <2>2. CASE work'[p] = work[p]
    <3>1. pc[p] \notin {"put", "mfAbort"}  \/ Crash(p)
      BY <1>4 DEF OtherStep, Open, Close, ReceiveShort, Receive, Call, Begin, BeginFails,
         CommitFails, MapFullOpen, MapFullOpenFails, MapFullOpenFailsAtDbi, MapFullBegin,
         MapFullBeginFails
    <3>2. Crash(p) => work'[p] = EmptyStore
      BY <1>0 DEF Crash, Set, LibType
    <3> QED
      BY <1>e, <2>1, <2>2, <3>1, <3>2 DEF ProbesFollow
  <2>3. CASE work'[p] = EmptyStore
    BY <1>e, <2>1, <2>3 DEF ProbesFollow
  <2>4. CASE work'[p] = db
    BY <2>1, <2>4 DEF ProbesFollow, RecordsHaveProbes
  <2>5. work'[p] = work[p] \/ work'[p] = EmptyStore \/ work'[p] = db
    BY <1>0, <1>4 DEF OtherStep, Open, Close, Crash, ReceiveShort, Receive, Call, Begin,
       BeginFails, CommitFails, MapFullOpen, MapFullOpenFails, MapFullOpenFailsAtDbi,
       MapFullBegin, MapFullBeginFails, Acquire, Abandon, Set, libVars, LibType
  <2> QED
    BY <2>2, <2>3, <2>4, <2>5
<1> QED
  BY <1>1, <1>2, <1>3, <1>4 DEF Next

\* Only a commit changes the database, and it publishes the transaction.
LEMMA DbChanges ==
    ASSUME [Next]_vars, db' # db
    PROVE  \E p \in Procs : (Commit(p) \/ Retry(p)) /\ db' = work[p]
<1>1. ~Tick /\ ~UNCHANGED vars
  BY DEF Tick, vars, libVars
<1>2. ASSUME NEW p \in Procs, OtherStep(p) PROVE FALSE
  BY <1>2 DEF OtherStep, Open, Close, Crash, ReceiveShort, Receive, Call, Begin, BeginFails,
     CommitFails, MapFullOpen, MapFullOpenFails, MapFullOpenFailsAtDbi, MapFullBegin,
     MapFullBeginFails, libVars
<1>3. ASSUME NEW p \in Procs, TxnStep(p) PROVE (Commit(p) \/ Retry(p)) /\ db' = work[p]
  <2>1. Commit(p) \/ Retry(p)
    BY <1>3 DEF TxnStep, NextLine, Put, Scan, MapFullAbort, RetryFails, RetryOnStale,
       RecoveryFailed, libVars
  <2> QED
    BY <2>1 DEF Commit, Retry, Publish
<1> QED
  BY <1>1, <1>2, <1>3 DEF Next

\* A commit publishes a transaction in which every record has its last probe.
LEMMA RecordsHaveProbesStep ==
    TypeOK /\ ProbesFollow /\ RecordsHaveProbes /\ [Next]_vars => RecordsHaveProbes'
<1> SUFFICES ASSUME ProbesFollow, RecordsHaveProbes, [Next]_vars, db' # db
             PROVE  RecordsHaveProbes'
  BY DEF RecordsHaveProbes
<1>1. PICK p \in Procs : (Commit(p) \/ Retry(p)) /\ db' = work[p]
  BY DbChanges
<1>2. pc[p] \in {"commit", "retry"}
  BY <1>1 DEF Commit, Retry
<1> QED
  BY <1>1, <1>2 DEF ProbesFollow, RecordsHaveProbes
-----------------------------------------------------------------------------
(* The theorems. *)

\* The inductive invariant holds initially.
LEMMA InitIInv == Init => IInv
<1> SUFFICES ASSUME Init PROVE IInv
  OBVIOUS
<1>1. TypeOK
  BY InitType
<1>2. LiveTransaction /\ Isolation /\ Locals /\ LeftAlive /\ StoredSoFar
  BY DblogConstants
  DEF Init, LiveTransaction, Isolation, Locals, LeftAlive, StoredSoFar, InTxn, Recovering,
      Writers, Procs
<1>3. RecordsHaveProbes /\ ProbesFollow
  BY DEF Init, RecordsHaveProbes, ProbesFollow, EmptyStore
<1> QED
  BY <1>1, <1>2, <1>3 DEF IInv

\* Every step keeps the inductive invariant.
LEMMA StepIInv == IInv /\ [Next]_vars => IInv'
  BY TypeStep, LocalsStep, LiveTransactionStep, LeftAliveStep, IsolationStep, StoredSoFarStep,
     ProbesFollowStep, RecordsHaveProbesStep
  DEF IInv

\* The inductive invariant: in every reachable state of the processes and the
\* database, whatever the library does.
THEOREM InvariantHolds == Spec => []IInv
  BY InitIInv, StepIInv, PTL DEF Spec

\* Every variable keeps its type through the calls of dblog.cpp.
THEOREM TypeCorrect == Spec => []TypeOK
<1>1. IInv => TypeOK
  BY DEF IInv
<1> QED
  BY <1>1, InvariantHolds, PTL

\* The calls of dblog.cpp between begin and commit are on a live transaction of the
\* process that holds the writer lock.
THEOREM TransactionsAreLive == Spec => []LiveTransaction
<1>1. IInv => LiveTransaction
  BY DEF IInv
<1> QED
  BY <1>1, InvariantHolds, PTL

\* No call is about to undo what another process committed, processMapFull included.
THEOREM CallsAreIsolated == Spec => []Isolation
<1>1. IInv => Isolation
  BY DEF IInv
<1> QED
  BY <1>1, InvariantHolds, PTL

\* A step that changes the database is the commit of the call that has the lock.
LEMMA CommitStep ==
    ASSUME IInv, [Next]_vars, db' # db
    PROVE  \E p \in Procs : lock = p /\ OwnChange(p, db, db')
<1>1. PICK p \in Procs : (Commit(p) \/ Retry(p)) /\ db' = work[p]
  BY DbChanges
<1>2. lock = p
  BY <1>1 DEF IInv, LiveTransaction, Commit, Retry, InTxn
<1> QED
  BY <1>1, <1>2 DEF IInv, Isolation

\* No failure of putLog, putLogEntries or rmLog leaves a record without the last probe
\* of its MAC.
THEOREM ProbesOfRecords == Spec => []RecordsHaveProbes
<1>1. IInv => RecordsHaveProbes
  BY DEF IInv
<1> QED
  BY <1>1, InvariantHolds, PTL

\* The database changes only by the commit of the process that has the lock, and only
\* by what its call was given: no record another process committed is ever lost to a
\* transaction, a map that filled and was opened again in between included.
THEOREM CommitsAreOwn == Spec => CommitsOwnRecords
<1>1. IInv /\ [Next]_vars =>
        (db' # db => \E p \in Procs : lock = p /\ OwnChange(p, db, db'))
  BY CommitStep
<1> QED
  BY <1>1, InvariantHolds, PTL DEF Spec, CommitsOwnRecords

\* A success without processMapFull is a commit of a transaction that holds the batch.
LEMMA SuccessStep ==
    ASSUME IInv, [Next]_vars, NEW p \in Writers, Succeeds(p), ~recovered[p]
    PROVE  Holds(db', batch[p])
<1>0. p \in Procs /\ PlaceType /\ LocalType /\ pc[p] = "commit" /\ pc'[p] = "idle"
  BY TypeParts DEF IInv, Locals, Succeeds, Writers, Procs
<1>1. ~Tick /\ ~UNCHANGED vars
  BY <1>0 DEF Tick, vars
<1>2. ASSUME NEW q \in Procs, q # p, TxnStep(q) \/ OtherStep(q) PROVE FALSE
  <2>1. \E v : pc' = [pc EXCEPT ![q] = v]
    <3>1. CASE TxnStep(q)
      BY <3>1 DEF TxnStep, NextLine, Put, Scan, Commit, MapFullAbort, Retry, RetryFails,
         RetryOnStale, RecoveryFailed, Advance, Return, Goto, Set
    <3>2. CASE OtherStep(q)
      BY <3>2 DEF OtherStep, Open, Close, Crash, ReceiveShort, Receive, Call, Begin,
         BeginFails, CommitFails, MapFullOpen, MapFullOpenFails, MapFullOpenFailsAtDbi,
         MapFullBegin, MapFullBeginFails, Return, Goto, Set
    <3> QED
      BY <1>2, <3>1, <3>2
  <2> QED
    BY <1>0, <1>2, <2>1 DEF PlaceType
<1>3. ~OtherStep(p)
  <2>1. ~CommitFails(p)
    BY <1>0 DEF CommitFails, Return, Goto, Set, Succeeds, ErrCommit, PlaceType, LocalType
  <2>2. ~Crash(p)
    BY <1>0 DEF Crash, Set, PlaceType
  <2> QED
    BY <1>0, <2>1, <2>2 DEF OtherStep, Open, Close, ReceiveShort, Receive, Call, Begin,
       BeginFails, MapFullOpen, MapFullOpenFails, MapFullOpenFailsAtDbi, MapFullBegin,
       MapFullBeginFails
<1>4. TxnStep(p)
  BY <1>1, <1>2, <1>3 DEF Next
<1>5. Commit(p)
  BY <1>0, <1>4 DEF TxnStep, NextLine, Put, Scan, MapFullAbort, Retry, RetryFails,
     RetryOnStale, RecoveryFailed
<1> QED
  BY <1>0, <1>5 DEF Commit, Publish, IInv, StoredSoFar

\* A success of putLog or putLogEntries that did not go through processMapFull means
\* that every record of the call is in the log, with the last probe of its MAC.
THEOREM SuccessMeansStored == Spec => StoredUnlessRecovered
<1>1. IInv /\ [Next]_vars =>
        \A p \in Writers : Succeeds(p) /\ ~recovered[p] => Holds(db', batch[p])
  BY SuccessStep
<1> QED
  BY <1>1, InvariantHolds, PTL DEF Spec, StoredUnlessRecovered

\* What a call commits without processMapFull is a change of the abstract store: the
\* batch as a whole with its last probes, or the records rmLog removed.
LEMMA WholeStep ==
    ASSUME IInv, [Next]_vars, NEW p \in Procs, lock = p, ~recovered[p], db' # db
    PROVE  AbstractStore!Next
<1>0. DbType /\ LibType /\ LocalType
  BY TypeParts DEF IInv
<1>1. PICK q \in Procs : (Commit(q) \/ Retry(q)) /\ db' = work[q]
  BY DbChanges
<1>2. q = p
  BY <1>1 DEF IInv, LiveTransaction, Commit, Retry, InTxn
<1>3. pc[p] = "commit"
  BY <1>1, <1>2 DEF IInv, Locals, Commit, Retry
<1>4. db \in Store /\ db' \in Store /\ batch[p] \subseteq LogKey /\ OwnChange(p, db, db')
  BY <1>0, <1>1, <1>2 DEF DbType, LibType, LocalType, IInv, Isolation
<1> USE DEF AbstractStore!Next, AbstractStore!Record, AbstractStore!Remove,
            AbstractStore!NamedBy, AbstractStore!Store, AbstractStore!LogKey,
            AbstractStore!Mac, AbstractStore!Time, Store, LogKey, Mac, Time
<1>5. CASE p \in Writers
  <2>1. Extends(db, db', batch[p]) /\ Holds(db', batch[p])
    BY <1>1, <1>2, <1>3, <1>4, <1>5, DblogConstants
    DEF OwnChange, Writers, IInv, StoredSoFar
  <2>2. batch[p] # {}
    <3> SUFFICES ASSUME batch[p] = {} PROVE FALSE
      OBVIOUS
    <3>1. db'.log = db.log /\ \A m \in Mac : db'.probe[m] = db.probe[m]
      BY <2>1 DEF Extends, ProbeFrom
    <3>2. db'.probe = db.probe
      BY <1>4, <3>1
    <3>3. db' = db
      BY <1>4, <3>1, <3>2
    <3> QED
      BY <3>3
  <2>3. AbstractStore!Record(batch[p])
    <3>1. db'.log = db.log \cup batch[p]
      BY <2>1 DEF Extends, Holds
    <3>2. ASSUME NEW m \in Mac
          PROVE  IF m \in {k.mac : k \in batch[p]}
                 THEN \E k \in batch[p] : k.mac = m /\ db'.probe[m] = k.dt
                 ELSE db'.probe[m] = db.probe[m]
      BY <2>1, <3>2 DEF Extends, Holds, ProbeFrom
    <3> QED
      BY <3>1, <3>2
  <2> QED
    BY <1>4, <2>2, <2>3
<1>6. CASE p \notin Writers
  <2>1. db'.log \subseteq db.log /\ db'.probe = db.probe
    BY <1>4, <1>6 DEF OwnChange, Shrinks
  <2>2. AbstractStore!Remove(db.log \ db'.log)
    BY <1>4, <2>1
  <2> QED
    BY <2>2
<1> QED
  BY <1>5, <1>6

\* Every call that does not go through processMapFull changes the database as the
\* abstract store says, whatever other calls do with the map meanwhile.
THEOREM CallsAreWhole == Spec => WholeUnlessRecovered
<1>1. IInv /\ [Next]_vars =>
        \A p \in Procs : lock = p /\ ~recovered[p] /\ db' # db => AbstractStore!Next
  BY WholeStep
<1> QED
  BY <1>1, InvariantHolds, PTL DEF Spec, WholeUnlessRecovered
-----------------------------------------------------------------------------
(* Where the map does not fill.  The two properties of the last probe and the *)
(* refinement of ProbeStore are lost in processMapFull; they hold as long as  *)
(* no call goes into it.                                                      *)

NoRecovery == \A p \in Procs : pc[p] # "mfAbort"

\* No call is in processMapFull or was.
Calm == \A p \in Procs : pc[p] \notin Recovering /\ ~recovered[p]

\* A map with room for every key there can be, and commits that find it so.
RoomForAll ==
    /\ IsFiniteSet(LogKey) /\ IsFiniteSet(Mac)
    /\ InitMap >= Cardinality(LogKey) + Cardinality(Mac)
    /\ "commit" \notin Faults

\* A process comes into a recovery only through mfAbort.
LEMMA CalmStep == TypeOK /\ Calm /\ NoRecovery' /\ [Next]_vars => Calm'
<1> SUFFICES ASSUME TypeOK, Calm, NoRecovery', [Next]_vars PROVE Calm'
  OBVIOUS
<1>0. PlaceType /\ LocalType
  BY TypeParts
<1> USE <1>0 DEF Calm, NoRecovery, Recovering, PlaceType, LocalType
<1>1. CASE Tick
  BY <1>1 DEF Tick, callVars
<1>2. CASE UNCHANGED vars
  BY <1>2 DEF vars, callVars
<1>3. ASSUME NEW p \in Procs, TxnStep(p) PROVE Calm'
  BY <1>3 DEF TxnStep, NextLine, Put, Scan, Commit, MapFullAbort, Retry, RetryFails,
     RetryOnStale, RecoveryFailed, Advance, Return, Goto, Set, callVars
<1>4. ASSUME NEW p \in Procs, OtherStep(p) PROVE Calm'
  BY <1>4 DEF OtherStep, Open, Close, Crash, ReceiveShort, Receive, Call, Begin, BeginFails,
     CommitFails, MapFullOpen, MapFullOpenFails, MapFullOpenFailsAtDbi, MapFullBegin,
     MapFullBeginFails, Return, Goto, Set, callVars
<1> QED
  BY <1>1, <1>2, <1>3, <1>4 DEF Next

\* The two facts about all states of a behaviour without recoveries.
LEMMA CalmAlways == Spec /\ []NoRecovery => [](IInv /\ Calm)
<1>1. Init => Calm
  BY DEF Init, Calm, Recovering
<1>2. IInv => TypeOK
  BY DEF IInv
<1> QED
  BY <1>1, <1>2, CalmStep, InvariantHolds, PTL DEF Spec

\* What the database promises its readers: as long as no call goes into processMapFull,
\* the processes implement ProbeStore, and every change is one whole call.
THEOREM StoreIsImplemented == Spec /\ []NoRecovery => ImplementsProbeStore
<1>1. Init => AbstractStore!Init
  BY DEF Init, AbstractStore!Init, EmptyStore, AbstractStore!EmptyStore, Mac, AbstractStore!Mac
<1>2. IInv /\ Calm /\ [Next]_vars => [AbstractStore!Next]_db
  <2> SUFFICES ASSUME IInv, Calm, [Next]_vars, db' # db PROVE AbstractStore!Next
    OBVIOUS
  <2>1. PICK p \in Procs : lock = p /\ OwnChange(p, db, db')
    BY CommitStep
  <2> QED
    BY <2>1, WholeStep DEF Calm
<1> QED
  BY <1>1, <1>2, CalmAlways, PTL DEF Spec, ImplementsProbeStore, AbstractStore!Spec

\* A table has at most every record and every last probe there can be.
LEMMA RoomFits ==
    ASSUME RoomForAll, NEW d \in Store, mapSize \in Nat, mapSize >= InitMap PROVE Fits(d)
<1> DEFINE probes == {m \in Mac : d.probe[m] # 0}
<1>1. Cardinality(d.log) <= Cardinality(LogKey) /\ IsFiniteSet(d.log)
  BY FS_Subset DEF RoomForAll, Store
<1>2. Cardinality(probes) <= Cardinality(Mac) /\ IsFiniteSet(probes)
  <2>1. probes \in SUBSET Mac
    OBVIOUS
  <2> HIDE DEF probes
  <2> QED
    BY <2>1, FS_Subset DEF RoomForAll
<1>3. /\ Cardinality(d.log) \in Nat /\ Cardinality(probes) \in Nat
      /\ Cardinality(LogKey) \in Nat /\ Cardinality(Mac) \in Nat
  <2> HIDE DEF probes
  <2> QED
    BY <1>1, <1>2, FS_CardinalityType DEF RoomForAll
<1>4. InitMap \in Nat
  BY DblogConstants
<1>5. Entries(d) = Cardinality(d.log) + Cardinality(probes)
  BY DEF Entries
<1> HIDE DEF probes
<1> QED
  BY <1>1, <1>2, <1>3, <1>4, <1>5 DEF Fits, RoomForAll

\* The map never gets smaller.
LEMMA MapGrows == TypeOK /\ [Next]_vars => mapSize' >= mapSize
<1> SUFFICES ASSUME TypeOK, [Next]_vars PROVE mapSize' >= mapSize
  OBVIOUS
<1>0. mapSize \in Nat /\ seen \in [Procs -> Nat]
  BY DEF TypeOK
<1>1. \A p \in Procs : \A n \in Grown(p) : n \in Nat /\ n >= mapSize
  BY <1>0 DEF Grown
<1>2. mapSize' = mapSize \/ \E p \in Procs : mapSize' \in Grown(p)
  <2>1. CASE Tick \/ UNCHANGED vars
    BY <2>1 DEF Tick, vars, libVars
  <2>2. ASSUME NEW p \in Procs, TxnStep(p) PROVE mapSize' = mapSize
    BY <2>2 DEF TxnStep, NextLine, Put, Scan, Commit, MapFullAbort, Retry, RetryFails,
       RetryOnStale, RecoveryFailed, libVars
  <2>3. ASSUME NEW p \in Procs, OtherStep(p) PROVE mapSize' = mapSize \/ mapSize' \in Grown(p)
    BY <2>3 DEF OtherStep, Open, Close, Crash, ReceiveShort, Receive, Call, Begin, BeginFails,
       CommitFails, MapFullOpen, MapFullOpenFails, MapFullOpenFailsAtDbi, MapFullBegin,
       MapFullBeginFails, libVars
  <2> QED
    BY <2>1, <2>2, <2>3 DEF Next
<1> QED
  BY <1>0, <1>1, <1>2

\* With room for every key no put and no commit of putLog or putLogEntries finds the map
\* full: the theorems of this part apply to every such database.
THEOREM RoomSuffices == RoomForAll => (Spec => []NoRecovery)
<1> SUFFICES ASSUME RoomForAll PROVE Spec => []NoRecovery
  OBVIOUS
<1> DEFINE Roomy == mapSize >= InitMap /\ NoRecovery
<1>1. Init => Roomy
  BY DblogConstants DEF Init, NoRecovery
<1>2. IInv /\ Roomy /\ [Next]_vars => Roomy'
  <2> SUFFICES ASSUME IInv, Roomy, [Next]_vars PROVE Roomy'
    OBVIOUS
  <2>0. TypeOK /\ Locals
    BY DEF IInv
  <2>1. TypeOK' /\ PlaceType /\ LocalType /\ LibType
    BY <2>0, TypeStep, TypeParts
  <2>2. mapSize' >= InitMap
    BY <2>0, <2>1, MapGrows, DblogConstants DEF TypeOK
  <2>3. ASSUME NEW p \in Procs, pc[p] = "put" PROVE Fits(WithEntry(work[p], step[p], rec[p]))
    <3>1. rec[p] \in LogKey
      BY <2>0, <2>1, <2>3 DEF Locals, LocalType
    <3>2. WithEntry(work[p], step[p], rec[p]) \in Store
      BY <2>1, <3>1, WithEntryType DEF LibType
    <3> QED
      BY <2>0, <3>2, RoomFits DEF TypeOK
  <2> USE <2>1 DEF NoRecovery, PlaceType, Goto, Set, Return
  <2>4. CASE Tick \/ UNCHANGED vars
    BY <2>2, <2>4 DEF Tick, vars
  <2>5. ASSUME NEW p \in Procs, TxnStep(p) PROVE NoRecovery'
    BY <2>3, <2>5 DEF TxnStep, NextLine, Put, Scan, Commit, MapFullAbort, Retry, RetryFails,
       RetryOnStale, RecoveryFailed, Advance
  <2>6. ASSUME NEW p \in Procs, OtherStep(p) PROVE NoRecovery'
    BY <2>6 DEF OtherStep, Open, Close, Crash, ReceiveShort, Receive, Call, Begin, BeginFails,
       CommitFails, MapFullOpen, MapFullOpenFails, MapFullOpenFailsAtDbi, MapFullBegin,
       MapFullBeginFails, RoomForAll
  <2> QED
    BY <2>2, <2>4, <2>5, <2>6 DEF Next
<1>3. Roomy => NoRecovery
  OBVIOUS
<1> HIDE DEF Roomy
<1> QED
  BY <1>1, <1>2, <1>3, InvariantHolds, PTL DEF Spec

-----------------------------------------------------------------------------
(* Collectors alone as writers. *)

\* What p has in hand: the last probes of its transaction are no older than those of the
\* database, nor than its records, and no record is newer than the one it is about to put.
InHand(p) ==
    /\ \A m \in Mac : work[p].probe[m] <= clock
    /\ lock = p => \A m \in Mac : db.probe[m] <= work[p].probe[m]
    /\ \A k \in work[p].log :
          \/ k.dt <= work[p].probe[k.mac]
          \/ pc[p] = "put" /\ step[p] = "probe" /\ k = rec[p]
    /\ pc[p] = "put" =>
          rec[p].dt <= clock /\ \A m \in Mac : work[p].probe[m] <= rec[p].dt

\* The invariant for the last probe: no time in a table is later than the clock, which
\* the code reads with the lock held, so that times are committed in their order.
Newest ==
    /\ ProbeIsNewest
    /\ \A m \in Mac : db.probe[m] <= clock
    /\ \A p \in Procs : InHand(p)

\* A process whose transaction, place and record stay as they are keeps what it has in hand,
\* while the clock goes on and the others take and give up the lock.
LEMMA OthersInHand ==
    ASSUME TypeOK, clock' \in Time, clock <= clock',
           NEW q \in Procs, InHand(q), lock' = q => lock = q /\ db' = db,
           work'[q] = work[q], pc'[q] = pc[q], step'[q] = step[q], rec'[q] = rec[q],
           pc[q] = "put" => rec[q] \in LogKey
    PROVE  InHand(q)'
<1>1. \A m \in Mac : work[q].probe[m] \in Nat
  BY KeyConstants DEF TypeOK, Store
<1>2. clock \in Nat /\ clock' \in Nat
  BY KeyConstants DEF TypeOK, Time
<1>3. pc[q] = "put" => rec[q].dt \in Nat
  BY KeyConstants DEF LogKey, Time
<1>4. \A m \in Mac : work[q].probe[m] <= clock'
  BY <1>1, <1>2 DEF InHand
<1>5. pc[q] = "put" => rec[q].dt <= clock'
  BY <1>2, <1>3 DEF InHand
<1> QED
  BY <1>4, <1>5 DEF InHand

\* What a process with an empty transaction has in hand.
LEMMA NothingInHand ==
    ASSUME clock' \in Nat, NEW p \in Procs, work'[p] = EmptyStore, lock' # p, pc'[p] # "put"
    PROVE  InHand(p)'
  BY DEF InHand, EmptyStore

\* The two puts of putLog: the record, then its time as the last probe.
LEMMA PutInHand ==
    ASSUME TypeOK, Locals, Calm, Loaders = {}, NEW p \in Procs, InHand(p), Put(p),
           pc'[p] # "mfAbort"
    PROVE  InHand(p)'
<1> DEFINE r == rec[p]  w == work[p]  v == work'[p]
<1>0. r \in LogKey /\ w \in Store /\ clock \in Nat /\ p \in Procs /\ r.mac \in Mac /\ r.dt \in Nat
  BY KeyConstants DEF TypeOK, Locals, Put, LogKey, Time
<1>1. /\ v = WithEntry(w, step[p], r) /\ Advance(p)
      /\ UNCHANGED <<db, lock, clock, rec>>
  BY DEF Put, Goto, Set, TypeOK, libVars
<1>2. /\ \A m \in Mac : w.probe[m] \in Nat /\ w.probe[m] <= clock /\ w.probe[m] <= r.dt
      /\ r.dt <= clock
  BY <1>0, KeyConstants DEF Store, InHand, Put
<1>3. step[p] # "commit"
  BY DEF Locals, Put, Recovering
<1>4. CASE step[p] = "log"
  <2>1. v.log = w.log \cup {r} /\ v.probe = w.probe
    BY <1>0, <1>1, <1>4 DEF WithEntry, Store
  <2>2. pc'[p] = "put" /\ step'[p] = "probe"
    BY <1>1, <1>4 DEF Advance, Goto, Set, TypeOK
  <2>3. \A k \in w.log : k.dt <= w.probe[k.mac]
    BY <1>4 DEF InHand
  <2>4. \A k \in v.log : k.dt <= v.probe[k.mac] \/ k = r
    BY <2>1, <2>3
  <2> HIDE DEF v, w, r
  <2> QED
    BY <1>1, <1>2, <2>1, <2>2, <2>4 DEF InHand, v, w, r
<1>5. CASE step[p] = "probe"
  <2>1. v.log = w.log /\ v.probe = [w.probe EXCEPT ![r.mac] = r.dt]
    BY <1>0, <1>1, <1>5 DEF WithEntry, Store
  <2>2. pc'[p] # "put"
    BY <1>1, <1>5 DEF Advance, Goto, Set, TypeOK
  <2>3. \A m \in Mac : v.probe[m] \in Nat /\ w.probe[m] <= v.probe[m] /\ v.probe[m] <= clock
    BY <1>0, <1>2, <2>1 DEF Store
  <2>4. \A k \in v.log : k.dt <= v.probe[k.mac]
    <3> SUFFICES ASSUME NEW k \in w.log PROVE k.dt <= v.probe[k.mac]
      BY <2>1
    <3>1. k.mac \in Mac /\ k.dt \in Nat
      BY <1>0, KeyConstants DEF Store, LogKey, Time
    <3>2. k.dt <= w.probe[k.mac] \/ k = r
      BY DEF InHand
    <3>3. v.probe[r.mac] = r.dt
      BY <1>0, <2>1 DEF Store
    <3> HIDE DEF v, w, r
    <3> QED
      BY <1>0, <1>2, <2>3, <3>1, <3>2, <3>3
  <2>5. lock = p => \A m \in Mac : db.probe[m] <= v.probe[m]
    <3>1. lock = p => \A m \in Mac : db.probe[m] \in Nat /\ db.probe[m] <= w.probe[m]
      BY KeyConstants DEF InHand, TypeOK, Store
    <3> HIDE DEF v, w
    <3> QED
      BY <1>2, <2>3, <3>1
  <2> HIDE DEF v, w, r
  <2> QED
    BY <1>1, <2>2, <2>3, <2>4, <2>5 DEF InHand, v
<1> QED
  BY <1>1, <1>3, <1>4, <1>5 DEF Advance

\* One process steps: of the others nothing changes but that the lock may be free now.
LEMMA OneMoves ==
    ASSUME TypeOK, LiveTransaction, Calm, Calm', NEW p \in Procs, TxnStep(p) \/ OtherStep(p)
    PROVE  /\ clock' = clock
           /\ \A q \in Procs : q # p =>
                 /\ work'[q] = work[q] /\ pc'[q] = pc[q] /\ step'[q] = step[q] /\ rec'[q] = rec[q]
                 /\ lock' = q => lock = q /\ db' = db
<1>0. LibType /\ PlaceType /\ LocalType /\ NoProc \notin Procs
  BY TypeParts, DblogConstants
<1> USE <1>0 DEF LibType, PlaceType, LocalType, Set, Goto, Return, LiveTransaction, InTxn, Calm,
                 Recovering
<1>1. CASE TxnStep(p)
  BY <1>1 DEF TxnStep, NextLine, Put, Scan, Commit, MapFullAbort, Retry, RetryFails,
     RetryOnStale, RecoveryFailed, Advance, Publish, Abandon, libVars, callVars
<1>2. CASE OtherStep(p)
  BY <1>2 DEF OtherStep, Open, Close, Crash, ReceiveShort, Receive, Call, Begin, BeginFails,
     CommitFails, MapFullOpen, MapFullOpenFails, MapFullOpenFailsAtDbi, MapFullBegin,
     MapFullBeginFails, Acquire, Abandon, libVars, callVars
<1> QED
  BY <1>1, <1>2

\* The calls of a collector and of a remover, step by step.
LEMMA StepInHand ==
    ASSUME TypeOK, LiveTransaction, Locals, Calm, Calm', Loaders = {}, Newest,
           NEW p \in Procs, TxnStep(p) \/ OtherStep(p)
    PROVE  InHand(p)'
<1>0. /\ LibType /\ PlaceType /\ LocalType /\ NoProc \notin Procs /\ InHand(p)
      /\ clock \in Nat /\ clock' = clock
  BY TypeParts, OneMoves, DblogConstants, KeyConstants DEF Newest, TypeOK, Time
<1> USE <1>0
<1> DEFINE Same == work'[p] = work[p] /\ lock' # p /\ pc'[p] # "put" /\ pc[p] # "put"
           Emptied == work'[p] = EmptyStore /\ lock' # p /\ pc'[p] # "put"
<1>1. CASE Put(p)
  BY <1>1, PutInHand DEF Calm, Recovering
<1>2. CASE Begin(p)
  <2>1. lock' = p /\ work'[p] = db /\ db' = db
    BY <1>2 DEF Begin, Acquire, Set, LibType
  <2>2. pc'[p] = "put" => rec'[p].dt = clock
    <3>1. pc'[p] = "put" => rec' = Set(rec, p, Stamp(p)) /\ rec[p] \in LogKey
      BY <1>2 DEF Begin, Goto, Set, PlaceType, Locals
    <3> QED
      BY <3>1 DEF Stamp, Set, LogKey, LocalType
  <2>3. db.probe \in [Mac -> Nat]
    BY KeyConstants DEF TypeOK, Store
  <2>4. \A k \in db.log : k.dt <= db.probe[k.mac]
    BY DEF Newest, ProbeIsNewest
  <2>5. \A m \in Mac : db.probe[m] <= clock
    BY DEF Newest
  <2> QED
    BY <2>1, <2>2, <2>3, <2>4, <2>5 DEF InHand
<1>3. CASE Scan(p)
  <2>1. Emptied \/ (/\ work'[p].log \subseteq work[p].log /\ work'[p].probe = work[p].probe
                    /\ lock' = lock /\ db' = db /\ pc[p] # "put" /\ pc'[p] # "put")
    BY <1>3 DEF Scan, Abandon, Set, Goto, Return, LibType, PlaceType, Store
  <2>2. Emptied => InHand(p)'
    BY NothingInHand
  <2> HIDE DEF Emptied
  <2> QED
    BY <2>1, <2>2 DEF InHand
<1>4. CASE NextLine(p)
  BY <1>4 DEF NextLine, Locals
<1>5. CASE Commit(p) \/ CommitFails(p) \/ Close(p) \/ Crash(p)
  <2>1. Emptied
    BY <1>5 DEF Commit, CommitFails, Close, Crash, Publish, Abandon, Set, Goto, Return,
       LibType, PlaceType
  <2> QED
    BY <2>1, NothingInHand
<1>6. CASE Open(p) \/ ReceiveShort(p) \/ Receive(p) \/ Call(p) \/ BeginFails(p)
  <2>1. /\ work'[p] = work[p] /\ lock' = lock /\ db' = db
        /\ pc'[p] # "put" /\ pc[p] # "put"
    BY <1>6 DEF Open, ReceiveShort, Receive, Call, BeginFails, Set, Goto, Return, libVars,
       LibType, PlaceType
  <2> QED
    BY <2>1 DEF InHand
<1>7. CASE \/ MapFullAbort(p) \/ Retry(p) \/ RetryFails(p) \/ RetryOnStale(p)
           \/ RecoveryFailed(p) \/ MapFullOpen(p) \/ MapFullOpenFails(p)
           \/ MapFullOpenFailsAtDbi(p) \/ MapFullBegin(p) \/ MapFullBeginFails(p)
  BY <1>7 DEF MapFullAbort, Retry, RetryFails, RetryOnStale, RecoveryFailed, MapFullOpen,
     MapFullOpenFails, MapFullOpenFailsAtDbi, MapFullBegin, MapFullBeginFails, Calm, Recovering
<1> QED
  BY <1>1, <1>2, <1>3, <1>4, <1>5, <1>6, <1>7 DEF TxnStep, OtherStep

\* A commit publishes what the process has in hand; nothing else changes the database.
LEMMA NewestStep ==
    ASSUME IInv, IInv', Calm, Calm', Loaders = {}, Newest, [Next]_vars
    PROVE  Newest'
<1>0. /\ TypeOK /\ TypeOK' /\ LiveTransaction /\ Locals
      /\ clock \in Nat /\ clock' \in Nat /\ clock <= clock'
  <2>1. TypeOK /\ TypeOK' /\ LiveTransaction /\ Locals
    BY DEF IInv
  <2>2. clock \in Nat /\ clock' \in Nat
    BY <2>1, KeyConstants DEF TypeOK, Time
  <2>3. clock' = clock \/ clock' = clock + 1
    BY <2>1, OneMoves DEF Next, Tick, vars
  <2> QED
    BY <2>1, <2>2, <2>3
<1> USE <1>0
<1>1. \A k \in db'.log : k.dt <= db'.probe[k.mac]
  <2>1. CASE db' = db
    BY <2>1 DEF Newest, ProbeIsNewest
  <2>2. CASE db' # db
    <3>1. PICK p \in Procs : (Commit(p) \/ Retry(p)) /\ db' = work[p]
      BY <2>2, DbChanges
    <3>2. pc[p] = "commit"
      BY <3>1 DEF Commit, Retry, Calm, Recovering
    <3> QED
      BY <3>1, <3>2 DEF Newest, InHand
  <2> QED
    BY <2>1, <2>2
<1>2. \A m \in Mac : db'.probe[m] <= clock'
  <2>1. \A m \in Mac : db'.probe[m] <= clock /\ db'.probe[m] \in Nat
    BY DbChanges, KeyConstants DEF Newest, InHand, TypeOK, Store
  <2> QED
    BY <2>1
<1>3. \A p \in Procs : InHand(p)'
  <2>1. CASE Tick \/ UNCHANGED vars
    <3>1. /\ db' = db /\ lock' = lock /\ work' = work /\ pc' = pc /\ step' = step /\ rec' = rec
      BY <2>1 DEF Tick, vars, libVars, callVars
    <3>2. \A p \in Procs : InHand(p) /\ (pc[p] = "put" => rec[p] \in LogKey)
      BY DEF Newest, Locals, TypeOK
    <3> QED
      BY <3>1, <3>2, OthersInHand DEF TypeOK
  <2>2. ASSUME NEW p \in Procs, TxnStep(p) \/ OtherStep(p) PROVE \A q \in Procs : InHand(q)'
    <3>1. InHand(p)'
      BY <2>2, StepInHand
    <3>2. ASSUME NEW q \in Procs, q # p PROVE InHand(q)'
      <4>1. InHand(q) /\ (pc[q] = "put" => rec[q] \in LogKey)
        BY DEF Newest, Locals, TypeOK
      <4>2. /\ work'[q] = work[q] /\ pc'[q] = pc[q] /\ step'[q] = step[q] /\ rec'[q] = rec[q]
            /\ lock' = q => lock = q /\ db' = db
        BY <2>2, <3>2, OneMoves
      <4> QED
        BY <4>1, <4>2, OthersInHand DEF TypeOK
    <3> QED
      BY <3>1, <3>2
  <2> QED
    BY <2>1, <2>2 DEF Next
<1> QED
  BY <1>1, <1>2, <1>3 DEF Newest, ProbeIsNewest

\* The invariant for the last probe, in the behaviours without recoveries.
LEMMA NewestAlways == Loaders = {} => (Spec /\ []NoRecovery => [](IInv /\ Newest))
<1> SUFFICES ASSUME Loaders = {} PROVE Spec /\ []NoRecovery => [](IInv /\ Newest)
  OBVIOUS
<1>1. Init => Newest
  <2> SUFFICES ASSUME Init PROVE Newest
    OBVIOUS
  <2>1. db = EmptyStore /\ clock = 1 /\ lock = NoProc
    BY DEF Init
  <2>2. \A p \in Procs : work[p] = EmptyStore /\ pc[p] = "down" /\ lock # p
    BY DblogConstants DEF Init
  <2> QED
    BY <2>1, <2>2 DEF Newest, ProbeIsNewest, InHand, EmptyStore
<1>2. IInv /\ IInv' /\ Calm /\ Calm' /\ Newest /\ [Next]_vars => Newest'
  BY NewestStep
<1> QED
  BY <1>1, <1>2, CalmAlways, PTL DEF Spec

\* Where only collectors write and no call goes into processMapFull: the last probe of a MAC
\* is no older than any of its records, for putLog reads the time with the lock held and
\* commits the record and its last probe together.
THEOREM ProbesAreNewest == Loaders = {} => (Spec /\ []NoRecovery => []ProbeIsNewest)
<1> SUFFICES ASSUME Loaders = {} PROVE Spec /\ []NoRecovery => []ProbeIsNewest
  OBVIOUS
<1>1. Newest => ProbeIsNewest
  BY DEF Newest
<1> QED
  BY <1>1, NewestAlways, PTL

\* There the last probe of a MAC never goes back, however packets and transactions of the
\* collectors interleave, and whatever removers take from the log.
THEOREM ProbesNeverRegress == Loaders = {} => (Spec /\ []NoRecovery => ProbeNeverRegresses)
<1> SUFFICES ASSUME Loaders = {} PROVE Spec /\ []NoRecovery => ProbeNeverRegresses
  OBVIOUS
<1>1. IInv /\ Newest /\ [Next]_vars => [\A m \in Mac : db.probe[m] <= db'.probe[m]]_vars
  <2> SUFFICES ASSUME IInv, Newest, [Next]_vars, NEW m \in Mac
               PROVE  db.probe[m] <= db'.probe[m]
    OBVIOUS
  <2>0. db.probe[m] \in Nat
    BY KeyConstants DEF IInv, TypeOK, Store
  <2>1. CASE db' = db
    BY <2>0, <2>1
  <2>2. CASE db' # db
    <3>1. PICK p \in Procs : (Commit(p) \/ Retry(p)) /\ db' = work[p]
      BY <2>2, DbChanges
    <3>2. lock = p
      BY <3>1 DEF IInv, LiveTransaction, Commit, Retry, InTxn
    <3> QED
      BY <3>1, <3>2 DEF Newest, InHand
  <2> QED
    BY <2>1, <2>2
<1> QED
  BY <1>1, NewestAlways, PTL DEF Spec, ProbeNeverRegresses
=============================================================================
