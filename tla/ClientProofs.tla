---------------------------- MODULE ClientProofs ----------------------------
(***************************************************************************)
(* Theorems about Client, for any command lines and MACs of any length:    *)
(* what a command has printed, counted, stored and removed is right for    *)
(* what its transactions found, whatever other processes do in between and *)
(* whenever the user presses Ctrl-C.                                       *)
(***************************************************************************)
EXTENDS Client, LogKeysProofs

-----------------------------------------------------------------------------
(* The inductive invariant. *)

\* The MACs that have a last probe: there are only so many, and those of the log have one.
Named == {m \in Mac : probe[m] # 0}

Database ==
    /\ log \subseteq LogKey /\ IsFiniteSet(log)
    /\ DOMAIN probe = Mac /\ IsFiniteSet(Named)
    /\ \A k \in log : k.mac \in Named
    /\ IsFiniteSet(notes)

Codes == {ERRCODE_WRONG_PARAM, ERRCODE_LMDB_OPEN, ERRCODE_LMDB_PUT, ERRCODE_LMDB_TXN_BEGIN,
          MDB_NOTFOUND}

ClientType(c) ==
    [place : {"start", "loop", "close", "end"}, req : Requests, left : Seq(Arg), position : Nat,
     sum : Nat, r : Nat \cup Codes, read : {c.read}, printed : {c.printed}, late : Nat,
     effect : Nat, taken : SUBSET LogKey]

\* The arguments of the loop that are done, and those that are left.
Done(c) == Len(c.req.mac) - Len(c.left)
LeftOver(c) ==
    /\ Done(c) \in Nat
    /\ \A i \in 1..Len(c.left) : c.left[i] = c.req.mac[Done(c) + i]

\* What was printed ends at the position, which is where the rows or the page ends.
Slices(c, flag) ==
    c.req.cmd \in Listing /\ ~flag =>
        /\ c.position = IF c.req.count = -1 THEN Len(c.read)
                        ELSE Least(Len(c.read), c.req.offset + c.req.count)
        /\ c.printed = SubSeq(c.read, c.req.offset + 1, c.position)

Counted(c) ==
    c.req.cmd \in {"remove", "notification-put", "notification-rm"} =>
        /\ c.r >= 0 => c.r = c.effect
        /\ c.place \in {"start", "loop"} => c.r >= 0

Asked(req, i, pad) ==
    [sa |-> req.mac[i].sa, start |-> req.start, finish |-> req.finish, pad |-> pad]

NamedOnly(c) ==
    \A k \in c.taken : \E i \in 1..Len(c.req.mac) : \E pad \in PadByte :
        k \in Selected({k}, Asked(c.req, i, pad))

Prompt(c) == c.late <= IF c.req.cmd = "notification" THEN 1 ELSE Done(c)

\* All the records of S that an argument asks for were read.
AllRead(c, i, S) ==
    \A pad \in PadByte :
        LET q == Asked(c.req, i, pad)
        IN  /\ q.start <= Limit(q)
            /\ IsFullMac(q) => PadByte = {pad}
            => Selected(S, q) \subseteq Elements(c.read)

\* So far of the arguments that are done, and of all when the loop is over.
Complete(c, flag, S) ==
    c.req.cmd \in {"log", "log-count"} /\ ~flag =>
        \A i \in 1..Len(c.req.mac) :
            \/ i <= Done(c)
            \/ /\ c.place \in {"close", "end"}
               /\ c.r \notin {ERRCODE_LMDB_OPEN, ERRCODE_LMDB_TXN_BEGIN}
            => AllRead(c, i, S)

Works(c, flag, S) ==
    /\ c \in ClientType(c) /\ IsSeq(c.read) /\ LeftOver(c)
    /\ Slices(c, flag) /\ Counted(c) /\ NamedOnly(c) /\ Prompt(c) /\ Complete(c, flag, S)

IInv ==
    /\ Database
    /\ stable \subseteq log /\ interruptFlag \in BOOLEAN
    /\ client = NoClient \/ Works(client, interruptFlag, stable)

-----------------------------------------------------------------------------
(* The database. *)

\* The table of LogQuery has the MACs and the keys of this module.
LEMMA SameNames == Store!Mac = Mac /\ Store!LogKey = LogKey
BY DEF Mac, LogKey, Time, Store!Mac, Store!LogKey, Store!Time

\* An empty table is a database.
LEMMA InitDatabase == Store!Init => Database
<1> SUFFICES ASSUME Store!Init PROVE Database
  OBVIOUS
<1>1. log = {} /\ probe = [m \in Mac |-> 0] /\ notes = {}
  BY SameNames DEF Store!Init
<1>2. Named = {}
  BY <1>1 DEF Named
<1> QED
  BY <1>1, <1>2, FS_EmptySet DEF Database

\* Fewer records, or fewer notifications and one more.
LEMMA RecordsGo ==
    ASSUME Database, log' \in SUBSET log, probe' = probe, notes' = notes PROVE Database'
<1>1. IsFiniteSet(log')
  BY FS_Subset DEF Database
<1> QED
  BY <1>1 DEF Database, Named

\* A notification more, or some less, leave the log and the last probes as they are.
LEMMA NotesChange ==
    ASSUME Database, log' = log, probe' = probe,
           NEW old \in SUBSET notes, NEW n, notes' = old \/ notes' = old \cup {n}
    PROVE  Database'
<1>1. IsFiniteSet(old)
  BY FS_Subset DEF Database
<1>2. IsFiniteSet(old \cup {n})
  BY <1>1, FS_AddElement
<1>3. IsFiniteSet(notes')
  BY <1>1, <1>2
<1> QED
  BY <1>3 DEF Database, Named

\* No call of any process makes the table infinite or leaves a record without a last probe.
LEMMA NextDatabase == Database /\ Store!Next => Database'
<1> SUFFICES ASSUME Database, Store!Next PROVE Database'
  OBVIOUS
<1>1. CASE Store!PutLog
  <2>1. PICK k \in LogKey : log' \in {log \cup {k}, log} /\ probe' = [probe EXCEPT ![k.mac] = k.dt]
    BY <1>1, SameNames DEF Store!PutLog
  <2>2. notes' = notes
    BY <1>1 DEF Store!PutLog
  <2>3. k.mac \in Mac /\ k.dt # 0
    BY DEF LogKey, Time
  <2>4. DOMAIN probe' = Mac /\ probe'[k.mac] = k.dt
        /\ \A m \in Mac : m # k.mac => probe'[m] = probe[m]
    BY <2>1, <2>3 DEF Database
  <2>5. Named' = Named \cup {k.mac}
    BY <2>3, <2>4 DEF Named
  <2>6. IsFiniteSet(Named') /\ IsFiniteSet(log \cup {k})
    BY <2>5, FS_AddElement DEF Database
  <2>7. \A j \in log' : j.mac \in Named'
    BY <2>1, <2>5 DEF Database
  <2>8. log' \subseteq LogKey /\ IsFiniteSet(log')
    BY <2>1, <2>6 DEF Database
  <2> QED
    BY <2>2, <2>4, <2>6, <2>7, <2>8 DEF Database
<1>2. CASE Store!RmLog
  <2>1. log' \in SUBSET log /\ probe' = probe /\ notes' = notes
    BY <1>2 DEF Store!RmLog
  <2> QED
    BY <2>1, RecordsGo
<1>3. CASE Store!PutNotification
  <2>1. PICK m, j, t : notes' = (notes \ Store!SameKey(m, j))
                                   \cup {[mac |-> m, junk |-> j, text |-> t]}
    BY <1>3 DEF Store!PutNotification
  <2>2. log' = log /\ probe' = probe /\ notes \ Store!SameKey(m, j) \in SUBSET notes
    BY <1>3 DEF Store!PutNotification
  <2> QED
    BY <2>1, <2>2, NotesChange
<1>4. CASE Store!ClearNotification \/ Store!RmNotification
  <2>1. notes' \in SUBSET notes /\ log' = log /\ probe' = probe
    BY <1>4 DEF Store!ClearNotification, Store!RmNotification
  <2> QED
    BY <2>1, NotesChange
<1> QED
  BY <1>1, <1>2, <1>3, <1>4 DEF Store!Next

\* A scan over the last probes and the notifications ends.
LEMMA FiniteRows ==
    ASSUME Database PROVE IsFiniteSet(Store!ProbeRows \cup Store!NoteRows)
<1>1. IsFiniteSet(Store!ProbeRows)
  <2> DEFINE f == [m \in Named |-> [tag |-> Store!TagP, mac |-> m, dt |-> probe[m]]]
  <2>1. Store!ProbeRows = {f[m] : m \in Named}
    BY SameNames DEF Store!ProbeRows, Named
  <2>2. f \in Surjection(Named, {f[m] : m \in Named})
    BY DEF Surjection
  <2>3. IsFiniteSet(Named)
    BY DEF Database
  <2> HIDE DEF f
  <2> QED
    BY <2>1, <2>2, <2>3, FS_Surjection
<1>2. IsFiniteSet(Store!NoteRows)
  <2> DEFINE f == [n \in notes |-> [tag |-> Store!TagT, mac |-> n.mac, junk |-> n.junk,
                                    dt |-> TextTime[n.text]]]
  <2>1. Store!NoteRows = {f[n] : n \in notes}
    BY DEF Store!NoteRows
  <2>2. f \in Surjection(notes, {f[n] : n \in notes})
    BY DEF Surjection
  <2>3. IsFiniteSet(notes)
    BY DEF Database
  <2> HIDE DEF f
  <2> QED
    BY <2>1, <2>2, <2>3, FS_Surjection
<1> QED
  BY <1>1, <1>2, FS_Union

\* What a scan gives is a sequence; a scan of the log gives the records that it hits.
LEMMA RowsAreSeq ==
    ASSUME Database, NEW q
    PROVE  /\ IsSeq(RowsOf(q))
           /\ Cmd \notin {"probe", "probe-count"} => Elements(RowsOf(q)) = ReadHits(log, q)
<1>1. CASE Cmd \in {"probe", "probe-count"}
  <2> DEFINE rows == Store!LastProbes(q)
  <2>1. rows \in SUBSET (Store!ProbeRows \cup Store!NoteRows)
    BY DEF Store!LastProbes, Store!WithTime, Store!Reached
  <2>2. IsFiniteSet(rows)
    BY <2>1, FiniteRows, FS_Subset
  <2> HIDE DEF rows
  <2>3. \A key : IsSeq(InOrder(rows, key))
    BY <2>2, InOrderIsSeq
  <2> QED
    BY <1>1, <2>3 DEF RowsOf, rows
<1>2. CASE Cmd \notin {"probe", "probe-count"}
  <2> DEFINE rows == ReadHits(log, q)
             key  == [k \in log |-> KeyBytes(k)]
  <2>1. rows \in SUBSET log /\ rows \in SUBSET LogKey
    BY DEF ReadHits, Hits, Visited, Database
  <2>2. IsFiniteSet(rows)
    BY <2>1, FS_Subset DEF Database
  <2>3. \A k \in rows : key[k] = KeyBytes(k)
    BY <2>1
  <2> HIDE DEF rows, key
  <2>4. Ordered(rows, key)
    BY <2>1, <2>3, LogIsOrdered
  <2>5. InOrder(rows, key) \in Seq(rows) /\ Elements(InOrder(rows, key)) = rows
    BY <2>2, <2>4, InOrderIsComplete
  <2>6. IsSeq(InOrder(rows, key))
    BY <2>5, SeqIsSeq
  <2> QED
    BY <1>2, <2>5, <2>6 DEF RowsOf, rows, key
<1> QED
  BY <1>1, <1>2

\* Where a scan of the log finds no row of any kind, the log is empty.
LEMMA NothingFound ==
    ASSUME Database, NEW q, NotFound(q), Cmd \notin {"probe", "probe-count"}
    PROVE  log = {}
<1>1. Store!ProbeRows = {}
  BY DEF NotFound
<1>2. Named = {}
  BY <1>1, SameNames DEF Store!ProbeRows, Named
<1> QED
  BY <1>2 DEF Database

-----------------------------------------------------------------------------
(* The parts of the invariant. *)

\* A command line has an argument, and each argument makes a query.
LEMMA CommandLine ==
    ASSUME NEW req \in Requests
    PROVE  /\ req \in Request /\ req.mac \in Seq(Arg) /\ Len(req.mac) \in Nat /\ Len(req.mac) > 0
           /\ req.offset \in Nat /\ req.count \in Nat \cup {-1}
           /\ \A i \in 1..Len(req.mac) : req.mac[i] \in Arg
           /\ \A i \in 1..Len(req.mac) : \A pad \in PadByte : Asked(req, i, pad) \in Query
<1>1. req \in Request /\ req.mac # <<>> /\ req.mac \in Seq(Arg)
  BY ClientConstants DEF Request
<1>2. Len(req.mac) \in Nat /\ Len(req.mac) > 0 /\ \A i \in 1..Len(req.mac) : req.mac[i] \in Arg
  BY <1>1, EmptySeq, LenProperties
<1>3. req.start \in 0..MaxTime /\ req.finish \in 0..MaxTime
      /\ req.offset \in Nat /\ req.count \in Nat \cup {-1}
  BY <1>1 DEF Request
<1>4. ASSUME NEW i \in 1..Len(req.mac), NEW pad \in PadByte PROVE Asked(req, i, pad) \in Query
  <2>1. req.mac[i].sa \in MacPrefix
    BY <1>2 DEF Arg
  <2> QED
    BY <1>3, <2>1 DEF Asked, Query
<1> QED
  BY <1>1, <1>2, <1>3, <1>4

\* The first of the arguments that are left is the one behind those that are done.
LEMMA FirstArg ==
    ASSUME NEW c, c \in ClientType(c), LeftOver(c), c.left # <<>>
    PROVE  /\ Done(c) + 1 \in 1..Len(c.req.mac)
           /\ Head(c.left) = c.req.mac[Done(c) + 1]
<1>1. c.left \in Seq(Arg) /\ c.req \in Requests
  BY DEF ClientType
<1> DEFINE n == Len(c.left)
           m == Len(c.req.mac)
           d == Done(c)
<1>2. n \in Nat /\ n > 0 /\ m \in Nat /\ d \in Nat /\ d = m - n
  BY <1>1, CommandLine, EmptySeq, LenProperties DEF LeftOver, Done
<1>3. Head(c.left) = c.left[1] /\ \A i \in 1..n : c.left[i] = c.req.mac[d + i]
  BY <1>1 DEF LeftOver
<1> HIDE DEF n, m, d
<1>4. 1 \in 1..n /\ d + 1 \in 1..m
  BY <1>2
<1>5. d + 1 \in 1..m /\ Head(c.left) = c.req.mac[d + 1]
  BY <1>3, <1>4
<1> QED
  BY <1>5 DEF m, d

\* The loop goes on with the next argument.
LEMMA NextArg ==
    ASSUME NEW c, c \in ClientType(c), LeftOver(c), c.left # <<>>,
           NEW y, y.left = Tail(c.left), y.req = c.req
    PROVE  LeftOver(y) /\ Done(y) = Done(c) + 1 /\ y.left \in Seq(Arg)
<1>1. c.left \in Seq(Arg) /\ c.req \in Requests
  BY DEF ClientType
<1> DEFINE n == Len(c.left)
           m == Len(c.req.mac)
           d == Done(c)
           l == Tail(c.left)
<1>2. n \in Nat /\ n > 0 /\ m \in Nat /\ d \in Nat /\ d = m - n
  BY <1>1, CommandLine, EmptySeq, LenProperties DEF LeftOver, Done
<1>3. l \in Seq(Arg) /\ Len(l) = n - 1 /\ \A i \in 1..(n - 1) : l[i] = c.left[i + 1]
  BY <1>1, <1>2, HeadTailProperties
<1>4. \A i \in 1..n : c.left[i] = c.req.mac[d + i]
  BY DEF LeftOver
<1> HIDE DEF n, m, d, l
<1>5. m - Len(l) = d + 1
  BY <1>2, <1>3
<1>6. ASSUME NEW i \in 1..Len(l) PROVE l[i] = c.req.mac[(d + 1) + i]
  <2>1. i \in 1..(n - 1) /\ i + 1 \in 1..n /\ d + (i + 1) = (d + 1) + i
    BY <1>2, <1>3
  <2> QED
    BY <1>3, <1>4, <2>1
<1>7. Done(y) = d + 1
  BY <1>5 DEF Done, m, l
<1> QED
  BY <1>2, <1>3, <1>6, <1>7 DEF LeftOver, l, d

\* Fewer records are asked for, and the flag is set at the most.
LEMMA Weaker ==
    ASSUME NEW c, NEW f, NEW S, Works(c, f, S), NEW g, f => g, NEW T \in SUBSET S
    PROVE  Works(c, g, T)
<1>1. Slices(c, g)
  BY DEF Works, Slices
<1>2. \A i : AllRead(c, i, S) => AllRead(c, i, T)
  BY DEF AllRead, Selected
<1>3. Complete(c, g, T)
  BY <1>2 DEF Works, Complete
<1> QED
  BY <1>1, <1>3 DEF Works

\* A command goes from place to place, with the same arguments left, having printed nothing.
LEMMA StayStep ==
    ASSUME NEW c, NEW f, NEW S, Works(c, f, S),
           NEW y, y \in ClientType(y), y.req = c.req, y.left = c.left,
           y.position = c.position, y.read = c.read, y.printed = c.printed, y.late = c.late,
           y.taken = c.taken, Counted(y), Complete(y, f, S)
    PROVE  Works(y, f, S)
<1>1. IsSeq(c.read) /\ LeftOver(c) /\ Slices(c, f) /\ NamedOnly(c) /\ Prompt(c)
  BY DEF Works
<1>2. Done(y) = Done(c)
  BY DEF Done
<1>3. LeftOver(y) /\ Slices(y, f) /\ NamedOnly(y) /\ Prompt(y)
  BY <1>1, <1>2 DEF LeftOver, Slices, NamedOnly, Prompt
<1> QED
  BY <1>1, <1>3 DEF Works

\* Where the function goes on to or returns to tells nothing of what it printed and took.
LEMMA PlaceStep ==
    ASSUME NEW c, NEW f, NEW S, Works(c, f, S), NEW p \in {"start", "loop", "close", "end"},
           NEW r \in Nat \cup Codes, NEW y, y = [c EXCEPT !.place = p, !.r = r],
           Counted(y), Complete(y, f, S)
    PROVE  Works(y, f, S)
<1>1. c \in ClientType(c)
  BY DEF Works
<1>2. /\ y.req = c.req /\ y.left = c.left /\ y.position = c.position
      /\ y.read = c.read /\ y.printed = c.printed /\ y.late = c.late /\ y.taken = c.taken
  BY <1>1 DEF ClientType
<1>3. y \in ClientType(y)
  BY <1>1 DEF ClientType
<1> QED
  BY <1>2, <1>3, StayStep

\* A command goes on with the next argument, having printed nothing.
LEMMA LoopStep ==
    ASSUME NEW c, NEW f, NEW S, Works(c, f, S), c.left # <<>>,
           NEW y, y \in ClientType(y), y.req = c.req, y.left = Tail(c.left),
           y.position = c.position, y.read = c.read, y.printed = c.printed, y.late = c.late,
           Counted(y), NamedOnly(y), Complete(y, f, S)
    PROVE  Works(y, f, S)
<1>1. c \in ClientType(c) /\ IsSeq(c.read) /\ LeftOver(c) /\ Slices(c, f) /\ Prompt(c)
  BY DEF Works
<1>2. LeftOver(y) /\ Done(y) = Done(c) + 1
  BY <1>1, NextArg
<1>3. Slices(y, f)
  BY <1>1 DEF Slices
<1>4. Prompt(y)
  <2> DEFINE d == Done(c)
  <2>1. d \in Nat /\ c.late \in Nat
    BY <1>1 DEF LeftOver, ClientType
  <2>2. c.late <= IF c.req.cmd = "notification" THEN 1 ELSE d
    BY <1>1 DEF Prompt
  <2> HIDE DEF d
  <2>3. c.late <= IF c.req.cmd = "notification" THEN 1 ELSE d + 1
    BY <2>1, <2>2
  <2> QED
    BY <1>2, <2>3 DEF Prompt, d
<1> QED
  BY <1>1, <1>2, <1>3, <1>4 DEF Works

\* Rows that were read stay read.
LEMMA ElementsOfBoth ==
    ASSUME NEW s, IsSeq(s), NEW t, IsSeq(t)
    PROVE  Elements(s) \subseteq Elements(s \o t) /\ Elements(t) \subseteq Elements(s \o t)
<1> DEFINE l == Len(s)
           n == Len(t)
           c == s \o t
<1>1. /\ l \in Nat /\ n \in Nat /\ IsSeq(c) /\ Len(c) = l + n
      /\ \A i \in 1..(l + n) : c[i] = IF i <= l THEN s[i] ELSE t[i - l]
  BY ConcatIsSeq
<1>2. DOMAIN s = 1..l /\ DOMAIN t = 1..n /\ DOMAIN c = 1..(l + n)
  BY <1>1, LenProperties DEF IsSeq
<1> HIDE DEF l, n, c
<1>3. ASSUME NEW i \in 1..l PROVE i \in 1..(l + n) /\ c[i] = s[i]
  BY <1>1
<1>4. ASSUME NEW i \in 1..n PROVE l + i \in 1..(l + n) /\ c[l + i] = t[i]
  <2>1. l + i \in 1..(l + n) /\ ~(l + i <= l) /\ (l + i) - l = i
    BY <1>1
  <2> QED
    BY <1>1, <2>1
<1>5. \A i \in DOMAIN s : s[i] \in Elements(c)
  BY <1>2, <1>3 DEF Elements
<1>6. \A i \in DOMAIN t : t[i] \in Elements(c)
  BY <1>2, <1>4 DEF Elements
<1> QED
  BY <1>5, <1>6 DEF Elements, c

\* A scan has read what its argument asks for, and the command what the arguments that are
\* done ask for.
LEMMA ReadMore ==
    ASSUME NEW c, NEW f, NEW S, Works(c, f, S), c.left # <<>>, c.place = "loop",
           NEW rows, IsSeq(rows),
           NEW y, y.req = c.req, y.left = Tail(c.left), y.place = "loop",
           y.read = c.read \o rows,
           NEW x, x.read = rows, x.req = c.req,
           c.req.cmd \in {"log", "log-count"} => AllRead(x, Done(c) + 1, S)
    PROVE  Complete(y, f, S) /\ IsSeq(y.read)
<1>1. c \in ClientType(c) /\ IsSeq(c.read) /\ LeftOver(c) /\ Complete(c, f, S)
  BY DEF Works
<1>2. Done(y) = Done(c) + 1 /\ Done(c) \in Nat
  BY <1>1, NextArg DEF LeftOver
<1>3. /\ Elements(c.read) \subseteq Elements(y.read)
      /\ Elements(rows) \subseteq Elements(y.read)
      /\ IsSeq(y.read)
  BY <1>1, ElementsOfBoth, ConcatIsSeq
<1>4. ASSUME NEW i PROVE AllRead(c, i, S) \/ AllRead(x, i, S) => AllRead(y, i, S)
  BY <1>3 DEF AllRead
<1>5. ASSUME c.req.cmd \in {"log", "log-count"}, ~f, NEW i \in 1..Len(c.req.mac), i <= Done(y)
      PROVE  AllRead(y, i, S)
  <2>1. i \in Nat
    <3>1. Len(c.req.mac) \in Nat
      BY <1>1, CommandLine DEF ClientType
    <3> QED
      BY <3>1
  <2>2. CASE i <= Done(c)
    BY <1>1, <1>4, <1>5, <2>2 DEF Complete
  <2>3. CASE ~(i <= Done(c))
    <3> DEFINE d == Done(c)
    <3>1. i = d + 1
      <4>1. d \in Nat /\ i <= d + 1 /\ ~(i <= d)
        BY <1>2, <1>5, <2>3
      <4> HIDE DEF d
      <4> QED
        BY <2>1, <4>1
    <3> QED
      BY <1>4, <1>5, <3>1
  <2> QED
    BY <2>2, <2>3
<1> QED
  BY <1>3, <1>5 DEF Complete

\* The records that an argument asks for and that are there all the time are hit.
LEMMA StableIsHit ==
    ASSUME Database, stable \subseteq log, NEW req \in Requests, NEW i \in 1..Len(req.mac),
           NEW p \in PadByte,
           NEW x, x.req = req, Elements(x.read) = ReadHits(log, Asked(req, i, p))
    PROVE  AllRead(x, i, stable)
<1> SUFFICES ASSUME NEW pad \in PadByte, Asked(req, i, pad).start <= Limit(Asked(req, i, pad)),
                    IsFullMac(Asked(req, i, pad)) => PadByte = {pad}
             PROVE  Selected(stable, Asked(req, i, pad)) \subseteq Elements(x.read)
  BY DEF AllRead
<1> DEFINE q == Asked(req, i, pad)
           z == Asked(req, i, p)
<1>1. q \in Query /\ z \in Query
  BY CommandLine
<1>2. Selected(stable, q) \subseteq Selected(log, q) /\ log \in SUBSET LogKey
  BY DEF Selected, Database
<1>3. CASE ~IsFullMac(q)
  <2>1. /\ z.sa = q.sa /\ z.start = q.start /\ z.finish = q.finish
    BY DEF Asked
  <2>2. ~IsFullMac(z)
    BY <1>3, <2>1 DEF IsFullMac
  <2>3. Selected(log, z) = Selected(log, q)
    BY <2>1 DEF Selected, First, Last, Limit
  <2> HIDE DEF q, z
  <2>4. ReadHits(log, z) = Selected(log, z)
    BY <1>1, <1>2, <2>2, PartialRead
  <2> QED
    BY <1>2, <2>3, <2>4 DEF q, z
<1>4. CASE IsFullMac(q)
  <2>1. z = q /\ q.pad = pad /\ PadByte = {pad}
    BY <1>4 DEF Asked
  <2>2. \A k \in log : k.mac = q.sa => k.pad = q.pad
    BY <2>1 DEF Database, LogKey
  <2>3. q.start <= Limit(q)
    OBVIOUS
  <2>4. ReadHits(log, z) = Elements(x.read)
    OBVIOUS
  <2> HIDE DEF q, z
  <2>5. ReadHits(log, q) = Selected(log, q)
    BY <1>1, <1>2, <1>4, <2>2, <2>3, FullRead
  <2> QED
    BY <1>2, <2>1, <2>4, <2>5 DEF q
<1> QED
  BY <1>3, <1>4

-----------------------------------------------------------------------------
(* The steps of the commands that read. *)

\* At most one row of those that are shown is behind the one at which the flag was set.
LEMMA OneLate ==
    ASSUME NEW s \in Nat, NEW w \in Nat, NEW f \in Nat, w <= IF f <= s THEN 1 ELSE f - s
    PROVE  Cardinality({i \in (s + 1)..(s + w) : f <= i}) \in 0..1
<1> DEFINE L == {i \in (s + 1)..(s + w) : f <= i}
           a == IF f <= s THEN s + 1 ELSE f
<1>1. a \in Int /\ L \in SUBSET (a..a)
  OBVIOUS
<1> HIDE DEF L, a
<1>2. IsFiniteSet(a..a) /\ Cardinality(a..a) = 1
  <2>1. ~(a > a) /\ (a - a) + 1 = 1
    BY <1>1
  <2>2. IsFiniteSet(a..a) /\ Cardinality(a..a) = IF a > a THEN 0 ELSE (a - a) + 1
    BY <1>1, FS_Interval
  <2> QED
    BY <2>1, <2>2
<1>3. IsFiniteSet(L) /\ Cardinality(L) <= 1
  BY <1>1, <1>2, FS_Subset
<1>4. Cardinality(L) \in Nat
  BY <1>3, FS_CardinalityType
<1>5. Cardinality(L) \in 0..1
  BY <1>3, <1>4
<1> QED
  BY <1>5 DEF L

\* A scan has been read, printed and counted, except for what the loop has read in all.
Listed(y, rows, flag) ==
    /\ y \in ClientType(y) /\ LeftOver(y)
    /\ Slices(y, flag) /\ Counted(y) /\ NamedOnly(y) /\ Prompt(y)
    /\ y.req = client.req /\ y.left = Tail(client.left) /\ y.place = "loop"
    /\ y.read = client.read \o rows

\* One scan of log or probe, interrupted at its row f or not at all (onLog).
LEMMA ListStep ==
    ASSUME Works(client, interruptFlag, stable), At("loop"), Cmd \in Listing,
           client.left # <<>>, interruptFlag \in BOOLEAN,
           NEW rows, IsSeq(rows), NEW f \in 1..(Len(rows) + 1),
           NEW flag, flag = (interruptFlag \/ f <= Len(rows))
    PROVE  Listed([OnLog(rows, f) EXCEPT !.r = 0, !.left = Tail(@), !.read = @ \o rows],
                  rows, flag)
<1> DEFINE y == [OnLog(rows, f) EXCEPT !.r = 0, !.left = Tail(@), !.read = @ \o rows]
           c == client
           p == c.position
           o == c.req.offset
           u == c.req.count
           l == Len(c.read)
           n == Len(rows)
           s == Least(n, IF p < o THEN o - p ELSE 0)
           room == Room(p + s, n - s)
           w == Least(room, IF f <= s THEN 1 ELSE f - s)
           late == Cardinality({i \in (s + 1)..(s + w) : f <= i})
           printed == c.printed \o SubSeq(rows, s + 1, s + w)
           left == Tail(c.left)
           read == c.read \o rows
<1>1. c \in ClientType(c) /\ IsSeq(c.read) /\ LeftOver(c) /\ Slices(c, interruptFlag)
      /\ NamedOnly(c) /\ Prompt(c)
  BY DEF Works
<1>2. c.req \in Requests /\ p \in Nat /\ c.late \in Nat /\ c.left \in Seq(Arg)
  BY <1>1 DEF ClientType
<1>3. o \in Nat /\ u \in Nat \cup {-1}
  BY <1>2, CommandLine
<1>4. n \in Nat /\ l \in Nat /\ f \in Nat /\ f > 0 /\ f <= n + 1
  BY <1>1, ConcatIsSeq
<1>5. room = IF u = -1 THEN n - s ELSE IF p + s < o + u THEN Least((o + u) - (p + s), n - s) ELSE 0
  BY DEF Room
<1>6. s \in 0..n
  <2> HIDE DEF p, o, n
  <2> QED
    BY <1>2, <1>3, <1>4 DEF Least
<1>7. room \in 0..(n - s)
  <2> HIDE DEF p, o, n, s, u, room
  <2> QED
    BY <1>2, <1>3, <1>4, <1>5, <1>6 DEF Least
<1>8. w \in 0..(n - s) /\ w <= IF f <= s THEN 1 ELSE f - s
  <2> HIDE DEF n, s, room
  <2> QED
    BY <1>4, <1>6, <1>7 DEF Least
<1>9. late \in 0..1
  <2>1. s \in Nat /\ w \in Nat
    <3> HIDE DEF n, s, w
    <3> QED
      BY <1>4, <1>6, <1>8
  <2> HIDE DEF s, w
  <2> QED
    BY <1>4, <1>8, <2>1, OneLate
<1>10. left \in Seq(Arg)
  BY <1>2, HeadTailProperties
<1>11. y = [c EXCEPT !.position = p + s + w, !.printed = printed, !.late = c.late + late,
                     !.r = 0, !.left = left, !.read = read]
  BY <1>1 DEF OnLog, ClientType
<1> HIDE DEF y
<1>12. /\ y.position = p + s + w /\ y.printed = printed /\ y.late = c.late + late
       /\ y.left = left /\ y.read = read /\ y.req = c.req /\ y.taken = c.taken
       /\ y.place = c.place /\ y \in ClientType(y)
  <2> DEFINE a == p + s + w
             b == c.late + late
  <2>1. a \in Nat /\ b \in Nat
    <3> HIDE DEF p, s, w, late, n
    <3> QED
      BY <1>2, <1>4, <1>6, <1>8, <1>9
  <2> HIDE DEF a, b, printed, left, read
  <2>2. y = [c EXCEPT !.position = a, !.printed = printed, !.late = b,
                      !.r = 0, !.left = left, !.read = read]
    BY <1>11 DEF a, b
  <2> HIDE DEF c, p, o, u, l, n, s, room, w, late
  <2>3. /\ y.position = a /\ y.printed = printed /\ y.late = b /\ y.left = left
        /\ y.read = read /\ y.req = c.req /\ y.taken = c.taken /\ y.place = c.place
    BY <1>1, <2>2 DEF ClientType
  <2>4. y \in ClientType(y)
    BY <1>1, <1>10, <2>1, <2>2 DEF ClientType
  <2> QED
    BY <2>3, <2>4 DEF a, b
<1>13. LeftOver(y) /\ Done(y) = Done(c) + 1 /\ Done(c) \in Nat
  <2>1. /\ c \in ClientType(c) /\ LeftOver(c) /\ c.left # <<>>
        /\ y.left = Tail(c.left) /\ y.req = c.req
    BY <1>1, <1>12
  <2>2. Done(c) \in Nat
    BY <1>1 DEF LeftOver
  <2> HIDE DEF c
  <2> QED
    BY <2>1, <2>2, NextArg
<1>14. NamedOnly(y) /\ Counted(y)
  BY <1>1, <1>12 DEF NamedOnly, Counted, Listing, Cmd
<1>15. Prompt(y)
  <2> DEFINE d == Done(c)
             e == c.late
  <2>1. e <= d /\ d \in Nat /\ e \in Nat /\ Cmd # "notification"
    BY <1>1, <1>2, <1>13 DEF Prompt, Listing, Cmd
  <2> HIDE DEF d, e, late
  <2>2. e + late <= d + 1
    BY <1>9, <2>1
  <2> QED
    BY <1>12, <1>13, <2>1, <2>2 DEF Prompt, Cmd, d, e
<1>16. Slices(y, flag)
  <2> SUFFICES ASSUME ~flag
               PROVE  /\ y.position = IF u = -1 THEN Len(read) ELSE Least(Len(read), o + u)
                      /\ y.printed = SubSeq(read, o + 1, y.position)
    BY <1>12 DEF Slices
  <2>1. ~interruptFlag /\ ~(f <= n)
    OBVIOUS
  <2>2. /\ p = IF u = -1 THEN l ELSE Least(l, o + u)
        /\ c.printed = SubSeq(c.read, o + 1, p)
    BY <1>1, <2>1 DEF Slices, Cmd
  <2>3. Len(read) = l + n
    BY <1>1, ConcatIsSeq
  <2>4. w = room
    <3> HIDE DEF n, s, room
    <3> QED
      BY <1>4, <1>6, <1>7, <2>1 DEF Least
  <2>5. /\ p + s + w = IF u = -1 THEN l + n ELSE Least(l + n, o + u)
        /\ p <= l /\ (w > 0 => l <= p /\ o <= p + s) /\ (s > 0 => p + s <= o)
    <3>1. s = Least(n, IF p < o THEN o - p ELSE 0)
      OBVIOUS
    <3>2. p = IF u = -1 THEN l ELSE Least(l, o + u)
      BY <2>2
    <3> HIDE DEF p, o, n, l, s, w, u, room
    <3>3. CASE u = -1
      BY <1>2, <1>3, <1>4, <1>5, <2>4, <3>1, <3>2, <3>3 DEF Least
    <3>4. CASE u # -1
      <4> DEFINE e == o + u
      <4>1. e \in Nat /\ o <= e
        BY <1>3, <3>4
      <4>2. w = IF p + s < e THEN Least(e - (p + s), n - s) ELSE 0
        BY <1>5, <2>4, <3>4
      <4>3. p = Least(l, e)
        BY <3>2, <3>4
      <4> HIDE DEF e
      <4>4. /\ p + s + w = Least(l + n, e)
            /\ p <= l /\ (w > 0 => l <= p /\ o <= p + s) /\ (s > 0 => p + s <= o)
        BY <1>2, <1>3, <1>4, <1>6, <3>1, <4>1, <4>2, <4>3 DEF Least
      <4> QED
        BY <3>4, <4>4 DEF e
    <3> QED
      BY <3>3, <3>4
  <2>6. printed = SubSeq(read, o + 1, p + s + w)
    <3> DEFINE a == c.read
    <3>1. s \in Nat /\ w \in Nat /\ s + w <= n
      <4> HIDE DEF n, s, w
      <4> QED
        BY <1>4, <1>6, <1>8
    <3>2. /\ IsSeq(a) /\ p <= Len(a) /\ s + w <= Len(rows)
          /\ w > 0 => Len(a) <= p /\ o <= p + s
          /\ s > 0 => p + s <= o
      BY <1>1, <2>5, <3>1
    <3>4. p \in Nat /\ o \in Nat
      BY <1>2, <1>3
    <3> HIDE DEF a, p, o, s, w, c, l, n, u, room
    <3>3. SubSeq(a, o + 1, p) \o SubSeq(rows, s + 1, s + w) = SubSeq(a \o rows, o + 1, p + s + w)
      BY SMTT(20), <3>1, <3>2, <3>4, SliceGrows
    <3>5. c.printed = SubSeq(a, o + 1, p)
      BY <2>2 DEF a
    <3>6. printed = c.printed \o SubSeq(rows, s + 1, s + w) /\ read = a \o rows
      BY DEF a, c
    <3> QED
      BY <3>3, <3>5, <3>6
  <2> HIDE DEF p, s, w, o, u, read, l, n, printed
  <2> QED
    BY <1>12, <2>3, <2>5, <2>6
<1> QED
  BY <1>12, <1>13, <1>14, <1>15, <1>16 DEF Listed, At, y

\* One scan of a count (onLogCount, onLogHistogram).
LEMMA CountStep ==
    ASSUME Works(client, interruptFlag, stable), At("loop"),
           Cmd \in {"log-count", "probe-count", "macs-per-time"}, client.left # <<>>,
           NEW rows, IsSeq(rows), NEW f \in 1..(Len(rows) + 1), NEW flag
    PROVE  Listed([OnLogCount(rows, f) EXCEPT !.r = 0, !.left = Tail(@), !.read = @ \o rows],
                  rows, flag)
<1> DEFINE y == [OnLogCount(rows, f) EXCEPT !.r = 0, !.left = Tail(@), !.read = @ \o rows]
           c == client
           sum == c.sum + Least(Len(rows), f)
           left == Tail(c.left)
           read == c.read \o rows
<1>1. c \in ClientType(c) /\ LeftOver(c) /\ NamedOnly(c) /\ Prompt(c)
  BY DEF Works
<1>2. c.sum \in Nat /\ c.late \in Nat /\ c.left \in Seq(Arg)
  BY <1>1 DEF ClientType
<1>3. sum \in Nat /\ left \in Seq(Arg)
  <2> DEFINE n == Len(rows)
             e == c.sum
  <2>1. n \in Nat /\ e \in Nat
    BY <1>2, ConcatIsSeq
  <2>2. left \in Seq(Arg)
    BY <1>2, HeadTailProperties
  <2> HIDE DEF n, e
  <2>3. e + Least(n, f) \in Nat
    BY <2>1 DEF Least
  <2> QED
    BY <2>2, <2>3 DEF n, e
<1>4. y = [c EXCEPT !.sum = sum, !.r = 0, !.left = left, !.read = read]
  BY <1>1 DEF OnLogCount, ClientType
<1> HIDE DEF y
<1>5. /\ y.left = left /\ y.read = read /\ y.req = c.req /\ y.taken = c.taken
      /\ y.late = c.late /\ y.place = c.place /\ y \in ClientType(y)
  <2> HIDE DEF sum, left, read, c
  <2>1. /\ y.left = left /\ y.read = read /\ y.req = c.req /\ y.taken = c.taken
        /\ y.late = c.late /\ y.place = c.place
    BY <1>1, <1>4 DEF ClientType
  <2>2. y \in ClientType(y)
    BY <1>1, <1>3, <1>4 DEF ClientType
  <2> QED
    BY <2>1, <2>2
<1>6. LeftOver(y) /\ Done(y) = Done(c) + 1 /\ Done(c) \in Nat
  <2>1. /\ c \in ClientType(c) /\ LeftOver(c) /\ c.left # <<>>
        /\ y.left = Tail(c.left) /\ y.req = c.req
    BY <1>1, <1>5
  <2>2. Done(c) \in Nat
    BY <1>1 DEF LeftOver
  <2> HIDE DEF c
  <2> QED
    BY <2>1, <2>2, NextArg
<1>7. NamedOnly(y) /\ Counted(y) /\ Slices(y, flag)
  BY <1>1, <1>5 DEF NamedOnly, Counted, Slices, Listing, Cmd
<1>8. Prompt(y)
  <2> DEFINE d == Done(c)
             e == c.late
  <2>1. e <= d /\ d \in Nat /\ e \in Nat /\ Cmd # "notification"
    BY <1>1, <1>2, <1>6 DEF Prompt, Cmd
  <2> HIDE DEF d, e
  <2>2. e <= d + 1
    BY <2>1
  <2> QED
    BY <1>5, <1>6, <2>1, <2>2 DEF Prompt, Cmd, d, e
<1> QED
  BY <1>5, <1>6, <1>7, <1>8 DEF Listed, At, y

\* A command is somewhere: the process is there, and the invariant holds of it.
LEMMA IsWorking ==
    ASSUME IInv, client.place # "none"
    PROVE  /\ Works(client, interruptFlag, stable) /\ Database
           /\ client \in ClientType(client)
BY DEF IInv, NoClient, Works

\* A step that leaves the table alone.
LEMMA SameDatabase == Database /\ UNCHANGED db => Database'
BY DEF Database, Named, db

\* One turn of the loop of lsLog, lsProbe or a count.
LEMMA ReadNextStep == IInv /\ ReadNext => IInv'
<1> SUFFICES ASSUME IInv, ReadNext PROVE IInv'
  OBVIOUS
<1> DEFINE c == client
           i == Done(c) + 1
<1>1. /\ c.place = "loop" /\ c.left # <<>> /\ UNCHANGED <<db, stable>>
      /\ Cmd \in Listing \cup {"log-count", "probe-count", "macs-per-time"}
  BY DEF ReadNext, At
<1>2. /\ Works(c, interruptFlag, stable) /\ Database /\ c \in ClientType(c)
      /\ stable \subseteq log /\ interruptFlag \in BOOLEAN
  BY <1>1, IsWorking DEF IInv
<1> DEFINE R(pad)    == RowsOf(QueryOf(Arg1, pad))
           N(pad)    == NotFound(QueryOf(Arg1, pad))
           Z(pad, f) == [(IF Cmd \in Listing THEN OnLog(R(pad), f) ELSE OnLogCount(R(pad), f))
                         EXCEPT !.r = 0, !.left = Tail(@), !.read = @ \o R(pad)]
<1>3. PICK pad \in PadByte :
        \E f \in IF interruptFlag THEN {1} ELSE 1..(Len(R(pad)) + 1) :
            /\ interruptFlag' = (interruptFlag \/ f <= Len(R(pad)))
            /\ IF (IF N(pad) THEN MDB_NOTFOUND ELSE 0) < 0
               THEN client' = IF Cmd \in {"log", "log-count"}
                              THEN Ends(IF N(pad) THEN MDB_NOTFOUND ELSE 0)
                              ELSE [client EXCEPT !.r = IF N(pad) THEN MDB_NOTFOUND ELSE 0,
                                                  !.left = Tail(@)]
               ELSE client' = Z(pad, f)
  BY DEF ReadNext
<1> DEFINE q    == QueryOf(Arg1, pad)
           rows == RowsOf(q)
<1>4. PICK f \in IF interruptFlag THEN {1} ELSE 1..(Len(rows) + 1) :
        /\ interruptFlag' = (interruptFlag \/ f <= Len(rows))
        /\ NotFound(q) =>
              client' = IF Cmd \in {"log", "log-count"} THEN Ends(MDB_NOTFOUND)
                        ELSE [client EXCEPT !.r = MDB_NOTFOUND, !.left = Tail(@)]
        /\ ~NotFound(q) => client' = Z(pad, f)
  <2> HIDE DEF Z
  <2>1. MDB_NOTFOUND < 0 /\ ~(0 < 0)
    BY DEF MDB_NOTFOUND
  <2>2. CASE NotFound(q)
    BY <1>3, <2>1, <2>2
  <2>3. CASE ~NotFound(q)
    BY <1>3, <2>1, <2>3
  <2> QED
    BY <2>2, <2>3
<1> DEFINE flag == interruptFlag \/ f <= Len(rows)
<1>5. interruptFlag' = flag /\ flag \in BOOLEAN /\ (interruptFlag => flag)
  BY <1>2, <1>4
<1>6. IsSeq(rows) /\ (Cmd \notin {"probe", "probe-count"} => Elements(rows) = ReadHits(log, q))
  BY <1>2, RowsAreSeq
<1>7. f \in 1..(Len(rows) + 1)
  <2>1. Len(rows) \in Nat
    BY <1>6, ConcatIsSeq
  <2> HIDE DEF rows
  <2> QED
    BY <1>4, <2>1
<1>8. c.req \in Requests /\ i \in 1..Len(c.req.mac) /\ Arg1 = c.req.mac[i]
  BY <1>1, <1>2, FirstArg DEF Works, ClientType, Arg1
<1>9. q = Asked(c.req, i, pad)
  BY <1>8 DEF QueryOf, Asked
<1>10. Works(client', flag, stable)
  <2>1. CASE NotFound(q) /\ Cmd \in {"log", "log-count"}
    <3> DEFINE y == [c EXCEPT !.place = "close", !.r = MDB_NOTFOUND]
    <3>1. client' = y
      BY <1>4, <2>1 DEF Ends
    <3>2. stable = {}
      BY <1>2, <2>1, NothingFound
    <3>3. y.req = c.req /\ MDB_NOTFOUND \in Nat \cup Codes
      BY <1>2 DEF ClientType, Codes
    <3> HIDE DEF y
    <3>4. Counted(y)
      BY <2>1, <3>3 DEF Counted, Cmd
    <3>5. Complete(y, interruptFlag, stable)
      BY <3>2 DEF Complete, AllRead, Selected
    <3>6. Works(y, interruptFlag, stable)
      BY <1>2, <3>3, <3>4, <3>5, PlaceStep DEF y
    <3>7. Works(y, flag, stable)
      <4> HIDE DEF flag, y
      <4> QED
        BY <1>5, <3>6, Weaker
    <3> QED
      BY <3>1, <3>7
  <2>2. CASE NotFound(q) /\ Cmd \notin {"log", "log-count"}
    <3> DEFINE l == Tail(c.left)
               y == [c EXCEPT !.r = MDB_NOTFOUND, !.left = l]
    <3>1. client' = y
      BY <1>4, <2>2
    <3>2. l \in Seq(Arg)
      BY <1>1, <1>2, HeadTailProperties DEF ClientType
    <3>3. MDB_NOTFOUND \in Nat \cup Codes
      BY DEF Codes
    <3> HIDE DEF l
    <3>4. /\ y.req = c.req /\ y.left = l /\ y.position = c.position /\ y.read = c.read
          /\ y.printed = c.printed /\ y.late = c.late /\ y.taken = c.taken
          /\ y \in ClientType(y)
      BY <1>2, <3>2, <3>3 DEF ClientType
    <3> HIDE DEF y
    <3>5. Counted(y) /\ Complete(y, interruptFlag, stable)
      BY <1>1, <2>2, <3>4 DEF Counted, Complete, Cmd, Listing
    <3>6. NamedOnly(y)
      BY <1>2, <3>4 DEF Works, NamedOnly
    <3>7. Works(y, interruptFlag, stable)
      <4> HIDE DEF c
      <4> QED
        BY <1>1, <1>2, <3>4, <3>5, <3>6, LoopStep DEF l
    <3>8. Works(y, flag, stable)
      <4> HIDE DEF flag, y
      <4> QED
        BY <1>5, <3>7, Weaker
    <3> QED
      BY <3>1, <3>8
  <2>3. CASE ~NotFound(q)
    <3> DEFINE y == IF Cmd \in Listing
                    THEN [OnLog(rows, f) EXCEPT !.r = 0, !.left = Tail(@), !.read = @ \o rows]
                    ELSE [OnLogCount(rows, f) EXCEPT !.r = 0, !.left = Tail(@), !.read = @ \o rows]
    <3>1. client' = y
      BY <1>4, <2>3
    <3>2. Listed(y, rows, flag)
      <4>1. CASE Cmd \in Listing
        <5> HIDE DEF rows
        <5>1. Listed([OnLog(rows, f) EXCEPT !.r = 0, !.left = Tail(@), !.read = @ \o rows],
                     rows, flag)
          BY <1>1, <1>2, <1>6, <1>7, <4>1, ListStep DEF At
        <5> QED
          BY <4>1, <5>1
      <4>2. CASE Cmd \notin Listing
        <5> HIDE DEF rows, flag
        <5>1. Cmd \in {"log-count", "probe-count", "macs-per-time"}
          BY <1>1, <4>2
        <5>2. Listed([OnLogCount(rows, f) EXCEPT !.r = 0, !.left = Tail(@), !.read = @ \o rows],
                     rows, flag)
          BY <1>1, <1>2, <1>6, <1>7, <5>1, CountStep DEF At
        <5> QED
          BY <4>2, <5>2
      <4> QED
        BY <4>1, <4>2
    <3> HIDE DEF y
    <3> DEFINE x == [req |-> c.req, read |-> rows]
    <3>3. x.req = c.req /\ x.read = rows
      OBVIOUS
    <3>4. c.req.cmd \in {"log", "log-count"} => AllRead(x, i, stable)
      <4> SUFFICES ASSUME c.req.cmd \in {"log", "log-count"} PROVE AllRead(x, i, stable)
        OBVIOUS
      <4>1. Elements(x.read) = ReadHits(log, Asked(c.req, i, pad))
        BY <1>6, <1>9 DEF Cmd
      <4> HIDE DEF x, i
      <4> QED
        BY <1>2, <1>8, <3>3, <4>1, StableIsHit
    <3>5. Complete(y, interruptFlag, stable) /\ IsSeq(y.read)
      <4> HIDE DEF rows, x
      <4>1. /\ Works(c, interruptFlag, stable) /\ c.left # <<>> /\ c.place = "loop"
            /\ IsSeq(rows) /\ i = Done(c) + 1
        BY <1>1, <1>2, <1>6
      <4>2. y.req = c.req /\ y.left = Tail(c.left) /\ y.place = "loop" /\ y.read = c.read \o rows
        BY <3>2 DEF Listed
      <4>3. c.req.cmd \in {"log", "log-count"} => AllRead(x, Done(c) + 1, stable)
        BY <3>4, <4>1
      <4> DEFINE g == interruptFlag
      <4>4. Works(c, g, stable)
        BY <4>1
      <4> HIDE DEF c, i, y, g
      <4>5. Complete(y, g, stable) /\ IsSeq(y.read)
        BY ONLY ZenonT(40), <3>3, <4>1, <4>2, <4>3, <4>4, ReadMore
      <4> QED
        BY <4>5 DEF g
    <3>6. Complete(y, flag, stable)
      BY <1>5, <3>5 DEF Complete
    <3> QED
      BY <3>1, <3>2, <3>5, <3>6 DEF Works, Listed
  <2> QED
    BY <2>1, <2>2, <2>3
<1>11. Database' /\ stable' = stable /\ log' = log
  BY <1>1, <1>2, SameDatabase DEF db
<1> HIDE DEF flag
<1> QED
  BY <1>2, <1>5, <1>10, <1>11 DEF IInv

\* The listing of the notifications, one transaction.
LEMMA NotificationListStep == IInv /\ NotificationList => IInv'
<1> SUFFICES ASSUME IInv, NotificationList PROVE IInv'
  OBVIOUS
<1> DEFINE c == client
           rows == InOrder(Store!Listed, [n \in notes |-> n.mac \o <<n.junk>>])
           w(f) == Least(Len(rows), f)
           late(f) == Cardinality({i \in 1..w(f) : f <= i})
           r == IF rows = <<>> THEN MDB_NOTFOUND ELSE 0
           printed(f) == SubSeq(rows, 1, w(f))
<1>1. c.place = "loop" /\ Cmd = "notification" /\ UNCHANGED <<db, stable>>
  BY DEF NotificationList, At
<1>2. /\ Works(c, interruptFlag, stable) /\ Database /\ c \in ClientType(c)
      /\ stable \subseteq log /\ interruptFlag \in BOOLEAN
  BY <1>1, IsWorking DEF IInv
<1>3. PICK f \in IF interruptFlag THEN {1} ELSE 1..(Len(rows) + 1) :
        /\ interruptFlag' = (interruptFlag \/ f <= Len(rows))
        /\ client' = [Ends(r) EXCEPT !.read = rows, !.printed = printed(f), !.late = late(f)]
  BY DEF NotificationList
<1>4. IsSeq(rows) /\ Len(rows) \in Nat
  <2> DEFINE S == Store!Listed
  <2>1. S \in SUBSET notes
    BY DEF Store!Listed
  <2>2. IsFiniteSet(S)
    BY <1>2, <2>1, FS_Subset DEF Database
  <2> HIDE DEF S
  <2>3. \A key : IsSeq(InOrder(S, key))
    BY <2>2, InOrderIsSeq
  <2>4. IsSeq(rows)
    BY <2>3 DEF S
  <2> HIDE DEF rows
  <2> QED
    BY <2>4, ConcatIsSeq
<1>5. f \in Nat /\ f > 0
  <2> HIDE DEF rows
  <2> QED
    BY <1>3, <1>4
<1>6. late(f) \in 0..1
  <2> DEFINE v == w(f)
             L == {i \in (0 + 1)..(0 + v) : f <= i}
  <2>1. v \in Nat /\ v <= f
    <3> DEFINE n == Len(rows)
    <3>1. n \in Nat /\ v = Least(n, f)
      BY <1>4
    <3> HIDE DEF n, v
    <3> QED
      BY <1>5, <3>1 DEF Least
  <2> HIDE DEF v
  <2>2. v <= IF f <= 0 THEN 1 ELSE f - 0
    BY <1>5, <2>1
  <2>3. Cardinality(L) \in 0..1
    BY <1>5, <2>1, <2>2, OneLate
  <2>4. L = {i \in 1..v : f <= i}
    BY <2>1
  <2> QED
    BY <2>3, <2>4 DEF v
<1> DEFINE y == [c EXCEPT !.place = "close", !.r = r, !.read = rows, !.printed = printed(f),
                          !.late = late(f)]
<1>7. client' = y
  <2> HIDE DEF rows, r, printed, late
  <2> QED
    BY <1>2, <1>3 DEF Ends, ClientType
<1>8. /\ y.req = c.req /\ y.left = c.left /\ y.read = rows /\ y.late = late(f)
      /\ y.taken = c.taken /\ y \in ClientType(y)
  <2> DEFINE e == late(f)
             p == printed(f)
  <2>1. e \in Nat /\ r \in Nat \cup Codes
    BY <1>6 DEF Codes
  <2>0. y = [c EXCEPT !.place = "close", !.r = r, !.read = rows, !.printed = p, !.late = e]
    OBVIOUS
  <2> HIDE DEF y, c, e, p, r, rows
  <2>2. /\ y.req = c.req /\ y.left = c.left /\ y.read = rows /\ y.late = e
        /\ y.taken = c.taken
    BY <1>2, <2>0 DEF ClientType
  <2>3. y \in ClientType(y)
    BY <1>2, <2>0, <2>1 DEF ClientType
  <2> QED
    BY <2>2, <2>3 DEF e
<1> HIDE DEF y
<1>9. LeftOver(y) /\ NamedOnly(y) /\ Counted(y) /\ Slices(y, interruptFlag')
      /\ Complete(y, interruptFlag', stable)
  <2> HIDE DEF rows, r, printed, late
  <2>1. y.req.cmd = "notification" /\ Done(y) = Done(c)
    BY <1>1, <1>8 DEF Cmd, Done
  <2> QED
    BY <1>2, <1>8, <2>1 DEF Works, LeftOver, NamedOnly, Counted, Slices, Complete, Listing
<1>10. Prompt(y)
  <2> HIDE DEF late
  <2>1. late(f) <= 1
    BY <1>6
  <2> QED
    BY <1>1, <1>8, <2>1 DEF Prompt, Cmd
<1>11. Works(y, interruptFlag', stable)
  BY <1>4, <1>8, <1>9, <1>10 DEF Works
<1>12. Database' /\ stable' = stable /\ log' = log /\ interruptFlag' \in BOOLEAN
  BY <1>1, <1>2, <1>3, SameDatabase DEF db
<1> QED
  BY <1>2, <1>7, <1>11, <1>12 DEF IInv

-----------------------------------------------------------------------------
(* The steps of the commands that write. *)

\* One turn of the loop of rmLog: a transaction that removes.
LEMMA RmLogStep == IInv /\ RmLogNext => IInv'
<1> SUFFICES ASSUME IInv, RmLogNext PROVE IInv'
  OBVIOUS
<1> DEFINE c == client
           i == Done(c) + 1
<1>1. c.place = "loop" /\ Cmd = "remove" /\ c.left # <<>> /\ UNCHANGED <<probe, notes, interruptFlag>>
  BY DEF RmLogNext, At
<1>2. /\ Works(c, interruptFlag, stable) /\ Database /\ c \in ClientType(c)
      /\ stable \subseteq log /\ interruptFlag \in BOOLEAN
  BY <1>1, IsWorking DEF IInv
<1> DEFINE H(pad) == RmHits(log, QueryOf(Arg1, pad))
           l == Tail(c.left)
<1>3. PICK pad \in PadByte :
        /\ \/ client' = Ends(MDB_NOTFOUND)
           \/ client' = [client EXCEPT !.left = l, !.r = @ + Cardinality(H(pad)),
                                       !.effect = @ + Cardinality(H(pad)), !.taken = @ \cup H(pad)]
        /\ log' = log \ H(pad) /\ stable' = stable \ H(pad)
  BY DEF RmLogNext
<1> DEFINE hits == H(pad)
           n    == Cardinality(hits)
<1>4. c.req \in Requests /\ i \in 1..Len(c.req.mac) /\ Arg1 = c.req.mac[i]
  BY <1>1, <1>2, FirstArg DEF Works, ClientType, Arg1
<1>5. /\ hits \subseteq log /\ hits \subseteq LogKey
      /\ \A k \in hits : k \in Selected({k}, Asked(c.req, i, pad))
  <2> DEFINE q == Asked(c.req, i, pad)
  <2>1. q \in Query /\ hits = RmHits(log, q) /\ log \in SUBSET LogKey
    BY <1>2, <1>4, CommandLine DEF QueryOf, Asked, Database
  <2> HIDE DEF q, hits
  <2>2. hits \subseteq Selected(log, q)
    BY <2>1, HitsAreSelected DEF RmHits
  <2> QED
    BY <2>1, <2>2 DEF Selected, q
<1>6. n \in Nat
  <2>1. IsFiniteSet(hits)
    BY <1>2, <1>5, FS_Subset DEF Database
  <2> HIDE DEF hits
  <2> QED
    BY <2>1, FS_CardinalityType
<1>7. stable' \subseteq log' /\ stable' \in SUBSET stable /\ log' \in SUBSET log
  <2> HIDE DEF H
  <2> QED
    BY <1>2, <1>3
<1>8. Database'
  BY <1>1, <1>2, <1>7, RecordsGo
<1>9. c.r \in Nat /\ c.r = c.effect
  BY <1>1, <1>2 DEF Works, Counted, Cmd, ClientType, Codes, ERRCODE_WRONG_PARAM,
     ERRCODE_LMDB_OPEN, ERRCODE_LMDB_PUT, ERRCODE_LMDB_TXN_BEGIN, MDB_NOTFOUND
<1>10. Works(client', interruptFlag, stable)
  <2>1. CASE client' = Ends(MDB_NOTFOUND)
    <3> DEFINE y == [c EXCEPT !.place = "close", !.r = MDB_NOTFOUND]
    <3>1. client' = y /\ MDB_NOTFOUND \in Nat \cup Codes
      BY <2>1 DEF Ends, Codes
    <3>2. y.req = c.req /\ y.place = "close" /\ ~(y.r >= 0)
      BY <1>2 DEF ClientType, MDB_NOTFOUND
    <3>3. Counted(y) /\ Complete(y, interruptFlag, stable)
      <4> HIDE DEF y
      <4> QED
        BY <1>1, <3>2 DEF Counted, Complete, Cmd
    <3> QED
      BY <1>2, <3>1, <3>3, PlaceStep
  <2>2. CASE client' = [client EXCEPT !.left = l, !.r = @ + n, !.effect = @ + n, !.taken = @ \cup hits]
    <3> DEFINE e == c.r + n
               T == c.taken \cup hits
               y == [c EXCEPT !.left = l, !.r = e, !.effect = e, !.taken = T]
    <3>1. client' = y
      BY <1>9, <2>2
    <3>2. e \in Nat /\ l \in Seq(Arg) /\ T \in SUBSET LogKey
      <4>1. l \in Seq(Arg) /\ T \in SUBSET LogKey
        BY <1>1, <1>2, <1>5, HeadTailProperties DEF ClientType
      <4> HIDE DEF n
      <4> QED
        BY <1>6, <1>9, <4>1
    <3> HIDE DEF l, e, T, hits, n
    <3>3. /\ y.req = c.req /\ y.left = l /\ y.position = c.position /\ y.read = c.read
          /\ y.printed = c.printed /\ y.late = c.late /\ y.taken = T
          /\ y.r = e /\ y.effect = e /\ y.place = c.place
      BY <1>2 DEF ClientType
    <3>4. y \in ClientType(y)
      BY <1>2, <3>2 DEF ClientType
    <3> HIDE DEF y
    <3>5. Counted(y) /\ Complete(y, interruptFlag, stable)
      BY <1>1, <3>2, <3>3 DEF Counted, Complete, Cmd
    <3>6. NamedOnly(y)
      <4> SUFFICES ASSUME NEW k \in T
                   PROVE  \E j \in 1..Len(c.req.mac) : \E b \in PadByte :
                              k \in Selected({k}, Asked(c.req, j, b))
        BY <3>3 DEF NamedOnly
      <4>1. CASE k \in c.taken
        BY <1>2, <4>1 DEF Works, NamedOnly
      <4>2. CASE k \in hits
        <5> HIDE DEF i
        <5> QED
          BY <1>4, <1>5, <4>2
      <4> QED
        BY <4>1, <4>2 DEF T
    <3>7. Works(y, interruptFlag, stable)
      <4> HIDE DEF c
      <4> QED
        BY <1>1, <1>2, <3>3, <3>4, <3>5, <3>6, LoopStep DEF l
    <3> QED
      BY <3>1, <3>7
  <2> QED
    BY <1>3, <2>1, <2>2
<1>11. Works(client', interruptFlag', stable')
  <2> DEFINE a == client'
             t == stable'
             g == interruptFlag
  <2>1. Works(a, g, stable) /\ t \in SUBSET stable /\ (g => g)
    BY <1>7, <1>10
  <2> HIDE DEF a, t, g
  <2>2. Works(a, g, t)
    BY <2>1, Weaker
  <2> QED
    BY <1>1, <2>2 DEF a, t, g
<1> QED
  BY <1>1, <1>2, <1>7, <1>8, <1>11 DEF IInv

\* The records of the lines behind the first `lost`, and for each MAC its lines behind the
\* first `passed`.
AddedOf(lines, lost)   == {lines[i] : i \in (lost + 1)..Len(lines)}
NamedOf(lines, passed) == [m \in Mac |-> {i \in (passed + 1)..Len(lines) : lines[i].mac = m}]

\* The lines of a file go into the log, and each MAC of them has a last probe: of the lines
\* that are lost when the map is full too, where only their record was lost.
LEMMA LinesDatabase ==
    ASSUME Database, NEW lines, lines \in Seq(LogKey), NEW lost \in Nat, NEW passed \in 0..lost,
           NEW added, added = AddedOf(lines, lost), NEW named, named = NamedOf(lines, passed),
           log' = log \cup added, notes' = notes,
           probe' = [m \in Mac |-> IF named[m] = {} THEN probe[m] ELSE lines[F!Max(named[m])].dt]
    PROVE  Database'
<1> DEFINE n == Len(lines)
<1>1. n \in Nat /\ \A i \in 1..n : lines[i] \in LogKey
  BY LenProperties
<1> HIDE DEF n
<1>2. \A m \in Mac : named[m] = {i \in (passed + 1)..n : lines[i].mac = m}
  BY DEF n, NamedOf
<1>12. \A m \in Mac : named[m] \subseteq 1..n
  BY <1>1, <1>2
<1>3. added = {lines[i] : i \in (lost + 1)..n} /\ (lost + 1)..n \subseteq (passed + 1)..n
      /\ (lost + 1)..n \subseteq 1..n
  BY <1>1 DEF n, AddedOf
<1>4. added \subseteq LogKey /\ IsFiniteSet(added)
  <2> DEFINE f == [i \in (lost + 1)..n |-> lines[i]]
  <2>1. f \in Surjection((lost + 1)..n, added)
    BY <1>3 DEF Surjection
  <2>2. IsFiniteSet((lost + 1)..n)
    BY <1>1, FS_Interval
  <2> HIDE DEF f
  <2>3. IsFiniteSet(added)
    BY <2>1, <2>2, FS_Surjection
  <2> QED
    BY <1>1, <1>3, <2>3
<1>5. ASSUME NEW m \in Mac, named[m] # {} PROVE F!Max(named[m]) \in named[m]
  <2> DEFINE D == {n - i : i \in named[m]}
  <2>1. D \subseteq Nat /\ D # {}
    BY <1>1, <1>12, <1>5
  <2>2. PICK d \in D : \A e \in D : d <= e
    BY <2>1, LeastOf
  <2>3. PICK x \in named[m] : d = n - x
    BY <2>2
  <2>4. ASSUME NEW y \in named[m] PROVE x >= y
    <3>1. x \in 1..n /\ y \in 1..n /\ n - x <= n - y
      BY <1>12, <2>2, <2>3
    <3> QED
      BY <1>1, <3>1
  <2>5. \E z \in named[m] : \A y \in named[m] : z >= y
    BY <2>4
  <2> QED
    BY <2>5 DEF F!Max
<1>6. ASSUME NEW m \in Mac, named[m] # {} PROVE probe'[m] # 0
  <2>1. F!Max(named[m]) \in 1..n
    BY <1>12, <1>5, <1>6
  <2>2. lines[F!Max(named[m])].dt # 0
    BY <1>1, <2>1 DEF LogKey, Time
  <2> QED
    BY <1>6, <2>2
<1>7. \A m \in Mac : named[m] = {} => probe'[m] = probe[m]
  OBVIOUS
<1>8. DOMAIN probe' = Mac
  OBVIOUS
<1>9. \A k \in log' : k.mac \in Named'
  <2>1. ASSUME NEW k \in log PROVE k.mac \in Named'
    <3>1. k.mac \in Mac /\ probe[k.mac] # 0
      BY DEF Database, Named
    <3> QED
      BY <1>6, <1>7, <3>1 DEF Named
  <2>2. ASSUME NEW k \in added PROVE k.mac \in Named'
    <3>1. PICK i \in (passed + 1)..n : k = lines[i]
      BY <1>3
    <3>2. k.mac \in Mac /\ named[k.mac] # {}
      BY <1>2, <1>4, <3>1 DEF LogKey
    <3> QED
      BY <1>6, <3>2 DEF Named
  <2> QED
    BY <2>1, <2>2
<1>10. IsFiniteSet(Named')
  <2> DEFINE f == [i \in 1..n |-> lines[i].mac]
             M == {f[i] : i \in 1..n}
  <2>0. f \in Surjection(1..n, M)
    BY DEF Surjection
  <2>1. IsFiniteSet(1..n)
    <3>1. n \in Int
      BY <1>1
    <3> HIDE DEF n
    <3> QED
      BY <3>1, FS_Interval
  <2> HIDE DEF f
  <2>2. IsFiniteSet(M)
    BY <2>0, <2>1, FS_Surjection
  <2>3. Named' \in SUBSET (Named \cup M)
    <3> SUFFICES ASSUME NEW m \in Named' PROVE m \in Named \cup M
      OBVIOUS
    <3>1. m \in Mac /\ probe'[m] # 0
      BY DEF Named
    <3>2. CASE named[m] = {}
      BY <1>7, <3>1, <3>2 DEF Named
    <3>3. CASE named[m] # {}
      <4>1. PICK i \in 1..n : lines[i].mac = m
        BY <1>2, <1>12, <3>1, <3>3
      <4>2. f[i] = m
        BY <4>1 DEF f
      <4> QED
        BY <4>2
    <3> QED
      BY <3>2, <3>3
  <2>4. IsFiniteSet(Named \cup M)
    BY <2>2, FS_Union DEF Database
  <2> HIDE DEF M
  <2> QED
    BY <2>3, <2>4, FS_Subset
<1>11. log' \subseteq LogKey /\ IsFiniteSet(log')
  <2>1. IsFiniteSet(log \cup added)
    BY <1>4, FS_Union DEF Database
  <2> QED
    BY <1>4, <2>1 DEF Database
<1> QED
  BY <1>8, <1>9, <1>10, <1>11 DEF Database

\* putLogEntries returns the number of lines, whatever it lost of them.
LEMMA LoadedStep ==
    ASSUME IInv, At("loop"), Cmd = "log-read", UNCHANGED <<notes, interruptFlag, stable>>,
           NEW lost \in 0..Len(client.req.lines), NEW passed \in 0..lost, Loaded(lost, passed)
    PROVE  IInv'
<1> DEFINE c == client
           lines == c.req.lines
           n == Len(lines)
           k == n - lost
           added == AddedOf(lines, lost)
           named == NamedOf(lines, passed)
<1>1. c.place = "loop"
  BY DEF At
<1>2. /\ Works(c, interruptFlag, stable) /\ Database /\ c \in ClientType(c)
      /\ stable \subseteq log /\ interruptFlag \in BOOLEAN
  BY <1>1, IsWorking DEF IInv
<1>3. lines \in Seq(LogKey) /\ n \in Nat /\ lost \in Nat /\ k \in Nat
  <2>1. lines \in Seq(LogKey)
    BY <1>2, CommandLine DEF ClientType, Request
  <2>2. n \in Nat
    BY <2>1, LenProperties
  <2> HIDE DEF n
  <2>3. lost \in 0..n
    BY DEF n
  <2> QED
    BY <2>1, <2>2, <2>3
<1>4. /\ log' = log \cup added /\ client' = [Ends(n) EXCEPT !.effect = k]
      /\ probe' = [m \in Mac |-> IF {i \in (passed + 1)..n : lines[i].mac = m} = {} THEN probe[m]
                                 ELSE lines[F!Max({i \in (passed + 1)..n : lines[i].mac = m})].dt]
  BY DEF Loaded, AddedOf
<1>5. probe' = [m \in Mac |-> IF named[m] = {} THEN probe[m] ELSE lines[F!Max(named[m])].dt]
  <2>1. \A m \in Mac : named[m] = {i \in (passed + 1)..n : lines[i].mac = m}
    BY DEF NamedOf
  <2> HIDE DEF named, n, lines
  <2> QED
    BY <1>4, <2>1
<1>6. Database'
  <2> HIDE DEF lines, added, named, n, k
  <2>1. added = AddedOf(lines, lost) /\ named = NamedOf(lines, passed)
    BY DEF added, named
  <2>2. notes' = notes /\ log' = log \cup added /\ lost \in Nat
    BY <1>3, <1>4
  <2> QED
    BY <1>2, <1>3, <1>5, <2>1, <2>2, LinesDatabase
<1>7. stable' \subseteq log'
  BY <1>2, <1>4
<1> DEFINE y == [c EXCEPT !.place = "close", !.r = n, !.effect = k]
<1>8. client' = y
  <2> HIDE DEF n, k
  <2> QED
    BY <1>2, <1>4 DEF Ends, ClientType
<1> HIDE DEF n, k
<1>9. /\ y.req = c.req /\ y.left = c.left /\ y.position = c.position /\ y.read = c.read
      /\ y.printed = c.printed /\ y.late = c.late /\ y.taken = c.taken /\ y.place = "close"
  BY <1>2 DEF ClientType
<1>10. y \in ClientType(y)
  BY <1>2, <1>3 DEF ClientType
<1> HIDE DEF y
<1>11. Counted(y) /\ Complete(y, interruptFlag, stable)
  BY <1>9 DEF Counted, Complete, Cmd
<1>12. Works(y, interruptFlag, stable)
  <2> HIDE DEF c
  <2> QED
    BY <1>2, <1>9, <1>10, <1>11, StayStep
<1> QED
  BY <1>2, <1>6, <1>7, <1>8, <1>12 DEF IInv

\* putLogEntries, called once for all the lines.
LEMMA LoadLogStep == IInv /\ LoadLog => IInv'
<1> SUFFICES ASSUME IInv, LoadLog PROVE IInv'
  OBVIOUS
<1> DEFINE c == client
           n == Len(c.req.lines)
<1>1. c.place = "loop" /\ Cmd = "log-read" /\ UNCHANGED <<notes, interruptFlag, stable>> /\ At("loop")
  BY DEF LoadLog, At
<1>2. /\ Works(c, interruptFlag, stable) /\ Database /\ c \in ClientType(c)
      /\ stable \subseteq log /\ interruptFlag \in BOOLEAN
  BY <1>1, IsWorking DEF IInv
<1>3. n \in Nat
  BY <1>2, CommandLine, LenProperties DEF ClientType, Request
<1>4. CASE Loaded(0, 0)
  <2>1. 0 \in 0..n /\ 0 \in 0..0
    BY <1>3
  <2> QED
    BY <1>1, <1>4, <2>1, LoadedStep
<1>5. ASSUME NEW f \in 1..n, Loaded(f - 1, f - 1) \/ Loaded(f, f - 1) PROVE IInv'
  <2>1. f \in 0..n /\ f - 1 \in 0..n /\ f - 1 \in 0..(f - 1) /\ f - 1 \in 0..f
    <3> HIDE DEF n
    <3> QED
      BY <1>3
  <2> QED
    BY <1>1, <1>5, <2>1, LoadedStep
<1>6. CASE client' = Ends(ERRCODE_LMDB_PUT) /\ UNCHANGED <<log, probe>>
  <2> DEFINE y == [c EXCEPT !.place = "close", !.r = ERRCODE_LMDB_PUT]
  <2>1. client' = y /\ ERRCODE_LMDB_PUT \in Nat \cup Codes
    BY <1>6 DEF Ends, Codes
  <2>2. y.req = c.req /\ y.place = "close" /\ ~(y.r >= 0)
    BY <1>2 DEF ClientType, ERRCODE_LMDB_PUT
  <2>3. Counted(y) /\ Complete(y, interruptFlag, stable)
    <3> HIDE DEF y
    <3> QED
      BY <1>1, <2>2 DEF Counted, Complete, Cmd
  <2>4. Works(y, interruptFlag, stable)
    BY <1>2, <2>1, <2>3, PlaceStep
  <2>5. Database'
    BY <1>1, <1>2, <1>6, SameDatabase DEF db
  <2> QED
    BY <1>1, <1>2, <1>6, <2>1, <2>4, <2>5 DEF IInv
<1> QED
  BY <1>4, <1>5, <1>6 DEF LoadLog

\* One turn of the loop that puts notifications.
LEMMA PutStep == IInv /\ NotificationPutNext => IInv'
<1> SUFFICES ASSUME IInv, NotificationPutNext PROVE IInv'
  OBVIOUS
<1> DEFINE c == client
           l == Tail(c.left)
<1>1. /\ c.place = "loop" /\ Cmd = "notification-put" /\ c.left # <<>>
      /\ log' = log /\ probe' = probe /\ interruptFlag' = interruptFlag /\ stable' = stable
  BY DEF NotificationPutNext, At
<1>2. /\ Works(c, interruptFlag, stable) /\ Database /\ c \in ClientType(c)
      /\ stable \subseteq log /\ interruptFlag \in BOOLEAN
  BY <1>1, IsWorking DEF IInv
<1>3. l \in Seq(Arg)
  BY <1>1, <1>2, HeadTailProperties DEF ClientType
<1>4. c.r \in Nat /\ c.r = c.effect
  BY <1>1, <1>2 DEF Works, Counted, Cmd, ClientType, Codes, ERRCODE_WRONG_PARAM,
     ERRCODE_LMDB_OPEN, ERRCODE_LMDB_PUT, ERRCODE_LMDB_TXN_BEGIN, MDB_NOTFOUND
<1>5. \/ client' = [c EXCEPT !.left = l] /\ notes' = notes
      \/ /\ client' = [c EXCEPT !.left = l, !.r = @ + 1, !.effect = @ + 1]
         /\ \E j : LET old == Store!SameKey(Arg1.sa, j)
                   IN  notes' = (notes \ old)
                                   \cup {[mac |-> Arg1.sa, junk |-> j, text |-> client.req.text]}
      \/ client' = Ends(ERRCODE_LMDB_PUT) /\ notes' = notes
  BY DEF NotificationPutNext
<1>6. Database'
  <2>1. CASE notes' = notes
    BY <1>1, <1>2, <2>1, SameDatabase DEF db
  <2>2. CASE \E j : notes' = (notes \ Store!SameKey(Arg1.sa, j))
                                \cup {[mac |-> Arg1.sa, junk |-> j, text |-> client.req.text]}
    <3>1. PICK j : notes' = (notes \ Store!SameKey(Arg1.sa, j))
                               \cup {[mac |-> Arg1.sa, junk |-> j, text |-> client.req.text]}
      BY <2>2
    <3> DEFINE old == notes \ Store!SameKey(Arg1.sa, j)
               x == [mac |-> Arg1.sa, junk |-> j, text |-> client.req.text]
    <3>2. old \in SUBSET notes /\ notes' = old \cup {x}
      BY <3>1
    <3> HIDE DEF old, x
    <3> QED
      BY <1>1, <1>2, <3>2, NotesChange
  <2> QED
    BY <1>5, <2>1, <2>2
<1>7. Works(client', interruptFlag, stable)
  <2>1. ASSUME NEW e \in {c.r, c.r + 1}, client' = [c EXCEPT !.left = l, !.r = e, !.effect = e]
        PROVE  Works(client', interruptFlag, stable)
    <3> DEFINE y == [c EXCEPT !.left = l, !.r = e, !.effect = e]
    <3>1. e \in Nat
      BY <1>4
    <3> HIDE DEF l
    <3>2. /\ y.req = c.req /\ y.left = l /\ y.position = c.position /\ y.read = c.read
          /\ y.printed = c.printed /\ y.late = c.late /\ y.taken = c.taken
          /\ y.r = e /\ y.effect = e /\ y.place = c.place
      BY <1>2 DEF ClientType
    <3>3. y \in ClientType(y)
      BY <1>2, <1>3, <3>1 DEF ClientType
    <3> HIDE DEF y
    <3>4. Counted(y) /\ Complete(y, interruptFlag, stable) /\ NamedOnly(y)
      <4>1. y.r >= 0 /\ y.r = y.effect
        BY <3>1, <3>2
      <4>2. Counted(y)
        BY <4>1 DEF Counted
      <4>3. Complete(y, interruptFlag, stable)
        BY <1>1, <3>2 DEF Complete, Cmd
      <4>4. NamedOnly(y)
        BY <1>2, <3>2 DEF Works, NamedOnly
      <4> QED
        BY <4>2, <4>3, <4>4
    <3>5. Works(y, interruptFlag, stable)
      <4> HIDE DEF c
      <4> QED
        BY <1>1, <1>2, <3>2, <3>3, <3>4, LoopStep DEF l
    <3> QED
      BY <2>1, <3>5 DEF y
  <2>2. CASE client' = [c EXCEPT !.left = l]
    <3>1. [c EXCEPT !.left = l] = [c EXCEPT !.left = l, !.r = c.r, !.effect = c.r]
      <4> HIDE DEF l
      <4> QED
        BY <1>2, <1>4 DEF ClientType
    <3> QED
      BY <2>1, <2>2, <3>1
  <2>3. CASE client' = [c EXCEPT !.left = l, !.r = @ + 1, !.effect = @ + 1]
    BY <1>4, <2>1, <2>3
  <2>4. CASE client' = Ends(ERRCODE_LMDB_PUT)
    <3> DEFINE y == [c EXCEPT !.place = "close", !.r = ERRCODE_LMDB_PUT]
    <3>1. client' = y /\ ERRCODE_LMDB_PUT \in Nat \cup Codes
      BY <2>4 DEF Ends, Codes
    <3>2. y.req = c.req /\ y.place = "close" /\ ~(y.r >= 0)
      BY <1>2 DEF ClientType, ERRCODE_LMDB_PUT
    <3>3. Counted(y) /\ Complete(y, interruptFlag, stable)
      <4> HIDE DEF y
      <4> QED
        BY <1>1, <3>2 DEF Counted, Complete, Cmd
    <3> QED
      BY <1>2, <3>1, <3>3, PlaceStep
  <2> QED
    BY <1>5, <2>2, <2>3, <2>4
<1> QED
  BY <1>1, <1>2, <1>6, <1>7 DEF IInv

\* One turn of the loop that removes notifications.
LEMMA RmNotificationStep == IInv /\ NotificationRmNext => IInv'
<1> SUFFICES ASSUME IInv, NotificationRmNext PROVE IInv'
  OBVIOUS
<1> DEFINE c == client
           l == Tail(c.left)
           gone == Store!RemovedNotes(Arg1.sa)
           n == Cardinality(gone)
<1>1. /\ c.place = "loop" /\ Cmd = "notification-rm" /\ c.left # <<>>
      /\ log' = log /\ probe' = probe /\ interruptFlag' = interruptFlag /\ stable' = stable
  BY DEF NotificationRmNext, At
<1>2. /\ Works(c, interruptFlag, stable) /\ Database /\ c \in ClientType(c)
      /\ stable \subseteq log /\ interruptFlag \in BOOLEAN
  BY <1>1, IsWorking DEF IInv
<1>3. l \in Seq(Arg)
  BY <1>1, <1>2, HeadTailProperties DEF ClientType
<1>4. \/ client' = NoClient /\ notes' = notes
      \/ client' = [c EXCEPT !.left = l] /\ notes' = notes \ gone
      \/ client' = [Ends(n) EXCEPT !.effect = n] /\ notes' = notes \ gone
  BY DEF NotificationRmNext
<1>5. Database'
  <2>1. notes' \in SUBSET notes
    BY <1>4
  <2> QED
    BY <1>1, <1>2, <2>1, NotesChange
<1>6. n \in Nat
  <2>1. gone \in SUBSET notes
    BY DEF Store!RemovedNotes
  <2>2. IsFiniteSet(gone)
    BY <1>2, <2>1, FS_Subset DEF Database
  <2> HIDE DEF gone
  <2> QED
    BY <2>2, FS_CardinalityType
<1>7. CASE client' = [c EXCEPT !.left = l]
  <2> DEFINE y == [c EXCEPT !.left = l]
  <2> HIDE DEF l
  <2>1. /\ y.req = c.req /\ y.left = l /\ y.position = c.position /\ y.read = c.read
        /\ y.printed = c.printed /\ y.late = c.late /\ y.taken = c.taken
        /\ y.r = c.r /\ y.effect = c.effect /\ y.place = c.place
    BY <1>2 DEF ClientType
  <2>2. y \in ClientType(y)
    BY <1>2, <1>3 DEF ClientType
  <2> HIDE DEF y
  <2>3. Counted(y) /\ Complete(y, interruptFlag, stable) /\ NamedOnly(y)
    BY <1>1, <1>2, <2>1 DEF Counted, Complete, Cmd, Works, NamedOnly
  <2>4. Works(y, interruptFlag, stable)
    <3> HIDE DEF c
    <3> QED
      BY <1>1, <1>2, <2>1, <2>2, <2>3, LoopStep DEF l
  <2> QED
    BY <1>1, <1>2, <1>5, <1>7, <2>4 DEF IInv, y
<1>8. CASE client' = [Ends(n) EXCEPT !.effect = n]
  <2> DEFINE y == [c EXCEPT !.place = "close", !.r = n, !.effect = n]
  <2> HIDE DEF n
  <2>1. client' = y
    BY <1>2, <1>8 DEF Ends, ClientType
  <2>2. /\ y.req = c.req /\ y.left = c.left /\ y.position = c.position /\ y.read = c.read
        /\ y.printed = c.printed /\ y.late = c.late /\ y.taken = c.taken
        /\ y.r = n /\ y.effect = n /\ y.place = "close"
    BY <1>2 DEF ClientType
  <2>3. y \in ClientType(y)
    BY <1>2, <1>6 DEF ClientType
  <2> HIDE DEF y
  <2>4. Counted(y) /\ Complete(y, interruptFlag, stable)
    BY <1>1, <1>6, <2>2 DEF Counted, Complete, Cmd
  <2>5. Works(y, interruptFlag, stable)
    <3> HIDE DEF c
    <3> QED
      BY <1>2, <2>2, <2>3, <2>4, StayStep
  <2> QED
    BY <1>1, <1>2, <1>5, <2>1, <2>5 DEF IInv
<1>9. CASE client' = NoClient
  BY <1>1, <1>2, <1>5, <1>9 DEF IInv
<1> QED
  BY <1>4, <1>7, <1>8, <1>9

\* A transaction that cannot begin: the loop ends or goes on, by the command.
LEMMA TxnFailsStep == IInv /\ TxnFails => IInv'
<1> SUFFICES ASSUME IInv, TxnFails PROVE IInv'
  OBVIOUS
<1> DEFINE c == client
           l == Tail(c.left)
           e == ERRCODE_LMDB_TXN_BEGIN
<1>1. /\ c.place = "loop" /\ c.left # <<>> /\ UNCHANGED <<db, interruptFlag, stable>>
  BY DEF TxnFails, At
<1>2. /\ Works(c, interruptFlag, stable) /\ Database /\ c \in ClientType(c)
      /\ stable \subseteq log /\ interruptFlag \in BOOLEAN
  BY <1>1, IsWorking DEF IInv
<1>3. l \in Seq(Arg) /\ e \in Nat \cup Codes /\ ~(e >= 0)
  BY <1>1, <1>2, HeadTailProperties DEF ClientType, Codes, ERRCODE_LMDB_TXN_BEGIN
<1>4. Works(client', interruptFlag, stable)
  <2>1. CASE Cmd \in {"probe", "probe-count", "macs-per-time"}
    <3> DEFINE y == [c EXCEPT !.r = e, !.left = l]
    <3>1. client' = y
      BY <2>1 DEF TxnFails
    <3> HIDE DEF l, e
    <3>2. /\ y.req = c.req /\ y.left = l /\ y.position = c.position /\ y.read = c.read
          /\ y.printed = c.printed /\ y.late = c.late /\ y.taken = c.taken
      BY <1>2 DEF ClientType
    <3>3. y \in ClientType(y)
      BY <1>2, <1>3 DEF ClientType
    <3> HIDE DEF y
    <3>4. Counted(y) /\ Complete(y, interruptFlag, stable) /\ NamedOnly(y)
      BY <1>2, <2>1, <3>2 DEF Counted, Complete, Cmd, Works, NamedOnly
    <3>5. Works(y, interruptFlag, stable)
      <4> HIDE DEF c
      <4> QED
        BY <1>1, <1>2, <3>2, <3>3, <3>4, LoopStep DEF l
    <3> QED
      BY <3>1, <3>5
  <2>2. CASE Cmd \notin {"probe", "probe-count", "macs-per-time"}
    <3> DEFINE y == [c EXCEPT !.place = "close", !.r = e]
    <3>1. client' = y
      BY <2>2 DEF TxnFails, Ends
    <3>2. /\ y.req = c.req /\ y.left = c.left /\ y.read = c.read /\ y.r = e
      <4> HIDE DEF e
      <4> QED
        BY <1>2 DEF ClientType
    <3> HIDE DEF y
    <3>3. Counted(y)
      <4> HIDE DEF e
      <4> QED
        BY <1>3, <3>2, <3>1 DEF Counted, y
    <3>4. Complete(y, interruptFlag, stable)
      <4>1. Done(y) = Done(c) /\ Complete(c, interruptFlag, stable)
        BY <1>2, <3>2 DEF Done, Works
      <4>2. \A i : AllRead(c, i, stable) => AllRead(y, i, stable)
        BY <3>2 DEF AllRead
      <4> QED
        BY <3>2, <4>1, <4>2 DEF Complete
    <3> QED
      BY <1>2, <1>3, <3>1, <3>3, <3>4, PlaceStep DEF y
  <2> QED
    BY <2>1, <2>2
<1>5. Database' /\ stable' = stable /\ log' = log /\ interruptFlag' = interruptFlag
  BY <1>1, <1>2, SameDatabase DEF db
<1> QED
  BY <1>2, <1>4, <1>5 DEF IInv

-----------------------------------------------------------------------------
(* The beginning and the end of a command. *)

\* A new process with its command line.
LEMMA StartStep == IInv /\ Start => IInv'
<1> SUFFICES ASSUME IInv, Start PROVE IInv'
  OBVIOUS
<1>1. PICK req \in Requests : client' = NewClient(req)
  BY DEF Start
<1>2. interruptFlag' = FALSE /\ stable' = log /\ UNCHANGED db /\ Database
  BY DEF Start, IInv
<1> DEFINE y == NewClient(req)
           m == req.mac
<1>3. req \in Requests /\ m \in Seq(Arg) /\ Len(m) \in Nat /\ req.offset \in Nat
      /\ req.count \in Nat \cup {-1}
  BY CommandLine
<1>4. /\ y.place = "start" /\ y.req = req /\ y.left = m /\ y.position = 0 /\ y.r = 0
      /\ y.read = <<>> /\ y.printed = <<>> /\ y.late = 0 /\ y.effect = 0 /\ y.taken = {}
      /\ y \in ClientType(y)
  BY <1>3 DEF NewClient, ClientType
<1> HIDE DEF y
<1>5. Done(y) = 0
  BY <1>3, <1>4 DEF Done
<1>6. IsSeq(y.read) /\ Len(y.read) = 0
  <2>1. <<>> \in Seq(Arg) /\ Len(<<>>) = 0
    OBVIOUS
  <2> QED
    BY <1>4, <2>1, SeqIsSeq
<1>7. LeftOver(y) /\ Counted(y) /\ NamedOnly(y) /\ Prompt(y)
  <2>1. \A i \in 1..Len(m) : m[i] = m[0 + i]
    BY <1>3
  <2>2. LeftOver(y)
    BY <1>4, <1>5, <2>1 DEF LeftOver
  <2>3. Counted(y) /\ NamedOnly(y)
    BY <1>4 DEF Counted, NamedOnly
  <2>4. Prompt(y)
    BY <1>4, <1>5 DEF Prompt
  <2> QED
    BY <2>2, <2>3, <2>4
<1>8. Slices(y, FALSE)
  <2> DEFINE o == req.offset
             u == req.count
  <2>1. o \in Nat /\ u \in Nat \cup {-1}
    BY <1>3
  <2> HIDE DEF o, u
  <2>2. 0 = IF u = -1 THEN 0 ELSE Least(0, o + u)
    BY <2>1 DEF Least
  <2>3. SubSeq(y.read, o + 1, 0) = <<>>
    BY <1>4, <2>1, SubSeqEmpty
  <2> QED
    BY <1>4, <1>6, <2>2, <2>3 DEF Slices, o, u
<1>9. Complete(y, FALSE, log)
  <2>1. \A i \in 1..Len(m) : ~(i <= 0)
    BY <1>3
  <2> QED
    BY <1>4, <1>5, <2>1 DEF Complete
<1>10. Works(y, FALSE, log)
  BY <1>4, <1>6, <1>7, <1>8, <1>9 DEF Works
<1>11. Database' /\ log' = log
  BY <1>2, SameDatabase DEF db
<1> QED
  BY <1>1, <1>2, <1>10, <1>11 DEF IInv, y

\* The steps outside the loops.
LEMMA OtherPlaces ==
    IInv /\ (PutRefused \/ OpenDb \/ OpenDbFails \/ CloseDb \/ Return) => IInv'
<1> SUFFICES ASSUME IInv, PutRefused \/ OpenDb \/ OpenDbFails \/ CloseDb \/ Return PROVE IInv'
  OBVIOUS
<1> DEFINE c == client
<1>1. /\ c.place \in {"start", "loop", "close", "end"} /\ UNCHANGED <<db, interruptFlag, stable>>
  BY DEF PutRefused, OpenDb, OpenDbFails, CloseDb, Return, At
<1>2. /\ Works(c, interruptFlag, stable) /\ Database /\ c \in ClientType(c)
      /\ stable \subseteq log /\ interruptFlag \in BOOLEAN
  BY <1>1, IsWorking DEF IInv
<1>3. Database' /\ stable' = stable /\ log' = log /\ interruptFlag' = interruptFlag
  BY <1>1, <1>2, SameDatabase DEF db
<1>4. /\ ERRCODE_WRONG_PARAM \in Nat \cup Codes /\ ~(ERRCODE_WRONG_PARAM >= 0)
      /\ ERRCODE_LMDB_OPEN \in Nat \cup Codes /\ ~(ERRCODE_LMDB_OPEN >= 0)
      /\ c.r \in Nat \cup Codes
  BY <1>2 DEF Codes, ERRCODE_WRONG_PARAM, ERRCODE_LMDB_OPEN, ClientType
<1>5. ASSUME NEW p \in {"start", "loop", "close", "end"}, NEW r \in Nat \cup Codes,
             client' = [c EXCEPT !.place = p, !.r = r],
             ~(r >= 0) \/ r = c.r,
             \/ r = ERRCODE_LMDB_OPEN \/ p = "loop" \/ Cmd = "notification-put"
             \/ (r = c.r /\ c.place = "close") \/ c.left = <<>>,
             p # "start", p = "loop" => r = c.r /\ c.place = "start"
      PROVE  IInv'
  <2> DEFINE y == [c EXCEPT !.place = p, !.r = r]
  <2>1. /\ y.req = c.req /\ y.left = c.left /\ y.read = c.read /\ y.r = r /\ y.place = p
        /\ y.effect = c.effect
    BY <1>2 DEF ClientType
  <2> HIDE DEF y
  <2>2. Counted(y)
    <3>1. Counted(c)
      BY <1>2 DEF Works
    <3> QED
      BY <1>5, <2>1, <3>1 DEF Counted
  <2>3. Complete(y, interruptFlag, stable)
    <3>1. Done(y) = Done(c) /\ Complete(c, interruptFlag, stable) /\ LeftOver(c)
      BY <1>2, <2>1 DEF Done, Works
    <3>2. \A i : AllRead(c, i, stable) => AllRead(y, i, stable)
      BY <2>1 DEF AllRead
    <3>3. c.left = <<>> => \A i \in 1..Len(c.req.mac) : i <= Done(c)
      <4> SUFFICES ASSUME c.left = <<>>, NEW i \in 1..Len(c.req.mac) PROVE i <= Done(c)
        OBVIOUS
      <4>1. Len(c.req.mac) \in Nat
        BY <1>2, CommandLine DEF ClientType
      <4>2. Len(c.left) = 0
        OBVIOUS
      <4>3. Done(c) = Len(c.req.mac)
        BY <4>1, <4>2 DEF Done
      <4> QED
        BY <4>1, <4>3
    <3> QED
      BY <1>5, <2>1, <3>1, <3>2, <3>3 DEF Complete, Cmd
  <2>4. Works(y, interruptFlag, stable)
    <3> HIDE DEF c
    <3> QED
      BY <1>2, <2>2, <2>3, PlaceStep DEF y
  <2> QED
    BY <1>2, <1>3, <1>5, <2>4 DEF IInv, y
<1>6. ASSUME NEW p, [c EXCEPT !.place = p] # [c EXCEPT !.place = p, !.r = c.r] PROVE FALSE
  BY <1>2, <1>6 DEF ClientType
<1>7. CASE PutRefused
  <2>1. client' = [c EXCEPT !.place = "end", !.r = ERRCODE_WRONG_PARAM] /\ Cmd = "notification-put"
    BY <1>7 DEF PutRefused, Refused
  <2> HIDE DEF c
  <2> QED
    BY <1>4, <1>5, <2>1
<1>8. CASE OpenDb
  <2>1. client' = [c EXCEPT !.place = "loop", !.r = c.r] /\ c.place = "start"
    BY <1>6, <1>8 DEF OpenDb, At
  <2> HIDE DEF c
  <2> QED
    BY <1>4, <1>5, <2>1
<1>9. CASE OpenDbFails
  <2>1. client' = [c EXCEPT !.place = "end", !.r = ERRCODE_LMDB_OPEN]
    BY <1>9 DEF OpenDbFails
  <2> HIDE DEF c
  <2> QED
    BY <1>4, <1>5, <2>1
<1>10. CASE CloseDb
  <2>1. /\ client' = [c EXCEPT !.place = "end", !.r = c.r]
        /\ c.place = "close" \/ c.left = <<>>
    BY <1>6, <1>10 DEF CloseDb, At
  <2> HIDE DEF c
  <2> QED
    BY <1>4, <1>5, <2>1
<1>11. CASE Return
  BY <1>2, <1>3, <1>11 DEF Return, IInv
<1> QED
  BY <1>7, <1>8, <1>9, <1>10, <1>11

\* Ctrl-C: the flag, or the end of the process.
LEMMA SigintStep == IInv /\ Sigint => IInv'
<1> SUFFICES ASSUME IInv, Sigint PROVE IInv'
  OBVIOUS
<1>1. interruptFlag' = TRUE /\ UNCHANGED <<db, stable>> /\ (client' = NoClient \/ client' = client)
  BY DEF Sigint
<1>2. Works(client, interruptFlag, stable) => Works(client, TRUE, stable)
  BY Weaker
<1>3. Database' /\ stable' = stable /\ log' = log /\ stable \subseteq log
  BY <1>1, SameDatabase DEF IInv, db
<1> QED
  BY <1>1, <1>2, <1>3 DEF IInv, Sigint

\* What other processes do: the records that stay all the time become fewer.
LEMMA OthersStep == IInv /\ Others => IInv'
<1> SUFFICES ASSUME IInv, Others PROVE IInv'
  OBVIOUS
<1>1. Store!Next /\ stable' = stable \cap log' /\ client' = client /\ interruptFlag' = interruptFlag
  BY DEF Others
<1>2. Database'
  BY <1>1, NextDatabase DEF IInv
<1>3. Works(client, interruptFlag, stable) => Works(client, interruptFlag, stable')
  <2> DEFINE t == stable'
             g == interruptFlag
  <2>1. t \in SUBSET stable /\ (g => g)
    BY <1>1
  <2> HIDE DEF t, g
  <2>2. Works(client, g, stable) => Works(client, g, t)
    BY <2>1, Weaker
  <2> QED
    BY <2>2 DEF t, g
<1> QED
  BY <1>1, <1>2, <1>3 DEF IInv

-----------------------------------------------------------------------------
(* The theorems. *)

\* Before the first command.
LEMMA InitIInv == Init => IInv
<1> SUFFICES ASSUME Init PROVE IInv
  OBVIOUS
<1>1. Database
  BY InitDatabase DEF Init
<1> QED
  BY <1>1 DEF Init, IInv

\* Every step keeps the invariant.
LEMMA NextIInv == IInv /\ [Next]_vars => IInv'
<1> SUFFICES ASSUME IInv, [Next]_vars PROVE IInv'
  OBVIOUS
<1>1. CASE ClientStep
  <2>1. \/ Start \/ (PutRefused \/ OpenDb \/ OpenDbFails \/ CloseDb \/ Return)
        \/ ReadNext \/ NotificationList
        \/ RmLogNext \/ LoadLog \/ NotificationPutNext \/ NotificationRmNext \/ TxnFails
    BY <1>1 DEF ClientStep
  <2> QED
    BY <2>1, StartStep, OtherPlaces, ReadNextStep, NotificationListStep, RmLogStep, LoadLogStep,
       PutStep, RmNotificationStep, TxnFailsStep
<1>2. CASE Sigint
  BY <1>2, SigintStep
<1>3. CASE Others
  BY <1>3, OthersStep
<1>4. CASE UNCHANGED vars
  <2>1. UNCHANGED <<db, stable, client, interruptFlag>>
    BY <1>4 DEF vars, db
  <2>2. Database' /\ log' = log
    BY <2>1, SameDatabase DEF IInv, db
  <2> QED
    BY <2>1, <2>2 DEF IInv
<1> QED
  BY <1>1, <1>2, <1>3, <1>4 DEF Next

\* The inductive invariant, for any command lines and MACs of any length: at every step of
\* the loops of wacsc.cpp 117-627 what is printed, counted, removed and returned is right for
\* the arguments that are done, and the others are untouched.
THEOREM InvariantHolds == Spec => []IInv
<1> QED
  BY InitIInv, NextIInv, PTL DEF Spec

\* A command is always in one of its places and has one of its results, and the records
\* that were there all the time are in the log.
THEOREM TypeCorrect == Spec => []TypeOK
<1>1. IInv => TypeOK
  BY DEF IInv, Works, ClientType, TypeOK, Codes
<1> QED
  BY <1>1, InvariantHolds, PTL

\* log and probe print a slice of what the scans of all the MACs found (wacsc.cpp 117-146):
\* for any offset and count, any number of MACs, and whatever changed between the scans.
THEOREM SlicesArePrinted == Spec => []PrintsSlice
<1>1. IInv => PrintsSlice
  <2> SUFFICES ASSUME IInv, Finished(Listing), ~interruptFlag
               PROVE  client.printed = SubSeq(client.read, client.req.offset + 1,
                          IF client.req.count = -1 THEN Len(client.read)
                          ELSE Least(client.req.offset + client.req.count, Len(client.read)))
    BY DEF PrintsSlice
  <2> DEFINE c == client
             o == c.req.offset
             u == c.req.count
             l == Len(c.read)
  <2>1. Works(c, interruptFlag, stable) /\ c \in ClientType(c) /\ c.req.cmd \in Listing
    BY IsWorking DEF Finished, At, Cmd
  <2>2. /\ c.position = IF u = -1 THEN l ELSE Least(l, o + u)
        /\ c.printed = SubSeq(c.read, o + 1, c.position)
    BY <2>1 DEF Works, Slices
  <2>3. l \in Nat /\ o \in Nat /\ u \in Nat \cup {-1}
    BY <2>1, CommandLine, ConcatIsSeq DEF Works, ClientType
  <2>4. u # -1 => Least(l, o + u) = Least(o + u, l)
    <3> HIDE DEF l, o, u
    <3> QED
      BY <2>3 DEF Least
  <2> QED
    BY <2>2, <2>4
<1> QED
  BY <1>1, InvariantHolds, PTL

\* lsLog gives up where a scan finds no row (wacsc.cpp 193-223), and misses no record by
\* that: what an argument asks for was read, if it was there all the time.
THEOREM AllMacsAreRead == Spec => []ReadsAllMacs
<1>1. IInv => ReadsAllMacs
  <2> SUFFICES ASSUME IInv, Finished({"log", "log-count"}), ~interruptFlag,
                      client.r # ERRCODE_LMDB_TXN_BEGIN,
                      NEW i \in 1..Len(client.req.mac), NEW pad \in PadByte,
                      QueryOf(client.req.mac[i], pad).start
                          <= Limit(QueryOf(client.req.mac[i], pad)),
                      IsFullMac(QueryOf(client.req.mac[i], pad)) => PadByte = {pad}
               PROVE  Selected(stable, QueryOf(client.req.mac[i], pad))
                          \subseteq {client.read[j] : j \in 1..Len(client.read)}
    BY DEF ReadsAllMacs
  <2> DEFINE c == client
             q == Asked(c.req, i, pad)
  <2>1. Works(c, interruptFlag, stable) /\ c.req.cmd \in {"log", "log-count"}
        /\ c.place = "end" /\ c.r \notin {ERRCODE_LMDB_OPEN, ERRCODE_LMDB_TXN_BEGIN}
    BY IsWorking DEF Finished, At, Cmd
  <2>2. AllRead(c, i, stable)
    BY <2>1 DEF Works, Complete
  <2>3. q = QueryOf(c.req.mac[i], pad)
    BY DEF Asked, QueryOf
  <2>4. Selected(stable, q) \subseteq Elements(c.read)
    BY <2>2, <2>3 DEF AllRead
  <2>5. Elements(c.read) = {c.read[j] : j \in 1..Len(c.read)}
    <3>1. IsSeq(c.read)
      BY <2>1 DEF Works
    <3>2. DOMAIN c.read = 1..Len(c.read)
      BY <3>1, LenProperties DEF IsSeq
    <3> QED
      BY <3>2 DEF Elements
  <2> QED
    BY <2>3, <2>4, <2>5
<1> QED
  BY <1>1, InvariantHolds, PTL

\* The number that is printed is that of the records removed or the notifications stored or
\* removed (wacsc.cpp 580-627), for any arguments, whole MACs or not, and whenever Ctrl-C is
\* pressed. For log-read it is not, see CountIsOfEffect.
THEOREM CountsAreOfEffects == Spec => []CountIsOfEffect
<1>1. IInv => CountIsOfEffect
  <2> SUFFICES ASSUME IInv, client.place = "end", client.r >= 0,
                      Cmd \in {"remove", "notification-put", "notification-rm"}
               PROVE  client.r = client.effect
    BY DEF CountIsOfEffect, Finished, At
  <2>1. Counted(client)
    BY IsWorking DEF Works
  <2> QED
    BY <2>1 DEF Counted, Cmd
<1> QED
  BY <1>1, InvariantHolds, PTL

\* A record that was removed is one that an argument asks for (wacsc.cpp 225-256).
THEOREM RemovalsAreNamed == Spec => []RemovalIsNamed
<1>1. IInv => RemovalIsNamed
  <2> SUFFICES ASSUME IInv, client # NoClient, NEW k \in client.taken
               PROVE  \E i \in 1..Len(client.req.mac) : \E pad \in PadByte :
                          k \in Selected({k}, QueryOf(client.req.mac[i], pad))
    BY DEF RemovalIsNamed
  <2>1. NamedOnly(client)
    BY DEF IInv, Works
  <2>2. \A i, pad : Asked(client.req, i, pad) = QueryOf(client.req.mac[i], pad)
    BY DEF Asked, QueryOf
  <2> QED
    BY <2>1, <2>2 DEF NamedOnly
<1> QED
  BY <1>1, InvariantHolds, PTL

\* After Ctrl-C each MAC that was left prints one more row at the most (wacsc.cpp 43-67, 145).
THEOREM InterruptsArePrompt == Spec => []InterruptIsPrompt
<1>1. IInv => InterruptIsPrompt
  BY DEF IInv, Works, Prompt, Done, InterruptIsPrompt, Cmd
<1> QED
  BY <1>1, InvariantHolds, PTL
=============================================================================
