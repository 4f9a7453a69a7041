-------------------------- MODULE HttpServerProofs --------------------------
(***************************************************************************)
(* Theorems about HttpServer, for any number of threads and any requests,  *)
(* MACs of any length and size_t of any width: what a page, a count and a  *)
(* histogram hold when a request is answered, whatever other processes did *)
(* to the database between its transactions.                               *)
(***************************************************************************)
EXTENDS HttpServer, LogKeysProofs

-----------------------------------------------------------------------------
(* The database: a scan ends, because there are only so many records. *)

Named == {m \in Mac : probe[m] # 0}

Database ==
    /\ log \subseteq LogKey /\ IsFiniteSet(log)
    /\ DOMAIN probe = Mac /\ IsFiniteSet(Named)
    /\ IsFiniteSet(notes)

\* The table of LogQuery has the MACs and the keys of this module.
LEMMA SameNames == Store!Mac = Mac /\ Store!LogKey = LogKey
BY DEF Mac, LogKey, Time, Store!Mac, Store!LogKey, Store!Time

\* An empty table is a database.
LEMMA InitDatabase == Store!Init => Database
<1> SUFFICES ASSUME Store!Init PROVE Database
  OBVIOUS
<1>1. log = {} /\ probe = [m \in Mac |-> 0] /\ notes = {}
  BY SameNames DEF Store!Init
<1>2. Named = {}
  BY <1>1 DEF Named
<1> QED
  BY <1>1, <1>2, FS_EmptySet DEF Database

\* Whatever a process does, it adds a record, a last probe or a notification at the most.
LEMMA NextDatabase == Database /\ Store!Next => Database'
<1> SUFFICES ASSUME Database, Store!Next PROVE Database'
  OBVIOUS
<1>1. CASE Store!PutLog
  <2>1. PICK k \in LogKey : log' \in {log \cup {k}, log} /\ probe' = [probe EXCEPT ![k.mac] = k.dt]
    BY <1>1, SameNames DEF Store!PutLog
  <2>2. notes' = notes
    BY <1>1 DEF Store!PutLog
  <2>3. DOMAIN probe' = Mac /\ \A m \in Mac : m # k.mac => probe'[m] = probe[m]
    BY <2>1 DEF Database
  <2>4. Named' \in SUBSET (Named \cup {k.mac})
    BY <2>3 DEF Named
  <2>5. IsFiniteSet(Named \cup {k.mac})
    BY FS_AddElement DEF Database
  <2>6. IsFiniteSet(Named')
    BY <2>4, <2>5, FS_Subset
  <2>7. IsFiniteSet(log \cup {k})
    BY FS_AddElement DEF Database
  <2>8. log' \subseteq LogKey /\ IsFiniteSet(log')
    BY <2>1, <2>7 DEF Database
  <2> QED
    BY <2>2, <2>3, <2>6, <2>8 DEF Database
<1>2. CASE Store!RmLog
  <2>1. log' \in SUBSET log /\ probe' = probe /\ notes' = notes
    BY <1>2 DEF Store!RmLog
  <2>2. IsFiniteSet(log')
    BY <2>1, FS_Subset DEF Database
  <2> QED
    BY <2>1, <2>2 DEF Database, Named
<1>3. CASE Store!PutNotification
  <2>1. PICK m, j, t : notes' = (notes \ Store!SameKey(m, j))
                                   \cup {[mac |-> m, junk |-> j, text |-> t]}
    BY <1>3 DEF Store!PutNotification
  <2>2. log' = log /\ probe' = probe
    BY <1>3 DEF Store!PutNotification
  <2>3. IsFiniteSet(notes \ Store!SameKey(m, j))
    BY FS_Subset DEF Database
  <2>4. IsFiniteSet(notes')
    BY <2>1, <2>3, FS_AddElement
  <2> QED
    BY <2>2, <2>4 DEF Database, Named
<1>4. CASE Store!ClearNotification \/ Store!RmNotification
  <2>1. notes' \in SUBSET notes /\ log' = log /\ probe' = probe
    BY <1>4 DEF Store!ClearNotification, Store!RmNotification
  <2>2. IsFiniteSet(notes')
    BY <2>1, FS_Subset DEF Database
  <2> QED
    BY <2>1, <2>2 DEF Database, Named
<1> QED
  BY <1>1, <1>2, <1>3, <1>4 DEF Store!Next

\* The rows of the last probes and the notifications.
LEMMA FiniteRows ==
    ASSUME Database PROVE IsFiniteSet(Store!ProbeRows \cup Store!NoteRows)
<1>1. IsFiniteSet(Store!ProbeRows)
  <2> DEFINE f == [m \in Named |-> [tag |-> Store!TagP, mac |-> m, dt |-> probe[m]]]
  <2>1. Store!ProbeRows = {f[m] : m \in Named}
    BY SameNames DEF Store!ProbeRows, Named
  <2>2. f \in Surjection(Named, {f[m] : m \in Named})
    BY DEF Surjection
  <2>3. IsFiniteSet(Named)
    BY DEF Database
  <2> HIDE DEF f
  <2> QED
    BY <2>1, <2>2, <2>3, FS_Surjection
<1>2. IsFiniteSet(Store!NoteRows)
  <2> DEFINE f == [n \in notes |-> [tag |-> Store!TagT, mac |-> n.mac, junk |-> n.junk,
                                    dt |-> TextTime[n.text]]]
  <2>1. Store!NoteRows = {f[n] : n \in notes}
    BY DEF Store!NoteRows
  <2>2. f \in Surjection(notes, {f[n] : n \in notes})
    BY DEF Surjection
  <2>3. IsFiniteSet(notes)
    BY DEF Database
  <2> HIDE DEF f
  <2> QED
    BY <2>1, <2>2, <2>3, FS_Surjection
<1> QED
  BY <1>1, <1>2, FS_Union

\* What the scan of a request gives is a sequence, of records for those that read the log.
LEMMA RowsAreSeq ==
    ASSUME Database, NEW r \in Request, NEW q
    PROVE  /\ IsSeq(RowsOf(r, q))
           /\ r.path = "/macs-per-time" => RowsOf(r, q) \in Seq(LogKey)
<1>1. CASE r.path \in {"/last", "/last-count"}
  <2> DEFINE rows == Store!LastProbes(q)
  <2>1. rows \in SUBSET (Store!ProbeRows \cup Store!NoteRows)
    BY DEF Store!LastProbes, Store!WithTime, Store!Reached
  <2>2. IsFiniteSet(rows)
    BY <2>1, FiniteRows, FS_Subset
  <2> HIDE DEF rows
  <2>3. \A key : IsSeq(InOrder(rows, key))
    BY <2>2, InOrderIsSeq
  <2> QED
    BY <1>1, <2>3 DEF RowsOf, ProbeRows, rows
<1>2. CASE r.path \notin {"/last", "/last-count"}
  <2> DEFINE rows == ReadHits(log, q)
             key  == [k \in log |-> KeyBytes(k)]
  <2>1. rows \in SUBSET log /\ rows \in SUBSET LogKey
    BY DEF ReadHits, Hits, Visited, Database
  <2>2. IsFiniteSet(rows)
    BY <2>1, FS_Subset DEF Database
  <2>3. \A k \in rows : key[k] = KeyBytes(k)
    BY <2>1
  <2> HIDE DEF rows, key
  <2>4. Ordered(rows, key)
    BY <2>1, <2>3, LogIsOrdered
  <2>5. InOrder(rows, key) \in Seq(rows)
    BY <2>2, <2>4, InOrderIsComplete
  <2>6. InOrder(rows, key) \in Seq(LogKey) /\ IsSeq(InOrder(rows, key))
    BY <2>1, <2>5, SeqMonotonic, SeqIsSeq
  <2> QED
    BY <1>2, <2>6 DEF RowsOf, LogRows, rows, key
<1> QED
  BY <1>1, <1>2

-----------------------------------------------------------------------------
(* The inductive invariant: a request that is being answered has written what it has read. *)

ReqType(x) ==
    [place : {"open", "scan", "answered"}, req : Request, left : Seq(MacPrefix),
     position : 0..(SizeMax - 1), offset : 0..(SizeMax - 1), count : 0..(SizeMax - 1),
     page : {x.page}, sum : {x.sum}, sums : {x.sums}, slots : {x.slots}, read : {x.read},
     answer : {x.answer}]

\* A page ends at the position, which is where the rows or the page ends.
Pages(x) ==
    x.req.path \in {"/log", "/last"} /\ x.offset + x.count < SizeMax =>
        /\ x.position = Least(Len(x.read), x.offset + x.count)
        /\ x.page = SubSeq(x.read, x.offset + 1, x.position)

Counts(x) ==
    x.req.path \in {"/log-count", "/last-count"} =>
        /\ x.sum = Len(x.read) /\ x.sums \in Seq(Nat)
        /\ x.sums = <<>> <=> x.sum = 0
        /\ x.sums # <<>> => x.sums[Len(x.sums)] = x.sum
        /\ \A i \in 1..(Len(x.sums) - 1) : x.sums[i] <= x.sums[i + 1]

\* The records whose time is that of a slot.
InSlot(r, i) == {k \in LogKey : /\ r.start + i * StepOf(r) <= k.dt
                                /\ k.dt < r.start + (i + 1) * StepOf(r)
                                /\ k.dt <= r.finish}
Places(s, G) == {n \in DOMAIN s : s[n] \in G}

Slots(x) ==
    x.req.path = "/macs-per-time" =>
        /\ x.read \in Seq(LogKey)
        /\ DOMAIN x.slots = 0..MaxTime
        /\ \A i \in 0..MaxTime : x.slots[i] = Cardinality(Places(x.read, InSlot(x.req, i)))

Working(t, x) ==
    /\ x \in ReqType(x) /\ x.req \in Requests[t] /\ IsSeq(x.read)
    /\ x.place = "scan" => x.req.path # "file"
    /\ Pages(x) /\ Counts(x) /\ Slots(x)

IInv ==
    /\ Database
    /\ server \in {"down", "running", "sleeping", "stopping", "unstopped", "joining", "exiting"}
    /\ DOMAIN thread = Thread
    /\ \A t \in Thread : thread[t] = NoRequest \/ Working(t, thread[t])

-----------------------------------------------------------------------------
(* Pages. *)

\* One scan of a page (onReqLog): it skips up to the offset, and stops at the end of the
\* page.
LEMMA PageStep ==
    ASSUME NEW t, NEW x, Working(t, x), x.left # <<>>, NEW rows, IsSeq(rows),
           x.place = "scan", x.req.path \in {"/log", "/last"}
    PROVE  Working(t, [OnReqLog(x, rows) EXCEPT !.left = Tail(@), !.read = @ \o rows])
<1> DEFINE p == x.position
           o == x.offset
           e == PageEnd(x)
           n == Len(rows)
           s == Skipped(x, rows)
           w == Written(x, rows)
           page == x.page \o SubSeq(rows, s + 1, s + w)
           read == x.read \o rows
           y == [OnReqLog(x, rows) EXCEPT !.left = Tail(@), !.read = @ \o rows]
<1>1. /\ x \in ReqType(x) /\ x.req \in Requests[t] /\ IsSeq(x.read) /\ Pages(x)
  BY DEF Working
<1>2. /\ SizeMax \in Nat \ {0} /\ p \in 0..(SizeMax - 1) /\ o \in 0..(SizeMax - 1)
      /\ x.count \in 0..(SizeMax - 1) /\ x.req \in Request /\ x.left \in Seq(MacPrefix)
  BY <1>1, HttpConstants DEF ReqType
<1>3. e \in 0..(SizeMax - 1)
  BY <1>2 DEF PageEnd, SizeT
<1>4. n \in Nat
  BY SeqIsSeq DEF IsSeq
\* How far the position goes: behind the rows that are passed over and those written.
<1>5. /\ s \in 0..n /\ w \in 0..(n - s)
      /\ p + s + w <= p \/ p + s + w <= o \/ p + s + w <= e
      /\ \A l \in Nat : o <= e /\ p = Least(l, e) =>
            /\ p + s + w = Least(l + n, e)
            /\ w > 0 => l <= p /\ o <= p + s
            /\ s > 0 => p + s <= o
  <2>1. s = Least(n, IF p < o THEN o - p ELSE 0)
    BY DEF Skipped
  <2>2. w = Least(n - s, IF p + s < e THEN e - (p + s) ELSE 0)
    BY DEF Written
  <2>3. p \in Nat /\ o \in Nat /\ e \in Nat
    BY <1>2, <1>3
  <2> HIDE DEF p, o, e, n, s, w
  <2>4. s \in 0..n
    BY <1>4, <2>1, <2>3 DEF Least
  <2>5. w \in 0..(n - s)
    BY <1>4, <2>2, <2>3, <2>4 DEF Least
  <2>6. p + s + w <= p \/ p + s + w <= o \/ p + s + w <= e
    BY <1>4, <2>1, <2>2, <2>3, <2>4 DEF Least
  <2>7. ASSUME NEW l \in Nat, o <= e, p = Least(l, e)
        PROVE  /\ p + s + w = Least(l + n, e)
               /\ w > 0 => l <= p /\ o <= p + s
               /\ s > 0 => p + s <= o
    BY <1>4, <2>1, <2>2, <2>3, <2>4, <2>5, <2>7 DEF Least
  <2> QED
    BY <2>4, <2>5, <2>6, <2>7
<1>6. p + s + w \in 0..(SizeMax - 1)
  <2> HIDE DEF p, o, e, n, s, w
  <2> QED
    BY <1>2, <1>3, <1>4, <1>5
<1>7. Tail(x.left) \in Seq(MacPrefix)
  BY <1>2, HeadTailProperties
<1>8. y = [x EXCEPT !.position = p + s + w, !.page = page, !.left = Tail(x.left), !.read = read]
  BY <1>1 DEF OnReqLog, ReqType
<1> HIDE DEF y
<1>9. /\ y.position = p + s + w /\ y.page = page /\ y.read = read /\ y.offset = o
      /\ y.count = x.count /\ y.req = x.req /\ y.place = x.place
      /\ y \in ReqType(y)
  <2> HIDE DEF page, read, s, w
  <2>1. p + s + w \in 0..(SizeMax - 1)
    BY <1>6
  <2> DEFINE q == p + s + w
             l == Tail(x.left)
  <2>2. q \in 0..(SizeMax - 1) /\ l \in Seq(MacPrefix)
    BY <2>1, <1>7
  <2>3. y = [x EXCEPT !.position = q, !.page = page, !.left = l, !.read = read]
    BY <1>8
  <2> HIDE DEF q, l
  <2> QED
    BY <1>1, <2>2, <2>3 DEF ReqType, q
<1>10. IsSeq(y.read) /\ Len(y.read) = Len(x.read) + n /\ Len(x.read) \in Nat
  BY <1>1, <1>9, ConcatIsSeq
<1>11. Pages(y)
  <2> SUFFICES ASSUME o + x.count < SizeMax
               PROVE  /\ y.position = Least(Len(y.read), o + x.count)
                      /\ y.page = SubSeq(y.read, o + 1, y.position)
    BY <1>9 DEF Pages
  <2>1. e = o + x.count
    <3> DEFINE v == o + x.count
    <3>1. v \in Nat /\ v < SizeMax /\ SizeMax \in Nat
      BY <1>2
    <3>2. e = v % SizeMax
      BY DEF PageEnd, SizeT
    <3> HIDE DEF v, e
    <3> QED
      BY <3>1, <3>2 DEF v
  <2>2. p = Least(Len(x.read), e) /\ x.page = SubSeq(x.read, o + 1, p)
    BY <1>1, <2>1 DEF Pages
  <2>3. o <= e
    BY <1>2, <2>1
  <2> DEFINE l == Len(x.read)
  <2>4. /\ p + s + w = Least(l + n, e)
        /\ w > 0 => l <= p /\ o <= p + s
        /\ s > 0 => p + s <= o
    BY <1>5, <1>10, <2>2, <2>3
  <2>5. p <= l /\ s + w <= n /\ s \in Nat /\ w \in Nat /\ p \in Nat /\ o \in Nat
    <3>1. p <= l
      BY <1>2, <1>3, <1>10, <2>2 DEF Least
    <3> HIDE DEF s, w, p, n, l, o, e
    <3> QED
      BY <3>1, <1>2, <1>4, <1>5
  <2>6. page = SubSeq(read, o + 1, p + s + w)
    <3> DEFINE a == x.read
    <3>1. /\ IsSeq(a) /\ IsSeq(rows) /\ p <= Len(a) /\ s + w <= Len(rows)
          /\ w > 0 => Len(a) <= p /\ o <= p + s
          /\ s > 0 => p + s <= o
      BY <1>1, <2>4, <2>5
    <3> HIDE DEF a, p, o, s, w
    <3>2. SubSeq(a, o + 1, p) \o SubSeq(rows, s + 1, s + w) = SubSeq(a \o rows, o + 1, p + s + w)
      BY <2>5, <3>1, SliceGrows
    <3> QED
      BY <2>2, <3>2 DEF a
  <2> QED
    BY <1>9, <1>10, <2>1, <2>4, <2>6
<1>12. Counts(y) /\ Slots(y)
  BY <1>9 DEF Counts, Slots
<1>13. Working(t, y)
  BY <1>1, <1>9, <1>10, <1>11, <1>12 DEF Working
<1> QED
  BY <1>13 DEF y

-----------------------------------------------------------------------------
(* Counts. *)

\* One scan of a count (onReqLogCount): the sum goes on from the scans before.
LEMMA CountStep ==
    ASSUME NEW t, NEW x, Working(t, x), x.left # <<>>, NEW rows, IsSeq(rows),
           x.place = "scan", x.req.path \in {"/log-count", "/last-count"}
    PROVE  Working(t, [OnReqLogCount(x, rows) EXCEPT !.left = Tail(@), !.read = @ \o rows])
<1> DEFINE n    == Len(rows)
           sum  == x.sum + n
           sums == IF sum > 0 THEN Append(x.sums, sum) ELSE x.sums
           read == x.read \o rows
           y == [OnReqLogCount(x, rows) EXCEPT !.left = Tail(@), !.read = @ \o rows]
<1>1. /\ x \in ReqType(x) /\ x.req \in Requests[t] /\ IsSeq(x.read)
      /\ x.req \in Request /\ x.left \in Seq(MacPrefix)
  BY DEF Working, ReqType
<1>2. /\ x.sum = Len(x.read) /\ x.sums \in Seq(Nat)
      /\ x.sums = <<>> <=> x.sum = 0
      /\ x.sums # <<>> => x.sums[Len(x.sums)] = x.sum
      /\ \A i \in 1..(Len(x.sums) - 1) : x.sums[i] <= x.sums[i + 1]
  BY DEF Working, Counts
<1>3. Tail(x.left) \in Seq(MacPrefix)
  BY <1>1, HeadTailProperties
<1>4. y = [x EXCEPT !.sum = sum, !.sums = sums, !.left = Tail(x.left), !.read = read]
  BY <1>1 DEF OnReqLogCount, ReqType
<1> HIDE DEF y
<1>5. /\ y.sum = sum /\ y.sums = sums /\ y.read = read /\ y.req = x.req /\ y.place = x.place
      /\ y \in ReqType(y)
  <2> DEFINE l == Tail(x.left)
  <2>1. l \in Seq(MacPrefix)
    BY <1>3
  <2> HIDE DEF sum, sums, read, l
  <2>2. y = [x EXCEPT !.sum = sum, !.sums = sums, !.left = l, !.read = read]
    BY <1>4 DEF l
  <2> QED
    BY <1>1, <2>1, <2>2 DEF ReqType
<1>6. /\ IsSeq(read) /\ Len(read) = Len(x.read) + n /\ Len(x.read) \in Nat /\ n \in Nat
  BY <1>1, ConcatIsSeq
<1>7. sum = Len(read) /\ sum \in Nat
  BY <1>2, <1>6
<1>8. /\ sums \in Seq(Nat)
      /\ sums = <<>> <=> sum = 0
      /\ sums # <<>> => sums[Len(sums)] = sum
      /\ \A i \in 1..(Len(sums) - 1) : sums[i] <= sums[i + 1]
  <2> DEFINE b == x.sums
             m == Len(b)
             c == Append(b, sum)
  <2>1. b \in Seq(Nat) /\ m \in Nat
    BY <1>2, LenProperties
  <2>2. CASE sum = 0
    <3>1. x.sum = 0 /\ sums = x.sums
      BY <1>2, <1>6, <2>2
    <3> QED
      BY <3>1, <1>2, <2>2
  <2>3. CASE sum > 0
    <3>1. sums = c
      BY <2>3
    <3>2. x.sum <= sum
      BY <1>2, <1>6
    <3>3. /\ b # <<>> => b[m] <= sum
          /\ \A i \in 1..(m - 1) : b[i] <= b[i + 1]
      BY <1>2, <3>2
    <3>4. b = <<>> <=> m = 0
      BY <2>1, EmptySeq
    <3> HIDE DEF sum, b
    <3>5. /\ c \in Seq(Nat) /\ c # <<>> /\ Len(c) = m + 1
          /\ \A i \in 1..m : c[i] = b[i]
          /\ c[m + 1] = sum
      BY <1>7, <2>1, AppendProperties
    <3> HIDE DEF m, c
    <3>6. ASSUME NEW i \in 1..(Len(c) - 1) PROVE c[i] <= c[i + 1]
      <4>1. i \in 1..m /\ i \in Int
        BY <3>5, <2>1
      <4>2. CASE i = m
        <5>1. c[i] = b[m] /\ c[i + 1] = sum /\ b # <<>>
          BY <4>1, <4>2, <3>4, <3>5, <2>1
        <5> QED
          BY <5>1, <3>3
      <4>3. CASE i # m
        <5>1. i \in 1..(m - 1) /\ i + 1 \in 1..m
          BY <4>1, <4>3, <2>1
        <5>2. c[i] = b[i] /\ c[i + 1] = b[i + 1]
          BY <4>1, <5>1, <3>5
        <5> QED
          BY <5>1, <5>2, <3>3
      <4> QED
        BY <4>2, <4>3
    <3>7. c[Len(c)] = sum
      BY <3>5
    <3> HIDE DEF sums
    <3> QED
      BY <1>7, <2>3, <3>1, <3>5, <3>6, <3>7
  <2> QED
    BY <1>7, <2>2, <2>3
<1>9. Counts(y)
  BY <1>5, <1>7, <1>8 DEF Counts
<1>10. Pages(y) /\ Slots(y)
  BY <1>5 DEF Pages, Slots
<1>11. Working(t, y)
  BY <1>1, <1>5, <1>6, <1>9, <1>10 DEF Working
<1> QED
  BY <1>11 DEF y

-----------------------------------------------------------------------------
(* The histogram. *)

\* The quotient of a time and the length of a step.
LEMMA Quotient ==
    ASSUME NEW d \in Nat, NEW st \in Nat, st > 0, NEW i \in Nat
    PROVE  d \div st = i <=> i * st <= d /\ d < (i + 1) * st
<1> DEFINE q == d \div st
           m == d % st
<1>1. q \in Int /\ m \in 0..(st - 1) /\ d = st * q + m
  OBVIOUS
<1> HIDE DEF q, m
<1>2. ASSUME NEW a \in Int, NEW b \in Int, a <= b PROVE a * st <= b * st
  BY <1>2
<1>3. q * st <= d /\ d < (q + 1) * st
  BY <1>1
<1>4. ASSUME i * st <= d, d < (i + 1) * st PROVE q = i
  <2>1. ~(q + 1 <= i)
    <3>1. ASSUME q + 1 <= i PROVE FALSE
      <4>1. (q + 1) * st <= i * st
        BY <1>1, <1>2, <3>1
      <4> QED
        BY <1>1, <1>3, <1>4, <4>1
    <3> QED
      BY <3>1
  <2>2. ~(i + 1 <= q)
    <3>1. ASSUME i + 1 <= q PROVE FALSE
      <4>1. (i + 1) * st <= q * st
        BY <1>1, <1>2, <3>1
      <4> QED
        BY <1>1, <1>3, <1>4, <4>1
    <3> QED
      BY <3>1
  <2> QED
    BY <1>1, <2>1, <2>2
<1> QED
  BY <1>1, <1>3, <1>4 DEF q

\* A row is put where the definition of the slot says.
LEMMA SlotTimes ==
    ASSUME NEW r \in Request, NEW k \in LogKey, NEW i \in Nat
    PROVE  k \in InSlot(r, i) <=> /\ r.start <= k.dt /\ k.dt <= r.finish
                                  /\ Slot(r, k.dt) = i
<1> DEFINE a == r.start
           t == k.dt
           f == r.finish
           st == StepOf(r)
           u == i * st
           v == (i + 1) * st
<1>1. a \in Nat /\ f \in Nat /\ t \in Nat
  BY KeyConstants DEF Request, LogKey, Time
<1>2. st \in Nat /\ st > 0
  BY DEF StepOf, Request
<1>3. u \in Nat /\ v \in Nat
  <2> HIDE DEF st
  <2> QED
    BY <1>2
<1>4. k \in InSlot(r, i) <=> a + u <= t /\ t < a + v /\ t <= f
  BY DEF InSlot
<1>5. Slot(r, k.dt) = (t - a) \div st
  BY DEF Slot
<1>6. ASSUME a <= t PROVE (t - a) \div st = i <=> u <= t - a /\ t - a < v
  <2> DEFINE d == t - a
  <2>1. d \in Nat
    BY <1>1, <1>6
  <2> HIDE DEF d, st
  <2>2. d \div st = i <=> i * st <= d /\ d < (i + 1) * st
    BY <1>2, <2>1, Quotient
  <2> QED
    BY <2>2 DEF d
<1> HIDE DEF a, t, f, st, u, v
<1> QED
  BY <1>1, <1>3, <1>4, <1>5, <1>6 DEF a, t, f

\* The places of a sequence that hold members of a set can be counted.
LEMMA FinitePlaces ==
    ASSUME NEW s, IsSeq(s), NEW G
    PROVE  IsFiniteSet(Places(s, G)) /\ Cardinality(Places(s, G)) \in Nat
<1>1. DOMAIN s = 1..Len(s) /\ Len(s) \in Nat
  BY LenProperties DEF IsSeq
<1>2. IsFiniteSet(1..Len(s))
  BY <1>1, FS_Interval
<1>3. Places(s, G) \in SUBSET (1..Len(s))
  BY <1>1 DEF Places
<1> QED
  BY <1>2, <1>3, FS_Subset, FS_CardinalityType

\* The rows of a scan are counted behind those that were there.
LEMMA PlacesOfBoth ==
    ASSUME NEW s, IsSeq(s), NEW rows, IsSeq(rows), NEW G
    PROVE  Cardinality(Places(s \o rows, G)) =
               Cardinality(Places(s, G)) + Cardinality(Places(rows, G))
<1> DEFINE l == Len(s)
           n == Len(rows)
           P == Places(s, G)
           R == Places(rows, G)
           f == [i \in R |-> l + i]
           Q == {f[i] : i \in R}
<1>1. /\ l \in Nat /\ n \in Nat /\ IsSeq(s \o rows) /\ Len(s \o rows) = l + n
      /\ \A i \in 1..(l + n) : (s \o rows)[i] = IF i <= l THEN s[i] ELSE rows[i - l]
  BY ConcatIsSeq
<1>2. DOMAIN s = 1..l /\ DOMAIN rows = 1..n /\ DOMAIN (s \o rows) = 1..(l + n)
  BY <1>1, LenProperties DEF IsSeq
<1> HIDE DEF l, n
<1>3. R \in SUBSET (1..n) /\ P \in SUBSET (1..l)
  BY <1>2 DEF Places
<1>4. \A j : j \in Q <=> \E i \in R : j = l + i
  OBVIOUS
<1>5. Places(s \o rows, G) = P \cup Q
  <2> DEFINE c == s \o rows
  <2>1. \A j : j \in Places(c, G) <=> j \in 1..(l + n) /\ c[j] \in G
    BY <1>2 DEF Places
  <2>2. \A j : j \in P <=> j \in 1..l /\ s[j] \in G
    BY <1>2 DEF Places
  <2>3. \A i : i \in R <=> i \in 1..n /\ rows[i] \in G
    BY <1>2 DEF Places
  <2>4. \A j \in 1..(l + n) : c[j] = IF j <= l THEN s[j] ELSE rows[j - l]
    BY <1>1
  <2> HIDE DEF c, P, R, Q
  <2>5. ASSUME NEW j \in Places(c, G) PROVE j \in P \cup Q
    <3>1. j \in 1..(l + n) /\ c[j] \in G
      BY <2>1
    <3>2. CASE j <= l
      <4>1. j \in 1..l
        BY <1>1, <3>1, <3>2
      <4> QED
        BY <2>2, <2>4, <3>1, <3>2, <4>1
    <3>3. CASE ~(j <= l)
      <4>1. j - l \in 1..n /\ j = l + (j - l)
        BY <1>1, <3>1, <3>3
      <4>2. j - l \in R
        BY <2>3, <2>4, <3>1, <3>3, <4>1
      <4> QED
        BY <1>4, <4>1, <4>2
    <3> QED
      BY <3>2, <3>3
  <2>6. ASSUME NEW j \in P PROVE j \in Places(c, G)
    <3>1. j \in 1..l /\ s[j] \in G
      BY <2>2
    <3>2. j \in 1..(l + n) /\ j <= l
      BY <1>1, <3>1
    <3> QED
      BY <2>1, <2>4, <3>1, <3>2
  <2>7. ASSUME NEW j \in Q PROVE j \in Places(c, G)
    <3>1. PICK i \in R : j = l + i
      BY <1>4
    <3>2. i \in 1..n /\ rows[i] \in G
      BY <2>3
    <3>3. j \in 1..(l + n) /\ ~(j <= l) /\ j - l = i
      BY <1>1, <3>1, <3>2
    <3> QED
      BY <2>1, <2>4, <3>2, <3>3
  <2> QED
    BY <2>5, <2>6, <2>7 DEF c
<1>6. IsFiniteSet(P) /\ IsFiniteSet(R) /\ Cardinality(P) \in Nat /\ Cardinality(R) \in Nat
  BY FinitePlaces
<1>7. f \in Bijection(R, Q)
  <2>1. \A i, j \in R : f[i] = f[j] => i = j
    BY <1>1, <1>3
  <2>2. f \in [R -> Q]
    OBVIOUS
  <2>3. \A j \in Q : \E i \in R : f[i] = j
    OBVIOUS
  <2> HIDE DEF f, Q
  <2> QED
    BY <2>1, <2>2, <2>3 DEF Bijection, Injection, Surjection, IsInjective
<1>8. P \cap Q = {}
  BY <1>1, <1>3, <1>4
<1> HIDE DEF P, R, f, Q
<1>9. IsFiniteSet(Q) /\ Cardinality(Q) = Cardinality(R)
  BY <1>6, <1>7, FS_Bijection DEF ExistsBijection
<1>10. Cardinality(P \cup Q) = Cardinality(P) + Cardinality(Q) - Cardinality(P \cap Q)
  BY <1>6, <1>9, FS_Union
<1>11. Cardinality(P \cap Q) = 0
  BY <1>8, FS_EmptySet
<1> QED
  BY <1>5, <1>6, <1>9, <1>10, <1>11 DEF P, R

\* One scan of the histogram (put): each record goes into the slot of its time.
LEMMA HistogramStep ==
    ASSUME NEW t, NEW x, Working(t, x), x.left # <<>>, NEW rows, rows \in Seq(LogKey),
           x.place = "scan", x.req.path = "/macs-per-time"
    PROVE  Working(t, [OnLogHistogram(x, rows) EXCEPT !.left = Tail(@), !.read = @ \o rows])
<1> DEFINE r == x.req
           put(i) == {n \in DOMAIN rows : /\ r.start <= rows[n].dt /\ rows[n].dt <= r.finish
                                          /\ Slot(r, rows[n].dt) = i}
           slots == [i \in DOMAIN x.slots |-> x.slots[i] + Cardinality(put(i))]
           read  == x.read \o rows
           y == [OnLogHistogram(x, rows) EXCEPT !.left = Tail(@), !.read = @ \o rows]
<1>1. /\ x \in ReqType(x) /\ x.req \in Requests[t] /\ IsSeq(x.read)
      /\ x.req \in Request /\ x.left \in Seq(MacPrefix)
  BY DEF Working, ReqType
<1>2. /\ x.read \in Seq(LogKey) /\ DOMAIN x.slots = 0..MaxTime
      /\ \A i \in 0..MaxTime : x.slots[i] = Cardinality(Places(x.read, InSlot(r, i)))
  BY DEF Working, Slots
<1>3. Tail(x.left) \in Seq(MacPrefix)
  BY <1>1, HeadTailProperties
<1>4. y = [x EXCEPT !.slots = slots, !.left = Tail(x.left), !.read = read]
  <2>1. OnLogHistogram(x, rows) = [x EXCEPT !.slots = slots]
    BY DEF OnLogHistogram
  <2> HIDE DEF slots
  <2> QED
    BY <1>1, <2>1 DEF ReqType
<1> HIDE DEF y
<1>5. /\ y.slots = slots /\ y.read = read /\ y.req = r /\ y.place = x.place
      /\ y \in ReqType(y)
  <2> DEFINE l == Tail(x.left)
  <2>1. l \in Seq(MacPrefix)
    BY <1>3
  <2> HIDE DEF slots, read, l
  <2>2. y = [x EXCEPT !.slots = slots, !.left = l, !.read = read]
    BY <1>4 DEF l
  <2> QED
    BY <1>1, <2>1, <2>2 DEF ReqType
<1>6. IsSeq(rows) /\ IsSeq(read) /\ read \in Seq(LogKey)
  BY <1>1, <1>2, SeqIsSeq, ConcatIsSeq, ConcatProperties
<1>7. \A n \in DOMAIN rows : rows[n] \in LogKey
  BY LenProperties
<1>8. ASSUME NEW i \in 0..MaxTime PROVE slots[i] = Cardinality(Places(read, InSlot(r, i)))
  <2> DEFINE G == InSlot(r, i)
  <2>1. put(i) = Places(rows, G)
    <3>1. \A n \in DOMAIN rows :
             rows[n] \in G <=> /\ r.start <= rows[n].dt /\ rows[n].dt <= r.finish
                               /\ Slot(r, rows[n].dt) = i
      BY <1>1, <1>7, SlotTimes
    <3> QED
      BY <3>1 DEF Places
  <2>2. slots[i] = x.slots[i] + Cardinality(put(i))
    BY <1>2
  <2>3. x.slots[i] = Cardinality(Places(x.read, G))
    BY <1>2
  <2> HIDE DEF G, put, slots
  <2>4. Cardinality(Places(read, G)) =
            Cardinality(Places(x.read, G)) + Cardinality(Places(rows, G))
    BY <1>1, <1>6, PlacesOfBoth
  <2> QED
    BY <2>1, <2>2, <2>3, <2>4 DEF G
<1>9. DOMAIN slots = 0..MaxTime
  BY <1>2
<1>10. Slots(y)
  <2> HIDE DEF slots, read
  <2> QED
    BY <1>5, <1>6, <1>8, <1>9 DEF Slots
<1>11. Pages(y) /\ Counts(y)
  BY <1>5 DEF Pages, Counts
<1>12. Working(t, y)
  BY <1>1, <1>5, <1>6, <1>10, <1>11 DEF Working
<1> QED
  BY <1>12 DEF y

-----------------------------------------------------------------------------
(* The steps of a request. *)

\* A transaction of a request, whatever the database holds by then.
LEMMA ScanStep ==
    ASSUME Database, NEW t, NEW x, Working(t, x), x.place = "scan", x.left # <<>>, NEW q
    PROVE  Working(t, [Called(x, RowsOf(x.req, q)) EXCEPT !.left = Tail(@),
                                                          !.read = @ \o RowsOf(x.req, q)])
<1> DEFINE rows == RowsOf(x.req, q)
<1>1. x.req \in Request /\ x.req.path # "file"
  BY DEF Working, ReqType
<1>2. IsSeq(rows) /\ (x.req.path = "/macs-per-time" => rows \in Seq(LogKey))
  BY <1>1, RowsAreSeq
<1> HIDE DEF rows
<1>3. CASE x.req.path \in {"/log", "/last"}
  <2>1. Called(x, rows) = OnReqLog(x, rows)
    BY <1>3 DEF Called
  <2>2. Working(t, [OnReqLog(x, rows) EXCEPT !.left = Tail(@), !.read = @ \o rows])
    BY <1>2, <1>3, PageStep
  <2> QED
    BY <2>1, <2>2 DEF rows
<1>4. CASE x.req.path \in {"/log-count", "/last-count"}
  <2>1. Called(x, rows) = OnReqLogCount(x, rows)
    BY <1>4 DEF Called
  <2>2. Working(t, [OnReqLogCount(x, rows) EXCEPT !.left = Tail(@), !.read = @ \o rows])
    BY <1>2, <1>4, CountStep
  <2> QED
    BY <2>1, <2>2 DEF rows
<1>5. CASE x.req.path = "/macs-per-time"
  <2>1. Called(x, rows) = OnLogHistogram(x, rows)
    BY <1>5 DEF Called
  <2>2. Working(t, [OnLogHistogram(x, rows) EXCEPT !.left = Tail(@), !.read = @ \o rows])
    BY <1>2, <1>5, HistogramStep
  <2> QED
    BY <2>1, <2>2 DEF rows
<1> QED
  BY <1>1, <1>3, <1>4, <1>5 DEF Request, Path

\* A request that has just come in has read and written nothing.
LEMMA NewWorks ==
    ASSUME NEW t \in Thread, NEW r \in Requests[t]
    PROVE  Working(t, NewRequest(r))
<1> DEFINE x == NewRequest(r)
           z == [i \in 0..MaxTime |-> 0]
<1>1. /\ r \in Request /\ SizeMax \in Nat \ {0} /\ DefaultCount \in 1..(SizeMax - 1)
      /\ r.macs \in Seq(MacPrefix) /\ r.offset \in Int /\ r.count \in Int
  BY HttpConstants DEF Request
<1>2. \A n \in Int : SizeT(n) \in 0..(SizeMax - 1)
  BY <1>1 DEF SizeT
<1>3. /\ x.place = "open" /\ x.req = r /\ x.left = r.macs /\ x.position = 0
      /\ x.offset = SizeT(r.offset)
      /\ x.count = IF r.count = 0 THEN DefaultCount ELSE SizeT(r.count)
      /\ x.page = <<>> /\ x.sum = 0 /\ x.sums = <<>> /\ x.slots = z /\ x.read = <<>>
      /\ x \in ReqType(x)
  <2> DEFINE o == SizeT(r.offset)
             c == IF r.count = 0 THEN DefaultCount ELSE SizeT(r.count)
  <2>1. o \in 0..(SizeMax - 1) /\ c \in 0..(SizeMax - 1) /\ 0 \in 0..(SizeMax - 1)
    <3>1. o \in 0..(SizeMax - 1) /\ SizeT(r.count) \in 0..(SizeMax - 1)
      BY <1>1, <1>2
    <3>2. 0 \in 0..(SizeMax - 1) /\ DefaultCount \in 0..(SizeMax - 1)
      BY <1>1
    <3> HIDE DEF o
    <3> QED
      BY <3>1, <3>2
  <2>2. x = [place |-> "open", req |-> r, left |-> r.macs, position |-> 0, offset |-> o,
             count |-> c, page |-> <<>>, sum |-> 0, sums |-> <<>>, slots |-> z,
             read |-> <<>>, answer |-> ""]
    BY DEF NewRequest
  <2> HIDE DEF x, o, c, z
  <2>3. x \in ReqType(x)
    BY <1>1, <2>1, <2>2 DEF ReqType
  <2> QED
    BY <2>2, <2>3 DEF o, c
<1> HIDE DEF x
<1>4. IsSeq(x.read) /\ Len(x.read) = 0 /\ x.read \in Seq(LogKey) /\ x.sums \in Seq(Nat)
      /\ Len(x.sums) = 0
  <2>1. x.read = <<>> /\ x.sums = <<>>
    BY <1>3
  <2>2. <<>> \in Seq(LogKey) /\ <<>> \in Seq(Nat) /\ Len(<<>>) = 0
    BY EmptySeq
  <2>3. IsSeq(<<>>)
    BY <2>2, SeqIsSeq
  <2> QED
    BY <2>1, <2>2, <2>3
<1>5. Pages(x)
  <2> DEFINE o == x.offset
             c == x.count
  <2>1. o \in Nat /\ c \in Nat
    BY <1>1, <1>3 DEF ReqType
  <2>2. x.position = Least(Len(x.read), o + c)
    BY <1>3, <1>4, <2>1 DEF Least
  <2>3. SubSeq(x.read, o + 1, 0) = <<>>
    <3> HIDE DEF o
    <3> QED
      BY <1>3, <2>1, SubSeqEmpty
  <2> QED
    BY <1>3, <2>2, <2>3 DEF Pages
<1>6. Counts(x)
  BY <1>3, <1>4 DEF Counts
<1>7. Slots(x)
  <2>1. ASSUME NEW G PROVE Cardinality(Places(x.read, G)) = 0
    <3>1. DOMAIN x.read = {}
      BY <1>3
    <3>2. Places(x.read, G) = {}
      BY <3>1 DEF Places
    <3> QED
      BY <3>2, FS_EmptySet
  <2> QED
    BY <1>3, <1>4, <2>1 DEF Slots
<1>8. x.req \in Requests[t] /\ x.place # "scan"
  BY <1>3
<1> QED
  BY <1>3, <1>4, <1>5, <1>6, <1>7, <1>8 DEF Working, x

\* A request changes its place and its answer, and nothing of what it has read and written.
LEMMA PlaceStep ==
    ASSUME NEW t, NEW x, Working(t, x), NEW p \in {"scan", "answered"}, NEW a,
           p = "scan" => x.req.path # "file",
           NEW y, y = [x EXCEPT !.place = p, !.answer = a]
    PROVE  Working(t, y)
<1>1. /\ x \in ReqType(x) /\ x.req \in Requests[t] /\ IsSeq(x.read)
      /\ Pages(x) /\ Counts(x) /\ Slots(x)
  BY DEF Working
<1>2. /\ y.place = p /\ y.req = x.req /\ y.position = x.position /\ y.offset = x.offset
      /\ y.count = x.count /\ y.page = x.page /\ y.sum = x.sum /\ y.sums = x.sums
      /\ y.slots = x.slots /\ y.read = x.read
  BY <1>1 DEF ReqType
<1>3. y \in ReqType(y)
  BY <1>1 DEF ReqType
<1>4. Pages(y) /\ Counts(y) /\ Slots(y)
  BY <1>1, <1>2 DEF Pages, Counts, Slots
<1> QED
  BY <1>1, <1>2, <1>3, <1>4 DEF Working

-----------------------------------------------------------------------------
(* Every step keeps the invariant. *)

\* Before the server is started.
LEMMA InitIInv == Init => IInv
<1> SUFFICES ASSUME Init PROVE IInv
  OBVIOUS
<1>1. Database
  BY InitDatabase DEF Init
<1> QED
  BY <1>1 DEF Init, IInv

\* One thread does a step of its own.
LEMMA OneThread ==
    ASSUME IInv, NEW t \in Thread, NEW x, x = NoRequest \/ Working(t, x),
           Update(t, x), UNCHANGED <<db, server>>
    PROVE  IInv'
<1>1. DOMAIN thread' = Thread /\ thread'[t] = x /\ \A u \in Thread \ {t} : thread'[u] = thread[u]
  BY DEF IInv, Update
<1>2. Database'
  <2>1. log' = log /\ probe' = probe /\ notes' = notes /\ Database
    BY DEF db, IInv
  <2> QED
    BY <2>1 DEF Database, Named
<1>3. ASSUME NEW u \in Thread PROVE thread'[u] = NoRequest \/ Working(u, thread'[u])
  BY <1>1 DEF IInv
<1> QED
  BY <1>1, <1>2, <1>3 DEF IInv

\* A request that comes in, or a step of one: no other thread is touched.
LEMMA ThreadIInv == IInv /\ (\E t \in Thread : Accept(t) \/ ThreadStep(t)) => IInv'
<1> SUFFICES ASSUME IInv, NEW t \in Thread, Accept(t) \/ ThreadStep(t) PROVE IInv'
  OBVIOUS
<1> DEFINE x == thread[t]
<1>1. Database /\ (x = NoRequest \/ Working(t, x))
  BY DEF IInv
<1>2. x = NoRequest => x.place = "idle"
  BY DEF NoRequest
<1>3. CASE Accept(t)
  <2>1. PICK r \in Requests[t] : Update(t, NewRequest(r))
    BY <1>3 DEF Accept
  <2>2. UNCHANGED <<db, server>>
    BY <1>3 DEF Accept
  <2> QED
    BY <2>1, <2>2, NewWorks, OneThread
<1>4. CASE ProcessFile(t)
  <2>1. PICK a : Update(t, [x EXCEPT !.place = "answered", !.answer = a])
    BY <1>4 DEF ProcessFile
  <2>2. UNCHANGED <<db, server>> /\ x.place = "open"
    BY <1>4 DEF ProcessFile, At
  <2>3. Working(t, x)
    BY <1>1, <1>2, <2>2
  <2>4. Working(t, [x EXCEPT !.place = "answered", !.answer = a])
    <3> HIDE DEF x
    <3> QED
      BY <2>3, PlaceStep
  <2> QED
    BY <2>1, <2>2, <2>4, OneThread
<1>5. CASE OpenDb(t)
  <2>1. Update(t, [x EXCEPT !.place = "scan"])
    BY <1>5 DEF OpenDb
  <2>2. UNCHANGED <<db, server>> /\ x.place = "open" /\ x.req.path # "file"
    BY <1>5 DEF OpenDb, At
  <2>3. Working(t, x)
    BY <1>1, <1>2, <2>2
  <2>4. [x EXCEPT !.place = "scan"] = [x EXCEPT !.place = "scan", !.answer = x.answer]
    <3>1. x \in ReqType(x)
      BY <2>3 DEF Working
    <3> HIDE DEF x
    <3> QED
      BY <3>1 DEF ReqType
  <2>5. Working(t, [x EXCEPT !.place = "scan"])
    <3> HIDE DEF x
    <3> QED
      BY <2>2, <2>3, <2>4, PlaceStep
  <2> QED
    BY <2>1, <2>2, <2>5, OneThread
<1>6. CASE OpenDbFails(t)
  <2>1. Update(t, [x EXCEPT !.place = "answered", !.answer = "error"])
    BY <1>6 DEF OpenDbFails
  <2>2. UNCHANGED <<db, server>> /\ x.place = "open"
    BY <1>6 DEF OpenDbFails, At
  <2>3. Working(t, x)
    BY <1>1, <1>2, <2>2
  <2>4. Working(t, [x EXCEPT !.place = "answered", !.answer = "error"])
    <3> HIDE DEF x
    <3> QED
      BY <2>3, PlaceStep
  <2> QED
    BY <2>1, <2>2, <2>4, OneThread
<1>7. CASE Scan(t)
  <2>1. PICK q : Update(t, [Called(x, RowsOf(x.req, q)) EXCEPT
                               !.left = Tail(@), !.read = @ \o RowsOf(x.req, q)])
    BY <1>7 DEF Scan
  <2>2. UNCHANGED <<db, server>> /\ x.place = "scan" /\ x.left # <<>>
    BY <1>7 DEF Scan, At
  <2>3. Working(t, x)
    BY <1>1, <1>2, <2>2
  <2>4. Working(t, [Called(x, RowsOf(x.req, q)) EXCEPT
                       !.left = Tail(@), !.read = @ \o RowsOf(x.req, q)])
    <3> HIDE DEF x
    <3> QED
      BY <1>1, <2>2, <2>3, ScanStep
  <2> QED
    BY <2>1, <2>2, <2>4, OneThread
<1>8. CASE CloseDb(t)
  <2>1. Update(t, [x EXCEPT !.place = "answered", !.answer = "data"])
    BY <1>8 DEF CloseDb
  <2>2. UNCHANGED <<db, server>> /\ x.place = "scan"
    BY <1>8 DEF CloseDb, At
  <2>3. Working(t, x)
    BY <1>1, <1>2, <2>2
  <2>4. Working(t, [x EXCEPT !.place = "answered", !.answer = "data"])
    <3> HIDE DEF x
    <3> QED
      BY <2>3, PlaceStep
  <2> QED
    BY <2>1, <2>2, <2>4, OneThread
<1>9. CASE Answered(t) \/ Cut(t)
  <2>1. Update(t, NoRequest) /\ UNCHANGED <<db, server>>
    BY <1>9 DEF Answered, Cut
  <2> QED
    BY <2>1, OneThread
<1> QED
  BY <1>3, <1>4, <1>5, <1>6, <1>7, <1>8, <1>9 DEF ThreadStep, Computes

\* Every step keeps the invariant.
LEMMA NextIInv == IInv /\ [Next]_vars => IInv'
<1> SUFFICES ASSUME IInv, [Next]_vars PROVE IInv'
  OBVIOUS
<1>1. CASE \E t \in Thread : Accept(t) \/ ThreadStep(t)
  BY <1>1, ThreadIInv
<1>2. CASE ServerStep
  <2>1. log' = log /\ probe' = probe /\ notes' = notes
    BY <1>2 DEF ServerStep, StartDaemon, StartReturns, Interrupt, ShutDown, StopDaemon, Exit,
       ToServer, db
  <2>2. server' \in {"down", "running", "sleeping", "stopping", "unstopped", "joining", "exiting"}
    BY <1>2 DEF ServerStep, StartDaemon, StartReturns, Interrupt, ShutDown, StopDaemon, Exit, ToServer
  <2>3. thread' = thread \/ thread' = [t \in Thread |-> NoRequest]
    BY <1>2 DEF ServerStep, StartDaemon, StartReturns, Interrupt, ShutDown, StopDaemon, Exit, ToServer
  <2>4. Database'
    BY <2>1 DEF IInv, Database, Named
  <2> QED
    BY <2>2, <2>3, <2>4 DEF IInv
<1>3. CASE Others
  <2>1. Store!Next /\ server' = server /\ thread' = thread /\ Database
    BY <1>3 DEF Others, IInv
  <2>2. Database'
    BY <2>1, NextDatabase
  <2> QED
    BY <2>1, <2>2 DEF IInv
<1>4. CASE UNCHANGED vars
  <2>1. log' = log /\ probe' = probe /\ notes' = notes /\ server' = server /\ thread' = thread
    BY <1>4 DEF vars
  <2>2. Database'
    BY <2>1 DEF IInv, Database, Named
  <2> QED
    BY <2>1, <2>2 DEF IInv
<1> QED
  BY <1>1, <1>2, <1>3, <1>4 DEF Next

\* The inductive invariant, for any threads, requests and MACs: what a request has
\* written so far is right for what it has read so far (http-server.cpp 187-264,
\* histogrammacspertime.cpp 48-55), while other processes change the database between
\* its transactions.
THEOREM InvariantHolds == Spec => []IInv
<1> QED
  BY InitIInv, NextIInv, PTL DEF Spec

\* The server and its threads are always in one of their places, and the position, the
\* offset and the count of a request fit into a size_t.
THEOREM TypeCorrect == Spec => []TypeOK
<1>1. IInv => TypeOK
  <2> SUFFICES ASSUME IInv, NEW t \in Thread, thread[t] # NoRequest
               PROVE  /\ thread[t].place \in {"open", "scan", "answered"}
                      /\ thread[t].req \in Requests[t]
                      /\ {thread[t].position, thread[t].offset, thread[t].count}
                            \subseteq 0..(SizeMax - 1)
    BY DEF IInv, TypeOK
  <2>1. Working(t, thread[t])
    BY DEF IInv
  <2> QED
    BY <2>1 DEF Working, ReqType
<1> QED
  BY <1>1, InvariantHolds, PTL

\* A request that is answered with data has been scanned: it is not the empty one.
LEMMA AnsweredWorks ==
    ASSUME IInv, NEW t \in Thread, Data(t)
    PROVE  Working(t, thread[t])
BY DEF IInv, Data, At, NoRequest

\* A page is a slice of what the request found, although each scan skips and stops by
\* itself (http-server.cpp 187-216): for any offset and count whose sum fits into a
\* size_t, any number of MACs, and whatever changed between the scans.
THEOREM PagesAreSlices == Spec => []PageIsSlice
<1>1. IInv => PageIsSlice
  <2> SUFFICES ASSUME IInv, NEW t \in Thread, Data(t),
                      thread[t].req.path \in {"/log", "/last"},
                      thread[t].offset + thread[t].count < SizeMax
               PROVE  thread[t].page = SubSeq(thread[t].read, thread[t].offset + 1,
                          Least(thread[t].offset + thread[t].count, Len(thread[t].read)))
    BY DEF PageIsSlice
  <2> DEFINE x == thread[t]
             l == Len(x.read)
             c == x.offset + x.count
  <2>1. Working(t, x)
    BY AnsweredWorks
  <2>2. x.position = Least(l, c) /\ x.page = SubSeq(x.read, x.offset + 1, x.position)
    BY <2>1 DEF Working, Pages
  <2>3. l \in Nat /\ c \in Nat
    <3>1. IsSeq(x.read) /\ x.offset \in Nat /\ x.count \in Nat
      BY <2>1, HttpConstants DEF Working, ReqType
    <3> QED
      BY <3>1, ConcatIsSeq
  <2>4. Least(l, c) = Least(c, l)
    <3> HIDE DEF l, c
    <3> QED
      BY <2>3 DEF Least
  <2> QED
    BY <2>2, <2>4
<1> QED
  BY <1>1, InvariantHolds, PTL

\* The numbers of a count are running totals, and the last is that of all the records
\* found (http-server.cpp 218-232, 257-264).
THEOREM CountsAreRight == Spec => []CountsAreTotals
<1>1. IInv => CountsAreTotals
  <2> SUFFICES ASSUME IInv, NEW t \in Thread, Data(t),
                      thread[t].req.path \in {"/log-count", "/last-count"}
               PROVE  /\ thread[t].read = <<>> <=> thread[t].sums = <<>>
                      /\ thread[t].sums # <<>> =>
                            thread[t].sums[Len(thread[t].sums)] = Len(thread[t].read)
                      /\ \A i \in 1..(Len(thread[t].sums) - 1) :
                            thread[t].sums[i] <= thread[t].sums[i + 1]
    BY DEF CountsAreTotals
  <2> DEFINE x == thread[t]
  <2>1. Working(t, x)
    BY AnsweredWorks
  <2>2. IsSeq(x.read) /\ Counts(x) /\ x.req.path \in {"/log-count", "/last-count"}
    BY <2>1 DEF Working
  <2>3. x.read = <<>> <=> Len(x.read) = 0
    <3>1. x.read \in Seq(Elements(x.read))
      BY <2>2 DEF IsSeq
    <3> HIDE DEF x
    <3> QED
      BY <3>1, EmptySeq
  <2> HIDE DEF x
  <2>4. /\ x.read = <<>> <=> x.sums = <<>>
        /\ x.sums # <<>> => x.sums[Len(x.sums)] = Len(x.read)
        /\ \A i \in 1..(Len(x.sums) - 1) : x.sums[i] <= x.sums[i + 1]
    BY <2>2, <2>3 DEF Counts
  <2> QED
    BY <2>4 DEF x
<1> QED
  BY <1>1, InvariantHolds, PTL

\* A slot of the histogram counts the records found in its time, over all the MACs
\* (histogrammacspertime.cpp 48-55): for any range and any step.
THEOREM HistogramsAgree == Spec => []HistogramAgrees
<1>1. IInv => HistogramAgrees
  <2> SUFFICES ASSUME IInv, NEW t \in Thread, Data(t),
                      thread[t].req.path = "/macs-per-time",
                      NEW i \in DOMAIN thread[t].slots
               PROVE  thread[t].slots[i] = Cardinality({n \in DOMAIN thread[t].read :
                          /\ thread[t].req.start + i * StepOf(thread[t].req) <= thread[t].read[n].dt
                          /\ thread[t].read[n].dt < thread[t].req.start + (i + 1) * StepOf(thread[t].req)
                          /\ thread[t].read[n].dt <= thread[t].req.finish})
    BY DEF HistogramAgrees
  <2> DEFINE x == thread[t]
  <2>1. Slots(x) /\ x.req.path = "/macs-per-time" /\ i \in DOMAIN x.slots
    BY AnsweredWorks DEF Working
  <2> HIDE DEF x
  <2>2. /\ x.read \in Seq(LogKey)
        /\ x.slots[i] = Cardinality(Places(x.read, InSlot(x.req, i)))
    BY <2>1 DEF Slots
  <2>3. \A n \in DOMAIN x.read : x.read[n] \in LogKey
    BY <2>2, LenProperties
  <2>4. Places(x.read, InSlot(x.req, i)) =
            {n \in DOMAIN x.read : /\ x.req.start + i * StepOf(x.req) <= x.read[n].dt
                                   /\ x.read[n].dt < x.req.start + (i + 1) * StepOf(x.req)
                                   /\ x.read[n].dt <= x.req.finish}
    BY <2>3 DEF Places, InSlot
  <2> QED
    BY <2>2, <2>4 DEF x
<1> QED
  BY <1>1, InvariantHolds, PTL
=============================================================================
