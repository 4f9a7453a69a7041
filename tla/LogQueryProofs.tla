--------------------------- MODULE LogQueryProofs ---------------------------
(***************************************************************************)
(* Theorems about LogQuery, for MAC addresses of any length, any values of *)
(* their bytes and of the unassigned ones, and any texts: in every state a *)
(* table can reach, what the queries of a user give.                       *)
(***************************************************************************)
EXTENDS LogQuery, LogKeysProofs

-----------------------------------------------------------------------------
(* The types. *)

\* The types of the empty table.
LEMMA InitTypes == Init => TypeOK
<1> SUFFICES ASSUME Init PROVE TypeOK
  OBVIOUS
<1>1. 0 \in 0..MaxTime
  BY KeyConstants
<1> QED
  BY <1>1 DEF Init, TypeOK

\* The texts under the bytes of one key, but for those of another, are one.
LEMMA OneText ==
    ASSUME NEW m \in Mac, NEW j \in Junk, NEW t \in Text, TypeOK
    PROVE  LET now == (notes \ SameKey(m, j)) \cup {[mac |-> m, junk |-> j, text |-> t]}
           IN  now \subseteq Note /\ \A n, o \in now : n.mac = o.mac /\ n.junk = o.junk => n = o
<1> DEFINE new == [mac |-> m, junk |-> j, text |-> t]
           now == (notes \ SameKey(m, j)) \cup {new}
<1>1. new \in Note /\ new.mac = m /\ new.junk = j
  BY DEF Note
<1>2. notes \subseteq Note /\ \A n, o \in notes : n.mac = o.mac /\ n.junk = o.junk => n = o
  BY DEF TypeOK
<1>3. \A n \in notes \ SameKey(m, j) : ~(n.mac = m /\ n.junk = j)
  BY DEF SameKey
<1> HIDE DEF new
<1>4. ASSUME NEW n \in now, NEW o \in now, n.mac = o.mac, n.junk = o.junk PROVE n = o
  <2>1. CASE n = new /\ o = new
    BY <2>1
  <2>2. CASE n = new /\ o \in notes \ SameKey(m, j)
    BY <2>2, <1>1, <1>3, <1>4
  <2>3. CASE n \in notes \ SameKey(m, j) /\ o = new
    BY <2>3, <1>1, <1>3, <1>4
  <2>4. CASE n \in notes \ SameKey(m, j) /\ o \in notes \ SameKey(m, j)
    BY <2>4, <1>2, <1>4
  <2> QED
    BY <2>1, <2>2, <2>3, <2>4
<1>5. now \subseteq Note
  BY <1>1, <1>2
<1> QED
  BY <1>4, <1>5 DEF new

\* Every call keeps the types.
LEMMA NextTypes == TypeOK /\ [Next]_vars => TypeOK'
<1> SUFFICES ASSUME TypeOK, [Next]_vars PROVE TypeOK'
  OBVIOUS
<1>1. /\ log \subseteq LogKey /\ probe \in [Mac -> 0..MaxTime] /\ notes \subseteq Note
      /\ \A n, o \in notes : n.mac = o.mac /\ n.junk = o.junk => n = o
  BY DEF TypeOK
<1>2. CASE PutLog
  <2>1. PICK k \in LogKey : log' \in {log \cup {k}, log} /\ probe' = [probe EXCEPT ![k.mac] = k.dt]
    BY <1>2 DEF PutLog
  <2>2. notes' = notes
    BY <1>2 DEF PutLog
  <2>3. k.mac \in Mac /\ k.dt \in 0..MaxTime
    <3>1. k.mac \in Mac /\ k.dt \in Time
      BY DEF LogKey
    <3> QED
      BY <3>1, KeyConstants DEF Time
  <2>4. log' \subseteq LogKey
    BY <2>1, <1>1
  <2>5. probe' \in [Mac -> 0..MaxTime]
    BY <2>1, <2>3, <1>1
  <2> QED
    BY <2>2, <2>4, <2>5, <1>1 DEF TypeOK
<1>3. CASE RmLog
  <2>1. log' \subseteq log /\ probe' = probe /\ notes' = notes
    BY <1>3 DEF RmLog
  <2> QED
    BY <2>1, <1>1 DEF TypeOK
<1>4. CASE PutNotification
  <2>1. PICK m \in Mac, j \in Junk, t \in Text :
            notes' = (notes \ SameKey(m, j)) \cup {[mac |-> m, junk |-> j, text |-> t]}
    BY <1>4 DEF PutNotification
  <2>2. log' = log /\ probe' = probe
    BY <1>4 DEF PutNotification
  <2>3. notes' \subseteq Note /\ \A n, o \in notes' : n.mac = o.mac /\ n.junk = o.junk => n = o
    BY <2>1, OneText
  <2> QED
    BY <2>2, <2>3, <1>1 DEF TypeOK
<1>5. CASE ClearNotification
  <2>1. notes' \subseteq notes /\ log' = log /\ probe' = probe
    BY <1>5 DEF ClearNotification
  <2> QED
    BY <2>1, <1>1 DEF TypeOK
<1>6. CASE RmNotification
  <2>1. notes' \subseteq notes /\ log' = log /\ probe' = probe
    BY <1>6 DEF RmNotification
  <2> QED
    BY <2>1, <1>1 DEF TypeOK
<1>7. CASE UNCHANGED vars
  BY <1>1, <1>7 DEF vars, TypeOK
<1> QED
  BY <1>2, <1>3, <1>4, <1>5, <1>6, <1>7 DEF Next

\* The records are under keys of the log, the last probes are times, and one key has one text.
THEOREM TypeCorrect == Spec => []TypeOK
<1> QED
  BY InitTypes, NextTypes, PTL DEF Spec

-----------------------------------------------------------------------------
(* The queries of the log. *)

\* readLog with some bytes of a MAC, or none, gives exactly the records of the range.
THEOREM PartialReads == Spec => []PartialReadIsExact
<1>1. TypeOK => PartialReadIsExact
  BY PartialRead DEF TypeOK, PartialReadIsExact
<1> QED
  BY <1>1, TypeCorrect, PTL

\* readLog with a whole MAC is exact where the unassigned bytes agree and the ends of the
\* range are in order.
THEOREM FullReads == Spec => []FullReadIsExact
<1>1. TypeOK => FullReadIsExact
  BY FullRead DEF TypeOK, FullReadIsExact
<1> QED
  BY <1>1, TypeCorrect, PTL

\* rmLog deletes selected records only, and with a part of a MAC it leaves records of one MAC
\* alone.
THEOREM Removals == Spec => []RemovalIsSelected
<1>1. TypeOK => RemovalIsSelected
  <2> SUFFICES ASSUME TypeOK, NEW q \in Query
               PROVE  /\ RmHits(log, q) \subseteq Selected(log, q)
                      /\ ~IsFullMac(q) =>
                            \A k \in Selected(log, q) \ RmHits(log, q) : k.mac = ZeroFilled(q.sa)
    BY DEF RemovalIsSelected
  <2>1. log \in SUBSET LogKey
    BY DEF TypeOK
  <2>2. RmHits(log, q) \subseteq Selected(log, q)
    BY <2>1, HitsAreSelected DEF RmHits
  <2>3. ASSUME ~IsFullMac(q), NEW k \in Selected(log, q) \ RmHits(log, q)
        PROVE  k.mac = ZeroFilled(q.sa)
    BY <2>1, <2>3, PartialRemoval
  <2> QED
    BY <2>2, <2>3
<1> QED
  BY <1>1, TypeCorrect, PTL

-----------------------------------------------------------------------------
(* The scans that begin at a tag. *)

Row == ProbeRow \cup NoteRow

\* A tag and the bytes behind it: the key of a row, and where a scan begins.
Tagged(tag, x) == <<tag>> \o x

\* The tag goes before the bytes.
LEMMA TaggedShape ==
    ASSUME NEW tag \in Nat, NEW x \in Seq(Nat)
    PROVE  /\ Tagged(tag, x) \in Seq(Nat)
           /\ Len(Tagged(tag, x)) = Len(x) + 1
           /\ Tagged(tag, x)[1] = tag
           /\ \A i \in 1..Len(x) : Tagged(tag, x)[i + 1] = x[i]
<1> DEFINE e == <<tag>>
           n == Len(x)
<1>1. e \in Seq(Nat) /\ Len(e) = 1 /\ e[1] = tag
  OBVIOUS
<1>2. n \in Nat
  BY LenProperties
<1> HIDE DEF e
<1>3. /\ e \o x \in Seq(Nat)
      /\ Len(e \o x) = 1 + n
      /\ \A i \in 1..(1 + n) : (e \o x)[i] = IF i <= 1 THEN e[i] ELSE x[i - 1]
  <2>1. /\ e \o x \in Seq(Nat)
        /\ Len(e \o x) = Len(e) + Len(x)
        /\ \A i \in 1..(Len(e) + Len(x)) :
              (e \o x)[i] = IF i <= Len(e) THEN e[i] ELSE x[i - Len(e)]
    BY <1>1, ConcatProperties
  <2> QED
    BY <2>1, <1>1
<1> HIDE DEF n
<1>4. (e \o x)[1] = tag
  BY <1>1, <1>2, <1>3
<1>5. ASSUME NEW i \in 1..n PROVE (e \o x)[i + 1] = x[i]
  <2>1. i + 1 \in 1..(1 + n) /\ ~(i + 1 <= 1) /\ (i + 1) - 1 = i
    BY <1>2
  <2> QED
    BY <2>1, <1>3
<1>6. 1 + n = n + 1
  BY <1>2
<1>7. Tagged(tag, x) = e \o x
  BY DEF Tagged, e
<1> QED
  BY <1>3, <1>4, <1>5, <1>6, <1>7 DEF n

\* A MAC address is a sequence of numbers.
LEMMA MacIsSeq ==
    ASSUME NEW m \in Mac PROVE m \in Seq(Nat) /\ Len(m) = MacLen
<1>1. MacLen \in Nat /\ Byte \subseteq Nat
  BY KeyConstants
<1>2. m \in [1..MacLen -> Nat]
  BY <1>1 DEF Mac
<1> QED
  BY <1>1, <1>2, SeqDef

\* The key of a row begins with its tag and its MAC.
LEMMA RowShape ==
    ASSUME NEW r \in Row
    PROVE  /\ r.tag \in Nat /\ r.mac \in Mac
           /\ Len(RowBytes(r)) \in Nat /\ MacLen + 1 <= Len(RowBytes(r))
           /\ \A i \in 1..Len(RowBytes(r)) : RowBytes(r)[i] \in Int
           /\ RowBytes(r)[1] = r.tag
           /\ \A i \in 1..MacLen : RowBytes(r)[i + 1] = r.mac[i]
<1> DEFINE x == Tagged(r.tag, r.mac)
           e == IF r.tag = TagT THEN <<r.junk>> ELSE <<>>
<1>1. r.tag \in Nat /\ r.mac \in Mac
  BY DEF Row, ProbeRow, NoteRow, TagP, TagT
<1>2. e \in Seq(Nat)
  <2>1. CASE r.tag = TagT
    <3>1. r \in NoteRow
      BY <2>1 DEF Row, ProbeRow, TagP, TagT
    <3>2. r.junk \in Junk
      BY <3>1 DEF NoteRow
    <3>3. r.junk \in Nat
      BY <3>2, QueryConstants
    <3> QED
      BY <2>1, <3>3
  <2>2. CASE r.tag # TagT
    BY <2>2
  <2> QED
    BY <2>1, <2>2
<1>3. /\ x \in Seq(Nat) /\ Len(x) = MacLen + 1 /\ x[1] = r.tag
      /\ \A i \in 1..MacLen : x[i + 1] = r.mac[i]
  <2> DEFINE a == r.tag
             m == r.mac
  <2>1. a \in Nat /\ m \in Seq(Nat) /\ Len(m) = MacLen
    BY <1>1, MacIsSeq
  <2> HIDE DEF a, m
  <2>2. /\ Tagged(a, m) \in Seq(Nat)
        /\ Len(Tagged(a, m)) = Len(m) + 1
        /\ Tagged(a, m)[1] = a
        /\ \A i \in 1..Len(m) : Tagged(a, m)[i + 1] = m[i]
    BY <2>1, TaggedShape
  <2> QED
    BY <2>1, <2>2 DEF a, m
<1>4. RowBytes(r) = x \o e
  BY DEF RowBytes, Tagged
<1> HIDE DEF x, e
<1> DEFINE n == Len(x)
           m == Len(e)
           b == x \o e
<1>5. m \in Nat /\ n \in Nat
  BY <1>2, <1>3, LenProperties
<1>6. /\ b \in Seq(Nat)
      /\ Len(b) = n + m
      /\ \A i \in 1..(n + m) : b[i] = IF i <= n THEN x[i] ELSE e[i - n]
  BY <1>2, <1>3, ConcatProperties
<1>7. \A i \in 1..Len(b) : b[i] \in Int
  BY <1>6, ElementOfSeq
<1>8. n = MacLen + 1 /\ MacLen \in Nat
  BY <1>3, KeyConstants
<1> HIDE DEF n, m, b
<1>9. b[1] = r.tag
  BY <1>3, <1>5, <1>6, <1>8
<1>10. ASSUME NEW i \in 1..MacLen PROVE b[i + 1] = r.mac[i]
  <2>1. i + 1 \in 1..(n + m) /\ i + 1 <= n
    BY <1>5, <1>8
  <2> QED
    BY <2>1, <1>3, <1>6
<1>11. Len(b) \in Nat /\ MacLen + 1 <= Len(b)
  BY <1>5, <1>6, <1>8
<1> QED
  BY <1>1, <1>4, <1>7, <1>9, <1>10, <1>11 DEF b

\* A scan from a tag and some bytes of a MAC meets all the rows of the tag that begin with
\* them before it meets a row of another MAC, of this tag or of a later one.
LEMMA ReachedRows ==
    ASSUME NEW rows, rows \subseteq Row, NEW tag \in Nat, NEW sa \in MacPrefix,
           NEW r \in rows
    PROVE  /\ r \in Reached(rows, tag, sa) => HasPrefix(sa, r.mac)
           /\ r.tag = tag /\ HasPrefix(sa, r.mac) => r \in Reached(rows, tag, sa)
<1> DEFINE from == Tagged(tag, sa)
           n == Len(sa)
           ahead == {s \in rows : ~Before(RowBytes(s), from)}
<1>1. Reached(rows, tag, sa) =
          {s \in ahead : \A t \in ahead :
              ~HasPrefix(sa, t.mac) => Before(RowBytes(s), RowBytes(t))}
  BY DEF Reached, Tagged
<1>2. n \in Nat /\ n <= MacLen /\ MacLen \in Nat /\ \A i \in 1..n : sa[i] \in Nat
  BY PrefixShape, KeyConstants
<1>3. sa \in Seq(Nat)
  <2>1. sa \in Seq(Byte) /\ Byte \subseteq Nat
    BY PrefixShape, KeyConstants
  <2> QED
    BY <2>1, SeqMonotonic
<1>4. /\ Len(from) = n + 1
      /\ from[1] = tag
      /\ \A i \in 1..n : from[i + 1] = sa[i]
  BY <1>3, TaggedShape
<1> HIDE DEF from, n
\* The places of the tag and of the MAC bytes.
<1>5. ASSUME NEW i \in 1..(n + 1)
      PROVE  i = 1 \/ (i - 1 \in 1..n /\ i - 1 \in 1..MacLen /\ (i - 1) + 1 = i)
  BY <1>2
<1>6. \A i \in 1..(n + 1) : from[i] \in Int
  <2>1. ASSUME NEW i \in 1..(n + 1) PROVE from[i] \in Int
    <3>1. CASE i = 1
      BY <3>1, <1>4
    <3>2. CASE i # 1
      <4> DEFINE j == i - 1
      <4>1. j \in 1..n /\ j + 1 = i
        BY <3>2, <1>5
      <4> HIDE DEF j
      <4>2. from[j + 1] = sa[j] /\ sa[j] \in Nat
        BY <4>1, <1>2, <1>4
      <4> QED
        BY <4>1, <4>2
    <3> QED
      BY <3>1, <3>2
  <2> QED
    BY <2>1
<1>7. ASSUME r \in Reached(rows, tag, sa) PROVE HasPrefix(sa, r.mac)
  <2>1. r \in Row
    OBVIOUS
  <2>2. ~Before(RowBytes(r), RowBytes(r))
    <3>1. Len(RowBytes(r)) \in Nat /\ \A i \in 1..Len(RowBytes(r)) : RowBytes(r)[i] \in Int
      BY <2>1, RowShape
    <3> QED
      BY <3>1, PrefixNotBefore
  <2> QED
    BY <1>1, <1>7, <2>2
<1>8. ASSUME r.tag = tag, HasPrefix(sa, r.mac) PROVE r \in Reached(rows, tag, sa)
  <2> DEFINE s == RowBytes(r)
  <2>1. /\ Len(s) \in Nat /\ MacLen + 1 <= Len(s) /\ s[1] = tag
        /\ \A i \in 1..MacLen : s[i + 1] = r.mac[i]
    BY <1>8, RowShape
  <2>2. \A i \in 1..n : r.mac[i] = sa[i]
    BY <1>8 DEF HasPrefix, n
  <2> HIDE DEF s
  <2>3. ASSUME NEW i \in 1..(n + 1) PROVE s[i] = from[i]
    <3>1. CASE i = 1
      BY <3>1, <1>4, <2>1
    <3>2. CASE i # 1
      <4> DEFINE j == i - 1
      <4>1. j \in 1..n /\ j \in 1..MacLen /\ j + 1 = i
        BY <3>2, <1>5
      <4> HIDE DEF j
      <4>2. from[j + 1] = sa[j] /\ s[j + 1] = r.mac[j]
        BY <4>1, <1>4, <2>1
      <4> QED
        BY <4>1, <4>2, <2>2
    <3> QED
      BY <3>1, <3>2
  <2>4. Len(from) \in Nat /\ n + 1 \in Nat /\ n + 1 <= Len(s) /\ n + 1 <= Len(from)
        /\ Len(from) <= Len(s)
    BY <1>2, <1>4, <2>1
  <2>5. ~Before(s, from)
    <3>1. \A i \in 1..Len(from) : from[i] \in Int /\ s[i] = from[i]
      BY <1>4, <1>6, <2>3
    <3> QED
      BY <2>1, <2>4, <3>1, PrefixNotBefore
  <2>6. ASSUME NEW o \in ahead, ~HasPrefix(sa, o.mac) PROVE Before(s, RowBytes(o))
    <3> DEFINE t == RowBytes(o)
    <3>1. o \in Row /\ ~Before(t, from)
      BY <2>6
    <3>2. /\ Len(t) \in Nat /\ MacLen + 1 <= Len(t)
          /\ \A i \in 1..Len(t) : t[i] \in Int
          /\ \A i \in 1..MacLen : t[i + 1] = o.mac[i]
      BY <3>1, RowShape
    <3>3. PICK j \in 1..n : o.mac[j] # sa[j]
      BY <2>6 DEF HasPrefix, n
    <3> HIDE DEF t
    <3>4. j \in 1..MacLen /\ j + 1 \in 1..(n + 1)
      BY <3>3, <1>2
    <3>5. t[j + 1] # from[j + 1]
      BY <3>2, <3>3, <3>4, <1>4
    <3>6. n + 1 <= Len(t)
      BY <3>2, <1>2
    <3>7. \A i \in 1..(n + 1) : t[i] \in Int
      <4>1. \A i \in 1..(n + 1) : i \in 1..Len(t)
        BY <3>2, <3>6, <1>2
      <4> QED
        BY <4>1, <3>2
    <3>8. \A i \in 1..(n + 1) : s[i] = from[i] /\ from[i] \in Int /\ t[i] \in Int
      BY <1>6, <2>3, <3>7
    <3>9. \E i \in 1..(n + 1) : t[i] # from[i]
      BY <3>4, <3>5
    <3> DEFINE e == n + 1
    <3>10. e \in Nat /\ e <= Len(s) /\ e <= Len(t) /\ e <= Len(from)
           /\ (\A i \in 1..e : s[i] = from[i] /\ from[i] \in Int /\ t[i] \in Int)
           /\ \E i \in 1..e : t[i] # from[i]
      BY <2>4, <3>6, <3>8, <3>9
    <3> HIDE DEF e
    <3>11. Before(s, t)
      BY <2>1, <2>4, <3>1, <3>2, <3>10, OthersFollow
    <3> QED
      BY <3>11 DEF t
  <2>7. r \in ahead
    BY <2>5 DEF s
  <2> QED
    BY <1>1, <2>6, <2>7 DEF s
<1> QED
  BY <1>7, <1>8

\* The table holds rows of the two kinds.
LEMMA RowsAreRows ==
    ASSUME TypeOK
    PROVE  ProbeRows \subseteq ProbeRow /\ NoteRows \subseteq NoteRow
<1>1. ASSUME NEW m \in Mac, probe[m] # 0
      PROVE  [tag |-> TagP, mac |-> m, dt |-> probe[m]] \in ProbeRow
  <2>1. probe[m] \in Nat
    BY KeyConstants DEF TypeOK
  <2> QED
    BY <2>1 DEF ProbeRow
<1>2. ASSUME NEW n \in notes
      PROVE  [tag |-> TagT, mac |-> n.mac, junk |-> n.junk, dt |-> TextTime[n.text]] \in NoteRow
  <2>1. n.mac \in Mac /\ n.junk \in Junk /\ n.text \in Text
    BY DEF TypeOK, Note
  <2>2. TextTime[n.text] \in Nat \cup {-1}
    BY <2>1, QueryConstants
  <2> QED
    BY <2>1, <2>2 DEF NoteRow
<1> QED
  BY <1>1, <1>2 DEF ProbeRows, NoteRows

\* readLastProbe gives the last probes of the range, of the MACs asked for: no notification in
\* the table takes one away.
THEOREM LastProbesAreRead == Spec => []LastProbesAreExact
<1>1. TypeOK => LastProbesAreExact
  <2> SUFFICES ASSUME TypeOK, NEW q \in Query
               PROVE  {r \in LastProbes(q) : r.tag = TagP} =
                         {r \in ProbeRows : /\ HasPrefix(q.sa, r.mac)
                                            /\ First(q) <= r.dt /\ r.dt <= Last(q)}
    BY DEF LastProbesAreExact
  <2> DEFINE rows == WithTime
  <2>1. q.sa \in MacPrefix
    BY RangeShape
  <2>2. rows \subseteq Row /\ ProbeRows \subseteq ProbeRow /\ NoteRows \subseteq NoteRow
    BY RowsAreRows DEF Row, WithTime
  <2>3. TagP \in Nat /\ TagP # TagT
    BY DEF TagP, TagT
  <2>4. \A r \in rows : r.tag = TagP <=> r \in ProbeRows
    <3>1. \A r \in ProbeRows : r.dt >= 0
      BY <2>2 DEF ProbeRow
    <3> QED
      BY <2>3, <3>1 DEF ProbeRows, NoteRows, WithTime
  <2>5. \A r \in rows : /\ r \in Reached(rows, TagP, q.sa) => HasPrefix(q.sa, r.mac)
                        /\ r.tag = TagP /\ HasPrefix(q.sa, r.mac)
                              => r \in Reached(rows, TagP, q.sa)
    <3> HIDE DEF rows
    <3> QED
      BY <2>1, <2>2, <2>3, ReachedRows
  <2>6. Reached(rows, TagP, q.sa) \subseteq rows
    BY DEF Reached
  <2>7. LastProbes(q) = {r \in Reached(rows, TagP, q.sa) : First(q) <= r.dt /\ r.dt <= Last(q)}
    BY DEF LastProbes
  <2>8. ProbeRows \subseteq rows
    BY <2>2 DEF ProbeRow, WithTime
  <2> HIDE DEF rows
  <2>9. ASSUME NEW r \in LastProbes(q), r.tag = TagP
        PROVE  /\ r \in ProbeRows
               /\ HasPrefix(q.sa, r.mac) /\ First(q) <= r.dt /\ r.dt <= Last(q)
    BY <2>4, <2>5, <2>6, <2>7, <2>9
  <2>10. ASSUME NEW r \in ProbeRows, HasPrefix(q.sa, r.mac), First(q) <= r.dt, r.dt <= Last(q)
         PROVE  r \in LastProbes(q) /\ r.tag = TagP
    BY <2>4, <2>5, <2>7, <2>8, <2>10
  <2> QED
    BY <2>9, <2>10
<1> QED
  BY <1>1, TypeCorrect, PTL

\* The scan of lsNotification begins before any notification: no byte is less than zero.
LEMMA AllListed ==
    ASSUME TypeOK PROVE Listed = notes
<1> DEFINE zeros == [i \in 1..(MacLen - 1) |-> 0]
           from == Tagged(TagT, zeros)
<1>1. MacLen \in Nat \ {0} /\ TagT \in Nat
  BY KeyConstants DEF TagT
<1>2. zeros \in Seq(Nat) /\ Len(zeros) = MacLen - 1 /\ \A i \in 1..(MacLen - 1) : zeros[i] = 0
  <2>1. MacLen - 1 \in Nat
    BY <1>1
  <2>2. zeros \in [1..(MacLen - 1) -> Nat]
    OBVIOUS
  <2> QED
    BY <2>1, <2>2, SeqDef
<1> HIDE DEF zeros
<1>3. /\ Len(from) = (MacLen - 1) + 1 /\ from[1] = TagT
      /\ \A i \in 1..(MacLen - 1) : from[i + 1] = 0
  <2>1. /\ Len(from) = Len(zeros) + 1 /\ from[1] = TagT
        /\ \A i \in 1..Len(zeros) : from[i + 1] = zeros[i]
    BY <1>1, <1>2, TaggedShape
  <2> QED
    BY <2>1, <1>2
<1> HIDE DEF from
<1>4. ASSUME NEW n \in notes PROVE ~Before(<<TagT>> \o n.mac \o <<n.junk>>, from)
  <2> DEFINE r == [tag |-> TagT, mac |-> n.mac, junk |-> n.junk, dt |-> TextTime[n.text]]
             s == RowBytes(r)
  <2>1. r \in NoteRows
    BY DEF NoteRows
  <2>2. r \in Row
    BY <2>1, RowsAreRows DEF Row
  <2>3. r.tag = TagT /\ r.mac = n.mac /\ r.junk = n.junk
    OBVIOUS
  <2>4. s = <<TagT>> \o n.mac \o <<n.junk>>
    BY <2>3 DEF RowBytes
  <2>5. r.mac \in Mac
    BY <2>2, RowShape
  <2> HIDE DEF r
  <2>6. /\ Len(s) \in Nat /\ MacLen + 1 <= Len(s) /\ s[1] = TagT
        /\ \A i \in 1..MacLen : s[i + 1] = r.mac[i]
    BY <2>2, <2>3, RowShape
  <2>7. \A i \in 1..MacLen : r.mac[i] \in Nat
    BY <2>5, MacIsSeq, ElementOfSeq
  <2> HIDE DEF s
  <2> DEFINE l == Len(s)
  <2>8. ASSUME NEW e \in 0..l, e < MacLen, e = l \/ s[e + 1] < from[e + 1]
        PROVE  FALSE
    <3>1. e # l /\ e \in Nat
      BY <2>6, <2>8, <1>1
    <3>2. CASE e = 0
      <4>1. s[1] < from[1] /\ TagT \in Int
        BY <3>1, <3>2, <2>8, <1>1
      <4> QED
        BY <4>1, <2>6, <1>3
    <3>3. CASE e # 0
      <4>1. e \in 1..(MacLen - 1) /\ e \in 1..MacLen
        BY <3>1, <3>3, <2>8, <1>1
      <4>2. from[e + 1] = 0 /\ s[e + 1] = r.mac[e] /\ r.mac[e] \in Nat
        BY <4>1, <1>3, <2>6, <2>7
      <4>3. s[e + 1] < from[e + 1]
        BY <3>1, <2>8
      <4> QED
        BY <4>2, <4>3
    <3> QED
      BY <3>2, <3>3
  <2>9. Len(from) = MacLen
    BY <1>1, <1>3
  <2>10. ~Before(s, from)
    BY <2>8, <2>9 DEF Before
  <2> QED
    BY <2>4, <2>10
<1>5. Listed = {n \in notes : ~Before(<<TagT>> \o n.mac \o <<n.junk>>, from)}
  BY DEF Listed, Tagged, from, zeros
<1> QED
  BY <1>4, <1>5

\* lsNotification lists every notification, and rmNotification removes those of the MACs it
\* was given, whatever bytes follow the MAC in their keys.
THEOREM NotificationsFound == Spec => []NotificationsAreFound
<1>1. TypeOK => NotificationsAreFound
  <2> SUFFICES ASSUME TypeOK, NEW sa \in MacPrefix
               PROVE  RemovedNotes(sa) = {n \in notes : HasPrefix(sa, n.mac)}
    BY AllListed DEF NotificationsAreFound
  <2>1. NoteRows \subseteq Row
    BY RowsAreRows DEF Row
  <2>2. TagT \in Nat
    BY DEF TagT
  <2>3. \A r \in NoteRows : /\ r \in Reached(NoteRows, TagT, sa) => HasPrefix(sa, r.mac)
                            /\ r.tag = TagT /\ HasPrefix(sa, r.mac)
                                  => r \in Reached(NoteRows, TagT, sa)
    BY <2>1, <2>2, ReachedRows
  <2>4. ASSUME NEW n \in notes, NEW r \in Reached(NoteRows, TagT, sa),
               r.mac = n.mac, r.junk = n.junk
        PROVE  HasPrefix(sa, n.mac)
    <3>1. r \in NoteRows
      BY DEF Reached
    <3>2. HasPrefix(sa, r.mac)
      BY <3>1, <2>3
    <3> QED
      BY <3>2, <2>4
  <2>5. ASSUME NEW n \in notes, HasPrefix(sa, n.mac)
        PROVE  \E r \in Reached(NoteRows, TagT, sa) : r.mac = n.mac /\ r.junk = n.junk
    <3> DEFINE r == [tag |-> TagT, mac |-> n.mac, junk |-> n.junk, dt |-> TextTime[n.text]]
    <3>1. r \in NoteRows
      BY DEF NoteRows
    <3>2. r.tag = TagT /\ r.mac = n.mac /\ r.junk = n.junk
      OBVIOUS
    <3> HIDE DEF r
    <3>3. r \in Reached(NoteRows, TagT, sa)
      BY <3>1, <3>2, <2>3, <2>5
    <3> QED
      BY <3>2, <3>3
  <2> QED
    BY <2>4, <2>5 DEF RemovedNotes
<1> QED
  BY <1>1, TypeCorrect, PTL
=============================================================================
