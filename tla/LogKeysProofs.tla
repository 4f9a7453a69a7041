--------------------------- MODULE LogKeysProofs ---------------------------
(***************************************************************************)
(* Lemmas about the order of the keys and the scans of LogKeys, for MAC    *)
(* addresses of any length, over bytes of any range.                       *)
(***************************************************************************)
EXTENDS LogKeys, FiniteSetTheorems, SequenceTheorems, WellFoundedInduction, TLAPS

-----------------------------------------------------------------------------
(* The order of two sequences of numbers. *)

\* A set of numbers has a least one.
LEMMA LeastOf ==
    ASSUME NEW D, D \subseteq Nat, D # {}
    PROVE  \E i \in D : \A j \in D : i <= j
<1>1. PICK i \in D : \A j \in D : <<j, i>> \notin OpToRel(<, Nat)
  BY WFMin, NatLessThanWellFounded
<1>2. ASSUME NEW j \in D PROVE i <= j
  <2>1. i \in Nat /\ j \in Nat /\ ~(j < i)
    BY <1>1 DEF OpToRel
  <2> QED
    BY <2>1
<1> QED
  BY <1>2

\* The first place where two sequences differ decides which is before the other.
LEMMA BeforeAt ==
    ASSUME NEW s, NEW t, Len(s) \in Nat, Len(t) \in Nat,
           NEW i \in Nat, 1 <= i, i <= Len(s), i <= Len(t),
           \A j \in 1..i : s[j] \in Int, t[i] \in Int,
           \A j \in 1..(i - 1) : s[j] = t[j],
           s[i] < t[i]
    PROVE  Before(s, t) /\ ~Before(t, s)
<1> DEFINE n == Len(s)
           m == Len(t)
<1>1. n \in Nat /\ m \in Nat /\ i <= n /\ i <= m
  OBVIOUS
<1> HIDE DEF n, m
<1>2. \E e \in 0..n : e < m /\ (\A j \in 1..e : s[j] = t[j]) /\ (e = n \/ s[e + 1] < t[e + 1])
  <2>1. i - 1 \in 0..n /\ i - 1 < m /\ (i - 1) + 1 = i
    BY <1>1
  <2> QED
    BY <2>1
<1>3. ASSUME NEW e \in 0..m, e < n, \A j \in 1..e : t[j] = s[j], e = m \/ t[e + 1] < s[e + 1]
      PROVE  FALSE
  <2>1. CASE e >= i
    <3>1. i \in 1..e
      BY <2>1, <1>1
    <3> QED
      BY <3>1, <1>3
  <2>2. CASE e = i - 1
    <3>1. e # m /\ e + 1 = i
      BY <2>2, <1>1
    <3> QED
      BY <3>1, <1>3
  <2>3. CASE e < i - 1
    <3>1. e # m /\ e + 1 \in 1..(i - 1)
      BY <2>3, <1>1
    <3>2. s[e + 1] = t[e + 1] /\ t[e + 1] < s[e + 1]
      BY <3>1, <1>3
    <3>3. e + 1 \in 1..i
      BY <3>1
    <3> QED
      BY <3>2, <3>3
  <2> QED
    BY <2>1, <2>2, <2>3, <1>1
<1> QED
  BY <1>2, <1>3 DEF Before, n, m

\* A sequence is not before one that begins it, itself among them.
LEMMA PrefixNotBefore ==
    ASSUME NEW s, NEW p, Len(s) \in Nat, Len(p) \in Nat, Len(p) <= Len(s),
           \A i \in 1..Len(p) : p[i] \in Int /\ s[i] = p[i]
    PROVE  ~Before(s, p)
<1> DEFINE n == Len(s)
           m == Len(p)
<1>1. n \in Nat /\ m \in Nat /\ m <= n /\ \A i \in 1..m : p[i] \in Int /\ s[i] = p[i]
  OBVIOUS
<1> HIDE DEF n, m
<1>2. ASSUME NEW e \in 0..n, e < m, e = n \/ s[e + 1] < p[e + 1]
      PROVE  FALSE
  <2>1. e # n /\ e + 1 \in 1..m
    BY <1>1, <1>2
  <2>2. s[e + 1] = p[e + 1] /\ p[e + 1] \in Int /\ s[e + 1] < p[e + 1]
    BY <2>1, <1>1, <1>2
  <2> QED
    BY <2>2
<1> QED
  BY <1>2 DEF Before, n, m

\* Whatever does not begin with p, and is not before p, is behind everything that begins
\* with p: a scan that starts at p meets all that begins with p before it.
LEMMA OthersFollow ==
    ASSUME NEW s, NEW t, NEW p, NEW n \in Nat,
           Len(s) \in Nat, Len(t) \in Nat, Len(p) \in Nat,
           n <= Len(s), n <= Len(t), n <= Len(p),
           \A i \in 1..n : s[i] = p[i] /\ p[i] \in Int /\ t[i] \in Int,
           \E i \in 1..n : t[i] # p[i],
           ~Before(t, p)
    PROVE  Before(s, t)
<1> DEFINE D == {i \in 1..n : t[i] # p[i]}
<1>1. PICK i \in D : \A j \in D : i <= j
  <2>1. D \subseteq Nat /\ D # {}
    OBVIOUS
  <2> HIDE DEF D
  <2> QED
    BY <2>1, LeastOf
<1>2. i \in Nat /\ 1 <= i /\ i <= n
  OBVIOUS
<1>2a. t[i] # p[i] /\ \A j \in 1..(i - 1) : t[j] = p[j]
  BY <1>1, <1>2
<1>3. i <= Len(s) /\ i <= Len(t) /\ i <= Len(p)
  BY <1>2
<1>4. s[i] = p[i] /\ p[i] \in Int /\ t[i] \in Int
  OBVIOUS
<1> HIDE DEF D
<1>5a. \A j \in 1..i : s[j] \in Int /\ t[j] \in Int
  BY <1>2
<1>5. ~(t[i] < p[i])
  BY <1>2a, <1>2, <1>3, <1>4, <1>5a, BeforeAt
<1>6. s[i] < t[i]
  BY <1>2a, <1>4, <1>5
<1>7. \A j \in 1..(i - 1) : s[j] = t[j]
  <2>1. ASSUME NEW j \in 1..(i - 1) PROVE s[j] = t[j]
    <3>1. j \in 1..n
      BY <1>2
    <3> QED
      BY <3>1, <1>2a
  <2> QED
    BY <2>1
<1> QED
  BY <1>2, <1>3, <1>4, <1>6, <1>7, <1>5a, BeforeAt

-----------------------------------------------------------------------------
(* The bytes of a key. *)

\* A whole MAC and two numbers: the keys of the records, and where a scan by MAC begins.
KeyOf(m, x, y) == m \o <<x, y>>

\* A key is the MAC, the unassigned byte and the time, in this order.
LEMMA KeyShape ==
    ASSUME NEW m \in Mac, NEW x \in Nat, NEW y \in Nat
    PROVE  /\ Len(KeyOf(m, x, y)) = MacLen + 2
           /\ \A i \in 1..MacLen : KeyOf(m, x, y)[i] = m[i] /\ m[i] \in Nat
           /\ KeyOf(m, x, y)[MacLen + 1] = x
           /\ KeyOf(m, x, y)[MacLen + 2] = y
<1>1. MacLen \in Nat /\ Byte \subseteq Nat
  BY KeyConstants
<1>2. m \in Seq(Nat) /\ Len(m) = MacLen /\ \A i \in 1..MacLen : m[i] \in Nat
  <2>1. m \in [1..MacLen -> Nat]
    BY <1>1 DEF Mac
  <2> QED
    BY <2>1, <1>1, SeqDef
<1> DEFINE e == <<x, y>>
<1>3. e \in Seq(Nat) /\ Len(e) = 2 /\ e[1] = x /\ e[2] = y
  OBVIOUS
<1> HIDE DEF e
<1>4. /\ Len(m \o e) = MacLen + 2
      /\ \A i \in 1..(MacLen + 2) : (m \o e)[i] = IF i <= MacLen THEN m[i] ELSE e[i - MacLen]
  <2>1. /\ Len(m \o e) = Len(m) + Len(e)
        /\ \A i \in 1..(Len(m) + Len(e)) :
              (m \o e)[i] = IF i <= Len(m) THEN m[i] ELSE e[i - Len(m)]
    BY <1>2, <1>3, ConcatProperties
  <2> QED
    BY <2>1, <1>2, <1>3
<1>5. (m \o e)[MacLen + 1] = x /\ (m \o e)[MacLen + 2] = y
  <2> DEFINE c == m \o e
  <2>1. \A i \in 1..(MacLen + 2) : c[i] = IF i <= MacLen THEN m[i] ELSE e[i - MacLen]
    BY <1>4
  <2> HIDE DEF c
  <2>2. MacLen + 1 \in 1..(MacLen + 2) /\ MacLen + 2 \in 1..(MacLen + 2)
    BY <1>1
  <2>3. c[MacLen + 1] = e[1] /\ c[MacLen + 2] = e[2]
    BY <1>1, <2>1, <2>2
  <2> QED
    BY <1>3, <2>3 DEF c
<1> QED
  BY <1>1, <1>2, <1>4, <1>5 DEF e, KeyOf

\* The key of a record is its MAC, the unassigned byte and the time.
LEMMA KeyBytesShape ==
    ASSUME NEW k \in LogKey
    PROVE  /\ k.mac \in Mac /\ k.pad \in Nat /\ k.dt \in Nat
           /\ Len(KeyBytes(k)) = MacLen + 2
           /\ \A i \in 1..MacLen : KeyBytes(k)[i] = k.mac[i] /\ k.mac[i] \in Nat
           /\ KeyBytes(k)[MacLen + 1] = k.pad
           /\ KeyBytes(k)[MacLen + 2] = k.dt
           /\ \A i \in 1..(MacLen + 2) : KeyBytes(k)[i] \in Nat
<1>1. k.mac \in Mac /\ k.pad \in Nat /\ k.dt \in Nat
  <2>1. k.mac \in Mac /\ k.pad \in PadByte /\ k.dt \in Time
    BY DEF LogKey
  <2>2. PadByte \subseteq Nat /\ MaxTime \in Nat
    BY KeyConstants
  <2>3. k.pad \in Nat
    BY <2>1, <2>2
  <2>4. k.dt \in Nat
    BY <2>1, <2>2 DEF Time
  <2> QED
    BY <2>1, <2>3, <2>4
<1>2. /\ Len(KeyBytes(k)) = MacLen + 2
      /\ \A i \in 1..MacLen : KeyBytes(k)[i] = k.mac[i] /\ k.mac[i] \in Nat
      /\ KeyBytes(k)[MacLen + 1] = k.pad
      /\ KeyBytes(k)[MacLen + 2] = k.dt
  <2>1. KeyBytes(k) = KeyOf(k.mac, k.pad, k.dt)
    BY DEF KeyBytes, KeyOf
  <2> QED
    BY <2>1, <1>1, KeyShape
<1>3. ASSUME NEW i \in 1..(MacLen + 2) PROVE KeyBytes(k)[i] \in Nat
  <2>1. i \in 1..MacLen \/ i = MacLen + 1 \/ i = MacLen + 2
    BY KeyConstants
  <2> QED
    BY <2>1, <1>1, <1>2
<1> QED
  BY <1>1, <1>2, <1>3

\* The bytes of a MAC address a user gives.
LEMMA PrefixShape ==
    ASSUME NEW sa \in MacPrefix
    PROVE  /\ Len(sa) \in 0..MacLen
           /\ sa \in Seq(Byte)
           /\ \A i \in 1..Len(sa) : sa[i] \in Byte /\ sa[i] \in Nat
           /\ Len(sa) = MacLen => sa \in Mac
<1>1. MacLen \in Nat /\ Byte \subseteq Nat
  BY KeyConstants
<1>2. PICK n \in 0..MacLen : sa \in [1..n -> Byte]
  BY DEF MacPrefix
<1>3. n \in Nat
  BY <1>1, <1>2
<1>4. sa \in Seq(Byte) /\ Len(sa) = n
  BY <1>2, <1>3, SeqDef
<1>5. \A i \in 1..n : sa[i] \in Byte /\ sa[i] \in Nat
  BY <1>1, <1>2
<1> QED
  BY <1>2, <1>4, <1>5 DEF Mac

\* A MAC is its bytes.
LEMMA SameMac ==
    ASSUME NEW m \in Mac, NEW z \in Mac, \A i \in 1..MacLen : m[i] = z[i]
    PROVE  m = z
<1>1. MacLen \in Nat
  BY KeyConstants
<1>2. m \in Seq(Byte) /\ z \in Seq(Byte) /\ Len(m) = MacLen /\ Len(z) = MacLen
  BY <1>1, SeqDef DEF Mac
<1> QED
  BY <1>2, SeqEqual

\* A whole MAC that begins with all the bytes of another is that one.
LEMMA WholeMac ==
    ASSUME NEW sa \in Mac, NEW m \in Mac, Len(sa) = MacLen, HasPrefix(sa, m)
    PROVE  m = sa
<1>1. \A i \in 1..MacLen : m[i] = sa[i]
  BY DEF HasPrefix
<1> QED
  BY <1>1 DEF Mac

\* The bytes rmLog fills with zeros make a whole MAC that begins with the given ones.
LEMMA ZeroFilledShape ==
    ASSUME NEW sa \in MacPrefix
    PROVE  /\ ZeroFilled(sa) \in Mac
           /\ \A i \in 1..Len(sa) : ZeroFilled(sa)[i] = sa[i]
           /\ \A i \in 1..MacLen : ~(i <= Len(sa)) => ZeroFilled(sa)[i] = 0
<1>1. MacLen \in Nat /\ Byte \subseteq Nat /\ 0 \in Byte
  BY KeyConstants
<1> DEFINE n == Len(sa)
<1>2. n \in 0..MacLen /\ \A i \in 1..n : sa[i] \in Byte
  BY PrefixShape
<1> HIDE DEF n
<1> DEFINE z == [i \in 1..MacLen |-> IF i <= n THEN sa[i] ELSE 0]
<1>3. z \in Mac
  BY <1>1, <1>2 DEF Mac
<1>4. \A i \in 1..n : z[i] = sa[i]
  BY <1>1, <1>2
<1>5. \A i \in 1..MacLen : ~(i <= n) => z[i] = 0
  OBVIOUS
<1>6. ZeroFilled(sa) = z
  BY DEF ZeroFilled, n
<1> HIDE DEF z
<1> QED
  BY <1>3, <1>4, <1>5, <1>6 DEF n

-----------------------------------------------------------------------------
(* The scans of the log. *)

\* The ends of a range are numbers, the first not behind the last.
LEMMA RangeShape ==
    ASSUME NEW q \in Query
    PROVE  /\ q.sa \in MacPrefix /\ q.start \in Nat /\ q.pad \in Nat
           /\ Limit(q) \in Nat /\ First(q) \in Nat /\ Last(q) \in Nat
           /\ First(q) <= Last(q)
           /\ q.start <= Limit(q) => First(q) = q.start /\ Last(q) = Limit(q)
<1>1. /\ q.sa \in MacPrefix /\ q.start \in Nat /\ q.finish \in Nat /\ q.pad \in Nat
      /\ MaxTime \in Nat
  <2>1. /\ q.sa \in MacPrefix /\ q.start \in 0..MaxTime /\ q.finish \in 0..MaxTime
        /\ q.pad \in PadByte
    BY DEF Query
  <2>2. PadByte \subseteq Nat /\ MaxTime \in Nat
    BY KeyConstants
  <2>3. q.pad \in Nat
    BY <2>1, <2>2
  <2>4. q.start \in Nat /\ q.finish \in Nat
    BY <2>1, <2>2
  <2> QED
    BY <2>1, <2>2, <2>3, <2>4
<1> QED
  BY <1>1 DEF Limit, First, Last

\* A record a loop reaches is not one it ends at.
LEMMA VisitedIsNoStop ==
    ASSUME NEW log \in SUBSET LogKey, NEW q \in Query, NEW from, NEW k \in Visited(log, q, from)
    PROVE  k \in log /\ ~Stops(q, k)
<1>1. k \in log /\ k \in LogKey /\ ~Before(KeyBytes(k), from)
  BY DEF Visited
<1>2. Len(KeyBytes(k)) \in Nat /\ \A i \in 1..Len(KeyBytes(k)) : KeyBytes(k)[i] \in Int
  BY <1>1, KeyBytesShape, KeyConstants
<1>3. ~Before(KeyBytes(k), KeyBytes(k))
  BY <1>2, PrefixNotBefore
<1> QED
  BY <1>1, <1>3 DEF Visited

\* Whatever the cursor starts at, the records a call gives are selected ones.
LEMMA HitsAreSelected ==
    ASSUME NEW log \in SUBSET LogKey, NEW q \in Query, NEW from
    PROVE  Hits(log, q, from) \subseteq Selected(log, q)
BY VisitedIsNoStop DEF Hits, Selected, Stops

\* From a key that begins with the bytes of the MAC, all the records of other MACs ahead are
\* behind the records of this one.
LEMMA OtherMacsFollow ==
    ASSUME NEW sa \in MacPrefix, NEW k \in LogKey, NEW j \in LogKey, NEW from,
           Len(from) \in Nat, Len(sa) <= Len(from),
           \A i \in 1..Len(sa) : from[i] = sa[i],
           HasPrefix(sa, k.mac), ~HasPrefix(sa, j.mac), ~Before(KeyBytes(j), from)
    PROVE  Before(KeyBytes(k), KeyBytes(j))
<1> DEFINE n == Len(sa)
           s == KeyBytes(k)
           t == KeyBytes(j)
<1>1. n \in Nat /\ n <= MacLen /\ MacLen \in Nat /\ \A i \in 1..n : sa[i] \in Nat
  BY PrefixShape, KeyConstants
<1>2. /\ Len(s) \in Nat /\ Len(t) \in Nat /\ n <= Len(s) /\ n <= Len(t)
      /\ \A i \in 1..MacLen : s[i] = k.mac[i] /\ t[i] = j.mac[i] /\ t[i] \in Nat
  BY <1>1, KeyBytesShape
<1>3. (\A i \in 1..n : k.mac[i] = sa[i]) /\ \E i \in 1..n : j.mac[i] # sa[i]
  BY DEF HasPrefix
<1>4. n <= Len(from) /\ (\A i \in 1..n : from[i] = sa[i]) /\ ~Before(t, from)
  OBVIOUS
<1> HIDE DEF n, s, t
<1>5. \A i \in 1..n : i \in 1..MacLen
  BY <1>1
<1>6. \A i \in 1..n : s[i] = from[i] /\ from[i] \in Int /\ t[i] \in Int
  BY <1>1, <1>2, <1>3, <1>4, <1>5
<1>7. \E i \in 1..n : t[i] # from[i]
  BY <1>2, <1>3, <1>4, <1>5
<1>8. Before(s, t)
  BY <1>1, <1>2, <1>4, <1>6, <1>7, OthersFollow
<1> QED
  BY <1>8 DEF s, t

-----------------------------------------------------------------------------
(* What the calls of a user select, whatever records there are. *)

\* readLog with some bytes of a MAC, or none (dblog.cpp 420-540), gives the records of the
\* range: the scan starts at the bytes themselves, and the loop ends behind all of them.
LEMMA PartialRead ==
    ASSUME NEW log \in SUBSET LogKey, NEW q \in Query, ~IsFullMac(q)
    PROVE  ReadHits(log, q) = Selected(log, q)
<1> DEFINE from == ReadFrom(q)
<1>1. from = q.sa /\ q.sa \in MacPrefix
  BY RangeShape DEF ReadFrom
<1>2. Len(from) \in Nat /\ Len(q.sa) <= Len(from) /\ \A i \in 1..Len(q.sa) : from[i] = q.sa[i]
  BY <1>1, PrefixShape
<1> HIDE DEF from
<1>3. ASSUME NEW k \in Selected(log, q) PROVE k \in Hits(log, q, from)
  <2>1. k \in log /\ k \in LogKey /\ HasPrefix(q.sa, k.mac)
    BY DEF Selected
  <2>2. ~Before(KeyBytes(k), from)
    <3>1. /\ Len(KeyBytes(k)) = MacLen + 2 /\ MacLen \in Nat
          /\ \A i \in 1..MacLen : KeyBytes(k)[i] = k.mac[i] /\ k.mac[i] \in Nat
      BY <2>1, KeyBytesShape, KeyConstants
    <3>2. Len(from) <= MacLen
      BY <1>1, PrefixShape, <3>1
    <3>3. \A i \in 1..Len(from) : from[i] \in Int /\ k.mac[i] = from[i]
      BY <1>1, <2>1, PrefixShape DEF HasPrefix
    <3> DEFINE n == Len(from)
               s == KeyBytes(k)
    <3>4. n \in Nat /\ n <= MacLen
      BY <1>2, <3>2
    <3> HIDE DEF n, s
    <3>5. \A i \in 1..n : i \in 1..MacLen
      BY <3>1, <3>4
    <3>6. \A i \in 1..n : from[i] \in Int /\ s[i] = from[i]
      BY <3>1, <3>3, <3>5 DEF n, s
    <3>7. Len(s) \in Nat /\ n <= Len(s)
      BY <3>1, <3>4 DEF s
    <3> QED
      BY <3>4, <3>6, <3>7, PrefixNotBefore DEF n, s
  <2>3. ASSUME NEW j \in log, ~Before(KeyBytes(j), from), Stops(q, j)
        PROVE  Before(KeyBytes(k), KeyBytes(j))
    <3>1. j \in LogKey /\ ~HasPrefix(q.sa, j.mac)
      BY <2>3 DEF Stops
    <3> QED
      BY <1>1, <1>2, <2>1, <2>3, <3>1, OtherMacsFollow
  <2>4. k \in Visited(log, q, from)
    BY <2>1, <2>2, <2>3 DEF Visited
  <2> QED
    BY <2>4 DEF Hits, Selected
<1>4. Hits(log, q, from) \subseteq Selected(log, q)
  BY HitsAreSelected
<1> QED
  BY <1>3, <1>4 DEF ReadHits, from

\* readLog with a whole MAC: where the unassigned bytes agree, the keys of the MAC are in
\* time order, so the scan meets the range from its beginning to its end.
LEMMA FullRead ==
    ASSUME NEW log \in SUBSET LogKey, NEW q \in Query, IsFullMac(q), q.start <= Limit(q),
           \A k \in log : k.mac = q.sa => k.pad = q.pad
    PROVE  ReadHits(log, q) = Selected(log, q)
<1> DEFINE from == ReadFrom(q)
<1>1. /\ q.sa \in MacPrefix /\ q.sa \in Mac /\ Len(q.sa) = MacLen
      /\ from = KeyOf(q.sa, q.pad, q.start) /\ q.pad \in Nat /\ q.start \in Nat
      /\ First(q) = q.start /\ Last(q) \in Nat
  BY RangeShape, PrefixShape DEF ReadFrom, IsFullMac, KeyOf
<1>2. MacLen \in Nat
  BY KeyConstants
<1> HIDE DEF from
<1>3. /\ Len(from) = MacLen + 2
      /\ \A i \in 1..MacLen : from[i] = q.sa[i] /\ q.sa[i] \in Nat
      /\ from[MacLen + 1] = q.pad /\ from[MacLen + 2] = q.start
  <2> DEFINE m == q.sa  x == q.pad  y == q.start
  <2>1. m \in Mac /\ x \in Nat /\ y \in Nat /\ from = KeyOf(m, x, y)
    BY <1>1
  <2> HIDE DEF m, x, y
  <2>2. /\ Len(from) = MacLen + 2
        /\ \A i \in 1..MacLen : from[i] = m[i] /\ m[i] \in Nat
        /\ from[MacLen + 1] = x /\ from[MacLen + 2] = y
    BY <2>1, KeyShape
  <2> QED
    BY <2>2 DEF m, x, y
\* The keys of the MAC begin as the key of the query does, up to the time.
<1>4. ASSUME NEW k \in log, HasPrefix(q.sa, k.mac)
      PROVE  /\ k \in LogKey
             /\ Len(KeyBytes(k)) = MacLen + 2
             /\ \A i \in 1..(MacLen + 1) : KeyBytes(k)[i] = from[i] /\ from[i] \in Nat
             /\ KeyBytes(k)[MacLen + 2] = k.dt /\ k.dt \in Nat
  <2>1. /\ k \in LogKey /\ k.mac \in Mac
        /\ Len(KeyBytes(k)) = MacLen + 2
        /\ \A i \in 1..MacLen : KeyBytes(k)[i] = k.mac[i]
        /\ KeyBytes(k)[MacLen + 1] = k.pad
        /\ KeyBytes(k)[MacLen + 2] = k.dt /\ k.dt \in Nat
    BY KeyBytesShape
  <2>2. k.mac = q.sa
    BY <1>1, <1>4, <2>1, WholeMac
  <2>3. k.pad = q.pad
    BY <2>2
  <2>4. ASSUME NEW i \in 1..(MacLen + 1) PROVE KeyBytes(k)[i] = from[i] /\ from[i] \in Nat
    <3>1. i \in 1..MacLen \/ i = MacLen + 1
      BY <1>2
    <3> QED
      BY <3>1, <1>1, <1>3, <2>1, <2>2, <2>3
  <2> QED
    BY <2>1, <2>4
\* So a later time is a later key, and the first time is not before the query's.
<1>5. ASSUME NEW k \in log, HasPrefix(q.sa, k.mac), q.start <= k.dt
      PROVE  ~Before(KeyBytes(k), from)
  <2> DEFINE s == KeyBytes(k)
             t == from
             n == MacLen + 2
  <2>1. /\ Len(s) = n /\ Len(t) = n /\ n \in Nat /\ 1 <= n
        /\ \A i \in 1..(n - 1) : s[i] = t[i] /\ t[i] \in Int
        /\ s[n] = k.dt /\ t[n] = q.start /\ s[n] \in Int /\ t[n] \in Int
    <3>1. Len(s) = n /\ Len(t) = n /\ n \in Nat /\ 1 <= n
      BY <1>2, <1>3, <1>4, <1>5
    <3>2. \A i \in 1..(n - 1) : s[i] = t[i] /\ t[i] \in Int
      BY <1>2, <1>4, <1>5
    <3>3. s[n] = k.dt /\ t[n] = q.start /\ s[n] \in Int /\ t[n] \in Int
      <4>1. s[n] = k.dt /\ k.dt \in Nat
        BY <1>4, <1>5
      <4>2. t[n] = q.start /\ q.start \in Nat
        BY <1>1, <1>3
      <4> QED
        BY <4>1, <4>2
    <3> QED
      BY <3>1, <3>2, <3>3
  <2> HIDE DEF s, t, n
  <2>2. \A i \in 1..n : t[i] \in Int
    <3>1. \A i \in 1..n : i \in 1..(n - 1) \/ i = n
      BY <2>1
    <3> QED
      BY <2>1, <3>1
  <2>3. CASE s[n] = t[n]
    <3>1. \A i \in 1..n : i \in 1..(n - 1) \/ i = n
      BY <2>1
    <3>2. \A i \in 1..n : t[i] \in Int /\ s[i] = t[i]
      BY <2>1, <2>2, <2>3, <3>1
    <3>3. ~Before(s, t)
      BY <2>1, <3>2, PrefixNotBefore
    <3> QED
      BY <3>3 DEF s, t
  <2>4. CASE t[n] < s[n]
    <3>1. \A i \in 1..(n - 1) : t[i] = s[i]
      BY <2>1
    <3>2. ~Before(s, t)
      BY <2>1, <2>2, <2>4, <3>1, BeforeAt
    <3> QED
      BY <3>2 DEF s, t
  <2> QED
    BY <2>1, <2>3, <2>4, <1>5
<1>6. ASSUME NEW k \in log, NEW j \in log, HasPrefix(q.sa, k.mac), HasPrefix(q.sa, j.mac),
             k.dt < j.dt
      PROVE  Before(KeyBytes(k), KeyBytes(j))
  <2> DEFINE s == KeyBytes(k)
             t == KeyBytes(j)
             n == MacLen + 2
  <2>1. /\ Len(s) = n /\ Len(t) = n /\ n \in Nat /\ 1 <= n
        /\ \A i \in 1..(n - 1) : s[i] = t[i] /\ s[i] \in Int
        /\ s[n] \in Int /\ t[n] \in Int /\ s[n] < t[n]
    BY <1>2, <1>4, <1>6
  <2> HIDE DEF s, t, n
  <2>2. \A i \in 1..n : s[i] \in Int
    <3>1. \A i \in 1..n : i \in 1..(n - 1) \/ i = n
      BY <2>1
    <3> QED
      BY <2>1, <3>1
  <2>3. Before(s, t)
    BY <2>1, <2>2, BeforeAt
  <2> QED
    BY <2>3 DEF s, t
<1>7. ASSUME NEW k \in Selected(log, q) PROVE k \in Hits(log, q, from)
  <2>1. k \in log /\ HasPrefix(q.sa, k.mac) /\ q.start <= k.dt /\ k.dt <= Last(q)
    BY <1>1 DEF Selected
  <2>2. k \in LogKey /\ k.dt \in Nat
    BY <2>1, <1>4
  <2>3. ~Before(KeyBytes(k), from)
    BY <2>1, <1>5
  <2>4. ASSUME NEW j \in log, ~Before(KeyBytes(j), from), Stops(q, j)
        PROVE  Before(KeyBytes(k), KeyBytes(j))
    <3>1. CASE ~HasPrefix(q.sa, j.mac)
      <4>1. /\ Len(from) \in Nat /\ Len(q.sa) <= Len(from)
            /\ \A i \in 1..Len(q.sa) : from[i] = q.sa[i]
        BY <1>1, <1>2, <1>3
      <4>2. j \in LogKey
        OBVIOUS
      <4> QED
        BY <1>1, <2>1, <2>2, <2>4, <3>1, <4>1, <4>2, OtherMacsFollow
    <3>2. CASE HasPrefix(q.sa, j.mac)
      <4>1. j.dt > Last(q) /\ j.dt \in Nat
        BY <2>4, <3>2, <1>4 DEF Stops
      <4>2. k.dt < j.dt
        BY <4>1, <2>1, <2>2, <1>1
      <4> QED
        BY <4>2, <3>2, <2>1, <1>6
    <3> QED
      BY <3>1, <3>2
  <2>5. k \in Visited(log, q, from)
    BY <2>1, <2>3, <2>4 DEF Visited
  <2> QED
    BY <2>1, <2>5, <1>1 DEF Hits
<1>8. Hits(log, q, from) \subseteq Selected(log, q)
  BY HitsAreSelected
<1> QED
  BY <1>7, <1>8 DEF ReadHits, from

\* rmLog with some bytes of a MAC, or none (dblog.cpp 550-661), leaves no selected record but
\* those of the MAC whose missing bytes are zeros: they can be before the key of the query.
LEMMA PartialRemoval ==
    ASSUME NEW log \in SUBSET LogKey, NEW q \in Query,
           NEW k \in Selected(log, q), k \notin RmHits(log, q)
    PROVE  k.mac = ZeroFilled(q.sa) \/ IsFullMac(q)
<1> SUFFICES ASSUME k.mac # ZeroFilled(q.sa), ~IsFullMac(q) PROVE FALSE
  OBVIOUS
<1> DEFINE from == RmFrom(q)
           z == ZeroFilled(q.sa)
           n == Len(q.sa)
<1>1. /\ q.sa \in MacPrefix /\ n \in Nat /\ n <= MacLen /\ MacLen \in Nat
      /\ from = KeyOf(z, q.pad, q.start) /\ q.pad \in Nat /\ q.start \in Nat
  BY RangeShape, PrefixShape, KeyConstants DEF RmFrom, KeyOf
<1>2. /\ z \in Mac
      /\ \A i \in 1..n : z[i] = q.sa[i]
      /\ \A i \in 1..MacLen : ~(i <= n) => z[i] = 0
  BY <1>1, ZeroFilledShape
<1>3. /\ Len(from) = MacLen + 2
      /\ \A i \in 1..MacLen : from[i] = z[i] /\ z[i] \in Nat
  BY <1>1, <1>2, KeyShape
<1>4. k \in log /\ k \in LogKey /\ HasPrefix(q.sa, k.mac)
  BY DEF Selected
<1>5. /\ k.mac \in Mac /\ Len(KeyBytes(k)) = MacLen + 2
      /\ \A i \in 1..MacLen : KeyBytes(k)[i] = k.mac[i] /\ k.mac[i] \in Nat
  BY <1>4, KeyBytesShape
<1>6. \A i \in 1..n : k.mac[i] = q.sa[i]
  BY <1>4 DEF HasPrefix
<1>7. k.mac # z
  OBVIOUS
<1> HIDE DEF from, z, n
<1>8. ~Before(KeyBytes(k), from)
  <2> DEFINE D == {i \in 1..MacLen : k.mac[i] # z[i]}
             s == KeyBytes(k)
             m == k.mac
  <2>1. m # z /\ m \in [1..MacLen -> Byte] /\ z \in [1..MacLen -> Byte]
    BY <1>2, <1>5, <1>7 DEF Mac
  <2>2. D # {} /\ D \subseteq Nat
    <3>1. ASSUME \A i \in 1..MacLen : k.mac[i] = z[i] PROVE FALSE
      <4>1. m \in Mac /\ z \in Mac /\ \A i \in 1..MacLen : m[i] = z[i]
        BY <1>2, <1>5, <3>1
      <4> HIDE DEF m
      <4>2. m = z
        BY <4>1, SameMac
      <4> QED
        BY <4>2, <2>1
    <3> QED
      BY <3>1
  <2>3. PICK i \in D : \A j \in D : i <= j
    <3> HIDE DEF D
    <3> QED
      BY <2>2, LeastOf
  <2>4. i \in 1..MacLen /\ i \in Nat /\ k.mac[i] # z[i]
    OBVIOUS
  <2>5. \A j \in 1..(i - 1) : j \in 1..MacLen /\ k.mac[j] = z[j]
    BY <2>3, <2>4, <1>1
  <2>6. ~(i <= n)
    BY <2>4, <1>1, <1>2, <1>6
  <2>7. z[i] = 0 /\ k.mac[i] \in Nat
    BY <2>4, <2>6, <1>2, <1>5
  <2>8. from[i] \in Int /\ s[i] \in Int /\ from[i] < s[i]
    BY <2>4, <2>7, <1>3, <1>5
  <2>9. \A j \in 1..(i - 1) : from[j] = s[j]
    BY <2>5, <1>3, <1>5
  <2>10. \A j \in 1..i : from[j] \in Int
    <3>1. \A j \in 1..i : j \in 1..MacLen
      BY <2>4, <1>1
    <3> QED
      BY <3>1, <1>3
  <2>11. /\ Len(from) \in Nat /\ Len(s) \in Nat /\ 1 <= i /\ i <= Len(from) /\ i <= Len(s)
    BY <2>4, <1>1, <1>3, <1>5
  <2> HIDE DEF s
  <2>12. ~Before(s, from)
    BY <2>4, <2>8, <2>9, <2>10, <2>11, BeforeAt
  <2> QED
    BY <2>12 DEF s
<1>9. ASSUME NEW j \in log, ~Before(KeyBytes(j), from), Stops(q, j)
      PROVE  Before(KeyBytes(k), KeyBytes(j))
  <2>1. j \in LogKey /\ ~HasPrefix(q.sa, j.mac)
    BY <1>9 DEF Stops
  <2>2. \A i \in 1..n : i \in 1..MacLen
    BY <1>1
  <2>3. \A i \in 1..n : from[i] = q.sa[i]
    BY <2>2, <1>2, <1>3
  <2>4. Len(from) \in Nat /\ n <= Len(from)
    BY <1>1, <1>3
  <2> QED
    BY <1>1, <1>4, <1>9, <2>1, <2>3, <2>4, OtherMacsFollow DEF n
<1>10. k \in Visited(log, q, from)
  BY <1>4, <1>8, <1>9 DEF Visited
<1>11. k \in Hits(log, q, from)
  BY <1>10 DEF Hits, Selected
<1> QED
  BY <1>11 DEF RmHits, from

-----------------------------------------------------------------------------
(* The rows a cursor gives, in their order. *)

\* What a sequence has, and that something is one.
Elements(s) == {s[i] : i \in DOMAIN s}
IsSeq(s)    == s \in Seq(Elements(s))

\* What holds of a sequence whose members have a type.
LEMMA SeqIsSeq ==
    ASSUME NEW T, NEW s \in Seq(T)
    PROVE  IsSeq(s) /\ Len(s) \in Nat /\ Elements(s) \subseteq T
<1>1. Len(s) \in Nat /\ s \in [1..Len(s) -> T] /\ DOMAIN s = 1..Len(s)
  BY LenProperties
<1> DEFINE n == Len(s)
<1>2. s \in [1..n -> Elements(s)] /\ n \in Nat /\ Elements(s) \subseteq T
  BY <1>1 DEF Elements
<1> HIDE DEF n
<1>3. s \in Seq(Elements(s))
  BY <1>2, SeqDef
<1> QED
  BY <1>1, <1>2, <1>3 DEF IsSeq

\* One sequence behind another, place by place.
LEMMA ConcatIsSeq ==
    ASSUME NEW s, NEW t, IsSeq(s), IsSeq(t)
    PROVE  /\ IsSeq(s \o t) /\ Len(s) \in Nat /\ Len(t) \in Nat
           /\ Len(s \o t) = Len(s) + Len(t)
           /\ \A i \in 1..(Len(s) + Len(t)) :
                 (s \o t)[i] = IF i <= Len(s) THEN s[i] ELSE t[i - Len(s)]
<1> DEFINE T == Elements(s) \cup Elements(t)
<1>1. s \in Seq(T) /\ t \in Seq(T)
  <2>1. Elements(s) \subseteq T /\ Elements(t) \subseteq T
    OBVIOUS
  <2>2. s \in Seq(Elements(s)) /\ t \in Seq(Elements(t))
    BY DEF IsSeq
  <2> HIDE DEF T
  <2> QED
    BY <2>1, <2>2, SeqMonotonic
<1> HIDE DEF T
<1>2. /\ s \o t \in Seq(T) /\ Len(s \o t) = Len(s) + Len(t)
      /\ \A i \in 1..(Len(s) + Len(t)) :
            (s \o t)[i] = IF i <= Len(s) THEN s[i] ELSE t[i - Len(s)]
  BY <1>1, ConcatProperties
<1>3. IsSeq(s \o t) /\ Len(s) \in Nat /\ Len(t) \in Nat
  BY <1>1, <1>2, SeqIsSeq
<1> QED
  BY <1>2, <1>3

\* However the keys compare, a cursor gives as many rows as there are.
LEMMA InOrderIsSeq ==
    ASSUME NEW rows, IsFiniteSet(rows), NEW key
    PROVE  IsSeq(InOrder(rows, key)) /\ Len(InOrder(rows, key)) = Cardinality(rows)
<1> DEFINE n == Cardinality(rows)
           s == InOrder(rows, key)
<1>1. n \in Nat
  BY FS_CardinalityType
<1>2. DOMAIN s = 1..n /\ s = [i \in 1..n |-> s[i]]
  BY DEF InOrder
<1> HIDE DEF s, n
<1>3. s \in [1..n -> Elements(s)]
  BY <1>2 DEF Elements
<1>4. s \in Seq(Elements(s)) /\ Len(s) = n
  BY <1>1, <1>3, SeqDef
<1> QED
  BY <1>4 DEF IsSeq, s, n

\* The rows are in the order: nothing is before itself, one is before the other of any two.
Ordered(rows, key) ==
    /\ \A r \in rows : ~Before(key[r], key[r])
    /\ \A r, s, t \in rows :
          Before(key[r], key[s]) /\ Before(key[s], key[t]) => Before(key[r], key[t])
    /\ \A r, s \in rows : r # s => Before(key[r], key[s]) \/ Before(key[s], key[r])

\* Where the keys order the rows, a cursor gives each of them, and nothing else.
LEMMA InOrderIsComplete ==
    ASSUME NEW rows, IsFiniteSet(rows), NEW key, Ordered(rows, key)
    PROVE  InOrder(rows, key) \in Seq(rows) /\ Elements(InOrder(rows, key)) = rows
<1> DEFINE n == Cardinality(rows)
           before(r) == {s \in rows : Before(key[s], key[r])}
           rank == [r \in rows |-> Cardinality(before(r)) + 1]
<1>1. n \in Nat
  BY FS_CardinalityType
<1>2. ASSUME NEW r \in rows
      PROVE  IsFiniteSet(before(r)) /\ Cardinality(before(r)) \in 0..(n - 1)
  <2>1. before(r) \in SUBSET rows /\ r \notin before(r)
    BY DEF Ordered
  <2>2. IsFiniteSet(before(r)) /\ Cardinality(before(r)) <= n /\ Cardinality(before(r)) # n
    BY <2>1, FS_Subset
  <2>3. Cardinality(before(r)) \in Nat
    BY <2>2, FS_CardinalityType
  <2> QED
    BY <1>1, <2>2, <2>3
\* A row has more rows before it than any that is before it has.
<1>3. ASSUME NEW r \in rows, NEW s \in rows, Before(key[r], key[s])
      PROVE  Cardinality(before(r)) # Cardinality(before(s))
  <2>1. before(r) \in SUBSET before(s)
    BY <1>3 DEF Ordered
  <2>2. r \in before(s) /\ r \notin before(r)
    BY <1>3 DEF Ordered
  <2>3. before(r) # before(s)
    BY <2>2
  <2> QED
    BY <1>2, <2>1, <2>3, FS_Subset
<1> HIDE DEF before
<1>4. rank \in Injection(rows, 1..n)
  <2>1. rank \in [rows -> 1..n]
    <3>1. ASSUME NEW r \in rows PROVE Cardinality(before(r)) + 1 \in 1..n
      <4> DEFINE c == Cardinality(before(r))
      <4>1. c \in 0..(n - 1)
        BY <1>2
      <4> HIDE DEF c, n
      <4>2. c + 1 \in 1..n
        BY <1>1, <4>1
      <4> QED
        BY <4>2 DEF c
    <3> QED
      BY <3>1
  <2>2. ASSUME NEW r \in rows, NEW s \in rows, rank[r] = rank[s] PROVE r = s
    <3> DEFINE c == Cardinality(before(r))
               d == Cardinality(before(s))
    <3>1. c \in Nat /\ d \in Nat /\ c + 1 = d + 1
      <4>1. c \in 0..(n - 1) /\ d \in 0..(n - 1)
        BY <1>2
      <4>2. c + 1 = d + 1
        BY <2>2
      <4> HIDE DEF c, d
      <4> QED
        BY <4>1, <4>2
    <3> HIDE DEF c, d
    <3>2. c = d
      BY <3>1
    <3>3. ~Before(key[r], key[s]) /\ ~Before(key[s], key[r])
      BY <1>3, <3>2 DEF c, d
    <3> QED
      BY <3>3 DEF Ordered
  <2> QED
    BY <2>1, <2>2 DEF Injection, IsInjective
<1>5. rank \in Surjection(rows, 1..n)
  <2>1. IsFiniteSet(1..n) /\ Cardinality(1..n) = n
    <3>1. 1 \in Int /\ n \in Int
      BY <1>1
    <3>2. IsFiniteSet(1..n) /\ Cardinality(1..n) = IF 1 > n THEN 0 ELSE n - 1 + 1
      BY <3>1, FS_Interval
    <3> HIDE DEF n
    <3> QED
      BY <1>1, <3>2
  <2> HIDE DEF rank
  <2>2. Cardinality(rows) = Cardinality(1..n) <=> rank \in Surjection(rows, 1..n)
    BY <1>4, <2>1, FS_Injection
  <2> QED
    BY <2>1, <2>2
<1> DEFINE s == InOrder(rows, key)
           place(i) == CHOOSE r \in rows : Cardinality(before(r)) = i - 1
<1>6. s = [i \in 1..n |-> place(i)]
  BY DEF InOrder, before
<1>7. ASSUME NEW i \in 1..n PROVE place(i) \in rows /\ Cardinality(before(place(i))) = i - 1
  <2>1. PICK r \in rows : rank[r] = i
    BY <1>5 DEF Surjection
  <2>2. Cardinality(before(r)) = i - 1
    <3> DEFINE c == Cardinality(before(r))
    <3>1. c \in 0..(n - 1)
      BY <1>2
    <3>2. c + 1 = i
      BY <2>1
    <3> HIDE DEF c
    <3>3. c = i - 1
      BY <3>1, <3>2, <1>1
    <3> QED
      BY <3>3 DEF c
  <2> QED
    BY <2>2
<1>8. s \in [1..n -> rows] /\ \A i \in 1..n : s[i] = place(i)
  BY <1>6, <1>7
<1>9. ASSUME NEW r \in rows PROVE \E i \in 1..n : s[i] = r
  <2> DEFINE i == rank[r]
  <2>1. i \in 1..n /\ i \in Int
    BY <1>4 DEF Injection
  <2>2. place(i) \in rows /\ Cardinality(before(place(i))) = i - 1
    BY <1>7, <2>1
  <2>3. rank[place(i)] = i
    <3> DEFINE e == place(i)
               c == Cardinality(before(e))
    <3>1. rank[e] = c + 1 /\ c = i - 1
      BY <2>2
    <3> HIDE DEF c, e, i
    <3>2. rank[e] = i
      BY <2>1, <3>1
    <3> QED
      BY <3>2 DEF e
  <2>4. place(i) = r
    <3> DEFINE e == place(i)
    <3>1. e \in rows /\ rank[e] = rank[r]
      BY <2>2, <2>3
    <3> HIDE DEF e, rank
    <3>2. e = r
      BY <1>4, <3>1 DEF Injection, IsInjective
    <3> QED
      BY <3>2 DEF e
  <2> HIDE DEF i
  <2> QED
    BY <1>8, <2>1, <2>4
<1>10. s \in Seq(rows) /\ DOMAIN s = 1..n
  BY <1>1, <1>8, SeqDef
<1>11. Elements(s) = rows
  BY <1>8, <1>9, <1>10 DEF Elements
<1> QED
  BY <1>10, <1>11 DEF s

\* Of three keys, the first is before the third if the second is between them.
LEMMA BeforeTransitive ==
    ASSUME NEW s, NEW t, NEW u, Len(s) \in Nat, Len(t) \in Nat, Len(u) \in Nat,
           \A i \in 1..Len(s) : s[i] \in Int,
           \A i \in 1..Len(t) : t[i] \in Int,
           \A i \in 1..Len(u) : u[i] \in Int,
           Before(s, t), Before(t, u)
    PROVE  Before(s, u)
<1> DEFINE l == Len(s)
           m == Len(t)
           n == Len(u)
<1>1. PICK a \in 0..l : a < m /\ (\A i \in 1..a : s[i] = t[i]) /\ (a = l \/ s[a + 1] < t[a + 1])
  BY DEF Before
<1>2. PICK b \in 0..m : b < n /\ (\A i \in 1..b : t[i] = u[i]) /\ (b = m \/ t[b + 1] < u[b + 1])
  BY DEF Before
<1>3. /\ l \in Nat /\ m \in Nat /\ n \in Nat
      /\ (\A i \in 1..l : s[i] \in Int) /\ (\A i \in 1..m : t[i] \in Int)
      /\ (\A i \in 1..n : u[i] \in Int)
  OBVIOUS
<1> HIDE DEF l, m, n
<1>4. CASE a < b
  <2>1. \A i \in 1..a : i \in 1..b
    BY <1>1, <1>2, <1>3, <1>4
  <2>2. a + 1 \in 1..b
    BY <1>1, <1>2, <1>3, <1>4
  <2>3. \A i \in 1..a : s[i] = u[i]
    BY <1>1, <1>2, <2>1
  <2>4. a = l \/ s[a + 1] < u[a + 1]
    BY <1>1, <1>2, <2>2
  <2>5. a < n
    BY <1>1, <1>2, <1>3, <1>4
  <2> QED
    BY <2>3, <2>4, <2>5 DEF Before, l, n
<1>5. CASE a = b
  <2>1. \A i \in 1..a : s[i] = u[i]
    BY <1>1, <1>2, <1>5
  <2>2. b # m
    BY <1>1, <1>3, <1>5
  <2>3. a = l \/ s[a + 1] < u[a + 1]
    <3>1. CASE a = l
      BY <3>1
    <3>2. CASE a # l
      <4>1. a + 1 \in 1..l /\ a + 1 \in 1..m /\ a + 1 \in 1..n
        BY <1>1, <1>2, <1>3, <1>5, <3>2
      <4>2. s[a + 1] < t[a + 1] /\ t[a + 1] < u[a + 1]
        BY <1>1, <1>2, <1>5, <2>2, <3>2
      <4>3. s[a + 1] \in Int /\ t[a + 1] \in Int /\ u[a + 1] \in Int
        BY <1>3, <4>1
      <4> QED
        BY <4>2, <4>3
    <3> QED
      BY <3>1, <3>2
  <2>4. a < n
    BY <1>2, <1>5
  <2> QED
    BY <2>1, <2>3, <2>4 DEF Before, l, n
<1>6. CASE b < a
  <2>1. b # m /\ b \in 0..l /\ b + 1 \in 1..a
    BY <1>1, <1>2, <1>3, <1>6
  <2>2. \A i \in 1..b : i \in 1..a
    BY <1>1, <1>2, <1>3, <1>6
  <2>3. \A i \in 1..b : s[i] = u[i]
    BY <1>1, <1>2, <2>2
  <2>4. s[b + 1] < u[b + 1]
    BY <1>1, <1>2, <2>1
  <2> QED
    BY <1>2, <2>1, <2>3, <2>4 DEF Before, l, n
<1> QED
  BY <1>1, <1>2, <1>3, <1>4, <1>5, <1>6

\* Of two keys that differ, one is before the other.
LEMMA BeforeTotal ==
    ASSUME NEW s, NEW t, NEW n \in Nat, n <= Len(s), n <= Len(t),
           Len(s) \in Nat, Len(t) \in Nat,
           \A i \in 1..n : s[i] \in Int /\ t[i] \in Int,
           \E i \in 1..n : s[i] # t[i]
    PROVE  Before(s, t) \/ Before(t, s)
<1> DEFINE D == {i \in 1..n : s[i] # t[i]}
<1>1. PICK i \in D : \A j \in D : i <= j
  <2>1. D \subseteq Nat /\ D # {}
    OBVIOUS
  <2> HIDE DEF D
  <2> QED
    BY <2>1, LeastOf
<1>2. i \in Nat /\ 1 <= i /\ i <= n /\ s[i] # t[i] /\ s[i] \in Int /\ t[i] \in Int
  OBVIOUS
<1>3. \A j \in 1..i : s[j] \in Int /\ t[j] \in Int
  BY <1>2
<1>4. \A j \in 1..(i - 1) : s[j] = t[j]
  BY <1>1, <1>2
<1>5. \A j \in 1..(i - 1) : t[j] = s[j]
  BY <1>4
<1>6. i <= Len(s) /\ i <= Len(t)
  BY <1>2
<1> HIDE DEF D
<1>7. CASE s[i] < t[i]
  BY <1>2, <1>3, <1>4, <1>6, <1>7, BeforeAt
<1>8. CASE t[i] < s[i]
  BY <1>2, <1>3, <1>5, <1>6, <1>8, BeforeAt
<1> QED
  BY <1>2, <1>7, <1>8

\* The keys of the log order its records.
LEMMA LogIsOrdered ==
    ASSUME NEW rows \in SUBSET LogKey, NEW key, \A k \in rows : key[k] = KeyBytes(k)
    PROVE  Ordered(rows, key)
<1>1. ASSUME NEW k \in rows
      PROVE  /\ Len(KeyBytes(k)) \in Nat
             /\ \A i \in 1..Len(KeyBytes(k)) : KeyBytes(k)[i] \in Int
  BY KeyBytesShape, KeyConstants
<1>2. \A k \in rows : ~Before(KeyBytes(k), KeyBytes(k))
  BY <1>1, PrefixNotBefore
<1>3. ASSUME NEW k \in rows, NEW j \in rows, NEW l \in rows,
             Before(KeyBytes(k), KeyBytes(j)), Before(KeyBytes(j), KeyBytes(l))
      PROVE  Before(KeyBytes(k), KeyBytes(l))
  BY <1>1, <1>3, BeforeTransitive
<1>4. ASSUME NEW k \in rows, NEW j \in rows, k # j
      PROVE  Before(KeyBytes(k), KeyBytes(j)) \/ Before(KeyBytes(j), KeyBytes(k))
  <2> DEFINE s == KeyBytes(k)
             t == KeyBytes(j)
             n == MacLen + 2
  <2>1. MacLen \in Nat /\ n \in Nat
    BY KeyConstants
  <2>2. Len(s) = n /\ Len(t) = n /\ \A i \in 1..n : s[i] \in Int /\ t[i] \in Int
    BY KeyBytesShape
  <2>3. \E i \in 1..n : s[i] # t[i]
    <3> SUFFICES ASSUME \A i \in 1..n : s[i] = t[i] PROVE FALSE
      OBVIOUS
    <3>1. \A i \in 1..MacLen : i \in 1..n
      BY <2>1
    <3>2. MacLen + 1 \in 1..n /\ MacLen + 2 \in 1..n
      BY <2>1
    <3>3. /\ k.mac \in Mac /\ j.mac \in Mac
          /\ \A i \in 1..MacLen : s[i] = k.mac[i] /\ t[i] = j.mac[i]
          /\ s[MacLen + 1] = k.pad /\ t[MacLen + 1] = j.pad
          /\ s[MacLen + 2] = k.dt /\ t[MacLen + 2] = j.dt
      BY KeyBytesShape
    <3> HIDE DEF s, t, n
    <3>4. k.pad = j.pad /\ k.dt = j.dt
      BY <3>2, <3>3
    <3>5. \A i \in 1..MacLen : k.mac[i] = j.mac[i]
      BY <3>1, <3>3
    <3>6. k.mac = j.mac
      <4> DEFINE m == k.mac
                 o == j.mac
      <4>1. m \in Mac /\ o \in Mac /\ \A i \in 1..MacLen : m[i] = o[i]
        BY <3>3, <3>5
      <4> HIDE DEF m, o
      <4>2. m = o
        BY <4>1, SameMac
      <4> QED
        BY <4>2 DEF m, o
    <3>7. k = j
      BY <3>4, <3>6 DEF LogKey
    <3> QED
      BY <1>4, <3>7
  <2> HIDE DEF s, t, n
  <2>4. Before(s, t) \/ Before(t, s)
    <3>1. Len(s) \in Nat /\ Len(t) \in Nat /\ n <= Len(s) /\ n <= Len(t)
      BY <2>1, <2>2
    <3> QED
      BY <2>1, <2>2, <2>3, <3>1, BeforeTotal
  <2> QED
    BY <2>4 DEF s, t
<1> HIDE DEF KeyBytes
<1> QED
  BY <1>2, <1>3, <1>4 DEF Ordered

\* The rows of a scan that are written go on where the page ended.
LEMMA SliceGrows ==
    ASSUME NEW a, NEW b, IsSeq(a), IsSeq(b),
           NEW p \in Nat, NEW o \in Nat, NEW s \in Nat, NEW w \in Nat,
           p <= Len(a), s + w <= Len(b),
           w > 0 => Len(a) <= p /\ o <= p + s,
           s > 0 => p + s <= o
    PROVE  SubSeq(a, o + 1, p) \o SubSeq(b, s + 1, s + w) = SubSeq(a \o b, o + 1, p + s + w)
<1> DEFINE l == Len(a)
           n == Len(b)
           T == Elements(a) \cup Elements(b)
           c == a \o b
           u == SubSeq(a, o + 1, p)
           v == SubSeq(b, s + 1, s + w)
           g == IF o + 1 <= p THEN p - o ELSE 0
<1>1. /\ l \in Nat /\ n \in Nat
      /\ Len(c) = l + n
      /\ \A i \in 1..(l + n) : c[i] = IF i <= l THEN a[i] ELSE b[i - l]
  BY ConcatIsSeq
<1>2. p <= l /\ s + w <= n /\ (w > 0 => l <= p /\ o <= p + s) /\ (s > 0 => p + s <= o)
  OBVIOUS
<1>3. \A i \in 1..l : a[i] \in T
  BY LenProperties DEF IsSeq, Elements
<1>4. \A i \in 1..n : b[i] \in T
  BY LenProperties DEF IsSeq, Elements
<1> HIDE DEF l, n, T, c
<1>2a. l \in Nat /\ n \in Nat
  BY <1>1
<1>5. u \in Seq(T) /\ Len(u) = g /\ \A i \in 1..g : u[i] = a[o + i]
  <2>1. \A i \in (o + 1)..p : a[i] \in T
    <3>1. \A i \in (o + 1)..p : i \in 1..l
      BY <1>1, <1>2
    <3> QED
      BY <3>1, <1>3
  <2>2. /\ u \in Seq(T)
        /\ Len(u) = IF o + 1 <= p THEN p - (o + 1) + 1 ELSE 0
        /\ \A i \in 1..(p - (o + 1) + 1) : u[i] = a[(o + 1) + i - 1]
    <3> DEFINE first == o + 1
    <3>1. first \in Int /\ p \in Int /\ \A i \in first..p : a[i] \in T
      BY <2>1
    <3> HIDE DEF first
    <3>2. /\ SubSeq(a, first, p) \in Seq(T)
          /\ Len(SubSeq(a, first, p)) = IF first <= p THEN p - first + 1 ELSE 0
          /\ \A i \in 1..(p - first + 1) : SubSeq(a, first, p)[i] = a[first + i - 1]
      BY <3>1, SubSeqProperties
    <3> QED
      BY <3>2 DEF first
  <2>3. \A i \in 1..g : i \in 1..(p - (o + 1) + 1) /\ (o + 1) + i - 1 = o + i
    OBVIOUS
  <2> HIDE DEF u
  <2> QED
    BY <2>2, <2>3
<1>6. v \in Seq(T) /\ Len(v) = w /\ \A i \in 1..w : v[i] = b[s + i]
  <2>1. \A i \in (s + 1)..(s + w) : b[i] \in T
    <3>1. \A i \in (s + 1)..(s + w) : i \in 1..n
      BY <1>1, <1>2
    <3> QED
      BY <3>1, <1>4
  <2>2. /\ v \in Seq(T)
        /\ Len(v) = IF s + 1 <= s + w THEN (s + w) - (s + 1) + 1 ELSE 0
        /\ \A i \in 1..((s + w) - (s + 1) + 1) : v[i] = b[(s + 1) + i - 1]
    <3>1. s + 1 \in Int /\ s + w \in Int
      OBVIOUS
    <3> QED
      BY <2>1, <3>1, SubSeqProperties
  <2>3. \A i \in 1..w : i \in 1..((s + w) - (s + 1) + 1) /\ (s + 1) + i - 1 = s + i
    OBVIOUS
  <2> HIDE DEF v
  <2> QED
    BY <2>2, <2>3
<1>7. g \in Nat /\ (IF o + 1 <= p + s + w THEN (p + s + w) - o ELSE 0) = g + w
  BY <1>2, <1>2a
<1>8. ASSUME NEW i \in 1..(g + w)
      PROVE  /\ o + i \in 1..(l + n)
             /\ i <= g => i \in 1..g /\ o + i <= l
             /\ ~(i <= g) => i - g \in 1..w /\ ~(o + i <= l) /\ (o + i) - l = s + (i - g)
  BY <1>2, <1>2a
<1>9. /\ u \o v \in Seq(T) /\ Len(u \o v) = g + w
      /\ \A i \in 1..(g + w) : (u \o v)[i] = IF i <= g THEN u[i] ELSE v[i - g]
  <2> HIDE DEF u, v, g
  <2>1. /\ u \o v \in Seq(T) /\ Len(u \o v) = Len(u) + Len(v)
        /\ \A i \in 1..(Len(u) + Len(v)) :
              (u \o v)[i] = IF i <= Len(u) THEN u[i] ELSE v[i - Len(u)]
    BY <1>5, <1>6, ConcatProperties
  <2> QED
    BY <2>1, <1>5, <1>6
<1> DEFINE z == SubSeq(c, o + 1, p + s + w)
<1>10. z \in Seq(T) /\ Len(z) = g + w /\ \A i \in 1..(g + w) : z[i] = c[o + i]
  <2>1. \A i \in (o + 1)..(p + s + w) : c[i] \in T
    <3>1. ASSUME NEW i \in (o + 1)..(p + s + w) PROVE c[i] \in T
      <4>1. i \in 1..(l + n) /\ (i <= l => i \in 1..l) /\ (~(i <= l) => i - l \in 1..n)
        BY <1>1, <1>2
      <4> QED
        BY <4>1, <1>1, <1>3, <1>4
    <3> QED
      BY <3>1
  <2> DEFINE q == p + s + w
  <2>2. /\ z \in Seq(T)
        /\ Len(z) = IF o + 1 <= q THEN q - (o + 1) + 1 ELSE 0
        /\ \A i \in 1..(q - (o + 1) + 1) : z[i] = c[(o + 1) + i - 1]
    <3> DEFINE first == o + 1
    <3>1. first \in Int /\ q \in Int /\ \A i \in first..q : c[i] \in T
      BY <2>1
    <3> HIDE DEF first, q
    <3>2. /\ SubSeq(c, first, q) \in Seq(T)
          /\ Len(SubSeq(c, first, q)) = IF first <= q THEN q - first + 1 ELSE 0
          /\ \A i \in 1..(q - first + 1) : SubSeq(c, first, q)[i] = c[first + i - 1]
      BY <3>1, SubSeqProperties
    <3> QED
      BY <3>2 DEF first, q
  <2>3. \A i \in 1..(g + w) : i \in 1..(q - (o + 1) + 1) /\ (o + 1) + i - 1 = o + i
    BY <1>7
  <2>4. (IF o + 1 <= q THEN q - (o + 1) + 1 ELSE 0) = g + w
    BY <1>7
  <2> HIDE DEF z, q
  <2> QED
    BY <2>2, <2>3, <2>4
<1> HIDE DEF u, v, g, z
<1>11. \A i \in 1..(g + w) : (u \o v)[i] = z[i]
  <2>1. ASSUME NEW i \in 1..(g + w) PROVE (u \o v)[i] = z[i]
    <3>1. CASE i <= g
      <4>1. i \in 1..g /\ o + i <= l /\ o + i \in 1..(l + n)
        BY <1>8, <3>1
      <4> QED
        BY <4>1, <3>1, <1>1, <1>5, <1>9, <1>10
    <3>2. CASE ~(i <= g)
      <4>1. i - g \in 1..w /\ ~(o + i <= l) /\ (o + i) - l = s + (i - g) /\ o + i \in 1..(l + n)
        BY <1>8, <3>2
      <4>2. (u \o v)[i] = b[s + (i - g)]
        BY <4>1, <3>2, <1>6, <1>9
      <4>3. z[i] = b[(o + i) - l]
        BY <4>1, <1>1, <1>10
      <4> QED
        BY <4>1, <4>2, <4>3
    <3> QED
      BY <3>1, <3>2
  <2> QED
    BY <2>1
<1>12. u \o v = z
  <2> DEFINE x == u \o v
  <2>1. x \in Seq(T) /\ Len(x) = Len(z) /\ \A i \in 1..Len(x) : x[i] = z[i]
    BY <1>9, <1>10, <1>11
  <2> HIDE DEF x
  <2>2. x = z
    BY <2>1, <1>10, SeqEqual
  <2> QED
    BY <2>2 DEF x
<1> QED
  BY <1>12 DEF u, v, z
=============================================================================
