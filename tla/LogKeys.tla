------------------------------ MODULE LogKeys ------------------------------
(***************************************************************************)
(* The keys of the log table and the cursor scans over them (dblog.h       *)
(* 61-66, dblog.cpp 420-540 and 550-661): pure definitions, no state.      *)
(*                                                                         *)
(* A log record is stored under the bytes of the C structure LogKey: the   *)
(* tag, the MAC address, one byte the compiler inserts so that dt is       *)
(* aligned (nothing in the program assigns it), and the time in big-endian *)
(* order.  The library orders keys byte by byte.  The tag is left out:     *)
(* every key here has the tag 'L', and a scan of the log never reports a   *)
(* record of another tag (they follow in key order, and the loops stop at  *)
(* or pass over them).  The time is one digit of base MaxTime + 1 in place *)
(* of its bytes.                                                           *)
(***************************************************************************)
EXTENDS Integers, Sequences, FiniteSets

CONSTANTS
    Byte,       \* the values of one byte of a MAC address
    MacLen,     \* the bytes of a MAC address: 6 in the program
    PadByte,    \* the values the unassigned byte of a LogKey can have
    MaxTime     \* the greatest time a record can have (UINT32_MAX)

ASSUME KeyConstants ==
    /\ Byte \subseteq Nat /\ 0 \in Byte
    /\ MacLen \in Nat \ {0}
    /\ PadByte \subseteq Nat /\ PadByte # {}
    /\ MaxTime \in Nat \ {0}

Mac  == [1..MacLen -> Byte]
Time == 1..MaxTime

LogKey == [mac : Mac, pad : PadByte, dt : Time]

\* What the comparison of the library sees of a key.
KeyBytes(k) == k.mac \o <<k.pad, k.dt>>

\* s sorts before t: byte by byte, a proper prefix before what it is a prefix of.
Before(s, t) ==
    \E n \in 0..Len(s) :
        /\ n < Len(t)
        /\ \A i \in 1..n : s[i] = t[i]
        /\ n = Len(s) \/ s[n + 1] < t[n + 1]

-----------------------------------------------------------------------------
(***************************************************************************)
(* A query: the leading bytes of a MAC address (none of them: any MAC),    *)
(* the two ends of a time range as the user gives them (0: no limit), and  *)
(* the value the unassigned byte of the key on the stack happens to have.  *)
(***************************************************************************)
MacPrefix == UNION {[1..n -> Byte] : n \in 0..MacLen}
Query == [sa : MacPrefix, start : 0..MaxTime, finish : 0..MaxTime, pad : PadByte]

IsFullMac(q) == Len(q.sa) = MacLen

ZeroFilled(sa) == [i \in 1..MacLen |-> IF i <= Len(sa) THEN sa[i] ELSE 0]

\* Mutant of ReadFrom: the scan begins at the end of the range.
ReadFromFinish(q) == IF IsFullMac(q) THEN q.sa \o <<q.pad, q.finish>> ELSE q.sa

\* The key the cursor is placed at, before start and finish are put in order:
\* readLog shortens the key to the bytes it was given, rmLog never does.
ReadFrom(q) == IF IsFullMac(q) THEN q.sa \o <<q.pad, q.start>> ELSE q.sa
RmFrom(q)   == ZeroFilled(q.sa) \o <<q.pad, q.start>>

Limit(q)  == IF q.finish = 0 THEN MaxTime ELSE q.finish
First(q)  == IF Limit(q) < q.start THEN Limit(q) ELSE q.start
Last(q)   == IF Limit(q) < q.start THEN q.start ELSE Limit(q)

HasPrefix(sa, mac) == \A i \in 1..Len(sa) : mac[i] = sa[i]

\* Mutant of Stops: the keys are taken to be in time order whatever the MAC.
StopsAtLast(q, k) == ~HasPrefix(q.sa, k.mac) \/ k.dt > Last(q)

\* The records the loop ends at: another MAC, or later than the range when
\* the whole MAC was given (the code takes the keys of one MAC to be in time order).
Stops(q, k) ==
    \/ ~HasPrefix(q.sa, k.mac)
    \/ IsFullMac(q) /\ k.dt > Last(q)

\* The records from the key `from` on, before the first one the loop ends at.
Visited(log, q, from) ==
    LET ahead == {k \in log : ~Before(KeyBytes(k), from)}
    IN  {k \in ahead : \A j \in ahead : Stops(q, j) => Before(KeyBytes(k), KeyBytes(j))}

\* Mutant of Hits: the beginning of the range is left to the cursor.
HitsToLast(log, q, from) == {k \in Visited(log, q, from) : k.dt <= Last(q)}

Hits(log, q, from) == {k \in Visited(log, q, from) : First(q) <= k.dt /\ k.dt <= Last(q)}

ReadHits(log, q) == Hits(log, q, ReadFrom(q))
RmHits(log, q)   == Hits(log, q, RmFrom(q))

\* The rows in the order in which a cursor meets them, key[r] being the bytes of row r:
\* before a row come as many as have lesser keys.
InOrder(rows, key) ==
    LET before(r) == {s \in rows : Before(key[s], key[r])}
    IN  [i \in 1..Cardinality(rows) |-> CHOOSE r \in rows : Cardinality(before(r)) = i - 1]

\* What the parameters of readLog and rmLog are documented to select.
Selected(log, q) ==
    {k \in log : HasPrefix(q.sa, k.mac) /\ First(q) <= k.dt /\ k.dt <= Last(q)}
=============================================================================
