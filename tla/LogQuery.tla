------------------------------ MODULE LogQuery ------------------------------
(***************************************************************************)
(* What the readers of the database see: the three kinds of records in one *)
(* table, and the cursor scans of readLog, rmLog, readLastProbe,           *)
(* lsNotification and rmNotification over it (dblog.cpp 420-1058).         *)
(*                                                                         *)
(* Every call here is one step: it is a transaction of its own, and what   *)
(* transactions do together is the subject of Dblog.  A call that reads is *)
(* an operator, a call that writes is an action.  The records are ordered  *)
(* by the bytes of their keys; the tag, their first byte, puts the log     *)
(* before the last probes and those before the notifications.              *)
(***************************************************************************)
EXTENDS LogKeys

CONSTANTS
    Junk,       \* what follows a LastProbeKey on the stack
    Text,       \* the JSON texts of notifications
    TextTime,   \* the first bytes of a text, read as a time; -1 for one too short
    MaxRows, MaxMacs    \* bounds: records of the log and notifications, MACs seen

ASSUME QueryConstants ==
    /\ Junk \subseteq Nat /\ Junk # {}
    /\ TextTime \in [Text -> Nat \cup {-1}]
    /\ MaxRows \in Nat /\ MaxMacs \in Nat

VARIABLES
    log,        \* the records with the tag 'L'
    probe,      \* those with the tag 'P': a time for each MAC, 0 if it has none
    notes       \* those with the tag 'T'
vars == <<log, probe, notes>>

\* putNotification stores sizeof(LogKey) bytes from the address of a
\* LastProbeKey: the key has a tail nobody assigned.
Note == [mac : Mac, junk : Junk, text : Text]

Init ==
    /\ log = {}
    /\ probe = [m \in Mac |-> 0]
    /\ notes = {}
-----------------------------------------------------------------------------
(* The scans that begin at a last probe or at a notification. *)

TagP == 80
TagT == 84

ProbeRow == [tag : {TagP}, mac : Mac, dt : Nat]
NoteRow  == [tag : {TagT}, mac : Mac, junk : Junk, dt : Nat \cup {-1}]

\* The rows at or after the last probes, with the time readLastProbe takes each for.
ProbeRows == {[tag |-> TagP, mac |-> m, dt |-> probe[m]] : m \in {n \in Mac : probe[n] # 0}}
NoteRows  == {[tag |-> TagT, mac |-> n.mac, junk |-> n.junk, dt |-> TextTime[n.text]] :
                 n \in notes}

RowBytes(r) == <<r.tag>> \o r.mac \o (IF r.tag = TagT THEN <<r.junk>> ELSE <<>>)

\* Mutant of Reached: the MAC of a row is not compared.
ReachedToEnd(rows, tag, sa) == {r \in rows : ~Before(RowBytes(r), <<tag>> \o sa)}

\* A scan over `rows` from the tag and the MAC bytes it was given, to the first
\* row of another MAC.
Reached(rows, tag, sa) ==
    LET ahead == {r \in rows : ~Before(RowBytes(r), <<tag>> \o sa)}
    IN  {r \in ahead : \A s \in ahead :
            ~HasPrefix(sa, s.mac) => Before(RowBytes(r), RowBytes(s))}

\* A value too short for a time is passed over before the MAC of its key is looked at.
WithTime == {r \in ProbeRows \cup NoteRows : r.dt >= 0}

\* Mutant of LastProbes: the two ends of the range are not put in order.
LastProbesUnordered(q) ==
    {r \in Reached(WithTime, TagP, q.sa) : q.start <= r.dt /\ r.dt <= Limit(q)}

\* readLastProbe: no look at the tag, so the scan runs on into the notifications.
LastProbes(q) ==
    {r \in Reached(WithTime, TagP, q.sa) : First(q) <= r.dt /\ r.dt <= Last(q)}

\* lsNotification: the scan begins at five zero bytes and runs to the end of the table.
Listed ==
    LET zeros == [i \in 1..(MacLen - 1) |-> 0]
    IN  {n \in notes : ~Before(<<TagT>> \o n.mac \o <<n.junk>>, <<TagT>> \o zeros)}

\* rmNotification: this scan looks at the tag, but nothing follows the notifications.
RemovedNotes(sa) ==
    {n \in notes : \E r \in Reached(NoteRows, TagT, sa) : r.mac = n.mac /\ r.junk = n.junk}
-----------------------------------------------------------------------------
(* The calls that write. *)

\* putLog, or putLogEntries with a line of a file. Where its put of the last probe meets a
\* full map, processMapFull aborts the record, and the last probe is stored alone.
PutLog ==
    /\ \E k \in LogKey :
          /\ Cardinality(log \cup {k}) + Cardinality(notes) <= MaxRows
          /\ Cardinality({m \in Mac : probe[m] # 0} \cup {k.mac}) <= MaxMacs
          /\ log' \in {log \cup {k}, log}
          /\ probe' = [probe EXCEPT ![k.mac] = k.dt]
    /\ UNCHANGED notes

\* rmLog.
RmLog ==
    /\ \E q \in Query : log' = log \ RmHits(log, q)
    /\ UNCHANGED <<probe, notes>>

\* Mutant of SameKey: the table keeps two values under one key (MDB_DUPSORT).
SameKeyNone(m, j) == {}

SameKey(m, j) == {n \in notes : n.mac = m /\ n.junk = j}

\* putNotification with a text: it replaces the one stored under the same bytes.
PutNotification ==
    /\ \E m \in Mac, j \in Junk, t \in Text :
          /\ Cardinality(log) + Cardinality(notes \ SameKey(m, j)) < MaxRows
          /\ notes' = (notes \ SameKey(m, j)) \cup {[mac |-> m, junk |-> j, text |-> t]}
    /\ UNCHANGED <<log, probe>>

\* putNotification with an empty text; where there is no such key it returns an error.
ClearNotification ==
    /\ \E m \in Mac, j \in Junk : notes' = notes \ SameKey(m, j)
    /\ UNCHANGED <<log, probe>>

\* rmNotification.
RmNotification ==
    /\ \E sa \in MacPrefix : notes' = notes \ RemovedNotes(sa)
    /\ UNCHANGED <<log, probe>>

Next == PutLog \/ RmLog \/ PutNotification \/ ClearNotification \/ RmNotification

Spec == Init /\ [][Next]_vars
-----------------------------------------------------------------------------
(* Properties: every query of a user, on every table there can be. *)

\* The two notifications of a key cannot be told apart: one key has one text.
TypeOK ==
    /\ log \subseteq LogKey
    /\ probe \in [Mac -> 0..MaxTime]
    /\ notes \subseteq Note
    /\ \A n, o \in notes : n.mac = o.mac /\ n.junk = o.junk => n = o

\* readLog and rmLog (the doc comments of dblog.cpp 410-418, 542-549): with some
\* bytes of a MAC, or none, readLog gives exactly the records of the range, its
\* two ends in either order, although it starts wherever the bytes sort.
PartialReadIsExact == \A q \in Query : ~IsFullMac(q) => ReadHits(log, q) = Selected(log, q)

\* With a whole MAC, readLog starts at the beginning of the range and ends at the
\* first later record: exact when its ends are in order and the unassigned byte is
\* the same in the keys of that MAC and in the query.
FullReadIsExact ==
    \A q \in Query :
        /\ IsFullMac(q)
        /\ q.start <= Limit(q)
        /\ \A k \in log : k.mac = q.sa => k.pad = q.pad
        => ReadHits(log, q) = Selected(log, q)

\* rmLog places its cursor as if the missing bytes of a MAC were zeros and the range
\* began there: it may leave records of that MAC alone, of no other, and whatever
\* it deletes is selected.
RemovalIsSelected ==
    \A q \in Query :
        /\ RmHits(log, q) \subseteq Selected(log, q)
        /\ ~IsFullMac(q) =>
              \A k \in Selected(log, q) \ RmHits(log, q) : k.mac = ZeroFilled(q.sa)

\* README.md 361-366: the key of the log table is the tag, the MAC and the time.
\* readLog with a whole MAC gives every record of the range.
FullReadMissesNothing ==
    \A q \in Query :
        IsFullMac(q) /\ q.start <= Limit(q) => ReadHits(log, q) = Selected(log, q)

\* readLastProbe gives every last probe of the range, of the MACs asked for, and no
\* other: notifications in the table take none away.
LastProbesAreExact ==
    \A q \in Query :
        {r \in LastProbes(q) : r.tag = TagP} =
            {r \in ProbeRows : HasPrefix(q.sa, r.mac) /\ First(q) <= r.dt /\ r.dt <= Last(q)}

\* dblog.cpp 664-665, "Read last probes from the LMDB": what it gives are last probes.
OnlyLastProbes == \A q \in Query : \A r \in LastProbes(q) : r.tag = TagP

\* lsNotification lists every notification, and rmNotification removes those of the
\* MACs it was given, whatever bytes follow the MAC in their keys.
NotificationsAreFound ==
    /\ Listed = notes
    /\ \A sa \in MacPrefix : RemovedNotes(sa) = {n \in notes : HasPrefix(sa, n.mac)}
=============================================================================
