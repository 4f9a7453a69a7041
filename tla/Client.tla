------------------------------- MODULE Client -------------------------------
(***************************************************************************)
(* The command line client wacsc (wacsc.cpp): one command at a time, most  *)
(* of them a loop over the MAC addresses of the command line, a            *)
(* transaction for each, while other processes change the database and     *)
(* while the user may press Ctrl-C.  What a transaction finds or changes   *)
(* is LogQuery's.  The command `test` is Sender's.                         *)
(***************************************************************************)
EXTENDS LogKeys

CONSTANTS
    Junk, Text, TextTime, MaxRows, MaxMacs,     \* of LogQuery
    Requests        \* the command lines, see Request

VARIABLES
    log, probe, notes,  \* the database
    client,             \* the process, see NewClient
    interruptFlag,      \* reqEnv.interruptFlag
    stable              \* history: the records in the log all the time since it started

Store == INSTANCE LogQuery
F     == INSTANCE FiniteSetsExt
db    == <<log, probe, notes>>
vars  == <<log, probe, notes, client, interruptFlag, stable>>

\* An argument that names a MAC: its bytes as far as they were read, and what
\* strtomacaddress returns: -1 (EOF) for an empty text, 0 for one that is no MAC.
Arg == {a \in [sa : MacPrefix, size : -1..MacLen] : Len(a.sa) = IF a.size > 0 THEN a.size ELSE 0}

Listing == {"log", "probe"}
Command == Listing \cup {"log-count", "probe-count", "macs-per-time", "remove", "log-read",
                         "notification", "notification-put", "notification-rm"}

\* mac is never empty: without an argument it is one empty text. count -1: no limit (other
\* negative counts are left out). text and lines are what the file has, or stdin.
Request == [cmd : Command, mac : Seq(Arg), start : 0..MaxTime, finish : 0..MaxTime,
            offset : Nat, count : Nat \cup {-1}, text : Text \cup {""}, lines : Seq(LogKey)]

ASSUME ClientConstants == \A req \in Requests : req \in Request /\ req.mac # <<>>

ERRCODE_WRONG_PARAM == -3
ERRCODE_LMDB_TXN_BEGIN == -10
ERRCODE_LMDB_OPEN   == -12
ERRCODE_LMDB_PUT    == -14
MDB_NOTFOUND        == -30798

NoClient == [place |-> "none"]

\* left: the arguments of the loop that are left; position and sum: those of ReqEnv; r:
\* what the function of the command has to return.  History: read, the rows that the
\* scans gave; printed; late, the rows printed since Ctrl-C; effect and taken, how many
\* records were stored or removed, and which of the log were removed.
NewClient(req) ==
    [place |-> "start", req |-> req, left |-> req.mac, position |-> 0, sum |-> 0, r |-> 0,
     read |-> <<>>, printed |-> <<>>, late |-> 0, effect |-> 0, taken |-> {}]

Init ==
    /\ Store!Init
    /\ client = NoClient
    /\ interruptFlag = FALSE
    /\ stable = {}

At(place)  == client.place = place
Cmd        == client.req.cmd
Arg1       == Head(client.left)
Ends(r)    == [client EXCEPT !.place = "close", !.r = r]
-----------------------------------------------------------------------------
(* Beginning and end of a command. *)

\* main: the command line is read, reqEnv is set.
Start ==
    /\ client = NoClient
    /\ \E req \in Requests : client' = NewClient(req)
    /\ interruptFlag' = FALSE
    /\ stable' = log
    /\ UNCHANGED db

\* notificationPut looks at the first MAC (the loop ends there) and at the text before it
\* opens the database.
Refused == Cmd = "notification-put" /\ (client.req.mac[1].size < MacLen \/ client.req.text = "")

PutRefused ==
    /\ At("start") /\ Refused
    /\ client' = [client EXCEPT !.place = "end", !.r = ERRCODE_WRONG_PARAM]
    /\ UNCHANGED <<db, interruptFlag, stable>>

OpenDb ==
    /\ At("start") /\ ~Refused
    /\ client' = [client EXCEPT !.place = "loop"]
    /\ UNCHANGED <<db, interruptFlag, stable>>

OpenDbFails ==
    /\ At("start") /\ ~Refused
    /\ client' = [client EXCEPT !.place = "end", !.r = ERRCODE_LMDB_OPEN]
    /\ UNCHANGED <<db, interruptFlag, stable>>

\* The loop is over.
CloseDb ==
    /\ At("close") \/ (At("loop") /\ client.left = <<>>)
    /\ client' = [client EXCEPT !.place = "end"]
    /\ UNCHANGED <<db, interruptFlag, stable>>

\* main says how it went, deletes config and returns.
Return ==
    /\ At("end")
    /\ client' = NoClient
    /\ UNCHANGED <<db, interruptFlag, stable>>

\* signalHandler: the first Ctrl-C sets a flag, the second ends the process. A write
\* transaction is a step here: the library drops the one that is not committed.
Sigint ==
    /\ client # NoClient
    /\ IF interruptFlag THEN client' = NoClient ELSE client' = client
    /\ interruptFlag' = TRUE
    /\ UNCHANGED <<db, stable>>
-----------------------------------------------------------------------------
(* The commands that read: log, probe, log-count, probe-count, macs-per-time. *)

QueryOf(a, pad) ==
    [sa |-> a.sa, start |-> client.req.start, finish |-> client.req.finish, pad |-> pad]

\* The rows that a scan offers to its callback, in the order of their keys.
RowsOf(q) ==
    IF Cmd \in {"probe", "probe-count"}
    THEN InOrder(Store!LastProbes(q),
                 [r \in Store!ProbeRows \cup Store!NoteRows |-> Store!RowBytes(r)])
    ELSE InOrder(ReadHits(log, q), [k \in log |-> KeyBytes(k)])

\* Mutant of NotFound: the table has only the records of the log.
NotFoundInLog(q) == \A k \in log : Before(KeyBytes(k), ReadFrom(q))

\* The cursor finds no row at the first key or behind it, whatever its tag.
NotFound(q) ==
    IF Cmd \in {"probe", "probe-count"}
    THEN \A r \in Store!ProbeRows \cup Store!NoteRows :
            Before(Store!RowBytes(r), <<Store!TagP>> \o q.sa)
    ELSE /\ \A k \in log : Before(KeyBytes(k), ReadFrom(q))
         /\ Store!ProbeRows \cup Store!NoteRows = {}

Least(a, b) == IF a < b THEN a ELSE b

\* Mutant of Room: -1 is a count as any other.
RoomSigned(p, n) == LET end == client.req.offset + client.req.count
                    IN  IF p < end THEN Least(end - p, n) ELSE 0

\* How many of n rows may be printed from position p on; -1 is without a limit.
Room(p, n) == IF client.req.count = -1 THEN n
              ELSE LET end == client.req.offset + client.req.count
                   IN  IF p < end THEN Least(end - p, n) ELSE 0

\* Mutant of OnLog: it does not look at the flag.
OnLogGoesOn(rows, f) ==
    LET skip  == Least(Len(rows), IF client.position < client.req.offset
                                  THEN client.req.offset - client.position ELSE 0)
        shown == Room(client.position + skip, Len(rows) - skip)
    IN  [client EXCEPT !.position = @ + skip + shown,
                       !.printed = @ \o SubSeq(rows, skip + 1, skip + shown),
                       !.late = @ + Cardinality({i \in (skip + 1)..(skip + shown) : f <= i})]

\* onLog, for each row until it says stop, with the flag set from row f on: rows before
\* the page are passed over; a row is printed before the flag is looked at.
OnLog(rows, f) ==
    LET skip  == Least(Len(rows), IF client.position < client.req.offset
                                  THEN client.req.offset - client.position ELSE 0)
        room  == Room(client.position + skip, Len(rows) - skip)
        shown == Least(room, IF f <= skip THEN 1 ELSE f - skip)
    IN  [client EXCEPT !.position = @ + skip + shown,
                       !.printed = @ \o SubSeq(rows, skip + 1, skip + shown),
                       !.late = @ + Cardinality({i \in (skip + 1)..(skip + shown) : f <= i})]

\* onLogCount and onLogHistogram: every row, until the flag is seen.
OnLogCount(rows, f) == [client EXCEPT !.sum = @ + Least(Len(rows), f)]

\* lsLog, lsLastProbe and macsPerTime: the next MAC. Of the three, lsLog ends when there is
\* an error, an empty table included. The others keep the last return value.
ReadNext ==
    /\ At("loop") /\ Cmd \in Listing \cup {"log-count", "probe-count", "macs-per-time"}
    /\ client.left # <<>>
    /\ \E pad \in PadByte :
          LET q    == QueryOf(Arg1, pad)
              rows == RowsOf(q)
              r    == IF NotFound(q) THEN MDB_NOTFOUND ELSE 0
          IN  \E f \in IF interruptFlag THEN {1} ELSE 1..(Len(rows) + 1) :
                 /\ interruptFlag' = (interruptFlag \/ f <= Len(rows))
                 /\ IF r < 0
                    THEN client' = IF Cmd \in {"log", "log-count"} THEN Ends(r)
                                   ELSE [client EXCEPT !.r = r, !.left = Tail(@)]
                    ELSE client' = [(IF Cmd \in Listing THEN OnLog(rows, f)
                                     ELSE OnLogCount(rows, f))
                                    EXCEPT !.r = 0, !.left = Tail(@), !.read = @ \o rows]
    /\ UNCHANGED <<db, stable>>

\* notificationList: every notification to the file or to stdout, until the flag is seen.
NotificationList ==
    /\ At("loop") /\ Cmd = "notification"
    /\ LET rows == InOrder(Store!Listed, [n \in notes |-> n.mac \o <<n.junk>>])
       IN  \E f \in IF interruptFlag THEN {1} ELSE 1..(Len(rows) + 1) :
              /\ interruptFlag' = (interruptFlag \/ f <= Len(rows))
              /\ client' = [Ends(IF rows = <<>> THEN MDB_NOTFOUND ELSE 0)
                            EXCEPT !.read = rows, !.printed = SubSeq(rows, 1, Least(Len(rows), f)),
                                   !.late = Cardinality({i \in 1..Least(Len(rows), f) : f <= i})]
    /\ UNCHANGED <<db, stable>>
-----------------------------------------------------------------------------
(* The commands that write. They do not look at the flag. *)

\* Mutant of RmLogNext: the count is that of the last MAC.
RmLogNextLast ==
    /\ At("loop") /\ Cmd = "remove" /\ client.left # <<>>
    /\ \E pad \in PadByte :
          LET hits == RmHits(log, QueryOf(Arg1, pad))
          IN  /\ client' = [client EXCEPT !.left = Tail(@), !.r = Cardinality(hits),
                                          !.effect = @ + Cardinality(hits), !.taken = @ \cup hits]
              /\ log' = log \ hits /\ stable' = stable \ hits
    /\ UNCHANGED <<probe, notes, interruptFlag>>

\* Mutant of RmLogNext: the range of time is left out.
RmLogNextAlways ==
    /\ At("loop") /\ Cmd = "remove" /\ client.left # <<>>
    /\ LET hits == {k \in log : HasPrefix(Arg1.sa, k.mac)}
       IN  /\ client' = [client EXCEPT !.left = Tail(@), !.r = @ + Cardinality(hits),
                                       !.effect = @ + Cardinality(hits), !.taken = @ \cup hits]
           /\ log' = log \ hits /\ stable' = stable \ hits
    /\ UNCHANGED <<probe, notes, interruptFlag>>

\* rmLog: the next MAC.
RmLogNext ==
    /\ At("loop") /\ Cmd = "remove" /\ client.left # <<>>
    /\ \E pad \in PadByte :
          LET q    == QueryOf(Arg1, pad)
              hits == RmHits(log, q)
              none == /\ \A k \in log : Before(KeyBytes(k), RmFrom(q))
                      /\ Store!ProbeRows \cup Store!NoteRows = {}
          IN  /\ client' = IF none THEN Ends(MDB_NOTFOUND)
                           ELSE [client EXCEPT !.left = Tail(@), !.r = @ + Cardinality(hits),
                                               !.effect = @ + Cardinality(hits),
                                               !.taken = @ \cup hits]
              /\ log' = log \ hits /\ stable' = stable \ hits
    /\ UNCHANGED <<probe, notes, interruptFlag>>

\* loadLog (putLogEntries) returns the number of lines, of which the first `lost` are not
\* stored, and the last probes are those of the lines behind `passed`.
Loaded(lost, passed) ==
    LET lines    == client.req.lines
        n        == Len(lines)
        added    == {lines[i] : i \in (lost + 1)..n}
        named(m) == {i \in (passed + 1)..n : lines[i].mac = m}
    IN  /\ Cardinality(log \cup added) + Cardinality(notes) <= MaxRows
        /\ log' = log \cup added
        /\ probe' = [m \in Mac |-> IF named(m) = {} THEN probe[m] ELSE lines[F!Max(named(m))].dt]
        /\ client' = [Ends(n) EXCEPT !.effect = n - lost]

\* The lines of the file in one transaction; or, where the map is full at one of them, those
\* behind it in another: processMapFull aborts the first, and putLogEntries goes on with the
\* record of this line, or with its last probe; or none of them.
LoadLog ==
    /\ At("loop") /\ Cmd = "log-read"
    /\ \/ Loaded(0, 0)
       \/ \E full \in 1..Len(client.req.lines) : Loaded(full - 1, full - 1) \/ Loaded(full, full - 1)
       \/ client' = Ends(ERRCODE_LMDB_PUT) /\ UNCHANGED <<log, probe>>
    /\ UNCHANGED <<notes, interruptFlag, stable>>

\* Mutant of NotificationPutNext: the error is added to the count.
NotificationPutNextAdds ==
    /\ At("loop") /\ Cmd = "notification-put" /\ client.left # <<>>
    /\ IF Arg1.size < MacLen
       THEN client' = [client EXCEPT !.left = Tail(@)] /\ UNCHANGED notes
       ELSE \/ \E j \in Junk :
                  LET old == Store!SameKey(Arg1.sa, j)
                  IN  /\ Cardinality(log) + Cardinality(notes \ old) < MaxRows
                      /\ notes' = (notes \ old)
                                     \cup {[mac |-> Arg1.sa, junk |-> j, text |-> client.req.text]}
                      /\ client' = [client EXCEPT !.left = Tail(@), !.r = @ + 1, !.effect = @ + 1]
            \/ client' = Ends(client.r + ERRCODE_LMDB_PUT) /\ UNCHANGED notes
    /\ UNCHANGED <<log, probe, interruptFlag, stable>>

\* notificationPut: a MAC that is not whole is passed over.
NotificationPutNext ==
    /\ At("loop") /\ Cmd = "notification-put" /\ client.left # <<>>
    /\ IF Arg1.size < MacLen
       THEN client' = [client EXCEPT !.left = Tail(@)] /\ UNCHANGED notes
       ELSE \/ \E j \in Junk :
                  LET old == Store!SameKey(Arg1.sa, j)
                  IN  /\ Cardinality(log) + Cardinality(notes \ old) < MaxRows
                      /\ notes' = (notes \ old)
                                     \cup {[mac |-> Arg1.sa, junk |-> j, text |-> client.req.text]}
                      /\ client' = [client EXCEPT !.left = Tail(@), !.r = @ + 1, !.effect = @ + 1]
            \/ client' = Ends(ERRCODE_LMDB_PUT) /\ UNCHANGED notes
    /\ UNCHANGED <<log, probe, interruptFlag, stable>>

\* notificationRm: it ends at the first MAC that had notifications, with their number. The
\* size -1 of an empty text is the length of a memmove: the process does not survive it.
NotificationRmNext ==
    /\ At("loop") /\ Cmd = "notification-rm" /\ client.left # <<>>
    /\ IF Arg1.size < 0
       THEN client' = NoClient /\ UNCHANGED notes
       ELSE LET gone == Store!RemovedNotes(Arg1.sa)
            IN  /\ notes' = notes \ gone
                /\ client' = IF gone = {} THEN [client EXCEPT !.left = Tail(@)]
                             ELSE [Ends(Cardinality(gone)) EXCEPT !.effect = Cardinality(gone)]
    /\ UNCHANGED <<log, probe, interruptFlag, stable>>

\* mdb_txn_begin fails for the next MAC: of those that do not end with the first error,
\* lsLastProbe and macsPerTime, the next MAC's result takes its place.
TxnFails ==
    /\ At("loop") /\ client.left # <<>>
    /\ Cmd = "notification-put" => Arg1.size = MacLen
    /\ client' = IF Cmd \in {"probe", "probe-count", "macs-per-time"}
                 THEN [client EXCEPT !.r = ERRCODE_LMDB_TXN_BEGIN, !.left = Tail(@)]
                 ELSE Ends(ERRCODE_LMDB_TXN_BEGIN)
    /\ UNCHANGED <<db, interruptFlag, stable>>
-----------------------------------------------------------------------------

ClientStep ==
    \/ Start \/ PutRefused \/ OpenDb \/ OpenDbFails \/ CloseDb \/ Return
    \/ ReadNext \/ NotificationList
    \/ RmLogNext \/ LoadLog \/ NotificationPutNext \/ NotificationRmNext
    \/ TxnFails

\* Other processes store and remove.
Others ==
    /\ Store!Next
    /\ stable' = stable \cap log'
    /\ UNCHANGED <<client, interruptFlag>>

Next == ClientStep \/ Sigint \/ Others

Spec == Init /\ [][Next]_vars
-----------------------------------------------------------------------------
(* Properties. *)

TypeOK ==
    /\ interruptFlag \in BOOLEAN
    /\ stable \subseteq log
    /\ \/ client = NoClient
       \/ /\ client.place \in {"start", "loop", "close", "end"}
          /\ client.req \in Requests
          /\ {client.position, client.sum, client.late, client.effect} \subseteq Nat
          /\ client.r \in Nat \cup {ERRCODE_WRONG_PARAM, ERRCODE_LMDB_OPEN, ERRCODE_LMDB_PUT,
                                    ERRCODE_LMDB_TXN_BEGIN, MDB_NOTFOUND}

Finished(cmds) == At("end") /\ Cmd \in cmds /\ client.r # ERRCODE_LMDB_OPEN

\* wacsc.cpp 117-146: log and probe print the rows offset+1 .. offset+count of what the
\* scans of all the MACs found, or all after the offset where there is no count.
PrintsSlice ==
    Finished(Listing) /\ ~interruptFlag =>
        LET req  == client.req
            last == IF req.count = -1 THEN Len(client.read)
                    ELSE Least(req.offset + req.count, Len(client.read))
        IN  client.printed = SubSeq(client.read, req.offset + 1, last)

\* lsLog (wacsc.cpp 193-223) gives up when a scan finds no row at its first key or behind
\* it: no record is missed by that, of any MAC of the command line, if it was there all
\* the time (and the range is in order, and for a whole MAC, the unassigned byte of all keys
\* has the same value). Other errors show in what it returns.
ReadsAllMacs ==
    Finished({"log", "log-count"}) /\ ~interruptFlag /\ client.r # ERRCODE_LMDB_TXN_BEGIN =>
        \A i \in 1..Len(client.req.mac) : \A pad \in PadByte :
            LET q == QueryOf(client.req.mac[i], pad)
            IN  /\ q.start <= Limit(q)
                /\ IsFullMac(q) => PadByte = {pad}
                => Selected(stable, q) \subseteq {client.read[j] : j \in 1..Len(client.read)}

\* wacsc.cpp 580-627: what "records removed", and "records added" of a notification, say is
\* what was removed and stored, whatever others do meanwhile and also after Ctrl-C. Not so
\* "records added" of log-read (600), which counts the lines that a full map made it lose
\* (dblog.cpp 359-364, 378-383): SuccessStored of Dblog.
CountIsOfEffect ==
    Finished({"remove", "notification-put", "notification-rm"}) /\ client.r >= 0 =>
        client.r = client.effect

\* rmLog (wacsc.cpp 225-256): a record that was removed is of a MAC that was named, or of
\* any where a text was no MAC, and in the range, its ends in either order.
RemovalIsNamed ==
    client # NoClient =>
        \A k \in client.taken :
            \E i \in 1..Len(client.req.mac) : \E pad \in PadByte :
                k \in Selected({k}, QueryOf(client.req.mac[i], pad))

\* Ctrl-C while rows are printed (wacsc.cpp 43-67, 145): after it each MAC that was left,
\* the one being read included, prints one more row at the most.
InterruptIsPrompt ==
    client # NoClient =>
        client.late <= IF Cmd = "notification" THEN 1 ELSE Len(client.req.mac) - Len(client.left)
=============================================================================
