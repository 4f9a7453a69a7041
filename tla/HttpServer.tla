----------------------------- MODULE HttpServer -----------------------------
(***************************************************************************)
(* wacs-http: requests on threads of their own (http-server.cpp), each     *)
(* with its own environment of the one database file, the histogram        *)
(* (histogrammacspertime.cpp), and the way the server starts and stops     *)
(* (wacs-http.cpp), while other processes change the database.             *)
(*                                                                         *)
(* A request is a loop over the MACs it names; each is one transaction, so *)
(* one step, and the database may change between two.  What a transaction  *)
(* reads is LogQuery's.                                                    *)
(***************************************************************************)
EXTENDS LogKeys

CONSTANTS
    Junk, Text, TextTime, MaxRows, MaxMacs,     \* of LogQuery
    Thread,         \* the threads of the library
    Requests,       \* what is asked for on each, see Request
    SizeMax,        \* the values of a size_t
    DefaultCount    \* config->count, DEF_COUNT (1000) unless the command line has another

VARIABLES
    log, probe, notes,  \* the database
    server,             \* where the main thread is
    thread              \* what each thread does

Store == INSTANCE LogQuery
db    == <<log, probe, notes>>
vars  == <<log, probe, notes, server, thread>>

Path    == {"/log", "/last", "/log-count", "/last-count", "/macs-per-time", "file"}
Request == [path : Path, macs : Seq(MacPrefix), start : 0..MaxTime, finish : 0..MaxTime,
            offset : Int, count : Int, step : Int]

ASSUME HttpConstants ==
    /\ SizeMax \in Nat \ {0}
    /\ DefaultCount \in 1..(SizeMax - 1)
    /\ Requests \in [Thread -> SUBSET Request]

(* Numbers are size_t: a negative offset or count of a request is a great one. *)

\* Mutant of SizeT: the numbers stay signed.
SizeTSigned(n) == n

SizeT(n) == n % SizeMax

\* A request that is being answered: the MACs that are left, ReqEnv (position, offset,
\* count, the rows and the sums written so far) and the histogram.  read is history:
\* all that the scans found.
NoRequest == [place |-> "idle"]
NewRequest(r) ==
    [place |-> "open", req |-> r, left |-> r.macs,
     position |-> 0, offset |-> SizeT(r.offset),
     count |-> IF r.count = 0 THEN DefaultCount ELSE SizeT(r.count),
     page |-> <<>>, sum |-> 0, sums |-> <<>>, slots |-> [i \in 0..MaxTime |-> 0],
     read |-> <<>>, answer |-> ""]

Init ==
    /\ Store!Init
    /\ server = "down"
    /\ thread = [t \in Thread |-> NoRequest]

At(t, place) == thread[t].place = place

\* The library takes requests and sends answers: from MHD_start_daemon to MHD_stop_daemon,
\* or, where SIGINT found no daemon to stop, to the exit.
Listens == server \in {"running", "sleeping", "stopping", "unstopped"}
-----------------------------------------------------------------------------
(* Paging. *)

Least(a, b) == IF a < b THEN a ELSE b

\* Mutant of PageEnd: the offset is left out.
PageEndCount(x) == x.count

PageEnd(x) == SizeT(x.offset + x.count)

\* onReqLog for each row of a scan: those before the page are skipped, then rows are
\* written until the page is full, and the scan stops.
Skipped(x, rows) ==
    Least(Len(rows), IF x.position < x.offset THEN x.offset - x.position ELSE 0)
Written(x, rows) ==
    LET p == x.position + Skipped(x, rows)
    IN  Least(Len(rows) - Skipped(x, rows), IF p < PageEnd(x) THEN PageEnd(x) - p ELSE 0)

OnReqLog(x, rows) ==
    LET s == Skipped(x, rows)
        w == Written(x, rows)
    IN  [x EXCEPT !.position = @ + s + w, !.page = @ \o SubSeq(rows, s + 1, s + w)]

\* Mutant of OnReqLogCount: the sum is of the last scan only.
OnReqLogCountLast(x, rows) ==
    [x EXCEPT !.sum = Len(rows), !.sums = IF Len(rows) > 0 THEN Append(@, Len(rows)) ELSE @]

\* onReqLogCount, and what lsLog writes after the scan.
OnReqLogCount(x, rows) ==
    LET sum == x.sum + Len(rows)
    IN  [x EXCEPT !.sum = sum, !.sums = IF sum > 0 THEN Append(@, sum) ELSE @]

StepOf(r) == IF r.step > 0 THEN r.step ELSE 1

\* Mutant of Slot: the slots begin one step early.
SlotEarly(r, t) == (t - r.start + StepOf(r)) \div StepOf(r)

Slot(r, t) == (t - r.start) \div StepOf(r)

\* HistogramMacsPerTime::put for each row: of the times of the range, one more in its slot.
OnLogHistogram(x, rows) ==
    LET r == x.req
        put(i) == {n \in DOMAIN rows : /\ r.start <= rows[n].dt /\ rows[n].dt <= r.finish
                                       /\ Slot(r, rows[n].dt) = i}
    IN  [x EXCEPT !.slots = [i \in DOMAIN @ |-> @[i] + Cardinality(put(i))]]
-----------------------------------------------------------------------------
(* A request. *)

Update(t, x) == thread' = [thread EXCEPT ![t] = x]

\* Mutant of Accept: requests are let in whatever the server does.
AcceptAlways(t) ==
    /\ At(t, "idle")
    /\ \E r \in Requests[t] : Update(t, NewRequest(r))
    /\ UNCHANGED <<db, server>>

\* httpHandler is called with the method GET, the second time for this request.
Accept(t) ==
    /\ Listens /\ At(t, "idle")
    /\ \E r \in Requests[t] : Update(t, NewRequest(r))
    /\ UNCHANGED <<db, server>>

\* Any other path names a file, which is there or not.
ProcessFile(t) ==
    /\ At(t, "open") /\ thread[t].req.path = "file"
    /\ \E a \in {"file", "404"} : Update(t, [thread[t] EXCEPT !.place = "answered", !.answer = a])
    /\ UNCHANGED <<db, server>>

\* openDb, which begins a transaction: it waits for the writer lock.
OpenDb(t) ==
    /\ At(t, "open") /\ thread[t].req.path # "file"
    /\ Update(t, [thread[t] EXCEPT !.place = "scan"])
    /\ UNCHANGED <<db, server>>

\* Mutant of OpenDbFails: the handler returns without an answer.
OpenDbFailsDrops(t) ==
    /\ At(t, "open") /\ thread[t].req.path # "file"
    /\ Update(t, NoRequest)
    /\ UNCHANGED <<db, server>>

\* openDb may fail, and a process that opens one file twice at a time is left to the
\* library.  The answer is empty, which httpHandler turns into MSG500 with the status
\* 200, or, for the histogram, the text of the error.
OpenDbFails(t) ==
    /\ At(t, "open") /\ thread[t].req.path # "file"
    /\ Update(t, [thread[t] EXCEPT !.place = "answered", !.answer = "error"])
    /\ UNCHANGED <<db, server>>

QueryOf(r, sa, pad) == [sa |-> sa, start |-> r.start, finish |-> r.finish, pad |-> pad]

\* The rows a scan gives to its callback, in the order of their keys.
LogRows(q)   == InOrder(ReadHits(log, q), [k \in log |-> KeyBytes(k)])
ProbeRows(q) ==
    InOrder(Store!LastProbes(q), [r \in Store!ProbeRows \cup Store!NoteRows |-> Store!RowBytes(r)])
RowsOf(r, q) == IF r.path \in {"/last", "/last-count"} THEN ProbeRows(q) ELSE LogRows(q)

Called(x, rows) ==
    CASE x.req.path \in {"/log", "/last"}             -> OnReqLog(x, rows)
      [] x.req.path \in {"/log-count", "/last-count"} -> OnReqLogCount(x, rows)
      [] x.req.path = "/macs-per-time"                -> OnLogHistogram(x, rows)

\* lsLog, lsLastProbe and macsPerTime: the next MAC, once the scan has the writer lock. They
\* do not look at what it returned.
Scan(t) ==
    /\ At(t, "scan") /\ thread[t].left # <<>>
    /\ LET x == thread[t]
       IN  \E pad \in PadByte : \E rows \in {RowsOf(x.req, QueryOf(x.req, Head(x.left), pad))} :
              Update(t, [Called(x, rows) EXCEPT !.left = Tail(@), !.read = @ \o rows])
    /\ UNCHANGED <<db, server>>

\* closeDb, and the text is handed to the library (MHD_queue_response).
CloseDb(t) ==
    /\ At(t, "scan") /\ thread[t].left = <<>>
    /\ Update(t, [thread[t] EXCEPT !.place = "answered", !.answer = "data"])
    /\ UNCHANGED <<db, server>>

\* The library has sent the answer, as fast as the client reads, and the thread ends.
Answered(t) ==
    /\ Listens /\ At(t, "answered")
    /\ Update(t, NoRequest)
    /\ UNCHANGED <<db, server>>

\* The socket of the connection has been shut down: the answer, or the rest of it, is lost.
Cut(t) ==
    /\ server = "joining" /\ At(t, "answered")
    /\ Update(t, NoRequest)
    /\ UNCHANGED <<db, server>>

\* The thread computes, or waits for the writer lock, or the library for the client.
Computes(t) == ProcessFile(t) \/ CloseDb(t) \/ Cut(t)
ThreadStep(t) == Computes(t) \/ OpenDb(t) \/ OpenDbFails(t) \/ Scan(t) \/ Answered(t)
-----------------------------------------------------------------------------
(* The server. *)

ToServer(from, to) == server \in from /\ server' = to /\ UNCHANGED <<db, thread>>

\* MHD_start_daemon listens before it returns; where it fails, the process ends.
StartDaemon == ToServer({"down"}, "running")
StartReturns == ToServer({"running"}, "sleeping")

\* SIGINT, on the main thread, which goes on in stop: mhdDaemon is NULL until
\* MHD_start_daemon has returned, and MHD_stop_daemon does nothing then.
Interrupt == ToServer({"running"}, "unstopped") \/ ToServer({"sleeping"}, "stopping")

\* MHD_stop_daemon lets nobody in any more and shuts the sockets of the connections down.
ShutDown == ToServer({"stopping"}, "joining")

\* It joins all the threads; then stop_request is set.
StopDaemon == (\A t \in Thread : At(t, "idle")) /\ ToServer({"joining"}, "exiting")

\* exit(0): the threads that are left are gone.
Exit ==
    /\ server \in {"exiting", "unstopped"} /\ server' = "down"
    /\ thread' = [t \in Thread |-> NoRequest]
    /\ UNCHANGED db

ServerStep == StartDaemon \/ StartReturns \/ Interrupt \/ ShutDown \/ StopDaemon \/ Exit

\* Other processes store and remove.
Others == Store!Next /\ UNCHANGED <<server, thread>>

Next ==
    \/ \E t \in Thread : Accept(t) \/ ThreadStep(t)
    \/ ServerStep
    \/ Others

Spec == Init /\ [][Next]_vars

\* A thread that neither waits for the writer lock nor for its client computes, and the
\* handler of SIGINT goes on. Whether the lock comes is up to other processes: it may not.
FairSpec ==
    /\ Spec
    /\ \A t \in Thread : WF_vars(Computes(t))
    /\ WF_vars(ShutDown \/ StopDaemon \/ Exit)
-----------------------------------------------------------------------------
(* Properties. *)

TypeOK ==
    /\ server \in {"down", "running", "sleeping", "stopping", "unstopped", "joining", "exiting"}
    /\ \A t \in Thread :
          \/ thread[t] = NoRequest
          \/ /\ thread[t].place \in {"open", "scan", "answered"}
             /\ thread[t].req \in Requests[t]
             /\ {thread[t].position, thread[t].offset, thread[t].count} \subseteq 0..(SizeMax - 1)

Data(t) == At(t, "answered") /\ thread[t].answer = "data"

\* The rows of a page are the rows offset+1 .. offset+count of all that the request
\* found, over all its MACs, although each scan is stopped by itself and begins where
\* the last one ended: unless the sum of the two does not fit into a size_t
\* (http-server.cpp 187-216).
PageIsSlice ==
    \A t \in Thread :
        LET x == thread[t]
        IN  /\ Data(t) /\ x.req.path \in {"/log", "/last"}
            /\ x.offset + x.count < SizeMax
            => x.page = SubSeq(x.read, x.offset + 1, Least(x.offset + x.count, Len(x.read)))

\* The numbers of a count are running totals over the MACs of the request, a MAC is left
\* out while there is nothing yet, and the last number is that of all the records found
\* (http-server.cpp 218-232, 257-264).
CountsAreTotals ==
    \A t \in Thread :
        LET x == thread[t]
        IN  Data(t) /\ x.req.path \in {"/log-count", "/last-count"} =>
              /\ x.read = <<>> <=> x.sums = <<>>
              /\ x.sums # <<>> => x.sums[Len(x.sums)] = Len(x.read)
              /\ \A i \in 1..(Len(x.sums) - 1) : x.sums[i] <= x.sums[i + 1]

\* A slot of the histogram counts the records found in its time, over all the MACs
\* (histogrammacspertime.cpp 48-55): those of a range that is given backwards, or
\* without an end, are found and not counted.
HistogramAgrees ==
    \A t \in Thread :
        LET x == thread[t]
            r == x.req
        IN  Data(t) /\ x.req.path = "/macs-per-time" =>
              \A i \in DOMAIN x.slots :
                  x.slots[i] = Cardinality({n \in DOMAIN x.read :
                      /\ r.start + i * StepOf(r) <= x.read[n].dt
                      /\ x.read[n].dt < r.start + (i + 1) * StepOf(r)
                      /\ x.read[n].dt <= r.finish})

\* No page has more rows than "maximum record/page size" says (README.md 135), which is
\* the default count. The code breaks it: http-server.cpp 253 takes the count of the request
\* as it is.
PageIsBounded ==
    \A t \in Thread :
        Data(t) /\ thread[t].req.path \in {"/log", "/last"} => Len(thread[t].page) <= DefaultCount

\* The writer lock is what the thread waits for, in openDb or in a scan.
Waits(t) ==
    \/ At(t, "open") /\ thread[t].req.path # "file"
    \/ At(t, "scan") /\ thread[t].left # <<>>

\* Every request gets an answer, whatever fails on its way (http-server.cpp 502-567), unless
\* the server stops listening first, or others keep the writer lock for ever.
RequestsAreAnswered ==
    \A t \in Thread : Listens /\ ~At(t, "idle") ~> (At(t, "answered") \/ ~Listens \/ []Waits(t))

\* SIGINT ends the server, whatever the threads are doing that it joins (http-server.cpp
\* 605-615, wacs-http.cpp 49-57), unless one of them waits for ever for the writer lock.
InterruptEndsServer ==
    server = "stopping" ~> (server = "down" \/ \E t \in Thread : []Waits(t))
=============================================================================
