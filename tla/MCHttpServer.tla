---------------------------- MODULE MCHttpServer ----------------------------
(***************************************************************************)
(* HttpServer on small instances: a MAC of one byte, and two threads.  The *)
(* first is asked all there is to ask of the database, with two MACs each: *)
(* a page with the default count, a page in the middle, one larger than    *)
(* the default, a count of -1 with an offset, whose sum wraps, counts, and *)
(* histograms with a step below one, of a range, of one given backwards    *)
(* and of one without an end.  The second is asked for files: as far as    *)
(* stopping is concerned, a request that never waits for the writer lock.  *)
(***************************************************************************)
EXTENDS HttpServer

MCZero     == {0}
MCBytes    == {0, 1}
MCText     == {}
MCTextTime == [t \in {} |-> -1]

Asked(path, offset, count, step) ==
    [path |-> path, macs |-> <<<<1>>, <<>>>>, start |-> 1, finish |-> 2,
     offset |-> offset, count |-> count, step |-> step]

Histogram == Asked("/macs-per-time", 0, 0, -1)

MCRequests(t) ==
    IF t = "second" THEN {Asked("file", 0, 0, 1)}
    ELSE {Asked("/log", 0, 0, 1), Asked("/log", 1, 1, 1), Asked("/log", 1, -1, 1),
          Asked("/last", 0, 2, 1), Asked("/log-count", 0, 0, 1), Asked("/last-count", 0, 0, 1),
          Histogram, [Histogram EXCEPT !.start = 2, !.finish = 1], [Histogram EXCEPT !.finish = 0]}

MCRequestsOf == [t \in Thread |-> MCRequests(t)]
=============================================================================
