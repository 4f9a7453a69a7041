------------------------------- MODULE Pglog -------------------------------
(***************************************************************************)
(* The PostgreSQL store (pglog.cpp): processes that each have a connection *)
(* to one server, and call putLog, putLogEntries or readLog.  An action is *)
(* one statement and the server's answer to it, with what the code does    *)
(* before the next.                                                        *)
(*                                                                         *)
(* Whatever goes wrong with a statement, CHECK_STMT ends the connection    *)
(* and leaves the pointer to it in env->conn: every later call, and        *)
(* closeDb, uses a connection that was freed, which is undefined.  Here    *)
(* libpq refuses such a call, or the process dies (Gone).                  *)
(*                                                                         *)
(* The other functions of the file return ERRCODE_NOT_IMPLEMENTED.         *)
(***************************************************************************)
EXTENDS Integers, Sequences

CONSTANTS
    Putters,    \* collectors: they call putLog
    Clients,    \* programs that call putLogEntries and readLog
    Faults      \* which errors occur: "refuse", "drop"

Users == Putters \cup Clients

ASSUME PglogConstants ==
    /\ Putters \cap Clients = {}
    /\ Faults \subseteq {"refuse", "drop"}

VARIABLES
    loc,        \* the committed rows, in the order of their commits
    conn,       \* env->conn: "none", "open", or "finished" and not to be used
    link,       \* whether the server can be reached over it
    session,    \* at the server: the transaction, and what it inserted
    todo,       \* the statements the call has still to execute; none between calls
    ret,        \* what the last call returned
    given,      \* history: the rows the call is to store
    outcome     \* history: of each call that stores, its rows and its end
pgVars == <<loc, conn, link, session, todo, ret, given, outcome>>

NoTxn     == [txn |-> "none", rows |-> <<>>]
BEGIN     == [is |-> "begin"]
INSERT(r) == [is |-> "insert", row |-> r]
SELECT    == [is |-> "select"]
END       == [is |-> "end"]

PgInit ==
    /\ loc = <<>>
    /\ conn = [u \in Users |-> "none"]
    /\ link = [u \in Users |-> FALSE]
    /\ session = [u \in Users |-> NoTxn]
    /\ todo = [u \in Users |-> <<>>]
    /\ ret = [u \in Users |-> "none"]
    /\ given = [u \in Users |-> <<>>]
    /\ outcome = {}

Idle(u)         == todo[u] = <<>>
Live(u)         == conn[u] = "open" /\ link[u]
Executes(u, is) == ~Idle(u) /\ Head(todo[u]).is = is /\ Live(u)
Done(u)         == todo' = [todo EXCEPT ![u] = Tail(@)]

\* The end of a call.
Returns(u) ==
    /\ todo' = [todo EXCEPT ![u] = <<>>]
    /\ given' = [given EXCEPT ![u] = <<>>]

-----------------------------------------------------------------------------
(* Connections and processes. *)

\* openDb; where it fails the process ends.
OpenDb(u) ==
    /\ Idle(u) /\ conn[u] = "none"
    /\ conn' = [conn EXCEPT ![u] = "open"]
    /\ link' = [link EXCEPT ![u] = TRUE]
    /\ UNCHANGED <<loc, session, todo, ret, given, outcome>>

\* The connection ends: the server undoes what was not committed.
HangUp(u, c) ==
    /\ conn' = [conn EXCEPT ![u] = c]
    /\ link' = [link EXCEPT ![u] = FALSE]
    /\ session' = [session EXCEPT ![u] = NoTxn]

\* closeDb, of a connection that may be finished already.
CloseDb(u) ==
    /\ Idle(u) /\ conn[u] # "none"
    /\ HangUp(u, "none")
    /\ ret' = [ret EXCEPT ![u] = "none"]
    /\ UNCHANGED <<loc, todo, given, outcome>>

\* The process ends, wherever it is, and a new one takes its place.
Gone(u) ==
    /\ HangUp(u, "none")
    /\ Returns(u)
    /\ ret' = [ret EXCEPT ![u] = "none"]
    /\ UNCHANGED <<loc, outcome>>

\* The network or the server goes during a call (the code cannot tell that from a
\* loss before the call): it notices at its next statement.
Drop(u) ==
    /\ "drop" \in Faults /\ Live(u) /\ ~Idle(u)
    /\ link' = [link EXCEPT ![u] = FALSE]
    /\ session' = [session EXCEPT ![u] = NoTxn]
    /\ UNCHANGED <<loc, conn, todo, ret, given, outcome>>
-----------------------------------------------------------------------------
(* The calls: each is the statements it executes. *)

Call(u, statements, rows) ==
    /\ Idle(u) /\ conn[u] # "none"
    /\ todo' = [todo EXCEPT ![u] = statements]
    /\ given' = [given EXCEPT ![u] = rows]
    /\ UNCHANGED <<loc, conn, link, session, ret, outcome>>

\* putLog with a whole LogEntry.
PutLog(u, row) == Call(u, <<BEGIN, INSERT(row), END>>, <<row>>)

\* putLogEntries: a line of the file for each row, and no look at its time.
PutLogEntries(u, rows) ==
    Call(u, <<BEGIN>> \o [i \in DOMAIN rows |-> INSERT(rows[i])] \o <<END>>, rows)

\* readLog with a callback.
ReadLog(u) == Call(u, <<BEGIN, SELECT, END>>, <<>>)

Ends(u, kind) ==
    outcome' = outcome \cup {[by |-> u, rows |-> rows, end |-> kind] : rows \in {given[u]} \ {<<>>}}

Begin(u) ==
    /\ Executes(u, "begin") /\ session[u].txn # "failed"
    /\ session' = [session EXCEPT ![u].txn = "open"]
    /\ Done(u)
    /\ UNCHANGED <<loc, conn, link, ret, given, outcome>>

\* Mutant of Insert: outside of a transaction each row is committed at once.
InsertCommits(u) ==
    /\ Executes(u, "insert") /\ session[u].txn = "open"
    /\ loc' = Append(loc, Head(todo[u]).row)
    /\ Done(u)
    /\ UNCHANGED <<conn, link, session, ret, given, outcome>>

Insert(u) ==
    /\ Executes(u, "insert") /\ session[u].txn = "open"
    /\ session' = [session EXCEPT ![u].rows = Append(@, Head(todo[u]).row)]
    /\ Done(u)
    /\ UNCHANGED <<loc, conn, link, ret, given, outcome>>

Commit(u) ==
    /\ Executes(u, "end") /\ session[u].txn = "open"
    /\ loc' = loc \o session[u].rows

\* The server commits, and the call returns a success.
End(u) ==
    /\ Commit(u)
    /\ session' = [session EXCEPT ![u] = NoTxn]
    /\ Returns(u)
    /\ ret' = [ret EXCEPT ![u] = "ok"]
    /\ Ends(u, "ok")
    /\ UNCHANGED <<conn, link>>

\* The call returns ERRCODE_DATABASE_STATEMENT_FAIL.
ReturnsError(u, kind) ==
    /\ Returns(u)
    /\ ret' = [ret EXCEPT ![u] = "error"]
    /\ Ends(u, kind)

\* Mutant of CheckStmt: the connection is kept, with its transaction.
CheckStmtKeeps(u, kind) ==
    /\ session' = [session EXCEPT ![u].txn = IF @ = "open" THEN "failed" ELSE @]
    /\ UNCHANGED <<conn, link>>
    /\ ReturnsError(u, kind)

\* CHECK_STMT with a status that is not PGRES_COMMAND_OK.
CheckStmt(u, kind) == HangUp(u, "finished") /\ ReturnsError(u, kind)

\* The server refuses a statement, or cannot be reached.
Fails(u) ==
    /\ ~Idle(u) /\ conn[u] = "open"
    /\ "refuse" \in Faults \/ ~link[u]
    /\ CheckStmt(u, "failed")
    /\ UNCHANGED loc

\* Mutant of EndUnanswered: the call connects again and repeats its statements.
EndUnansweredRepeats(u) ==
    /\ "drop" \in Faults
    /\ Commit(u)
    /\ session' = [session EXCEPT ![u] = NoTxn]
    /\ todo' = [todo EXCEPT ![u] =
                    <<BEGIN>> \o [i \in DOMAIN given[u] |-> INSERT(given[u][i])] \o <<END>>]
    /\ UNCHANGED <<conn, link, ret, given, outcome>>

\* The answer to an END gets lost, after the server committed.
EndUnanswered(u) ==
    /\ "drop" \in Faults
    /\ Commit(u)
    /\ CheckStmt(u, "unanswered")

\* libpq answers a SELECT with PGRES_TUPLES_OK: CHECK_STMT takes that for a failure.
SelectStatus == "PGRES_TUPLES_OK"

Select(u) ==
    /\ Executes(u, "select") /\ session[u].txn = "open"
    /\ IF SelectStatus = "PGRES_COMMAND_OK"
       THEN Done(u) /\ UNCHANGED <<conn, link, session, ret, given, outcome>>
       ELSE CheckStmt(u, "failed")
    /\ UNCHANGED loc

\* A call with a finished connection, where the process does not die of it.
UsesFinished(u) ==
    /\ ~Idle(u) /\ conn[u] = "finished"
    /\ CheckStmt(u, "failed")
    /\ UNCHANGED loc

\* What a process does in a call, and what can happen to it there.
CallStep(u) ==
    \/ Begin(u)
    \/ Insert(u)
    \/ Select(u)
    \/ End(u)
    \/ Fails(u)
    \/ EndUnanswered(u)
    \/ UsesFinished(u)
-----------------------------------------------------------------------------
(* Properties. *)

\* A call stores all of its rows or none, and says truly which, but for one case:
\* when the answer to END is lost it returns an error and everything is stored.
OutcomeIsTrue ==
    \A o \in outcome :
        LET rows   == {o.rows[i] : i \in 1..Len(o.rows)}
            stored == {loc[i] : i \in 1..Len(loc)}
        IN  /\ o.end \in {"ok", "unanswered"} => rows \subseteq stored
            /\ o.end = "failed" => rows \cap stored = {}

\* No call leaves a transaction open on a connection that is used again: the next
\* BEGIN would join it, or be refused with it.
NoIdleTransaction == \A u \in Users : Idle(u) /\ conn[u] = "open" => session[u] = NoTxn

\* pgwriter.cpp goes on after a failed putLog: no later one succeeds, whatever becomes
\* of the server, until the collector is started anew.
FailureIsForGood == [][\A u \in Users : ret[u] = "error" => ret'[u] # "ok"]_pgVars
=============================================================================
