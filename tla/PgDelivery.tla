----------------------------- MODULE PgDelivery -----------------------------
(***************************************************************************)
(* Senders, the network and the collector of wacs-pg, which stores what it *)
(* receives into PostgreSQL (wacs-pg.cpp, pgwriter.cpp), beside programs   *)
(* that load a file into the same table or read it.                        *)
(*                                                                         *)
(* The collector is one process: its loop receives a packet and calls      *)
(* putLog, whose result it does not look at.  Its signal handler exits in  *)
(* the middle of whatever the loop was doing.                              *)
(***************************************************************************)
EXTENDS Sender, Pglog

CONSTANTS
    CollectorHost,      \* the byte order of the collector's host
    Lines               \* bound: the lines of the file

ASSUME DeliveryConstants ==
    /\ CollectorHost \in Host /\ Lines \in Nat \ {0}
    /\ Channel \cap Users = {}

Row == [from : Channel \cup Clients, n : Nat, dev : Word]

VARIABLES
    stage       \* where the collector is in main and run; "down" when it is no process

vars == <<senderVars, pgVars, stage>>

Init ==
    /\ SenderInit
    /\ PgInit
    /\ stage = [c \in Putters |-> "down"]

Bound == \E c \in Putters : stage[c] \in {"open", "loop", "putting", "shutdown"}

ToStage(c, place) == stage' = [stage EXCEPT ![c] = place]
-----------------------------------------------------------------------------
(* The collector. *)

\* main: the connection it tries is closed again; where there is none, it exits.
Start(c) ==
    /\ stage[c] = "down"
    /\ ToStage(c, "bind")
    /\ UNCHANGED <<senderVars, pgVars>>

\* nn_socket, nn_bind and the timeout of one second.
Bind(c) ==
    /\ stage[c] = "bind" /\ ~Bound
    /\ ToStage(c, "open")
    /\ UNCHANGED <<senderVars, pgVars>>

\* openDb of run.
Open(c) ==
    /\ stage[c] = "open"
    /\ OpenDb(c)
    /\ ToStage(c, "loop")
    /\ UNCHANGED <<senderVars>>

\* nn_recv gives a message, and run calls putLog, which converts it.
Receive(c, k) ==
    /\ stage[c] = "loop"
    /\ Take(k)
    /\ LET m == Head(pipe[k])
       IN  PutLog(c, [from |-> m.from, n |-> m.n, dev |-> Received(CollectorHost, m.dev)])
    /\ ToStage(c, "putting")
    /\ UNCHANGED <<sock, call, calls, links, sent>>

PutLogStep(c) ==
    /\ stage[c] = "putting"
    /\ CallStep(c)
    /\ UNCHANGED <<senderVars, stage>>

\* putLog has returned, and run does not look at what.
Returned(c) ==
    /\ stage[c] = "putting" /\ Idle(c)
    /\ ToStage(c, "loop")
    /\ UNCHANGED <<senderVars, pgVars>>

\* EINTR in nn_recv sets stop_request, and the loop ends.
Interrupted(c) ==
    /\ stage[c] = "loop"
    /\ CloseDb(c)
    /\ ToStage(c, "shutdown")
    /\ UNCHANGED <<senderVars>>

\* The process ends: run returns an error or its last lines are done, SIGINT, or a
\* connection used after PQfinish.
Exit(c) ==
    /\ stage[c] # "down"
    /\ Gone(c)
    /\ IF Bound /\ stage[c] # "bind" THEN Unbound ELSE UNCHANGED <<pipe, sock>>
    /\ ToStage(c, "down")
    /\ UNCHANGED <<call, calls, links, sent>>

CollectorStep(c) ==
    \/ Start(c)
    \/ Bind(c)
    \/ Open(c)
    \/ \E k \in Channel : Receive(c, k)
    \/ PutLogStep(c)
    \/ Returned(c)
    \/ Interrupted(c)
    \/ Exit(c)
-----------------------------------------------------------------------------
(* The programs beside it, which use the functions of pglog.h: one call, and they  *)
(* end.  A file is loaded once.                                                    *)

Loaded(u) == \E o \in outcome : o.by = u

ClientStep(u) ==
    /\ \/ OpenDb(u)
       \/ \E values \in [1..Lines -> Value] :
             /\ ret[u] = "none" /\ ~Loaded(u)
             /\ PutLogEntries(u, [i \in 1..Lines |-> [from |-> u, n |-> i, dev |-> values[i]]])
       \/ ret[u] = "none" /\ ReadLog(u)
       \/ CallStep(u)
       \/ CloseDb(u)
       \/ ~Idle(u) /\ Gone(u)
    /\ UNCHANGED <<senderVars, stage>>

Next ==
    \/ \E s \in Senders : SenderStep(s) /\ UNCHANGED <<pgVars, stage>>
    \/ \E s \in Senders : Bound /\ Connect(s) /\ UNCHANGED <<pgVars, stage>>
    \/ \E s \in Senders : LosesConnection(s) /\ UNCHANGED <<pgVars, stage>>
    \/ \E c \in Putters : CollectorStep(c)
    \/ \E u \in Clients : ClientStep(u)
    \/ \E u \in Users : Drop(u) /\ UNCHANGED <<senderVars, stage>>

Spec == Init /\ [][Next]_vars
-----------------------------------------------------------------------------
(* Properties. *)

TypeOK ==
    /\ SenderTypeOK
    /\ conn \in [Users -> {"none", "open", "finished"}] /\ link \in [Users -> BOOLEAN]
    /\ ret \in [Users -> {"none", "ok", "error"}]
    /\ stage \in [Putters -> {"down", "bind", "open", "loop", "putting", "shutdown"}]
    /\ \A u \in Users : session[u].txn \in {"none", "open", "failed"}
    /\ \A i \in 1..Len(loc) : loc[i] \in Row

\* Packets may get lost in the pipes of the senders and in a connection that is down:
\* what is stored, is stored once, in the order in which one connection took it, with the
\* sender's numbers on whichever hosts the two run, and a file is stored whole. Nothing
\* is promised about the order of packets of two connections, of one sender too.
CourierPromise == INSTANCE Courier WITH rows <- loc, Channels <- Channel, Loaders <- Clients
ImplementsCourier == CourierPromise!Spec
=============================================================================
