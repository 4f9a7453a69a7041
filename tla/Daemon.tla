------------------------------- MODULE Daemon -------------------------------
(***************************************************************************)
(* The process of the collector: main (wacs.cpp), its way into the         *)
(* background (daemonize.cpp, POSIX), the loop (lmdbwriter.cpp), the       *)
(* thread of the SNMP agent (utilsnmp.cpp, snmpagent-wacs.cpp), the        *)
(* handler of SIGINT, which may run on either thread, and wacs-snmp, which *)
(* asks the agent for one object after the other.                          *)
(*                                                                         *)
(* What putLog does to the database is the subject of Dblog; here it is    *)
(* the call that swaps the bytes of the packet in place, unless the packet *)
(* is too short, and that waits for the writer lock of the database.       *)
(***************************************************************************)
EXTENDS LogEntry, FiniteSetsExt

CONSTANTS
    CollectorHost,      \* the byte order of the collector's host
    Signal,             \* the signal strengths that are sent
    Macs,               \* the MAC addresses, as numbers
    LastFd,             \* bound: the highest file descriptor
    SocketFds           \* how many of them nn_socket takes

ASSUME DaemonConstants ==
    /\ CollectorHost \in Host /\ Signal \subseteq Word /\ Macs \subseteq Nat \ {0}
    /\ SocketFds \in Nat /\ SocketFds >= 2
    /\ LastFd \in Nat /\ LastFd >= 5 + SocketFds

VARIABLES
    at,         \* where the main thread is; "none": there is no process
    options,    \* daemonize and snmp_agent of the configuration
    fds,        \* what is open under each file descriptor
    stop_request,
    handler,    \* of SIGINT: the thread it runs on, and how far it is
    agent,      \* the agent's thread
    e,          \* the packet that was received: MAC and signal, as the host reads it,
                \* and whether all its bytes came
    counter,    \* the counters that a packet changes, which both threads use; history:
                \* whether the signal is one of a whole packet
    monitor,    \* wacs-snmp: how many objects it has asked for, and the last answer,
                \* with the history of the counter it comes from
    asked       \* history: where the main thread was when a stop was asked for
vars == <<at, options, fds, stop_request, handler, agent, e, counter, monitor, asked>>

NoPacket  == [sa |-> 0, ssi_signal |-> 0, whole |-> TRUE]
NoCounter == [lastmac |-> 0, lastssisignal |-> 0, whole |-> TRUE]
NoAnswer  == [of |-> "none", value |-> 0, whole |-> TRUE]

Setup   == {"main", "session", "detached", "runner", "queue", "socket", "bound", "option"}
Looping == {"loop", "recv", "put", "mac", "signal"}
Ending  == {"close", "shutdown", "snmpdone", "returned"}
NoHandler == [on |-> "none", step |-> "none"]
Fd        == 0..LastFd

\* A process that has just been started by a shell, or none.
Init ==
    /\ at = "none"
    /\ options = [daemonize |-> FALSE, agent |-> FALSE]
    /\ fds = [x \in Fd |-> "free"]
    /\ stop_request = FALSE
    /\ handler = NoHandler
    /\ agent = "none"
    /\ e = NoPacket /\ counter = NoCounter
    /\ monitor = [asked |-> 0, answer |-> NoAnswer]
    /\ asked = "never"

Free        == {x \in Fd : fds[x] = "free"}
\* open, socket, ... take the lowest numbers that are free.
Lowest(n)   == CHOOSE S \in kSubset(n, Free) : \A x \in S : \A y \in Free \ S : x < y
Opened(n, what) == [x \in Fd |-> IF x \in Lowest(n) THEN what ELSE fds[x]]
Closed(what)    == [x \in Fd |-> IF fds[x] = what THEN "free" ELSE fds[x]]

\* The process is gone, and with it all that it had.
Over ==
    /\ at' = "none"
    /\ fds' = [x \in Fd |-> "free"]
    /\ stop_request' = FALSE /\ handler' = NoHandler /\ agent' = "none"
    /\ e' = NoPacket /\ counter' = NoCounter /\ asked' = "never"
    /\ UNCHANGED <<options, monitor>>

Go(from, to) == at = from /\ at' = to
-----------------------------------------------------------------------------
(* main and Daemonize::init. *)

\* main with a configuration: SIGINT has its handler.
Main ==
    /\ Go("none", "main")
    /\ options' \in [daemonize : BOOLEAN, agent : BOOLEAN]
    /\ fds' = [x \in Fd |-> IF x <= 2 THEN "tty" ELSE "free"]
    /\ UNCHANGED <<stop_request, handler, agent, e, counter, monitor, asked>>

Foreground ==
    /\ ~options.daemonize /\ Go("main", "runner")
    /\ UNCHANGED <<options, fds, stop_request, handler, agent, e, counter, monitor, asked>>

\* fork and setsid, SIGHUP ignored, and a second fork: the parents exit.
Fork ==
    /\ options.daemonize /\ (Go("main", "session") \/ Go("session", "detached"))
    /\ UNCHANGED <<options, fds, stop_request, handler, agent, e, counter, monitor, asked>>

\* A fork or setsid that fails: exit.
ForkFails == at \in {"main", "session"} /\ options.daemonize /\ Over

\* All the descriptors above 0; then the pid file is written and closed.
CloseFds ==
    /\ Go("detached", "runner")
    /\ fds' = [x \in Fd |-> IF x > 0 THEN "free" ELSE fds[x]]
    /\ UNCHANGED <<options, stop_request, handler, agent, e, counter, monitor, asked>>
-----------------------------------------------------------------------------
(* run: before the loop. *)

\* snmpInitialize: the counters are cleared. With an agent, snmpInit connects it,
\* resets stop_request, and starts the thread.
SnmpInitialize ==
    /\ Go("runner", "queue")
    /\ counter' = NoCounter
    /\ IF options.agent
       THEN fds' = Opened(1, "agent") /\ stop_request' = FALSE /\ agent' = "running"
       ELSE UNCHANGED <<fds, stop_request, agent>>
    /\ UNCHANGED <<options, handler, e, monitor, asked>>

\* Mutant of ResetStop: the database is opened here, before there is a socket.
ResetStopOpensDb ==
    /\ Go("queue", "socket")
    /\ stop_request' = FALSE /\ fds' = Opened(2, "database")
    /\ UNCHANGED <<options, handler, agent, e, counter, monitor, asked>>

\* The message queue is there (nothing uses it), and stop_request is reset.
ResetStop ==
    /\ Go("queue", "socket")
    /\ stop_request' = FALSE
    /\ UNCHANGED <<options, fds, handler, agent, e, counter, monitor, asked>>

NnSocket ==
    /\ Go("socket", "bound")
    /\ fds' = Opened(SocketFds, "socket")
    /\ UNCHANGED <<options, stop_request, handler, agent, e, counter, monitor, asked>>

\* nn_bind and the option NN_RCVTIMEO, or an error: then run returns at once.
NnBind ==
    /\ Go("bound", "option") \/ Go("bound", "returned")
    /\ UNCHANGED <<options, fds, stop_request, handler, agent, e, counter, monitor, asked>>

OpenDb ==
    /\ \/ Go("option", "loop") /\ fds' = Opened(2, "database")
       \/ Go("option", "returned") /\ UNCHANGED fds
    /\ UNCHANGED <<options, stop_request, handler, agent, e, counter, monitor, asked>>
-----------------------------------------------------------------------------
(* run: the loop. *)

While ==
    /\ IF stop_request THEN Go("loop", "close") ELSE Go("loop", "recv")
    /\ UNCHANGED <<options, fds, stop_request, handler, agent, e, counter, monitor, asked>>

\* nn_recv gives a packet as it is on the network.
Receive ==
    /\ Go("recv", "put")
    /\ \E m \in Macs, v \in Signal, from \in Host :
          e' = [sa |-> m, ssi_signal |-> Number(CollectorHost, Sent(from, v)), whole |-> TRUE]
    /\ UNCHANGED <<options, fds, stop_request, handler, agent, counter, monitor, asked>>

\* A message shorter than a LogEntry, which any peer of the socket may send: the bytes that
\* did not come are those of the stack.
ReceiveShort ==
    /\ Go("recv", "put")
    /\ \E m \in Macs \cup {0}, v \in Word : e' = [sa |-> m, ssi_signal |-> v, whole |-> FALSE]
    /\ UNCHANGED <<options, fds, stop_request, handler, agent, counter, monitor, asked>>

\* Mutant of Timeout: the loop tries again.
TimeoutAgain ==
    /\ Go("recv", "recv")
    /\ UNCHANGED <<options, fds, stop_request, handler, agent, e, counter, monitor, asked>>

\* ETIMEDOUT after a second, or an error that is logged.
Timeout ==
    /\ Go("recv", "loop")
    /\ UNCHANGED <<options, fds, stop_request, handler, agent, e, counter, monitor, asked>>

\* EINTR.
RecvInterrupted ==
    /\ Go("recv", "loop")
    /\ stop_request' = TRUE
    /\ UNCHANGED <<options, fds, handler, agent, e, counter, monitor, asked>>

\* Mutant of PutLog: it converts a copy.
PutLogCopy ==
    /\ e.whole /\ Go("put", "mac")
    /\ UNCHANGED <<options, fds, stop_request, handler, agent, e, counter, monitor, asked>>

\* putLog, a success or not, has converted a whole packet in place, and then waited for the
\* writer lock.
PutLog ==
    /\ e.whole /\ Go("put", "mac")
    /\ e' = [e EXCEPT !.ssi_signal = NtohLogEntry(CollectorHost, @)]
    /\ UNCHANGED <<options, fds, stop_request, handler, agent, counter, monitor, asked>>

\* It returns at once from a short one, and leaves it as it is.
PutLogShort ==
    /\ ~e.whole /\ Go("put", "mac")
    /\ UNCHANGED <<options, fds, stop_request, handler, agent, e, counter, monitor, asked>>

\* MonitoringParams::put, whatever putLog returned, with an agent: lastmac is assigned, then lastssisignal.
PutLastmac ==
    /\ Go("mac", "signal")
    /\ counter' = IF options.agent THEN [counter EXCEPT !.lastmac = e.sa] ELSE counter
    /\ UNCHANGED <<options, fds, stop_request, handler, agent, e, monitor, asked>>

PutLastssisignal ==
    /\ Go("signal", "loop")
    /\ counter' = IF options.agent
                  THEN [counter EXCEPT !.lastssisignal = e.ssi_signal, !.whole = e.whole]
                  ELSE counter
    /\ UNCHANGED <<options, fds, stop_request, handler, agent, e, monitor, asked>>
-----------------------------------------------------------------------------
(* run: after the loop; and exit. *)

CloseDb ==
    /\ Go("close", "shutdown")
    /\ fds' = Closed("database")
    /\ UNCHANGED <<options, stop_request, handler, agent, e, counter, monitor, asked>>

\* nn_shutdown, whose error is logged, and nn_close.
NnClose ==
    /\ Go("shutdown", "snmpdone")
    /\ fds' = Closed("socket")
    /\ UNCHANGED <<options, stop_request, handler, agent, e, counter, monitor, asked>>

\* The agent is closed, while its thread may still be waiting in it.
SnmpDone ==
    /\ Go("snmpdone", "returned")
    /\ fds' = Closed("agent")
    /\ UNCHANGED <<options, stop_request, handler, agent, e, counter, monitor, asked>>

\* done: exit(0), after an error too.
Done == at = "returned" /\ Over

MainStep ==
    /\ handler.on # "main"
    /\ \/ Foreground \/ Fork \/ CloseFds
       \/ SnmpInitialize \/ ResetStop \/ NnSocket \/ NnBind
       \/ While \/ Timeout \/ PutLogShort \/ PutLastmac \/ PutLastssisignal
       \/ CloseDb \/ NnClose \/ SnmpDone \/ Done

\* These begin a transaction: they wait for the writer lock, which other processes may keep.
LockStep == handler.on # "main" /\ (OpenDb \/ PutLog)
-----------------------------------------------------------------------------
(* The agent's thread, and wacs-snmp. *)

\* init_mibs, in the order of the objects in the tree.
MibObjects == <<"databasefilename", "ip", "port", "starttime", "requestsperhour", "lastmac",
                "lastssisignal", "totalmac", "databasefilesize", "memorypeak",
                "memorycurrent", "errorcount">>

Torn == -1

\* The handler of an object reads it while the main thread may be assigning it. The bytes
\* of lastmac are freed by that: what the agent sends then is anything (Torn). The other
\* objects do not come from packets (port, requestsperhour, totalmac and errorcount are
\* never counted): their answers are 0 here.
Handled(object) ==
    CASE object = "lastmac"       -> {counter.lastmac} \cup IF at = "mac" THEN {Torn} ELSE {}
      [] object = "lastssisignal" -> {counter.lastssisignal}
      [] OTHER                    -> {0}

\* main of wacs-snmp asks for the objects in this order.
NextObject == MibObjects[monitor.asked + 1]

Shows(values) ==
    \E v \in values :
        monitor' = [asked |-> monitor.asked + 1,
                    answer |-> [of |-> NextObject, value |-> v, whole |-> counter.whole]]

AgentGo(from, to) == handler.on # "agent" /\ agent = from /\ agent' = to

\* snmpLoop: without a stop it waits in agent_check_and_process.
AgentChecks ==
    /\ ~stop_request /\ AgentGo("running", "waiting")
    /\ UNCHANGED <<at, options, fds, stop_request, handler, e, counter, monitor, asked>>

\* The request comes, and is answered from the counters, after a stop too: it is the call
\* that was waiting. snmpDone closes what the requests come from.
AgentAnswers ==
    /\ at # "returned" /\ AgentGo("waiting", "running")
    /\ monitor.asked < Len(MibObjects) /\ Shows(Handled(NextObject))
    /\ UNCHANGED <<at, options, fds, stop_request, handler, e, counter, asked>>

\* It returns without a request: for an alarm of the library, or a signal.
AgentWakes ==
    /\ AgentGo("waiting", "running")
    /\ UNCHANGED <<at, options, fds, stop_request, handler, e, counter, monitor, asked>>

\* getSNMPString1, getSNMPInt: without an answer, or with an error in it, the value is an
\* empty text or 0.
NoAnswerComes ==
    /\ monitor.asked < Len(MibObjects) /\ Shows({0})
    /\ UNCHANGED <<at, options, fds, stop_request, handler, agent, e, counter, asked>>

\* wacs-snmp has printed its line; it may be started again.
MonitorPrints ==
    /\ monitor.asked = Len(MibObjects)
    /\ monitor' = [asked |-> 0, answer |-> NoAnswer]
    /\ UNCHANGED <<at, options, fds, stop_request, handler, agent, e, counter, asked>>

AgentEnds ==
    /\ stop_request /\ AgentGo("running", "ended")
    /\ UNCHANGED <<at, options, fds, stop_request, handler, e, counter, monitor, asked>>
-----------------------------------------------------------------------------
(* Signals. *)

\* SIGINT: the kernel chooses a thread, which is held up by the handler.
Sigint ==
    /\ at # "none" /\ handler = NoHandler
    /\ \E t \in {"main"} \cup {x \in {"agent"} : agent \in {"running", "waiting"}} :
          handler' = [on |-> t, step |-> "stop"]
    /\ UNCHANGED <<at, options, fds, stop_request, agent, e, counter, monitor, asked>>

\* stopNWait.
HandlerStops ==
    /\ handler.step = "stop"
    /\ stop_request' = TRUE
    /\ handler' = [handler EXCEPT !.step = "exit"]
    /\ asked' = at
    /\ UNCHANGED <<at, options, fds, agent, e, counter, monitor>>

\* Mutant of HandlerExits: the handler returns.
HandlerReturns ==
    /\ handler.step = "exit"
    /\ handler' = NoHandler
    /\ UNCHANGED <<at, options, fds, stop_request, agent, e, counter, monitor, asked>>

\* done: exit(0), which destroys the static objects.
HandlerExits == handler.step = "exit" /\ Over

\* exit is not for signal handlers: where it interrupted a call that holds a lock of
\* the C library, it waits for that forever. A thread that waits in nn_recv holds none.
HandlerHangs ==
    /\ handler.step = "exit"
    /\ handler.on = "main" => at # "recv"
    /\ handler' = [handler EXCEPT !.step = "hung"]
    /\ UNCHANGED <<at, options, fds, stop_request, agent, e, counter, monitor, asked>>

\* SIGTERM, SIGKILL; and in the foreground SIGHUP, for which no handler is registered.
Killed == at # "none" /\ Over

HandlerStep == HandlerStops \/ HandlerExits

Next ==
    \/ Main \/ ForkFails
    \/ MainStep
    \/ LockStep
    \/ handler.on # "main" /\ (Receive \/ ReceiveShort \/ RecvInterrupted)
    \/ AgentChecks \/ AgentAnswers \/ AgentWakes \/ NoAnswerComes \/ MonitorPrints \/ AgentEnds
    \/ Sigint \/ HandlerStep \/ HandlerHangs
    \/ Killed

Spec == Init /\ [][Next]_vars

\* The main thread runs, and waits at most the second of NN_RCVTIMEO, but for the writer
\* lock as long as it is kept; a handler runs. Packets, requests and signals may stay away.
FairSpec == Spec /\ WF_vars(MainStep) /\ WF_vars(HandlerStep)
-----------------------------------------------------------------------------
(* Properties. *)

TypeOK ==
    /\ at \in {"none"} \cup Setup \cup Looping \cup Ending
    /\ options \in [daemonize : BOOLEAN, agent : BOOLEAN]
    /\ fds \in [Fd -> {"free", "tty", "agent", "socket", "database"}]
    /\ stop_request \in BOOLEAN
    /\ handler \in [on : {"none", "main", "agent"}, step : {"none", "stop", "exit", "hung"}]
    /\ agent \in {"none", "running", "waiting", "ended"}
    /\ e \in [sa : Macs \cup {0}, ssi_signal : Word, whole : BOOLEAN]
    /\ counter \in [lastmac : Macs \cup {0}, lastssisignal : Word, whole : BOOLEAN]
    /\ monitor.asked \in 0..Len(MibObjects)
    /\ asked \in {"never"} \cup Setup \cup Looping \cup Ending

\* A daemon has closed descriptor 2 and goes on writing its log to it (log.h, and
\* snmp_enable_stderrlog in utilsnmp.cpp 48): whatever gets that number gets the log.
\* It is never the database.
LogNotInDatabase == at # "none" => fds[2] # "database"

\* What wacs-snmp shows for a signal that the counters have from a whole packet, or from
\* none, is a signal that was sent, or 0: the loop counts a packet after putLog swapped its
\* bytes (lmdbwriter.cpp 133-144), whatever host it comes from, wherever the main thread is
\* when the agent reads the counters, and whatever short packets come in between.
AnswersAreSent ==
    monitor.answer.of = "lastssisignal" /\ monitor.answer.whole =>
        monitor.answer.value \in Signal \cup {0}

\* wacs-snmp shows the "last signal SSI, dB" (mib/WACS-COMMANDUS-MIB 162-163): a signal that
\* was sent, or 0. The code breaks it: lmdbwriter.cpp 143-144 counts a packet that putLog
\* refused (dblog.cpp 192-193) before it swapped its bytes.
LastSignalIsSent ==
    monitor.answer.of = "lastssisignal" => monitor.answer.value \in Signal \cup {0}

\* A stop that is asked for in the loop ends it, and the process, even when the handler
\* hangs on the agent's thread; unless putLog waits for a lock that others keep for ever.
StopEndsLoop ==
    asked \in Looping ~>
        (at = "none" \/ handler = [on |-> "main", step |-> "hung"] \/ [](at = "put"))

\* A stop that is asked for at any time ends the process unless its handler hangs: both
\* resets of stop_request come too late to lose it, since the handler itself exits.
StopEndsProcess == asked # "never" ~> (at = "none" \/ handler.step = "hung")
=============================================================================
