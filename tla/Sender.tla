------------------------------- MODULE Sender -------------------------------
(***************************************************************************)
(* The programs that send packets to a collector: hostapd through the C    *)
(* interface (wacs-c.cpp), with one socket for each event or one that it   *)
(* keeps, and `wacsc test` (sendTest, wacsc.cpp 92-115), with one for each *)
(* call.  Both go through send-log-entry.cpp.                              *)
(*                                                                         *)
(* nanomsg connects in the background, again where a connection got lost,  *)
(* and its bus promises nothing: a message sent while there is none, or    *)
(* into a full pipe, is dropped, and nn_send reports a success all the     *)
(* same.  Each connection is a pipe of its own, and the collector's socket *)
(* takes from any of them.                                                 *)
(***************************************************************************)
EXTENDS LogEntry, FiniteSets

CONSTANTS
    Hostapd,    \* senders that may keep their socket for many calls
    Tester,     \* `wacsc test`
    Repeats,    \* -n, and the repetitions of a call of hostapd
    Macs,       \* the number of MACs on the command line of `wacsc test`
    HostOf,     \* the byte order of each sender's host
    Value,      \* the device numbers they send
    PipeMax,    \* the messages that fit into a pipe
    MaxCalls,   \* bound: calls of one sender of hostapd
    MaxLinks    \* bound: connections of one sender

Senders == Hostapd \cup Tester

\* The connections of each sender, in the order they are made.
Channel == Senders \X (1..MaxLinks)

ASSUME SenderConstants ==
    /\ Hostapd \cap Tester = {}
    /\ Repeats \in Nat \ {0} /\ Macs \in Nat \ {0}
    /\ HostOf \in [Senders -> Host]
    /\ Value \subseteq Word
    /\ PipeMax \in Nat \ {0}
    /\ MaxCalls \in Nat /\ MaxLinks \in Nat

VARIABLES
    sock,       \* what the sender knows as its socket, and whether it is connected
    call,       \* the call of sendLogEntrySocket it is in: repetitions left, value
    calls,      \* the calls it is back from
    links,      \* the connections it has made
    sent,       \* history: the value of every nn_send, per connection
    pipe        \* the messages on their way, per connection
senderVars == <<sock, call, calls, links, sent, pipe>>

NoCall  == [left |-> 0, value |-> -1]
Message == [from : Channel, n : Nat \ {0}, dev : Byte \X Byte]

SenderInit ==
    /\ sock = [s \in Senders |-> "none"]
    /\ call = [s \in Senders |-> NoCall]
    /\ calls = [s \in Senders |-> 0]
    /\ links = [s \in Senders |-> 0]
    /\ sent = [k \in Channel |-> <<>>]
    /\ pipe = [k \in Channel |-> <<>>]

\* sendTest calls for each MAC, and repeats that for i < repeats. It may end before: at a
\* text that is no whole MAC, or after Ctrl-C.
MostCalls(s) == IF s \in Tester THEN Repeats * Macs ELSE MaxCalls
HasCalls(s)  == calls[s] < MostCalls(s)

\* No caller looks at what a call returned.
CallEnds(s) == calls' = [calls EXCEPT ![s] = @ + 1]

\* The connection of a socket that is connected.
Link(s) == <<s, links[s]>>

\* What is left of a pipe when its connection ends: some beginning of it has reached the
\* collector's host and can still be received.
Breaks(s) ==
    IF sock[s] = "connected"
    THEN \E i \in 0..Len(pipe[Link(s)]) :
            pipe' = [pipe EXCEPT ![Link(s)] = SubSeq(@, 1, i)]
    ELSE UNCHANGED pipe

-----------------------------------------------------------------------------
\* openSocketLog: nn_connect returns at once; the poll that follows waits 100 ms
\* for input that a sender does not get.
OpenSocketLog(s) ==
    /\ sock[s] = "none" /\ HasCalls(s)
    /\ sock' = [sock EXCEPT ![s] = "connecting"]
    /\ UNCHANGED <<call, calls, links, sent, pipe>>

\* nn_socket or nn_connect fails: the call returns, the socket is not closed.
OpenSocketLogFails(s) ==
    /\ sock[s] = "none" /\ HasCalls(s)
    /\ CallEnds(s)
    /\ UNCHANGED <<sock, call, links, sent, pipe>>

\* sendLogEntrySocket begins.
SendLogEntrySocket(s, v) ==
    /\ sock[s] # "none" /\ call[s] = NoCall /\ HasCalls(s)
    /\ call' = [call EXCEPT ![s] = [left |-> Repeats, value |-> v]]
    /\ UNCHANGED <<sock, calls, links, sent, pipe>>

\* One nn_send of it.
NnSend(s) ==
    /\ call[s].left > 0
    /\ LET k       == Link(s)
           message == [from |-> k, n |-> Len(sent[k]) + 1,
                       dev |-> Sent(HostOf[s], call[s].value)]
       IN  IF sock[s] = "connected"
           THEN /\ sent' = [sent EXCEPT ![k] = Append(@, call[s].value)]
                /\ pipe' = IF Len(pipe[k]) < PipeMax
                           THEN [pipe EXCEPT ![k] = Append(@, message)] ELSE pipe
           ELSE UNCHANGED <<sent, pipe>>
    /\ call' = [call EXCEPT ![s].left = @ - 1]
    /\ UNCHANGED <<sock, calls, links>>

\* hostapd is back from the call, and keeps its socket.
SendReturns(s) ==
    /\ s \in Hostapd /\ call[s] # NoCall /\ call[s].left = 0
    /\ call' = [call EXCEPT ![s] = NoCall]
    /\ CallEnds(s)
    /\ UNCHANGED <<sock, links, sent, pipe>>

\* closeSocketLog: at the end of a call of sendLogEntry, or when hostapd calls it.
CloseSocketLog(s) ==
    /\ sock[s] # "none" /\ call[s].left = 0
    /\ IF call[s] = NoCall THEN s \in Hostapd /\ UNCHANGED calls ELSE CallEnds(s)
    /\ Breaks(s)
    /\ sock' = [sock EXCEPT ![s] = "none"]
    /\ call' = [call EXCEPT ![s] = NoCall]
    /\ UNCHANGED <<links, sent>>

SenderStep(s) ==
    \/ OpenSocketLog(s)
    \/ OpenSocketLogFails(s)
    \/ \E v \in Value : SendLogEntrySocket(s, v)
    \/ NnSend(s)
    \/ SendReturns(s)
    \/ CloseSocketLog(s)

-----------------------------------------------------------------------------
(* What the library does, seen from the side of the collector's socket. *)

\* The connection is made; there must be a bound socket.
Connect(s) ==
    /\ sock[s] = "connecting" /\ links[s] < MaxLinks
    /\ sock' = [sock EXCEPT ![s] = "connected"]
    /\ links' = [links EXCEPT ![s] = @ + 1]
    /\ UNCHANGED <<call, calls, sent, pipe>>

\* The network loses it, and the socket tries again.
LosesConnection(s) ==
    /\ sock[s] = "connected"
    /\ Breaks(s)
    /\ sock' = [sock EXCEPT ![s] = "connecting"]
    /\ UNCHANGED <<call, calls, links, sent>>

\* nn_recv takes the oldest message of a pipe.
Take(k) ==
    /\ pipe[k] # <<>>
    /\ pipe' = [pipe EXCEPT ![k] = Tail(@)]

\* The bound socket is gone, with what was in its pipes; the senders try again.
Unbound ==
    /\ pipe' = [k \in Channel |-> <<>>]
    /\ sock' = [s \in Senders |-> IF sock[s] = "connected" THEN "connecting" ELSE sock[s]]

SenderTypeOK ==
    /\ sock \in [Senders -> {"none", "connecting", "connected"}]
    /\ call \in [Senders -> [left : 0..Repeats, value : Value \cup {-1}]]
    /\ \A s \in Senders :
          /\ calls[s] \in 0..MostCalls(s)
          /\ links[s] \in 0..MaxLinks
    /\ \A k \in Channel :
          /\ Len(pipe[k]) <= PipeMax /\ \A i \in 1..Len(pipe[k]) : pipe[k][i] \in Message
          /\ \A i \in 1..Len(sent[k]) : sent[k][i] \in Value
=============================================================================
