-------------------------- MODULE PgDeliveryProofs --------------------------
(***************************************************************************)
(* Theorems about PgDelivery, for any senders on any hosts, any number of  *)
(* collectors and of programs beside them, and all the faults of the       *)
(* network and of the server.                                              *)
(***************************************************************************)
EXTENDS PgDelivery, LogEntryProofs, SequenceTheorems

-----------------------------------------------------------------------------
(* The inductive invariant, in parts. *)

Statement == [is : {"begin", "select", "end"}] \cup [is : {"insert"}, row : Row]
Outcome   == [by : Users, rows : Seq(Row), end : {"ok", "failed", "unanswered"}]

SenderTypes ==
    /\ sock \in [Senders -> {"none", "connecting", "connected"}]
    /\ call \in [Senders -> [left : 0..Repeats, value : Value \cup {-1}]]
    /\ calls \in [Senders -> Nat]
    /\ links \in [Senders -> 0..MaxLinks]
    /\ sent \in [Channel -> Seq(Value)]
    /\ pipe \in [Channel -> Seq(Message)]

LinkTypes ==
    /\ conn \in [Users -> {"none", "open", "finished"}]
    /\ link \in [Users -> BOOLEAN]
    /\ ret \in [Users -> {"none", "ok", "error"}]

StageType ==
    stage \in [Putters -> {"down", "bind", "open", "loop", "putting", "shutdown"}]

CallTypes ==
    /\ session \in [Users -> [txn : {"none", "open", "failed"}, rows : Seq(Row)]]
    /\ todo \in [Users -> Seq(Statement)]
    /\ given \in [Users -> Seq(Row)]

StoreTypes ==
    /\ loc \in Seq(Row)
    /\ outcome \subseteq Outcome

\* What a sender sends is a value, its calls are counted, a call has a socket, and a socket
\* that is connected has a connection.
SenderCount(s) ==
    /\ call[s].left > 0 => call[s].value \in Value
    /\ calls[s] <= MostCalls(s)
    /\ call[s] # NoCall => HasCalls(s)
    /\ sock[s] = "connected" => links[s] # 0
    /\ sock[s] = "none" => call[s] = NoCall

SenderCounts ==
    /\ \A s \in Senders : SenderCount(s)
    /\ \A k \in Channel : Len(pipe[k]) <= PipeMax

\* A message in a pipe is one that was sent over the connection, behind those that were
\* sent over it before.
PipesInOrder ==
    \A k \in Channel : \A i \in 1..Len(pipe[k]) :
        /\ pipe[k][i].from = k
        /\ pipe[k][i].n <= Len(sent[k])
        /\ pipe[k][i].dev = Sent(HostOf[k[1]], sent[k][pipe[k][i].n])
        /\ \A j \in 1..(i - 1) : pipe[k][j].n < pipe[k][i].n

Reading(u) ==
    /\ given[u] = <<>>
    /\ todo[u] \in {<<BEGIN, SELECT, END>>, <<SELECT, END>>}

\* A call that stores has executed some of its statements: the rows it inserted are the
\* first of those it was given, the ones it has still to insert are the others.
Storing(u) ==
    LET left == Len(todo[u])
        rows == Len(given[u])
    IN  /\ given[u] # <<>>
        /\ left <= rows + 2
        /\ todo[u][left] = END
        /\ \A i \in 1..(left - 1) :
              todo[u][i] = IF i = 1 /\ left = rows + 2 THEN BEGIN
                           ELSE INSERT(given[u][rows + 1 - left + i])
        /\ left = rows + 2 => session[u] = NoTxn
        /\ session[u].txn = "open" => session[u].rows = SubSeq(given[u], 1, rows + 1 - left)

CallInv(u) ==
    /\ Idle(u) \/ conn[u] # "open" \/ ~link[u] => session[u] = NoTxn
    /\ Idle(u) => given[u] = <<>>
    /\ ~Idle(u) => Reading(u) \/ Storing(u)
    /\ ret[u] = "error" => conn[u] = "finished"

Calls == \A u \in Users : CallInv(u)

HasSocket(c) == stage[c] \in {"open", "loop", "putting", "shutdown"}

\* One collector at a time has bound the socket, and only it is inside putLog.
OneCollector ==
    /\ \A c \in Putters : stage[c] # "putting" => Idle(c)
    /\ \A c, d \in Putters : HasSocket(c) /\ HasSocket(d) => c = d

\* A row is what was sent, and older than what is on its way over the same connection.
SentRow(r) ==
    /\ r.from \in Channel
    /\ r.n \in 1..Len(sent[r.from])
    /\ r.dev = sent[r.from][r.n]
    /\ \A i \in 1..Len(pipe[r.from]) : r.n < pipe[r.from][i].n

PuttersRow ==
    \A c \in Putters : given[c] # <<>> => Len(given[c]) = 1 /\ SentRow(given[c][1])

\* What a client is storing is its file, which it did not load before.
ClientsRows ==
    \A u \in Clients : given[u] # <<>> =>
        /\ ~Loaded(u)
        /\ Len(given[u]) = Lines
        /\ \A i \in 1..Lines : given[u][i].from = u /\ given[u][i].n = i /\ given[u][i].dev \in Value

\* A row that is stored, or that a call tried to store.
Settled(r) ==
    \/ \E i \in 1..Len(loc) : loc[i] = r
    \/ \E o \in outcome : \E i \in 1..Len(o.rows) : o.rows[i] = r

\* Such a row is older than all of its connection's that may still be stored.
SettledRows ==
    \A r \in Row : Settled(r) =>
        /\ r.from \in Clients => Loaded(r.from)
        /\ r.from \in Channel =>
              /\ r.n <= Len(sent[r.from])
              /\ \A i \in 1..Len(pipe[r.from]) : r.n < pipe[r.from][i].n
              /\ \A c \in Putters : given[c] # <<>> /\ given[c][1].from = r.from =>
                    r.n < given[c][1].n

Types == SenderTypes /\ LinkTypes /\ StageType /\ CallTypes /\ StoreTypes

IInv ==
    /\ Types
    /\ SenderCounts /\ PipesInOrder
    /\ Calls /\ OneCollector
    /\ PuttersRow /\ ClientsRows /\ SettledRows
    /\ OutcomeIsTrue
-----------------------------------------------------------------------------
(* The initial state. *)

\* A sender makes a number of calls.
LEMMA MostCallsType == \A s \in Senders : MostCalls(s) \in Nat
  BY SenderConstants DEF MostCalls

\* Before anything is started.
LEMMA InitInv == Init => IInv
<1> SUFFICES ASSUME Init PROVE IInv
  OBVIOUS
<1> USE DEF Init, SenderInit, PgInit
<1>1. Types
  <2>1. NoCall \in [left : 0..Repeats, value : Value \cup {-1}] /\ 0 \in 0..MaxLinks
    BY SenderConstants DEF NoCall
  <2>2. SenderTypes
    BY <2>1, SenderConstants DEF SenderTypes
  <2>3. LinkTypes /\ StageType /\ StoreTypes
    BY DEF LinkTypes, StageType, StoreTypes
  <2>4. CallTypes
    BY DEF CallTypes, NoTxn
  <2> QED
    BY <2>2, <2>3, <2>4 DEF Types
<1>2. SenderCounts
  <2>1. \A s \in Senders : MostCalls(s) \in Nat
    BY MostCallsType
  <2> QED
    BY <2>1, SenderConstants DEF SenderCounts, SenderCount, NoCall
<1>3. PipesInOrder
  BY DEF PipesInOrder
<1>4. Calls
  BY DEF Calls, CallInv, Idle
<1>5. OneCollector
  BY DEF OneCollector, HasSocket, Idle, Users
<1>6. PuttersRow /\ ClientsRows /\ SettledRows /\ OutcomeIsTrue
  BY DEF PuttersRow, ClientsRows, SettledRows, Settled, OutcomeIsTrue, Users
<1> QED
  BY <1>1, <1>2, <1>3, <1>4, <1>5, <1>6 DEF IInv
-----------------------------------------------------------------------------
(* Types. *)

\* A message is sent over a connection; one that is sent while there is none is lost.
Sends(s) == NnSend(s) /\ sock[s] = "connected"

\* The message that the next nn_send of a call makes.
NextMessage(s) ==
    [from |-> Link(s), n |-> Len(sent[Link(s)]) + 1, dev |-> Sent(HostOf[s], call[s].value)]

\* What htons leaves in memory is two bytes.
LEMMA SentType ==
    ASSUME NEW h \in Host, NEW v \in Word PROVE Sent(h, v) \in Byte \X Byte
  BY NetworkOrder, SwappedBytes

\* The connection of a socket that is connected is one of its sender's.
LEMMA LinkType ==
    ASSUME SenderTypes, SenderCounts, NEW s \in Senders, sock[s] = "connected"
    PROVE  Link(s) \in Channel /\ Link(s)[1] = s
<1>1. links[s] \in 1..MaxLinks
  BY SenderConstants DEF SenderTypes, SenderCounts, SenderCount
<1> QED
  BY <1>1 DEF Link, Channel

\* What a sender hands to nanomsg is a message with one of its values.
LEMMA NextMessageType ==
    ASSUME SenderTypes, SenderCounts, NEW s \in Senders, Sends(s)
    PROVE  NextMessage(s) \in Message /\ call[s].value \in Value
<1>1. call[s].value \in Value /\ Link(s) \in Channel
  BY LinkType DEF SenderCounts, SenderCount, Sends, NnSend
<1>2. Len(sent[Link(s)]) + 1 \in Nat \ {0}
  BY <1>1 DEF SenderTypes
<1>3. Sent(HostOf[s], call[s].value) \in Byte \X Byte
  BY <1>1, SentType, SenderConstants
<1> QED
  BY <1>1, <1>2, <1>3 DEF NextMessage, Message

\* nn_send over a connection: the message is in the pipe, or dropped.
LEMMA SendsEffect ==
    ASSUME SenderTypes, SenderCounts, NEW s \in Senders, Sends(s)
    PROVE  /\ Link(s) \in Channel /\ Link(s)[1] = s
           /\ call[s].value \in Value /\ NextMessage(s) \in Message
           /\ sent' = [sent EXCEPT ![Link(s)] = Append(@, call[s].value)]
           /\ \/ pipe' = pipe
              \/ /\ Len(pipe[Link(s)]) < PipeMax
                 /\ pipe' = [pipe EXCEPT ![Link(s)] = Append(@, NextMessage(s))]
  BY NextMessageType, LinkType DEF Sends, NnSend, NextMessage

\* nn_send while there is no connection.
LEMMA SendsNothing ==
    ASSUME NEW s \in Senders, NnSend(s), ~Sends(s)
    PROVE  UNCHANGED <<sent, pipe>>
  BY DEF Sends, NnSend

\* A connection that ends leaves some beginning of its pipe.
LEMMA BreaksEffect ==
    ASSUME SenderTypes, SenderCounts, NEW s \in Senders, Breaks(s)
    PROVE  \/ pipe' = pipe
           \/ \E k \in Channel : \E rest \in Seq(Message) :
                 /\ pipe' = [pipe EXCEPT ![k] = rest]
                 /\ Len(rest) <= Len(pipe[k])
                 /\ \A i \in 1..Len(rest) : rest[i] = pipe[k][i]
<1>1. CASE sock[s] # "connected"
  BY <1>1 DEF Breaks
<1>2. CASE sock[s] = "connected"
  <2> DEFINE k == Link(s)
  <2>1. k \in Channel
    BY <1>2, LinkType
  <2>2. PICK i \in 0..Len(pipe[k]) : pipe' = [pipe EXCEPT ![k] = SubSeq(@, 1, i)]
    BY <1>2 DEF Breaks
  <2> DEFINE rest == SubSeq(pipe[k], 1, i)
  <2>3. pipe[k] \in Seq(Message) /\ Len(pipe[k]) \in Nat /\ i \in Nat /\ i <= Len(pipe[k])
    BY <2>1 DEF SenderTypes
  <2>4. rest \in Seq(Message) /\ Len(rest) = i /\ \A j \in 1..i : rest[j] = pipe[k][j]
    <3>1. \A j \in 1..i : pipe[k][j] \in Message
      BY <2>3
    <3> QED
      BY <2>3, <3>1, SubSeqProperties
  <2>5. pipe' = [pipe EXCEPT ![k] = rest]
    BY <2>2
  <2> HIDE DEF rest, k
  <2> QED
    BY <2>1, <2>3, <2>4, <2>5
<1> QED
  BY <1>1, <1>2

\* So it leaves a pipe of messages, and not a longer one.
LEMMA BreaksTypes ==
    ASSUME SenderTypes, SenderCounts, NEW s \in Senders, Breaks(s)
    PROVE  /\ pipe' \in [Channel -> Seq(Message)]
           /\ \A k \in Channel : Len(pipe'[k]) <= PipeMax
<1>1. \A k \in Channel : Len(pipe[k]) \in Nat /\ Len(pipe[k]) <= PipeMax
  BY DEF SenderTypes, SenderCounts
<1>2. CASE pipe' = pipe
  BY <1>1, <1>2 DEF SenderTypes
<1>3. ASSUME NEW k \in Channel, NEW rest \in Seq(Message), pipe' = [pipe EXCEPT ![k] = rest],
             Len(rest) <= Len(pipe[k])
      PROVE  /\ pipe' \in [Channel -> Seq(Message)]
             /\ \A c \in Channel : Len(pipe'[c]) <= PipeMax
  <2>1. Len(rest) <= PipeMax
    <3>1. Len(rest) \in Nat
      BY <1>3
    <3> QED
      BY <1>1, <1>3, <3>1, SenderConstants
  <2>2. pipe' \in [Channel -> Seq(Message)]
    BY <1>3 DEF SenderTypes
  <2>3. \A c \in Channel : pipe'[c] = IF c = k THEN rest ELSE pipe[c]
    BY <1>3 DEF SenderTypes
  <2> QED
    BY <1>1, <2>1, <2>2, <2>3
<1> QED
  BY <1>2, <1>3, BreaksEffect

\* The end of a call leaves its sender in none.
LEMMA NoCallType == NoCall \in [left : 0..Repeats, value : Value \cup {-1}]
  BY SenderConstants DEF NoCall

\* The steps of a sender, and of its connection, keep its types.
LEMMA SenderStepTypes ==
    ASSUME SenderTypes, SenderCounts, NEW s \in Senders,
           SenderStep(s) \/ Connect(s) \/ LosesConnection(s)
    PROVE  SenderTypes'
<1> USE DEF SenderTypes
<1>1. CASE OpenSocketLog(s)
  BY <1>1 DEF OpenSocketLog
<1>2. CASE OpenSocketLogFails(s)
  BY <1>2 DEF OpenSocketLogFails, CallEnds
<1>3. ASSUME NEW v \in Value, SendLogEntrySocket(s, v) PROVE SenderTypes'
  <2>1. [left |-> Repeats, value |-> v] \in [left : 0..Repeats, value : Value \cup {-1}]
    BY SenderConstants
  <2> QED
    BY <1>3, <2>1 DEF SendLogEntrySocket
<1>4. CASE NnSend(s)
  <2>1. call' \in [Senders -> [left : 0..Repeats, value : Value \cup {-1}]]
    <3>1. call[s] \in [left : 0..Repeats, value : Value \cup {-1}] /\ call[s].left > 0
      BY <1>4 DEF NnSend
    <3>2. call[s].left - 1 \in 0..Repeats
      BY <3>1, SenderConstants
    <3>3. call' = [call EXCEPT ![s].left = @ - 1]
      BY <1>4 DEF NnSend
    <3> QED
      BY <3>1, <3>2, <3>3
  <2>2. UNCHANGED <<sock, calls, links>>
    BY <1>4 DEF NnSend
  <2>3. sent' \in [Channel -> Seq(Value)] /\ pipe' \in [Channel -> Seq(Message)]
    <3>1. CASE Sends(s)
      <4> DEFINE k == Link(s)
                 m == NextMessage(s)
                 v == call[s].value
      <4>1. /\ k \in Channel /\ v \in Value /\ m \in Message
            /\ sent' = [sent EXCEPT ![k] = Append(@, v)]
            /\ pipe' = pipe \/ pipe' = [pipe EXCEPT ![k] = Append(@, m)]
        BY <3>1, SendsEffect
      <4> HIDE DEF k, m, v
      <4>2. Append(sent[k], v) \in Seq(Value) /\ Append(pipe[k], m) \in Seq(Message)
        BY <4>1
      <4> QED
        BY <4>1, <4>2
    <3>2. CASE ~Sends(s)
      BY <1>4, <3>2, SendsNothing
    <3> QED
      BY <3>1, <3>2
  <2> QED
    BY <2>1, <2>2, <2>3
<1>5. CASE SendReturns(s)
  BY <1>5, NoCallType DEF SendReturns, CallEnds
<1>6. CASE CloseSocketLog(s)
  <2>1. pipe' \in [Channel -> Seq(Message)]
    BY <1>6, BreaksTypes DEF CloseSocketLog
  <2>2. UNCHANGED <<links, sent>> /\ calls' \in [Senders -> Nat]
    <3>1. CASE UNCHANGED calls
      BY <1>6, <3>1 DEF CloseSocketLog
    <3>2. CASE CallEnds(s)
      BY <1>6, <3>2 DEF CloseSocketLog, CallEnds
    <3> QED
      BY <1>6, <3>1, <3>2 DEF CloseSocketLog
  <2>3. call' \in [Senders -> [left : 0..Repeats, value : Value \cup {-1}]]
    BY <1>6, NoCallType DEF CloseSocketLog
  <2>4. sock' \in [Senders -> {"none", "connecting", "connected"}]
    BY <1>6 DEF CloseSocketLog
  <2> QED
    BY <2>1, <2>2, <2>3, <2>4
<1>7. CASE Connect(s)
  <2>1. links[s] + 1 \in 0..MaxLinks
    BY <1>7, SenderConstants DEF Connect
  <2> QED
    BY <1>7, <2>1 DEF Connect
<1>8. CASE LosesConnection(s)
  <2>1. pipe' \in [Channel -> Seq(Message)]
    BY <1>8, BreaksTypes DEF LosesConnection
  <2> QED
    BY <1>8, <2>1 DEF LosesConnection
<1> QED
  BY <1>1, <1>2, <1>3, <1>4, <1>5, <1>6, <1>7, <1>8 DEF SenderStep

\* The pipes hold what fits.
LEMMA SenderStepPipes ==
    ASSUME SenderTypes, SenderCounts, NEW s \in Senders,
           SenderStep(s) \/ Connect(s) \/ LosesConnection(s)
    PROVE  \A k \in Channel : Len(pipe'[k]) <= PipeMax
<1>1. \A k \in Channel : Len(pipe[k]) \in Nat /\ Len(pipe[k]) <= PipeMax
  BY DEF SenderTypes, SenderCounts
<1>2. CASE pipe' = pipe
  BY <1>1, <1>2
<1>3. CASE Sends(s)
  <2> DEFINE k == Link(s)
             m == NextMessage(s)
  <2>1. /\ k \in Channel /\ m \in Message /\ pipe[k] \in Seq(Message)
        /\ pipe' = pipe \/ (Len(pipe[k]) < PipeMax /\ pipe' = [pipe EXCEPT ![k] = Append(@, m)])
    BY <1>3, SendsEffect DEF SenderTypes
  <2> HIDE DEF k, m
  <2>2. Len(Append(pipe[k], m)) = Len(pipe[k]) + 1
    BY <2>1
  <2>3. CASE Len(pipe[k]) < PipeMax /\ pipe' = [pipe EXCEPT ![k] = Append(@, m)]
    <3>1. Len(Append(pipe[k], m)) <= PipeMax
      BY <1>1, <2>1, <2>2, <2>3, SenderConstants
    <3>2. \A c \in Channel : pipe'[c] = IF c = k THEN Append(pipe[k], m) ELSE pipe[c]
      BY <2>3 DEF SenderTypes
    <3> QED
      BY <1>1, <3>1, <3>2
  <2> QED
    BY <1>2, <2>1, <2>3
<1>4. CASE Breaks(s)
  BY <1>4, BreaksTypes
<1>5. CASE NnSend(s)
  BY <1>2, <1>3, <1>5, SendsNothing
<1>6. CASE OpenSocketLog(s) \/ OpenSocketLogFails(s) \/ (\E v \in Value : SendLogEntrySocket(s, v))
           \/ SendReturns(s) \/ Connect(s)
  BY <1>2, <1>6 DEF OpenSocketLog, OpenSocketLogFails, SendLogEntrySocket, SendReturns, Connect
<1>7. CASE CloseSocketLog(s) \/ LosesConnection(s)
  BY <1>4, <1>7 DEF CloseSocketLog, LosesConnection
<1> QED
  BY <1>5, <1>6, <1>7 DEF SenderStep

\* The steps of a sender, and of its connection, keep its bounds.
LEMMA SenderStepCounts ==
    ASSUME SenderTypes, SenderCounts, NEW s \in Senders,
           SenderStep(s) \/ Connect(s) \/ LosesConnection(s)
    PROVE  SenderCounts'
<1> SUFFICES ASSUME NEW t \in Senders PROVE SenderCount(t)'
  BY SenderStepPipes DEF SenderCounts
<1>1. MostCalls(t) \in Nat /\ call[t].left \in Nat /\ calls[t] \in Nat /\ links[t] \in Nat
  BY MostCallsType, SenderConstants DEF SenderTypes
<1>2. /\ call[t].left > 0 => call[t].value \in Value
      /\ calls[t] <= MostCalls(t) /\ (call[t] # NoCall => calls[t] < MostCalls(t))
      /\ sock[t] = "connected" => links[t] # 0
      /\ sock[t] = "none" => call[t] = NoCall
  BY DEF SenderCounts, SenderCount, HasCalls
<1>3. MostCalls(t)' = MostCalls(t)
  BY DEF MostCalls
<1>4. ASSUME call'[t].left > 0 => call'[t].value \in Value,
             calls'[t] <= MostCalls(t), call'[t] # NoCall => calls'[t] < MostCalls(t),
             sock'[t] = "connected" => links'[t] # 0,
             sock'[t] = "none" => call'[t] = NoCall
      PROVE  SenderCount(t)'
  BY <1>3, <1>4 DEF SenderCount, HasCalls
<1>5. CASE t # s
  <2>1. /\ call'[t] = call[t] /\ calls'[t] = calls[t] /\ links'[t] = links[t]
        /\ sock'[t] = sock[t]
    BY <1>5 DEF SenderStep, OpenSocketLog, OpenSocketLogFails, SendLogEntrySocket, NnSend,
       SendReturns, CloseSocketLog, Connect, LosesConnection, CallEnds, SenderTypes
  <2> QED
    BY <1>2, <1>4, <2>1
<1>6. CASE t = s
  <2>1. CASE OpenSocketLog(s)
    BY <1>2, <1>4, <1>6, <2>1 DEF OpenSocketLog, SenderTypes
  <2>2. CASE OpenSocketLogFails(s)
    <3>1. /\ calls'[t] = calls[t] + 1 /\ calls[t] < MostCalls(t)
          /\ call' = call /\ sock' = sock /\ links' = links /\ sock[t] = "none"
      BY <1>6, <2>2 DEF OpenSocketLogFails, HasCalls, CallEnds, SenderTypes
    <3> QED
      BY <1>1, <1>2, <1>4, <3>1
  <2>3. ASSUME NEW v \in Value, SendLogEntrySocket(s, v) PROVE SenderCount(t)'
    <3>1. /\ call'[t].value = v /\ calls[t] < MostCalls(t) /\ sock[t] # "none"
          /\ calls' = calls /\ sock' = sock /\ links' = links
      BY <1>6, <2>3 DEF SendLogEntrySocket, HasCalls, SenderTypes
    <3> QED
      BY <1>2, <1>4, <3>1
  <2>4. CASE NnSend(s)
    <3>1. /\ call[t].left > 0 /\ call'[t].value = call[t].value
          /\ UNCHANGED <<calls, sock, links>>
      BY <1>6, <2>4 DEF NnSend, SenderTypes
    <3>2. call[t] # NoCall /\ sock[t] # "none"
      BY <1>2, <3>1 DEF NoCall
    <3> QED
      BY <1>2, <1>4, <3>1, <3>2
  <2>5. ASSUME call'[t] = NoCall, calls'[t] = calls[t] \/ (call[t] # NoCall /\ calls'[t] = calls[t] + 1),
               sock'[t] = "connected" => sock[t] = "connected", links' = links
        PROVE  SenderCount(t)'
    <3>1. NoCall.left = 0
      BY DEF NoCall
    <3> QED
      BY <1>1, <1>2, <1>4, <2>5, <3>1
  <2>6. CASE SendReturns(s)
    BY <1>6, <2>5, <2>6 DEF SendReturns, CallEnds, SenderTypes
  <2>7. CASE CloseSocketLog(s)
    BY <1>6, <2>5, <2>7 DEF CloseSocketLog, CallEnds, SenderTypes
  <2>8. CASE Connect(s)
    <3>1. links'[t] = links[t] + 1 /\ call' = call /\ calls' = calls /\ sock'[t] # "none"
      BY <1>6, <2>8 DEF Connect, SenderTypes
    <3> QED
      BY <1>1, <1>2, <1>4, <3>1
  <2>9. CASE LosesConnection(s)
    BY <1>2, <1>4, <1>6, <2>9 DEF LosesConnection, SenderTypes
  <2> QED
    BY <2>1, <2>2, <2>3, <2>4, <2>6, <2>7, <2>8, <2>9 DEF SenderStep
<1> QED
  BY <1>5, <1>6
-----------------------------------------------------------------------------
(* The steps of the store: each is of one user. *)

File(u, values) == [i \in 1..Lines |-> [from |-> u, n |-> i, dev |-> values[i]]]

Loads(u) ==
    u \in Clients /\ \E values \in [1..Lines -> Value] : PutLogEntries(u, File(u, values))

PgStep(u) ==
    \/ OpenDb(u) \/ CloseDb(u) \/ Gone(u) \/ Drop(u)
    \/ \E row \in Row : PutLog(u, row)
    \/ Loads(u)
    \/ ReadLog(u)
    \/ CallStep(u)

\* A file is as many rows as it has lines.
LEMMA FileType ==
    ASSUME NEW u \in Clients, NEW values \in [1..Lines -> Value]
    PROVE  File(u, values) \in Seq(Row) /\ Len(File(u, values)) = Lines
<1>1. Lines \in Nat
  BY DeliveryConstants
<1>2. \A i \in 1..Lines : [from |-> u, n |-> i, dev |-> values[i]] \in Row
  BY <1>1, SenderConstants DEF Row
<1> QED
  BY <1>1, <1>2 DEF File

\* The row that a collector makes of a message is what the sender sent.
LEMMA RowOfMessage ==
    ASSUME SenderTypes, PipesInOrder, NEW k \in Channel, pipe[k] # <<>>
    PROVE  LET m == Head(pipe[k])
               r == [from |-> m.from, n |-> m.n, dev |-> Received(CollectorHost, m.dev)]
           IN  /\ m \in Message /\ m.from = k
               /\ m.n \in 1..Len(sent[k])
               /\ r \in Row /\ r = [from |-> k, n |-> m.n, dev |-> sent[k][m.n]]
               /\ sent[k][m.n] \in Value
<1> DEFINE m == Head(pipe[k])
<1>1. m = pipe[k][1] /\ 1 \in 1..Len(pipe[k]) /\ m \in Message
  BY DEF SenderTypes
<1>2. m.from = k /\ m.n <= Len(sent[k]) /\ m.dev = Sent(HostOf[k[1]], sent[k][m.n])
  BY <1>1 DEF PipesInOrder
<1> HIDE DEF m
<1>3. m.n \in 1..Len(sent[k]) /\ m.n \in Nat
  <2>1. m.n \in Nat /\ m.n > 0
    BY <1>1 DEF Message
  <2>2. Len(sent[k]) \in Nat
    BY DEF SenderTypes
  <2> QED
    BY <1>2, <2>1, <2>2
<1>4. sent[k][m.n] \in Value /\ sent[k][m.n] \in Word
  BY <1>3, SenderConstants DEF SenderTypes
<1>5. Received(CollectorHost, m.dev) = sent[k][m.n]
  <2>1. HostOf[k[1]] \in Host
    BY SenderConstants DEF Channel
  <2> QED
    BY <1>2, <1>4, <2>1, NumbersSurvive, SenderConstants, DeliveryConstants
<1> QED
  BY <1>1, <1>2, <1>3, <1>4, <1>5 DEF m, Row

\* To the store the loop of pgwriter.cpp is a caller as any other.
LEMMA CollectorOfTheStore ==
    ASSUME SenderTypes, PipesInOrder, NEW c \in Putters, CollectorStep(c)
    PROVE  UNCHANGED pgVars \/ PgStep(c)
<1>1. ASSUME NEW k \in Channel, Receive(c, k) PROVE PgStep(c)
  <2> DEFINE m == Head(pipe[k])
  <2>1. /\ pipe[k] # <<>>
        /\ PutLog(c, [from |-> m.from, n |-> m.n, dev |-> Received(CollectorHost, m.dev)])
    BY <1>1 DEF Receive, Take
  <2>2. [from |-> m.from, n |-> m.n, dev |-> Received(CollectorHost, m.dev)] \in Row
    BY <2>1, RowOfMessage
  <2> QED
    BY <2>1, <2>2 DEF PgStep
<1>2. CASE Start(c) \/ Bind(c) \/ Returned(c)
  BY <1>2 DEF Start, Bind, Returned
<1>3. CASE Open(c) \/ PutLogStep(c) \/ Interrupted(c) \/ Exit(c)
  BY <1>3 DEF Open, PutLogStep, Interrupted, Exit, PgStep
<1> QED
  BY <1>1, <1>2, <1>3 DEF CollectorStep

\* All that any step does to the store is one of its own steps.
LEMMA StepsOfTheStore ==
    ASSUME SenderTypes, PipesInOrder, [Next]_vars
    PROVE  UNCHANGED pgVars \/ \E u \in Users : PgStep(u)
<1>1. CASE UNCHANGED vars
  BY <1>1 DEF vars
<1>2. ASSUME NEW s \in Senders, SenderStep(s) /\ UNCHANGED <<pgVars, stage>>
      PROVE  UNCHANGED pgVars
  BY <1>2
<1>3. ASSUME NEW s \in Senders, (Bound /\ Connect(s)) \/ LosesConnection(s), UNCHANGED <<pgVars, stage>>
      PROVE  UNCHANGED pgVars
  BY <1>3
<1>4. ASSUME NEW c \in Putters, CollectorStep(c)
      PROVE  UNCHANGED pgVars \/ PgStep(c)
  BY <1>4, CollectorOfTheStore
<1>5. ASSUME NEW u \in Clients, ClientStep(u)
      PROVE  PgStep(u)
  BY <1>5 DEF ClientStep, PgStep, Loads, File
<1>6. ASSUME NEW u \in Users, Drop(u) /\ UNCHANGED <<senderVars, stage>>
      PROVE  PgStep(u)
  BY <1>6 DEF PgStep
<1> QED
  BY <1>1, <1>2, <1>3, <1>4, <1>5, <1>6 DEF Next, Users

\* Types of one user's connection and call.
LEMMA StatementTypes ==
    /\ BEGIN \in Statement /\ SELECT \in Statement /\ END \in Statement
    /\ \A r \in Row : INSERT(r) \in Statement
  BY DEF BEGIN, SELECT, END, INSERT, Statement

\* The session without a transaction.
LEMMA NoTxnType == NoTxn \in [txn : {"none", "open", "failed"}, rows : Seq(Row)]
  BY DEF NoTxn

\* What a statement that goes wrong, or the end of a process, leaves.
LEMMA HangUpTypes ==
    ASSUME LinkTypes, CallTypes, NEW u \in Users, NEW c \in {"none", "open", "finished"},
           HangUp(u, c)
    PROVE  /\ conn' \in [Users -> {"none", "open", "finished"}]
           /\ link' \in [Users -> BOOLEAN]
           /\ session' \in [Users -> [txn : {"none", "open", "failed"}, rows : Seq(Row)]]
  BY NoTxnType DEF LinkTypes, CallTypes, HangUp

\* The end of a call.
LEMMA ReturnsTypes ==
    ASSUME CallTypes, NEW u \in Users, Returns(u)
    PROVE  todo' \in [Users -> Seq(Statement)] /\ given' \in [Users -> Seq(Row)]
  BY DEF CallTypes, Returns

\* CHECK_STMT gives up the connection and the call.
LEMMA CheckStmtTypes ==
    ASSUME LinkTypes, CallTypes, StoreTypes, NEW u \in Users,
           NEW kind \in {"failed", "unanswered"}, CheckStmt(u, kind)
    PROVE  LinkTypes' /\ CallTypes' /\ outcome' \subseteq Outcome
<1> USE DEF CheckStmt, ReturnsError
<1>1. [by |-> u, rows |-> given[u], end |-> kind] \in Outcome
  BY DEF CallTypes, Outcome
<1>2. outcome' \subseteq Outcome
  BY <1>1 DEF StoreTypes, Ends
<1>3. LinkTypes' /\ CallTypes'
  BY HangUpTypes, ReturnsTypes DEF LinkTypes, CallTypes
<1> QED
  BY <1>2, <1>3

\* A commit appends the rows of the session.
LEMMA CommitTypes ==
    ASSUME CallTypes, StoreTypes, NEW u \in Users, Commit(u)
    PROVE  loc' = loc \o session[u].rows /\ loc' \in Seq(Row)
  BY DEF CallTypes, StoreTypes, Commit

\* A statement with its answer keeps the types of the store.
LEMMA CallStepTypes ==
    ASSUME LinkTypes, CallTypes, StoreTypes, Calls, NEW u \in Users, CallStep(u)
    PROVE  LinkTypes' /\ CallTypes' /\ StoreTypes'
<1>1. ASSUME ~Idle(u) PROVE Tail(todo[u]) \in Seq(Statement) /\ Head(todo[u]) \in Statement
  BY <1>1 DEF Idle, CallTypes
<1>2. CASE Begin(u)
  <2>1. UNCHANGED <<loc, conn, link, ret, given, outcome>>
    BY <1>2 DEF Begin
  <2>2. todo' \in [Users -> Seq(Statement)]
    BY <1>1, <1>2 DEF Begin, Done, Executes, CallTypes
  <2>3. session' \in [Users -> [txn : {"none", "open", "failed"}, rows : Seq(Row)]]
    BY <1>2 DEF Begin, CallTypes
  <2> QED
    BY <2>1, <2>2, <2>3 DEF LinkTypes, CallTypes, StoreTypes
<1>3. CASE Insert(u)
  <2>1. UNCHANGED <<loc, conn, link, ret, given, outcome>>
    BY <1>3 DEF Insert
  <2>2. todo' \in [Users -> Seq(Statement)]
    BY <1>1, <1>3 DEF Insert, Done, Executes, CallTypes
  <2>3. Head(todo[u]).row \in Row
    BY <1>1, <1>3 DEF Insert, Executes, Statement
  <2>4. Append(session[u].rows, Head(todo[u]).row) \in Seq(Row)
    BY <2>3 DEF CallTypes
  <2>5. session' = [session EXCEPT ![u].rows = Append(@, Head(todo[u]).row)]
    BY <1>3 DEF Insert
  <2>6. session' \in [Users -> [txn : {"none", "open", "failed"}, rows : Seq(Row)]]
    BY <2>4, <2>5 DEF CallTypes
  <2> QED
    BY <2>1, <2>2, <2>6 DEF LinkTypes, CallTypes, StoreTypes
<1>4. CASE Select(u)
  BY <1>4, CheckStmtTypes DEF Select, SelectStatus, StoreTypes
<1>5. CASE End(u)
  <2>1. loc' \in Seq(Row)
    BY <1>5, CommitTypes DEF End
  <2>2. LinkTypes'
    BY <1>5 DEF End, LinkTypes
  <2>3. CallTypes'
    BY <1>5, ReturnsTypes, NoTxnType DEF End, CallTypes
  <2>4. [by |-> u, rows |-> given[u], end |-> "ok"] \in Outcome
    BY DEF CallTypes, Outcome
  <2>5. outcome' \subseteq Outcome
    BY <1>5, <2>4 DEF End, Ends, StoreTypes
  <2> QED
    BY <2>1, <2>2, <2>3, <2>5 DEF StoreTypes
<1>6. CASE Fails(u) \/ UsesFinished(u)
  BY <1>6, CheckStmtTypes DEF Fails, UsesFinished, StoreTypes
<1>7. CASE EndUnanswered(u)
  BY <1>7, CheckStmtTypes, CommitTypes DEF EndUnanswered, StoreTypes
<1> QED
  BY <1>2, <1>3, <1>4, <1>5, <1>6, <1>7 DEF CallStep

\* A call begins with its statements.
LEMMA CallTypeOf ==
    ASSUME LinkTypes, CallTypes, StoreTypes, NEW u \in Users,
           NEW statements \in Seq(Statement), NEW rows \in Seq(Row), Call(u, statements, rows)
    PROVE  LinkTypes' /\ CallTypes' /\ StoreTypes'
  BY DEF Call, LinkTypes, CallTypes, StoreTypes

\* The statements of putLogEntries: BEGIN, the inserts, END.
LEMMA FileStatements ==
    ASSUME NEW rows \in Seq(Row)
    PROVE  LET all == <<BEGIN>> \o [i \in DOMAIN rows |-> INSERT(rows[i])] \o <<END>>
           IN  /\ all \in Seq(Statement)
               /\ Len(all) = Len(rows) + 2
               /\ all[1] = BEGIN /\ all[Len(rows) + 2] = END
               /\ \A i \in 1..Len(rows) : all[i + 1] = INSERT(rows[i])
<1> DEFINE ins == [i \in DOMAIN rows |-> INSERT(rows[i])]
           begun == <<BEGIN>> \o ins
<1>1. Len(rows) \in Nat /\ DOMAIN rows = 1..Len(rows) /\ \A i \in 1..Len(rows) : rows[i] \in Row
  OBVIOUS
<1>2. ins \in Seq(Statement) /\ Len(ins) = Len(rows)
  BY <1>1, StatementTypes
<1>3. \A i \in 1..Len(rows) : ins[i] = INSERT(rows[i])
  BY <1>1
<1>4. <<BEGIN>> \in Seq(Statement) /\ <<END>> \in Seq(Statement)
  BY StatementTypes
<1> HIDE DEF ins
<1>5. /\ begun \in Seq(Statement) /\ Len(begun) = Len(rows) + 1 /\ begun[1] = BEGIN
      /\ \A i \in 1..Len(rows) : begun[i + 1] = ins[i]
  BY <1>1, <1>2, <1>4
<1> HIDE DEF begun
<1>6. /\ begun \o <<END>> \in Seq(Statement) /\ Len(begun \o <<END>>) = Len(rows) + 2
      /\ (begun \o <<END>>)[Len(rows) + 2] = END
      /\ \A i \in 1..(Len(rows) + 1) : (begun \o <<END>>)[i] = begun[i]
  BY <1>1, <1>4, <1>5
<1>7. \A i \in 1..Len(rows) : (begun \o <<END>>)[i + 1] = INSERT(rows[i])
  BY <1>1, <1>3, <1>5, <1>6
<1> QED
  BY <1>1, <1>5, <1>6, <1>7 DEF ins, begun

\* The steps of the store keep its types.
LEMMA PgStepTypes ==
    ASSUME LinkTypes, CallTypes, StoreTypes, Calls, NEW u \in Users, PgStep(u)
    PROVE  LinkTypes' /\ CallTypes' /\ StoreTypes'
<1>1. CASE OpenDb(u)
  BY <1>1 DEF OpenDb, LinkTypes, CallTypes, StoreTypes
<1>2. CASE CloseDb(u)
  BY <1>2, HangUpTypes DEF CloseDb, LinkTypes, CallTypes, StoreTypes
<1>3. CASE Gone(u)
  BY <1>3, HangUpTypes, ReturnsTypes DEF Gone, LinkTypes, CallTypes, StoreTypes
<1>4. CASE Drop(u)
  BY <1>4, NoTxnType DEF Drop, LinkTypes, CallTypes, StoreTypes
<1>5. ASSUME NEW row \in Row, PutLog(u, row) PROVE LinkTypes' /\ CallTypes' /\ StoreTypes'
  <2>1. <<BEGIN, INSERT(row), END>> \in Seq(Statement) /\ <<row>> \in Seq(Row)
    BY StatementTypes
  <2> QED
    BY <1>5, <2>1, CallTypeOf DEF PutLog
<1>6. CASE Loads(u)
  <2>1. PICK values \in [1..Lines -> Value] : PutLogEntries(u, File(u, values))
    BY <1>6 DEF Loads
  <2> DEFINE rows == File(u, values)
  <2>2. rows \in Seq(Row)
    BY <1>6, FileType DEF Loads
  <2> HIDE DEF rows
  <2>3. <<BEGIN>> \o [i \in DOMAIN rows |-> INSERT(rows[i])] \o <<END>> \in Seq(Statement)
    BY <2>2, FileStatements
  <2> QED
    BY <2>1, <2>2, <2>3, CallTypeOf DEF PutLogEntries, rows
<1>7. CASE ReadLog(u)
  <2>1. <<BEGIN, SELECT, END>> \in Seq(Statement) /\ <<>> \in Seq(Row)
    BY StatementTypes
  <2> QED
    BY <1>7, <2>1, CallTypeOf DEF ReadLog
<1>8. CASE CallStep(u)
  BY <1>8, CallStepTypes
<1> QED
  BY <1>1, <1>2, <1>3, <1>4, <1>5, <1>6, <1>7, <1>8 DEF PgStep
-----------------------------------------------------------------------------
(* The shape of a call. *)

\* A call that stores and that is at END has inserted all of its rows.
LEMMA AtEnd ==
    ASSUME CallTypes, NEW u \in Users, CallInv(u), Commit(u)
    PROVE  session[u].rows = given[u] /\ given[u] # <<>>
<1>1. ~Idle(u) /\ Head(todo[u]).is = "end" /\ session[u].txn = "open"
  BY DEF Commit, Executes
<1>2. todo[u] \in Seq(Statement) /\ todo[u] # <<>> /\ given[u] \in Seq(Row)
  BY <1>1 DEF Idle, CallTypes
<1>3. /\ Len(todo[u]) \in Nat /\ Len(todo[u]) > 0 /\ Len(given[u]) \in Nat
      /\ Head(todo[u]) = todo[u][1]
  BY <1>2
<1>4. BEGIN.is # "end" /\ SELECT.is # "end" /\ \A r : INSERT(r).is # "end"
  BY DEF BEGIN, SELECT, INSERT
<1>5. ~Reading(u)
  BY <1>1, <1>4 DEF Reading
<1>6. Storing(u)
  BY <1>1, <1>5 DEF CallInv
<1>7. Len(todo[u]) = 1
  <2> SUFFICES ASSUME Len(todo[u]) # 1 PROVE FALSE
    OBVIOUS
  <2> DEFINE left == Len(todo[u])
  <2>0. left \in Nat /\ left > 0 /\ left # 1
    BY <1>3
  <2> HIDE DEF left
  <2>1. 1 \in 1..(left - 1)
    BY <2>0
  <2>2. todo[u][1] = BEGIN \/ \E r : todo[u][1] = INSERT(r)
    BY <1>6, <2>1 DEF Storing, left
  <2> QED
    BY <1>1, <1>3, <1>4, <2>2
<1>8. session[u].rows = SubSeq(given[u], 1, Len(given[u]) + 1 - Len(todo[u]))
  BY <1>1, <1>6 DEF Storing
<1>9. session[u].rows = SubSeq(given[u], 1, Len(given[u]))
  BY <1>3, <1>7, <1>8
<1> QED
  BY <1>2, <1>6, <1>9, SubSeqFull DEF Storing

\* The statement that follows in a call that stores: the rows grow by the one inserted.
LEMMA NextStatement ==
    ASSUME CallTypes, NEW u \in Users, CallInv(u), Begin(u) \/ Insert(u)
    PROVE  CallInv(u)'
<1> DEFINE left == Len(todo[u])
           rows == Len(given[u])
<1>1. todo[u] \in Seq(Statement) /\ todo[u] # <<>> /\ given[u] \in Seq(Row)
  BY DEF Begin, Insert, Executes, Idle, CallTypes
<1>2. left \in Nat /\ left > 0 /\ rows \in Nat /\ Head(todo[u]) = todo[u][1]
  BY <1>1
<1> HIDE DEF left, rows
<1>3. /\ todo'[u] = Tail(todo[u]) /\ given' = given /\ UNCHANGED <<conn, link, ret>>
      /\ conn[u] = "open" /\ link[u]
  BY DEF Begin, Insert, Done, Executes, Live, CallTypes
<1>4. Len(todo'[u]) = left - 1 /\ \A i \in 1..(left - 1) : todo'[u][i] = todo[u][i + 1]
  BY <1>1, <1>2, <1>3 DEF left
<1>5. BEGIN.is = "begin" /\ SELECT.is = "select" /\ END.is = "end"
      /\ \A r : INSERT(r).is = "insert" /\ INSERT(r).row = r
  BY DEF BEGIN, SELECT, END, INSERT
<1>6. Head(todo[u]).is = IF Begin(u) THEN "begin" ELSE "insert"
  BY DEF Begin, Insert, Executes
<1>7. ret[u] = "error" => conn[u] = "finished"
  BY DEF CallInv
<1>8. CASE Reading(u)
  <2>1. Begin(u)
    BY <1>5, <1>6, <1>8 DEF Reading
  <2>2. todo[u] = <<BEGIN, SELECT, END>>
    BY <1>5, <1>6, <1>8, <2>1 DEF Reading
  <2>3. todo'[u] = <<SELECT, END>>
    BY <1>3, <2>2
  <2>4. Reading(u)' /\ ~Idle(u)'
    <3>1. <<SELECT, END>> # <<>>
      OBVIOUS
    <3> QED
      BY <1>3, <1>8, <2>3, <3>1 DEF Reading, Idle
  <2> QED
    BY <1>3, <1>7, <2>4 DEF CallInv
<1>9. CASE Storing(u)
  <2>1. /\ given[u] # <<>> /\ rows > 0
        /\ left <= rows + 2
        /\ todo[u][left] = END
        /\ left = rows + 2 => session[u] = NoTxn
    BY <1>1, <1>2, <1>9 DEF Storing, left, rows
  <2>2. \A i \in 1..(left - 1) :
           todo[u][i] = IF i = 1 /\ left = rows + 2 THEN BEGIN ELSE INSERT(given[u][rows + 1 - left + i])
    BY <1>9 DEF Storing, left, rows
  <2>3. left > 1
    <3> SUFFICES ASSUME left = 1 PROVE FALSE
      BY <1>2
    <3>1. todo[u][1] = END
      BY <2>1
    <3> QED
      BY <1>2, <1>5, <1>6, <3>1
  <2>4. todo'[u][left - 1] = END /\ todo'[u] # <<>>
    BY <1>2, <1>4, <2>1, <2>3
  <2>5. \A i \in 1..(left - 2) : todo'[u][i] = INSERT(given[u][rows + 1 - (left - 1) + i])
    <3> SUFFICES ASSUME NEW i \in 1..(left - 2)
                 PROVE  todo'[u][i] = INSERT(given[u][rows + 1 - (left - 1) + i])
      OBVIOUS
    <3>1. todo'[u][i] = todo[u][i + 1] /\ i + 1 \in 1..(left - 1) /\ i + 1 # 1
      BY <1>2, <1>4
    <3>2. todo[u][i + 1] = INSERT(given[u][rows + 1 - left + (i + 1)])
      BY <2>2, <3>1
    <3>3. rows + 1 - left + (i + 1) = rows + 1 - (left - 1) + i
      BY <1>2
    <3> QED
      BY <3>1, <3>2, <3>3
  <2>6. session'[u].txn = "open" => session'[u].rows = SubSeq(given[u], 1, rows + 1 - (left - 1))
    <3>1. CASE Begin(u)
      <4>1. left = rows + 2
        <5> SUFFICES ASSUME left # rows + 2 PROVE FALSE
          OBVIOUS
        <5>1. todo[u][1] = INSERT(given[u][rows + 1 - left + 1])
          BY <1>2, <2>2, <2>3
        <5> QED
          BY <1>2, <1>5, <1>6, <3>1, <5>1
      <4>2. session'[u].rows = <<>>
        BY <2>1, <3>1, <4>1 DEF Begin, NoTxn, CallTypes
      <4>3. SubSeq(given[u], 1, rows + 1 - (left - 1)) = <<>>
        BY <1>2, <4>1, SubSeqEmpty
      <4> QED
        BY <4>2, <4>3
    <3>2. CASE ~Begin(u)
      <4>1. left # rows + 2 /\ Insert(u) /\ session[u].txn = "open"
        BY <1>2, <1>5, <1>6, <2>2, <2>3, <3>2 DEF Insert
      <4>2. todo[u][1] = INSERT(given[u][rows + 2 - left])
        <5>1. 1 \in 1..(left - 1) /\ rows + 1 - left + 1 = rows + 2 - left
          BY <1>2, <2>3
        <5> QED
          BY <2>2, <4>1, <5>1
      <4>3. session[u].rows = SubSeq(given[u], 1, rows + 1 - left)
        BY <1>9, <4>1 DEF Storing, left, rows
      <4>4. session'[u].rows = Append(session[u].rows, given[u][rows + 2 - left])
        BY <1>2, <1>5, <4>1, <4>2 DEF Insert, CallTypes
      <4>5. rows + 2 - left \in 1..rows
        BY <1>2, <2>1, <2>3, <4>1
      <4>6. SubSeq(given[u], 1, rows + 2 - left)
              = SubSeq(given[u], 1, (rows + 2 - left) - 1) \o <<given[u][rows + 2 - left]>>
        <5>1. 1 \in 1..rows /\ rows + 2 - left \in 1..rows
          BY <1>2, <4>5
        <5> QED
          BY <1>1, <5>1, SubSeqRecursiveSecond DEF rows
      <4>7. (rows + 2 - left) - 1 = rows + 1 - left /\ rows + 1 - (left - 1) = rows + 2 - left
        BY <1>2
      <4>8. given[u][rows + 2 - left] \in Row /\ session[u].rows \in Seq(Row)
        BY <1>1, <4>5 DEF CallTypes, rows
      <4>9. Append(session[u].rows, given[u][rows + 2 - left])
               = session[u].rows \o <<given[u][rows + 2 - left]>>
        BY <4>8, AppendIsConcat
      <4> QED
        BY <4>3, <4>4, <4>6, <4>7, <4>9
    <3> QED
      BY <3>1, <3>2
  <2>7. Storing(u)'
    <3>1. Len(todo'[u]) <= rows + 2 /\ Len(todo'[u]) # rows + 2
      BY <1>2, <1>4, <2>1
    <3>2. Len(todo'[u]) - 1 = left - 2
      BY <1>2, <1>4
    <3> QED
      BY <1>3, <1>4, <2>1, <2>4, <2>5, <2>6, <3>1, <3>2 DEF Storing, rows
  <2> QED
    BY <1>3, <1>7, <2>4, <2>7 DEF CallInv, Idle
<1> QED
  BY <1>1, <1>8, <1>9 DEF CallInv, Idle

\* After an error, or the end of a process, there is no call.
LEMMA CallOver ==
    ASSUME CallTypes, LinkTypes, NEW u \in Users, NEW c \in {"none", "finished"},
           HangUp(u, c), Returns(u), ret'[u] = "error" => c = "finished"
    PROVE  CallInv(u)'
  BY DEF HangUp, Returns, CallInv, Idle, CallTypes, LinkTypes

\* A new call that stores: nothing of it is executed.
LEMMA CallBegins ==
    ASSUME CallTypes, LinkTypes, NEW u \in Users, CallInv(u), Idle(u),
           NEW statements \in Seq(Statement), NEW rows \in Seq(Row), rows # <<>>,
           Len(statements) = Len(rows) + 2,
           statements[1] = BEGIN, statements[Len(rows) + 2] = END,
           \A i \in 1..Len(rows) : statements[i + 1] = INSERT(rows[i]),
           todo' = [todo EXCEPT ![u] = statements], given' = [given EXCEPT ![u] = rows],
           UNCHANGED <<conn, link, session, ret>>
    PROVE  CallInv(u)'
<1> DEFINE n == Len(rows)
<1>1. n \in Nat /\ n > 0
  OBVIOUS
<1>2. session'[u] = NoTxn /\ todo'[u] = statements /\ given'[u] = rows
  BY DEF CallInv, CallTypes
<1>3. (ret[u] = "error" => conn[u] = "finished")'
  BY DEF CallInv
<1> HIDE DEF n
<1>4. Len(statements) = n + 2 /\ statements[n + 2] = END
  BY DEF n
<1>5. \A i \in 1..((n + 2) - 1) :
         statements[i] = IF i = 1 THEN BEGIN ELSE INSERT(rows[n + 1 - (n + 2) + i])
  <2> SUFFICES ASSUME NEW i \in 1..((n + 2) - 1), i # 1
               PROVE  statements[i] = INSERT(rows[n + 1 - (n + 2) + i])
    OBVIOUS
  <2>1. i - 1 \in 1..n /\ (i - 1) + 1 = i /\ n + 1 - (n + 2) + i = i - 1
    BY <1>1
  <2> QED
    BY <2>1 DEF n
<1>6. NoTxn.txn # "open"
  BY DEF NoTxn
<1>7. Storing(u)'
  <2>1. Len(todo'[u]) = n + 2 /\ Len(given'[u]) = n /\ given'[u] # <<>>
    BY <1>2, <1>4 DEF n
  <2>2. /\ Len(todo'[u]) <= Len(given'[u]) + 2
        /\ todo'[u][Len(todo'[u])] = END
    BY <1>1, <1>2, <1>4, <2>1
  <2>3. \A i \in 1..(Len(todo'[u]) - 1) :
           todo'[u][i] = IF i = 1 /\ Len(todo'[u]) = Len(given'[u]) + 2 THEN BEGIN
                         ELSE INSERT(given'[u][Len(given'[u]) + 1 - Len(todo'[u]) + i])
    <3> DEFINE P(l, k) == \A i \in 1..(l - 1) :
                 todo'[u][i] = IF i = 1 /\ l = k + 2 THEN BEGIN ELSE INSERT(given'[u][k + 1 - l + i])
    <3>1. P(n + 2, n)
      BY <1>2, <1>5
    <3> HIDE DEF P
    <3>2. P(Len(todo'[u]), Len(given'[u]))
      BY <2>1, <3>1
    <3> QED
      BY <3>2 DEF P
  <2>4. session'[u] = NoTxn /\ session'[u].txn # "open"
    BY <1>2, <1>6
  <2> QED
    BY <2>1, <2>2, <2>3, <2>4 DEF Storing
<1>8. todo'[u] # <<>>
  BY <1>1, <1>2, <1>4
<1> QED
  BY <1>2, <1>3, <1>7, <1>8 DEF CallInv, Idle

\* A statement with its answer leaves the caller with the statements and rows that remain.
LEMMA CallStepCall ==
    ASSUME CallTypes, LinkTypes, NEW u \in Users, CallInv(u), CallStep(u)
    PROVE  CallInv(u)'
<1>1. CASE Begin(u) \/ Insert(u)
  BY <1>1, NextStatement
<1>2. CASE Select(u) \/ Fails(u) \/ UsesFinished(u) \/ EndUnanswered(u)
  <2>1. PICK kind : CheckStmt(u, kind)
    BY <1>2 DEF Select, SelectStatus, Fails, UsesFinished, EndUnanswered
  <2> QED
    BY <2>1, CallOver DEF CheckStmt, ReturnsError
<1>3. CASE End(u)
  BY <1>3 DEF End, Returns, CallInv, Idle, CallTypes, LinkTypes
<1> QED
  BY <1>1, <1>2, <1>3 DEF CallStep

\* The same of every step of the caller in the store.
LEMMA PgStepCall ==
    ASSUME CallTypes, LinkTypes, NEW u \in Users, CallInv(u), PgStep(u)
    PROVE  CallInv(u)'
<1>1. CASE OpenDb(u)
  <2>1. session'[u] = NoTxn /\ todo' = todo /\ given' = given /\ ret' = ret /\ conn[u] = "none"
    BY <1>1 DEF OpenDb, CallInv
  <2>2. Idle(u) /\ ret[u] # "error"
    BY <1>1, <2>1 DEF OpenDb, CallInv
  <2> QED
    BY <2>1, <2>2 DEF CallInv, Idle
<1>2. CASE CloseDb(u)
  BY <1>2 DEF CloseDb, HangUp, CallInv, Idle, CallTypes, LinkTypes
<1>3. CASE Gone(u)
  BY <1>3, CallOver DEF Gone, LinkTypes
<1>4. CASE Drop(u)
  <2>1. /\ session'[u] = NoTxn /\ UNCHANGED <<todo, given, ret, conn>>
        /\ ~Idle(u) /\ NoTxn.txn # "open"
    BY <1>4 DEF Drop, CallTypes, NoTxn
  <2> QED
    BY <2>1 DEF CallInv, Idle, Reading, Storing
<1>5. ASSUME NEW row \in Row, PutLog(u, row) PROVE CallInv(u)'
  <2> DEFINE statements == <<BEGIN, INSERT(row), END>>
             rows == <<row>>
  <2>1. statements \in Seq(Statement) /\ rows \in Seq(Row)
    BY StatementTypes
  <2>2. /\ Len(statements) = Len(rows) + 2 /\ rows # <<>>
        /\ statements[1] = BEGIN /\ statements[Len(rows) + 2] = END
        /\ \A i \in 1..Len(rows) : statements[i + 1] = INSERT(rows[i])
    OBVIOUS
  <2>3. /\ todo' = [todo EXCEPT ![u] = statements] /\ given' = [given EXCEPT ![u] = rows]
        /\ UNCHANGED <<conn, link, session, ret>> /\ Idle(u)
    BY <1>5 DEF PutLog, Call
  <2> HIDE DEF statements, rows
  <2> QED
    BY <2>1, <2>2, <2>3, CallBegins
<1>6. CASE Loads(u)
  <2>1. PICK values \in [1..Lines -> Value] : PutLogEntries(u, File(u, values))
    BY <1>6 DEF Loads
  <2> DEFINE rows == File(u, values)
             statements == <<BEGIN>> \o [i \in DOMAIN rows |-> INSERT(rows[i])] \o <<END>>
  <2>2. rows \in Seq(Row) /\ Len(rows) = Lines
    BY <1>6, FileType DEF Loads
  <2>3. /\ todo' = [todo EXCEPT ![u] = statements] /\ given' = [given EXCEPT ![u] = rows]
        /\ UNCHANGED <<conn, link, session, ret>> /\ Idle(u)
    BY <2>1 DEF PutLogEntries, Call
  <2> HIDE DEF rows
  <2>4. rows # <<>>
    BY <2>2, DeliveryConstants
  <2>5. /\ statements \in Seq(Statement) /\ Len(statements) = Len(rows) + 2
        /\ statements[1] = BEGIN /\ statements[Len(rows) + 2] = END
        /\ \A i \in 1..Len(rows) : statements[i + 1] = INSERT(rows[i])
    BY <2>2, FileStatements
  <2> HIDE DEF statements
  <2> QED
    BY <2>2, <2>3, <2>4, <2>5, CallBegins
<1>7. CASE ReadLog(u)
  <2>1. /\ todo'[u] = <<BEGIN, SELECT, END>> /\ given'[u] = <<>> /\ session'[u] = NoTxn
        /\ ret' = ret /\ conn' = conn
    BY <1>7 DEF ReadLog, Call, CallInv, CallTypes
  <2>2. <<BEGIN, SELECT, END>> # <<>>
    OBVIOUS
  <2> QED
    BY <2>1, <2>2 DEF CallInv, Idle, Reading
<1>8. CASE CallStep(u)
  BY <1>8, CallStepCall
<1> QED
  BY <1>1, <1>2, <1>3, <1>4, <1>5, <1>6, <1>7, <1>8 DEF PgStep

\* A step of one user leaves the others alone.
LEMMA OthersUnchanged ==
    ASSUME LinkTypes, CallTypes, NEW u \in Users, PgStep(u), NEW v \in Users, v # u
    PROVE  /\ conn'[v] = conn[v] /\ link'[v] = link[v] /\ session'[v] = session[v]
           /\ todo'[v] = todo[v] /\ ret'[v] = ret[v] /\ given'[v] = given[v]
<1> USE DEF LinkTypes, CallTypes
<1>1. CASE OpenDb(u) \/ CloseDb(u) \/ Gone(u) \/ Drop(u)
  BY <1>1 DEF OpenDb, CloseDb, Gone, Drop, HangUp, Returns
<1>2. ASSUME NEW statements, NEW rows, Call(u, statements, rows)
      PROVE  /\ conn'[v] = conn[v] /\ link'[v] = link[v] /\ session'[v] = session[v]
             /\ todo'[v] = todo[v] /\ ret'[v] = ret[v] /\ given'[v] = given[v]
  BY <1>2 DEF Call
<1>3. CASE (\E row \in Row : PutLog(u, row)) \/ Loads(u) \/ ReadLog(u)
  BY <1>2, <1>3 DEF PutLog, Loads, PutLogEntries, ReadLog
<1>4. CASE Begin(u) \/ Insert(u) \/ End(u)
  BY <1>4 DEF Begin, Insert, End, Done, Returns
<1>5. CASE Select(u) \/ Fails(u) \/ UsesFinished(u) \/ EndUnanswered(u)
  BY <1>5 DEF Select, SelectStatus, Fails, UsesFinished, EndUnanswered, CheckStmt,
     ReturnsError, HangUp, Returns
<1> QED
  BY <1>1, <1>3, <1>4, <1>5 DEF PgStep, CallStep

\* A step of one caller keeps what holds of all of them.
LEMMA CallsStep ==
    ASSUME LinkTypes, CallTypes, Calls, NEW u \in Users, PgStep(u)
    PROVE  Calls'
<1> SUFFICES ASSUME NEW v \in Users PROVE CallInv(v)'
  BY DEF Calls
<1>1. CASE v = u
  BY <1>1, PgStepCall DEF Calls
<1>2. CASE v # u
  <2>1. CallInv(v)
    BY DEF Calls
  <2> QED
    BY <1>2, <2>1, OthersUnchanged DEF CallInv, Idle, Reading, Storing
<1> QED
  BY <1>1, <1>2
-----------------------------------------------------------------------------
(* The pipes. *)

\* What is in the pipes was there before, in the same order; nothing is sent.
PipesRemain ==
    /\ sent' = sent
    /\ pipe' \in [Channel -> Seq(Message)]
    /\ \A k \in Channel : \E d \in Nat :
          /\ Len(pipe'[k]) + d <= Len(pipe[k])
          /\ \A i \in 1..Len(pipe'[k]) : pipe'[k][i] = pipe[k][i + d]

\* Pipes that are left alone.
LEMMA SamePipes ==
    ASSUME SenderTypes, pipe' = pipe, sent' = sent
    PROVE  PipesRemain
<1> SUFFICES ASSUME NEW s \in Channel
             PROVE  \E d \in Nat : /\ Len(pipe[s]) + d <= Len(pipe[s])
                                   /\ \A i \in 1..Len(pipe[s]) : pipe[s][i] = pipe[s][i + d]
  BY DEF PipesRemain, SenderTypes
<1>1. Len(pipe[s]) \in Nat /\ 0 \in Nat
  BY DEF SenderTypes
<1>2. Len(pipe[s]) + 0 <= Len(pipe[s]) /\ \A i \in 1..Len(pipe[s]) : pipe[s][i] = pipe[s][i + 0]
  BY <1>1
<1> QED
  BY <1>1, <1>2

\* One pipe shrinks by what Take takes from its front, or by what closing cuts off.
LEMMA OnePipeShrinks ==
    ASSUME SenderTypes, sent' = sent, NEW s \in Channel, NEW rest \in Seq(Message),
           pipe' = [pipe EXCEPT ![s] = rest], NEW d \in Nat,
           Len(rest) + d <= Len(pipe[s]),
           \A i \in 1..Len(rest) : rest[i] = pipe[s][i + d]
    PROVE  PipesRemain
<1> SUFFICES ASSUME NEW t \in Channel
             PROVE  \E e \in Nat : /\ Len(pipe'[t]) + e <= Len(pipe[t])
                                   /\ \A i \in 1..Len(pipe'[t]) : pipe'[t][i] = pipe[t][i + e]
  BY DEF PipesRemain, SenderTypes
<1>1. CASE t = s
  <2>1. pipe'[t] = rest
    BY <1>1 DEF SenderTypes
  <2> QED
    BY <1>1, <2>1
<1>2. CASE t # s
  <2>1. pipe'[t] = pipe[t] /\ Len(pipe[t]) \in Nat /\ 0 \in Nat
    BY <1>2 DEF SenderTypes
  <2>2. Len(pipe'[t]) + 0 <= Len(pipe[t]) /\ \A i \in 1..Len(pipe'[t]) : pipe'[t][i] = pipe[t][i + 0]
    BY <2>1
  <2> QED
    BY <2>1, <2>2
<1> QED
  BY <1>1, <1>2

\* A connection that ends loses the end of what was in its pipe.
LEMMA BreaksShrinks ==
    ASSUME SenderTypes, SenderCounts, NEW s \in Senders, Breaks(s), sent' = sent
    PROVE  PipesRemain
<1>1. ASSUME NEW k \in Channel, NEW rest \in Seq(Message), pipe' = [pipe EXCEPT ![k] = rest],
             Len(rest) <= Len(pipe[k]), \A i \in 1..Len(rest) : rest[i] = pipe[k][i]
      PROVE  PipesRemain
  <2>1. Len(rest) \in Nat /\ Len(pipe[k]) \in Nat /\ 0 \in Nat
    BY <1>1 DEF SenderTypes
  <2>2. Len(rest) + 0 <= Len(pipe[k]) /\ \A i \in 1..Len(rest) : rest[i] = pipe[k][i + 0]
    BY <1>1, <2>1
  <2> QED
    BY <1>1, <2>1, <2>2, OnePipeShrinks
<1> QED
  BY <1>1, BreaksEffect, SamePipes

\* nanomsg gives a message once.
LEMMA TakeShrinks ==
    ASSUME SenderTypes, NEW k \in Channel, Take(k), sent' = sent
    PROVE  PipesRemain
<1> DEFINE rest == Tail(pipe[k])
<1>1. pipe[k] \in Seq(Message) /\ pipe[k] # <<>> /\ pipe' = [pipe EXCEPT ![k] = rest]
  BY DEF Take, SenderTypes
<1>2. /\ rest \in Seq(Message) /\ Len(rest) = Len(pipe[k]) - 1 /\ Len(pipe[k]) \in Nat
      /\ \A i \in 1..Len(rest) : rest[i] = pipe[k][i + 1]
  BY <1>1
<1> HIDE DEF rest
<1>3. Len(rest) + 1 <= Len(pipe[k])
  BY <1>2
<1> QED
  BY <1>1, <1>2, <1>3, OnePipeShrinks

\* A collector that ends loses what was on its way to it.
LEMMA UnboundEmpties ==
    ASSUME SenderTypes, Unbound, sent' = sent
    PROVE  PipesRemain
<1>1. \A k \in Channel : pipe'[k] = <<>> /\ Len(pipe[k]) \in Nat
  BY DEF Unbound, SenderTypes
<1>2. \A k \in Channel : Len(pipe'[k]) + 0 <= Len(pipe[k]) /\ 1..Len(pipe'[k]) = {}
  BY <1>1
<1>3. 0 \in Nat
  OBVIOUS
<1>4. pipe' \in [Channel -> Seq(Message)]
  BY DEF Unbound
<1> QED
  BY <1>2, <1>3, <1>4 DEF PipesRemain

\* Whatever happens, a message enters a pipe by nn_send only.
LEMMA PipesStep ==
    ASSUME SenderTypes, SenderCounts, [Next]_vars
    PROVE  PipesRemain \/ \E s \in Senders : Sends(s) /\ UNCHANGED <<pgVars, stage>>
<1>1. CASE UNCHANGED vars
  BY <1>1, SamePipes DEF vars, senderVars
<1>2. ASSUME NEW s \in Senders, SenderStep(s), UNCHANGED <<pgVars, stage>>
      PROVE  PipesRemain \/ (Sends(s) /\ UNCHANGED <<pgVars, stage>>)
  <2>1. CASE CloseSocketLog(s)
    BY <2>1, BreaksShrinks DEF CloseSocketLog
  <2>2. CASE OpenSocketLog(s) \/ OpenSocketLogFails(s) \/ SendReturns(s)
             \/ \E v \in Value : SendLogEntrySocket(s, v)
    BY <2>2, SamePipes DEF OpenSocketLog, OpenSocketLogFails, SendReturns, SendLogEntrySocket
  <2>3. CASE NnSend(s)
    BY <1>2, <2>3, SendsNothing, SamePipes
  <2> QED
    BY <1>2, <2>1, <2>2, <2>3 DEF SenderStep
<1>3. ASSUME NEW s \in Senders, Connect(s) \/ LosesConnection(s) PROVE PipesRemain
  BY <1>3, SamePipes, BreaksShrinks DEF Connect, LosesConnection
<1>4. ASSUME NEW c \in Putters, CollectorStep(c) PROVE PipesRemain
  <2>1. ASSUME NEW k \in Channel, Receive(c, k) PROVE PipesRemain
    BY <2>1, TakeShrinks DEF Receive
  <2>2. CASE Exit(c)
    BY <2>2, UnboundEmpties, SamePipes DEF Exit
  <2>3. CASE Start(c) \/ Bind(c) \/ Open(c) \/ PutLogStep(c) \/ Returned(c) \/ Interrupted(c)
    BY <2>3, SamePipes DEF Start, Bind, Open, PutLogStep, Returned, Interrupted, senderVars
  <2> QED
    BY <1>4, <2>1, <2>2, <2>3 DEF CollectorStep
<1>5. ASSUME NEW u \in Users, ClientStep(u) \/ (Drop(u) /\ UNCHANGED <<senderVars, stage>>)
      PROVE  PipesRemain
  BY <1>5, SamePipes DEF ClientStep, senderVars
<1> QED
  BY <1>1, <1>2, <1>3, <1>4, <1>5 DEF Next, Users

\* Nothing brings the messages of a connection out of their order.
LEMMA PipesOrderStep ==
    ASSUME SenderTypes, SenderCounts, PipesInOrder, [Next]_vars
    PROVE  PipesInOrder'
<1>1. CASE PipesRemain
  <2> SUFFICES ASSUME NEW s \in Channel, NEW i \in 1..Len(pipe'[s])
               PROVE  /\ pipe'[s][i].from = s
                      /\ pipe'[s][i].n <= Len(sent[s])
                      /\ pipe'[s][i].dev = Sent(HostOf[s[1]], sent[s][pipe'[s][i].n])
                      /\ \A j \in 1..(i - 1) : pipe'[s][j].n < pipe'[s][i].n
    BY <1>1 DEF PipesInOrder, PipesRemain
  <2> DEFINE l == Len(pipe'[s])
             k == Len(pipe[s])
  <2>0. i \in 1..l
    OBVIOUS
  <2>1. PICK d \in Nat : l + d <= k /\ \A h \in 1..l : pipe'[s][h] = pipe[s][h + d]
    BY <1>1 DEF PipesRemain
  <2>2. k \in Nat /\ l \in Nat
    BY <1>1 DEF SenderTypes, PipesRemain
  <2>3. \A h \in 1..k :
           /\ pipe[s][h].from = s /\ pipe[s][h].n <= Len(sent[s])
           /\ pipe[s][h].dev = Sent(HostOf[s[1]], sent[s][pipe[s][h].n])
           /\ \A j \in 1..(h - 1) : pipe[s][j].n < pipe[s][h].n
    BY DEF PipesInOrder
  <2> HIDE DEF l, k
  <2>4. i + d \in 1..k /\ pipe'[s][i] = pipe[s][i + d]
    BY <2>0, <2>1, <2>2
  <2>5. \A j \in 1..(i - 1) : pipe'[s][j] = pipe[s][j + d] /\ j + d \in 1..((i + d) - 1)
    BY <2>0, <2>1, <2>2
  <2> QED
    BY <2>3, <2>4, <2>5
<1>2. ASSUME NEW s \in Senders, Sends(s) PROVE PipesInOrder'
  <2> SUFFICES ASSUME NEW t \in Channel, NEW i \in 1..Len(pipe'[t])
               PROVE  /\ pipe'[t][i].from = t
                      /\ pipe'[t][i].n <= Len(sent'[t])
                      /\ pipe'[t][i].dev = Sent(HostOf[t[1]], sent'[t][pipe'[t][i].n])
                      /\ \A j \in 1..(i - 1) : pipe'[t][j].n < pipe'[t][i].n
    BY DEF PipesInOrder
  <2> DEFINE m == NextMessage(s)
             v == call[s].value
             k == Link(s)
  <2>1. /\ m \in Message /\ v \in Value /\ k \in Channel /\ k[1] = s
        /\ sent' = [sent EXCEPT ![k] = Append(@, v)]
        /\ pipe' = pipe \/ pipe' = [pipe EXCEPT ![k] = Append(@, m)]
    BY <1>2, SendsEffect
  <2>2. m.from = k /\ m.n = Len(sent[k]) + 1 /\ m.dev = Sent(HostOf[s], v)
    BY DEF NextMessage
  <2> HIDE DEF m, v, k
  <2>3. \A h \in 1..Len(pipe[t]) :
           /\ pipe[t][h] \in Message
           /\ pipe[t][h].from = t /\ pipe[t][h].n <= Len(sent[t])
           /\ pipe[t][h].dev = Sent(HostOf[t[1]], sent[t][pipe[t][h].n])
           /\ \A j \in 1..(h - 1) : pipe[t][j].n < pipe[t][h].n
    <3>1. \A h \in 1..Len(pipe[t]) : pipe[t][h] \in Message
      <4>1. pipe[t] \in Seq(Message)
        BY DEF SenderTypes
      <4> QED
        BY <4>1
    <3> QED
      BY <3>1 DEF PipesInOrder
  <2>4. /\ Len(sent[t]) \in Nat /\ Len(pipe[t]) \in Nat
        /\ pipe[t] \in Seq(Message) /\ sent[t] \in Seq(Value)
    BY DEF SenderTypes
  <2>5. /\ Len(sent[t]) <= Len(sent'[t])
        /\ \A h \in 1..Len(sent[t]) : sent'[t][h] = sent[t][h]
        /\ t = k => Len(sent'[t]) = Len(sent[t]) + 1 /\ sent'[t][Len(sent[t]) + 1] = v
    <3>1. CASE t = k
      <4>1. sent'[t] = Append(sent[t], v)
        BY <2>1, <3>1 DEF SenderTypes
      <4> QED
        BY <2>1, <2>4, <4>1
    <3>2. CASE t # k
      BY <2>1, <2>4, <3>2 DEF SenderTypes
    <3> QED
      BY <3>1, <3>2
  <2>6. \A h \in 1..Len(pipe[t]) :
           /\ pipe[t][h].n <= Len(sent'[t])
           /\ pipe[t][h].dev = Sent(HostOf[t[1]], sent'[t][pipe[t][h].n])
    <3> SUFFICES ASSUME NEW h \in 1..Len(pipe[t])
                 PROVE  /\ pipe[t][h].n <= Len(sent'[t])
                        /\ pipe[t][h].dev = Sent(HostOf[t[1]], sent'[t][pipe[t][h].n])
      OBVIOUS
    <3>1. pipe[t][h].n \in 1..Len(sent[t]) /\ pipe[t][h].n <= Len(sent[t])
      <4>1. pipe[t][h].n \in Nat \ {0} /\ pipe[t][h].n <= Len(sent[t])
        BY <2>3 DEF Message
      <4> QED
        BY <2>4, <4>1
    <3>2. Len(sent'[t]) \in Nat
      <4>1. CASE t = k
        BY <2>4, <2>5, <4>1
      <4>2. CASE t # k
        BY <2>1, <2>4, <4>2 DEF SenderTypes
      <4> QED
        BY <4>1, <4>2
    <3>3. pipe[t][h].dev = Sent(HostOf[t[1]], sent[t][pipe[t][h].n])
      BY <2>3
    <3>4. sent'[t][pipe[t][h].n] = sent[t][pipe[t][h].n]
      BY <2>5, <3>1
    <3> QED
      BY <2>4, <2>5, <3>1, <3>2, <3>3, <3>4
  <2>7. CASE pipe'[t] = pipe[t]
    BY <2>3, <2>6, <2>7
  <2>8. CASE t = k /\ pipe'[t] = Append(pipe[t], m)
    <3> DEFINE l == Len(pipe[t])
    <3>1. /\ Len(pipe'[t]) = l + 1 /\ pipe'[t][l + 1] = m /\ l \in Nat
          /\ \A h \in 1..l : pipe'[t][h] = pipe[t][h]
      BY <2>1, <2>4, <2>8
    <3> HIDE DEF l
    <3>2. CASE i = l + 1
      <4>1. m.n = Len(sent[t]) + 1 /\ m.n <= Len(sent'[t]) /\ m.dev = Sent(HostOf[t[1]], sent'[t][m.n])
        BY <2>1, <2>2, <2>4, <2>5, <2>8
      <4>2. \A j \in 1..l : pipe[t][j].n < m.n
        <5> SUFFICES ASSUME NEW j \in 1..l PROVE pipe[t][j].n < m.n
          OBVIOUS
        <5>1. pipe[t][j].n \in Nat \ {0} /\ pipe[t][j].n <= Len(sent[t])
          BY <2>3 DEF Message, l
        <5> QED
          BY <2>4, <4>1, <5>1
      <4>3. (l + 1) - 1 = l
        BY <3>1
      <4> QED
        BY <2>2, <2>8, <3>1, <3>2, <4>1, <4>2, <4>3
    <3>3. CASE i # l + 1
      <4>1. i \in 1..l /\ \A j \in 1..(i - 1) : j \in 1..l
        BY <3>1, <3>3
      <4> QED
        BY <2>3, <2>6, <3>1, <4>1 DEF l
    <3> QED
      BY <3>2, <3>3
  <2> QED
    BY <2>1, <2>7, <2>8 DEF SenderTypes
<1> QED
  BY <1>1, <1>2, PipesStep
-----------------------------------------------------------------------------
(* The senders, whatever takes a step. *)

\* What the library does to the sockets, and the collector to the pipes.
SocketStep == PipesRemain /\ sock' \in [Senders -> {"none", "connecting", "connected"}]
              /\ (\A s \in Senders : /\ sock'[s] = "connected" => sock[s] = "connected"
                                     /\ sock'[s] = "none" => sock[s] = "none")
              /\ UNCHANGED <<call, calls, links>>

\* To the senders, every step is one of theirs or of the sockets.
LEMMA SendersSteps ==
    ASSUME SenderTypes, [Next]_vars
    PROVE  \/ SocketStep
           \/ \E s \in Senders : SenderStep(s) \/ Connect(s) \/ LosesConnection(s)
<1>1. ASSUME UNCHANGED senderVars PROVE SocketStep
  BY <1>1, SamePipes DEF senderVars, SocketStep, SenderTypes
<1>3. ASSUME NEW c \in Putters, NEW k \in Channel, Receive(c, k) PROVE SocketStep
  <2>1. PipesRemain
    BY <1>3, TakeShrinks DEF Receive
  <2> QED
    BY <1>3, <2>1 DEF Receive, SocketStep, SenderTypes
<1>4. ASSUME NEW c \in Putters, Exit(c) PROVE SocketStep
  <2>1. PipesRemain
    BY <1>4, UnboundEmpties, SamePipes DEF Exit
  <2>2. UNCHANGED <<call, calls, links>> /\ (Unbound \/ sock' = sock)
    BY <1>4 DEF Exit
  <2> QED
    BY <2>1, <2>2 DEF Unbound, SocketStep, SenderTypes
<1>5. ASSUME NEW c \in Putters, CollectorStep(c) PROVE SocketStep
  <2>1. CASE Start(c) \/ Bind(c) \/ Open(c) \/ PutLogStep(c) \/ Returned(c) \/ Interrupted(c)
    <3>1. UNCHANGED senderVars
      BY <2>1 DEF Start, Bind, Open, PutLogStep, Returned, Interrupted, senderVars
    <3> QED
      BY <1>1, <3>1
  <2> QED
    BY <1>3, <1>4, <1>5, <2>1 DEF CollectorStep
<1>6. ASSUME NEW u \in Users, ClientStep(u) \/ (Drop(u) /\ UNCHANGED <<senderVars, stage>>)
      PROVE  SocketStep
  <2>1. UNCHANGED senderVars
    BY <1>6 DEF ClientStep, senderVars
  <2> QED
    BY <1>1, <2>1
<1>7. CASE UNCHANGED vars
  BY <1>1, <1>7 DEF vars
<1> QED
  BY <1>5, <1>6, <1>7 DEF Next, Users

\* Every step keeps the types and bounds of the senders.
LEMMA SendersInv ==
    ASSUME SenderTypes, SenderCounts, [Next]_vars
    PROVE  SenderTypes' /\ SenderCounts'
<1>1. CASE \E s \in Senders : SenderStep(s) \/ Connect(s) \/ LosesConnection(s)
  BY <1>1, SenderStepTypes, SenderStepCounts
<1>2. CASE SocketStep
  <2>1. SenderTypes'
    BY <1>2 DEF SocketStep, PipesRemain, SenderTypes
  <2>2. ASSUME NEW s \in Senders PROVE SenderCount(s)'
    <3>1. SenderCount(s)
      BY DEF SenderCounts
    <3>2. /\ call' = call /\ calls' = calls /\ links' = links
          /\ sock'[s] = "connected" => sock[s] = "connected"
          /\ sock'[s] = "none" => sock[s] = "none"
      BY <1>2 DEF SocketStep
    <3> QED
      BY <3>1, <3>2 DEF SenderCount, HasCalls
  <2>3. ASSUME NEW k \in Channel PROVE Len(pipe'[k]) <= PipeMax
    <3>1. Len(pipe'[k]) \in Nat /\ Len(pipe[k]) \in Nat
      BY <2>1 DEF SenderTypes
    <3>2. PICK d \in Nat : Len(pipe'[k]) + d <= Len(pipe[k])
      BY <1>2 DEF SocketStep, PipesRemain
    <3>3. Len(pipe[k]) <= PipeMax
      BY DEF SenderCounts
    <3> QED
      BY <3>1, <3>2, <3>3, SenderConstants
  <2> QED
    BY <2>1, <2>2, <2>3 DEF SenderCounts
<1> QED
  BY <1>1, <1>2, SendersSteps
-----------------------------------------------------------------------------
(* The collectors. *)

\* A second collector finds the address in use: every step leaves one.
LEMMA CollectorsStep ==
    ASSUME Types, PipesInOrder, OneCollector, [Next]_vars
    PROVE  StageType' /\ OneCollector'
<1> USE DEF StageType, Types
<1>1. CASE stage' = stage /\ \A c \in Putters : Idle(c) => Idle(c)'
  BY <1>1 DEF OneCollector, HasSocket
<1>2. ASSUME NEW s \in Senders, UNCHANGED <<pgVars, stage>> PROVE StageType' /\ OneCollector'
  BY <1>1, <1>2 DEF pgVars, Idle
<1>3. ASSUME NEW c \in Putters, CollectorStep(c) PROVE StageType' /\ OneCollector'
  <2>1. \A d \in Putters : d # c /\ Idle(d) => Idle(d)'
    <3>1. UNCHANGED pgVars \/ \E u \in Users : PgStep(u) /\ u = c
      <4>1. UNCHANGED pgVars \/ PgStep(c)
        BY <1>3, CollectorOfTheStore
      <4> QED
        BY <4>1 DEF Users
    <3> QED
      BY <3>1, OthersUnchanged DEF pgVars, Idle, Users
  <2>2. ASSUME NEW to \in {"loop", "putting", "shutdown", "down", "bind"}, ToStage(c, to),
               to # "putting" => Idle(c)',
               to \in {"loop", "putting", "shutdown"} => HasSocket(c)
        PROVE  StageType' /\ OneCollector'
    BY <2>1, <2>2 DEF ToStage, OneCollector, HasSocket, Idle
  <2>3. CASE Start(c)
    BY <2>2, <2>3 DEF Start, OneCollector, pgVars, Idle
  <2>4. CASE Bind(c)
    <3>1. /\ \A d \in Putters : ~HasSocket(d)
          /\ stage' = [stage EXCEPT ![c] = "open"] /\ stage[c] = "bind" /\ todo' = todo
      BY <2>4 DEF Bind, Bound, HasSocket, ToStage, pgVars
    <3> QED
      BY <3>1 DEF OneCollector, HasSocket, Idle
  <2>5. CASE Open(c)
    BY <2>2, <2>5 DEF Open, OpenDb, HasSocket, Idle
  <2>6. CASE \E k \in Channel : Receive(c, k)
    BY <2>2, <2>6 DEF Receive, HasSocket
  <2>7. CASE PutLogStep(c)
    BY <2>1, <2>7 DEF PutLogStep, OneCollector, HasSocket
  <2>8. CASE Returned(c)
    BY <2>2, <2>8 DEF Returned, HasSocket, Idle, pgVars
  <2>9. CASE Interrupted(c)
    BY <2>2, <2>9 DEF Interrupted, CloseDb, HasSocket, Idle
  <2>10. CASE Exit(c)
    <3>1. Idle(c)'
      BY <2>10 DEF Exit, Gone, Returns, Idle, CallTypes, Users
    <3> QED
      BY <2>2, <2>10, <3>1 DEF Exit
  <2> QED
    BY <1>3, <2>3, <2>4, <2>5, <2>6, <2>7, <2>8, <2>9, <2>10 DEF CollectorStep
<1>4. ASSUME NEW u \in Clients, ClientStep(u) PROVE StageType' /\ OneCollector'
  <2>1. PgStep(u) /\ stage' = stage
    BY <1>4 DEF ClientStep, PgStep, Loads, File
  <2>2. \A c \in Putters : c # u
    BY PglogConstants
  <2> QED
    BY <1>1, <2>1, <2>2, OthersUnchanged DEF Users, Idle
<1>5. ASSUME NEW u \in Users, Drop(u) /\ UNCHANGED <<senderVars, stage>>
      PROVE  StageType' /\ OneCollector'
  BY <1>1, <1>5 DEF Drop, Idle
<1>6. CASE UNCHANGED vars
  BY <1>1, <1>6 DEF vars, pgVars, Idle
<1> QED
  BY <1>2, <1>3, <1>4, <1>5, <1>6 DEF Next
-----------------------------------------------------------------------------
(* The rows: what a step does to them. *)

\* Nothing is stored, and no call ends that was to store something; a process may end.
Quiet ==
    /\ UNCHANGED <<loc, outcome>>
    /\ \A u \in Users : given'[u] \in {given[u], <<>>}

\* A call stores nothing, and says so.
FailedCall(u) ==
    /\ loc' = loc
    /\ Ends(u, "failed")
    /\ given' = [given EXCEPT ![u] = <<>>]

\* A call stores its rows.
StoringCall(u) ==
    /\ loc' = loc \o given[u] /\ given[u] # <<>>
    /\ \E kind \in {"ok", "unanswered"} : Ends(u, kind)
    /\ given' = [given EXCEPT ![u] = <<>>]

\* The events, each with what it leaves alone.
Event ==
    \/ \E s \in Senders : Sends(s) /\ UNCHANGED pgVars
    \/ \E c \in Putters, k \in Channel : Receive(c, k)
    \/ \E u \in Clients : Loads(u) /\ ~Loaded(u) /\ UNCHANGED senderVars
    \/ \E u \in Users : StoringCall(u) /\ UNCHANGED senderVars
    \/ \E u \in Users : FailedCall(u) /\ UNCHANGED senderVars
    \/ Quiet /\ PipesRemain

\* The steps of the store that neither begin nor end a call with rows.
LEMMA QuietCalls ==
    ASSUME CallTypes, NEW u \in Users,
           OpenDb(u) \/ CloseDb(u) \/ Gone(u) \/ Drop(u) \/ ReadLog(u)
    PROVE  Quiet
  BY DEF OpenDb, CloseDb, Gone, Drop, ReadLog, Call, Returns, Quiet, CallTypes

\* What a statement with its answer can do to the rows of a call.
LEMMA CallStepEvents ==
    ASSUME CallTypes, Calls, NEW u \in Users, CallStep(u)
    PROVE  Quiet \/ FailedCall(u) \/ StoringCall(u)
<1>1. CASE Begin(u) \/ Insert(u)
  BY <1>1 DEF Begin, Insert, Quiet
<1>2. CASE Select(u) \/ Fails(u) \/ UsesFinished(u)
  BY <1>2 DEF Select, SelectStatus, Fails, UsesFinished, CheckStmt, ReturnsError, Returns, FailedCall
<1>3. CASE End(u) \/ EndUnanswered(u)
  <2>1. Commit(u) /\ session[u].rows = given[u] /\ given[u] # <<>>
    BY <1>3, AtEnd DEF End, EndUnanswered, Calls
  <2>2. loc' = loc \o given[u]
    BY <2>1 DEF Commit
  <2> QED
    BY <1>3, <2>1, <2>2 DEF End, EndUnanswered, CheckStmt, ReturnsError, Returns, StoringCall
<1> QED
  BY <1>1, <1>2, <1>3 DEF CallStep

\* What any step can do to messages and rows.
LEMMA Events ==
    ASSUME SenderTypes, SenderCounts, CallTypes, PipesInOrder, Calls, [Next]_vars
    PROVE  Event
<1>1. ASSUME UNCHANGED pgVars PROVE Event
  <2>1. Quiet
    BY <1>1 DEF pgVars, Quiet
  <2> QED
    BY <1>1, <2>1, PipesStep DEF Event
<1>2. ASSUME UNCHANGED senderVars PROVE PipesRemain
  BY <1>2, SamePipes DEF senderVars
<1>3. ASSUME NEW u \in Users, CallStep(u) \/ OpenDb(u) \/ CloseDb(u) \/ Gone(u) \/ Drop(u) \/ ReadLog(u),
             UNCHANGED senderVars
      PROVE  Event
  BY <1>2, <1>3, QuietCalls, CallStepEvents DEF Event
<1>4. ASSUME NEW c \in Putters, CollectorStep(c) PROVE Event
  <2>1. CASE \E k \in Channel : Receive(c, k)
    BY <2>1 DEF Event
  <2>2. CASE Start(c) \/ Bind(c) \/ Returned(c)
    BY <1>1, <2>2 DEF Start, Bind, Returned
  <2>3. CASE Open(c) \/ PutLogStep(c) \/ Interrupted(c)
    BY <1>3, <2>3 DEF Open, PutLogStep, Interrupted, Users
  <2>4. CASE Exit(c)
    <3>1. Quiet
      BY <2>4, QuietCalls DEF Exit, Users
    <3>2. PipesRemain
      BY <2>4, UnboundEmpties, SamePipes DEF Exit
    <3> QED
      BY <3>1, <3>2 DEF Event
  <2> QED
    BY <1>4, <2>1, <2>2, <2>3, <2>4 DEF CollectorStep
<1>5. ASSUME NEW u \in Clients, ClientStep(u) PROVE Event
  <2>1. CASE OpenDb(u) \/ ReadLog(u) \/ CallStep(u) \/ CloseDb(u) \/ Gone(u)
    BY <1>3, <1>5, <2>1 DEF ClientStep, Users
  <2>2. ASSUME NEW values \in [1..Lines -> Value], ~Loaded(u), PutLogEntries(u, File(u, values))
        PROVE  Event
    BY <1>5, <2>2 DEF Loads, ClientStep, Event
  <2> QED
    BY <1>5, <2>1, <2>2 DEF ClientStep, File
<1>6. ASSUME NEW u \in Users, Drop(u), UNCHANGED <<senderVars, stage>> PROVE Event
  BY <1>3, <1>6
<1>7. CASE UNCHANGED vars
  BY <1>1, <1>7 DEF vars
<1> QED
  BY <1>1, <1>4, <1>5, <1>6, <1>7 DEF Next

\* Two collectors are not storing at the same time.
LEMMA OnlyPutter ==
    ASSUME Calls, OneCollector, NEW c \in Putters, NEW d \in Putters,
           given[c] # <<>>, given[d] # <<>>
    PROVE  c = d
  BY DEF OneCollector, HasSocket, Calls, CallInv, Users

\* What a call is to store was not stored, nor tried, before.
LEMMA NotSettled ==
    ASSUME SenderTypes, CallTypes, PuttersRow, ClientsRows, SettledRows,
           NEW u \in Users, NEW i \in 1..Len(given[u]), given[u] # <<>>
    PROVE  /\ given[u][i] \in Row
           /\ ~Settled(given[u][i])
           /\ u \in Putters => i = 1 /\ given[u][i].from \in Channel
           /\ u \in Clients => given[u][i].from = u
<1>1. given[u] \in Seq(Row) /\ given[u][i] \in Row
  BY DEF CallTypes
<1>2. CASE u \in Putters
  <2>a. /\ Len(given[u]) = 1
        /\ given[u][1].from \in Channel /\ given[u][1].n \in 1..Len(sent[given[u][1].from])
    BY <1>2 DEF PuttersRow, SentRow
  <2>1. i = 1 /\ given[u][1].from \in Channel /\ given[u][1].n \in 1..Len(sent[given[u][1].from])
    <3>1. i \in 1..1
      BY <2>a
    <3> QED
      BY <2>a, <3>1
  <2>2. ~(given[u][1].n < given[u][1].n)
    BY <2>1 DEF SenderTypes
  <2> QED
    BY <1>1, <1>2, <2>1, <2>2, PglogConstants DEF SettledRows
<1>3. CASE u \in Clients
  <2>1. Len(given[u]) = Lines /\ given[u][i].from = u /\ ~Loaded(u)
    BY <1>3 DEF ClientsRows
  <2> QED
    BY <1>1, <1>3, <2>1, PglogConstants DEF SettledRows
<1> QED
  BY <1>2, <1>3 DEF Users

\* A row that is settled by the end of a call is one of the call's.
LEMMA NewlySettled ==
    ASSUME CallTypes, StoreTypes, NEW u \in Users, StoringCall(u) \/ FailedCall(u),
           NEW r, Settled(r)'
    PROVE  Settled(r) \/ (given[u] # <<>> /\ \E i \in 1..Len(given[u]) : given[u][i] = r)
<1>1. CASE \E i \in 1..Len(loc') : loc'[i] = r
  <2>1. CASE FailedCall(u)
    BY <1>1, <2>1 DEF FailedCall, Settled
  <2>2. CASE StoringCall(u)
    <3>1. /\ loc' = loc \o given[u] /\ given[u] # <<>>
          /\ loc \in Seq(Row) /\ given[u] \in Seq(Row)
      BY <2>2 DEF StoringCall, StoreTypes, CallTypes
    <3>2. /\ Len(loc') = Len(loc) + Len(given[u]) /\ Len(loc) \in Nat /\ Len(given[u]) \in Nat
          /\ \A i \in 1..(Len(loc) + Len(given[u])) :
                loc'[i] = IF i <= Len(loc) THEN loc[i] ELSE given[u][i - Len(loc)]
      BY <3>1
    <3>3. PICK i \in 1..Len(loc') : loc'[i] = r
      BY <1>1
    <3>4. CASE i <= Len(loc)
      BY <3>2, <3>3, <3>4 DEF Settled
    <3>5. CASE ~(i <= Len(loc))
      <4>1. i - Len(loc) \in 1..Len(given[u]) /\ given[u][i - Len(loc)] = r
        BY <3>2, <3>3, <3>5
      <4> QED
        BY <3>1, <4>1
    <3> QED
      BY <3>4, <3>5
  <2> QED
    BY <2>1, <2>2
<1>2. CASE \E o \in outcome' : \E i \in 1..Len(o.rows) : o.rows[i] = r
  <2>1. PICK o \in outcome' : \E i \in 1..Len(o.rows) : o.rows[i] = r
    BY <1>2
  <2>2. CASE o \in outcome
    BY <2>1, <2>2 DEF Settled
  <2>3. CASE o \notin outcome
    <3>1. o.rows = given[u] /\ given[u] # <<>>
      BY <2>3 DEF StoringCall, FailedCall, Ends
    <3> QED
      BY <2>1, <3>1
  <2> QED
    BY <2>2, <2>3
<1> QED
  BY <1>1, <1>2 DEF Settled

\* A message that is left in a pipe was in it before.
LEMMA RemainIn ==
    ASSUME SenderTypes, PipesRemain, NEW s \in Channel, NEW i \in 1..Len(pipe'[s])
    PROVE  \E j \in 1..Len(pipe[s]) : pipe'[s][i] = pipe[s][j]
<1>1. PICK d \in Nat : Len(pipe'[s]) + d <= Len(pipe[s])
                       /\ \A h \in 1..Len(pipe'[s]) : pipe'[s][h] = pipe[s][h + d]
  BY DEF PipesRemain
<1>2. Len(pipe'[s]) \in Nat /\ Len(pipe[s]) \in Nat
  BY DEF SenderTypes, PipesRemain
<1>3. i + d \in 1..Len(pipe[s])
  BY <1>1, <1>2
<1> QED
  BY <1>1, <1>3

\* After a nn_send: the connection's history has grown, and a message that was not in the
\* pipe has its last number.
LEMMA SentGrows ==
    ASSUME SenderTypes, SenderCounts, NEW s \in Senders, Sends(s), NEW t \in Channel
    PROVE  /\ Len(sent[t]) \in Nat /\ Len(sent'[t]) \in Nat /\ Len(sent[t]) <= Len(sent'[t])
           /\ \A j \in 1..Len(sent[t]) : sent'[t][j] = sent[t][j]
           /\ \A i \in 1..Len(pipe'[t]) :
                 \/ \E j \in 1..Len(pipe[t]) : pipe'[t][i] = pipe[t][j]
                 \/ pipe'[t][i].n = Len(sent[t]) + 1
<1> DEFINE m == NextMessage(s)
           v == call[s].value
           k == Link(s)
<1>1. /\ m \in Message /\ v \in Value /\ k \in Channel
      /\ sent' = [sent EXCEPT ![k] = Append(@, v)]
      /\ pipe' = pipe \/ pipe' = [pipe EXCEPT ![k] = Append(@, m)]
  BY SendsEffect
<1>2. m.n = Len(sent[k]) + 1
  BY DEF NextMessage
<1> HIDE DEF m, v, k
<1>3. sent[t] \in Seq(Value) /\ pipe[t] \in Seq(Message) /\ Len(sent[t]) \in Nat /\ Len(pipe[t]) \in Nat
  BY DEF SenderTypes
<1>4. CASE t # k
  <2>1. sent'[t] = sent[t] /\ pipe'[t] = pipe[t]
    BY <1>1, <1>4 DEF SenderTypes
  <2> QED
    BY <1>3, <2>1
<1>5. CASE t = k
  <2>1. sent'[t] = Append(sent[t], v) /\ (pipe'[t] = pipe[t] \/ pipe'[t] = Append(pipe[t], m))
    BY <1>1, <1>5 DEF SenderTypes
  <2>2. /\ Len(sent'[t]) = Len(sent[t]) + 1
        /\ \A j \in 1..Len(sent[t]) : sent'[t][j] = sent[t][j]
    BY <1>1, <1>3, <2>1
  <2>3. \A i \in 1..Len(Append(pipe[t], m)) :
           \/ \E j \in 1..Len(pipe[t]) : Append(pipe[t], m)[i] = pipe[t][j]
           \/ Append(pipe[t], m)[i] = m
    BY <1>1, <1>3
  <2>4. \A i \in 1..Len(pipe'[t]) :
           \/ \E j \in 1..Len(pipe[t]) : pipe'[t][i] = pipe[t][j]
           \/ pipe'[t][i] = m
    BY <2>1, <2>3
  <2> QED
    BY <1>2, <1>3, <1>5, <2>2, <2>4
<1> QED
  BY <1>4, <1>5

\* What receiving a message does: its row is what was sent, older than the messages behind
\* it, and the collector was storing nothing.
LEMMA ReceiveEffect ==
    ASSUME SenderTypes, CallTypes, PipesInOrder, Calls, NEW c \in Putters, NEW k \in Channel,
           Receive(c, k)
    PROVE  \E r \in Row :
              /\ given' = [given EXCEPT ![c] = <<r>>] /\ given[c] = <<>>
              /\ PipesRemain /\ UNCHANGED <<loc, outcome>>
              /\ r.from = k /\ r.n \in 1..Len(sent[k]) /\ r.dev = sent[k][r.n]
              /\ pipe[k] # <<>> /\ r.n = pipe[k][1].n
              /\ \A i \in 1..Len(pipe'[k]) : r.n < pipe'[k][i].n
<1> DEFINE m == Head(pipe[k])
           r == [from |-> m.from, n |-> m.n, dev |-> Received(CollectorHost, m.dev)]
<1>2. pipe[k] # <<>> /\ pipe' = [pipe EXCEPT ![k] = Tail(@)]
  BY DEF Receive, Take
<1>3. r \in Row /\ r.from = k /\ r.n \in 1..Len(sent[k]) /\ r.dev = sent[k][r.n] /\ r.n = m.n
  BY <1>2, RowOfMessage
<1>4. given' = [given EXCEPT ![c] = <<r>>] /\ UNCHANGED <<loc, outcome>> /\ Idle(c)
  BY DEF Receive, PutLog, Call
<1>5. given[c] = <<>>
  BY <1>4 DEF Calls, CallInv, Users
<1>6. PipesRemain
  BY TakeShrinks DEF Receive
<1>7. /\ m = pipe[k][1] /\ Len(pipe'[k]) = Len(pipe[k]) - 1 /\ Len(pipe[k]) \in Nat
      /\ \A i \in 1..Len(pipe'[k]) : pipe'[k][i] = pipe[k][i + 1]
  BY <1>2 DEF SenderTypes
<1>8. \A i \in 1..Len(pipe'[k]) : m.n < pipe'[k][i].n
  <2> SUFFICES ASSUME NEW i \in 1..Len(pipe'[k]) PROVE m.n < pipe'[k][i].n
    OBVIOUS
  <2>1. i + 1 \in 1..Len(pipe[k]) /\ 1 \in 1..((i + 1) - 1) /\ pipe'[k][i] = pipe[k][i + 1]
    BY <1>7
  <2> QED
    BY <1>7, <2>1 DEF PipesInOrder
<1> HIDE DEF r, m
<1> QED
  BY <1>2, <1>3, <1>4, <1>5, <1>6, <1>7, <1>8

\* What loading a file does.
LEMMA LoadsEffect ==
    ASSUME CallTypes, Calls, NEW u \in Clients, Loads(u)
    PROVE  \E values \in [1..Lines -> Value] :
              /\ given' = [given EXCEPT ![u] = File(u, values)] /\ given[u] = <<>>
              /\ UNCHANGED <<loc, outcome>>
<1>1. PICK values \in [1..Lines -> Value] : PutLogEntries(u, File(u, values))
  BY DEF Loads
<1>2. Idle(u) /\ given' = [given EXCEPT ![u] = File(u, values)] /\ UNCHANGED <<loc, outcome>>
  BY <1>1 DEF PutLogEntries, Call
<1> QED
  BY <1>2 DEF Calls, CallInv, Users
-----------------------------------------------------------------------------
(* The rows: the invariants. *)

\* Pipes that lose messages leave a row older than what is in them.
LEMMA SentRowRemains ==
    ASSUME SenderTypes, PipesRemain, NEW r, SentRow(r)
    PROVE  SentRow(r)'
<1>1. sent' = sent
  BY DEF PipesRemain
<1>2. \A i \in 1..Len(pipe'[r.from]) : r.n < pipe'[r.from][i].n
  BY RemainIn DEF SentRow
<1> QED
  BY <1>1, <1>2 DEF SentRow

\* A message that is sent is newer than every row.
LEMMA SentRowSend ==
    ASSUME SenderTypes, SenderCounts, NEW s \in Senders, Sends(s), NEW r, SentRow(r)
    PROVE  SentRow(r)'
<1> DEFINE t == r.from
<1>1. t \in Channel /\ r.n \in 1..Len(sent[t]) /\ r.dev = sent[t][r.n]
      /\ \A i \in 1..Len(pipe[t]) : r.n < pipe[t][i].n
  BY DEF SentRow
<1>2. /\ Len(sent[t]) \in Nat /\ Len(sent'[t]) \in Nat /\ Len(sent[t]) <= Len(sent'[t])
      /\ \A j \in 1..Len(sent[t]) : sent'[t][j] = sent[t][j]
      /\ \A i \in 1..Len(pipe'[t]) :
            \/ \E j \in 1..Len(pipe[t]) : pipe'[t][i] = pipe[t][j]
            \/ pipe'[t][i].n = Len(sent[t]) + 1
  BY <1>1, SentGrows
<1>3. r.n \in 1..Len(sent'[t]) /\ r.dev = sent'[t][r.n]
  BY <1>1, <1>2
<1>4. \A i \in 1..Len(pipe'[t]) : r.n < pipe'[t][i].n
  BY <1>1, <1>2
<1> QED
  BY <1>1, <1>3, <1>4 DEF SentRow

\* A collector stores the message that it took out of the pipe.
LEMMA PuttersRowStep ==
    ASSUME SenderTypes, CallTypes, SenderCounts, PipesInOrder, Calls, PuttersRow, Event
    PROVE  PuttersRow'
<1> SUFFICES ASSUME NEW c \in Putters, given'[c] # <<>>
             PROVE  Len(given'[c]) = 1 /\ SentRow(given[c][1])'
  BY DEF PuttersRow
<1>1. ASSUME PipesRemain, given'[c] \in {given[c], <<>>}
      PROVE  Len(given'[c]) = 1 /\ SentRow(given[c][1])'
  <2>1. given'[c] = given[c] /\ Len(given[c]) = 1 /\ SentRow(given[c][1])
    BY <1>1 DEF PuttersRow
  <2>2. PICK r : r = given[c][1]
    OBVIOUS
  <2>3. SentRow(r)'
    BY <1>1, <2>1, <2>2, SentRowRemains
  <2> QED
    BY <2>1, <2>2, <2>3 DEF SentRow
<1>2. ASSUME NEW s \in Senders, Sends(s) /\ UNCHANGED pgVars
      PROVE  Len(given'[c]) = 1 /\ SentRow(given[c][1])'
  <2>1. given'[c] = given[c] /\ Len(given[c]) = 1 /\ SentRow(given[c][1])
    BY <1>2 DEF PuttersRow, pgVars
  <2>2. PICK r : r = given[c][1]
    OBVIOUS
  <2>3. SentRow(r)'
    BY <1>2, <2>1, <2>2, SentRowSend
  <2> QED
    BY <2>1, <2>2, <2>3 DEF SentRow
<1>3. ASSUME NEW d \in Putters, NEW k \in Channel, Receive(d, k)
      PROVE  Len(given'[c]) = 1 /\ SentRow(given[c][1])'
  <2>1. PICK r \in Row :
           /\ given' = [given EXCEPT ![d] = <<r>>]
           /\ PipesRemain
           /\ r.from = k /\ r.n \in 1..Len(sent[k]) /\ r.dev = sent[k][r.n]
           /\ \A i \in 1..Len(pipe'[k]) : r.n < pipe'[k][i].n
    BY <1>3, ReceiveEffect
  <2>2. CASE c = d
    <3>1. given'[c] = <<r>>
      BY <2>1, <2>2 DEF CallTypes, Users
    <3>2. Len(given'[c]) = 1 /\ given'[c][1] = r
      BY <3>1
    <3> QED
      BY <2>1, <3>2 DEF SentRow, PipesRemain
  <2>3. CASE c # d
    BY <1>1, <2>1, <2>3 DEF CallTypes, Users
  <2> QED
    BY <2>2, <2>3
<1>4. ASSUME NEW u \in Clients, Loads(u), UNCHANGED senderVars
      PROVE  Len(given'[c]) = 1 /\ SentRow(given[c][1])'
  <2>1. given'[c] = given[c]
    BY <1>4, LoadsEffect, PglogConstants DEF CallTypes, Users
  <2> QED
    BY <1>1, <1>4, <2>1, SamePipes DEF senderVars
<1>5. ASSUME NEW u \in Users, StoringCall(u) \/ FailedCall(u), UNCHANGED senderVars
      PROVE  Len(given'[c]) = 1 /\ SentRow(given[c][1])'
  <2>1. given'[c] \in {given[c], <<>>}
    BY <1>5 DEF StoringCall, FailedCall, CallTypes, Users
  <2> QED
    BY <1>1, <1>5, <2>1, SamePipes DEF senderVars
<1>6. ASSUME Quiet, PipesRemain PROVE Len(given'[c]) = 1 /\ SentRow(given[c][1])'
  BY <1>1, <1>6 DEF Quiet, Users
<1> QED
  BY <1>2, <1>3, <1>4, <1>5, <1>6 DEF Event

\* A client stores its file, once.
LEMMA ClientsRowsStep ==
    ASSUME CallTypes, SenderTypes, PipesInOrder, Calls, ClientsRows, Event
    PROVE  ClientsRows'
<1> SUFFICES ASSUME NEW u \in Clients, given'[u] # <<>>
             PROVE  /\ ~Loaded(u)'
                    /\ Len(given'[u]) = Lines
                    /\ \A i \in 1..Lines : given'[u][i].from = u /\ given'[u][i].n = i
                                           /\ given'[u][i].dev \in Value
  BY DEF ClientsRows
<1>1. ASSUME given'[u] = given[u], ~Loaded(u) => ~Loaded(u)'
      PROVE  /\ ~Loaded(u)'
             /\ Len(given'[u]) = Lines
             /\ \A i \in 1..Lines : given'[u][i].from = u /\ given'[u][i].n = i
                                    /\ given'[u][i].dev \in Value
  BY <1>1 DEF ClientsRows
<1>2. CASE \E s \in Senders : Sends(s) /\ UNCHANGED pgVars
  BY <1>1, <1>2 DEF pgVars, Loaded
<1>3. ASSUME NEW c \in Putters, NEW k \in Channel, Receive(c, k)
      PROVE  given'[u] = given[u] /\ (~Loaded(u) => ~Loaded(u)')
  <2>1. outcome' = outcome /\ \E r \in Row : given' = [given EXCEPT ![c] = <<r>>]
    BY <1>3, ReceiveEffect
  <2> QED
    BY <2>1, PglogConstants DEF Loaded, CallTypes, Users
<1>4. ASSUME NEW v \in Clients, Loads(v) /\ ~Loaded(v) /\ UNCHANGED senderVars
      PROVE  /\ ~Loaded(u)'
             /\ Len(given'[u]) = Lines
             /\ \A i \in 1..Lines : given'[u][i].from = u /\ given'[u][i].n = i
                                    /\ given'[u][i].dev \in Value
  <2>1. PICK values \in [1..Lines -> Value] :
           given' = [given EXCEPT ![v] = File(v, values)] /\ UNCHANGED <<loc, outcome>>
    BY <1>4, LoadsEffect
  <2>2. CASE u = v
    <3>1. given'[u] = File(u, values) /\ ~Loaded(u)'
      BY <1>4, <2>1, <2>2 DEF CallTypes, Users, Loaded
    <3>2. Len(File(u, values)) = Lines
      BY FileType
    <3>3. \A i \in 1..Lines : File(u, values)[i].from = u /\ File(u, values)[i].n = i
                            /\ File(u, values)[i].dev \in Value
      BY DEF File
    <3> QED
      BY <3>1, <3>2, <3>3
  <2>3. CASE u # v
    BY <1>1, <2>1, <2>3 DEF CallTypes, Users, Loaded
  <2> QED
    BY <2>2, <2>3
<1>5. ASSUME NEW v \in Users, StoringCall(v) \/ FailedCall(v)
      PROVE  given'[u] = given[u] /\ (~Loaded(u) => ~Loaded(u)')
  <2>1. u # v /\ given'[u] = given[u]
    BY <1>5 DEF StoringCall, FailedCall, CallTypes, Users
  <2>2. \A o \in outcome' : o \in outcome \/ o.by = v
    BY <1>5 DEF StoringCall, FailedCall, Ends
  <2> QED
    BY <2>1, <2>2 DEF Loaded
<1>6. ASSUME Quiet PROVE given'[u] = given[u] /\ (~Loaded(u) => ~Loaded(u)')
  BY <1>6 DEF Quiet, Users, Loaded
<1> QED
  BY <1>1, <1>2, <1>3, <1>4, <1>5, <1>6 DEF Event

\* A row that is settled by a step was so before, or is one of those whose call ends.
LEMMA SettledBefore ==
    ASSUME CallTypes, StoreTypes, SenderTypes, PipesInOrder, Calls, Event,
           NEW r, Settled(r)', ~Settled(r)
    PROVE  \E u \in Users : /\ StoringCall(u) \/ FailedCall(u)
                            /\ UNCHANGED senderVars
                            /\ given[u] # <<>> /\ \E i \in 1..Len(given[u]) : given[u][i] = r
<1>1. ASSUME UNCHANGED <<loc, outcome>> PROVE FALSE
  BY <1>1 DEF Settled
<1>2. ~(Quiet \/ UNCHANGED pgVars)
  BY <1>1 DEF Quiet, pgVars
<1>3. ~(\E c \in Putters, k \in Channel : Receive(c, k))
  BY <1>1, ReceiveEffect
<1>4. ~(\E u \in Clients : Loads(u))
  BY <1>1, LoadsEffect
<1> QED
  BY <1>2, <1>3, <1>4, NewlySettled DEF Event

\* What SettledRows says of a row.
IsSettled(r) ==
    /\ r.from \in Clients => Loaded(r.from)
    /\ r.from \in Channel =>
          /\ r.n <= Len(sent[r.from])
          /\ \A i \in 1..Len(pipe[r.from]) : r.n < pipe[r.from][i].n
          /\ \A c \in Putters : given[c] # <<>> /\ given[c][1].from = r.from =>
                r.n < given[c][1].n

\* The row of a call that ends is older than all that may come after it.
LEMMA NewlySettledRow ==
    ASSUME SenderTypes, CallTypes, Calls, OneCollector, PuttersRow, ClientsRows,
           SettledRows, NEW u \in Users, StoringCall(u) \/ FailedCall(u), UNCHANGED senderVars,
           given[u] # <<>>, NEW i \in 1..Len(given[u])
    PROVE  \A r : r = given[u][i] => IsSettled(r)'
<1> SUFFICES ASSUME NEW r, r = given[u][i] PROVE IsSettled(r)'
  OBVIOUS
<1>1. /\ u \in Putters => i = 1 /\ r.from \in Channel
      /\ u \in Clients => r.from = u
  BY NotSettled
<1>2. [by |-> u, rows |-> given[u], end |-> "ok"] \in outcome'
      \/ [by |-> u, rows |-> given[u], end |-> "unanswered"] \in outcome'
      \/ [by |-> u, rows |-> given[u], end |-> "failed"] \in outcome'
  BY DEF StoringCall, FailedCall, Ends
<1>3. Loaded(u)'
  BY <1>2 DEF Loaded
<1>4. sent' = sent /\ pipe' = pipe /\ given' = [given EXCEPT ![u] = <<>>]
  BY DEF senderVars, StoringCall, FailedCall
<1>5. CASE u \in Clients
  BY <1>1, <1>3, <1>5, DeliveryConstants DEF IsSettled, Users
<1>6. CASE u \in Putters
  <2>1. SentRow(r) /\ r.from \notin Clients
    BY <1>1, <1>6, DeliveryConstants DEF PuttersRow, Users
  <2>2. r.n <= Len(sent[r.from])
    BY <2>1 DEF SentRow, SenderTypes
  <2>3. \A c \in Putters : given'[c] = <<>>
    BY <1>4, <1>6, OnlyPutter DEF CallTypes, Users
  <2> QED
    BY <1>4, <2>1, <2>2, <2>3 DEF IsSettled, SentRow
<1> QED
  BY <1>5, <1>6 DEF Users

\* Every step keeps the rows that are settled behind those that are not.
LEMMA SettledRowsStep ==
    ASSUME SenderTypes, CallTypes, StoreTypes, SenderCounts, PipesInOrder, Calls, OneCollector,
           PuttersRow, ClientsRows, SettledRows, Event
    PROVE  SettledRows'
<1> SUFFICES ASSUME NEW r \in Row, Settled(r)' PROVE IsSettled(r)'
  BY DEF SettledRows, IsSettled
<1>1. CASE ~Settled(r)
  BY <1>1, SettledBefore, NewlySettledRow
<1>2. CASE Settled(r)
  <2> DEFINE t == r.from
  <2>0. IsSettled(r) /\ r.n \in Nat
    BY <1>2, SenderConstants DEF SettledRows, IsSettled, Row
  <2>1. ASSUME PipesRemain, \A o \in outcome : o \in outcome',
               \A c \in Putters : given'[c] \in {given[c], <<>>}
        PROVE  IsSettled(r)'
    <3>1. sent' = sent /\ (t \in Channel => \A i \in 1..Len(pipe'[t]) : r.n < pipe'[t][i].n)
      BY <2>0, <2>1, RemainIn DEF PipesRemain, IsSettled
    <3>2. \A c \in Putters : given'[c] # <<>> => given'[c] = given[c]
      BY <2>1
    <3>3. t \in Clients => Loaded(t)'
      BY <2>0, <2>1 DEF Loaded, IsSettled
    <3> QED
      BY <2>0, <3>1, <3>2, <3>3 DEF IsSettled
  <2>2. ASSUME NEW s \in Senders, Sends(s), UNCHANGED pgVars PROVE IsSettled(r)'
    <3>1. given' = given /\ outcome' = outcome
      BY <2>2 DEF pgVars
    <3>2. CASE t \in Channel
      <4>1. /\ Len(sent[t]) \in Nat /\ Len(sent'[t]) \in Nat /\ Len(sent[t]) <= Len(sent'[t])
            /\ \A i \in 1..Len(pipe'[t]) :
                  \/ \E j \in 1..Len(pipe[t]) : pipe'[t][i] = pipe[t][j]
                  \/ pipe'[t][i].n = Len(sent[t]) + 1
        BY <2>2, <3>2, SentGrows
      <4>2. r.n <= Len(sent[t]) /\ \A i \in 1..Len(pipe[t]) : r.n < pipe[t][i].n
        BY <2>0, <3>2 DEF IsSettled
      <4>3. r.n <= Len(sent'[t]) /\ \A i \in 1..Len(pipe'[t]) : r.n < pipe'[t][i].n
        <5> DEFINE k == Len(sent[t])
        <5>1. k \in Nat /\ r.n \in Nat /\ r.n < k + 1 /\ r.n <= Len(sent'[t])
          BY <2>0, <4>1, <4>2
        <5> HIDE DEF k
        <5>2. ASSUME NEW i \in 1..Len(pipe'[t]) PROVE r.n < pipe'[t][i].n
          <6>1. CASE pipe'[t][i].n = k + 1
            BY <5>1, <6>1
          <6>2. CASE \E j \in 1..Len(pipe[t]) : pipe'[t][i] = pipe[t][j]
            BY <4>2, <6>2
          <6> QED
            BY <4>1, <6>1, <6>2 DEF k
        <5> QED
          BY <5>1, <5>2
      <4> QED
        BY <2>0, <3>1, <4>3 DEF IsSettled, Loaded
    <3> QED
      BY <2>0, <3>1, <3>2 DEF IsSettled, Loaded
  <2>3. ASSUME NEW c \in Putters, NEW k \in Channel, Receive(c, k) PROVE IsSettled(r)'
    <3>1. PICK q \in Row :
             /\ given' = [given EXCEPT ![c] = <<q>>]
             /\ PipesRemain /\ UNCHANGED <<loc, outcome>>
             /\ q.from = k /\ pipe[k] # <<>> /\ q.n = pipe[k][1].n
      BY <2>3, ReceiveEffect
    <3>2. \A d \in Putters : given'[d] \in {given[d], <<q>>}
      BY <3>1 DEF CallTypes, Users
    <3>3. t = k => r.n < q.n
      <4>1. 1 \in 1..Len(pipe[k])
        BY <3>1 DEF SenderTypes
      <4> QED
        BY <2>0, <3>1, <4>1 DEF IsSettled
    <3>4. sent' = sent /\ (t \in Channel => \A i \in 1..Len(pipe'[t]) : r.n < pipe'[t][i].n)
      BY <2>0, <3>1, RemainIn DEF PipesRemain, IsSettled
    <3>5. \A d \in Putters : given'[d] # <<>> /\ given'[d][1].from = t /\ t \in Channel => r.n < given'[d][1].n
      <4> SUFFICES ASSUME NEW d \in Putters, given'[d] # <<>>, given'[d][1].from = t, t \in Channel
                   PROVE  r.n < given'[d][1].n
        OBVIOUS
      <4>1. CASE given'[d] = <<q>>
        <5>1. <<q>>[1] = q
          OBVIOUS
        <5> QED
          BY <3>1, <3>3, <4>1, <5>1
      <4>2. CASE given'[d] = given[d]
        BY <2>0, <4>2 DEF IsSettled
      <4> QED
        BY <3>2, <4>1, <4>2
    <3> QED
      BY <2>0, <3>1, <3>4, <3>5 DEF IsSettled, Loaded
  <2>4. ASSUME NEW u \in Clients, Loads(u), UNCHANGED senderVars PROVE IsSettled(r)'
    <3>1. outcome' = outcome /\ \A c \in Putters : given'[c] = given[c]
      BY <2>4, LoadsEffect, PglogConstants DEF CallTypes, Users
    <3> QED
      BY <2>1, <2>4, <3>1, SamePipes DEF senderVars
  <2>5. ASSUME NEW u \in Users, StoringCall(u) \/ FailedCall(u), UNCHANGED senderVars PROVE IsSettled(r)'
    <3>1. /\ \A o \in outcome : o \in outcome'
          /\ \A c \in Putters : given'[c] \in {given[c], <<>>}
      BY <2>5 DEF StoringCall, FailedCall, Ends, CallTypes, Users
    <3> QED
      BY <2>1, <2>5, <3>1, SamePipes DEF senderVars
  <2>6. ASSUME Quiet, PipesRemain PROVE IsSettled(r)'
    BY <2>1, <2>6 DEF Quiet, Users
  <2> QED
    BY <2>2, <2>3, <2>4, <2>5, <2>6 DEF Event
<1> QED
  BY <1>1, <1>2

\* A row that a call is to store is nowhere in the store.
LEMMA NotStored ==
    ASSUME SenderTypes, CallTypes, PuttersRow, ClientsRows, SettledRows,
           NEW u \in Users, given[u] # <<>>, NEW r,
           \E i \in 1..Len(given[u]) : given[u][i] = r
    PROVE  /\ ~(\E i \in 1..Len(loc) : loc[i] = r)
           /\ ~(\E o \in outcome : \E i \in 1..Len(o.rows) : o.rows[i] = r)
  BY NotSettled DEF Settled

\* Every step keeps the returned values true: rows of one call are stored together or
\* never.
LEMMA OutcomeStep ==
    ASSUME SenderTypes, CallTypes, StoreTypes, PipesInOrder, Calls,
           PuttersRow, ClientsRows, SettledRows, OutcomeIsTrue, Event
    PROVE  OutcomeIsTrue'
<1> DEFINE Rows(o)   == {o.rows[i] : i \in 1..Len(o.rows)}
           stored    == {loc[i] : i \in 1..Len(loc)}
           True(o)   == /\ o.end \in {"ok", "unanswered"} => Rows(o) \subseteq stored
                        /\ o.end = "failed" => Rows(o) \cap stored = {}
<1>a. \A o \in outcome : True(o)
  BY DEF OutcomeIsTrue
<1>1. ASSUME UNCHANGED <<loc, outcome>> PROVE OutcomeIsTrue'
  <2>1. loc' = loc
    BY <1>1
  <2>2. outcome' = outcome
    BY <1>1
  <2> SUFFICES ASSUME NEW o \in outcome' PROVE True(o)
    BY <2>1 DEF OutcomeIsTrue
  <2> HIDE DEF True
  <2> QED
    BY <1>a, <2>2
<1>2. ASSUME Quiet \/ UNCHANGED pgVars PROVE OutcomeIsTrue'
  BY <1>1, <1>2 DEF Quiet, pgVars
<1>3. ASSUME NEW c \in Putters, NEW k \in Channel, Receive(c, k) PROVE OutcomeIsTrue'
  BY <1>1, <1>3, ReceiveEffect
<1>4. ASSUME NEW u \in Clients, Loads(u) PROVE OutcomeIsTrue'
  BY <1>1, <1>4, LoadsEffect
<1>5. ASSUME NEW u \in Users, FailedCall(u) PROVE OutcomeIsTrue'
  <2>1. loc' = loc
    BY <1>5 DEF FailedCall
  <2> SUFFICES ASSUME NEW o \in outcome' PROVE True(o)
    BY <2>1 DEF OutcomeIsTrue
  <2>2. CASE o \in outcome
    <3> HIDE DEF True
    <3> QED
      BY <1>a, <2>2
  <2>3. CASE o \notin outcome
    <3>1. o.rows = given[u] /\ given[u] # <<>> /\ o.end = "failed"
      BY <1>5, <2>3 DEF FailedCall, Ends
    <3>2. Rows(o) \cap stored = {}
      BY <3>1, NotStored
    <3> QED
      BY <3>1, <3>2
  <2> QED
    BY <2>2, <2>3
<1>6. ASSUME NEW u \in Users, StoringCall(u) PROVE OutcomeIsTrue'
  <2> DEFINE new == {given[u][i] : i \in 1..Len(given[u])}
             stored2 == {loc'[i] : i \in 1..Len(loc')}
  <2>1. loc' = loc \o given[u] /\ given[u] # <<>>
    BY <1>6 DEF StoringCall
  <2>2. stored2 = stored \cup new
    <3>1. loc \in Seq(Row) /\ given[u] \in Seq(Row)
      BY DEF StoreTypes, CallTypes
    <3>2. /\ Len(loc') = Len(loc) + Len(given[u]) /\ Len(loc) \in Nat /\ Len(given[u]) \in Nat
          /\ \A i \in 1..(Len(loc) + Len(given[u])) :
                loc'[i] = IF i <= Len(loc) THEN loc[i] ELSE given[u][i - Len(loc)]
      BY <2>1, <3>1
    <3> DEFINE k == Len(loc)
               l == Len(given[u])
    <3>3. /\ Len(loc') = k + l /\ k \in Nat /\ l \in Nat
          /\ \A i \in 1..(k + l) : loc'[i] = IF i <= k THEN loc[i] ELSE given[u][i - k]
      BY <3>2
    <3> HIDE DEF k, l
    <3>4. \A i \in 1..k : i \in 1..(k + l) /\ loc'[i] = loc[i]
      BY <3>3
    <3>5. \A i \in 1..l : i + k \in 1..(k + l) /\ loc'[i + k] = given[u][i]
      BY <3>3
    <3>6. \A i \in 1..(k + l) : \/ i \in 1..k /\ loc'[i] = loc[i]
                                \/ i - k \in 1..l /\ loc'[i] = given[u][i - k]
      BY <3>3
    <3>7. stored2 = {loc'[i] : i \in 1..(k + l)} /\ stored = {loc[i] : i \in 1..k}
          /\ new = {given[u][i] : i \in 1..l}
      BY <3>3 DEF k, l
    <3> HIDE DEF stored2, stored, new
    <3>8. stored2 \subseteq stored \cup new
      BY <3>6, <3>7
    <3>9. stored \cup new \subseteq stored2
      BY <3>4, <3>5, <3>7
    <3> QED
      BY <3>8, <3>9
  <2> SUFFICES ASSUME NEW o \in outcome'
               PROVE  /\ o.end \in {"ok", "unanswered"} => Rows(o) \subseteq stored2
                      /\ o.end = "failed" => Rows(o) \cap stored2 = {}
    BY DEF OutcomeIsTrue
  <2>3. CASE o \in outcome
    <3>1. Rows(o) \cap new = {}
      BY <2>1, <2>3, NotStored
    <3> HIDE DEF Rows, stored, new, stored2
    <3> QED
      BY <1>a, <2>2, <2>3, <3>1
  <2>4. CASE o \notin outcome
    <3>1. o.rows = given[u] /\ o.end \in {"ok", "unanswered"}
      BY <1>6, <2>4 DEF StoringCall, Ends
    <3>2. Rows(o) = new
      BY <3>1
    <3> QED
      BY <2>2, <3>1, <3>2
  <2> QED
    BY <2>3, <2>4
<1> QED
  BY <1>2, <1>3, <1>4, <1>5, <1>6 DEF Event
-----------------------------------------------------------------------------
(* The invariant holds always. *)

\* Every step keeps the invariant.
LEMMA NextInv == IInv /\ [Next]_vars => IInv'
<1> SUFFICES ASSUME IInv, [Next]_vars PROVE IInv'
  OBVIOUS
<1> USE DEF IInv, Types
<1>1. SenderTypes' /\ SenderCounts' /\ PipesInOrder'
  BY SendersInv, PipesOrderStep
<1>2. LinkTypes' /\ CallTypes' /\ StoreTypes' /\ Calls'
  <2>1. CASE UNCHANGED pgVars
    BY <2>1 DEF pgVars, LinkTypes, CallTypes, StoreTypes, Calls, CallInv, Idle, Reading, Storing
  <2>2. ASSUME NEW u \in Users, PgStep(u) PROVE LinkTypes' /\ CallTypes' /\ StoreTypes' /\ Calls'
    BY <2>2, PgStepTypes, CallsStep
  <2> QED
    BY <2>1, <2>2, StepsOfTheStore
<1>3. StageType' /\ OneCollector'
  BY CollectorsStep
<1>4. Event
  BY Events
<1>5. PuttersRow' /\ ClientsRows' /\ SettledRows' /\ OutcomeIsTrue'
  BY <1>4, PuttersRowStep, ClientsRowsStep, SettledRowsStep, OutcomeStep
<1> QED
  BY <1>1, <1>2, <1>3, <1>5

\* In every behaviour of senders, collectors and programs the invariant holds.
THEOREM InvariantHolds == Spec => []IInv
<1>1. Init => IInv
  BY InitInv
<1>2. IInv /\ [Next]_vars => IInv'
  BY NextInv
<1> QED
  BY <1>1, <1>2, PTL DEF Spec

\* No value leaves its type, and the bounds of the pipes are kept, by whatever the senders,
\* the network, the collectors (wacs-pg.cpp) and the server do.
THEOREM TypeCorrect == Spec => []TypeOK
<1>1. IInv => TypeOK
  <2> SUFFICES ASSUME IInv PROVE TypeOK
    OBVIOUS
  <2>1. SenderTypeOK
    <3>1. ASSUME NEW s \in Senders
          PROVE  calls[s] \in 0..MostCalls(s) /\ links[s] \in 0..MaxLinks
      BY MostCallsType DEF IInv, Types, SenderTypes, SenderCounts, SenderCount
    <3>2. ASSUME NEW k \in Channel
          PROVE  /\ Len(pipe[k]) <= PipeMax /\ \A i \in 1..Len(pipe[k]) : pipe[k][i] \in Message
                 /\ \A i \in 1..Len(sent[k]) : sent[k][i] \in Value
      <4>1. sent[k] \in Seq(Value) /\ pipe[k] \in Seq(Message) /\ Len(pipe[k]) <= PipeMax
        BY DEF IInv, Types, SenderTypes, SenderCounts
      <4> QED
        BY <4>1
    <3> QED
      BY <3>1, <3>2 DEF IInv, Types, SenderTypes, SenderTypeOK
  <2> QED
    BY <2>1 DEF IInv, Types, LinkTypes, StageType, CallTypes, StoreTypes, TypeOK
<1> QED
  BY <1>1, InvariantHolds, PTL

\* A call of putLog or putLogEntries stores all of its rows or none, and what it returns
\* says which, but where the answer to its END got lost (pglog.cpp, CHECK_STMT).
THEOREM OutcomesAreTrue == Spec => []OutcomeIsTrue
<1>1. IInv => OutcomeIsTrue
  BY DEF IInv
<1> QED
  BY <1>1, InvariantHolds, PTL

\* No call leaves a transaction open on a connection that is used again.
THEOREM NoTransactionStays == Spec => []NoIdleTransaction
<1>1. IInv => NoIdleTransaction
  BY DEF IInv, Calls, CallInv, NoIdleTransaction
<1> QED
  BY <1>1, InvariantHolds, PTL

\* After a call that failed the process stores nothing more until it is started anew: its
\* connection is finished, and no statement is executed over that.
THEOREM NoSuccessAfterFailure == Spec => FailureIsForGood
<1>1. IInv /\ [Next]_vars => [\A u \in Users : ret[u] = "error" => ret'[u] # "ok"]_pgVars
  <2> SUFFICES ASSUME IInv, [Next]_vars, ~UNCHANGED pgVars, NEW v \in Users, ret[v] = "error"
               PROVE  ret'[v] # "ok"
    OBVIOUS
  <2> USE DEF IInv, Types
  <2>1. PICK u \in Users : PgStep(u)
    BY StepsOfTheStore
  <2>2. CASE u # v
    BY <2>1, <2>2, OthersUnchanged
  <2>3. CASE u = v
    <3>1. conn[v] = "finished" /\ ~Live(v)
      BY DEF Calls, CallInv, Live
    <3>2. ~Begin(v) /\ ~Insert(v) /\ ~Select(v) /\ ~End(v) /\ ~EndUnanswered(v)
      BY <3>1 DEF Begin, Insert, Select, End, EndUnanswered, Commit, Executes
    <3>3. ret' = ret \/ ret' = [ret EXCEPT ![v] = "none"] \/ ret' = [ret EXCEPT ![v] = "error"]
      BY <2>1, <2>3, <3>2 DEF PgStep, OpenDb, CloseDb, Gone, Drop, PutLog, Loads, PutLogEntries,
         ReadLog, Call, CallStep, Fails, UsesFinished, CheckStmt, ReturnsError
    <3> QED
      BY <3>3 DEF LinkTypes
  <2> QED
    BY <2>2, <2>3
<1> QED
  BY <1>1, InvariantHolds, PTL DEF Spec, FailureIsForGood
-----------------------------------------------------------------------------
(* Refinement of Courier. *)

\* The numbers of the rows that are stored are those of settled rows.
LEMMA StoredNumbers ==
    ASSUME IInv, NEW who, NEW k \in CourierPromise!NumbersOf(who)
    PROVE  \E r \in Row : r.from = who /\ r.n = k /\ IsSettled(r)
<1>1. PICK i \in 1..Len(loc) : loc[i].from = who /\ loc[i].n = k
  BY DEF CourierPromise!NumbersOf
<1>2. loc[i] \in Row /\ Settled(loc[i])
  BY DEF IInv, Types, StoreTypes, Settled
<1> QED
  BY <1>1, <1>2 DEF IInv, SettledRows, IsSettled

\* The commit of what a collector was given delivers one packet.
LEMMA DeliverStep ==
    ASSUME IInv, NEW c \in Putters, StoringCall(c), UNCHANGED senderVars
    PROVE  \E k \in Channel : \E n \in DOMAIN sent[k] : CourierPromise!Deliver(k, n)
<1> DEFINE r == given[c][1]
<1>1. given[c] # <<>> /\ Len(given[c]) = 1 /\ SentRow(r) /\ loc' = loc \o given[c] /\ sent' = sent
  BY DEF IInv, PuttersRow, StoringCall, senderVars
<1>2. given[c] \in Seq(Row) /\ loc \in Seq(Row)
  BY DEF IInv, Types, CallTypes, StoreTypes, Users
<1>3. given[c] = <<r>> /\ r \in Row
  BY <1>1, <1>2
<1>4. /\ r.from \in Channel /\ r.n \in 1..Len(sent[r.from])
      /\ r = [from |-> r.from, n |-> r.n, dev |-> sent[r.from][r.n]]
  BY <1>1, <1>3 DEF SentRow, Row
<1>5. DOMAIN sent[r.from] = 1..Len(sent[r.from])
  BY <1>4 DEF IInv, Types, SenderTypes
<1>6. \A j \in CourierPromise!NumbersOf(r.from) : j < r.n
  BY <1>1, <1>4, StoredNumbers DEF IsSettled
<1> HIDE DEF r
<1>7. loc' = Append(loc, r)
  BY <1>1, <1>2, <1>3, AppendIsConcat
<1>8. CourierPromise!Deliver(r.from, r.n)
  BY <1>1, <1>4, <1>6, <1>7 DEF CourierPromise!Deliver
<1> QED
  BY <1>4, <1>5, <1>8

\* The commit of a file loads it.
LEMMA LoadStep ==
    ASSUME IInv, NEW u \in Clients, StoringCall(u), UNCHANGED senderVars
    PROVE  \E k \in 1..(Len(loc') - Len(loc)) : \E values \in [1..k -> Value] :
              CourierPromise!Load(u, values)
<1> DEFINE values == [i \in 1..Lines |-> given[u][i].dev]
           file   == [i \in DOMAIN values |-> [from |-> u, n |-> i, dev |-> values[i]]]
<1>1. /\ given[u] # <<>> /\ ~Loaded(u) /\ Len(given[u]) = Lines
      /\ \A i \in 1..Lines : given[u][i].from = u /\ given[u][i].n = i /\ given[u][i].dev \in Value
      /\ loc' = loc \o given[u] /\ sent' = sent
  BY DEF IInv, ClientsRows, StoringCall, senderVars
<1>2. given[u] \in Seq(Row) /\ loc \in Seq(Row) /\ Lines \in Nat /\ Lines > 0
  BY DeliveryConstants DEF IInv, Types, CallTypes, StoreTypes, Users
<1>3. values \in [1..Lines -> Value] /\ DOMAIN values = 1..Lines
  BY <1>1
<1>4. file = given[u]
  <2>1. \A i \in 1..Lines : given[u][i] \in Row
    BY <1>1, <1>2
  <2>2. \A i \in 1..Lines : given[u][i] = [from |-> u, n |-> i, dev |-> values[i]]
    BY <1>1, <2>1 DEF Row
  <2>3. given[u] = [i \in 1..Lines |-> given[u][i]]
    <3>1. given[u] \in [1..Len(given[u]) -> Row]
      BY <1>2, LenProperties
    <3>2. given[u] \in [1..Lines -> Row]
      BY <1>1, <3>1
    <3> QED
      BY <3>2
  <2> QED
    BY <1>3, <2>2, <2>3
<1>5. CourierPromise!NumbersOf(u) = {}
  BY <1>1, StoredNumbers DEF IsSettled
<1>6. Len(loc') - Len(loc) = Lines
  BY <1>1, <1>2
<1>7. CourierPromise!Load(u, values)
  BY <1>1, <1>4, <1>5 DEF CourierPromise!Load
<1>8. Lines \in 1..(Len(loc') - Len(loc))
  BY <1>2, <1>6
<1> HIDE DEF values
<1> QED
  BY <1>3, <1>7, <1>8

\* Every step is one of Courier, or nothing that Courier sees.
LEMMA CourierStep == IInv /\ [Next]_vars => [CourierPromise!Next]_<<sent, loc>>
<1> SUFFICES ASSUME IInv, [Next]_vars PROVE [CourierPromise!Next]_<<sent, loc>>
  OBVIOUS
<1> USE DEF IInv, Types
<1>1. Event
  BY Events
<1>2. ASSUME NEW s \in Senders, Sends(s) /\ UNCHANGED pgVars PROVE CourierPromise!Next
  <2>1. /\ call[s].value \in Value /\ Link(s) \in Channel /\ loc' = loc
        /\ sent' = [sent EXCEPT ![Link(s)] = Append(@, call[s].value)]
    BY <1>2, SendsEffect DEF pgVars
  <2> QED
    BY <2>1 DEF CourierPromise!Next, CourierPromise!Send
<1>3. ASSUME NEW c \in Putters, NEW k \in Channel, Receive(c, k) PROVE UNCHANGED <<sent, loc>>
  BY <1>3, ReceiveEffect DEF PipesRemain
<1>4. ASSUME NEW u \in Clients, Loads(u), UNCHANGED senderVars PROVE UNCHANGED <<sent, loc>>
  BY <1>4, LoadsEffect DEF senderVars
<1>5. ASSUME NEW u \in Users, StoringCall(u), UNCHANGED senderVars PROVE CourierPromise!Next
  BY <1>5, DeliverStep, LoadStep DEF CourierPromise!Next, Users
<1>6. ASSUME NEW u \in Users, FailedCall(u), UNCHANGED senderVars PROVE UNCHANGED <<sent, loc>>
  BY <1>6 DEF FailedCall, senderVars
<1>7. ASSUME Quiet, PipesRemain PROVE UNCHANGED <<sent, loc>>
  BY <1>7 DEF Quiet, PipesRemain
<1> QED
  BY <1>1, <1>2, <1>3, <1>4, <1>5, <1>6, <1>7 DEF Event

\* Of the packets of one connection those that are stored are stored once, in the order
\* they were sent, with the sender's numbers on whichever hosts the two run; a file is
\* stored whole: senders, nanomsg, wacs-pg and the server together implement Courier.
THEOREM DeliveryImplementsCourier == Spec => ImplementsCourier
<1>1. Init => CourierPromise!Init
  BY DEF Init, SenderInit, PgInit, CourierPromise!Init
<1>2. IInv /\ [Next]_vars => [CourierPromise!Next]_(CourierPromise!vars)
  BY CourierStep DEF CourierPromise!vars
<1> QED
  BY <1>1, <1>2, InvariantHolds, PTL DEF Spec, ImplementsCourier, CourierPromise!Spec
=============================================================================
