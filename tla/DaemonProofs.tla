---------------------------- MODULE DaemonProofs ----------------------------
(***************************************************************************)
(* Theorems about Daemon, for any byte order of the two hosts, any values  *)
(* of a byte, any signals and MACs and any number of file descriptors: the *)
(* types, the file the log goes to, and what wacs-snmp is answered.        *)
(***************************************************************************)
EXTENDS Daemon, LogEntryProofs, FiniteSetTheorems

-----------------------------------------------------------------------------
(* The inductive invariant, in parts. *)

FreeFrom(a) == Free = a..LastFd

\* Descriptor 2 is never the database's: until the socket is there, either it is still the
\* terminal's or the descriptors that are free begin before it; afterwards they begin
\* behind it, and enough of them are left for the database.
LogDescriptor ==
    /\ fds[2] # "database"
    /\ at \in {"main", "session", "detached"} => FreeFrom(3)
    /\ at = "runner" => FreeFrom(3) \/ FreeFrom(1)
    /\ at \in {"queue", "socket"} => \E a \in 1..4 : FreeFrom(a)
    /\ at \in {"bound", "option"} => \E a \in 3..(4 + SocketFds) : FreeFrom(a)

\* A whole packet is as it came until putLog has converted it, and only then it is counted;
\* what is counted of a short one says so.
Counted ==
    /\ at = "put" /\ e.whole => NtohLogEntry(CollectorHost, e.ssi_signal) \in Signal
    /\ at \in {"mac", "signal"} /\ e.whole => e.ssi_signal \in Signal
    /\ counter.whole => counter.lastssisignal \in Signal \cup {0}

\* A handler is one of a process.
HandlerLives == handler.step # "none" => at # "none"

IInv == TypeOK /\ HandlerLives /\ LogDescriptor /\ Counted /\ AnswersAreSent
-----------------------------------------------------------------------------
(* Lemmas. *)

\* The descriptors that the code names are among those there are.
LEMMA FdRange == 0 \in Fd /\ 2 \in Fd /\ \A x \in Fd : x \in Int
  BY DaemonConstants DEF Fd

\* A counter that was never set has a value of its type.
LEMMA ZeroIsWord == 0 \in Word /\ Signal \subseteq Word
<1>1. Base * Base - 1 >= 0 /\ Base * Base - 1 \in Int
  BY BaseConstant
<1> QED
  BY <1>1, DaemonConstants DEF Word

\* What the collector reads of a packet, before and after putLog, is two bytes' number;
\* afterwards it is the number that was sent.
LEMMA PacketWords ==
    /\ \A v \in Signal, from \in Host :
          /\ Number(CollectorHost, Sent(from, v)) \in Word
          /\ NtohLogEntry(CollectorHost, Number(CollectorHost, Sent(from, v))) = v
    /\ \A w \in Word : NtohLogEntry(CollectorHost, w) \in Word
<1>1. ASSUME NEW v \in Signal, NEW from \in Host
      PROVE  /\ Number(CollectorHost, Sent(from, v)) \in Word
             /\ NtohLogEntry(CollectorHost, Number(CollectorHost, Sent(from, v))) = v
  <2>1. v \in Word /\ CollectorHost \in Host
    BY DaemonConstants
  <2>2. v % Base \in Byte /\ v \div Base \in Byte
    BY <2>1, SwappedBytes
  <2> DEFINE hi == v \div Base
             lo == v % Base
  <2>3. Sent(from, v) = <<hi, lo>>
    BY <2>1, NetworkOrder
  <2>4. Number(CollectorHost, <<hi, lo>>) \in {lo * Base + hi, hi * Base + lo}
    BY DEF Number
  <2>5. lo * Base + hi \in Word /\ hi * Base + lo \in Word
    BY <2>2, BytesOfNumber
  <2> HIDE DEF hi, lo
  <2>6. Number(CollectorHost, Sent(from, v)) \in Word
    BY <2>3, <2>4, <2>5
  <2>7. Received(CollectorHost, Sent(from, v)) = v
    BY <2>1, NumbersSurvive
  <2> QED
    BY <2>6, <2>7 DEF Received
<1>2. ASSUME NEW w \in Word PROVE NtohLogEntry(CollectorHost, w) \in Word
  BY SwappedBytes DEF NtohLogEntry
<1> QED
  BY <1>1, <1>2

\* The lowest n of the descriptors from a on are a and those that follow it.
LEMMA LowestFrom ==
    ASSUME NEW a \in Nat, NEW n \in Nat, FreeFrom(a), a + n <= LastFd + 1
    PROVE  Lowest(n) = a..(a + n - 1)
<1> DEFINE I == a..(a + n - 1)
           IsLowest(S) == S \in kSubset(n, Free) /\ \A x \in S : \A y \in Free \ S : x < y
<1>1. IsFiniteSet(I) /\ Cardinality(I) = n
  <2> DEFINE b == a + n - 1
  <2>1. a \in Int /\ b \in Int /\ n = b - a + 1 /\ (a > b => n = 0)
    OBVIOUS
  <2> HIDE DEF b
  <2>2. IsFiniteSet(a..b) /\ Cardinality(a..b) = IF a > b THEN 0 ELSE b - a + 1
    BY <2>1, FS_Interval
  <2> QED
    BY <2>1, <2>2 DEF b
<1>2. IsLowest(I)
  <2>1. I \subseteq Free
    BY DaemonConstants DEF FreeFrom
  <2>2. \A x \in I : \A y \in Free \ I : x < y
    BY DaemonConstants DEF FreeFrom
  <2> QED
    BY <1>1, <2>1, <2>2 DEF kSubset
<1>3. ASSUME NEW S, IsLowest(S) PROVE S = I
  <2>1. S \subseteq a..LastFd /\ Cardinality(S) = n /\ \A x \in S : \A y \in (a..LastFd) \ S : x < y
    BY <1>3 DEF kSubset, FreeFrom
  <2>2. IsFiniteSet(a..LastFd) /\ IsFiniteSet(S)
    <3>1. LastFd \in Int /\ a \in Int
      BY DaemonConstants
    <3>2. IsFiniteSet(a..LastFd)
      BY <3>1, FS_Interval
    <3> QED
      BY <2>1, <3>2, FS_Subset
  <2>3. ASSUME S \subseteq I PROVE S = I
    BY <1>1, <2>1, <2>3, FS_Subset
  <2>4. ASSUME I \subseteq S PROVE S = I
    BY <1>1, <2>1, <2>2, <2>4, FS_Subset
  <2>5. CASE \E x \in S \ I : \E y \in I \ S : TRUE
    <3>1. PICK x \in S \ I : TRUE
      BY <2>5
    <3>2. PICK y \in I \ S : TRUE
      BY <2>5
    <3>3. x > a + n - 1 /\ y <= a + n - 1 /\ y \in a..LastFd
      BY <2>1, <3>1, <3>2, DaemonConstants
    <3> QED
      BY <2>1, <3>1, <3>2, <3>3, DaemonConstants
  <2> QED
    BY <2>3, <2>4, <2>5
<1>4. Lowest(n) = CHOOSE S \in kSubset(n, Free) : \A x \in S : \A y \in Free \ S : x < y
  BY DEF Lowest
<1>5. IsLowest(Lowest(n))
  BY <1>2, <1>4
<1> QED
  BY <1>3, <1>5

\* So they are opened one behind the other.
LEMMA OpenedFrom ==
    ASSUME TypeOK, NEW a \in Nat, NEW n \in Nat, FreeFrom(a), a + n <= LastFd + 1,
           NEW what \in {"agent", "socket", "database"}, fds' = Opened(n, what)
    PROVE  FreeFrom(a + n)' /\ \A x \in Fd : x < a => fds'[x] = fds[x]
<1>1. \A x \in Fd : fds'[x] = IF x \in a..(a + n - 1) THEN what ELSE fds[x]
  BY LowestFrom DEF Opened
<1>2. \A x \in Fd : fds[x] = "free" <=> x \in a..LastFd
  BY DEF FreeFrom, Free
<1>3. \A x \in Fd : fds'[x] = "free" <=> x \in (a + n)..LastFd
  BY <1>1, <1>2, FdRange
<1>4. (a + n)..LastFd \subseteq Fd
  BY DaemonConstants DEF Fd
<1> QED
  BY <1>1, <1>3, <1>4, FdRange DEF FreeFrom, Free
-----------------------------------------------------------------------------
(* The initial state, and the end of a process. *)

\* Before the process is started.
LEMMA InitInv == Init => IInv
<1> SUFFICES ASSUME Init PROVE IInv
  OBVIOUS
<1> USE DEF Init
<1>1. TypeOK
  <2>1. Len(MibObjects) = 12
    BY DEF MibObjects
  <2>2. monitor.asked \in 0..Len(MibObjects)
    BY <2>1
  <2> QED
    BY <2>2, ZeroIsWord DEF TypeOK, NoHandler, NoPacket, NoCounter
<1>2. LogDescriptor
  BY FdRange DEF LogDescriptor
<1>3. Counted /\ AnswersAreSent /\ HandlerLives
  BY DEF Counted, AnswersAreSent, HandlerLives, NoCounter, NoAnswer, NoHandler
<1> QED
  BY <1>1, <1>2, <1>3 DEF IInv

\* The end of the process, by exit or by its return from main.
LEMMA OverInv == IInv /\ Over => IInv'
<1> SUFFICES ASSUME IInv, Over PROVE IInv'
  OBVIOUS
<1> USE DEF IInv, Over
<1>1. TypeOK'
  BY ZeroIsWord DEF TypeOK, NoHandler, NoPacket, NoCounter
<1>2. LogDescriptor'
  BY FdRange DEF LogDescriptor
<1>3. Counted' /\ AnswersAreSent' /\ HandlerLives'
  BY DEF Counted, AnswersAreSent, HandlerLives, NoCounter, NoHandler
<1> QED
  BY <1>1, <1>2, <1>3
-----------------------------------------------------------------------------
(* The steps. *)

\* Every step keeps the types.
LEMMA TypeStep == IInv /\ [Next]_vars => TypeOK'
<1> SUFFICES ASSUME IInv, [Next]_vars PROVE TypeOK'
  OBVIOUS
<1>0. TypeOK
  BY DEF IInv
<1> USE DEF TypeOK, Setup, Looping, Ending
<1>1. ASSUME Over PROVE TypeOK'
  BY <1>1, OverInv DEF IInv
<1>2. CASE Main
  <2>1. fds' \in [Fd -> {"free", "tty", "agent", "socket", "database"}]
    BY <1>2 DEF Main
  <2> QED
    BY <1>0, <1>2, <2>1 DEF Main, Go
<1>3. CASE Foreground \/ Fork \/ CloseFds \/ ResetStop \/ NnBind \/ While \/ Timeout \/ PutLogShort
  <2>1. CASE Foreground \/ Fork \/ NnBind \/ While \/ Timeout \/ PutLogShort
    <3>1. at' \in {"none"} \cup Setup \cup Looping \cup Ending
      BY <2>1 DEF Foreground, Fork, NnBind, While, Timeout, PutLogShort, Go
    <3>2. UNCHANGED <<options, fds, stop_request, handler, agent, e, counter, monitor, asked>>
      BY <2>1 DEF Foreground, Fork, NnBind, While, Timeout, PutLogShort
    <3> QED
      BY <1>0, <3>1, <3>2
  <2>2. CASE CloseFds
    <3>1. fds' \in [Fd -> {"free", "tty", "agent", "socket", "database"}]
      BY <1>0, <2>2 DEF CloseFds
    <3> QED
      BY <1>0, <2>2, <3>1 DEF CloseFds, Go
  <2>3. CASE ResetStop
    <3>1. at' \in {"none"} \cup Setup \cup Looping \cup Ending /\ stop_request' \in BOOLEAN
      BY <2>3 DEF ResetStop, Go
    <3>2. UNCHANGED <<options, fds, handler, agent, e, counter, monitor, asked>>
      BY <2>3 DEF ResetStop
    <3> QED
      BY <1>0, <3>1, <3>2
  <2> QED
    BY <1>3, <2>1, <2>2, <2>3
<1>4. CASE SnmpInitialize
  <2>1. fds' \in [Fd -> {"free", "tty", "agent", "socket", "database"}]
    BY <1>0, <1>4 DEF SnmpInitialize, Opened
  <2>2. counter' \in [lastmac : Macs \cup {0}, lastssisignal : Word, whole : BOOLEAN]
    BY <1>4, ZeroIsWord DEF SnmpInitialize, NoCounter
  <2>3. at' = "queue" /\ stop_request' \in BOOLEAN /\ agent' \in {"none", "running", "waiting", "ended"}
        /\ UNCHANGED <<options, handler, e, monitor, asked>>
    BY <1>0, <1>4 DEF SnmpInitialize, Go
  <2> QED
    BY <1>0, <2>1, <2>2, <2>3
<1>5. CASE NnSocket \/ OpenDb
  BY <1>0, <1>5 DEF NnSocket, OpenDb, Go, Opened
<1>6. CASE PutLog
  BY <1>0, <1>6, PacketWords DEF PutLog, Go
<1>7. CASE PutLastmac \/ PutLastssisignal
  <2>1. counter' \in [lastmac : Macs \cup {0}, lastssisignal : Word, whole : BOOLEAN]
    BY <1>0, <1>7 DEF PutLastmac, PutLastssisignal
  <2>2. at' \in {"signal", "loop"}
        /\ UNCHANGED <<options, fds, stop_request, handler, agent, e, monitor, asked>>
    BY <1>7 DEF PutLastmac, PutLastssisignal, Go
  <2> QED
    BY <1>0, <2>1, <2>2
<1>8. CASE CloseDb \/ NnClose \/ SnmpDone
  BY <1>0, <1>8 DEF CloseDb, NnClose, SnmpDone, Go, Closed
<1>9. CASE Receive \/ ReceiveShort \/ RecvInterrupted
  <2>1. e' \in [sa : Macs \cup {0}, ssi_signal : Word, whole : BOOLEAN]
    <3>1. CASE Receive
      <4>1. PICK m \in Macs, v \in Signal, from \in Host :
               e' = [sa |-> m, ssi_signal |-> Number(CollectorHost, Sent(from, v)), whole |-> TRUE]
        BY <3>1 DEF Receive
      <4>2. Number(CollectorHost, Sent(from, v)) \in Word
        BY PacketWords
      <4> QED
        BY <4>1, <4>2
    <3>2. CASE ReceiveShort
      <4>1. PICK m \in Macs \cup {0}, v \in Word : e' = [sa |-> m, ssi_signal |-> v, whole |-> FALSE]
        BY <3>2 DEF ReceiveShort
      <4> QED
        BY <4>1
    <3>3. CASE RecvInterrupted
      BY <1>0, <3>3 DEF RecvInterrupted
    <3> QED
      BY <1>9, <3>1, <3>2, <3>3
  <2>2. at' \in {"put", "loop"} /\ stop_request' \in BOOLEAN
        /\ UNCHANGED <<options, fds, handler, agent, counter, monitor, asked>>
    BY <1>0, <1>9 DEF Receive, ReceiveShort, RecvInterrupted, Go
  <2> QED
    BY <1>0, <2>1, <2>2
<1>10. CASE AgentChecks \/ AgentAnswers \/ AgentWakes \/ NoAnswerComes \/ MonitorPrints \/ AgentEnds
  <2>1. Len(MibObjects) = 12
    BY DEF MibObjects
  <2>2. monitor.asked' \in 0..Len(MibObjects)
    BY <1>0, <1>10, <2>1 DEF AgentChecks, AgentAnswers, AgentWakes, NoAnswerComes, MonitorPrints,
       AgentEnds, Shows
  <2>3. agent' \in {"none", "running", "waiting", "ended"}
        /\ UNCHANGED <<at, options, fds, stop_request, handler, e, counter, asked>>
    BY <1>0, <1>10 DEF AgentChecks, AgentAnswers, AgentWakes, NoAnswerComes, MonitorPrints,
       AgentEnds, AgentGo
  <2> QED
    BY <1>0, <2>2, <2>3
<1>11. CASE Sigint \/ HandlerStops \/ HandlerHangs
  <2>1. handler' \in [on : {"none", "main", "agent"}, step : {"none", "stop", "exit", "hung"}]
    BY <1>0, <1>11 DEF Sigint, HandlerStops, HandlerHangs
  <2>2. asked' = asked \/ (asked' = at /\ at # "none")
    BY <1>11 DEF Sigint, HandlerStops, HandlerHangs, HandlerLives, IInv
  <2>3. stop_request' \in BOOLEAN /\ UNCHANGED <<at, options, fds, agent, e, counter, monitor>>
    BY <1>0, <1>11 DEF Sigint, HandlerStops, HandlerHangs
  <2> QED
    BY <1>0, <2>1, <2>2, <2>3
<1>12. CASE UNCHANGED vars
  BY <1>0, <1>12 DEF vars
<1> QED
  BY <1>1, <1>2, <1>3, <1>4, <1>5, <1>6, <1>7, <1>8, <1>9, <1>10, <1>11, <1>12
     DEF Next, MainStep, LockStep, HandlerStep, ForkFails, Done, HandlerExits, Killed

\* No handler outlives its process.
LEMMA HandlerStepLives == IInv /\ [Next]_vars => HandlerLives'
<1> SUFFICES ASSUME IInv, [Next]_vars PROVE HandlerLives'
  OBVIOUS
<1>0. HandlerLives
  BY DEF IInv
<1>1. ASSUME Over PROVE HandlerLives'
  BY <1>1, OverInv DEF IInv
<1>2. ASSUME at' # "none" \/ (at' = at /\ handler' = handler) PROVE HandlerLives'
  BY <1>0, <1>2 DEF HandlerLives
<1>3. CASE Main \/ Foreground \/ Fork \/ CloseFds \/ SnmpInitialize \/ ResetStop \/ NnSocket \/ NnBind
           \/ OpenDb \/ While \/ Timeout \/ PutLog \/ PutLogShort \/ PutLastmac \/ PutLastssisignal
           \/ CloseDb \/ NnClose \/ SnmpDone \/ Receive \/ ReceiveShort \/ RecvInterrupted
  BY <1>2, <1>3 DEF Main, Foreground, Fork, CloseFds, SnmpInitialize, ResetStop, NnSocket, NnBind,
     OpenDb, While, Timeout, PutLog, PutLogShort, PutLastmac, PutLastssisignal, CloseDb, NnClose,
     SnmpDone, Receive, ReceiveShort, RecvInterrupted, Go
<1>4. CASE AgentChecks \/ AgentAnswers \/ AgentWakes \/ NoAnswerComes \/ MonitorPrints \/ AgentEnds
           \/ UNCHANGED vars
  BY <1>2, <1>4 DEF AgentChecks, AgentAnswers, AgentWakes, NoAnswerComes, MonitorPrints, AgentEnds, vars
<1>5. CASE Sigint \/ HandlerStops \/ HandlerHangs
  BY <1>0, <1>2, <1>5 DEF Sigint, HandlerStops, HandlerHangs, HandlerLives
<1> QED
  BY <1>1, <1>3, <1>4, <1>5 DEF Next, MainStep, LockStep, HandlerStep, ForkFails, Done, HandlerExits, Killed

\* The descriptors, through the way into the background, the agent, the socket and the
\* database.
LEMMA LogDescriptorStep == IInv /\ [Next]_vars => LogDescriptor'
<1> SUFFICES ASSUME IInv, [Next]_vars PROVE LogDescriptor'
  OBVIOUS
<1> USE DEF LogDescriptor
<1>0. TypeOK /\ LogDescriptor /\ SocketFds \in Nat /\ SocketFds >= 2
      /\ LastFd \in Nat /\ LastFd >= 5 + SocketFds
  BY DaemonConstants DEF IInv
<1>1. ASSUME Over PROVE LogDescriptor'
  BY <1>1, OverInv DEF IInv
<1>2. CASE Main
  <2>1. at' = "main" /\ fds' = [x \in Fd |-> IF x <= 2 THEN "tty" ELSE "free"]
    BY <1>2 DEF Main, Go
  <2>2. FreeFrom(3)' /\ fds'[2] = "tty"
    <3>1. \A x \in Fd : fds'[x] = "free" <=> x \in 3..LastFd
      BY <2>1, FdRange DEF Fd
    <3>2. 3..LastFd \subseteq Fd
      BY <1>0 DEF Fd
    <3> QED
      BY <2>1, <3>1, <3>2, FdRange DEF FreeFrom, Free
  <2> QED
    BY <2>1, <2>2
<1>3. CASE CloseFds
  <2>1. at' = "runner" /\ at = "detached" /\ FreeFrom(3)
        /\ fds' = [x \in Fd |-> IF x > 0 THEN "free" ELSE fds[x]]
    BY <1>0, <1>3 DEF CloseFds, Go
  <2>2. FreeFrom(1)' /\ fds'[2] # "database"
    <3>1. fds[0] # "free" /\ fds'[0] = fds[0]
      BY <1>0, <2>1, FdRange DEF FreeFrom, Free
    <3>2. \A x \in Fd : fds'[x] = "free" <=> x \in 1..LastFd
      BY <2>1, <3>1, FdRange DEF Fd
    <3>3. 1..LastFd \subseteq Fd
      BY <1>0 DEF Fd
    <3> QED
      BY <2>1, <3>2, <3>3, FdRange DEF FreeFrom, Free
  <2> QED
    BY <2>1, <2>2
<1>4. CASE Foreground \/ Fork
  BY <1>0, <1>4 DEF Foreground, Fork, Go, FreeFrom, Free
<1>5. CASE SnmpInitialize
  <2>1. at = "runner" /\ at' = "queue" /\ (fds' = Opened(1, "agent") \/ fds' = fds)
    BY <1>5 DEF SnmpInitialize, Go
  <2>2. PICK a \in {1, 3} : FreeFrom(a)
    BY <1>0, <2>1
  <2>3. CASE fds' = fds
    BY <1>0, <2>1, <2>2, <2>3 DEF FreeFrom, Free
  <2>4. CASE fds' = Opened(1, "agent")
    <3>1. FreeFrom(a + 1)' /\ a + 1 \in 1..4
      BY <1>0, <2>2, <2>4, OpenedFrom
    <3>2. fds'[2] # "database"
      BY <1>0, <2>4, FdRange DEF Opened
    <3> QED
      BY <2>1, <3>1, <3>2
  <2> QED
    BY <2>1, <2>3, <2>4
<1>6. CASE NnSocket
  <2>1. at = "socket" /\ at' = "bound" /\ fds' = Opened(SocketFds, "socket")
    BY <1>6 DEF NnSocket, Go
  <2>2. PICK a \in 1..4 : FreeFrom(a)
    BY <1>0, <2>1
  <2>3. FreeFrom(a + SocketFds)' /\ a + SocketFds \in 3..(4 + SocketFds)
    BY <1>0, <2>1, <2>2, OpenedFrom
  <2>4. fds'[2] # "database"
    BY <1>0, <2>1, FdRange DEF Opened
  <2> QED
    BY <2>1, <2>3, <2>4
<1>7. CASE OpenDb
  <2>1. at = "option" /\ at' \in {"loop", "returned"} /\ (fds' = Opened(2, "database") \/ fds' = fds)
    BY <1>7 DEF OpenDb, Go
  <2>2. PICK a \in 3..(4 + SocketFds) : FreeFrom(a)
    BY <1>0, <2>1
  <2>3. fds'[2] # "database"
    BY <1>0, <2>1, <2>2, OpenedFrom, FdRange
  <2> QED
    BY <2>1, <2>3
<1>8. CASE CloseDb \/ NnClose \/ SnmpDone
  BY <1>0, <1>8, FdRange DEF CloseDb, NnClose, SnmpDone, Go, Closed
<1>9. ASSUME fds' = fds, at' # at => at' \notin {"main", "session", "detached", "runner", "queue"},
             at' = "option" => at \in {"bound", "option"}, at' = "socket" => at \in {"queue", "socket"},
             at' = "bound" => at = "bound"
      PROVE  LogDescriptor'
  <2>1. Free' = Free
    BY <1>9 DEF Free
  <2> QED
    BY <1>0, <1>9, <2>1 DEF FreeFrom
<1>10. CASE ResetStop \/ NnBind \/ While \/ Timeout \/ PutLog \/ PutLogShort \/ PutLastmac
            \/ PutLastssisignal \/ Receive \/ ReceiveShort \/ RecvInterrupted
  BY <1>9, <1>10 DEF ResetStop, NnBind, While, Timeout, PutLog, PutLogShort, PutLastmac,
     PutLastssisignal, Receive, ReceiveShort, RecvInterrupted, Go
<1>11. CASE AgentChecks \/ AgentAnswers \/ AgentWakes \/ NoAnswerComes \/ MonitorPrints \/ AgentEnds
            \/ Sigint \/ HandlerStops \/ HandlerHangs \/ UNCHANGED vars
  BY <1>9, <1>11 DEF AgentChecks, AgentAnswers, AgentWakes, NoAnswerComes, MonitorPrints, AgentEnds, Sigint, HandlerStops,
     HandlerHangs, vars
<1> QED
  BY <1>1, <1>2, <1>3, <1>4, <1>5, <1>6, <1>7, <1>8, <1>10, <1>11
     DEF Next, MainStep, LockStep, HandlerStep, ForkFails, Done, HandlerExits, Killed

\* The counters get the signal only after putLog converted the packet.
LEMMA CountedStep == IInv /\ [Next]_vars => Counted' /\ AnswersAreSent'
<1> SUFFICES ASSUME IInv, [Next]_vars PROVE Counted' /\ AnswersAreSent'
  OBVIOUS
<1>0. TypeOK /\ Counted /\ AnswersAreSent
  BY DEF IInv
<1>1. ASSUME Over PROVE Counted' /\ AnswersAreSent'
  BY <1>1, OverInv DEF IInv
<1>2. ASSUME e' = e, counter' = counter, monitor' = monitor,
             at' \in {"put", "mac", "signal"} => at' = at
      PROVE  Counted' /\ AnswersAreSent'
  BY <1>0, <1>2 DEF Counted, AnswersAreSent
<1>3. CASE Main \/ Foreground \/ Fork \/ CloseFds \/ ResetStop \/ NnSocket \/ NnBind \/ OpenDb
           \/ While \/ Timeout \/ RecvInterrupted
  BY <1>2, <1>3 DEF Main, Foreground, Fork, CloseFds, ResetStop, NnSocket, NnBind, OpenDb, While,
     Timeout, RecvInterrupted, Go
<1>4. CASE CloseDb \/ NnClose \/ SnmpDone \/ AgentChecks \/ AgentWakes \/ AgentEnds \/ Sigint
           \/ HandlerStops \/ HandlerHangs \/ UNCHANGED vars
  BY <1>2, <1>4 DEF CloseDb, NnClose, SnmpDone, AgentChecks, AgentWakes, AgentEnds, Sigint, HandlerStops, HandlerHangs, vars, Go
<1>5. CASE SnmpInitialize
  BY <1>0, <1>5 DEF SnmpInitialize, Go, NoCounter, Counted, AnswersAreSent
<1>6. CASE Receive
  <2>1. PICK m \in Macs, v \in Signal, from \in Host :
           e' = [sa |-> m, ssi_signal |-> Number(CollectorHost, Sent(from, v)), whole |-> TRUE]
    BY <1>6 DEF Receive
  <2>2. NtohLogEntry(CollectorHost, e'.ssi_signal) \in Signal
    BY <2>1, PacketWords
  <2> QED
    BY <1>0, <1>6, <2>2 DEF Receive, Go, Counted, AnswersAreSent
<1>7. CASE PutLog
  <2>1. e.whole /\ at = "put" /\ at' = "mac" /\ UNCHANGED <<counter, monitor>>
        /\ e' = [e EXCEPT !.ssi_signal = NtohLogEntry(CollectorHost, @)]
    BY <1>7 DEF PutLog, Go
  <2>2. e'.ssi_signal = NtohLogEntry(CollectorHost, e.ssi_signal)
    BY <1>0, <2>1 DEF TypeOK
  <2> QED
    BY <1>0, <2>1, <2>2 DEF Counted, AnswersAreSent
<1>8. CASE PutLastmac \/ PutLastssisignal
  BY <1>0, <1>8 DEF PutLastmac, PutLastssisignal, Go, Counted, AnswersAreSent, TypeOK
<1>9. CASE AgentAnswers \/ NoAnswerComes \/ MonitorPrints
  <2>1. Counted'
    BY <1>0, <1>9 DEF AgentAnswers, NoAnswerComes, MonitorPrints, Counted
  <2>2. NextObject = "lastssisignal" => Handled(NextObject) = {counter.lastssisignal}
    BY DEF Handled
  <2>3. AnswersAreSent'
    BY <1>0, <1>9, <2>2 DEF AgentAnswers, NoAnswerComes, MonitorPrints, Shows, NoAnswer, Counted,
       AnswersAreSent
  <2> QED
    BY <2>1, <2>3
<1>10. CASE ReceiveShort \/ PutLogShort
  <2>1. ~e'.whole /\ UNCHANGED <<counter, monitor>>
    BY <1>10 DEF ReceiveShort, PutLogShort
  <2> QED
    BY <1>0, <2>1 DEF Counted, AnswersAreSent
<1> QED
  BY <1>1, <1>3, <1>4, <1>5, <1>6, <1>7, <1>8, <1>9, <1>10
     DEF Next, MainStep, LockStep, HandlerStep, ForkFails, Done, HandlerExits, Killed
-----------------------------------------------------------------------------
(* The theorems. *)

\* In every behaviour of the process, its agent and its signals the invariant holds.
THEOREM InvariantHolds == Spec => []IInv
<1>1. Init => IInv
  BY InitInv
<1>2. IInv /\ [Next]_vars => IInv'
  BY TypeStep, HandlerStepLives, LogDescriptorStep, CountedStep DEF IInv
<1> QED
  BY <1>1, <1>2, PTL DEF Spec

\* The variables keep their types: a packet, converted or not, is made of words.
THEOREM TypeCorrect == Spec => []TypeOK
<1>1. IInv => TypeOK
  BY DEF IInv
<1> QED
  BY <1>1, InvariantHolds, PTL

\* The daemon closed descriptor 2 and goes on logging to it (daemonize.cpp 228-231, log.h):
\* however many descriptors nn_socket takes, with an agent or without one, it never is the
\* database that is opened under that number.
THEOREM DatabaseIsNotTheLog == Spec => []LogNotInDatabase
<1>1. IInv => LogNotInDatabase
  BY DEF IInv, LogDescriptor, LogNotInDatabase
<1> QED
  BY <1>1, InvariantHolds, PTL

\* What wacs-snmp shows of a whole packet is the signal that some host sent (lmdbwriter.cpp
\* 133-144), for all byte orders of the two hosts, wherever the two threads are and whatever
\* short packets come in between. Of a short one it may show anything: LastSignalIsSent, which
\* leaves the history out, is broken by the code.
THEOREM SignalsAreSent == Spec => []AnswersAreSent
<1>1. IInv => AnswersAreSent
  BY DEF IInv
<1> QED
  BY <1>1, InvariantHolds, PTL
=============================================================================
