--------------------------- MODULE LogEntryProofs ---------------------------
(***************************************************************************)
(* Numbers of a packet survive the way between any two hosts, whatever the *)
(* number of values of a byte.                                             *)
(***************************************************************************)
EXTENDS LogEntry, TLAPS

\* Division by Base: a number is its two bytes, and they are the only two.
LEMMA Division ==
    ASSUME NEW v \in Nat
    PROVE  /\ v % Base \in Byte
           /\ v \div Base \in Nat
           /\ v = (v \div Base) * Base + (v % Base)
  BY BaseConstant DEF Byte

\* The number above the low byte is a byte.
LEMMA HighByte ==
    ASSUME NEW v \in Word PROVE v \div Base \in Byte
<1> DEFINE q == v \div Base
<1>1. v \in Nat /\ q \in Nat /\ v = q * Base + (v % Base) /\ v % Base >= 0
  BY Division, BaseConstant DEF Word, Byte
<1>2. v < Base * Base
  BY BaseConstant DEF Word
<1> HIDE DEF q
<1>3. q * Base < Base * Base
  BY <1>1, <1>2, BaseConstant
<1>4. q < Base
  <2>1. CASE q >= Base
    <3>1. q * Base >= Base * Base
      BY <2>1, <1>1, BaseConstant
    <3> QED
      BY <3>1, <1>3, <1>1, BaseConstant
  <2> QED
    BY <2>1, <1>1, BaseConstant
<1> QED
  BY <1>1, <1>4, BaseConstant DEF Byte, q

\* A number of two bytes has these two bytes.
LEMMA BytesOfNumber ==
    ASSUME NEW h \in Byte, NEW l \in Byte
    PROVE  /\ h * Base + l \in Word
           /\ (h * Base + l) \div Base = h
           /\ (h * Base + l) % Base = l
<1>1. h \in Nat /\ l \in Nat /\ h <= Base - 1 /\ l <= Base - 1 /\ Base \in Nat /\ Base > 0
  BY BaseConstant DEF Byte
<1>2. h * Base + l \in Nat
  BY <1>1
<1>3. h * Base <= (Base - 1) * Base
  BY <1>1
<1>4. h * Base + l \in Word
  BY <1>1, <1>2, <1>3 DEF Word
<1>5. (h * Base + l) % Base = l
  BY <1>1, <1>2
<1>6. (h * Base + l) \div Base = h
  BY <1>1, <1>2
<1> QED
  BY <1>4, <1>5, <1>6

\* The two bytes of a number, the other way round, are its number in the other order.
LEMMA SwappedBytes ==
    ASSUME NEW v \in Word
    PROVE  /\ v % Base \in Byte /\ v \div Base \in Byte
           /\ Swapped(v) \in Word
           /\ Swapped(v) % Base = v \div Base
           /\ Swapped(v) \div Base = v % Base
           /\ v = (v \div Base) * Base + (v % Base)
<1>1. v \in Nat
  BY BaseConstant DEF Word
<1> QED
  BY <1>1, Division, HighByte, BytesOfNumber DEF Swapped

\* What a sender puts into a message is the number's high byte and its low byte.
LEMMA NetworkOrder ==
    ASSUME NEW v \in Word, NEW h \in Host
    PROVE  Sent(h, v) = <<v \div Base, v % Base>>
  BY SwappedBytes DEF Sent, Bytes, Htons, Host

\* ntohLogEntry gives back what htons was given (hostapd-log-entry.cpp 37-50, send-log-entry.cpp
\* 60-71), whatever the byte orders of the two hosts are.
THEOREM NumbersSurvive ==
    ASSUME NEW v \in Word, NEW from \in Host, NEW to \in Host
    PROVE  Received(to, Sent(from, v)) = v
<1> DEFINE hi == v \div Base
           lo == v % Base
<1>1. Sent(from, v) = <<hi, lo>>
  BY NetworkOrder
<1>2. hi \in Byte /\ lo \in Byte /\ v = hi * Base + lo /\ Swapped(v) = lo * Base + hi
  BY SwappedBytes DEF Swapped
<1>3. Swapped(Swapped(v)) = v
  BY SwappedBytes DEF Swapped
<1>4. CASE to = "little"
  <2>1. Number(to, <<hi, lo>>) = Swapped(v)
    BY <1>2, <1>4 DEF Number
  <2> QED
    BY <1>1, <1>3, <1>4, <2>1 DEF Received, NtohLogEntry
<1>5. CASE to = "big"
  <2>1. Number(to, <<hi, lo>>) = v
    BY <1>2, <1>5 DEF Number
  <2> QED
    BY <1>1, <1>5, <2>1 DEF Received, NtohLogEntry
<1> QED
  BY <1>4, <1>5 DEF Host
=============================================================================
