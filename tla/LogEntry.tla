------------------------------ MODULE LogEntry ------------------------------
(***************************************************************************)
(* The 16-bit numbers of a LogEntry (hostapd-log-entry.h 20-25) on their   *)
(* way from a sender to a collector: pure definitions, no state.           *)
(*                                                                         *)
(* A message is the bytes of the structure in the memory of the sender.    *)
(* Which number two bytes are depends on the byte order of the host that   *)
(* reads them, so both hosts convert: the sender always (htons), the       *)
(* collector when it was compiled for a little-endian host.                *)
(***************************************************************************)
EXTENDS Integers, Sequences

CONSTANT Base       \* the values of a byte: 256 in the program

ASSUME BaseConstant == Base \in Nat \ {0}

Host == {"little", "big"}
Byte == 0..(Base - 1)
Word == 0..(Base * Base - 1)

\* The bytes of a number in the memory of a host, and the number of two bytes.
Bytes(host, v)   == IF host = "little" THEN <<v % Base, v \div Base>>
                                       ELSE <<v \div Base, v % Base>>
Number(host, bs) == IF host = "little" THEN bs[2] * Base + bs[1]
                                       ELSE bs[1] * Base + bs[2]

Swapped(v) == (v % Base) * Base + v \div Base

\* htons and ntohs: nothing to do where the host is big-endian.
Htons(host, v) == IF host = "little" THEN Swapped(v) ELSE v

\* Mutant of NtohLogEntry: the high byte is shifted and not cut off.
NtohLogEntryWide(host, v) == IF host = "little" THEN v * Base + v \div Base ELSE v

\* ntohLogEntry, whose body is compiled for little-endian hosts only.
NtohLogEntry(host, v) == IF host = "little" THEN Swapped(v) ELSE v

\* What sendLogEntrySocket puts into the message, and what putLog takes out of it.
Sent(host, v)      == Bytes(host, Htons(host, v))
Received(host, bs) == NtohLogEntry(host, Number(host, bs))
=============================================================================
