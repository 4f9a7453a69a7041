------------------------------ MODULE Courier ------------------------------
(***************************************************************************)
(* What senders and a collector promise together, with nothing of sockets, *)
(* pipes or transactions: packets may get lost on their way, but of those  *)
(* that were sent over one channel the ones that are stored are stored     *)
(* once, in the order they were sent, with the numbers they were sent      *)
(* with; and the lines of a file are stored together or not at all.  Two   *)
(* channels, of one sender too, know nothing of each other.                *)
(***************************************************************************)
EXTENDS Integers, Sequences

CONSTANTS Channels, Loaders, Value

VARIABLES
    sent,       \* what was sent over each channel
    rows        \* what is stored: who it is from, its number and its value
vars == <<sent, rows>>

Init ==
    /\ sent = [k \in Channels |-> <<>>]
    /\ rows = <<>>

NumbersOf(k) == {rows[i].n : i \in {j \in 1..Len(rows) : rows[j].from = k}}

Send(k, v) == sent' = [sent EXCEPT ![k] = Append(@, v)] /\ UNCHANGED rows

\* A packet that is newer than all of its channel's that are stored.
Deliver(k, n) ==
    /\ \A m \in NumbersOf(k) : m < n
    /\ rows' = Append(rows, [from |-> k, n |-> n, dev |-> sent[k][n]])
    /\ UNCHANGED sent

\* The lines of a file, none of which is stored yet.
Load(l, values) ==
    /\ NumbersOf(l) = {}
    /\ rows' = rows \o [i \in DOMAIN values |-> [from |-> l, n |-> i, dev |-> values[i]]]
    /\ UNCHANGED sent

Next ==
    \/ \E k \in Channels, v \in Value : Send(k, v)
    \/ \E k \in Channels : \E n \in DOMAIN sent[k] : Deliver(k, n)
    \/ \E l \in Loaders : \E c \in 1..(Len(rows') - Len(rows)) :
          \E values \in [1..c -> Value] : Load(l, values)

Spec == Init /\ [][Next]_vars
=============================================================================
