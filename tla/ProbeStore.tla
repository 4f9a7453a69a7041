----------------------------- MODULE ProbeStore -----------------------------
(***************************************************************************)
(* What the database of wacs promises to whoever reads it, with nothing of *)
(* transactions, maps or processes: a log of probe requests and, for each  *)
(* MAC address, the time of the last one.  Every change of the store is    *)
(* one of two: some records are stored, all of them together with the last *)
(* probe of each MAC address they name; or some records of the log are     *)
(* removed.                                                                *)
(***************************************************************************)
EXTENDS LogKeys

VARIABLE db

Store == [log : SUBSET LogKey, probe : [Mac -> 0..MaxTime]]

\* No record; 0 stands for a MAC address that has no last probe.
EmptyStore == [log |-> {}, probe |-> [m \in Mac |-> 0]]

NamedBy(S) == {k.mac : k \in S}

Record(S) ==
    /\ db'.log = db.log \cup S
    /\ \A m \in Mac :
          IF m \in NamedBy(S) THEN \E k \in S : k.mac = m /\ db'.probe[m] = k.dt
                              ELSE db'.probe[m] = db.probe[m]

Remove(S) == db' = [db EXCEPT !.log = @ \ S]

Init == db = EmptyStore

Next == \/ db' \in Store /\ \E S \in SUBSET db'.log : S # {} /\ Record(S)
        \/ \E S \in SUBSET db.log : Remove(S)

Spec == Init /\ [][Next]_db
=============================================================================
