------------------------------ MODULE MCClient ------------------------------
(***************************************************************************)
(* Client on small instances: a MAC of one byte, which is a whole MAC; the *)
(* texts that name none, the empty one (size -1) and another (size 0),     *)
(* are the other two arguments.                                            *)
(***************************************************************************)
EXTENDS Client

MCZero     == {0}
MCBytes    == {0, 1}
MCText     == {"{}"}
MCTextTime == [t \in Text |-> -1]

Whole == [sa |-> <<1>>, size |-> 1]
Zero  == [sa |-> <<0>>, size |-> 1]
Empty == [sa |-> <<>>, size |-> -1]
Other == [sa |-> <<>>, size |-> 0]

Line(cmd, mac, offset, count, text) ==
    [cmd |-> cmd, mac |-> mac, start |-> 0, finish |-> 1, offset |-> offset, count |-> count,
     text |-> text, lines |-> <<[mac |-> <<1>>, pad |-> 0, dt |-> 2],
                                [mac |-> <<1>>, pad |-> 0, dt |-> 1]>>]

MCRequests ==
    {Line("log", <<Whole, Other>>, 1, 1, ""),
     Line("log", <<Empty, Whole>>, 0, -1, ""),
     Line("probe", <<Whole, Empty>>, 1, -1, ""),
     Line("log-count", <<Zero, Whole>>, 0, -1, ""),
     Line("probe-count", <<Empty>>, 0, -1, ""),
     Line("macs-per-time", <<Other>>, 0, -1, ""),
     Line("remove", <<Whole, Other>>, 0, -1, ""),
     Line("log-read", <<Empty>>, 0, -1, ""),
     Line("notification", <<Empty>>, 0, -1, ""),
     Line("notification-put", <<Whole, Other, Whole>>, 0, -1, "{}"),
     Line("notification-put", <<Other, Whole>>, 0, -1, "{}"),
     Line("notification-rm", <<Whole, Other, Empty>>, 0, -1, "")}
=============================================================================
