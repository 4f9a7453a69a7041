----------------------------- MODULE MCLogQuery -----------------------------
(***************************************************************************)
(* LogQuery on small instances.  A MAC has two bytes, so that a prefix can  *)
(* be empty, a part or the whole of it.  The two texts are one whose first *)
(* bytes read as a time a query can have, and one too short to be read.    *)
(***************************************************************************)
EXTENDS LogQuery

MCBytes == {0, 1}
MCPads  == {0, 1}
MCJunk  == {0, 1}
MCTextTime == [t \in Text |-> IF t = "object" THEN 2 ELSE -1]
=============================================================================
