------------------------------ MODULE MCDblog ------------------------------
(***************************************************************************)
(* Dblog on small instances: see the .cfg files for what each one asks.    *)
(***************************************************************************)
EXTENDS Dblog

MCBytes == {0, 1}
MCPads  == {0}
MCZero == {0}
=============================================================================
