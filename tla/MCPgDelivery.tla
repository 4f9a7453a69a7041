---------------------------- MODULE MCPgDelivery ----------------------------
(***************************************************************************)
(* PgDelivery with senders on hosts of both byte orders, and numbers that  *)
(* are not the same backwards.                                             *)
(***************************************************************************)
EXTENDS PgDelivery

MCHostOf == [s \in Senders |-> IF s \in Hostapd THEN "big" ELSE "little"]
MCValue  == {1}
=============================================================================
