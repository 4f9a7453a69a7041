------------------------------ MODULE MCDaemon ------------------------------
(***************************************************************************)
(* Daemon with a signal that is another number when its bytes are swapped. *)
(***************************************************************************)
EXTENDS Daemon

MCSignal == {1}
MCMacs   == {1}
=============================================================================
