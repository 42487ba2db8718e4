------------------------------ MODULE MCShutdown ------------------------------
(***************************************************************************)
(* Shutdown for TLC.  The constants are numbers, set in the configuration. *)
(***************************************************************************)
EXTENDS Shutdown

=============================================================================
