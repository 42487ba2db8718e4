----------------------------- MODULE MCTlsServer -----------------------------
(***************************************************************************)
(* TlsServer for TLC.  All constants are numbers and names, set in the     *)
(* configurations.                                                         *)
(***************************************************************************)
EXTENDS TlsServer

=============================================================================
