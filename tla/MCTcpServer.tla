----------------------------- MODULE MCTcpServer -----------------------------
(***************************************************************************)
(* TcpServer for TLC.  All constants are numbers, set in the               *)
(* configuration.                                                          *)
(***************************************************************************)
EXTENDS TcpServer

=============================================================================
