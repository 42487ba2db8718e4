----------------------------- MODULE MCBroadcast -----------------------------
(* Broadcast on small instances; the values of the constants are in the cfgs. *)
EXTENDS Broadcast
=============================================================================
