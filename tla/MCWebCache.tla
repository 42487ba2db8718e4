----------------------------- MODULE MCWebCache -----------------------------
(***************************************************************************)
(* WebCache for TLC: files and clients are model values, and both are      *)
(* interchangeable.                                                        *)
(***************************************************************************)
EXTENDS WebCache, TLC

Symmetry == Permutations(Files) \cup Permutations(Clients)

=============================================================================
