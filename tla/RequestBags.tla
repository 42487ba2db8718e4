----------------------------- MODULE RequestBags -----------------------------
(***************************************************************************)
(* Requests in flight: bags, as two of them may be equal.                  *)
(***************************************************************************)
EXTENDS Integers, Bags

\* One element for each request in a bag, also for requests that are equal.
Copies(B) == UNION {{r} \X (1 .. B[r]) : r \in BagToSet(B)}

=============================================================================
