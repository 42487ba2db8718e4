------------------------------ MODULE LRUCache ------------------------------
(***************************************************************************)
(* What a least-recently-used cache with locked entries promises: entries  *)
(* are kept in the order of their last use, a use moves an entry to the    *)
(* end, a full cache gives up its first entry and only if nobody uses it.  *)
(***************************************************************************)
EXTENDS Integers, Sequences, SequencesExt

CONSTANTS N, Files, Clients

VARIABLE order   \* entries, least recently used first

Entry(f, us) == [file |-> f, users |-> us]

Init == order = <<>>

\* c uses entry k, which becomes the most recent one.
Hit(k, c) ==
  order' = Append(RemoveAt(order, k), Entry(order[k].file, order[k].users \cup {c}))

\* c inserts file f and uses it; the least recently used entry makes room.
Insert(f, c) ==
  \/ Len(order) < N /\ order' = Append(order, Entry(f, {c}))
  \/ /\ Len(order) = N
     /\ Head(order).users = {}
     /\ order' = Append(Tail(order), Entry(f, {c}))

\* c is done with the entry it used.
Release(c) ==
  order' = [k \in DOMAIN order |-> Entry(order[k].file, order[k].users \ {c})]

Next == \E c \in Clients :
          \/ \E k \in DOMAIN order : Hit(k, c)
          \/ \E f \in Files : Insert(f, c)
          \/ Release(c)

Spec == Init /\ [][Next]_order

=============================================================================
