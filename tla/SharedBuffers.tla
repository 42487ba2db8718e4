---------------------------- MODULE SharedBuffers ----------------------------
(***************************************************************************)
(* What the data store and the queues promise together: a buffer is shared *)
(* with all threads at once; a thread is either told of it or passed over, *)
(* once; a thread that was told is out of it only by giving back exactly   *)
(* one use; and the buffer is released with the last use.                  *)
(***************************************************************************)
EXTENDS Integers

CONSTANTS Threads, NumThreads, Items   \* NumThreads: how many threads there are

VARIABLES
  left,    \* uses left of each buffer, -1 when it is free
  users,   \* the threads that may read, or have yet to give back, each buffer
  untold   \* those of them that the buffer was not posted to yet

vars == <<left, users, untold>>

Init ==
  /\ left = [i \in Items |-> -1]
  /\ users = [i \in Items |-> {}]
  /\ untold = [i \in Items |-> {}]

\* A free buffer that nobody has is filled and shared.
Share(i) ==
  /\ left[i] = -1 /\ users[i] = {}
  /\ left' = [left EXCEPT ![i] = NumThreads]
  /\ users' = [users EXCEPT ![i] = Threads]
  /\ untold' = [untold EXCEPT ![i] = Threads]

\* The buffer is posted to thread t: from here on t owes a use.
Tell(i, t) ==
  /\ t \in untold[i]
  /\ untold' = [untold EXCEPT ![i] = @ \ {t}]
  /\ UNCHANGED <<left, users>>

\* Thread t, which has no server yet, is passed over: it never gets the buffer, and
\* its use stays.
Miss(i, t) ==
  /\ t \in untold[i]
  /\ untold' = [untold EXCEPT ![i] = @ \ {t}]
  /\ users' = [users EXCEPT ![i] = @ \ {t}]
  /\ left' = left

\* Thread t gives back its use; the buffer is released with the last one.
Finish(i, t) ==
  /\ t \in users[i] \ untold[i] /\ left[i] > 0
  /\ users' = [users EXCEPT ![i] = @ \ {t}]
  /\ left' = [left EXCEPT ![i] = IF @ = 1 THEN -1 ELSE @ - 1]
  /\ untold' = untold

Next == \E i \in Items : \/ Share(i)
                         \/ \E t \in Threads : Tell(i, t) \/ Miss(i, t) \/ Finish(i, t)

Spec == Init /\ [][Next]_vars

=============================================================================
