---------------------------- MODULE ShutdownProofs ----------------------------
(***************************************************************************)
(* What Shutdown promises for any number of threads and of signals: types, *)
(* the order in which the program and its threads end, and no use of a     *)
(* destroyed server after one SIGINT that met the central loop waiting.    *)
(***************************************************************************)
EXTENDS Shutdown, TLAPS

\* TypeOK is not inductive: an eventfd counts at most the signals so far, and a server
\* that is about to be started is in the vector already.
TInv ==
  /\ TypeOK
  /\ \A t \in Threads : kill_efd[t] <= signals
  /\ \A t \in Threads : stage[t] = "registered" => t \in servers

\* The threads that were joined have ended; whoever waits begins with the first.
JoinedEnded ==
  /\ pc \in {"waiting", "handling"} => next = 1
  /\ pc = "joining" => \A t \in Threads : t < next => stage[t] = "ended"

\* One signal, received by the wait, leaves the central thread no way to post again; and
\* before the first signal no server goes.
OneSignal ==
  (signals <= 1 /\ ~missed) =>
    /\ ~stray
    /\ signals = 0 => \A t \in Threads : kill_efd[t] = 0 /\ ~Gone(t)
    /\ signals = 1 => interrupted /\ pc \in {"waiting", "joining", "ended"}

\* Membership in 1 .. NumThreads, for the steps that move on to the next thread.
LEMMA NextThread ==
  ASSUME next \in Threads
  PROVE  /\ next \in Int /\ 1 <= next /\ 1 \in Threads
         /\ next < NumThreads => next + 1 \in Threads
         /\ ~(next < NumThreads) => \A t \in Threads : t <= next
         /\ \A t \in Threads : t < next + 1 => (t < next \/ t = next)
  BY ShutdownAssumption DEF Threads

LEMMA TInvInit == Init => TInv
<1> SUFFICES ASSUME Init PROVE TInv
  OBVIOUS
<1>1. 1 \in Threads /\ 0 \in 0 .. MaxSignals
  BY ShutdownAssumption DEF Threads
<1>2. TypeOK
  BY <1>1 DEF Init, TypeOK
<1>3. \A t \in Threads : kill_efd[t] <= signals /\ stage[t] # "registered"
  BY DEF Init
<1> QED
  BY <1>2, <1>3 DEF TInv

LEMMA TInvStep == TInv /\ [Next]_vars => TInv'
<1> SUFFICES ASSUME TInv, [Next]_vars PROVE TInv'
  OBVIOUS
<1> USE DEF TInv, TypeOK
<1> HIDE DEF Threads
<1>0. next \in Threads
  OBVIOUS
<1>1. CASE StartThread
  BY <1>1, NextThread DEF StartThread, signalVars
<1>2. CASE Wake
  BY <1>2 DEF Wake, signalVars
<1>3. CASE Handled
  BY <1>3 DEF Handled, signalVars
<1>4. CASE Post
  BY <1>4, NextThread DEF Post, signalVars
<1>5. CASE WaitFails
  BY <1>5 DEF WaitFails, signalVars
<1>6. CASE Join
  BY <1>6, NextThread DEF Join, signalVars
<1>7. CASE Sigint
  BY <1>7, ShutdownAssumption DEF Sigint, kill_server, kill_all_servers
<1>8. ASSUME NEW t \in Threads, ThreadStep(t) PROVE TInv'
  BY <1>8 DEF ThreadStep, Register, set_tcp_server, Kill, Leave, mainVars, signalVars
<1>9. CASE UNCHANGED vars
  BY <1>9 DEF vars
<1> QED
  BY <1>1, <1>2, <1>3, <1>4, <1>5, <1>6, <1>7, <1>8, <1>9 DEF Next, MainStep

\* Start-up, the loop, signals and shutdown keep their types: counters of the kill eventfds
\* stay within the number of signals, and a server is started only after it is in the list.
THEOREM ShutdownTypeCorrect == Spec => []TypeOK
<1>1. TInv => TypeOK
  BY DEF TInv
<1> QED
  BY TInvInit, TInvStep, <1>1, PTL DEF Spec

LEMMA JoinedInit == Init => JoinedEnded /\ EndsAfterThreads
  BY DEF Init, JoinedEnded, EndsAfterThreads

LEMMA JoinedStep ==
  TInv /\ JoinedEnded /\ EndsAfterThreads /\ [Next]_vars => (JoinedEnded /\ EndsAfterThreads)'
<1> SUFFICES ASSUME TInv, JoinedEnded, EndsAfterThreads, [Next]_vars
             PROVE  (JoinedEnded /\ EndsAfterThreads)'
  OBVIOUS
<1> USE DEF TInv, TypeOK, JoinedEnded, EndsAfterThreads
<1> HIDE DEF Threads
<1>0. next \in Threads
  OBVIOUS
<1>1. CASE StartThread
  BY <1>1 DEF StartThread
<1>2. CASE Wake
  BY <1>2 DEF Wake
<1>3. CASE Handled
  BY <1>3 DEF Handled
<1>4. CASE Post
  BY <1>4 DEF Post
<1>5. CASE WaitFails
  <2>1. next = 1 /\ next' = next /\ pc' = "joining"
    BY <1>5 DEF WaitFails
  <2>2. \A t \in Threads : ~(t < next)
    BY <2>1 DEF Threads
  <2> QED
    BY <2>1, <2>2
<1>6. CASE Join
  <2>1. stage[next] = "ended" /\ stage' = stage /\ pc = "joining"
    BY <1>6 DEF Join
  <2>2. \A t \in Threads : t <= next => stage[t] = "ended"
    BY <2>1, NextThread, <1>0 DEF Threads
  <2>3. CASE next < NumThreads
    BY <1>6, <2>1, <2>2, <2>3, NextThread, <1>0 DEF Join
  <2>4. CASE ~(next < NumThreads)
    BY <1>6, <2>1, <2>2, <2>4, NextThread, <1>0 DEF Join
  <2> QED
    BY <2>3, <2>4
<1>7. CASE Sigint
  BY <1>7 DEF Sigint
<1>8. ASSUME NEW t \in Threads, ThreadStep(t) PROVE (JoinedEnded /\ EndsAfterThreads)'
  <2>1. pc' = pc /\ next' = next
    BY <1>8 DEF ThreadStep, Register, set_tcp_server, Kill, Leave, mainVars
  <2>2. \A u \in Threads : stage[u] = "ended" => stage'[u] = "ended"
    BY <1>8 DEF ThreadStep, Register, set_tcp_server, Kill, Leave
  <2> QED
    BY <2>1, <2>2
<1>9. CASE UNCHANGED vars
  BY <1>9 DEF vars
<1> QED
  BY <1>1, <1>2, <1>3, <1>4, <1>5, <1>6, <1>7, <1>8, <1>9 DEF Next, MainStep

\* run() returns, and destroys the web servers, only when every thread has ended: a thread
\* that was joined stays ended, and no thread is passed over.
THEOREM ThreadsEndFirst == Spec => []EndsAfterThreads
  BY TInvInit, TInvStep, JoinedInit, JoinedStep, PTL DEF Spec

LEMMA OneSignalInit == Init => OneSignal
  BY DEF Init, OneSignal, Gone

LEMMA OneSignalStep == TInv /\ OneSignal /\ [Next]_vars => OneSignal'
<1> SUFFICES ASSUME TInv, OneSignal, [Next]_vars, (signals <= 1 /\ ~missed)'
             PROVE  /\ ~stray'
                    /\ signals' = 0 => \A t \in Threads : kill_efd'[t] = 0 /\ ~Gone(t)'
                    /\ signals' = 1 => interrupted' /\ pc' \in {"waiting", "joining", "ended"}
  BY DEF OneSignal
<1> USE DEF TInv, TypeOK, OneSignal, Gone
<1> HIDE DEF Threads
<1>0. next \in Threads
  OBVIOUS
<1>1. CASE StartThread
  BY <1>1 DEF StartThread, signalVars
<1>2. CASE Wake
  BY <1>2 DEF Wake, signalVars
<1>3. CASE Handled
  BY <1>3 DEF Handled, signalVars
<1>4. CASE Post
  BY <1>4, <1>0 DEF Post, signalVars
<1>5. CASE WaitFails
  BY <1>5 DEF WaitFails, signalVars
<1>6. CASE Join
  BY <1>6 DEF Join, signalVars
<1>7. CASE Sigint
  <2>1. signals = 0 /\ signals' = 1
    <3>1. signals \in Nat /\ signals' = signals + 1 /\ signals' <= 1
      BY <1>7 DEF Sigint
    <3> QED
      BY <3>1
  <2>2. ~missed /\ pc = "waiting"
    <3>1. missed' = (missed \/ pc # "waiting") /\ ~missed'
      BY <1>7, Zenon DEF Sigint
    <3> QED
      BY <3>1, Zenon
  <2>3. \A t \in servers : ~Gone(t)
    BY <2>1, <2>2
  <2>4. ~stray'
    <3>1. stray' = \E t \in servers : Gone(t)
      BY <1>7, Zenon DEF Sigint, kill_server
    <3> QED
      BY <2>3, <3>1, Zenon
  <2>5. interrupted'
    <3>1. interrupted' = (interrupted \/ pc = "waiting")
      BY <1>7, Zenon DEF Sigint
    <3> QED
      BY <2>2, <3>1, Zenon
  <2>6. pc' = "waiting"
    BY <1>7, <2>2 DEF Sigint
  <2> QED
    BY <2>1, <2>4, <2>5, <2>6
<1>8. ASSUME NEW t \in Threads, ThreadStep(t)
      PROVE  /\ ~stray'
             /\ signals' = 0 => \A u \in Threads : kill_efd'[u] = 0 /\ ~Gone(u)'
             /\ signals' = 1 => interrupted' /\ pc' \in {"waiting", "joining", "ended"}
  BY <1>8 DEF ThreadStep, Register, set_tcp_server, Kill, Leave, mainVars, signalVars
<1>9. CASE UNCHANGED vars
  BY <1>9 DEF vars
<1> QED
  BY <1>1, <1>2, <1>3, <1>4, <1>5, <1>6, <1>7, <1>8, <1>9 DEF Next, MainStep

\* After one SIGINT that interrupted the wait of the central loop no message is posted to,
\* and no signal sent to, a server that has gone, though nothing ever clears the pointers.
THEOREM OneSignalSafe == Spec => []NoStrayPost
<1>1. OneSignal => NoStrayPost
  BY DEF OneSignal, NoStrayPost
<1> QED
  BY TInvInit, TInvStep, OneSignalInit, OneSignalStep, <1>1, PTL DEF Spec

=============================================================================
