------------------------------- MODULE Shutdown -------------------------------
(***************************************************************************)
(* How the program starts its server threads, and how SIGINT ends it: the  *)
(* loop of central_web_server::run, the handler, which runs on the main    *)
(* thread wherever that happens to be, the static list of servers, and the *)
(* life of a server thread and of the tcp_server it owns.                  *)
(*                                                                         *)
(* kill_server also writes to event_fd, which nobody reads; kill_server_efd*)
(* is read, but never written to.  So the central loop ends only when      *)
(* io_uring_wait_cqe is interrupted.                                       *)
(***************************************************************************)
EXTENDS Integers, FiniteSets

CONSTANTS
  NumThreads,    \* SERVER_THREADS
  MaxSignals     \* bound: SIGINTs

ASSUME ShutdownAssumption == NumThreads \in Nat \ {0} /\ MaxSignals \in Nat

Threads == 1 .. NumThreads

VARIABLES
  pc,           \* main thread: "starting", "waiting" (blocked in io_uring_wait_cqe),
                \* "handling" (a report), "posting" (a broadcast), "joining", "ended"
  next,         \* the thread it starts, posts to or joins next
  interrupted,  \* its wait was interrupted by a signal
  stage,        \* threads: "unborn", "constructing", "registered", "running", "leaving"
                \* (start() has handled KILL), "ended" (its tcp_server is destroyed)
  servers,      \* the static vector of servers, of which nothing is ever removed
  tcp_server,   \* threads whose web server has the pointer, which is never reset
  kill_efd,     \* eventfd counters
  signals,      \* SIGINTs so far
  missed,       \* history: a SIGINT met the main thread outside of its wait
  heard,        \* history: a SIGINT met it waiting, with every thread registered
  stray         \* a server that is leaving or destroyed was used

vars == <<pc, next, interrupted, stage, servers, tcp_server, kill_efd, signals, missed, heard, stray>>
mainVars == <<pc, next, interrupted>>
signalVars == <<signals, missed, heard>>

Init ==
  /\ pc = "starting" /\ next = 1 /\ interrupted = FALSE
  /\ stage = [t \in Threads |-> "unborn"]
  /\ servers = {} /\ tcp_server = {}
  /\ kill_efd = [t \in Threads |-> 0]
  /\ signals = 0 /\ missed = FALSE /\ heard = FALSE /\ stray = FALSE

Gone(t) == stage[t] \in {"leaving", "ended"}

-----------------------------------------------------------------------------
(* The main thread.                                                        *)

\* thread_data_container.resize(): server_data starts a thread.
StartThread ==
  /\ pc = "starting"
  /\ stage' = [stage EXCEPT ![next] = "constructing"]
  /\ IF next < NumThreads THEN next' = next + 1 /\ UNCHANGED pc
     ELSE next' = 1 /\ pc' = "waiting"
  /\ UNCHANGED <<interrupted, servers, tcp_server, kill_efd, signalVars, stray>>

\* io_uring_wait_cqe returns a completion: the timer, or a report of a thread.
Wake ==
  /\ pc = "waiting" /\ ~interrupted
  /\ pc' \in {"posting", "handling"}
  /\ UNCHANGED <<next, interrupted, stage, servers, tcp_server, kill_efd, signalVars, stray>>

Handled ==
  /\ pc = "handling"
  /\ pc' = "waiting"
  /\ UNCHANGED <<next, interrupted, stage, servers, tcp_server, kill_efd, signalVars, stray>>

\* Mutation of Post: one round too many.
Post_past_end ==
  /\ pc = "posting"
  /\ IF next <= NumThreads THEN next' = next + 1 /\ UNCHANGED pc
     ELSE next' = 1 /\ pc' = "waiting"
  /\ UNCHANGED <<interrupted, stage, servers, tcp_server, kill_efd, signalVars, stray>>

\* post_message_to_server_thread, which writes to an eventfd of the thread's tcp_server.
Post ==
  /\ pc = "posting"
  /\ stray' = (next \in tcp_server /\ Gone(next))
  /\ IF next < NumThreads THEN next' = next + 1 /\ UNCHANGED pc
     ELSE next' = 1 /\ pc' = "waiting"
  /\ UNCHANGED <<interrupted, stage, servers, tcp_server, kill_efd, signalVars>>

\* Mutation of WaitFails: a wait that was interrupted is repeated.
WaitFails_retried ==
  /\ pc = "waiting" /\ interrupted
  /\ interrupted' = FALSE
  /\ UNCHANGED <<pc, next, stage, servers, tcp_server, kill_efd, signalVars, stray>>

\* The wait was interrupted: the loop is left.
WaitFails ==
  /\ pc = "waiting" /\ interrupted
  /\ pc' = "joining"
  /\ UNCHANGED <<next, interrupted, stage, servers, tcp_server, kill_efd, signalVars, stray>>

\* Mutation of Join: threads that have not registered are not waited for.
Join_registered ==
  /\ pc = "joining"
  /\ stage[next] = "ended" \/ next \notin servers
  /\ IF next < NumThreads THEN next' = next + 1 /\ UNCHANGED pc
     ELSE next' = 1 /\ pc' = "ended"
  /\ UNCHANGED <<interrupted, stage, servers, tcp_server, kill_efd, signalVars, stray>>

\* thread.join(); after the last one run() returns.
Join ==
  /\ pc = "joining"
  /\ stage[next] = "ended"
  /\ IF next < NumThreads THEN next' = next + 1 /\ UNCHANGED pc
     ELSE next' = 1 /\ pc' = "ended"
  /\ UNCHANGED <<interrupted, stage, servers, tcp_server, kill_efd, signalVars, stray>>

\* Mutation of kill_all_servers: servers that have not been started are left out.
kill_all_servers_started ==
  kill_efd' = [t \in Threads |-> IF t \in servers /\ stage[t] = "running" THEN kill_efd[t] + 1
                                 ELSE kill_efd[t]]

\* kill_all_servers: under the mutex of the vector, so that no server registers meanwhile.
kill_all_servers ==
  kill_efd' = [t \in Threads |-> IF t \in servers THEN kill_efd[t] + 1 ELSE kill_efd[t]]

\* kill_server: also of servers that have gone, which are still in the vector.
kill_server ==
  /\ kill_all_servers
  /\ stray' = \E t \in servers : Gone(t)

\* sigint_handler, on the main thread.  A wait it meets returns with -EINTR.
Sigint ==
  /\ pc # "ended" /\ signals < MaxSignals
  /\ signals' = signals + 1
  /\ kill_server
  /\ interrupted' = (interrupted \/ pc = "waiting")
  /\ missed' = (missed \/ pc # "waiting")
  /\ heard' = (heard \/ (pc = "waiting" /\ servers = Threads))
  /\ UNCHANGED <<pc, next, stage, servers, tcp_server>>

-----------------------------------------------------------------------------
(* A server thread: thread_server_runner.                                  *)

\* The constructor of the tcp_server, which arms the read of kill_efd and then puts the
\* server into the vector.
Register(t) ==
  /\ stage[t] = "constructing"
  /\ stage' = [stage EXCEPT ![t] = "registered"]
  /\ servers' = servers \cup {t}
  /\ UNCHANGED <<mainVars, tcp_server, kill_efd, signalVars, stray>>

set_tcp_server(t) ==
  /\ stage[t] = "registered"
  /\ stage' = [stage EXCEPT ![t] = "running"]
  /\ tcp_server' = tcp_server \cup {t}
  /\ UNCHANGED <<mainVars, servers, kill_efd, signalVars, stray>>

\* KILL: the ring and the eventfds are closed, and start() returns.
Kill(t) ==
  /\ stage[t] = "running" /\ kill_efd[t] > 0
  /\ stage' = [stage EXCEPT ![t] = "leaving"]
  /\ UNCHANGED <<mainVars, servers, tcp_server, kill_efd, signalVars, stray>>

\* The tcp_server, a local variable, is destroyed, and the thread ends.
Leave(t) ==
  /\ stage[t] = "leaving"
  /\ stage' = [stage EXCEPT ![t] = "ended"]
  /\ UNCHANGED <<mainVars, servers, tcp_server, kill_efd, signalVars, stray>>

ThreadStep(t) == Register(t) \/ set_tcp_server(t) \/ Kill(t) \/ Leave(t)
MainStep == StartThread \/ Wake \/ Handled \/ Post \/ WaitFails \/ Join

Next ==
  /\ ~stray
  /\ \/ MainStep \/ Sigint
     \/ \E t \in Threads : ThreadStep(t)

Spec == Init /\ [][Next]_vars

\* Threads run, the timer fires, and the kernel completes the read of an eventfd that has
\* been written to.  Nothing is assumed about signals.
Fairness == /\ WF_vars(~stray /\ MainStep)
            /\ \A t \in Threads : WF_vars(~stray /\ ThreadStep(t))
FairSpec == Spec /\ Fairness

-----------------------------------------------------------------------------
TypeOK ==
  /\ pc \in {"starting", "waiting", "handling", "posting", "joining", "ended"}
  /\ next \in Threads /\ interrupted \in BOOLEAN
  /\ stage \in [Threads -> {"unborn", "constructing", "registered", "running", "leaving", "ended"}]
  /\ servers \subseteq Threads /\ tcp_server \subseteq servers
  /\ kill_efd \in [Threads -> 0 .. MaxSignals] /\ signals \in 0 .. MaxSignals
  /\ missed \in BOOLEAN /\ heard \in BOOLEAN /\ stray \in BOOLEAN

\* After a SIGINT that met the central loop waiting, and before a second one, no message is
\* posted to a server that is closing its descriptors or is destroyed, although the
\* pointers to it stay where they are.
NoStrayPost == (signals <= 1 /\ ~missed) => ~stray

\* The program ends after its threads: run() destroys the web servers they use.
EndsAfterThreads == pc = "ended" => \A t \in Threads : stage[t] = "ended"

\* "the program gracefully exits without needing to explicitly exit" (utility.cpp), where
\* that is so: when SIGINT meets the central loop waiting and all threads registered, also
\* those whose loop has not begun.
SigintEnds == heard ~> (pc = "ended" \/ stray)

=============================================================================
