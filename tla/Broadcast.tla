------------------------------ MODULE Broadcast ------------------------------
(***************************************************************************)
(* The broadcast protocol between the central web server (one thread) and  *)
(* the server threads: central_web_server::run, data_store, the two SPSC   *)
(* queues and the two eventfds of each basic_web_server, event_cb, and the *)
(* part of the TCP layer that decides when a thread is done with a         *)
(* broadcast buffer (send_data, the write in flight, the close loops).     *)
(*                                                                         *)
(* A buffer is identified by its index in the data store: the index is     *)
(* what the messages, broadcast_data and send_data carry next to the       *)
(* pointer, and it is handed out again only after the buffer was freed.    *)
(*                                                                         *)
(* Every access to memory shared by two threads is a step of its own; a    *)
(* handler's work on thread-local memory is one step.                      *)
(***************************************************************************)
EXTENDS Integers, Sequences, FiniteSets, Functions

CONSTANTS
  NumThreads,   \* SERVER_THREADS of the configuration
  Clients,      \* the client indices of one server thread
  NoClient,
  MaxItems,     \* bound: items the data store may hold at once
  MaxQueue,     \* bound: length of send_data at which a peer stops asking for pongs
  HalfClose     \* may a peer shut down its side while it is being written to?

ASSUME ConstantsAssumption ==
  /\ NumThreads \in Nat \ {0}
  /\ MaxItems \in Nat \ {0}
  /\ MaxQueue \in Nat
  /\ IsFiniteSet(Clients)
  /\ NoClient \notin Clients
  /\ HalfClose \in BOOLEAN

Threads == 0 .. NumThreads - 1
ItemIdx == 0 .. MaxItems - 1

Own     == -1   \* a send_data element that is not a broadcast (its info is -1)
NoWrite == -2   \* num_write_reqs = 0: no write request in flight
NoItem  == -1

VARIABLES
  (* central_web_server *)
  data_vec,           \* data_store: uses left of each item, -1 when free
  dv_size,            \* data_vec.size()
  free_idxs,          \* data_store: indices that can be reused
  cpc,                \* where the central thread is: "wait", "emplace", "notify"
  cur_item,           \* the item being posted
  cur_thread,         \* the thread it is being posted to
  central_efd,        \* counter of each central_communication_eventfd
  central_read,       \* the io_uring read on it: "armed" or "cqe"
  (* basic_web_server, shared *)
  to_server_queue,
  to_program_queue,
  notification_efd,   \* counter of each server's notification_efd
  notification_read,  \* the io_uring read on it: "armed" or "cqe"
  tcp_server_set,     \* has set_tcp_server run?
  (* server thread *)
  tpc,                \* "wait", "closing", "emplace", "signal"
  fin,                \* the item post_message_to_program is reporting
  closing,            \* the client whose send_data a close loop is emptying
  active_ws,          \* active_websocket_connections_client_idxs
  open,               \* active_connections that were upgraded to websockets
  send_data,          \* queue of each client: item indices and Own
  writing,            \* what the kernel is writing for each client, or NoWrite
  broadcast_data,     \* uses left of each item on this thread
  undefined           \* front()/pop() was called on an empty send_data

centralVars == <<data_vec, dv_size, free_idxs, cpc, cur_item, cur_thread>>
wakeVars    == <<central_efd, central_read, notification_efd, notification_read>>
queueVars   == <<to_server_queue, to_program_queue>>
loopVars    == <<tpc, fin, closing>>
clientVars  == <<active_ws, open, send_data, writing, broadcast_data>>
vars == <<centralVars, wakeVars, queueVars, loopVars, clientVars,
          tcp_server_set, undefined>>

Init ==
  /\ data_vec = [i \in ItemIdx |-> -1]
  /\ dv_size = 0
  /\ free_idxs = {}
  /\ cpc = "wait"
  /\ cur_item = NoItem
  /\ cur_thread = 0
  /\ central_efd = [t \in Threads |-> 0]
  /\ central_read = [t \in Threads |-> "armed"]
  /\ to_server_queue = [t \in Threads |-> <<>>]
  /\ to_program_queue = [t \in Threads |-> <<>>]
  /\ notification_efd = [t \in Threads |-> 0]
  /\ notification_read = [t \in Threads |-> "armed"]
  /\ tcp_server_set = [t \in Threads |-> FALSE]
  /\ tpc = [t \in Threads |-> "wait"]
  /\ fin = [t \in Threads |-> NoItem]
  /\ closing = [t \in Threads |-> NoClient]
  /\ active_ws = [t \in Threads |-> {}]
  /\ open = [t \in Threads |-> {}]
  /\ send_data = [t \in Threads |-> [c \in Clients |-> <<>>]]
  /\ writing = [t \in Threads |-> [c \in Clients |-> NoWrite]]
  /\ broadcast_data = [t \in Threads |-> [i \in ItemIdx |-> -1]]
  /\ undefined = [t \in Threads |-> FALSE]

-----------------------------------------------------------------------------
(* The data store.                                                         *)

\* insert_item: reuse a free index (an unordered_set, so any of them), else grow.
insert_item(idx) ==
  /\ \/ /\ free_idxs # {}
        /\ idx \in free_idxs
        /\ free_idxs' = free_idxs \ {idx}
        /\ dv_size' = dv_size
     \/ /\ free_idxs = {}
        /\ dv_size < MaxItems
        /\ idx = dv_size
        /\ dv_size' = dv_size + 1
        /\ free_idxs' = free_idxs
  /\ data_vec' = [data_vec EXCEPT ![idx] = NumThreads]

\* Mutation of free_item: the comparison is off by one, a use too early.
free_item_early(idx) ==
  IF data_vec[idx] <= 2
  THEN /\ data_vec' = [data_vec EXCEPT ![idx] = -1]
       /\ free_idxs' = free_idxs \cup {idx}
  ELSE /\ data_vec' = [data_vec EXCEPT ![idx] = @ - 1]
       /\ free_idxs' = free_idxs

\* free_item: one use less; the buffer is released with the last one.
free_item(idx) ==
  \/ /\ data_vec[idx] = 1
     /\ data_vec' = [data_vec EXCEPT ![idx] = -1]
     /\ free_idxs' = free_idxs \cup {idx}
  \/ /\ data_vec[idx] # 1
     /\ data_vec' = [data_vec EXCEPT ![idx] = @ - 1]
     /\ free_idxs' = free_idxs

-----------------------------------------------------------------------------
(* The central thread.                                                     *)

\* TIMERFD: a new item with one use per thread; the loop over the threads begins.
Timer ==
  /\ cpc = "wait"
  /\ \E idx \in ItemIdx : insert_item(idx) /\ cur_item' = idx
  /\ cpc' = "emplace"
  /\ UNCHANGED <<cur_thread, wakeVars, queueVars, loopVars, clientVars,
                 tcp_server_set, undefined>>

\* Mutation of NextThread: the loop runs one past the last thread.
NextThread_past_end ==
  IF cur_thread < NumThreads
  THEN cpc' = "emplace" /\ cur_thread' = cur_thread + 1 /\ cur_item' = cur_item
  ELSE cpc' = "wait" /\ cur_thread' = 0 /\ cur_item' = NoItem

\* The loop of the TIMERFD case moves on to the next thread, or ends.
NextThread ==
  IF cur_thread + 1 < NumThreads
  THEN cpc' = "emplace" /\ cur_thread' = cur_thread + 1 /\ cur_item' = cur_item
  ELSE cpc' = "wait" /\ cur_thread' = 0 /\ cur_item' = NoItem

\* post_message_to_server_thread before set_tcp_server: returns at once.
PostSkipped ==
  /\ cpc = "emplace"
  /\ ~tcp_server_set[cur_thread]
  /\ NextThread
  /\ UNCHANGED <<data_vec, dv_size, free_idxs, wakeVars, queueVars, loopVars,
                 clientVars, tcp_server_set, undefined>>

\* post_message_to_server_thread, first the message ...
PostEmplace ==
  /\ cpc = "emplace"
  /\ tcp_server_set[cur_thread]
  /\ to_server_queue' = [to_server_queue EXCEPT ![cur_thread] = Append(@, cur_item)]
  /\ cpc' = "notify"
  /\ UNCHANGED <<data_vec, dv_size, free_idxs, cur_item, cur_thread, wakeVars,
                 to_program_queue, loopVars, clientVars, tcp_server_set, undefined>>

\* ... then notify_event: the write to the eventfd adds 1 to its counter.
PostNotify ==
  /\ cpc = "notify"
  /\ notification_efd' = [notification_efd EXCEPT ![cur_thread] = @ + 1]
  /\ NextThread
  /\ UNCHANGED <<data_vec, dv_size, free_idxs, central_efd, central_read,
                 notification_read, queueVars, loopVars, clientVars,
                 tcp_server_set, undefined>>

\* The kernel completes the armed read: the counter is returned and reset to 0.
CentralRead(t) ==
  /\ central_read[t] = "armed"
  /\ central_efd[t] > 0
  /\ central_read' = [central_read EXCEPT ![t] = "cqe"]
  /\ central_efd' = [central_efd EXCEPT ![t] = 0]
  /\ UNCHANGED <<centralVars, notification_efd, notification_read, queueVars,
                 loopVars, clientVars, tcp_server_set, undefined>>

\* try_dequeue into a default message_post_data, whose item_idx is 0.
Dequeued(q) == IF q = <<>> THEN 0 ELSE Head(q)

\* Mutation of Rest: the wake-up drains the queue, whatever it processed.
Rest_drained(q) == <<>>

Rest(q) == IF q = <<>> THEN q ELSE Tail(q)

\* SERVER_THREAD_COMMUNICATION: one message per wake-up, then the read is rearmed.
ThreadCommunication(t) ==
  /\ cpc = "wait"
  /\ central_read[t] = "cqe"
  /\ free_item(Dequeued(to_program_queue[t]))
  /\ to_program_queue' = [to_program_queue EXCEPT ![t] = Rest(@)]
  /\ central_read' = [central_read EXCEPT ![t] = "armed"]
  /\ UNCHANGED <<dv_size, cpc, cur_item, cur_thread, central_efd, notification_efd,
                 notification_read, to_server_queue, loopVars, clientVars,
                 tcp_server_set, undefined>>

-----------------------------------------------------------------------------
(* A server thread.  Ready(t): its event loop is waiting for a completion. *)

Ready(t) == tcp_server_set[t] /\ tpc[t] = "wait" /\ ~undefined[t]

set_tcp_server(t) ==
  /\ ~tcp_server_set[t]
  /\ tcp_server_set' = [tcp_server_set EXCEPT ![t] = TRUE]
  /\ UNCHANGED <<centralVars, wakeVars, queueVars, loopVars, clientVars, undefined>>

NotificationRead(t) ==
  /\ notification_read[t] = "armed"
  /\ notification_efd[t] > 0
  /\ notification_read' = [notification_read EXCEPT ![t] = "cqe"]
  /\ notification_efd' = [notification_efd EXCEPT ![t] = 0]
  /\ UNCHANGED <<centralVars, central_efd, central_read, queueVars, loopVars,
                 clientVars, tcp_server_set, undefined>>

\* Mutation of broadcast_uses: counts connections that no longer receive broadcasts.
broadcast_uses_open(t) == Cardinality(open[t])

\* The uses event_cb gives an item: client_idxs.size().
broadcast_uses(t) == Cardinality(active_ws[t])

\* NOTIFICATION: rearm, then event_cb broadcasts one message, or reports it
\* finished at once when no websocket is active.
Notification(t) ==
  LET item == Dequeued(to_server_queue[t]) IN
  /\ Ready(t)
  /\ notification_read[t] = "cqe"
  /\ notification_read' = [notification_read EXCEPT ![t] = "armed"]
  /\ to_server_queue' = [to_server_queue EXCEPT ![t] = Rest(@)]
  /\ \/ /\ active_ws[t] # {}
        /\ broadcast_data' = [broadcast_data EXCEPT ![t][item] = broadcast_uses(t)]
        /\ send_data' = [send_data EXCEPT ![t] =
             [c \in Clients |-> IF c \in active_ws[t] THEN Append(@[c], item) ELSE @[c]]]
        /\ writing' = [writing EXCEPT ![t] =
             [c \in Clients |-> IF c \in active_ws[t] /\ send_data[t][c] = <<>>
                                THEN item ELSE @[c]]]
        /\ UNCHANGED <<tpc, fin>>
     \/ /\ active_ws[t] = {}
        /\ fin' = [fin EXCEPT ![t] = item]
        /\ tpc' = [tpc EXCEPT ![t] = "emplace"]
        /\ UNCHANGED <<broadcast_data, send_data, writing>>
  /\ UNCHANGED <<centralVars, central_efd, central_read, notification_efd,
                 to_program_queue, closing, active_ws, open, tcp_server_set, undefined>>

\* post_message_to_program, first the message ...
ReportEmplace(t) ==
  /\ tpc[t] = "emplace"
  /\ to_program_queue' = [to_program_queue EXCEPT ![t] = Append(@, fin[t])]
  /\ fin' = [fin EXCEPT ![t] = NoItem]
  /\ tpc' = [tpc EXCEPT ![t] = "signal"]
  /\ UNCHANGED <<centralVars, wakeVars, to_server_queue, closing, clientVars,
                 tcp_server_set, undefined>>

\* ... then eventfd_write; a close loop that was reporting goes on.
ReportSignal(t) ==
  /\ tpc[t] = "signal"
  /\ central_efd' = [central_efd EXCEPT ![t] = @ + 1]
  /\ tpc' = [tpc EXCEPT ![t] = IF closing[t] = NoClient THEN "wait" ELSE "closing"]
  /\ UNCHANGED <<centralVars, central_read, notification_efd, notification_read,
                 queueVars, fin, closing, clientVars, tcp_server_set, undefined>>

-----------------------------------------------------------------------------
(* The websocket clients of a server thread.                               *)

\* An accepted connection becomes a websocket: the 101 response is its first write.
Upgrade(t, c) ==
  /\ Ready(t)
  /\ c \notin open[t]
  /\ open' = [open EXCEPT ![t] = @ \cup {c}]
  /\ active_ws' = [active_ws EXCEPT ![t] = @ \cup {c}]
  /\ send_data' = [send_data EXCEPT ![t][c] = <<Own>>]
  /\ writing' = [writing EXCEPT ![t][c] = Own]
  /\ UNCHANGED <<centralVars, wakeVars, queueVars, loopVars, broadcast_data,
                 tcp_server_set, undefined>>

\* write_connection: queue the data, and write it if it is alone in the queue.
write_connection(t, c) ==
  /\ send_data' = [send_data EXCEPT ![t][c] = Append(@, Own)]
  /\ writing' = [writing EXCEPT ![t][c] = IF send_data[t][c] = <<>> THEN Own ELSE @]

\* A ping frame is answered with a pong.
websocket_write(t, c) ==
  /\ Ready(t)
  /\ c \in active_ws[t]
  /\ Len(send_data[t][c]) < MaxQueue
  /\ write_connection(t, c)
  /\ UNCHANGED <<centralVars, wakeVars, queueVars, loopVars, active_ws, open,
                 broadcast_data, tcp_server_set, undefined>>

\* A close frame: the client leaves the active set, a close frame is queued.
close_ws_connection_req(t, c) ==
  /\ Ready(t)
  /\ c \in active_ws[t]
  /\ active_ws' = [active_ws EXCEPT ![t] = @ \ {c}]
  /\ write_connection(t, c)
  /\ UNCHANGED <<centralVars, wakeVars, queueVars, loopVars, open,
                 broadcast_data, tcp_server_set, undefined>>

\* Mutation of Used: every use is reported, not only the last one.
Used_every(t, item, pc) ==
  IF item = Own
  THEN /\ tpc' = [tpc EXCEPT ![t] = pc]
       /\ UNCHANGED <<broadcast_data, fin>>
  ELSE /\ broadcast_data' = [broadcast_data EXCEPT ![t][item] = @ - 1]
       /\ fin' = [fin EXCEPT ![t] = item]
       /\ tpc' = [tpc EXCEPT ![t] = "emplace"]

\* The uses-- of write_cb and close_cb for a popped element: the last use of an
\* item on this thread is reported, otherwise the thread goes on to pc.
Used(t, item, pc) ==
  IF item = Own
  THEN /\ tpc' = [tpc EXCEPT ![t] = pc]
       /\ UNCHANGED <<broadcast_data, fin>>
  ELSE /\ broadcast_data' = [broadcast_data EXCEPT ![t][item] = @ - 1]
       /\ IF broadcast_data[t][item] = 1
          THEN /\ fin' = [fin EXCEPT ![t] = item]
               /\ tpc' = [tpc EXCEPT ![t] = "emplace"]
          ELSE /\ tpc' = [tpc EXCEPT ![t] = pc]
               /\ fin' = fin

\* WRITE completed: pop the element, write the next one, call write_cb.
WriteDone(t, c) ==
  /\ Ready(t)
  /\ writing[t][c] # NoWrite
  /\ send_data[t][c] # <<>>
  /\ LET rest == Tail(send_data[t][c]) IN
     /\ send_data' = [send_data EXCEPT ![t][c] = rest]
     /\ writing' = [writing EXCEPT ![t][c] = IF rest = <<>> THEN NoWrite ELSE Head(rest)]
  /\ Used(t, Head(send_data[t][c]), "wait")
  /\ UNCHANGED <<centralVars, wakeVars, queueVars, closing, active_ws, open,
                 tcp_server_set, undefined>>

\* The same with nothing left in send_data: front() and pop() on an empty queue.
\* What the thread does from here on is undefined, and is not modelled.
WriteDoneUndefined(t, c) ==
  /\ Ready(t)
  /\ writing[t][c] # NoWrite
  /\ send_data[t][c] = <<>>
  /\ undefined' = [undefined EXCEPT ![t] = TRUE]
  /\ UNCHANGED <<centralVars, wakeVars, queueVars, loopVars, clientVars, tcp_server_set>>

\* Mutation of BeginClose: send_data is dropped without a close_cb for its elements.
BeginClose_dropped(t, c) ==
  /\ closing' = [closing EXCEPT ![t] = c]
  /\ tpc' = [tpc EXCEPT ![t] = "closing"]
  /\ active_ws' = [active_ws EXCEPT ![t] = @ \ {c}]
  /\ send_data' = [send_data EXCEPT ![t][c] = <<>>]
  /\ UNCHANGED <<centralVars, wakeVars, queueVars, fin, open,
                 broadcast_data, tcp_server_set, undefined>>

\* kill_client, and the start of a loop that empties send_data through close_cb.
BeginClose(t, c) ==
  /\ closing' = [closing EXCEPT ![t] = c]
  /\ tpc' = [tpc EXCEPT ![t] = "closing"]
  /\ active_ws' = [active_ws EXCEPT ![t] = @ \ {c}]
  /\ UNCHANGED <<centralVars, wakeVars, queueVars, fin, open, send_data,
                 broadcast_data, tcp_server_set, undefined>>

\* WRITE failed: no write request is left, so the client is closed.
WriteFail(t, c) ==
  /\ Ready(t)
  /\ writing[t][c] # NoWrite
  /\ writing' = [writing EXCEPT ![t][c] = NoWrite]
  /\ BeginClose(t, c)

\* Mutation of ReadFail: num_write_reqs is not looked at.
ReadFail_unguarded(t, c) ==
  /\ Ready(t)
  /\ c \in open[t]
  /\ writing' = writing
  /\ BeginClose(t, c)

\* READ failed or met the end of the stream: closes unless a write is in flight,
\* when it has no effect.
ReadFail(t, c) ==
  /\ Ready(t)
  /\ c \in open[t]
  /\ writing[t][c] = NoWrite
  /\ writing' = writing
  /\ BeginClose(t, c)

\* TIMERFD: the peer has shut down its side; closes whether or not a write is
\* in flight.  Several such peers are several of these steps.
Reap(t, c) ==
  /\ Ready(t)
  /\ c \in open[t]
  /\ HalfClose \/ writing[t][c] = NoWrite
  /\ writing' = writing
  /\ BeginClose(t, c)

\* One round of the close loop: close_cb for the front element, then pop.
ClosePop(t) ==
  /\ tpc[t] = "closing"
  /\ LET q == send_data[t][closing[t]] IN
     /\ q # <<>>
     /\ send_data' = [send_data EXCEPT ![t][closing[t]] = Tail(q)]
     /\ Used(t, Head(q), "closing")
  /\ UNCHANGED <<centralVars, wakeVars, queueVars, closing, active_ws, open, writing,
                 tcp_server_set, undefined>>

\* close_connection: the slot is freed only if no write request is in flight.
close_connection(t) ==
  LET c == closing[t] IN
  /\ tpc[t] = "closing"
  /\ send_data[t][c] = <<>>
  /\ open' = [open EXCEPT ![t] = IF writing[t][c] = NoWrite THEN @ \ {c} ELSE @]
  /\ tpc' = [tpc EXCEPT ![t] = "wait"]
  /\ closing' = [closing EXCEPT ![t] = NoClient]
  /\ UNCHANGED <<centralVars, wakeVars, queueVars, fin, active_ws, send_data, writing,
                 broadcast_data, tcp_server_set, undefined>>

-----------------------------------------------------------------------------
WriteCompletes(t, c) == WriteDone(t, c) \/ WriteDoneUndefined(t, c) \/ WriteFail(t, c)

ClientStep(t, c) ==
  \/ Upgrade(t, c) \/ websocket_write(t, c) \/ close_ws_connection_req(t, c)
  \/ WriteCompletes(t, c) \/ ReadFail(t, c) \/ Reap(t, c)

HandlerStep(t) == ReportEmplace(t) \/ ReportSignal(t) \/ ClosePop(t) \/ close_connection(t)

ThreadStep(t) ==
  \/ set_tcp_server(t) \/ NotificationRead(t) \/ Notification(t)
  \/ HandlerStep(t)
  \/ \E c \in Clients : ClientStep(t, c)

CentralStep ==
  \/ Timer \/ PostSkipped \/ PostEmplace \/ PostNotify
  \/ \E t \in Threads : CentralRead(t) \/ ThreadCommunication(t)

Next == CentralStep \/ \E t \in Threads : ThreadStep(t)

Spec == Init /\ [][Next]_vars

(* Fairness.  Both loops wait for completions and take them in FIFO order,  *)
(* so a completion that is posted is handled (SF, as a handler of another   *)
(* completion may run in between), and the kernel completes every armed     *)
(* eventfd read and every write: with success when the peer reads, or with  *)
(* an error when the connection dies; a peer that stays connected and never *)
(* reads again is assumed away.  The timer, the start-up of a thread and    *)
(* what peers send owe us nothing.                                          *)
Fairness ==
  /\ WF_vars(PostSkipped \/ PostEmplace \/ PostNotify)
  /\ \A t \in Threads :
       /\ WF_vars(HandlerStep(t))
       /\ WF_vars(CentralRead(t)) /\ SF_vars(ThreadCommunication(t))
       /\ WF_vars(NotificationRead(t)) /\ SF_vars(Notification(t))
       /\ \A c \in Clients : SF_vars(WriteCompletes(t, c))

FairSpec == Spec /\ Fairness

-----------------------------------------------------------------------------
(* Where a thread can still owe the data store a use of an item.           *)

\* The central thread has yet to post item i to thread t.
ToBePosted(t, i) ==
  /\ cur_item = i
  /\ \/ cpc = "emplace" /\ cur_thread <= t
     \/ cpc = "notify" /\ cur_thread < t

Posted(t, i)   == i \in Range(to_server_queue[t])
Holders(t, i)  == {c \in Clients : i \in Range(send_data[t][c])}
Sending(t, i)  == Holders(t, i) # {}
Ending(t, i)   == tpc[t] = "emplace" /\ fin[t] = i
Reported(t, i) == i \in Range(to_program_queue[t])

Owes(t, i) == \/ ToBePosted(t, i) \/ Posted(t, i) \/ Sending(t, i)
              \/ Ending(t, i) \/ Reported(t, i)

\* The threads that owe the data store a use of item i.
Owing(i) == {t \in Threads : Owes(t, i)}

\* Those that the central thread has not posted it to yet.
Untold(i) == {t \in Threads : ToBePosted(t, i)}

Shared == INSTANCE SharedBuffers
          WITH Items <- ItemIdx, left <- data_vec,
               users <- [i \in ItemIdx |-> Owing(i)],
               untold <- [i \in ItemIdx |-> Untold(i)]

-----------------------------------------------------------------------------
TypeOK ==
  /\ data_vec \in [ItemIdx -> Int]
  /\ dv_size \in 0 .. MaxItems
  /\ free_idxs \subseteq ItemIdx
  /\ cpc \in {"wait", "emplace", "notify"}
  /\ cur_item \in ItemIdx \cup {NoItem}
  /\ cur_thread \in Threads
  /\ central_efd \in [Threads -> Nat]
  /\ central_read \in [Threads -> {"armed", "cqe"}]
  /\ to_server_queue \in [Threads -> Seq(ItemIdx)]
  /\ to_program_queue \in [Threads -> Seq(ItemIdx)]
  /\ notification_efd \in [Threads -> Nat]
  /\ notification_read \in [Threads -> {"armed", "cqe"}]
  /\ tcp_server_set \in [Threads -> BOOLEAN]
  /\ tpc \in [Threads -> {"wait", "closing", "emplace", "signal"}]
  /\ fin \in [Threads -> ItemIdx \cup {NoItem}]
  /\ closing \in [Threads -> Clients \cup {NoClient}]
  /\ active_ws \in [Threads -> SUBSET Clients]
  /\ open \in [Threads -> SUBSET Clients]
  /\ send_data \in [Threads -> [Clients -> Seq(ItemIdx \cup {Own})]]
  /\ writing \in [Threads -> [Clients -> ItemIdx \cup {Own, NoWrite}]]
  /\ broadcast_data \in [Threads -> [ItemIdx -> Int]]
  /\ undefined \in [Threads -> BOOLEAN]

\* A buffer is not freed while any thread can still read it: as long as an item
\* waits to be posted, is queued for a thread, is in a client's send_data or is
\* being reported, the data store holds it (data_store::free_item is called once
\* per thread, by SERVER_THREAD_COMMUNICATION).
BufferLive == \A t \in Threads, i \in ItemIdx : Owes(t, i) => data_vec[i] > 0

\* A wake-up never meets an empty queue, in either direction: event_cb and the
\* central loop dequeue into a default message whose item_idx is 0, so taking
\* one message too many would broadcast or free item 0.
WakeupHasMessage ==
  \A t \in Threads :
    /\ notification_read[t] = "cqe" => to_server_queue[t] # <<>>
    /\ central_read[t] = "cqe" => to_program_queue[t] # <<>>

\* broadcast_data[i].uses of a thread is the number of its clients that have the
\* item in send_data, through upgrades, pongs, close frames, failed writes and
\* reaped peers: no client is counted twice and none is forgotten.
UsesCountHolders ==
  \A t \in Threads, i \in ItemIdx :
    Sending(t, i) => broadcast_data[t][i] = Cardinality(Holders(t, i))

\* The kernel never writes from a buffer the data store has released.
InFlightBufferLive ==
  \A t \in Threads, c \in Clients :
    writing[t][c] \in ItemIdx => data_vec[writing[t][c]] > 0

\* Every completed write finds the element it wrote at the front of send_data;
\* req_event_handler calls front() and pop() without looking.
CompletionHasElement ==
  \A t \in Threads, c \in Clients :
    writing[t][c] # NoWrite =>
      send_data[t][c] # <<>> /\ Head(send_data[t][c]) = writing[t][c]

\* The store, the queues and eventfds, send_data and the close loops together share
\* buffers as SharedBuffers says: post_message_to_server_thread passes over a thread
\* only before it has posted the item to it; from the post on no handler of the thread,
\* also none that ends a connection, loses the thread's use of the buffer or takes it a
\* second time; a use ends only in the central loop, with the report of the thread that
\* had it.
SharesBuffers == Shared!Spec

\* A broadcast that reached the clients of a thread is reported by that thread
\* to the central server, whatever the clients do meanwhile.
SendingIsReported ==
  \A t \in Threads, i \in ItemIdx : Sending(t, i) ~> Reported(t, i)

=============================================================================
