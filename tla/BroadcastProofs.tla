--------------------------- MODULE BroadcastProofs ---------------------------
(***************************************************************************)
(* Theorems about the broadcast protocol, for any number of threads,       *)
(* clients and items.                                                      *)
(***************************************************************************)
EXTENDS Broadcast, FiniteSetTheorems, SequenceTheorems, TLAPS

-----------------------------------------------------------------------------
(* Sequences: what Append and Tail do to the set of elements.              *)

\* Appending adds one element to the range.
LEMMA AppendRange ==
  ASSUME NEW S, NEW s \in Seq(S), NEW e \in S
  PROVE  /\ Append(s, e) \in Seq(S)
         /\ Range(Append(s, e)) = Range(s) \cup {e}
         /\ Append(s, e) # <<>>
         /\ Len(Append(s, e)) = Len(s) + 1
         /\ Head(Append(s, e)) = IF s = <<>> THEN e ELSE Head(s)
<1>1. /\ Append(s, e) \in Seq(S)
      /\ Len(Append(s, e)) = Len(s) + 1
      /\ DOMAIN Append(s, e) = 1 .. Len(s) + 1
      /\ DOMAIN s = 1 .. Len(s)
      /\ Len(s) \in Nat
  OBVIOUS
<1>2. /\ \A k \in 1 .. Len(s) : Append(s, e)[k] = s[k]
      /\ Append(s, e)[Len(s) + 1] = e
  OBVIOUS
<1>3. Range(Append(s, e)) = Range(s) \cup {e}
  BY <1>1, <1>2 DEF Range
<1>4. Append(s, e) # <<>>
  BY <1>1
<1>5. Head(Append(s, e)) = IF s = <<>> THEN e ELSE Head(s)
  BY <1>1, <1>2
<1> QED
  BY <1>1, <1>3, <1>4, <1>5

\* A nonempty sequence is its head and its tail.
LEMMA TailRange ==
  ASSUME NEW S, NEW s \in Seq(S), s # <<>>
  PROVE  /\ Head(s) \in S
         /\ Tail(s) \in Seq(S)
         /\ Range(s) = Range(Tail(s)) \cup {Head(s)}
         /\ Len(s) \in Nat /\ Len(s) > 0
         /\ Len(Tail(s)) = Len(s) - 1
<1>1. /\ Head(s) \in S /\ Tail(s) \in Seq(S)
      /\ Len(s) \in Nat /\ Len(s) > 0
      /\ Len(Tail(s)) = Len(s) - 1
      /\ DOMAIN s = 1 .. Len(s) /\ DOMAIN Tail(s) = 1 .. Len(s) - 1
      /\ \A k \in 1 .. Len(s) - 1 : Tail(s)[k] = s[k + 1]
      /\ Head(s) = s[1]
  OBVIOUS
<1>2. ASSUME NEW x \in Range(s) PROVE x \in Range(Tail(s)) \cup {Head(s)}
  <2>1. PICK k \in 1 .. Len(s) : s[k] = x
    BY <1>1, <1>2 DEF Range
  <2>2. CASE k = 1
    BY <2>1, <2>2, <1>1
  <2>3. CASE k # 1
    <3>1. k - 1 \in 1 .. Len(s) - 1 /\ Tail(s)[k - 1] = x
      BY <2>1, <2>3, <1>1
    <3> QED
      BY <3>1, <1>1 DEF Range
  <2> QED
    BY <2>2, <2>3
<1>3. ASSUME NEW x \in Range(Tail(s)) \cup {Head(s)} PROVE x \in Range(s)
  BY <1>1, <1>3 DEF Range
<1> QED
  BY <1>1, <1>2, <1>3

\* The empty sequence has no elements.
LEMMA EmptyRange == Range(<<>>) = {} /\ Len(<<>>) = 0
  BY DEF Range

\* No item is twice in the sequence.
NoDup(s) == \A j, k \in 1 .. Len(s) : s[j] = s[k] /\ s[j] # Own => j = k

\* The head of a sequence without duplicates is not in its tail.
LEMMA TailNoDup ==
  ASSUME NEW S, NEW s \in Seq(S), s # <<>>, NoDup(s)
  PROVE  /\ NoDup(Tail(s))
         /\ Head(s) # Own => Head(s) \notin Range(Tail(s))
<1>1. /\ Len(s) \in Nat /\ Len(s) > 0
      /\ Len(Tail(s)) = Len(s) - 1 /\ DOMAIN Tail(s) = 1 .. Len(s) - 1
      /\ \A k \in 1 .. Len(s) - 1 : Tail(s)[k] = s[k + 1]
      /\ Head(s) = s[1]
  OBVIOUS
<1>2. NoDup(Tail(s))
  BY <1>1 DEF NoDup
<1>3. ASSUME Head(s) # Own, Head(s) \in Range(Tail(s)) PROVE FALSE
  <2>1. PICK k \in 1 .. Len(s) - 1 : Tail(s)[k] = Head(s)
    BY <1>1, <1>3 DEF Range
  <2>2. s[k + 1] = s[1] /\ k + 1 \in 1 .. Len(s) /\ 1 \in 1 .. Len(s) /\ s[1] # Own
    BY <1>1, <1>3, <2>1
  <2> QED
    BY <2>2 DEF NoDup
<1> QED
  BY <1>2, <1>3

\* Appending a new item, or Own, makes no duplicate.
LEMMA AppendNoDup ==
  ASSUME NEW S, NEW s \in Seq(S), NEW e \in S, NoDup(s), e \notin Range(s) \/ e = Own
  PROVE  NoDup(Append(s, e))
<1>1. /\ Len(s) \in Nat /\ DOMAIN s = 1 .. Len(s)
      /\ Len(Append(s, e)) = Len(s) + 1
      /\ \A k \in 1 .. Len(s) : Append(s, e)[k] = s[k]
      /\ Append(s, e)[Len(s) + 1] = e
  OBVIOUS
<1>2. \A k \in 1 .. Len(s) : s[k] \in Range(s)
  BY <1>1 DEF Range
<1> QED
  BY <1>1, <1>2 DEF NoDup

-----------------------------------------------------------------------------
(* Type correctness.                                                       *)

\* What the close loops need to be well defined: a loop has a client, and a
\* report has an item.
PcOK ==
  /\ \A t \in Threads : tpc[t] = "closing" => closing[t] \in Clients
  /\ \A t \in Threads : tpc[t] = "emplace" => fin[t] \in ItemIdx
  /\ cpc # "wait" => cur_item \in ItemIdx
  /\ cpc = "wait" => cur_thread = 0

TInv == TypeOK /\ PcOK

\* Dequeued and Rest stay within the type of the queue.
LEMMA DequeueType ==
  ASSUME NEW q \in Seq(ItemIdx)
  PROVE  Dequeued(q) \in ItemIdx /\ Rest(q) \in Seq(ItemIdx)
<1>1. 0 \in ItemIdx
  BY ConstantsAssumption DEF ItemIdx
<1> QED
  BY <1>1, TailRange DEF Dequeued, Rest

\* The accounting of a popped element keeps the types.
LEMMA UsedType ==
  ASSUME TInv, NEW t \in Threads, NEW item \in ItemIdx \cup {Own},
         NEW pc \in {"wait", "closing"}, Used(t, item, pc),
         pc = "closing" => closing[t] \in Clients, closing' = closing
  PROVE  /\ tpc' \in [Threads -> {"wait", "closing", "emplace", "signal"}]
         /\ fin' \in [Threads -> ItemIdx \cup {NoItem}]
         /\ broadcast_data' \in [Threads -> [ItemIdx -> Int]]
         /\ \A u \in Threads : tpc'[u] = "closing" => closing'[u] \in Clients
         /\ \A u \in Threads : tpc'[u] = "emplace" => fin'[u] \in ItemIdx
<1>1. /\ tpc \in [Threads -> {"wait", "closing", "emplace", "signal"}]
      /\ fin \in [Threads -> ItemIdx \cup {NoItem}]
      /\ \A u \in Threads : tpc[u] = "closing" => closing[u] \in Clients
      /\ \A u \in Threads : tpc[u] = "emplace" => fin[u] \in ItemIdx
  BY DEF TInv, TypeOK, PcOK
<1>2. broadcast_data \in [Threads -> [ItemIdx -> Int]]
  BY DEF TInv, TypeOK
<1>3. CASE item = Own
  BY <1>1, <1>2, <1>3 DEF Used
<1>4. CASE item # Own
  <2>1. item \in ItemIdx
    BY <1>4
  <2>2. broadcast_data' \in [Threads -> [ItemIdx -> Int]]
    BY <1>2, <1>4, <2>1 DEF Used
  <2>3. \/ fin' = [fin EXCEPT ![t] = item] /\ tpc' = [tpc EXCEPT ![t] = "emplace"]
        \/ fin' = fin /\ tpc' = [tpc EXCEPT ![t] = pc]
    BY <1>4 DEF Used
  <2> QED
    BY <1>1, <2>1, <2>2, <2>3
<1> QED
  BY <1>3, <1>4

\* The initial state is well typed.
LEMMA TypeInit == Init => TInv
  BY ConstantsAssumption, EmptySeq
  DEF Init, TInv, TypeOK, PcOK, Threads, ItemIdx, NoItem, NoWrite

\* Every step of the central thread keeps the types.
LEMMA TypeCentral == TInv /\ CentralStep => TInv'
<1> SUFFICES ASSUME TInv, CentralStep PROVE TInv'
  OBVIOUS
<1> USE DEF centralVars, wakeVars, queueVars, loopVars, clientVars
<1>0. /\ NumThreads \in Int /\ Own \in Int
      /\ ItemIdx \subseteq Int
  BY ConstantsAssumption DEF Own, ItemIdx
<1>1. CASE Timer
  <2>1. PICK idx \in ItemIdx : insert_item(idx) /\ cur_item' = idx
    BY <1>1 DEF Timer
  <2>2. data_vec' \in [ItemIdx -> Int]
    BY <2>1, <1>0 DEF insert_item, TInv, TypeOK
  <2>3. dv_size' \in 0 .. MaxItems /\ free_idxs' \subseteq ItemIdx
    BY <2>1, ConstantsAssumption DEF insert_item, TInv, TypeOK
  <2> QED
    BY <1>1, <2>1, <2>2, <2>3 DEF Timer, TInv, TypeOK, PcOK
<1>2. ASSUME NextThread, cpc # "wait"
      PROVE  /\ cpc' \in {"wait", "emplace", "notify"}
             /\ cur_item' \in ItemIdx \cup {NoItem}
             /\ cur_thread' \in Threads
             /\ cpc' # "wait" => cur_item' \in ItemIdx
             /\ cpc' = "wait" => cur_thread' = 0
  <2>1. cur_thread \in Threads /\ cur_item \in ItemIdx
    BY <1>2 DEF TInv, TypeOK, PcOK
  <2> QED
    BY <1>2, <2>1, ConstantsAssumption DEF NextThread, Threads
<1>3. CASE PostSkipped
  BY <1>2, <1>3 DEF PostSkipped, TInv, TypeOK, PcOK
<1>4. CASE PostEmplace
  BY <1>4, AppendRange DEF PostEmplace, TInv, TypeOK, PcOK
<1>5. CASE PostNotify
  <2>1. notification_efd \in [Threads -> Nat] /\ cur_thread \in Threads
    BY DEF TInv, TypeOK
  <2>2. notification_efd' \in [Threads -> Nat]
    BY <1>5, <2>1 DEF PostNotify
  <2>3. NextThread /\ cpc # "wait"
    BY <1>5 DEF PostNotify
  <2> QED
    BY <1>2, <1>5, <2>2, <2>3 DEF PostNotify, TInv, TypeOK, PcOK
<1>6. ASSUME NEW t \in Threads, CentralRead(t) PROVE TInv'
  BY <1>6 DEF CentralRead, TInv, TypeOK, PcOK
<1>7. ASSUME NEW t \in Threads, ThreadCommunication(t) PROVE TInv'
  <2> DEFINE idx == Dequeued(to_program_queue[t])
  <2>1. idx \in ItemIdx /\ Rest(to_program_queue[t]) \in Seq(ItemIdx)
    BY DequeueType DEF TInv, TypeOK
  <2>2. free_item(idx)
    BY <1>7 DEF ThreadCommunication
  <2> HIDE DEF idx
  <2>3. data_vec' \in [ItemIdx -> Int] /\ free_idxs' \subseteq ItemIdx
    <3>1. data_vec \in [ItemIdx -> Int] /\ free_idxs \subseteq ItemIdx
      BY DEF TInv, TypeOK
    <3> QED
      BY <2>1, <2>2, <3>1 DEF free_item
  <2> QED
    BY <1>7, <2>1, <2>3 DEF ThreadCommunication, TInv, TypeOK, PcOK
<1> QED
  BY <1>1, <1>3, <1>4, <1>5, <1>6, <1>7 DEF CentralStep

\* Every step of a server thread keeps the types.
LEMMA TypeThread == ASSUME NEW t \in Threads PROVE TInv /\ ThreadStep(t) => TInv'
<1> SUFFICES ASSUME TInv, ThreadStep(t) PROVE TInv'
  OBVIOUS
<1> USE DEF centralVars, wakeVars, queueVars, loopVars, clientVars
<1>0. ItemIdx \subseteq Int /\ NoClient \notin Clients
  BY ConstantsAssumption DEF ItemIdx
<1>1. CASE set_tcp_server(t)
  BY <1>1 DEF set_tcp_server, TInv, TypeOK, PcOK
<1>2. CASE NotificationRead(t)
  BY <1>2 DEF NotificationRead, TInv, TypeOK, PcOK
<1>3. CASE Notification(t)
  <2> DEFINE item == Dequeued(to_server_queue[t])
  <2>1. item \in ItemIdx /\ Rest(to_server_queue[t]) \in Seq(ItemIdx)
    BY DequeueType DEF TInv, TypeOK
  <2>2. CASE active_ws[t] # {}
    <3>1. Cardinality(active_ws[t]) \in Int
      <4>1. IsFiniteSet(active_ws[t])
        BY ConstantsAssumption, FS_Subset DEF TInv, TypeOK
      <4> QED
        BY <4>1, FS_CardinalityType
    <3>2. \A c \in Clients : Append(send_data[t][c], item) \in Seq(ItemIdx \cup {Own})
      BY <2>1, AppendRange DEF TInv, TypeOK
    <3>3. /\ broadcast_data' = [broadcast_data EXCEPT ![t][item] = Cardinality(active_ws[t])]
          /\ send_data' = [send_data EXCEPT ![t] =
               [c \in Clients |-> IF c \in active_ws[t] THEN Append(@[c], item) ELSE @[c]]]
          /\ writing' = [writing EXCEPT ![t] =
               [c \in Clients |-> IF c \in active_ws[t] /\ send_data[t][c] = <<>>
                                  THEN item ELSE @[c]]]
          /\ UNCHANGED <<tpc, fin>>
      BY <1>3, <2>2 DEF Notification, broadcast_uses
    <3> HIDE DEF item
    <3>4. broadcast_data' \in [Threads -> [ItemIdx -> Int]]
      BY <2>1, <3>1, <3>3 DEF TInv, TypeOK
    <3>5. send_data' \in [Threads -> [Clients -> Seq(ItemIdx \cup {Own})]]
      BY <3>2, <3>3 DEF TInv, TypeOK
    <3>6. writing' \in [Threads -> [Clients -> ItemIdx \cup {Own, NoWrite}]]
      <4>1. writing \in [Threads -> [Clients -> ItemIdx \cup {Own, NoWrite}]]
        BY DEF TInv, TypeOK
      <4> QED
        BY <2>1, <3>3, <4>1
    <3> QED
      BY <1>3, <2>1, <3>3, <3>4, <3>5, <3>6 DEF Notification, TInv, TypeOK, PcOK
  <2>3. CASE active_ws[t] = {}
    <3>1. /\ fin' = [fin EXCEPT ![t] = item]
          /\ tpc' = [tpc EXCEPT ![t] = "emplace"]
          /\ UNCHANGED <<broadcast_data, send_data, writing>>
      BY <1>3, <2>3 DEF Notification
    <3> HIDE DEF item
    <3>2. /\ tpc' \in [Threads -> {"wait", "closing", "emplace", "signal"}]
          /\ fin' \in [Threads -> ItemIdx \cup {NoItem}]
          /\ \A u \in Threads : tpc'[u] = "closing" => tpc[u] = "closing"
          /\ \A u \in Threads : tpc'[u] = "emplace" => fin'[u] \in ItemIdx
      BY <2>1, <3>1 DEF TInv, TypeOK, PcOK
    <3> QED
      BY <1>3, <2>1, <3>1, <3>2 DEF Notification, TInv, TypeOK, PcOK
  <2> QED
    BY <2>2, <2>3
<1>4. CASE ReportEmplace(t)
  BY <1>4, AppendRange DEF ReportEmplace, TInv, TypeOK, PcOK
<1>5. CASE ReportSignal(t)
  <2>1. central_efd \in [Threads -> Nat]
    BY DEF TInv, TypeOK
  <2>2. central_efd' \in [Threads -> Nat]
    BY <1>5, <2>1 DEF ReportSignal
  <2> QED
    BY <1>5, <2>2 DEF ReportSignal, TInv, TypeOK, PcOK
<1>6. CASE ClosePop(t)
  <2> DEFINE q == send_data[t][closing[t]]
  <2>1. closing[t] \in Clients /\ q \in Seq(ItemIdx \cup {Own}) /\ q # <<>>
    BY <1>6 DEF ClosePop, TInv, TypeOK, PcOK
  <2>2. Head(q) \in ItemIdx \cup {Own} /\ Tail(q) \in Seq(ItemIdx \cup {Own})
    BY <2>1, TailRange
  <2>3. /\ Used(t, Head(q), "closing") /\ closing' = closing
        /\ send_data' = [send_data EXCEPT ![t][closing[t]] = Tail(q)]
    BY <1>6 DEF ClosePop
  <2> HIDE DEF q
  <2>4. /\ tpc' \in [Threads -> {"wait", "closing", "emplace", "signal"}]
        /\ fin' \in [Threads -> ItemIdx \cup {NoItem}]
        /\ broadcast_data' \in [Threads -> [ItemIdx -> Int]]
        /\ \A u \in Threads : tpc'[u] = "closing" => closing'[u] \in Clients
        /\ \A u \in Threads : tpc'[u] = "emplace" => fin'[u] \in ItemIdx
    BY <2>1, <2>2, <2>3, UsedType
  <2>5. send_data' \in [Threads -> [Clients -> Seq(ItemIdx \cup {Own})]]
    BY <2>1, <2>2, <2>3 DEF TInv, TypeOK
  <2> QED
    BY <1>6, <2>4, <2>5 DEF ClosePop, TInv, TypeOK, PcOK
<1>7. CASE close_connection(t)
  BY <1>7 DEF close_connection, TInv, TypeOK, PcOK
<1>8. ASSUME NEW c \in Clients, ClientStep(t, c) PROVE TInv'
  <2>0. Own \in ItemIdx \cup {Own} /\ send_data[t][c] \in Seq(ItemIdx \cup {Own})
    BY DEF TInv, TypeOK
  <2>1. Append(send_data[t][c], Own) \in Seq(ItemIdx \cup {Own})
    BY <2>0, AppendRange
  <2>10. ASSUME write_connection(t, c)
         PROVE  /\ send_data' \in [Threads -> [Clients -> Seq(ItemIdx \cup {Own})]]
                /\ writing' \in [Threads -> [Clients -> ItemIdx \cup {Own, NoWrite}]]
    <3>1. send_data \in [Threads -> [Clients -> Seq(ItemIdx \cup {Own})]]
      BY DEF TInv, TypeOK
    <3>2. writing \in [Threads -> [Clients -> ItemIdx \cup {Own, NoWrite}]]
      BY DEF TInv, TypeOK
    <3> QED
      BY <2>1, <2>10, <3>1, <3>2 DEF write_connection
  <2>2. CASE Upgrade(t, c)
    <3>1. <<Own>> \in Seq(ItemIdx \cup {Own})
      OBVIOUS
    <3> QED
      BY <2>2, <3>1 DEF Upgrade, TInv, TypeOK, PcOK
  <2>3. CASE websocket_write(t, c)
    BY <2>10, <2>3 DEF websocket_write, TInv, TypeOK, PcOK
  <2>4. CASE close_ws_connection_req(t, c)
    BY <2>10, <2>4 DEF close_ws_connection_req, TInv, TypeOK, PcOK
  <2>5. CASE WriteDone(t, c)
    <3> DEFINE q == send_data[t][c]
               rest == Tail(q)
               next == IF rest = <<>> THEN NoWrite ELSE Head(rest)
    <3>1. q # <<>>
      BY <2>5 DEF WriteDone
    <3>2. Head(q) \in ItemIdx \cup {Own} /\ rest \in Seq(ItemIdx \cup {Own})
      BY <2>0, <3>1, TailRange
    <3> HIDE DEF rest
    <3>3. next \in ItemIdx \cup {Own, NoWrite}
      BY <3>2, TailRange
    <3>4. /\ send_data' = [send_data EXCEPT ![t][c] = rest]
          /\ writing' = [writing EXCEPT ![t][c] = next]
          /\ Used(t, Head(q), "wait") /\ closing' = closing
      BY <2>5 DEF WriteDone, rest
    <3> HIDE DEF q, next
    <3>5. /\ tpc' \in [Threads -> {"wait", "closing", "emplace", "signal"}]
          /\ fin' \in [Threads -> ItemIdx \cup {NoItem}]
          /\ broadcast_data' \in [Threads -> [ItemIdx -> Int]]
          /\ \A u \in Threads : tpc'[u] = "closing" => closing'[u] \in Clients
          /\ \A u \in Threads : tpc'[u] = "emplace" => fin'[u] \in ItemIdx
      BY <3>2, <3>4, UsedType
    <3>6. /\ send_data' \in [Threads -> [Clients -> Seq(ItemIdx \cup {Own})]]
          /\ writing' \in [Threads -> [Clients -> ItemIdx \cup {Own, NoWrite}]]
      BY <3>2, <3>3, <3>4 DEF TInv, TypeOK
    <3> QED
      BY <2>5, <3>5, <3>6 DEF WriteDone, TInv, TypeOK, PcOK
  <2>6. CASE WriteDoneUndefined(t, c)
    BY <2>6 DEF WriteDoneUndefined, TInv, TypeOK, PcOK
  <2>7. CASE WriteFail(t, c)
    BY <2>7 DEF WriteFail, BeginClose, TInv, TypeOK, PcOK
  <2>8. CASE ReadFail(t, c)
    BY <2>8 DEF ReadFail, BeginClose, TInv, TypeOK, PcOK
  <2>9. CASE Reap(t, c)
    BY <2>9 DEF Reap, BeginClose, TInv, TypeOK, PcOK
  <2> QED
    BY <1>8, <2>2, <2>3, <2>4, <2>5, <2>6, <2>7, <2>8, <2>9
    DEF ClientStep, WriteCompletes
<1> QED
  BY <1>1, <1>2, <1>3, <1>4, <1>5, <1>6, <1>7, <1>8 DEF ThreadStep, HandlerStep

\* A stuttering step keeps the types.
LEMMA TypeStutter == TInv /\ UNCHANGED vars => TInv'
  BY DEF vars, centralVars, wakeVars, queueVars, loopVars, clientVars, TInv, TypeOK, PcOK

\* The protocol is well typed, for any number of threads, clients and items: in
\* particular no handler reads a queue, a store slot or a client that is not there.
THEOREM TypeCorrect == Spec => []TypeOK
<1>1. TInv /\ [Next]_vars => TInv'
  BY TypeCentral, TypeThread, TypeStutter DEF Next
<1>2. TInv => TypeOK
  BY DEF TInv
<1> QED
  BY TypeInit, <1>1, <1>2, PTL DEF Spec

-----------------------------------------------------------------------------
(* Wake-ups.  Every pending wake-up, whether it is still in the eventfd or   *)
(* already a completion, and one about to be sent, has a message of its own. *)

One(b) == IF b THEN 1 ELSE 0

\* Wake-ups of the server thread, and of the central thread by it.
ToServer(t) ==
  notification_efd[t] + One(notification_read[t] = "cqe")
                      + One(cpc = "notify" /\ cur_thread = t)
ToCentral(t) ==
  central_efd[t] + One(central_read[t] = "cqe") + One(tpc[t] = "signal")

WakeInv ==
  \A t \in Threads : /\ ToServer(t) <= Len(to_server_queue[t])
                     /\ ToCentral(t) <= Len(to_program_queue[t])

WInv == TInv /\ WakeInv

\* The types the wake-ups need.
WakeTypes ==
  /\ cur_thread \in Threads
  /\ central_efd \in [Threads -> Nat] /\ notification_efd \in [Threads -> Nat]
  /\ central_read \in [Threads -> {"armed", "cqe"}]
  /\ notification_read \in [Threads -> {"armed", "cqe"}]
  /\ to_server_queue \in [Threads -> Seq(ItemIdx)]
  /\ to_program_queue \in [Threads -> Seq(ItemIdx)]
  /\ tpc \in [Threads -> {"wait", "closing", "emplace", "signal"}]
  /\ \A t \in Threads : /\ Len(to_server_queue[t]) \in Nat
                        /\ Len(to_program_queue[t]) \in Nat

\* These types follow from the type invariant.
LEMMA WakeTyped == TInv => WakeTypes
<1>1. \A q \in Seq(ItemIdx) : Len(q) \in Nat
  OBVIOUS
<1> QED
  BY <1>1 DEF TInv, TypeOK, WakeTypes

\* Dequeuing takes at most one message, and the last one only if there is one.
LEMMA RestLen ==
  ASSUME NEW q \in Seq(ItemIdx)
  PROVE  Len(Rest(q)) \in Nat /\ Len(Rest(q)) >= Len(q) - 1 /\ Len(q) \in Nat
<1>1. CASE q = <<>>
  BY <1>1, EmptyRange DEF Rest
<1>2. CASE q # <<>>
  BY <1>2, TailRange DEF Rest
<1> QED
  BY <1>1, <1>2

\* The central thread announces what it has queued, and takes what was announced.
LEMMA WakeCentral == WInv /\ CentralStep => WakeInv'
<1> SUFFICES ASSUME WInv, CentralStep PROVE WakeInv'
  OBVIOUS
<1> USE DEF centralVars, wakeVars, queueVars, loopVars, clientVars
<1>0. WakeTypes /\ WakeInv
  BY WakeTyped DEF WInv
<1>1. CASE Timer
  BY <1>0, <1>1 DEF Timer, WakeInv, WakeTypes, ToServer, ToCentral, One
<1>2. CASE PostSkipped
  BY <1>0, <1>2 DEF PostSkipped, NextThread, WakeInv, WakeTypes, ToServer, ToCentral, One
<1>3. CASE PostEmplace
  <2>1. cur_item \in ItemIdx
    BY <1>3 DEF PostEmplace, WInv, TInv, PcOK
  <2>2. Len(Append(to_server_queue[cur_thread], cur_item)) = Len(to_server_queue[cur_thread]) + 1
    BY <1>0, <2>1, AppendRange DEF WakeTypes
  <2> QED
    BY <1>0, <1>3, <2>2 DEF PostEmplace, WakeInv, WakeTypes, ToServer, ToCentral, One
<1>4. CASE PostNotify
  BY <1>0, <1>4 DEF PostNotify, NextThread, WakeInv, WakeTypes, ToServer, ToCentral, One
<1>5. ASSUME NEW t \in Threads, CentralRead(t) PROVE WakeInv'
  BY <1>0, <1>5 DEF CentralRead, WakeInv, WakeTypes, ToServer, ToCentral, One
<1>6. ASSUME NEW t \in Threads, ThreadCommunication(t) PROVE WakeInv'
  <2>1. /\ Len(Rest(to_program_queue[t])) \in Nat
        /\ Len(Rest(to_program_queue[t])) >= Len(to_program_queue[t]) - 1
    BY <1>0, RestLen DEF WakeTypes
  <2> QED
    BY <1>0, <1>6, <2>1 DEF ThreadCommunication, WakeInv, WakeTypes, ToServer, ToCentral, One
<1> QED
  BY <1>1, <1>2, <1>3, <1>4, <1>5, <1>6 DEF CentralStep

\* A server thread announces what it has queued, and takes what was announced.
LEMMA WakeThread == ASSUME NEW t \in Threads PROVE WInv /\ ThreadStep(t) => WakeInv'
<1> SUFFICES ASSUME WInv, ThreadStep(t) PROVE WakeInv'
  OBVIOUS
<1> USE DEF centralVars, wakeVars, queueVars, loopVars, clientVars
<1>0. WakeTypes /\ WakeInv
  BY WakeTyped DEF WInv
<1>1. CASE set_tcp_server(t)
  BY <1>0, <1>1 DEF set_tcp_server, WakeInv, WakeTypes, ToServer, ToCentral, One
<1>2. CASE NotificationRead(t)
  BY <1>0, <1>2 DEF NotificationRead, WakeInv, WakeTypes, ToServer, ToCentral, One
<1>3. CASE Notification(t)
  <2>1. /\ Len(Rest(to_server_queue[t])) \in Nat
        /\ Len(Rest(to_server_queue[t])) >= Len(to_server_queue[t]) - 1
    BY <1>0, RestLen DEF WakeTypes
  <2>2. /\ notification_read[t] = "cqe"
        /\ notification_read' = [notification_read EXCEPT ![t] = "armed"]
        /\ to_server_queue' = [to_server_queue EXCEPT ![t] = Rest(@)]
        /\ tpc' = tpc \/ tpc' = [tpc EXCEPT ![t] = "emplace"]
        /\ UNCHANGED <<cpc, cur_thread, central_efd, central_read, notification_efd,
                       to_program_queue>>
    BY <1>3 DEF Notification
  <2>3. ASSUME NEW u \in Threads PROVE ToServer(u)' <= Len(to_server_queue'[u])
    <3>1. /\ notification_efd[u] \in Nat /\ Len(to_server_queue[u]) \in Nat
          /\ ToServer(u) <= Len(to_server_queue[u])
      BY <1>0 DEF WakeTypes, WakeInv
    <3>2. u # t => /\ notification_read'[u] = notification_read[u]
                   /\ to_server_queue'[u] = to_server_queue[u]
      BY <1>0, <2>2 DEF WakeTypes
    <3>3. /\ notification_read'[t] = "armed"
          /\ to_server_queue'[t] = Rest(to_server_queue[t])
      BY <1>0, <2>2 DEF WakeTypes
    <3>4. CASE u = t
      BY <2>1, <2>2, <3>1, <3>3, <3>4 DEF ToServer, One
    <3>5. CASE u # t
      BY <2>2, <3>1, <3>2, <3>5 DEF ToServer, One
    <3> QED
      BY <3>4, <3>5
  <2>4. ASSUME NEW u \in Threads PROVE ToCentral(u)' <= Len(to_program_queue'[u])
    <3>1. /\ central_efd[u] \in Nat /\ Len(to_program_queue[u]) \in Nat
          /\ ToCentral(u) <= Len(to_program_queue[u])
      BY <1>0 DEF WakeTypes, WakeInv
    <3>2. tpc'[u] = "signal" => tpc[u] = "signal"
      BY <1>0, <2>2 DEF WakeTypes
    <3> QED
      BY <2>2, <3>1, <3>2 DEF ToCentral, One
  <2> QED
    BY <2>3, <2>4 DEF WakeInv
<1>4. CASE ReportEmplace(t)
  <2>1. fin[t] \in ItemIdx
    BY <1>4 DEF ReportEmplace, WInv, TInv, PcOK
  <2>2. Len(Append(to_program_queue[t], fin[t])) = Len(to_program_queue[t]) + 1
    BY <1>0, <2>1, AppendRange DEF WakeTypes
  <2> QED
    BY <1>0, <1>4, <2>2 DEF ReportEmplace, WakeInv, WakeTypes, ToServer, ToCentral, One
<1>5. CASE ReportSignal(t)
  BY <1>0, <1>5 DEF ReportSignal, WakeInv, WakeTypes, ToServer, ToCentral, One
<1>6. ASSUME /\ UNCHANGED <<centralVars, wakeVars, queueVars>>
             /\ \/ tpc' = tpc
                \/ \E pc \in {"wait", "closing", "emplace"} : tpc' = [tpc EXCEPT ![t] = pc]
      PROVE  WakeInv'
  <2> SUFFICES ASSUME NEW u \in Threads
               PROVE  /\ ToServer(u)' <= Len(to_server_queue'[u])
                      /\ ToCentral(u)' <= Len(to_program_queue'[u])
    BY DEF WakeInv
  <2>1. /\ ToServer(u) <= Len(to_server_queue[u])
        /\ ToCentral(u) <= Len(to_program_queue[u])
        /\ central_efd[u] \in Nat /\ Len(to_program_queue[u]) \in Nat
    BY <1>0 DEF WakeTypes, WakeInv
  <2>2. tpc'[u] = "signal" => tpc[u] = "signal"
    BY <1>0, <1>6 DEF WakeTypes
  <2>3. ToServer(u)' = ToServer(u)
    BY <1>6 DEF ToServer
  <2> QED
    BY <1>6, <2>1, <2>2, <2>3 DEF ToCentral, One
<1>7. ASSUME NEW item, NEW pc \in {"wait", "closing"}, Used(t, item, pc)
      PROVE  \E p \in {"wait", "closing", "emplace"} : tpc' = [tpc EXCEPT ![t] = p]
  BY <1>7 DEF Used
<1>8. CASE ClosePop(t) \/ close_connection(t)
  BY <1>6, <1>7, <1>8 DEF ClosePop, close_connection
<1>9. ASSUME NEW c \in Clients, ClientStep(t, c) PROVE WakeInv'
  BY <1>6, <1>7, <1>9
  DEF ClientStep, Upgrade, websocket_write, close_ws_connection_req, WriteCompletes,
      WriteDone, WriteDoneUndefined, WriteFail, ReadFail, Reap, BeginClose
<1> QED
  BY <1>1, <1>2, <1>3, <1>4, <1>5, <1>8, <1>9 DEF ThreadStep, HandlerStep

\* Initially there is nothing to announce.
LEMMA WakeInit == Init => WInv
  BY TypeInit, ConstantsAssumption, EmptyRange
  DEF Init, WInv, WakeInv, ToServer, ToCentral, One, Threads

\* Every step keeps the types and the wake-ups.
LEMMA WakeStep == WInv /\ [Next]_vars => WInv'
<1> SUFFICES ASSUME WInv, [Next]_vars PROVE WInv'
  OBVIOUS
<1>1. TInv'
  BY TypeCentral, TypeThread, TypeStutter DEF Next, WInv
<1>2. CASE UNCHANGED vars
  BY <1>1, <1>2 DEF WInv, WakeInv, ToServer, ToCentral, One, vars, centralVars, wakeVars,
               queueVars, loopVars
<1> QED
  BY <1>1, <1>2, WakeCentral, WakeThread DEF Next, WInv

\* A completion that is pending counts as a wake-up, so it has a message.
LEMMA WakeMeets == WInv => WakeupHasMessage
<1> SUFFICES ASSUME WInv, NEW t \in Threads
             PROVE  /\ notification_read[t] = "cqe" => to_server_queue[t] # <<>>
                    /\ central_read[t] = "cqe" => to_program_queue[t] # <<>>
  BY DEF WakeupHasMessage
<1>1. WakeTypes /\ WakeInv
  BY WakeTyped DEF WInv
<1>2. /\ notification_efd[t] \in Nat /\ central_efd[t] \in Nat
      /\ ToServer(t) <= Len(to_server_queue[t]) /\ Len(to_server_queue[t]) \in Nat
      /\ ToCentral(t) <= Len(to_program_queue[t]) /\ Len(to_program_queue[t]) \in Nat
  BY <1>1 DEF WakeTypes, WakeInv
<1>3. /\ notification_read[t] = "cqe" => Len(to_server_queue[t]) > 0
      /\ central_read[t] = "cqe" => Len(to_program_queue[t]) > 0
  BY <1>2 DEF ToServer, ToCentral, One
<1> QED
  BY <1>3, EmptyRange

\* No wake-up meets an empty queue, in either direction: neither event_cb nor the
\* central loop ever works on the default message, whose item_idx is 0.  It holds
\* because the message is queued before the eventfd is written and each wake-up
\* takes one message; coalesced wake-ups only leave messages behind.
THEOREM WakeupMeetsMessage == Spec => []WakeupHasMessage
  BY WakeInit, WakeStep, WakeMeets, PTL DEF Spec

-----------------------------------------------------------------------------
(* Who owns a broadcast buffer: theorems about the use counts of the data  *)
(* store and of the server threads, for any number of threads, clients and *)
(* items.                                                                  *)

\* A thread is in at most one stage with an item.
Excl(t, i) ==
  /\ ToBePosted(t, i) => ~Posted(t, i) /\ ~Sending(t, i) /\ ~Ending(t, i) /\ ~Reported(t, i)
  /\ Posted(t, i) => ~Sending(t, i) /\ ~Ending(t, i) /\ ~Reported(t, i)
  /\ Sending(t, i) => ~Ending(t, i) /\ ~Reported(t, i)
  /\ Ending(t, i) => ~Reported(t, i)

Counted(t, i) == Sending(t, i) => broadcast_data[t][i] = Cardinality(Holders(t, i))

QueuesOK(t) ==
  /\ NoDup(to_server_queue[t]) /\ NoDup(to_program_queue[t])
  /\ \A c \in Clients : NoDup(send_data[t][c])

\* Only open clients have something to send, and a close loop is for a client that
\* gets no more broadcasts.
ClientsOK(t) ==
  /\ tpc[t] = "wait" => closing[t] = NoClient
  /\ closing[t] \notin active_ws[t]
  /\ active_ws[t] \subseteq open[t]
  /\ \A c \in Clients : c \notin open[t] => send_data[t][c] = <<>>

ThreadOK(t) ==
  /\ QueuesOK(t) /\ ClientsOK(t)
  /\ \A i \in ItemIdx : Excl(t, i) /\ Counted(t, i)

\* A slot is free or has uses left; what insert_item may hand out is free.
StoreOK ==
  \A i \in ItemIdx :
    /\ data_vec[i] = -1 \/ data_vec[i] > 0
    /\ i \in free_idxs \/ i >= dv_size => data_vec[i] = -1
    /\ i \in free_idxs => i < dv_size

\* The uses left cover the threads that owe one.
Cover ==
  \A i \in ItemIdx :
    /\ data_vec[i] = -1 => \A t \in Threads : ~Owes(t, i)
    /\ data_vec[i] # -1 => Cardinality(Owing(i)) <= data_vec[i]

OInv == WInv /\ StoreOK /\ Cover /\ \A t \in Threads : ThreadOK(t)

-----------------------------------------------------------------------------
(* Steps that move no item, or move one on within a thread.                *)

\* A thread whose queues are left alone and that begins nothing keeps its part.
LEMMA Frame ==
  ASSUME NEW u \in Threads, ThreadOK(u), ClientsOK(u)',
         to_server_queue'[u] = to_server_queue[u],
         to_program_queue'[u] = to_program_queue[u],
         send_data'[u] = send_data[u],
         broadcast_data'[u] = broadcast_data[u],
         \A i \in ItemIdx : Ending(u, i)' <=> Ending(u, i),
         \A i \in ItemIdx : ToBePosted(u, i)' <=> ToBePosted(u, i)
  PROVE  ThreadOK(u)' /\ \A i \in ItemIdx : Owes(u, i)' <=> Owes(u, i)
<1>1. \A i \in ItemIdx : /\ Posted(u, i)' <=> Posted(u, i)
                         /\ Holders(u, i)' = Holders(u, i)
                         /\ Sending(u, i)' <=> Sending(u, i)
                         /\ Reported(u, i)' <=> Reported(u, i)
  BY DEF Posted, Sending, Holders, Reported
<1>2. QueuesOK(u)'
  BY DEF QueuesOK, ThreadOK
<1>3. ASSUME NEW i \in ItemIdx
      PROVE  Excl(u, i)' /\ Counted(u, i)' /\ (Owes(u, i)' <=> Owes(u, i))
  <2>1. Excl(u, i) /\ Counted(u, i)
    BY DEF ThreadOK
  <2> QED
    BY <1>1, <2>1 DEF Excl, Counted, Owes
<1> QED
  BY <1>2, <1>3 DEF ThreadOK

\* The number of threads is finite.
LEMMA ThreadsFinite == IsFiniteSet(Threads) /\ Cardinality(Threads) = NumThreads
<1>1. IsFiniteSet(0 .. NumThreads - 1)
      /\ Cardinality(0 .. NumThreads - 1)
           = IF 0 > NumThreads - 1 THEN 0 ELSE NumThreads - 1 - 0 + 1
  BY ConstantsAssumption, FS_Interval
<1> QED
  BY <1>1, ConstantsAssumption DEF Threads

\* As long as no thread owes more, the uses left go on covering what is owed.
LEMMA CoverKept ==
  ASSUME StoreOK, Cover, UNCHANGED <<data_vec, dv_size, free_idxs>>,
         data_vec \in [ItemIdx -> Int],
         \A u \in Threads : \A i \in ItemIdx : Owes(u, i)' => Owes(u, i)
  PROVE  StoreOK' /\ Cover'
<1>1. StoreOK'
  BY DEF StoreOK
<1>2. ASSUME NEW i \in ItemIdx
      PROVE  /\ data_vec'[i] = -1 => \A u \in Threads : ~Owes(u, i)'
             /\ data_vec'[i] # -1 => Cardinality(Owing(i)') <= data_vec'[i]
  <2>1. /\ data_vec[i] = -1 => \A u \in Threads : ~Owes(u, i)
        /\ data_vec[i] # -1 => Cardinality(Owing(i)) <= data_vec[i]
        /\ data_vec[i] \in Int
    BY DEF Cover
  <2>2. Owing(i)' \in SUBSET Owing(i) /\ Owing(i) \in SUBSET Threads
    BY DEF Owing
  <2>3. IsFiniteSet(Owing(i)) /\ IsFiniteSet(Owing(i)')
    BY <2>2, ThreadsFinite, FS_Subset
  <2>4. /\ Cardinality(Owing(i)') <= Cardinality(Owing(i))
        /\ Cardinality(Owing(i)) \in Nat /\ Cardinality(Owing(i)') \in Nat
    BY <2>2, <2>3, FS_Subset, FS_CardinalityType
  <2> QED
    BY <2>1, <2>4
<1> QED
  BY <1>1, <1>2 DEF Cover

\* What a step leaves behind that owes nothing new.
Kept ==
  \A u \in Threads : ThreadOK(u)' /\ \A i \in ItemIdx : Owes(u, i)' <=> Owes(u, i)

\* The state of thread u is left alone.
SameLocal(u) ==
  /\ to_server_queue'[u] = to_server_queue[u] /\ to_program_queue'[u] = to_program_queue[u]
  /\ tpc'[u] = tpc[u] /\ fin'[u] = fin[u] /\ closing'[u] = closing[u]
  /\ active_ws'[u] = active_ws[u] /\ open'[u] = open[u]
  /\ send_data'[u] = send_data[u] /\ broadcast_data'[u] = broadcast_data[u]

\* A thread that is left alone keeps its part.
LEMMA SameKept ==
  ASSUME NEW u \in Threads, ThreadOK(u), SameLocal(u), UNCHANGED <<cpc, cur_item, cur_thread>>
  PROVE  ThreadOK(u)' /\ \A i \in ItemIdx : Owes(u, i)' <=> Owes(u, i)
<1>1. ClientsOK(u)'
  BY DEF ThreadOK, ClientsOK, SameLocal
<1>2. \A i \in ItemIdx : Ending(u, i)' <=> Ending(u, i)
  BY DEF Ending, SameLocal
<1>3. \A i \in ItemIdx : ToBePosted(u, i)' <=> ToBePosted(u, i)
  BY DEF ToBePosted
<1> QED
  BY <1>1, <1>2, <1>3, Frame DEF SameLocal

\* A step of thread t alone.
LEMMA StepOf ==
  ASSUME NEW t \in Threads, \A u \in Threads : ThreadOK(u),
         UNCHANGED <<cpc, cur_item, cur_thread>>,
         \A u \in Threads \ {t} : SameLocal(u),
         ThreadOK(t)', \A i \in ItemIdx : Owes(t, i)' <=> Owes(t, i)
  PROVE  Kept
<1>1. ASSUME NEW u \in Threads \ {t}
      PROVE  ThreadOK(u)' /\ \A i \in ItemIdx : Owes(u, i)' <=> Owes(u, i)
  BY <1>1, SameKept
<1> QED
  BY <1>1 DEF Kept

\* The types these proofs need.
OTypes ==
  /\ cur_thread \in Threads /\ data_vec \in [ItemIdx -> Int]
  /\ to_server_queue \in [Threads -> Seq(ItemIdx)]
  /\ to_program_queue \in [Threads -> Seq(ItemIdx)]
  /\ tpc \in [Threads -> {"wait", "closing", "emplace", "signal"}]
  /\ fin \in [Threads -> ItemIdx \cup {NoItem}]
  /\ closing \in [Threads -> Clients \cup {NoClient}]
  /\ active_ws \in [Threads -> SUBSET Clients]
  /\ open \in [Threads -> SUBSET Clients]
  /\ send_data \in [Threads -> [Clients -> Seq(ItemIdx \cup {Own})]]
  /\ broadcast_data \in [Threads -> [ItemIdx -> Int]]

\* They follow from the type invariant.
LEMMA OTyped == TInv => OTypes
  BY DEF TInv, TypeOK, OTypes

\* Steps that leave the queues and the uses alone and start no report.
LEMMA QuietStep ==
  ASSUME NEW t \in Threads, OTypes, \A u \in Threads : ThreadOK(u),
         UNCHANGED <<cpc, cur_item, cur_thread, to_server_queue, to_program_queue, fin,
                     send_data, broadcast_data>>,
         \A u \in Threads \ {t} :
           /\ tpc'[u] = tpc[u] /\ closing'[u] = closing[u]
           /\ active_ws'[u] = active_ws[u] /\ open'[u] = open[u],
         tpc'[t] = "emplace" <=> tpc[t] = "emplace",
         ClientsOK(t)'
  PROVE  Kept
<1>1. \A u \in Threads \ {t} : SameLocal(u)
  BY DEF SameLocal
<1>2. \A i \in ItemIdx : Ending(t, i)' <=> Ending(t, i)
  BY DEF Ending
<1>3. \A i \in ItemIdx : ToBePosted(t, i)' <=> ToBePosted(t, i)
  BY DEF ToBePosted
<1>4. ThreadOK(t)' /\ \A i \in ItemIdx : Owes(t, i)' <=> Owes(t, i)
  BY <1>2, <1>3, Frame
<1> QED
  BY <1>1, <1>4, StepOf

\* kill_client at the start of a close loop.
LEMMA CloseQuiet ==
  ASSUME NEW t \in Threads, NEW c \in Clients, OTypes, \A u \in Threads : ThreadOK(u),
         tpc[t] = "wait", BeginClose(t, c)
  PROVE  Kept
<1> USE DEF centralVars, wakeVars, queueVars, loopVars, clientVars
<1>1. ClientsOK(t)
  BY DEF ThreadOK
<1>2. ClientsOK(t)'
  BY <1>1 DEF ClientsOK, BeginClose, OTypes
<1>3. /\ tpc'[t] = "closing"
      /\ \A u \in Threads \ {t} :
           /\ tpc'[u] = tpc[u] /\ closing'[u] = closing[u]
           /\ active_ws'[u] = active_ws[u] /\ open'[u] = open[u]
  BY DEF BeginClose, OTypes
<1> QED
  BY <1>2, <1>3, QuietStep DEF BeginClose

\* close_connection: a slot is given up with an empty send_data only.
LEMMA ConnectionQuiet ==
  ASSUME NEW t \in Threads, OTypes, \A u \in Threads : ThreadOK(u),
         close_connection(t)
  PROVE  Kept
<1> USE DEF centralVars, wakeVars, queueVars, loopVars, clientVars
<1>1. ClientsOK(t)
  BY DEF ThreadOK
<1>2. ClientsOK(t)'
  BY <1>1, ConstantsAssumption DEF ClientsOK, close_connection, OTypes
<1>3. /\ tpc'[t] = "wait"
      /\ \A u \in Threads \ {t} :
           /\ tpc'[u] = tpc[u] /\ closing'[u] = closing[u]
           /\ active_ws'[u] = active_ws[u] /\ open'[u] = open[u]
  BY DEF close_connection, OTypes
<1> QED
  BY <1>2, <1>3, QuietStep DEF close_connection

\* A report is announced: the thread goes back to what it was doing.
LEMMA SignalQuiet ==
  ASSUME NEW t \in Threads, OTypes, \A u \in Threads : ThreadOK(u), ReportSignal(t)
  PROVE  Kept
<1> USE DEF centralVars, wakeVars, queueVars, loopVars, clientVars
<1>1. ClientsOK(t)
  BY DEF ThreadOK
<1>2. ClientsOK(t)'
  BY <1>1 DEF ClientsOK, ReportSignal, OTypes
<1>3. /\ tpc'[t] # "emplace"
      /\ \A u \in Threads \ {t} :
           /\ tpc'[u] = tpc[u] /\ closing'[u] = closing[u]
           /\ active_ws'[u] = active_ws[u] /\ open'[u] = open[u]
  BY DEF ReportSignal, OTypes
<1> QED
  BY <1>2, <1>3, QuietStep DEF ReportSignal

\* Steps that touch nothing of this.
LEMMA NothingQuiet ==
  ASSUME NEW t \in Threads, OTypes, \A u \in Threads : ThreadOK(u),
         UNCHANGED <<cpc, cur_item, cur_thread, queueVars, loopVars, active_ws, open,
                     send_data, broadcast_data>>
  PROVE  Kept
<1> USE DEF queueVars, loopVars
<1>1. ClientsOK(t)'
  BY DEF ThreadOK, ClientsOK
<1> QED
  BY <1>1, QuietStep

-----------------------------------------------------------------------------
(* The thread's own writes and reports.                                    *)

\* Data of its own is queued for a client: the holders of every item stay the same.
LEMMA OwnWrite ==
  ASSUME NEW t \in Threads, NEW c \in Clients, NEW q \in Seq(ItemIdx \cup {Own}),
         OTypes, \A u \in Threads : ThreadOK(u),
         send_data' = [send_data EXCEPT ![t][c] = q],
         NoDup(q), \A i \in ItemIdx : i \in Range(q) <=> i \in Range(send_data[t][c]),
         UNCHANGED <<cpc, cur_item, cur_thread, queueVars, loopVars, broadcast_data>>,
         \A u \in Threads \ {t} : active_ws'[u] = active_ws[u] /\ open'[u] = open[u],
         ClientsOK(t)'
  PROVE  Kept
<1> USE DEF queueVars, loopVars
<1>1. /\ send_data'[t][c] = q
      /\ \A d \in Clients \ {c} : send_data'[t][d] = send_data[t][d]
      /\ \A u \in Threads \ {t} : send_data'[u] = send_data[u]
  BY DEF OTypes
<1>2. \A u \in Threads \ {t} : SameLocal(u)
  BY <1>1 DEF SameLocal
<1>3. QueuesOK(t)'
  BY <1>1 DEF QueuesOK, ThreadOK
<1>4. ASSUME NEW i \in ItemIdx
      PROVE  Excl(t, i)' /\ Counted(t, i)' /\ (Owes(t, i)' <=> Owes(t, i))
  <2>1. Excl(t, i) /\ Counted(t, i)
    BY DEF ThreadOK
  <2>2. Holders(t, i)' = Holders(t, i)
    BY <1>1 DEF Holders
  <2> QED
    BY <2>1, <2>2 DEF Excl, Counted, Owes, ToBePosted, Posted, Sending, Ending, Reported
<1>5. ThreadOK(t)'
  BY <1>3, <1>4 DEF ThreadOK
<1> QED
  BY <1>2, <1>4, <1>5, StepOf

\* A thread that is waiting upgrades a client.
LEMMA UpgradeKept ==
  ASSUME NEW t \in Threads, NEW c \in Clients, OTypes, \A u \in Threads : ThreadOK(u),
         Upgrade(t, c)
  PROVE  Kept
<1> USE DEF centralVars, wakeVars, queueVars, loopVars, clientVars
<1>1. ClientsOK(t) /\ tpc[t] = "wait" /\ closing[t] = NoClient
  BY DEF ThreadOK, ClientsOK, Upgrade, Ready
<1>2. send_data[t][c] = <<>>
  BY <1>1 DEF ClientsOK, Upgrade
<1>3. ClientsOK(t)'
  BY <1>1, ConstantsAssumption DEF ClientsOK, Upgrade, OTypes
<1>4. /\ <<Own>> \in Seq(ItemIdx \cup {Own}) /\ NoDup(<<Own>>)
      /\ \A i \in ItemIdx : i \notin Range(<<Own>>)
  BY DEF NoDup, Range, ItemIdx, Own
<1>5. \A i \in ItemIdx : i \in Range(<<Own>>) <=> i \in Range(send_data[t][c])
  BY <1>2, <1>4, EmptyRange
<1>6. \A u \in Threads \ {t} : active_ws'[u] = active_ws[u] /\ open'[u] = open[u]
  BY DEF Upgrade, OTypes
<1> QED
  BY <1>3, <1>4, <1>5, <1>6, OwnWrite DEF Upgrade

\* write_connection for a client that is active.
LEMMA WriteKept ==
  ASSUME NEW t \in Threads, NEW c \in active_ws[t], OTypes, \A u \in Threads : ThreadOK(u),
         write_connection(t, c), tpc[t] = "wait",
         active_ws' = active_ws \/ active_ws' = [active_ws EXCEPT ![t] = @ \ {c}],
         UNCHANGED <<cpc, cur_item, cur_thread, queueVars, loopVars, broadcast_data, open>>
  PROVE  Kept
<1> USE DEF queueVars, loopVars
<1> DEFINE q == Append(send_data[t][c], Own)
<1>1. c \in Clients /\ c \in open[t] /\ ClientsOK(t) /\ send_data[t][c] \in Seq(ItemIdx \cup {Own})
  BY DEF OTypes, ThreadOK, ClientsOK
<1>2. NoDup(send_data[t][c])
  BY <1>1 DEF ThreadOK, QueuesOK
<1>3. q \in Seq(ItemIdx \cup {Own}) /\ NoDup(q) /\ Range(q) = Range(send_data[t][c]) \cup {Own}
  BY <1>1, <1>2, AppendNoDup, AppendRange
<1>4. \A i \in ItemIdx : i \in Range(q) <=> i \in Range(send_data[t][c])
  <2>1. Own \notin ItemIdx
    BY DEF Own, ItemIdx
  <2> QED
    BY <1>3, <2>1
<1>5. send_data' = [send_data EXCEPT ![t][c] = q]
  BY DEF write_connection
<1>6. ClientsOK(t)'
  <2>1. \A d \in Clients : d # c => send_data'[t][d] = send_data[t][d]
    BY <1>5 DEF OTypes
  <2>2. active_ws'[t] \subseteq active_ws[t]
    BY DEF OTypes
  <2> QED
    BY <1>1, <2>1, <2>2 DEF ClientsOK
<1>7. \A u \in Threads \ {t} : active_ws'[u] = active_ws[u] /\ open'[u] = open[u]
  BY DEF OTypes
<1> HIDE DEF q
<1> QED
  BY <1>1, <1>3, <1>4, <1>5, <1>6, <1>7, OwnWrite

\* An item that the thread is done with is reported.
LEMMA ReportKept ==
  ASSUME NEW t \in Threads, OTypes, \A u \in Threads : ThreadOK(u), fin[t] \in ItemIdx,
         ReportEmplace(t)
  PROVE  Kept
<1> USE DEF centralVars, wakeVars, queueVars, loopVars, clientVars
<1> DEFINE f == fin[t]
           q == to_program_queue[t]
<1>1. \A u \in Threads \ {t} : SameLocal(u)
  BY DEF SameLocal, ReportEmplace, OTypes
<1>2. /\ tpc[t] = "emplace" /\ tpc'[t] = "signal"
      /\ to_program_queue'[t] = Append(q, f)
      /\ q \in Seq(ItemIdx)
  BY DEF ReportEmplace, OTypes
<1>3. Excl(t, f) /\ Ending(t, f) /\ ~Reported(t, f)
  BY <1>2 DEF ThreadOK, Excl, Ending
<1>4. NoDup(q) /\ f \notin Range(q)
  BY <1>3 DEF ThreadOK, QueuesOK, Reported
<1>5. Range(Append(q, f)) = Range(q) \cup {f} /\ NoDup(Append(q, f))
  BY <1>2, <1>4, AppendRange, AppendNoDup
<1>6. QueuesOK(t)' /\ ClientsOK(t)'
  BY <1>2, <1>5 DEF QueuesOK, ClientsOK, ThreadOK, ReportEmplace
<1>7. ASSUME NEW i \in ItemIdx
      PROVE  Excl(t, i)' /\ Counted(t, i)' /\ (Owes(t, i)' <=> Owes(t, i))
  <2>1. Excl(t, i) /\ Counted(t, i)
    BY DEF ThreadOK
  <2>2. /\ ToBePosted(t, i)' <=> ToBePosted(t, i)
        /\ Posted(t, i)' <=> Posted(t, i)
        /\ Holders(t, i)' = Holders(t, i)
        /\ broadcast_data'[t][i] = broadcast_data[t][i]
    BY DEF ToBePosted, Posted, Holders, ReportEmplace
  <2>3. /\ ~Ending(t, i)' /\ (Ending(t, i) <=> i = f)
        /\ Reported(t, i)' <=> Reported(t, i) \/ i = f
    BY <1>2, <1>5 DEF Ending, Reported
  <2> QED
    BY <1>3, <2>1, <2>2, <2>3 DEF Excl, Counted, Owes, Sending
<1>8. ThreadOK(t)'
  BY <1>6, <1>7 DEF ThreadOK
<1> QED
  BY <1>1, <1>7, <1>8, StepOf DEF ReportEmplace

-----------------------------------------------------------------------------
(* An element leaves send_data: the use count and the report.              *)

\* The set of holders is finite.
LEMMA HoldersFinite ==
  ASSUME NEW t, NEW i
  PROVE  IsFiniteSet(Holders(t, i)) /\ Cardinality(Holders(t, i)) \in Nat
<1>1. Holders(t, i) \in SUBSET Clients
  BY DEF Holders
<1> QED
  BY <1>1, ConstantsAssumption, FS_Subset, FS_CardinalityType

\* write_cb and close_cb: the last client that has an item reports it.
LEMMA PopKept ==
  ASSUME NEW t \in Threads, NEW c \in Clients, OTypes, \A u \in Threads : ThreadOK(u),
         tpc[t] \in {"wait", "closing"}, send_data[t][c] # <<>>,
         send_data' = [send_data EXCEPT ![t][c] = Tail(send_data[t][c])],
         Used(t, Head(send_data[t][c]), tpc[t]),
         UNCHANGED <<cpc, cur_item, cur_thread, queueVars, closing, active_ws, open>>
  PROVE  Kept
<1> USE DEF queueVars
<1>a. PICK q \in Seq(ItemIdx \cup {Own}) : q = send_data[t][c]
  BY DEF OTypes
<1>b. PICK h \in ItemIdx \cup {Own} : h = Head(q)
  BY <1>a, TailRange
<1>c. PICK rest \in Seq(ItemIdx \cup {Own}) : rest = Tail(q)
  BY <1>a, TailRange
<1>1. NoDup(q) /\ ClientsOK(t) /\ QueuesOK(t)
  BY <1>a DEF OTypes, ThreadOK, QueuesOK
<1>2. /\ Range(q) = Range(rest) \cup {h} /\ NoDup(rest)
      /\ h # Own => h \notin Range(rest)
  BY <1>a, <1>b, <1>c, <1>1, TailRange, TailNoDup
<1>3. /\ send_data[t][c] = q /\ send_data'[t][c] = rest
      /\ \A d \in Clients \ {c} : send_data'[t][d] = send_data[t][d]
      /\ \A u \in Threads \ {t} : send_data'[u] = send_data[u]
  BY <1>a, <1>c DEF OTypes
<1>4. c \in open[t]
  BY <1>1 DEF ClientsOK
<1>5. QueuesOK(t)'
  BY <1>1, <1>2, <1>3 DEF QueuesOK
<1>6. \A i \in ItemIdx : i # h => Holders(t, i)' = Holders(t, i)
  <2>1. ASSUME NEW i \in ItemIdx, i # h, NEW d \in Clients
        PROVE  i \in Range(send_data'[t][d]) <=> i \in Range(send_data[t][d])
    <3>1. i \in Range(q) <=> i \in Range(rest)
      BY <1>2, <2>1
    <3> QED
      BY <1>3, <3>1
  <2> QED
    BY <2>1 DEF Holders
<1>7. \A i \in ItemIdx : /\ ToBePosted(t, i)' <=> ToBePosted(t, i)
                         /\ Posted(t, i)' <=> Posted(t, i)
                         /\ Reported(t, i)' <=> Reported(t, i)
                         /\ ~Ending(t, i)
  BY DEF ToBePosted, Posted, Reported, Ending
<1>8. \A i \in ItemIdx : Excl(t, i) /\ Counted(t, i)
  BY DEF ThreadOK
<1>9. CASE h = Own
  <2>1. tpc' = tpc /\ broadcast_data' = broadcast_data /\ fin' = fin
    BY <1>a, <1>b, <1>9 DEF Used, OTypes
  <2>2. \A i \in ItemIdx : i # h
    BY <1>9 DEF Own, ItemIdx
  <2>3. ClientsOK(t)'
    BY <1>1, <1>3, <1>4, <2>1 DEF ClientsOK
  <2>4. \A u \in Threads \ {t} : SameLocal(u)
    BY <1>3, <2>1 DEF SameLocal
  <2>5. \A i \in ItemIdx : Excl(t, i)' /\ Counted(t, i)' /\ (Owes(t, i)' <=> Owes(t, i))
    BY <1>6, <1>7, <1>8, <2>1, <2>2 DEF Excl, Counted, Owes, Sending, Ending
  <2>6. ThreadOK(t)'
    BY <1>5, <2>3, <2>5 DEF ThreadOK
  <2> QED
    BY <2>4, <2>5, <2>6, StepOf
<1>10. CASE h # Own
  <2>1. /\ h \in ItemIdx
        /\ broadcast_data' = [broadcast_data EXCEPT ![t][h] = @ - 1]
        /\ IF broadcast_data[t][h] = 1
           THEN fin' = [fin EXCEPT ![t] = h] /\ tpc' = [tpc EXCEPT ![t] = "emplace"]
           ELSE tpc' = [tpc EXCEPT ![t] = tpc[t]] /\ fin' = fin
    BY <1>a, <1>b, <1>10 DEF Used
  <2>2. c \in Holders(t, h) /\ Holders(t, h)' = Holders(t, h) \ {c}
    BY <1>2, <1>3, <1>10 DEF Holders
  <2>3. /\ Cardinality(Holders(t, h)) \in Nat
        /\ Cardinality(Holders(t, h)') = Cardinality(Holders(t, h)) - 1
    BY <2>2, HoldersFinite, FS_RemoveElement
  <2>4. broadcast_data[t][h] = Cardinality(Holders(t, h))
    BY <1>8, <2>1, <2>2 DEF Counted, Sending
  <2>5. Cardinality(Holders(t, h)') = 0 <=> Holders(t, h)' = {}
    BY <2>2, HoldersFinite, FS_RemoveElement, FS_EmptySet
  <2>6. /\ broadcast_data'[t][h] = broadcast_data[t][h] - 1
        /\ \A i \in ItemIdx \ {h} : broadcast_data'[t][i] = broadcast_data[t][i]
        /\ \A u \in Threads \ {t} : /\ broadcast_data'[u] = broadcast_data[u]
                                    /\ tpc'[u] = tpc[u] /\ fin'[u] = fin[u]
    BY <2>1 DEF OTypes
  <2>7. tpc'[t] = "emplace" \/ tpc'[t] = tpc[t]
    BY <2>1 DEF OTypes
  <2>8. ClientsOK(t)'
    BY <1>1, <1>3, <1>4, <2>7 DEF ClientsOK
  <2>9. \A u \in Threads \ {t} : SameLocal(u)
    BY <1>3, <2>6 DEF SameLocal
  <2>10. \/ ~Sending(t, h)' /\ \A i \in ItemIdx : Ending(t, i)' <=> i = h
         \/ Sending(t, h)' /\ \A i \in ItemIdx : ~Ending(t, i)'
    <3>1. CASE broadcast_data[t][h] = 1
      <4>1. tpc'[t] = "emplace" /\ fin'[t] = h
        BY <2>1, <3>1 DEF OTypes
      <4>2. ~Sending(t, h)'
        BY <2>3, <2>4, <2>5, <3>1 DEF Sending
      <4> QED
        BY <4>1, <4>2 DEF Ending
    <3>2. CASE broadcast_data[t][h] # 1
      <4>1. tpc'[t] = tpc[t]
        BY <2>1, <3>2 DEF OTypes
      <4>2. Sending(t, h)'
        BY <2>3, <2>4, <2>5, <3>2 DEF Sending
      <4> QED
        BY <4>1, <4>2 DEF Ending
    <3> QED
      BY <3>1, <3>2
  <2>11. Sending(t, h)
    BY <2>2 DEF Sending
  <2>12. ASSUME NEW i \in ItemIdx
         PROVE  Excl(t, i)' /\ Counted(t, i)' /\ (Owes(t, i)' <=> Owes(t, i))
    <3>1. CASE i = h
      <4>1. Counted(t, i)'
        BY <2>3, <2>4, <2>6, <3>1 DEF Counted
      <4> QED
        BY <1>7, <1>8, <2>10, <2>11, <3>1, <4>1 DEF Excl, Owes
    <3>2. CASE i # h
      <4>1. ~Ending(t, i)'
        BY <2>10, <3>2
      <4>2. (Sending(t, i)' <=> Sending(t, i)) /\ Counted(t, i)'
        BY <1>6, <1>8, <2>6, <3>2 DEF Sending, Counted
      <4> QED
        BY <1>7, <1>8, <4>1, <4>2 DEF Excl, Owes
    <3> QED
      BY <3>1, <3>2
  <2>13. ThreadOK(t)'
    BY <1>5, <2>8, <2>12 DEF ThreadOK
  <2> QED
    BY <2>9, <2>12, <2>13, StepOf
<1> QED
  BY <1>9, <1>10

-----------------------------------------------------------------------------
(* event_cb: a message becomes a broadcast, or is reported at once.         *)

\* The item of a notification goes from the queue to the clients, or to the report.
LEMMA NotificationKept ==
  ASSUME NEW t \in Threads, OTypes, \A u \in Threads : ThreadOK(u),
         to_server_queue[t] # <<>>, Notification(t)
  PROVE  Kept
<1> USE DEF centralVars, queueVars
<1>a. PICK q \in Seq(ItemIdx) : q = to_server_queue[t]
  BY DEF OTypes
<1>b. PICK h \in ItemIdx : h = Head(q)
  BY <1>a, TailRange
<1>c. PICK rest \in Seq(ItemIdx) : rest = Tail(q)
  BY <1>a, TailRange
<1>1. ClientsOK(t) /\ QueuesOK(t) /\ NoDup(q) /\ \A i \in ItemIdx : Excl(t, i) /\ Counted(t, i)
  BY <1>a DEF ThreadOK, QueuesOK
<1>2. /\ Range(q) = Range(rest) \cup {h} /\ NoDup(rest) /\ h \notin Range(rest) /\ h # Own
  <2>1. h # Own
    BY <1>b DEF ItemIdx, Own
  <2> QED
    BY <1>a, <1>b, <1>c, <1>1, <2>1, TailRange, TailNoDup
<1>3. Dequeued(to_server_queue[t]) = h /\ Rest(to_server_queue[t]) = rest
  BY <1>a, <1>b, <1>c DEF Dequeued, Rest
<1>4. /\ to_server_queue'[t] = rest
      /\ \A u \in Threads \ {t} : to_server_queue'[u] = to_server_queue[u]
      /\ UNCHANGED <<cpc, cur_item, cur_thread, to_program_queue, closing, active_ws, open>>
      /\ tpc[t] = "wait"
  BY <1>3 DEF Notification, Ready, OTypes
<1>5. Posted(t, h) /\ ~ToBePosted(t, h) /\ ~Sending(t, h) /\ ~Ending(t, h) /\ ~Reported(t, h)
  <2>1. Posted(t, h)
    BY <1>a, <1>2 DEF Posted
  <2> QED
    BY <1>1, <2>1 DEF Excl
<1>6. \A i \in ItemIdx : /\ ToBePosted(t, i)' <=> ToBePosted(t, i)
                         /\ Reported(t, i)' <=> Reported(t, i)
                         /\ Posted(t, i)' <=> Posted(t, i) /\ i # h
                         /\ ~Ending(t, i)
  <2>1. \A i \in ItemIdx : i \in Range(rest) <=> i \in Range(q) /\ i # h
    BY <1>2
  <2> QED
    BY <1>a, <1>4, <2>1 DEF ToBePosted, Posted, Reported, Ending
<1>7. CASE active_ws[t] = {}
  <2>1. /\ fin' = [fin EXCEPT ![t] = h] /\ tpc' = [tpc EXCEPT ![t] = "emplace"]
        /\ UNCHANGED <<broadcast_data, send_data>>
    BY <1>3, <1>7 DEF Notification
  <2>2. /\ fin'[t] = h /\ tpc'[t] = "emplace"
        /\ \A u \in Threads \ {t} : fin'[u] = fin[u] /\ tpc'[u] = tpc[u]
    BY <2>1 DEF OTypes
  <2>3. \A u \in Threads \ {t} : SameLocal(u)
    BY <1>4, <2>1, <2>2 DEF SameLocal
  <2>4. QueuesOK(t)' /\ ClientsOK(t)'
    BY <1>1, <1>2, <1>4, <2>1, <2>2 DEF QueuesOK, ClientsOK
  <2>5. \A i \in ItemIdx : /\ Ending(t, i)' <=> i = h
                           /\ Holders(t, i)' = Holders(t, i)
                           /\ Sending(t, i)' <=> Sending(t, i)
    BY <2>1, <2>2 DEF Ending, Holders, Sending
  <2>6. ASSUME NEW i \in ItemIdx
        PROVE  Excl(t, i)' /\ Counted(t, i)' /\ (Owes(t, i)' <=> Owes(t, i))
    BY <1>1, <1>5, <1>6, <2>1, <2>5 DEF Excl, Counted, Owes
  <2>7. ThreadOK(t)'
    BY <2>4, <2>6 DEF ThreadOK
  <2> QED
    BY <1>4, <2>3, <2>6, <2>7, StepOf
<1>8. CASE active_ws[t] # {}
  <2>1. /\ broadcast_data' = [broadcast_data EXCEPT ![t][h] = Cardinality(active_ws[t])]
        /\ send_data' = [send_data EXCEPT ![t] =
             [c \in Clients |-> IF c \in active_ws[t] THEN Append(@[c], h) ELSE @[c]]]
        /\ UNCHANGED <<tpc, fin>>
    BY <1>3, <1>8 DEF Notification, broadcast_uses
  <2>2. /\ \A c \in Clients : send_data'[t][c] = IF c \in active_ws[t]
                                                 THEN Append(send_data[t][c], h)
                                                 ELSE send_data[t][c]
        /\ \A u \in Threads \ {t} : /\ send_data'[u] = send_data[u]
                                    /\ broadcast_data'[u] = broadcast_data[u]
        /\ broadcast_data'[t][h] = Cardinality(active_ws[t])
        /\ \A i \in ItemIdx \ {h} : broadcast_data'[t][i] = broadcast_data[t][i]
    BY <2>1 DEF OTypes
  <2>3. \A u \in Threads \ {t} : SameLocal(u)
    BY <1>4, <2>1, <2>2 DEF SameLocal
  <2>4. \A c \in Clients : send_data[t][c] \in Seq(ItemIdx \cup {Own}) /\ h \notin Range(send_data[t][c])
    BY <1>5 DEF OTypes, Sending, Holders
  <2>5. ASSUME NEW c \in Clients
        PROVE  /\ NoDup(Append(send_data[t][c], h))
               /\ Range(Append(send_data[t][c], h)) = Range(send_data[t][c]) \cup {h}
    BY <1>1, <2>4, AppendRange, AppendNoDup DEF QueuesOK
  <2>6. QueuesOK(t)'
    BY <1>1, <1>2, <1>4, <2>2, <2>5 DEF QueuesOK
  <2>7. ClientsOK(t)'
    BY <1>1, <1>4, <2>1, <2>2 DEF ClientsOK
  <2>8. Holders(t, h)' = active_ws[t]
    <3>1. ASSUME NEW c \in Clients PROVE h \in Range(send_data'[t][c]) <=> c \in active_ws[t]
      BY <2>2, <2>4, <2>5
    <3>2. active_ws[t] \subseteq Clients
      BY DEF OTypes
    <3> QED
      BY <3>1, <3>2 DEF Holders
  <2>9. ASSUME NEW i \in ItemIdx, i # h PROVE Holders(t, i)' = Holders(t, i)
    <3>1. ASSUME NEW c \in Clients
          PROVE  i \in Range(send_data'[t][c]) <=> i \in Range(send_data[t][c])
      BY <2>2, <2>5, <2>9
    <3> QED
      BY <3>1 DEF Holders
  <2>10. \A i \in ItemIdx : ~Ending(t, i)'
    BY <1>4, <2>1 DEF Ending
  <2>11. ASSUME NEW i \in ItemIdx
         PROVE  Excl(t, i)' /\ Counted(t, i)' /\ (Owes(t, i)' <=> Owes(t, i))
    <3>1. CASE i = h
      <4>1. Counted(t, i)' /\ Sending(t, i)'
        BY <1>8, <2>2, <2>8, <3>1 DEF Counted, Sending
      <4> QED
        BY <1>5, <1>6, <2>10, <3>1, <4>1 DEF Excl, Owes
    <3>2. CASE i # h
      <4>1. (Sending(t, i)' <=> Sending(t, i)) /\ Counted(t, i)'
        BY <1>1, <2>2, <2>9, <3>2 DEF Sending, Counted
      <4> QED
        BY <1>1, <1>6, <2>10, <3>2, <4>1 DEF Excl, Owes
    <3> QED
      BY <3>1, <3>2
  <2>12. ThreadOK(t)'
    BY <2>6, <2>7, <2>11 DEF ThreadOK
  <2> QED
    BY <1>4, <2>3, <2>11, <2>12, StepOf
<1> QED
  BY <1>7, <1>8

-----------------------------------------------------------------------------
(* Every step of a server thread.                                          *)

\* A server thread takes on no use it did not owe.
LEMMA ThreadKept ==
  ASSUME NEW t \in Threads, OInv, ThreadStep(t)
  PROVE  Kept
<1> USE DEF centralVars, wakeVars, queueVars, loopVars, clientVars
<1>0. OTypes /\ PcOK /\ WakeupHasMessage /\ \A u \in Threads : ThreadOK(u)
  BY OTyped, WakeMeets DEF OInv, WInv, TInv
<1>1. CASE set_tcp_server(t) \/ NotificationRead(t)
  BY <1>0, <1>1, NothingQuiet DEF set_tcp_server, NotificationRead
<1>2. CASE Notification(t)
  <2>1. to_server_queue[t] # <<>>
    BY <1>0, <1>2 DEF WakeupHasMessage, Notification
  <2> QED
    BY <1>0, <1>2, <2>1, NotificationKept
<1>3. CASE ReportEmplace(t)
  <2>1. fin[t] \in ItemIdx
    BY <1>0, <1>3 DEF PcOK, ReportEmplace
  <2> QED
    BY <1>0, <1>3, <2>1, ReportKept
<1>4. CASE ReportSignal(t)
  BY <1>0, <1>4, SignalQuiet
<1>5. CASE ClosePop(t)
  <2>1. closing[t] \in Clients /\ tpc[t] = "closing"
    BY <1>0, <1>5 DEF PcOK, ClosePop
  <2>2. PICK c \in Clients : c = closing[t]
    BY <2>1
  <2>3. /\ send_data[t][c] # <<>>
        /\ send_data' = [send_data EXCEPT ![t][c] = Tail(send_data[t][c])]
        /\ Used(t, Head(send_data[t][c]), tpc[t])
        /\ UNCHANGED <<cpc, cur_item, cur_thread, queueVars, closing, active_ws, open>>
    BY <1>5, <2>1, <2>2 DEF ClosePop
  <2> QED
    BY <1>0, <2>1, <2>3, PopKept
<1>6. CASE close_connection(t)
  BY <1>0, <1>6, ConnectionQuiet
<1>7. ASSUME NEW c \in Clients, ClientStep(t, c) PROVE Kept
  <2>1. CASE Upgrade(t, c)
    BY <1>0, <2>1, UpgradeKept
  <2>2. CASE websocket_write(t, c) \/ close_ws_connection_req(t, c)
    <3>1. /\ c \in active_ws[t] /\ write_connection(t, c) /\ tpc[t] = "wait"
          /\ active_ws' = active_ws \/ active_ws' = [active_ws EXCEPT ![t] = @ \ {c}]
          /\ UNCHANGED <<cpc, cur_item, cur_thread, queueVars, loopVars, broadcast_data, open>>
      BY <2>2 DEF websocket_write, close_ws_connection_req, Ready
    <3> QED
      BY <1>0, <3>1, WriteKept
  <2>3. CASE WriteDone(t, c)
    <3>1. /\ send_data[t][c] # <<>> /\ tpc[t] = "wait"
          /\ send_data' = [send_data EXCEPT ![t][c] = Tail(send_data[t][c])]
          /\ Used(t, Head(send_data[t][c]), tpc[t])
          /\ UNCHANGED <<cpc, cur_item, cur_thread, queueVars, closing, active_ws, open>>
      BY <2>3 DEF WriteDone, Ready
    <3> QED
      BY <1>0, <3>1, PopKept
  <2>4. CASE WriteDoneUndefined(t, c)
    BY <1>0, <2>4, NothingQuiet DEF WriteDoneUndefined
  <2>5. CASE WriteFail(t, c) \/ ReadFail(t, c) \/ Reap(t, c)
    BY <1>0, <2>5, CloseQuiet DEF WriteFail, ReadFail, Reap, Ready
  <2> QED
    BY <1>7, <2>1, <2>2, <2>3, <2>4, <2>5 DEF ClientStep, WriteCompletes
<1> QED
  BY <1>1, <1>2, <1>3, <1>4, <1>5, <1>6, <1>7 DEF ThreadStep, HandlerStep

\* A server thread leaves the data store alone.
LEMMA ThreadStore ==
  ASSUME NEW t \in Threads, ThreadStep(t)
  PROVE  UNCHANGED <<data_vec, dv_size, free_idxs>>
  BY DEF ThreadStep, HandlerStep, ClientStep, WriteCompletes, set_tcp_server,
         NotificationRead, Notification, ReportEmplace, ReportSignal, ClosePop,
         close_connection, Upgrade, websocket_write, close_ws_connection_req, WriteDone,
         WriteDoneUndefined, WriteFail, ReadFail, Reap, BeginClose, centralVars

\* Nor does it take part in the posting.
LEMMA ThreadPosts ==
  ASSUME NEW t \in Threads, ThreadStep(t)
  PROVE  UNCHANGED <<cpc, cur_item, cur_thread>>
  BY DEF ThreadStep, HandlerStep, ClientStep, WriteCompletes, set_tcp_server,
         NotificationRead, Notification, ReportEmplace, ReportSignal, ClosePop,
         close_connection, Upgrade, websocket_write, close_ws_connection_req, WriteDone,
         WriteDoneUndefined, WriteFail, ReadFail, Reap, BeginClose, centralVars

-----------------------------------------------------------------------------
(* The central thread posts an item to the threads.                        *)

\* The signal that follows a post moves no item.
LEMMA NotifyKept ==
  ASSUME OTypes, \A u \in Threads : ThreadOK(u), PostNotify
  PROVE  Kept /\ \A u \in Threads, i \in ItemIdx : ToBePosted(u, i)' <=> ToBePosted(u, i)
<1> USE DEF queueVars, loopVars, clientVars
<1>1. ASSUME NEW u \in Threads
      PROVE  /\ ThreadOK(u)' /\ \A i \in ItemIdx : Owes(u, i)' <=> Owes(u, i)
             /\ \A i \in ItemIdx : ToBePosted(u, i)' <=> ToBePosted(u, i)
  <2>1. \A i \in ItemIdx : ToBePosted(u, i)' <=> ToBePosted(u, i)
    BY ConstantsAssumption DEF ToBePosted, PostNotify, NextThread, OTypes, Threads
  <2>2. ClientsOK(u)'
    BY DEF ThreadOK, ClientsOK, PostNotify
  <2>3. \A i \in ItemIdx : Ending(u, i)' <=> Ending(u, i)
    BY DEF Ending, PostNotify
  <2> QED
    BY <2>1, <2>2, <2>3, Frame DEF PostNotify
<1> QED
  BY <1>1 DEF Kept

\* A thread without a server is passed over, and only it: from then on it does not owe
\* the item that is being posted.
LEMMA SkipKept ==
  ASSUME OTypes, \A u \in Threads : ThreadOK(u), PostSkipped,
         NEW t \in Threads, t = cur_thread, NEW x \in ItemIdx, x = cur_item
  PROVE  /\ \A u \in Threads : ThreadOK(u)'
         /\ Owes(t, x) /\ ~Owes(t, x)' /\ ToBePosted(t, x)
         /\ \A u \in Threads : \A i \in ItemIdx :
              /\ u # t \/ i # x => (Owes(u, i)' <=> Owes(u, i))
              /\ ToBePosted(u, i)' <=> ToBePosted(u, i) /\ (u # t \/ i # x)
<1> USE DEF queueVars, loopVars, clientVars
<1>1. ASSUME NEW u \in Threads, NEW i \in ItemIdx
      PROVE  ToBePosted(u, i)' <=> ToBePosted(u, i) /\ (u # t \/ i # x)
  <2>1. /\ u \in Int /\ t \in Int /\ u < NumThreads /\ NumThreads \in Int
        /\ ToBePosted(u, i) <=> i = x /\ t <= u
    BY ConstantsAssumption DEF Threads, ToBePosted, PostSkipped
  <2>2. CASE t + 1 < NumThreads
    <3>1. cpc' = "emplace" /\ cur_thread' = t + 1 /\ cur_item' = x
      BY <2>2 DEF PostSkipped, NextThread
    <3> QED
      BY <2>1, <3>1 DEF ToBePosted
  <2>3. CASE ~(t + 1 < NumThreads)
    <3>1. cpc' = "wait"
      BY <2>3 DEF PostSkipped, NextThread
    <3> QED
      BY <2>1, <2>3, <3>1 DEF ToBePosted
  <2> QED
    BY <2>2, <2>3
<1>2. ASSUME NEW u \in Threads, NEW i \in ItemIdx
      PROVE  /\ Posted(u, i)' <=> Posted(u, i)
             /\ Holders(u, i)' = Holders(u, i)
             /\ Sending(u, i)' <=> Sending(u, i)
             /\ Ending(u, i)' <=> Ending(u, i)
             /\ Reported(u, i)' <=> Reported(u, i)
             /\ broadcast_data'[u][i] = broadcast_data[u][i]
  BY DEF PostSkipped, Posted, Holders, Sending, Ending, Reported
<1>3. ToBePosted(t, x)
  BY DEF ToBePosted, PostSkipped, Threads
<1>4. ASSUME NEW u \in Threads, NEW i \in ItemIdx
      PROVE  /\ Excl(u, i)' /\ Counted(u, i)'
             /\ u # t \/ i # x => (Owes(u, i)' <=> Owes(u, i))
  <2>1. Excl(u, i) /\ Counted(u, i)
    BY DEF ThreadOK
  <2> QED
    BY <1>1, <1>2, <2>1 DEF Excl, Counted, Owes
<1>5. Owes(t, x) /\ ~Owes(t, x)'
  <2>1. Excl(t, x)
    BY DEF ThreadOK
  <2> QED
    BY <1>1, <1>2, <1>3, <2>1 DEF Excl, Owes
<1>6. ASSUME NEW u \in Threads PROVE ThreadOK(u)'
  <2>1. QueuesOK(u)' /\ ClientsOK(u)'
    BY DEF PostSkipped, ThreadOK, QueuesOK, ClientsOK
  <2> QED
    BY <1>4, <2>1 DEF ThreadOK
<1> QED
  BY <1>1, <1>3, <1>4, <1>5, <1>6

\* The item goes from the loop into the queue of the thread.
LEMMA EmplaceKept ==
  ASSUME OTypes, \A u \in Threads : ThreadOK(u), PostEmplace, cur_item \in ItemIdx
  PROVE  /\ Kept
         /\ ToBePosted(cur_thread, cur_item)
         /\ \A u \in Threads : \A i \in ItemIdx :
              ToBePosted(u, i)' <=> ToBePosted(u, i) /\ (u # cur_thread \/ i # cur_item)
<1> USE DEF queueVars, loopVars, clientVars
<1>a. PICK t \in Threads : t = cur_thread
  BY DEF OTypes
<1>b. PICK x \in ItemIdx : x = cur_item
  OBVIOUS
<1>c. PICK q \in Seq(ItemIdx) : q = to_server_queue[t]
  BY DEF OTypes
<1>1. /\ to_server_queue'[t] = Append(q, x)
      /\ \A u \in Threads \ {t} : to_server_queue'[u] = to_server_queue[u]
      /\ cpc = "emplace" /\ cpc' = "notify"
      /\ UNCHANGED <<cur_item, cur_thread, to_program_queue, loopVars, clientVars>>
  BY <1>a, <1>b, <1>c DEF PostEmplace, OTypes
<1>2. \A u \in Threads : ClientsOK(u)'
  BY <1>1 DEF ThreadOK, ClientsOK
<1>3. \A u \in Threads : \A i \in ItemIdx :
        /\ Ending(u, i)' <=> Ending(u, i)
        /\ ToBePosted(u, i)' <=> ToBePosted(u, i) /\ u # t
        /\ ToBePosted(u, i) => i = x
  BY <1>a, <1>b, <1>1 DEF Ending, ToBePosted, Threads
<1>4. ASSUME NEW u \in Threads \ {t}
      PROVE  ThreadOK(u)' /\ \A i \in ItemIdx : Owes(u, i)' <=> Owes(u, i)
  BY <1>1, <1>2, <1>3, Frame
<1>5. ToBePosted(t, x) /\ Excl(t, x)
  BY <1>a, <1>b, <1>1 DEF ToBePosted, ThreadOK, Threads
<1>6. NoDup(q) /\ x \notin Range(q) /\ QueuesOK(t)
  BY <1>c, <1>5 DEF Excl, Posted, ThreadOK, QueuesOK
<1>7. NoDup(Append(q, x)) /\ Range(Append(q, x)) = Range(q) \cup {x}
  BY <1>6, AppendNoDup, AppendRange
<1>8. QueuesOK(t)'
  BY <1>1, <1>6, <1>7 DEF QueuesOK
<1>9. ASSUME NEW i \in ItemIdx
      PROVE  Excl(t, i)' /\ Counted(t, i)' /\ (Owes(t, i)' <=> Owes(t, i))
  <2>1. Excl(t, i) /\ Counted(t, i)
    BY DEF ThreadOK
  <2>2. Posted(t, i)' <=> Posted(t, i) \/ i = x
    BY <1>c, <1>1, <1>7 DEF Posted
  <2>3. /\ Holders(t, i)' = Holders(t, i)
        /\ Sending(t, i)' <=> Sending(t, i)
        /\ Reported(t, i)' <=> Reported(t, i)
        /\ broadcast_data'[t][i] = broadcast_data[t][i]
    BY <1>1 DEF Holders, Sending, Reported
  <2> QED
    BY <1>3, <1>5, <2>1, <2>2, <2>3 DEF Excl, Counted, Owes
<1>10. ThreadOK(t)'
  BY <1>2, <1>8, <1>9 DEF ThreadOK
<1>11. Kept
  BY <1>4, <1>9, <1>10 DEF Kept
<1> QED
  BY <1>a, <1>b, <1>3, <1>5, <1>11

-----------------------------------------------------------------------------
(* An item enters and leaves the data store.                               *)

\* What the threads owe is a finite number.
LEMMA OwingFinite ==
  ASSUME NEW i
  PROVE  IsFiniteSet(Owing(i)) /\ Cardinality(Owing(i)) \in Nat
         /\ Cardinality(Owing(i)) <= NumThreads
<1>1. Owing(i) \in SUBSET Threads
  BY DEF Owing
<1> QED
  BY <1>1, ThreadsFinite, FS_Subset, FS_CardinalityType

\* While the central thread does not post, nobody is told.
LEMMA UntoldSame ==
  ASSUME \A u \in Threads, i \in ItemIdx : ToBePosted(u, i)' <=> ToBePosted(u, i)
  PROVE  UNCHANGED [i \in ItemIdx |-> Untold(i)]
<1>1. \A i \in ItemIdx : Untold(i)' = Untold(i)
  BY DEF Untold
<1> QED
  BY <1>1

\* insert_item hands out a slot that no thread owes a use of, with one use for each.
LEMMA OwnTimer ==
  ASSUME OInv, Timer
  PROVE  /\ StoreOK' /\ Cover' /\ \A u \in Threads : ThreadOK(u)'
         /\ \E x \in ItemIdx : Shared!Share(x)
<1> USE DEF queueVars, loopVars, clientVars
<1>0. OTypes /\ StoreOK /\ Cover /\ \A u \in Threads : ThreadOK(u)
  BY OTyped DEF OInv, WInv, TInv
<1>1. PICK x \in ItemIdx : insert_item(x) /\ cur_item' = x
  BY DEF Timer
<1>2. /\ dv_size \in Nat /\ NumThreads \in Nat \ {0}
      /\ \A i \in ItemIdx : i \in Nat
  BY ConstantsAssumption DEF OInv, WInv, TInv, TypeOK, ItemIdx
<1>3. /\ data_vec'[x] = NumThreads
      /\ \A i \in ItemIdx \ {x} : data_vec'[i] = data_vec[i]
  BY <1>0, <1>1 DEF insert_item, OTypes
<1>4. /\ data_vec[x] = -1
      /\ x \notin free_idxs' /\ x < dv_size'
      /\ \A i \in ItemIdx : i \in free_idxs' => i \in free_idxs
      /\ dv_size' \in Nat /\ dv_size <= dv_size'
  <2>1. CASE free_idxs # {}
    <3>1. x \in free_idxs /\ free_idxs' = free_idxs \ {x} /\ dv_size' = dv_size
      BY <1>1, <2>1 DEF insert_item
    <3> QED
      BY <1>0, <1>2, <3>1 DEF StoreOK
  <2>2. CASE free_idxs = {}
    <3>1. x = dv_size /\ dv_size' = dv_size + 1 /\ free_idxs' = {}
      BY <1>1, <2>2 DEF insert_item
    <3> QED
      BY <1>0, <1>2, <3>1 DEF StoreOK
  <2> QED
    BY <2>1, <2>2
<1>5. StoreOK'
  <2>1. ASSUME NEW i \in ItemIdx
        PROVE  /\ data_vec'[i] = -1 \/ data_vec'[i] > 0
               /\ i \in free_idxs' \/ i >= dv_size' => data_vec'[i] = -1
               /\ i \in free_idxs' => i < dv_size'
    <3>1. CASE i = x
      BY <1>2, <1>3, <1>4, <3>1
    <3>2. CASE i # x
      BY <1>0, <1>2, <1>3, <1>4, <3>2 DEF StoreOK
    <3> QED
      BY <3>1, <3>2
  <2> QED
    BY <2>1 DEF StoreOK
<1>6. ASSUME NEW u \in Threads, NEW i \in ItemIdx
      PROVE  /\ Posted(u, i)' <=> Posted(u, i)
             /\ Holders(u, i)' = Holders(u, i)
             /\ Sending(u, i)' <=> Sending(u, i)
             /\ Ending(u, i)' <=> Ending(u, i)
             /\ Reported(u, i)' <=> Reported(u, i)
             /\ ToBePosted(u, i)' => i = x
             /\ ~ToBePosted(u, i)
             /\ broadcast_data'[u][i] = broadcast_data[u][i]
  BY <1>1 DEF Timer, Posted, Holders, Sending, Ending, Reported, ToBePosted
<1>7. \A u \in Threads : ~Owes(u, x)
  BY <1>0, <1>4 DEF Cover
<1>8. ASSUME NEW u \in Threads, NEW i \in ItemIdx
      PROVE  Excl(u, i)' /\ Counted(u, i)' /\ (i # x => (Owes(u, i)' <=> Owes(u, i)))
  <2>1. Excl(u, i) /\ Counted(u, i) /\ ~Owes(u, x)
    BY <1>0, <1>7 DEF ThreadOK
  <2> QED
    BY <1>6, <2>1 DEF Excl, Counted, Owes
<1>9. ASSUME NEW u \in Threads PROVE ThreadOK(u)'
  <2>1. QueuesOK(u)' /\ ClientsOK(u)'
    BY <1>0 DEF Timer, ThreadOK, QueuesOK, ClientsOK
  <2> QED
    BY <1>8, <2>1 DEF ThreadOK
<1>10. Cover'
  <2>1. ASSUME NEW i \in ItemIdx
        PROVE  /\ data_vec'[i] = -1 => \A u \in Threads : ~Owes(u, i)'
               /\ data_vec'[i] # -1 => Cardinality(Owing(i)') <= data_vec'[i]
    <3>1. CASE i = x
      <4>1. Owing(i)' \in SUBSET Threads
        BY DEF Owing
      <4>2. Cardinality(Owing(i)') <= NumThreads
        BY <4>1, ThreadsFinite, FS_Subset
      <4> QED
        BY <1>2, <1>3, <3>1, <4>2
    <3>2. CASE i # x
      <4>1. Owing(i)' \in SUBSET Owing(i)
        BY <1>8, <3>2 DEF Owing
      <4>2. Cardinality(Owing(i)') <= Cardinality(Owing(i)) /\ Cardinality(Owing(i)') \in Nat
        BY <4>1, OwingFinite, FS_Subset, FS_CardinalityType
      <4>3. data_vec'[i] = data_vec[i] /\ data_vec[i] \in Int
        BY <1>0, <1>3, <3>2 DEF OTypes
      <4>4. /\ data_vec[i] = -1 => \A u \in Threads : ~Owes(u, i)
            /\ data_vec[i] # -1 => Cardinality(Owing(i)) <= data_vec[i]
        BY <1>0 DEF Cover
      <4>5. data_vec'[i] = -1 => \A u \in Threads : ~Owes(u, i)'
        BY <1>8, <3>2, <4>3, <4>4
      <4> QED
        BY <4>2, <4>3, <4>4, <4>5, OwingFinite
    <3> QED
      BY <3>1, <3>2
  <2> QED
    BY <2>1 DEF Cover
<1>11. Shared!Share(x)
  <2>1. \A u \in Threads : Owes(u, x)' /\ ToBePosted(u, x)'
    <3>1. cpc' = "emplace" /\ cur_item' = x /\ cur_thread' = 0
      BY <1>1 DEF Timer, OInv, WInv, TInv, PcOK
    <3> QED
      BY <3>1 DEF Owes, ToBePosted, Threads
  <2>2. /\ Owing(x) = {} /\ Owing(x)' = Threads
        /\ \A i \in ItemIdx : i # x => Owing(i)' = Owing(i)
    BY <1>7, <1>8, <2>1 DEF Owing
  <2>3. [i \in ItemIdx |-> Owing(i)]' = [[i \in ItemIdx |-> Owing(i)] EXCEPT ![x] = Threads]
    BY <2>2
  <2>4. data_vec' = [data_vec EXCEPT ![x] = NumThreads]
    BY <1>1 DEF insert_item
  <2>5. Untold(x)' = Threads /\ \A i \in ItemIdx : i # x => Untold(i)' = Untold(i)
    BY <1>6, <2>1 DEF Untold
  <2>6. [i \in ItemIdx |-> Untold(i)]' = [[i \in ItemIdx |-> Untold(i)] EXCEPT ![x] = Threads]
    BY <2>5
  <2> QED
    BY <1>4, <2>2, <2>3, <2>4, <2>6 DEF Shared!Share
<1> QED
  BY <1>5, <1>9, <1>10, <1>11

\* free_item: the thread whose report is taken owes nothing more, so the uses left
\* go on covering the others, and the last one leaves nobody.
LEMMA OwnCommunication ==
  ASSUME NEW t \in Threads, OInv, ThreadCommunication(t)
  PROVE  /\ StoreOK' /\ Cover' /\ \A u \in Threads : ThreadOK(u)'
         /\ \E h \in ItemIdx : Shared!Finish(h, t)
<1> USE DEF queueVars, loopVars, clientVars
<1>0. OTypes /\ StoreOK /\ Cover /\ WakeupHasMessage /\ \A u \in Threads : ThreadOK(u)
  BY OTyped, WakeMeets DEF OInv, WInv, TInv
<1>a. PICK q \in Seq(ItemIdx) : q = to_program_queue[t]
  BY <1>0 DEF OTypes
<1>b. q # <<>>
  BY <1>0, <1>a DEF WakeupHasMessage, ThreadCommunication
<1>c. PICK h \in ItemIdx : h = Head(q)
  BY <1>b, TailRange
<1>d. PICK rest \in Seq(ItemIdx) : rest = Tail(q)
  BY <1>b, TailRange
<1>1. Dequeued(to_program_queue[t]) = h /\ Rest(to_program_queue[t]) = rest
  BY <1>a, <1>b, <1>c, <1>d DEF Dequeued, Rest
<1>2. /\ free_item(h) /\ to_program_queue'[t] = rest
      /\ \A u \in Threads \ {t} : to_program_queue'[u] = to_program_queue[u]
      /\ UNCHANGED <<dv_size, cpc, cur_item, cur_thread, to_server_queue, loopVars, clientVars>>
  BY <1>0, <1>1 DEF ThreadCommunication, OTypes
<1>3. NoDup(q) /\ ClientsOK(t) /\ QueuesOK(t)
  BY <1>0, <1>a DEF ThreadOK, QueuesOK
<1>4. Range(q) = Range(rest) \cup {h} /\ NoDup(rest) /\ h \notin Range(rest)
  <2>1. h # Own
    BY DEF ItemIdx, Own
  <2> QED
    BY <1>b, <1>c, <1>d, <1>3, <2>1, TailRange, TailNoDup
<1>5. Reported(t, h) /\ Owes(t, h)
  BY <1>a, <1>4 DEF Reported, Owes
<1>6. ASSUME NEW u \in Threads \ {t}
      PROVE  ThreadOK(u)' /\ \A i \in ItemIdx : Owes(u, i)' <=> Owes(u, i)
  <2>1. SameLocal(u)
    BY <1>2 DEF SameLocal
  <2> QED
    BY <1>0, <1>2, <2>1, SameKept
<1>7. ASSUME NEW i \in ItemIdx
      PROVE  /\ Excl(t, i)' /\ Counted(t, i)'
             /\ i # h => (Owes(t, i)' <=> Owes(t, i))
             /\ i = h => ~Owes(t, i)'
  <2>1. Excl(t, i) /\ Counted(t, i)
    BY <1>0 DEF ThreadOK
  <2>2. Reported(t, i)' <=> Reported(t, i) /\ i # h
    BY <1>a, <1>2, <1>4 DEF Reported
  <2>3. /\ Posted(t, i)' <=> Posted(t, i)
        /\ Holders(t, i)' = Holders(t, i)
        /\ Sending(t, i)' <=> Sending(t, i)
        /\ Ending(t, i)' <=> Ending(t, i)
        /\ ToBePosted(t, i)' <=> ToBePosted(t, i)
        /\ broadcast_data'[t][i] = broadcast_data[t][i]
    BY <1>2 DEF Posted, Holders, Sending, Ending, ToBePosted
  <2> QED
    BY <1>5, <2>1, <2>2, <2>3 DEF Excl, Counted, Owes
<1>8. ThreadOK(t)'
  <2>1. QueuesOK(t)' /\ ClientsOK(t)'
    BY <1>2, <1>3, <1>4 DEF QueuesOK, ClientsOK
  <2> QED
    BY <1>7, <2>1 DEF ThreadOK
<1>9. /\ data_vec[h] \in Int /\ data_vec[h] > 0 /\ h \notin free_idxs /\ h < dv_size
      /\ Cardinality(Owing(h)) <= data_vec[h]
  <2>1. data_vec[h] # -1 /\ data_vec[h] \in Int
    BY <1>0, <1>5 DEF Cover, OTypes
  <2>2. dv_size \in Nat /\ h \in Nat
    BY ConstantsAssumption DEF OInv, WInv, TInv, TypeOK, ItemIdx
  <2> QED
    BY <1>0, <2>1, <2>2 DEF StoreOK, Cover
<1>10. /\ data_vec'[h] = IF data_vec[h] = 1 THEN -1 ELSE data_vec[h] - 1
       /\ free_idxs' = IF data_vec[h] = 1 THEN free_idxs \cup {h} ELSE free_idxs
       /\ \A i \in ItemIdx \ {h} : data_vec'[i] = data_vec[i]
  BY <1>0, <1>2 DEF free_item, OTypes
<1>11. StoreOK'
  <2>1. ASSUME NEW i \in ItemIdx
        PROVE  /\ data_vec'[i] = -1 \/ data_vec'[i] > 0
               /\ i \in free_idxs' \/ i >= dv_size' => data_vec'[i] = -1
               /\ i \in free_idxs' => i < dv_size'
    <3>0. dv_size \in Nat /\ dv_size' = dv_size /\ i \in Nat
      BY <1>2, ConstantsAssumption DEF OInv, WInv, TInv, TypeOK, ItemIdx
    <3>1. CASE i = h
      BY <1>9, <1>10, <3>0, <3>1
    <3>2. CASE i # h
      BY <1>0, <1>10, <3>0, <3>2 DEF StoreOK
    <3> QED
      BY <3>1, <3>2
  <2> QED
    BY <2>1 DEF StoreOK
<1>12. ASSUME NEW u \in Threads, NEW i \in ItemIdx PROVE Owes(u, i)' => Owes(u, i)
  BY <1>6, <1>7
<1>13. Cover'
  <2>1. ASSUME NEW i \in ItemIdx
        PROVE  /\ data_vec'[i] = -1 => \A u \in Threads : ~Owes(u, i)'
               /\ data_vec'[i] # -1 => Cardinality(Owing(i)') <= data_vec'[i]
    <3>1. Owing(i)' \in SUBSET Owing(i)
      BY <1>12 DEF Owing
    <3>2. /\ IsFiniteSet(Owing(i)') /\ Cardinality(Owing(i)') \in Nat
          /\ Cardinality(Owing(i)') <= Cardinality(Owing(i))
          /\ Cardinality(Owing(i)) \in Nat
      BY <3>1, OwingFinite, FS_Subset, FS_CardinalityType
    <3>3. CASE i = h
      <4>1. Owing(i)' \in SUBSET (Owing(i) \ {t}) /\ t \in Owing(i)
        BY <1>5, <1>7, <3>1, <3>3 DEF Owing
      <4>2. /\ IsFiniteSet(Owing(i) \ {t})
            /\ Cardinality(Owing(i) \ {t}) = Cardinality(Owing(i)) - 1
        BY <4>1, OwingFinite, FS_RemoveElement
      <4>3. Cardinality(Owing(i)') <= Cardinality(Owing(i)) - 1
        BY <4>1, <4>2, FS_Subset
      <4>4. CASE data_vec[h] = 1
        <5>1. Cardinality(Owing(i)') = 0
          BY <1>9, <3>2, <3>3, <4>3, <4>4
        <5>2. Owing(i)' = {}
          BY <3>2, <5>1, FS_EmptySet
        <5> QED
          BY <1>10, <3>3, <4>4, <5>2 DEF Owing
      <4>5. CASE data_vec[h] # 1
        BY <1>9, <1>10, <3>2, <3>3, <4>3, <4>5
      <4> QED
        BY <4>4, <4>5
    <3>4. CASE i # h
      <4>1. data_vec'[i] = data_vec[i] /\ data_vec[i] \in Int
        BY <1>0, <1>10, <3>4 DEF OTypes
      <4>2. /\ data_vec[i] = -1 => \A u \in Threads : ~Owes(u, i)
            /\ data_vec[i] # -1 => Cardinality(Owing(i)) <= data_vec[i]
        BY <1>0 DEF Cover
      <4>3. data_vec'[i] = -1 => \A u \in Threads : ~Owes(u, i)'
        BY <1>12, <4>1, <4>2
      <4> QED
        BY <3>2, <4>1, <4>2, <4>3
    <3> QED
      BY <3>3, <3>4
  <2> QED
    BY <2>1 DEF Cover
<1>14. Shared!Finish(h, t)
  <2>1. /\ t \in Owing(h) /\ Owing(h)' = Owing(h) \ {t}
        /\ \A i \in ItemIdx : i # h => Owing(i)' = Owing(i)
    BY <1>5, <1>6, <1>7 DEF Owing
  <2>2. [i \in ItemIdx |-> Owing(i)]' = [[i \in ItemIdx |-> Owing(i)] EXCEPT ![h] = @ \ {t}]
    BY <2>1
  <2>3. data_vec' = [data_vec EXCEPT ![h] = IF @ = 1 THEN -1 ELSE @ - 1]
    BY <1>2 DEF free_item
  <2>4. ~ToBePosted(t, h)
    BY <1>0, <1>5 DEF ThreadOK, Excl
  <2>5. UNCHANGED [i \in ItemIdx |-> Untold(i)] /\ t \notin Untold(h)
    <3>1. \A u \in Threads, i \in ItemIdx : ToBePosted(u, i)' <=> ToBePosted(u, i)
      BY <1>2 DEF ToBePosted
    <3> QED
      BY <2>4, <3>1, UntoldSame DEF Untold
  <2> QED
    BY <1>9, <2>1, <2>2, <2>3, <2>5 DEF Shared!Finish
<1> QED
  BY <1>6, <1>8, <1>11, <1>13, <1>14

-----------------------------------------------------------------------------
(* The inductive invariant.                                                *)

\* Initially the store is empty and no thread has an item.
LEMMA OwnInit == Init => OInv
<1> SUFFICES ASSUME Init PROVE OInv
  OBVIOUS
<1>1. WInv
  BY WakeInit
<1>2. NoDup(<<>>)
  BY EmptyRange DEF NoDup
<1>3. ASSUME NEW t \in Threads, NEW i \in ItemIdx
      PROVE  /\ ~ToBePosted(t, i) /\ ~Posted(t, i) /\ ~Sending(t, i)
             /\ ~Ending(t, i) /\ ~Reported(t, i)
  BY EmptyRange DEF Init, ToBePosted, Posted, Sending, Holders, Ending, Reported
<1>4. ASSUME NEW t \in Threads PROVE ThreadOK(t)
  <2>1. QueuesOK(t)
    BY <1>2 DEF Init, QueuesOK
  <2>2. ClientsOK(t)
    BY DEF Init, ClientsOK
  <2> QED
    BY <1>3, <2>1, <2>2 DEF ThreadOK, Excl, Counted
<1>5. StoreOK
  BY DEF Init, StoreOK
<1>6. Cover
  BY <1>3 DEF Init, Cover, Owes
<1> QED
  BY <1>1, <1>4, <1>5, <1>6 DEF OInv

\* Every step of the protocol keeps it.
LEMMA OwnStep == OInv /\ [Next]_vars => OInv'
<1> SUFFICES ASSUME OInv, [Next]_vars PROVE OInv'
  OBVIOUS
<1> USE DEF centralVars, wakeVars, queueVars, loopVars, clientVars
<1>1. WInv'
  BY WakeStep DEF OInv
<1>2. OTypes /\ PcOK /\ StoreOK /\ Cover /\ \A u \in Threads : ThreadOK(u)
  BY OTyped DEF OInv, WInv, TInv
<1>3. ASSUME Kept, UNCHANGED <<data_vec, dv_size, free_idxs>> PROVE OInv'
  <2>1. /\ \A u \in Threads : ThreadOK(u)'
        /\ \A u \in Threads : \A i \in ItemIdx : Owes(u, i)' => Owes(u, i)
    BY <1>3 DEF Kept
  <2>2. StoreOK' /\ Cover'
    BY <1>2, <1>3, <2>1, CoverKept DEF OTypes
  <2> QED
    BY <1>1, <2>1, <2>2 DEF OInv
<1>4. ASSUME NEW t \in Threads, ThreadStep(t) PROVE OInv'
  BY <1>3, <1>4, ThreadKept, ThreadStore
<1>5. CASE Timer
  BY <1>1, <1>5, OwnTimer DEF OInv
<1>p. CASE PostSkipped
  <2>1. PICK t \in Threads, x \in ItemIdx : t = cur_thread /\ x = cur_item
    BY <1>2, <1>p DEF PcOK, PostSkipped, OTypes
  <2>2. /\ \A u \in Threads : ThreadOK(u)'
        /\ \A u \in Threads : \A i \in ItemIdx : Owes(u, i)' => Owes(u, i)
    BY <1>2, <1>p, <2>1, SkipKept
  <2>3. StoreOK' /\ Cover'
    BY <1>2, <1>p, <2>2, CoverKept DEF OTypes, PostSkipped
  <2> QED
    BY <1>1, <2>2, <2>3 DEF OInv
<1>6. CASE PostNotify
  <2>1. Kept
    BY <1>2, <1>6, NotifyKept
  <2> QED
    BY <1>3, <1>6, <2>1 DEF PostNotify
<1>7. CASE PostEmplace
  <2>1. cur_item \in ItemIdx
    BY <1>2, <1>7 DEF PcOK, PostEmplace
  <2> QED
    BY <1>2, <1>3, <1>7, <2>1, EmplaceKept DEF PostEmplace
<1>8. ASSUME NEW t \in Threads, CentralRead(t) PROVE OInv'
  BY <1>2, <1>3, <1>8, NothingQuiet DEF CentralRead
<1>9. ASSUME NEW t \in Threads, ThreadCommunication(t) PROVE OInv'
  BY <1>1, <1>9, OwnCommunication DEF OInv
<1>10. CASE UNCHANGED vars
  <2>1. 0 \in Threads
    BY ConstantsAssumption DEF Threads
  <2> QED
    BY <1>2, <1>3, <1>10, <2>1, NothingQuiet DEF vars
<1> QED
  BY <1>4, <1>5, <1>p, <1>6, <1>7, <1>8, <1>9, <1>10 DEF Next, CentralStep

-----------------------------------------------------------------------------
(* The protocol implements SharedBuffers.                                  *)

\* A step that keeps what is owed leaves the shared buffers alone.
LEMMA KeptStutters ==
  ASSUME Kept, UNCHANGED data_vec,
         \A u \in Threads, i \in ItemIdx : ToBePosted(u, i)' <=> ToBePosted(u, i)
  PROVE  UNCHANGED Shared!vars
<1>1. \A i \in ItemIdx : Owing(i)' = Owing(i)
  BY DEF Kept, Owing
<1>2. [i \in ItemIdx |-> Owing(i)]' = [i \in ItemIdx |-> Owing(i)]
  BY <1>1
<1> QED
  BY <1>2, UntoldSame DEF Shared!vars

\* So does one that leaves the posting loop where it is.
LEMMA QuietStutters ==
  ASSUME Kept, UNCHANGED <<data_vec, cpc, cur_item, cur_thread>>
  PROVE  UNCHANGED Shared!vars
<1>1. \A u \in Threads, i \in ItemIdx : ToBePosted(u, i)' <=> ToBePosted(u, i)
  BY DEF ToBePosted
<1> QED
  BY <1>1, KeptStutters

\* PostSkipped: one thread misses the item.
LEMMA SkipMisses ==
  ASSUME OInv, PostSkipped
  PROVE  \E i \in ItemIdx : \E t \in Threads : Shared!Miss(i, t)
<1>0. OTypes /\ PcOK /\ \A u \in Threads : ThreadOK(u)
  BY OTyped DEF OInv, WInv, TInv
<1>1. PICK t \in Threads, x \in ItemIdx : t = cur_thread /\ x = cur_item
  BY <1>0 DEF PcOK, PostSkipped, OTypes
<1>2. /\ Owes(t, x) /\ ~Owes(t, x)' /\ ToBePosted(t, x)
      /\ \A u \in Threads : \A i \in ItemIdx :
           /\ u # t \/ i # x => (Owes(u, i)' <=> Owes(u, i))
           /\ ToBePosted(u, i)' <=> ToBePosted(u, i) /\ (u # t \/ i # x)
  BY <1>0, <1>1, SkipKept
<1>3. /\ t \in Owing(x) /\ Owing(x)' = Owing(x) \ {t}
      /\ \A i \in ItemIdx : i # x => Owing(i)' = Owing(i)
  BY <1>2 DEF Owing
<1>4. [i \in ItemIdx |-> Owing(i)]' = [[i \in ItemIdx |-> Owing(i)] EXCEPT ![x] = @ \ {t}]
  BY <1>3
<1>5. data_vec' = data_vec
  BY DEF PostSkipped
<1>6. /\ t \in Untold(x) /\ Untold(x)' = Untold(x) \ {t}
      /\ \A i \in ItemIdx : i # x => Untold(i)' = Untold(i)
  BY <1>2 DEF Untold
<1>7. [i \in ItemIdx |-> Untold(i)]' = [[i \in ItemIdx |-> Untold(i)] EXCEPT ![x] = @ \ {t}]
  BY <1>6
<1>8. Shared!Miss(x, t)
  BY <1>3, <1>4, <1>5, <1>6, <1>7 DEF Shared!Miss
<1> QED
  BY <1>8

\* PostEmplace: one thread is told of the item, and owes its use as before.
LEMMA EmplaceTells ==
  ASSUME OInv, PostEmplace
  PROVE  \E i \in ItemIdx : \E t \in Threads : Shared!Tell(i, t)
<1>0. OTypes /\ PcOK /\ \A u \in Threads : ThreadOK(u)
  BY OTyped DEF OInv, WInv, TInv
<1>1. PICK t \in Threads, x \in ItemIdx : t = cur_thread /\ x = cur_item
  BY <1>0 DEF PcOK, PostEmplace, OTypes
<1>2. /\ Kept /\ ToBePosted(t, x)
      /\ \A u \in Threads : \A i \in ItemIdx :
           ToBePosted(u, i)' <=> ToBePosted(u, i) /\ (u # t \/ i # x)
  BY <1>0, <1>1, EmplaceKept
<1>3. /\ t \in Untold(x) /\ Untold(x)' = Untold(x) \ {t}
      /\ \A i \in ItemIdx : i # x => Untold(i)' = Untold(i)
  BY <1>2 DEF Untold
<1>4. [i \in ItemIdx |-> Untold(i)]' = [[i \in ItemIdx |-> Untold(i)] EXCEPT ![x] = @ \ {t}]
  BY <1>3
<1>5. \A i \in ItemIdx : Owing(i)' = Owing(i)
  BY <1>2 DEF Kept, Owing
<1>6. [i \in ItemIdx |-> Owing(i)]' = [i \in ItemIdx |-> Owing(i)]
  BY <1>5
<1>7. data_vec' = data_vec
  BY DEF PostEmplace
<1>8. Shared!Tell(x, t)
  BY <1>3, <1>4, <1>6, <1>7 DEF Shared!Tell
<1> QED
  BY <1>8

\* Every step is one of SharedBuffers, or none.
LEMMA SharedStep == OInv /\ [Next]_vars => [Shared!Next]_(Shared!vars)
<1> SUFFICES ASSUME OInv, [Next]_vars PROVE [Shared!Next]_(Shared!vars)
  OBVIOUS
<1> USE DEF centralVars, wakeVars, queueVars, loopVars, clientVars
<1>1. OTypes /\ PcOK /\ \A u \in Threads : ThreadOK(u)
  BY OTyped DEF OInv, WInv, TInv
<1>2. ASSUME NEW t \in Threads, ThreadStep(t) PROVE UNCHANGED Shared!vars
  BY <1>2, ThreadKept, ThreadStore, ThreadPosts, QuietStutters
<1>3. CASE Timer
  BY <1>3, OwnTimer DEF Shared!Next
<1>4. CASE PostSkipped
  BY <1>4, SkipMisses DEF Shared!Next
<1>5. CASE PostNotify
  <2>1. UNCHANGED data_vec
    BY <1>5 DEF PostNotify
  <2> QED
    BY <1>1, <1>5, <2>1, NotifyKept, KeptStutters
<1>6. CASE PostEmplace
  BY <1>6, EmplaceTells DEF Shared!Next
<1>7. ASSUME NEW t \in Threads, CentralRead(t) PROVE UNCHANGED Shared!vars
  <2>1. Kept /\ UNCHANGED <<data_vec, cpc, cur_item, cur_thread>>
    BY <1>1, <1>7, NothingQuiet DEF CentralRead
  <2> QED
    BY <2>1, QuietStutters
<1>8. ASSUME NEW t \in Threads, ThreadCommunication(t) PROVE Shared!Next
  BY <1>8, OwnCommunication DEF Shared!Next
<1>9. CASE UNCHANGED vars
  <2>1. 0 \in Threads
    BY ConstantsAssumption DEF Threads
  <2>2. Kept /\ UNCHANGED <<data_vec, cpc, cur_item, cur_thread>>
    BY <1>1, <1>9, <2>1, NothingQuiet DEF vars
  <2> QED
    BY <2>2, QuietStutters
<1> QED
  BY <1>2, <1>3, <1>4, <1>5, <1>6, <1>7, <1>8, <1>9 DEF Next, CentralStep

\* The initial states are those of SharedBuffers.
LEMMA SharedInit == Init => Shared!Init
<1> SUFFICES ASSUME Init PROVE Shared!Init
  OBVIOUS
<1>1. \A t \in Threads, i \in ItemIdx : ~Owes(t, i) /\ ~ToBePosted(t, i)
  BY EmptyRange DEF Init, Owes, ToBePosted, Posted, Sending, Holders, Ending, Reported
<1>2. \A i \in ItemIdx : Owing(i) = {} /\ Untold(i) = {}
  BY <1>1 DEF Owing, Untold
<1>3. /\ [i \in ItemIdx |-> Owing(i)] = [i \in ItemIdx |-> {}]
      /\ [i \in ItemIdx |-> Untold(i)] = [i \in ItemIdx |-> {}]
  BY <1>2
<1> QED
  BY <1>3 DEF Init, Shared!Init

\* The broadcast protocol implements SharedBuffers, for any number of threads, clients and
\* items: an item is handed to all threads with one use each; only a thread it has not been
\* posted to can be passed over; whatever a thread does with it from then on (queue it, send
\* it to its clients, close them in the middle, report it) changes neither the store nor who
\* owes a use; and free_item takes exactly the use of the thread whose report it follows.
\* So no use is given back twice, and none is lost on a thread.
THEOREM ImplementsSharing == Spec => SharesBuffers
<1>1. Init => OInv
  BY OwnInit
<1>2. OInv /\ [Next]_vars => OInv'
  BY OwnStep
<1>3. Init => Shared!Init
  BY SharedInit
<1>4. OInv /\ [Next]_vars => [Shared!Next]_(Shared!vars)
  BY SharedStep
<1> QED
  BY <1>1, <1>2, <1>3, <1>4, PTL DEF Spec, SharesBuffers, Shared!Spec

\* No broadcast buffer is freed while a thread can still read it: as long as the
\* item waits to be posted, is queued for a thread, is in a client's send_data or
\* is being reported, data_store holds it.  It holds for any number of threads and
\* clients, with peers that close, fail or shut down at any moment, because the
\* uses left always cover the threads that have not reported.
THEOREM BuffersLive == Spec => []BufferLive
<1>1. OInv => BufferLive
  BY DEF OInv, StoreOK, Cover, BufferLive
<1> QED
  BY OwnInit, OwnStep, <1>1, PTL DEF Spec

\* The uses a thread keeps of an item in broadcast_data are the clients that have
\* it in send_data, through upgrades, pongs, close frames, failed writes and reaped
\* peers, so the last client, and no other, makes write_cb or close_cb report it.
THEOREM UsesExact == Spec => []UsesCountHolders
<1>1. OInv => UsesCountHolders
  BY DEF OInv, ThreadOK, Counted, UsesCountHolders
<1> QED
  BY OwnInit, OwnStep, <1>1, PTL DEF Spec

-----------------------------------------------------------------------------
(* What the kernel writes, when no peer shuts down its side in mid-write.   *)

\* The element of a write in flight is still at the front of send_data.
AtFront(t, c) ==
  writing[t][c] # NoWrite =>
    send_data[t][c] # <<>> /\ Head(send_data[t][c]) = writing[t][c]

\* A client whose send_data is being emptied is not being written to.
Quiet(t) == closing[t] # NoClient => writing[t][closing[t]] = NoWrite

FInv == OInv /\ \A t \in Threads : Quiet(t) /\ \A c \in Clients : AtFront(t, c)

\* The types these proofs need.
FTypes ==
  /\ OTypes /\ PcOK
  /\ writing \in [Threads -> [Clients -> ItemIdx \cup {Own, NoWrite}]]
  /\ \A t \in Threads : tpc[t] = "wait" => closing[t] = NoClient
  /\ \A t \in Threads : closing[t] \in Clients \cup {NoClient}

\* They follow from the invariant.
LEMMA FTyped == OInv => FTypes
<1> SUFFICES ASSUME OInv PROVE FTypes
  OBVIOUS
<1>1. OTypes /\ PcOK
  BY OTyped DEF OInv, WInv, TInv
<1>2. writing \in [Threads -> [Clients -> ItemIdx \cup {Own, NoWrite}]]
  BY DEF OInv, WInv, TInv, TypeOK
<1>3. \A t \in Threads : tpc[t] = "wait" => closing[t] = NoClient
  BY DEF OInv, ThreadOK, ClientsOK
<1> QED
  BY <1>1, <1>2, <1>3 DEF FTypes, OTypes

\* A step that leaves the clients of a thread alone.
LEMMA FrontSame ==
  ASSUME NEW u \in Threads, Quiet(u), \A c \in Clients : AtFront(u, c),
         closing'[u] = closing[u] \/ closing'[u] = NoClient,
         send_data'[u] = send_data[u], writing'[u] = writing[u]
  PROVE  Quiet(u)' /\ \A c \in Clients : AtFront(u, c)'
  BY DEF Quiet, AtFront

\* A thread that is waiting queues data e for client c, and writes it if it is alone.
LEMMA FrontAppend ==
  ASSUME NEW t \in Threads, NEW c \in Clients, NEW e \in ItemIdx \cup {Own},
         FTypes, AtFront(t, c),
         send_data'[t][c] = Append(send_data[t][c], e),
         writing'[t][c] = IF send_data[t][c] = <<>> THEN e ELSE writing[t][c]
  PROVE  AtFront(t, c)'
<1>1. PICK q \in Seq(ItemIdx \cup {Own}) : q = send_data[t][c]
  BY DEF FTypes, OTypes
<1>2. /\ Append(q, e) # <<>>
      /\ Head(Append(q, e)) = IF q = <<>> THEN e ELSE Head(q)
  BY AppendRange
<1> QED
  BY <1>1, <1>2 DEF AtFront

\* What a step keeps of the writes in flight.
FrontKept == \A u \in Threads : Quiet(u)' /\ \A c \in Clients : AtFront(u, c)'

\* A step that concerns one client c of thread t alone.
LEMMA FrontOne ==
  ASSUME NEW t \in Threads, NEW c \in Clients, FInv, FTypes,
         \A u \in Threads \ {t} : /\ closing'[u] = closing[u]
                                  /\ send_data'[u] = send_data[u] /\ writing'[u] = writing[u],
         \A d \in Clients \ {c} : /\ send_data'[t][d] = send_data[t][d]
                                  /\ writing'[t][d] = writing[t][d],
         Quiet(t)', AtFront(t, c)'
  PROVE  FrontKept
<1>1. \A u \in Threads : Quiet(u) /\ \A d \in Clients : AtFront(u, d)
  BY DEF FInv
<1>2. ASSUME NEW u \in Threads \ {t} PROVE Quiet(u)' /\ \A d \in Clients : AtFront(u, d)'
  BY <1>1, FrontSame
<1>3. ASSUME NEW d \in Clients \ {c} PROVE AtFront(t, d)'
  BY <1>1 DEF AtFront
<1> QED
  BY <1>2, <1>3 DEF FrontKept

\* Steps of the central thread, and those of a server thread that touch no client.
LEMMA FrontNothing ==
  ASSUME FInv, UNCHANGED <<send_data, writing>>,
         \A u \in Threads : closing'[u] = closing[u] \/ closing'[u] = NoClient
  PROVE  FrontKept
<1>1. \A u \in Threads : Quiet(u) /\ \A c \in Clients : AtFront(u, c)
  BY DEF FInv
<1> QED
  BY <1>1, FrontSame DEF FrontKept

\* The steps of one client.
LEMMA FrontClient ==
  ASSUME NEW t \in Threads, NEW c \in Clients, FInv, ~HalfClose, ClientStep(t, c)
  PROVE  FrontKept
<1> USE DEF centralVars, wakeVars, queueVars, loopVars, clientVars
<1>0. FTypes /\ AtFront(t, c) /\ Own \in ItemIdx \cup {Own}
  BY FTyped DEF FInv
<1>1. tpc[t] = "wait" /\ closing[t] = NoClient
  <2>1. tpc[t] = "wait"
    BY DEF ClientStep, WriteCompletes, Upgrade, websocket_write, close_ws_connection_req,
           WriteDone, WriteDoneUndefined, WriteFail, ReadFail, Reap, Ready
  <2> QED
    BY <1>0, <2>1 DEF FTypes
<1>2. ASSUME UNCHANGED closing,
             \A u \in Threads \ {t} : send_data'[u] = send_data[u] /\ writing'[u] = writing[u],
             \A d \in Clients \ {c} : /\ send_data'[t][d] = send_data[t][d]
                                      /\ writing'[t][d] = writing[t][d],
             AtFront(t, c)'
      PROVE  FrontKept
  <2>1. Quiet(t)'
    BY <1>1, <1>2 DEF Quiet
  <2> QED
    BY <1>0, <1>2, <2>1, FrontOne
<1>3. CASE Upgrade(t, c)
  <2>1. /\ send_data'[t][c] = <<Own>> /\ writing'[t][c] = Own /\ closing' = closing
        /\ \A u \in Threads \ {t} : send_data'[u] = send_data[u] /\ writing'[u] = writing[u]
        /\ \A d \in Clients \ {c} : /\ send_data'[t][d] = send_data[t][d]
                                    /\ writing'[t][d] = writing[t][d]
    BY <1>0, <1>3 DEF Upgrade, FTypes, OTypes
  <2>2. AtFront(t, c)'
    BY <2>1 DEF AtFront
  <2> QED
    BY <1>2, <2>1, <2>2
<1>4. CASE websocket_write(t, c) \/ close_ws_connection_req(t, c)
  <2>1. write_connection(t, c) /\ closing' = closing
    BY <1>4 DEF websocket_write, close_ws_connection_req
  <2>2. /\ send_data'[t][c] = Append(send_data[t][c], Own)
        /\ writing'[t][c] = IF send_data[t][c] = <<>> THEN Own ELSE writing[t][c]
        /\ \A u \in Threads \ {t} : send_data'[u] = send_data[u] /\ writing'[u] = writing[u]
        /\ \A d \in Clients \ {c} : /\ send_data'[t][d] = send_data[t][d]
                                    /\ writing'[t][d] = writing[t][d]
    BY <1>0, <2>1 DEF write_connection, FTypes, OTypes
  <2>3. AtFront(t, c)'
    BY <1>0, <2>2, FrontAppend
  <2> QED
    BY <1>2, <2>1, <2>2, <2>3
<1>5. CASE WriteDone(t, c)
  <2>1. PICK rest : rest = Tail(send_data[t][c])
    OBVIOUS
  <2>2. /\ send_data' = [send_data EXCEPT ![t][c] = rest] /\ closing' = closing
        /\ writing' = [writing EXCEPT ![t][c] = IF rest = <<>> THEN NoWrite ELSE Head(rest)]
    BY <1>5, <2>1 DEF WriteDone
  <2>3. /\ send_data'[t][c] = rest
        /\ writing'[t][c] = IF rest = <<>> THEN NoWrite ELSE Head(rest)
        /\ \A u \in Threads \ {t} : send_data'[u] = send_data[u] /\ writing'[u] = writing[u]
        /\ \A d \in Clients \ {c} : /\ send_data'[t][d] = send_data[t][d]
                                    /\ writing'[t][d] = writing[t][d]
    BY <1>0, <2>2 DEF FTypes, OTypes
  <2>4. AtFront(t, c)'
    BY <2>3 DEF AtFront
  <2> QED
    BY <1>2, <2>2, <2>3, <2>4
<1>6. CASE WriteDoneUndefined(t, c)
  BY <1>6, FrontNothing DEF WriteDoneUndefined
<1>7. CASE WriteFail(t, c) \/ ReadFail(t, c) \/ Reap(t, c)
  <2>1. /\ closing' = [closing EXCEPT ![t] = c] /\ send_data' = send_data
        /\ \/ writing' = [writing EXCEPT ![t][c] = NoWrite]
           \/ writing' = writing /\ writing[t][c] = NoWrite
    BY <1>7 DEF WriteFail, ReadFail, Reap, BeginClose
  <2>2. /\ closing'[t] = c /\ writing'[t][c] = NoWrite
        /\ \A u \in Threads \ {t} : closing'[u] = closing[u] /\ writing'[u] = writing[u]
        /\ \A d \in Clients \ {c} : writing'[t][d] = writing[t][d]
    BY <1>0, <2>1 DEF FTypes, OTypes
  <2>3. Quiet(t)' /\ AtFront(t, c)'
    BY <2>2 DEF Quiet, AtFront
  <2> QED
    BY <1>0, <2>1, <2>2, <2>3, FrontOne
<1> QED
  BY <1>3, <1>4, <1>5, <1>6, <1>7 DEF ClientStep, WriteCompletes

\* Every step keeps the writes in flight at the front of send_data.
LEMMA FrontStep ==
  ASSUME ~HalfClose
  PROVE  FInv /\ [Next]_vars => FInv'
<1> SUFFICES ASSUME FInv, [Next]_vars PROVE FInv'
  OBVIOUS
<1> USE DEF centralVars, wakeVars, queueVars, loopVars, clientVars
<1>0. FTypes /\ OInv'
  BY FTyped, OwnStep DEF FInv
<1>1. SUFFICES FrontKept
  BY <1>0 DEF FrontKept, FInv
<1>2. CASE CentralStep \/ UNCHANGED vars
  <2>1. UNCHANGED <<send_data, writing, closing>>
    BY <1>2 DEF CentralStep, Timer, PostSkipped, PostEmplace, PostNotify, CentralRead,
                ThreadCommunication, vars
  <2> QED
    BY <2>1, FrontNothing
<1>3. ASSUME NEW t \in Threads, \/ set_tcp_server(t) \/ NotificationRead(t)
                                \/ ReportEmplace(t) \/ ReportSignal(t) \/ close_connection(t)
      PROVE  FrontKept
  <2>1. UNCHANGED <<send_data, writing>>
    BY <1>3 DEF set_tcp_server, NotificationRead, ReportEmplace, ReportSignal, close_connection
  <2>2. closing' = closing \/ closing' = [closing EXCEPT ![t] = NoClient]
    BY <1>3 DEF set_tcp_server, NotificationRead, ReportEmplace, ReportSignal, close_connection
  <2>3. \A u \in Threads : closing'[u] = closing[u] \/ closing'[u] = NoClient
    BY <1>0, <2>2 DEF FTypes, OTypes
  <2> QED
    BY <2>1, <2>3, FrontNothing
<1>4. ASSUME NEW t \in Threads, Notification(t) PROVE FrontKept
  <2>1. PICK item \in ItemIdx : item = Dequeued(to_server_queue[t])
    BY <1>0, DequeueType DEF FTypes, OTypes
  <2>2. closing' = closing
    BY <1>4 DEF Notification
  <2>3. CASE active_ws[t] = {}
    BY <1>4, <2>2, <2>3, FrontNothing DEF Notification
  <2>4. CASE active_ws[t] # {}
    <3>1. /\ send_data' = [send_data EXCEPT ![t] =
               [c \in Clients |-> IF c \in active_ws[t] THEN Append(@[c], item) ELSE @[c]]]
          /\ writing' = [writing EXCEPT ![t] =
               [c \in Clients |-> IF c \in active_ws[t] /\ send_data[t][c] = <<>>
                                  THEN item ELSE @[c]]]
          /\ tpc[t] = "wait"
      BY <1>4, <2>1, <2>4 DEF Notification, Ready
    <3>2. \A u \in Threads \ {t} : send_data'[u] = send_data[u] /\ writing'[u] = writing[u]
      BY <1>0, <3>1 DEF FTypes, OTypes
    <3>3. ASSUME NEW c \in Clients PROVE AtFront(t, c)'
      <4>1. AtFront(t, c)
        BY DEF FInv
      <4>2. CASE c \in active_ws[t]
        <5>1. /\ send_data'[t][c] = Append(send_data[t][c], item)
              /\ writing'[t][c] = IF send_data[t][c] = <<>> THEN item ELSE writing[t][c]
          BY <1>0, <3>1, <4>2 DEF FTypes, OTypes
        <5> QED
          BY <1>0, <4>1, <5>1, FrontAppend
      <4>3. CASE c \notin active_ws[t]
        <5>1. send_data'[t][c] = send_data[t][c] /\ writing'[t][c] = writing[t][c]
          BY <1>0, <3>1, <4>3 DEF FTypes, OTypes
        <5> QED
          BY <4>1, <5>1 DEF AtFront
      <4> QED
        BY <4>2, <4>3
    <3>4. Quiet(t)'
      BY <1>0, <2>2, <3>1 DEF FTypes, Quiet
    <3>5. ASSUME NEW u \in Threads \ {t} PROVE Quiet(u)' /\ \A c \in Clients : AtFront(u, c)'
      <4>1. Quiet(u) /\ \A c \in Clients : AtFront(u, c)
        BY DEF FInv
      <4> QED
        BY <2>2, <3>2, <4>1, FrontSame
    <3> QED
      BY <3>3, <3>4, <3>5 DEF FrontKept
  <2> QED
    BY <2>3, <2>4
<1>5. ASSUME NEW t \in Threads, ClosePop(t) PROVE FrontKept
  <2>1. PICK c \in Clients : c = closing[t]
    BY <1>0, <1>5 DEF FTypes, PcOK, ClosePop
  <2>2. /\ UNCHANGED <<closing, writing>>
        /\ send_data' = [send_data EXCEPT ![t][c] = Tail(send_data[t][c])]
    BY <1>5, <2>1 DEF ClosePop
  <2>3. /\ \A u \in Threads \ {t} : send_data'[u] = send_data[u]
        /\ \A d \in Clients \ {c} : send_data'[t][d] = send_data[t][d]
    BY <1>0, <2>2 DEF FTypes, OTypes
  <2>4. Quiet(t) /\ c # NoClient /\ writing[t][c] = NoWrite
    BY <2>1, ConstantsAssumption DEF FInv, Quiet
  <2>5. Quiet(t)' /\ AtFront(t, c)'
    BY <2>1, <2>2, <2>4 DEF Quiet, AtFront
  <2> QED
    BY <1>0, <2>2, <2>3, <2>5, FrontOne
<1> QED
  BY <1>2, <1>3, <1>4, <1>5, FrontClient DEF Next, ThreadStep, HandlerStep

\* As long as no peer shuts down its side while it is being written to, every
\* completed write finds the element it wrote at the front of send_data, where
\* req_event_handler takes it without looking.
THEOREM CompletionsMatch ==
  ASSUME ~HalfClose
  PROVE  Spec => []CompletionHasElement
<1>1. Init => FInv
  BY OwnInit DEF Init, FInv, Quiet, AtFront
<1>2. FInv /\ [Next]_vars => FInv'
  BY FrontStep
<1>3. FInv => CompletionHasElement
  BY DEF FInv, AtFront, CompletionHasElement
<1> QED
  BY <1>1, <1>2, <1>3, PTL DEF Spec

\* As long as no peer shuts down its side while it is being written to, the kernel
\* never writes from a buffer the data store has freed: what it writes is in the
\* client's send_data, and that keeps the item in the store.
THEOREM InFlightLive ==
  ASSUME ~HalfClose
  PROVE  Spec => []InFlightBufferLive
<1>1. Init => FInv
  BY OwnInit DEF Init, FInv, Quiet, AtFront
<1>2. FInv /\ [Next]_vars => FInv'
  BY FrontStep
<1>3. FInv => InFlightBufferLive
  <2> SUFFICES ASSUME FInv, NEW t \in Threads, NEW c \in Clients, writing[t][c] \in ItemIdx
               PROVE  data_vec[writing[t][c]] > 0
    BY DEF InFlightBufferLive
  <2>1. PICK i \in ItemIdx : i = writing[t][c]
    OBVIOUS
  <2>2. i # NoWrite
    BY DEF ItemIdx, NoWrite
  <2>3. send_data[t][c] # <<>> /\ Head(send_data[t][c]) = i
    BY <2>1, <2>2 DEF FInv, AtFront
  <2>4. send_data[t][c] \in Seq(ItemIdx \cup {Own})
    BY FTyped DEF FInv, FTypes, OTypes
  <2>5. i \in Range(send_data[t][c])
    BY <2>3, <2>4, TailRange
  <2>6. Owes(t, i)
    BY <2>5 DEF Owes, Sending, Holders
  <2> QED
    BY <2>1, <2>6 DEF FInv, OInv, StoreOK, Cover
<1> QED
  BY <1>1, <1>2, <1>3, PTL DEF Spec

=============================================================================
