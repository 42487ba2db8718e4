--------------------------- MODULE TcpClientProofs ---------------------------
(***************************************************************************)
(* What a client of TcpServer is promised, through websockets, failures    *)
(* and the timer, until a handler acts on a request whose client was       *)
(* closed before: its descriptor is its own connection, what is queued for *)
(* it is meant for it, and one element is written at a time.               *)
(*                                                                         *)
(* Reads and file reads may outlive a client, which the filter or the      *)
(* ghost late deals with.  Writes do not: close_connection waits for them, *)
(* so that the invariant needs the count of writes.  It has a set X of     *)
(* slots whose queue a handler is in the middle of changing.               *)
(***************************************************************************)
EXTENDS TcpServerProofs

\* Writes in flight are of the client that has the slot.
OwnRequests(st) == \A r \in BagToSet(st.writes) : Current(st, r) /\ r.ID = st.id[r.idx]

\* Other requests, if their client is there, are on its connection, or for it.
OwnConn(st) ==
  \A r \in BagToSet(st.reads) \cup BagToSet(st.files) :
    Current(st, r) => r.conn = st.owner[r.idx]

\* The descriptor of a client is on its connection, or there is none because accept() failed.
Connected(st, i) ==
  \/ st.owner[i] = None /\ st.sockfd[i] = 0
  \/ st.owner[i] \in Conns /\ st.sockfd[i] \in Fds /\ st.fds[st.sockfd[i]] = st.owner[i]

\* No two clients have the same connection.
Connections(st, n) ==
  /\ \A i \in st.active_connections : Connected(st, i) /\ st.owner[i] <= n
  /\ \A i, j \in st.active_connections : st.owner[i] = st.owner[j] /\ st.owner[i] # None => i = j

\* A file that is read has a descriptor of its own.
OpenFiles(st) ==
  /\ \A r \in BagToSet(st.files) : st.fds[r.fd] = File /\ st.files[r] = 1
  /\ \A r, q \in BagToSet(st.files) : r.fd = q.fd => r = q

\* Open websockets are of clients, and have an index.
Websockets(st) ==
  /\ st.active_ws \subseteq st.active_connections
  /\ \A i \in st.active_ws : st.ws_client_idx[i] # -1
  /\ -1 \notin st.freed_ws

\* What is queued for a client is meant for it, and one element is being written.
Queue(st, i) ==
  /\ \A m \in DOMAIN st.send_data[i] : st.send_data[i][m] = st.owner[i]
  /\ i \notin st.cut => st.num_write_reqs[i] = IF st.send_data[i] = <<>> THEN 0 ELSE 1

Live(st, n, X) ==
  /\ OwnRequests(st) /\ Counted(st) /\ OwnConn(st) /\ Connections(st, n) /\ OpenFiles(st)
  /\ Websockets(st)
  /\ \A i \in st.active_connections \ X : Queue(st, i)

LGood(st, n, X) == Basic(st) /\ Live(st, n, X)

-----------------------------------------------------------------------------
(* Nothing but Handled changes late.                                       *)

Kept(u, st) == DOMAIN u = Fields /\ u.late = st.late

LEMMA CloseLoopKept ==
  ASSUME NEW st, DOMAIN st = Fields, NEW i, NEW u, u = CloseLoop(st, i)
  PROVE  Kept(u, st)
<1> DEFINE v == [kill_client(st, i) EXCEPT !.send_data[i] = <<>>]
<1>1. Kept(v, st)
  BY DEF kill_client, Fields, Kept
<1>2. u = close_connection(v, i)
  BY DEF CloseLoop
<1> HIDE DEF v
<1> QED
  BY <1>1, <1>2 DEF close_connection, Fields, Kept

LEMMA CloseWebKept ==
  ASSUME NEW st, DOMAIN st = Fields, NEW i, NEW u, u = close_web_connection(st, i)
  PROVE  Kept(u, st)
<1> DEFINE v == kill_client(st, i)
<1>1. Kept(v, st)
  BY DEF kill_client, Fields, Kept
<1>2. u = close_connection(v, i)
  BY DEF close_web_connection
<1> HIDE DEF v
<1> QED
  BY <1>1, <1>2 DEF close_connection, Fields, Kept

LEMMA AddReadKept ==
  ASSUME NEW st, DOMAIN st = Fields, NEW i, NEW u, u = add_read_req(st, i)
  PROVE  Kept(u, st)
  BY DEF add_read_req, Fields, Kept

LEMMA AddWriteKept ==
  ASSUME NEW st, DOMAIN st = Fields, NEW i, NEW u, u = add_write_req(st, i)
  PROVE  Kept(u, st)
  BY DEF add_write_req, Fields, Kept

LEMMA WriteKept ==
  ASSUME NEW st, DOMAIN st = Fields, NEW i, NEW k, NEW u, u = write_connection(st, i, k)
  PROVE  Kept(u, st)
<1> DEFINE v == [st EXCEPT !.send_data[i] = Append(@, k)]
<1>1. Kept(v, st)
  BY DEF Fields, Kept
<1>2. u = add_write_req(v, i) \/ u = v
  BY DEF write_connection
<1> HIDE DEF v
<1> QED
  BY <1>1, <1>2, AddWriteKept DEF Kept

LEMMA SendFileKept ==
  ASSUME NEW st, DOMAIN st = Fields, NEW i, NEW k, NEW u \in send_file_request(st, i, k)
  PROVE  Kept(u, st)
<1>1. CASE FreeFds(st) = {}
  BY <1>1 DEF send_file_request, Kept
<1>2. CASE FreeFds(st) # {}
  <2> DEFINE d == Min(FreeFds(st))
             v == [st EXCEPT !.fds[d] = File]
             r == [idx |-> i, conn |-> k, fd |-> d, turn |-> st.turn[i]]
  <2>1. u = write_connection(v, i, k) \/ u = [v EXCEPT !.files = @ (+) SetToBag({r})]
    BY <1>2 DEF send_file_request
  <2> HIDE DEF d, r
  <2>2. Kept(v, st)
    BY DEF Fields, Kept
  <2> HIDE DEF v
  <2>3. CASE u = write_connection(v, i, k)
    BY <2>2, <2>3, WriteKept DEF Kept
  <2>4. CASE u = [v EXCEPT !.files = @ (+) SetToBag({r})]
    BY <2>2, <2>4 DEF Kept, Fields
  <2> QED
    BY <2>1, <2>3, <2>4
<1> QED
  BY <1>1, <1>2

LEMMA UpgradeKept ==
  ASSUME NEW st, DOMAIN st = Fields, NEW i, NEW k, NEW u \in Upgrade(st, i, k)
  PROVE  Kept(u, st)
<1> DEFINE v == new_ws_client(st, i)
<1>1. u = write_connection(v, i, k)
  BY DEF Upgrade
<1>2. Kept(v, st)
  BY DEF new_ws_client, Fields, Kept
<1> HIDE DEF v
<1> QED
  BY <1>1, <1>2, WriteKept DEF Kept

LEMMA ReadCbKept ==
  ASSUME NEW st, DOMAIN st = Fields, NEW i, NEW k, NEW u \in read_cb(st, i, k)
  PROVE  Kept(u, st)
<1>1. CASE u \in send_file_request(st, i, k)
  BY <1>1, SendFileKept
<1>2. CASE \E x \in get_process(st, i, k) : u = IF i \in x.active_ws THEN add_read_req(x, i) ELSE x
  <2>1. PICK x \in get_process(st, i, k) : u = IF i \in x.active_ws THEN add_read_req(x, i) ELSE x
    BY <1>2
  <2>2. Kept(x, st)
    BY SendFileKept, UpgradeKept DEF get_process
  <2> QED
    BY <2>1, <2>2, AddReadKept DEF Kept
<1>3. CASE u = close_web_connection(st, i)
  BY <1>3, CloseWebKept
<1>4. CASE u \in Frames(st, i, k)
  <2> DEFINE c == st.websocket_clients[st.ws_client_idx[i] + 1]
             v == [st EXCEPT !.active_ws = @ \ {c}]
             w == write_connection(st, c, k)
             x == write_connection(v, c, k)
  <2>1. u = add_read_req(st, i) \/ u = add_read_req(w, i) \/ u = add_read_req(x, i)
    BY <1>4 DEF Frames
  <2> HIDE DEF c
  <2>2. Kept(v, st)
    BY DEF Fields, Kept
  <2> HIDE DEF v
  <2>3. Kept(w, st) /\ Kept(x, st)
    BY <2>2, WriteKept DEF Kept
  <2> HIDE DEF w, x
  <2> QED
    BY <2>1, <2>3, AddReadKept DEF Kept
<1> QED
  BY <1>1, <1>2, <1>3, <1>4 DEF read_cb, HttpRequest

LEMMA WrittenKept ==
  ASSUME NEW st, DOMAIN st = Fields, NEW r, NEW u, u = Written(st, r)
  PROVE  Kept(u, st)
<1> DEFINE i   == r.idx
           v   == [st EXCEPT !.num_write_reqs[i] = @ - 1]
           own == i \in st.active_connections /\ st.id[i] = r.ID
           w   == IF own THEN [v EXCEPT !.send_data[i] = Tail(@)] ELSE v
           x   == IF own /\ w.send_data[i] # <<>> THEN add_write_req(w, i) ELSE w
<1>1. u = write_cb(x, i)
  BY DEF Written
<1>2. Kept(v, st)
  BY DEF Fields, Kept
<1> HIDE DEF v
<1>3. Kept(w, st)
  BY <1>2 DEF Fields, Kept
<1> HIDE DEF w
<1>4. Kept(x, st)
  BY <1>3, AddWriteKept DEF Kept
<1> HIDE DEF x
<1> QED
  BY <1>1, <1>4, CloseWebKept DEF write_cb, Kept

-----------------------------------------------------------------------------
(* The operators on the state record.                                      *)

\* All that the invariant is about but websockets is left alone.
Same(u, st) ==
  /\ u.active_connections = st.active_connections /\ u.owner = st.owner /\ u.id = st.id
  /\ u.turn = st.turn /\ u.cut = st.cut /\ u.sockfd = st.sockfd /\ u.fds = st.fds
  /\ u.send_data = st.send_data /\ u.num_write_reqs = st.num_write_reqs
  /\ u.reads = st.reads /\ u.writes = st.writes /\ u.files = st.files

SameWs(u, st) ==
  /\ u.active_ws = st.active_ws /\ u.freed_ws = st.freed_ws /\ u.ws_client_idx = st.ws_client_idx
  /\ u.websocket_clients = st.websocket_clients /\ u.all_ws = st.all_ws

LEMMA SameLive ==
  ASSUME NEW n, NEW X, NEW st, Live(st, n, X), NEW u, Same(u, st), Websockets(u)
  PROVE  Live(u, n, X)
<1>1. OwnRequests(u) /\ OwnConn(u)
  BY DEF Live, OwnRequests, OwnConn, Current, Same
<1>2. Counted(u)
  BY DEF Live, Counted, OwnWrites, Same
<1>3. Connections(u, n)
  BY DEF Live, Connections, Connected, Same
<1>4. OpenFiles(u)
  BY DEF Live, OpenFiles, Same
<1>5. \A i \in u.active_connections \ X : Queue(u, i)
  BY DEF Live, Queue, Same
<1> QED
  BY <1>1, <1>2, <1>3, <1>4, <1>5 DEF Live

LEMMA HandledLive ==
  ASSUME NEW n, NEW X, NEW st, LGood(st, n, X), NEW r, NEW u, u = Handled(st, r)
  PROVE  LGood(u, n, X) /\ Same(u, st) /\ SameWs(u, st)
<1>1. Basic(u) /\ DOMAIN st = Fields
  BY HandledBasic DEF LGood, Basic, Typed
<1>2. Same(u, st) /\ SameWs(u, st)
  BY <1>1 DEF Handled, Fields, Same, SameWs
<1>3. Websockets(u)
  BY <1>2 DEF LGood, Live, Websockets, Same, SameWs
<1> QED
  BY <1>1, <1>2, <1>3, SameLive DEF LGood

LEMMA IdleLive ==
  ASSUME NEW n, NEW X, NEW st, LGood(st, n, X), NEW i \in Slots,
         NEW u, u = [st EXCEPT !.read_req_active[i] = FALSE]
  PROVE  LGood(u, n, X) /\ Same(u, st) /\ SameWs(u, st)
<1>1. Basic(u) /\ DOMAIN st = Fields
  <2>1. FALSE \in BOOLEAN
    OBVIOUS
  <2> QED
    BY <2>1, IdleBasic DEF LGood, Basic, Typed
<1>2. Same(u, st) /\ SameWs(u, st)
  BY <1>1 DEF Fields, Same, SameWs
<1>3. Websockets(u)
  BY <1>2 DEF LGood, Live, Websockets, Same, SameWs
<1> QED
  BY <1>1, <1>2, <1>3, SameLive DEF LGood

\* kill_client: the index that is freed is the websocket's.
LEMMA KillLive ==
  ASSUME NEW n, NEW X, NEW st, LGood(st, n, X), NEW i \in Slots, NEW u, u = kill_client(st, i)
  PROVE  LGood(u, n, X) /\ Same(u, st) /\ i \notin u.active_ws
<1>1. Basic(u) /\ DOMAIN st = Fields
  BY KillBasic DEF LGood, Basic, Typed
<1>2. /\ Same(u, st) /\ u.active_ws = st.active_ws \ {i} /\ u.ws_client_idx = st.ws_client_idx
      /\ u.freed_ws = IF i \in st.active_ws THEN st.freed_ws \cup {st.ws_client_idx[i]} ELSE st.freed_ws
  BY <1>1 DEF kill_client, Fields, Same
<1>3. Websockets(u)
  BY <1>2 DEF LGood, Live, Websockets, Same
<1> QED
  BY <1>1, <1>2, <1>3, SameLive DEF LGood

\* A websocket starts to close.
LEMMA ClosingLive ==
  ASSUME NEW n, NEW X, NEW st, LGood(st, n, X), NEW i \in Slots,
         NEW u, u = [st EXCEPT !.active_ws = @ \ {i}]
  PROVE  LGood(u, n, X) /\ Same(u, st)
<1>1. Basic(u) /\ DOMAIN st = Fields
  BY ClosingBasic DEF LGood, Basic, Typed
<1>2. /\ Same(u, st) /\ u.active_ws = st.active_ws \ {i} /\ u.ws_client_idx = st.ws_client_idx
      /\ u.freed_ws = st.freed_ws
  BY <1>1 DEF Fields, Same
<1>3. Websockets(u)
  BY <1>2 DEF LGood, Live, Websockets, Same
<1> QED
  BY <1>1, <1>2, <1>3, SameLive DEF LGood

\* new_ws_client for a client.
LEMMA NewWsLive ==
  ASSUME NEW n, NEW st, LGood(st, n, {}), NEW i \in st.active_connections,
         NewWs(st) \in 0 .. MaxWs - 1, NEW u, u = new_ws_client(st, i)
  PROVE  LGood(u, n, {}) /\ Same(u, st)
<1>0. i \in Slots /\ i < st.size
  BY TcpAssumption DEF LGood, Basic, Typed, Partitioned, TcpAssumption
<1>1. Basic(u) /\ DOMAIN st = Fields /\ st.ws_client_idx \in [Slots -> -1 .. MaxWs - 1]
      /\ st.active_ws \subseteq Slots
  BY <1>0, NewWsBasic DEF LGood, Basic, Typed
<1>2. /\ Same(u, st) /\ u.active_ws = st.active_ws \cup {i}
      /\ u.ws_client_idx = [st.ws_client_idx EXCEPT ![i] = NewWs(st)]
      /\ u.freed_ws = st.freed_ws \ {NewWs(st)}
  BY <1>1 DEF new_ws_client, Fields, Same
<1>3. NewWs(st) # -1
  BY TcpAssumption DEF TcpAssumption
<1>4. Websockets(u)
  BY <1>0, <1>1, <1>2, <1>3 DEF LGood, Live, Websockets, Same
<1> QED
  BY <1>1, <1>2, <1>4, SameLive DEF LGood

\* The queue of a slot changes.
Queued(u, st, i, q) ==
  /\ SameWs(u, st) /\ u.send_data[i] = q
  /\ u.active_connections = st.active_connections /\ u.owner = st.owner
  /\ u.cut = st.cut /\ u.num_write_reqs = st.num_write_reqs

LEMMA QueueLive ==
  ASSUME NEW n, NEW st, NEW i \in Slots, LGood(st, n, {i}), NEW q \in Seq(Conns),
         NEW u, u = [st EXCEPT !.send_data[i] = q]
  PROVE  LGood(u, n, {i}) /\ Queued(u, st, i, q)
<1>1. /\ Basic(u) /\ DOMAIN st = Fields /\ st.send_data \in [Slots -> Seq(Conns)]
      /\ st.active_connections \subseteq Slots
  BY QueueBasic DEF LGood, Basic, Typed
<1>2. /\ u.active_connections = st.active_connections /\ u.owner = st.owner /\ u.id = st.id
      /\ u.turn = st.turn /\ u.cut = st.cut /\ u.sockfd = st.sockfd /\ u.fds = st.fds
      /\ u.num_write_reqs = st.num_write_reqs
      /\ u.reads = st.reads /\ u.writes = st.writes /\ u.files = st.files
      /\ u.send_data = [st.send_data EXCEPT ![i] = q] /\ SameWs(u, st)
  BY <1>1 DEF Fields, SameWs
<1>3. OwnRequests(u) /\ OwnConn(u)
  BY <1>2 DEF LGood, Live, OwnRequests, OwnConn, Current
<1>4. Counted(u)
  BY <1>2 DEF LGood, Live, Counted, OwnWrites
<1>5. Connections(u, n)
  BY <1>2 DEF LGood, Live, Connections, Connected
<1>6. OpenFiles(u) /\ Websockets(u)
  BY <1>2 DEF LGood, Live, OpenFiles, Websockets, SameWs
<1>7. \A j \in u.active_connections \ {i} : Queue(u, j)
  <2>1. \A j \in u.active_connections \ {i} : u.send_data[j] = st.send_data[j]
    BY <1>1, <1>2
  <2> QED
    BY <1>2, <2>1 DEF LGood, Live, Queue
<1>8. u.send_data[i] = q
  BY <1>1, <1>2
<1> QED
  BY <1>1, <1>2, <1>3, <1>4, <1>5, <1>6, <1>7, <1>8 DEF LGood, Live, Queued

\* A slot whose queue is as it should be is no exception, and any slot may be one.
LEMMA QueueDone ==
  ASSUME NEW n, NEW st, NEW i, LGood(st, n, {i}), i \in st.active_connections => Queue(st, i)
  PROVE  LGood(st, n, {})
  BY DEF LGood, Live

LEMMA QueueOpen ==
  ASSUME NEW n, NEW st, NEW i, LGood(st, n, {})
  PROVE  LGood(st, n, {i})
  BY DEF LGood, Live

\* The timer finds a client in mid-write.
LEMMA CutLive ==
  ASSUME NEW n, NEW st, LGood(st, n, {}), NEW i \in Slots, NEW u, u = CutAt(st, i)
  PROVE  /\ LGood(u, n, {}) /\ u.active_connections = st.active_connections
         /\ u.num_write_reqs[i] = 0 \/ i \in u.cut
<1> DEFINE c == IF st.num_write_reqs[i] # 0 THEN st.cut \cup {i} ELSE st.cut
<1>1. Basic(u) /\ DOMAIN st = Fields
  BY CutBasic DEF LGood, Basic, Typed
<1>c. u = [st EXCEPT !.cut = c] /\ st.cut \subseteq c /\ (st.num_write_reqs[i] # 0 => i \in c)
  BY DEF CutAt
<1> HIDE DEF c
<1>2. /\ u.active_connections = st.active_connections /\ u.owner = st.owner /\ u.id = st.id
      /\ u.turn = st.turn /\ u.cut = c /\ u.sockfd = st.sockfd /\ u.fds = st.fds
      /\ u.num_write_reqs = st.num_write_reqs /\ u.send_data = st.send_data
      /\ u.reads = st.reads /\ u.writes = st.writes /\ u.files = st.files
      /\ SameWs(u, st)
  BY <1>1, <1>c DEF Fields, SameWs
<1>3. OwnRequests(u) /\ OwnConn(u)
  BY <1>2 DEF LGood, Live, OwnRequests, OwnConn, Current
<1>4. Counted(u)
  BY <1>2 DEF LGood, Live, Counted, OwnWrites
<1>5. Connections(u, n)
  BY <1>2 DEF LGood, Live, Connections, Connected
<1>6. OpenFiles(u) /\ Websockets(u)
  BY <1>2 DEF LGood, Live, OpenFiles, Websockets, SameWs
<1>7. \A j \in u.active_connections : Queue(u, j)
  BY <1>2, <1>c DEF LGood, Live, Queue
<1> QED
  BY <1>1, <1>2, <1>3, <1>4, <1>5, <1>6, <1>7, <1>c DEF LGood, Live

\* close_connection: no write is in flight, and no other client has the descriptor.
LEMMA CloseLive ==
  ASSUME NEW n, NEW st, NEW i \in st.active_connections, LGood(st, n, {i}),
         st.num_write_reqs[i] = 0, i \notin st.active_ws, NEW u, u = close_connection(st, i)
  PROVE  LGood(u, n, {})
<1>0. i \in Slots /\ i < st.size
  BY TcpAssumption DEF LGood, Basic, Typed, Partitioned, TcpAssumption
<1>1. Basic(u)
  BY <1>0, CloseBasic DEF LGood
<1>t. /\ DOMAIN st = Fields /\ st.send_data \in [Slots -> Seq(Conns)]
      /\ st.active_connections \subseteq Slots /\ IsABag(st.writes)
  BY DEF LGood, Basic, Typed
<1>2. /\ u.active_connections = st.active_connections \ {i} /\ u.owner = st.owner /\ u.id = st.id
      /\ u.turn = st.turn /\ u.cut = st.cut /\ u.sockfd = st.sockfd
      /\ u.send_data = [st.send_data EXCEPT ![i] = <<>>]
      /\ u.fds = [d \in Fds |-> IF d = st.sockfd[i] THEN None ELSE st.fds[d]]
      /\ u.num_write_reqs = st.num_write_reqs
      /\ u.reads = st.reads /\ u.writes = st.writes /\ u.files = st.files
      /\ SameWs(u, st)
  BY <1>t DEF close_connection, Fields, SameWs
<1>3. OwnRequests(u)
  <2> SUFFICES ASSUME NEW r \in BagToSet(st.writes)
               PROVE  Current(u, r) /\ r.ID = u.id[r.idx]
    BY <1>2 DEF OwnRequests
  <2>1. Current(st, r) /\ r.ID = st.id[r.idx] /\ Counted(st)
    BY DEF LGood, Live, OwnRequests
  <2>2. r.idx # i
    BY <1>0, <1>t, <2>1, NoneCounted
  <2> QED
    BY <1>2, <2>1, <2>2 DEF Current
<1>4. OwnConn(u)
  BY <1>2 DEF LGood, Live, OwnConn, Current
<1>5. Counted(u)
  BY <1>2 DEF LGood, Live, Counted, OwnWrites
<1>c. /\ \A d \in Fds : u.fds[d] = IF d = st.sockfd[i] THEN None ELSE st.fds[d]
      /\ \A c \in Conns : c # None /\ c # File
      /\ Connected(st, i) /\ 0 \notin Fds
  BY <1>2 DEF Conns, None, File, Fds, LGood, Live, Connections
<1>6. Connections(u, n)
  <2>1. ASSUME NEW j \in u.active_connections
        PROVE  Connected(u, j) /\ u.owner[j] <= n
    <3>1. j \in st.active_connections /\ j # i
      BY <1>2
    <3>2. Connected(st, j) /\ st.owner[j] <= n
      BY <3>1 DEF LGood, Live, Connections
    <3>3. CASE st.owner[j] = None /\ st.sockfd[j] = 0
      BY <1>2, <3>2, <3>3 DEF Connected
    <3>4. CASE st.owner[j] \in Conns /\ st.sockfd[j] \in Fds /\ st.fds[st.sockfd[j]] = st.owner[j]
      <4>1. st.sockfd[j] # st.sockfd[i]
        <5>1. st.sockfd[i] # 0 => st.fds[st.sockfd[i]] = st.owner[i]
          BY <1>c DEF Connected
        <5>2. st.owner[j] # st.owner[i]
          BY <1>c, <3>1, <3>4 DEF LGood, Live, Connections
        <5> QED
          BY <1>c, <3>4, <5>1, <5>2
      <4> QED
        BY <1>2, <1>c, <3>2, <3>4, <4>1 DEF Connected
    <3> QED
      BY <3>2, <3>3, <3>4 DEF Connected
  <2>2. \A j, k \in u.active_connections : u.owner[j] = u.owner[k] /\ u.owner[j] # None => j = k
    BY <1>2 DEF LGood, Live, Connections
  <2> QED
    BY <2>1, <2>2 DEF Connections
<1>7. OpenFiles(u)
  <2>1. ASSUME NEW r \in BagToSet(u.files)
        PROVE  u.fds[r.fd] = File /\ u.files[r] = 1
    <3>1. r \in BagToSet(st.files) /\ r.fd \in Fds
      BY <1>2 DEF LGood, Basic, Typed, ReadFiles
    <3>2. st.fds[r.fd] = File /\ st.files[r] = 1
      BY <3>1 DEF LGood, Live, OpenFiles
    <3>3. r.fd # st.sockfd[i]
      BY <1>c, <3>1, <3>2 DEF Connected
    <3> QED
      BY <1>2, <1>c, <3>1, <3>2, <3>3
  <2>2. \A r, q \in BagToSet(u.files) : r.fd = q.fd => r = q
    BY <1>2 DEF LGood, Live, OpenFiles
  <2> QED
    BY <2>1, <2>2 DEF OpenFiles
<1>8. Websockets(u)
  BY <1>2 DEF LGood, Live, Websockets, SameWs
<1>9. \A j \in u.active_connections \ {} : Queue(u, j)
  <2>1. \A j \in u.active_connections : j \in st.active_connections \ {i} /\ u.send_data[j] = st.send_data[j]
    BY <1>t, <1>2
  <2> QED
    BY <1>2, <2>1 DEF LGood, Live, Queue
<1> QED
  BY <1>1, <1>3, <1>4, <1>5, <1>6, <1>7, <1>8, <1>9 DEF LGood, Live

LEMMA CloseWebLive ==
  ASSUME NEW n, NEW st, NEW i \in st.active_connections, LGood(st, n, {i}),
         st.num_write_reqs[i] # 0 => Queue(st, i),
         NEW u, u = close_web_connection(st, i)
  PROVE  LGood(u, n, {})
<1> DEFINE v == kill_client(st, i)
<1>0. i \in Slots
  BY DEF LGood, Basic, Typed
<1>1. LGood(v, n, {i}) /\ Same(v, st) /\ i \notin v.active_ws
  BY <1>0, KillLive
<1>2. u = close_connection(v, i)
  BY DEF close_web_connection
<1> HIDE DEF v
<1>3. i \in v.active_connections /\ v.num_write_reqs = st.num_write_reqs
  BY <1>1 DEF Same
<1>4. CASE v.num_write_reqs[i] = 0
  BY <1>1, <1>2, <1>3, <1>4, CloseLive
<1>5. CASE v.num_write_reqs[i] # 0
  <2>1. u = v
    BY <1>2, <1>5 DEF close_connection
  <2>2. Queue(v, i)
    BY <1>1, <1>3, <1>5 DEF Queue, Same
  <2> QED
    BY <1>1, <2>1, <2>2, QueueDone
<1> QED
  BY <1>4, <1>5

\* A close loop empties the queue; if the client is not closed with it, it is cut.
LEMMA CloseLoopLive ==
  ASSUME NEW n, NEW st, NEW i \in st.active_connections, LGood(st, n, {i}),
         st.num_write_reqs[i] = 0 \/ i \in st.cut,
         NEW u, u = CloseLoop(st, i)
  PROVE  LGood(u, n, {})
<1> DEFINE v == kill_client(st, i)
           w == [v EXCEPT !.send_data[i] = <<>>]
<1>0. i \in Slots
  BY DEF LGood, Basic, Typed
<1>1. LGood(v, n, {i}) /\ Same(v, st) /\ i \notin v.active_ws
  BY <1>0, KillLive
<1>2. u = close_connection(w, i)
  BY DEF CloseLoop
<1> HIDE DEF v
<1>3. /\ LGood(w, n, {i}) /\ SameWs(w, v) /\ w.send_data[i] = <<>>
      /\ w.active_connections = v.active_connections
      /\ w.cut = v.cut /\ w.num_write_reqs = v.num_write_reqs
  <2> DEFINE q == <<>>
  <2>1. q \in Seq(Conns) /\ w = [v EXCEPT !.send_data[i] = q] /\ q = <<>>
    OBVIOUS
  <2> HIDE DEF w, q
  <2>2. LGood(w, n, {i}) /\ Queued(w, v, i, q)
    BY <1>0, <1>1, <2>1, QueueLive
  <2> QED
    BY <2>1, <2>2 DEF Queued
<1> HIDE DEF w
<1>4. /\ i \in w.active_connections /\ i \notin w.active_ws
      /\ w.num_write_reqs[i] = 0 \/ i \in w.cut
  BY <1>1, <1>3 DEF Same, SameWs
<1>5. CASE w.num_write_reqs[i] = 0
  BY <1>2, <1>3, <1>4, <1>5, CloseLive
<1>6. CASE w.num_write_reqs[i] # 0
  <2>1. u = w
    BY <1>2, <1>6 DEF close_connection
  <2>2. Queue(w, i)
    BY <1>3, <1>4, <1>6 DEF Queue
  <2> QED
    BY <1>3, <2>1, <2>2, QueueDone
<1> QED
  BY <1>5, <1>6

-----------------------------------------------------------------------------
(* Requests.                                                               *)

\* A request of a client is on its connection.
LEMMA TargetLive ==
  ASSUME NEW n, NEW X, NEW st, LGood(st, n, X), NEW i \in st.active_connections
  PROVE  Target(st, i) = st.owner[i]
<1>1. Connected(st, i)
  BY DEF LGood, Live, Connections
<1>2. 0 \notin Fds /\ \A c \in Conns : c # File
  BY DEF Fds, Conns, File
<1> QED
  BY <1>1, <1>2 DEF Connected, Target

\* All but the READ requests in flight is left alone.
ButReads(u, st) ==
  /\ u.active_connections = st.active_connections /\ u.owner = st.owner /\ u.id = st.id
  /\ u.turn = st.turn /\ u.cut = st.cut /\ u.sockfd = st.sockfd /\ u.fds = st.fds
  /\ u.send_data = st.send_data /\ u.num_write_reqs = st.num_write_reqs
  /\ u.writes = st.writes /\ u.files = st.files
  /\ SameWs(u, st)

LEMMA ReadsLive ==
  ASSUME NEW n, NEW X, NEW st, LGood(st, n, X), NEW u, Basic(u), ButReads(u, st),
         \A r \in BagToSet(u.reads) : r \in BagToSet(st.reads) \/ r.conn = st.owner[r.idx]
  PROVE  LGood(u, n, X)
<1>1. OwnRequests(u)
  BY DEF LGood, Live, OwnRequests, Current, ButReads
<1>2. OwnConn(u)
  BY DEF LGood, Live, OwnConn, Current, ButReads
<1>3. Counted(u)
  BY DEF LGood, Live, Counted, OwnWrites, ButReads
<1>4. Connections(u, n)
  BY DEF LGood, Live, Connections, Connected, ButReads
<1>5. OpenFiles(u) /\ Websockets(u)
  BY DEF LGood, Live, OpenFiles, Websockets, ButReads, SameWs
<1>6. \A i \in u.active_connections \ X : Queue(u, i)
  BY DEF LGood, Live, Queue, ButReads
<1> QED
  BY <1>1, <1>2, <1>3, <1>4, <1>5, <1>6 DEF LGood, Live

LEMMA ReadTakenLive ==
  ASSUME NEW n, NEW X, NEW st, LGood(st, n, X), NEW r \in BagToSet(st.reads),
         NEW u, u = [st EXCEPT !.reads = @ (-) SetToBag({r})]
  PROVE  LGood(u, n, X) /\ ButReads(u, st)
<1> DEFINE C == st.reads (-) SetToBag({r})
<1>1. Basic(u) /\ DOMAIN st = Fields /\ IsABag(st.reads)
  BY ReadTakenBasic DEF LGood, Basic, Typed
<1>2. C = st.reads (-) SetToBag({r}) /\ u = [st EXCEPT !.reads = C]
  OBVIOUS
<1> HIDE DEF C
<1>3. BagToSet(C) \subseteq BagToSet(st.reads)
  BY <1>1, <1>2, BagTaken
<1>4. ButReads(u, st) /\ u.reads = C
  BY <1>1, <1>2 DEF Fields, ButReads, SameWs
<1> QED
  BY <1>1, <1>3, <1>4, ReadsLive

LEMMA AddReadLive ==
  ASSUME NEW n, NEW X, NEW st, LGood(st, n, X), NEW i \in st.active_connections,
         NEW u, u = add_read_req(st, i)
  PROVE  LGood(u, n, X)
<1>0. i \in Slots /\ i < st.size
  BY TcpAssumption DEF LGood, Basic, Typed, Partitioned, TcpAssumption
<1>1. CASE st.read_req_active[i]
  BY <1>1 DEF add_read_req
<1>2. CASE ~st.read_req_active[i]
  <2> DEFINE r == Request(st, i)
             C == st.reads (+) SetToBag({r})
  <2>1. Basic(u) /\ DOMAIN st = Fields /\ IsABag(st.reads)
    BY <1>0, AddReadBasic DEF LGood, Basic, Typed
  <2>2. r.idx = i /\ r.conn = st.owner[i]
    BY TargetLive DEF Request
  <2>3. BagToSet(C) = BagToSet(st.reads) \cup {r}
    <3> HIDE DEF r
    <3> QED
      BY <2>1, BagAddProps
  <2>4. u = [st EXCEPT !.reads = C, !.read_req_active[i] = TRUE]
    BY <1>2 DEF add_read_req
  <2> HIDE DEF C, r
  <2>5. ButReads(u, st) /\ u.reads = C
    BY <2>1, <2>4 DEF Fields, ButReads, SameWs
  <2>6. \A q \in BagToSet(u.reads) : q \in BagToSet(st.reads) \/ q.conn = st.owner[q.idx]
    BY <2>2, <2>3, <2>5
  <2> QED
    BY <2>1, <2>5, <2>6, ReadsLive
<1> QED
  BY <1>1, <1>2

\* All but the WRITE requests in flight and their number is left alone.
ButWrites(u, st) ==
  /\ u.active_connections = st.active_connections /\ u.owner = st.owner /\ u.id = st.id
  /\ u.turn = st.turn /\ u.cut = st.cut /\ u.sockfd = st.sockfd /\ u.fds = st.fds
  /\ u.send_data = st.send_data /\ u.reads = st.reads /\ u.files = st.files
  /\ SameWs(u, st)

LEMMA WritesLive ==
  ASSUME NEW n, NEW st, NEW i \in Slots, LGood(st, n, {i}), NEW u, Basic(u), ButWrites(u, st),
         Counted(u), \A r \in BagToSet(u.writes) : Current(st, r) /\ r.ID = st.id[r.idx],
         \A j \in Slots \ {i} : u.num_write_reqs[j] = st.num_write_reqs[j]
  PROVE  LGood(u, n, {i})
<1>1. OwnRequests(u)
  BY DEF OwnRequests, Current, ButWrites
<1>2. OwnConn(u)
  BY DEF LGood, Live, OwnConn, Current, ButWrites
<1>4. Connections(u, n)
  BY DEF LGood, Live, Connections, Connected, ButWrites
<1>5. OpenFiles(u) /\ Websockets(u)
  BY DEF LGood, Live, OpenFiles, Websockets, ButWrites, SameWs
<1>6. \A j \in u.active_connections \ {i} : Queue(u, j)
  <2>1. st.active_connections \subseteq Slots
    BY DEF LGood, Basic, Typed
  <2> QED
    BY <2>1 DEF LGood, Live, Queue, ButWrites
<1> QED
  BY <1>1, <1>2, <1>4, <1>5, <1>6 DEF LGood, Live

WriteAdded(u, st, i) ==
  ButWrites(u, st) /\ u.num_write_reqs[i] = st.num_write_reqs[i] + 1

LEMMA AddWriteLive ==
  ASSUME NEW n, NEW st, NEW i \in st.active_connections, LGood(st, n, {i}),
         NEW u, u = add_write_req(st, i)
  PROVE  LGood(u, n, {i}) /\ WriteAdded(u, st, i)
<1>0. i \in Slots /\ i < st.size
  BY TcpAssumption DEF LGood, Basic, Typed, Partitioned, TcpAssumption
<1> DEFINE r == Request(st, i)
           C == st.writes (+) SetToBag({r})
<1>1. /\ Basic(u) /\ DOMAIN st = Fields /\ IsABag(st.writes) /\ Counted(st)
      /\ st.num_write_reqs \in [Slots -> Int]
  BY <1>0, AddWriteBasic DEF LGood, Live, Basic, Typed
<1>2. r.idx = i /\ r.ID = st.id[i] /\ r.turn = st.turn[i]
  BY DEF Request
<1>3. BagToSet(C) = BagToSet(st.writes) \cup {r}
  <2> HIDE DEF r
  <2> QED
    BY <1>1, BagAddProps
<1>4. u = [st EXCEPT !.writes = C, !.num_write_reqs[i] = @ + 1] /\ C = st.writes (+) SetToBag({r})
  BY DEF add_write_req
<1> HIDE DEF C, r
<1>5. /\ ButWrites(u, st) /\ u.writes = C
      /\ u.num_write_reqs = [st.num_write_reqs EXCEPT ![i] = @ + 1]
  BY <1>1, <1>4 DEF Fields, ButWrites, SameWs
<1>c. u.writes = st.writes (+) SetToBag({r}) /\ u.id = st.id
  BY <1>4, <1>5 DEF ButWrites
<1>6. Counted(u)
  BY <1>0, <1>1, <1>2, <1>c, <1>5, CountedAdded
<1>7. \A q \in BagToSet(u.writes) : Current(st, q) /\ q.ID = st.id[q.idx]
  BY <1>2, <1>3, <1>5 DEF LGood, Live, OwnRequests, Current
<1>8. /\ \A j \in Slots \ {i} : u.num_write_reqs[j] = st.num_write_reqs[j]
      /\ u.num_write_reqs[i] = st.num_write_reqs[i] + 1
  BY <1>0, <1>1, <1>5
<1>9. LGood(u, n, {i})
  BY <1>0, <1>1, <1>5, <1>6, <1>7, <1>8, WritesLive
<1> QED
  BY <1>5, <1>8, <1>9 DEF WriteAdded

\* A write that has ended is taken out of the requests in flight and out of their number.
WriteGone(u, st, r) ==
  /\ ButWrites(u, st)
  /\ u.writes = st.writes (-) SetToBag({r})
  /\ u.num_write_reqs = [st.num_write_reqs EXCEPT ![r.idx] = @ - 1]

LEMMA TakenLive ==
  ASSUME NEW n, NEW st, LGood(st, n, {}), NEW r \in BagToSet(st.writes),
         NEW u, Basic(u), WriteGone(u, st, r)
  PROVE  LGood(u, n, {r.idx})
<1>1. /\ IsABag(st.writes) /\ Counted(st) /\ st.num_write_reqs \in [Slots -> Int]
      /\ r.idx \in Slots /\ r.ID = st.id[r.idx]
  BY DEF LGood, Live, OwnRequests, Basic, Typed, Requests
<1>2. u.id = st.id /\ ButWrites(u, st)
  BY DEF WriteGone, ButWrites
<1>3. Counted(u)
  BY <1>1, <1>2, CountedTaken DEF WriteGone
<1>4. \A q \in BagToSet(u.writes) : Current(st, q) /\ q.ID = st.id[q.idx]
  <2>1. BagToSet(u.writes) \subseteq BagToSet(st.writes)
    BY <1>1, BagTaken DEF WriteGone
  <2> QED
    BY <2>1 DEF LGood, Live, OwnRequests
<1>5. \A j \in Slots \ {r.idx} : u.num_write_reqs[j] = st.num_write_reqs[j]
  BY <1>1 DEF WriteGone
<1>6. LGood(st, n, {r.idx})
  BY QueueOpen
<1> QED
  BY <1>1, <1>2, <1>3, <1>4, <1>5, <1>6, WritesLive

\* write_connection with an answer for the client that has the slot.
LEMMA WriteConnectionLive ==
  ASSUME NEW n, NEW st, NEW i \in st.active_connections, LGood(st, n, {}),
         NEW k \in Conns, k = st.owner[i], NEW u, u = write_connection(st, i, k)
  PROVE  /\ LGood(u, n, {}) /\ SameWs(u, st)
         /\ u.active_connections = st.active_connections /\ u.owner = st.owner
<1> DEFINE q == Append(st.send_data[i], k)
           v == [st EXCEPT !.send_data[i] = q]
<1>0. /\ i \in Slots /\ st.send_data[i] \in Seq(Conns) /\ Queue(st, i) /\ LGood(st, n, {i})
      /\ st.num_write_reqs[i] \in Int
  BY QueueOpen DEF LGood, Live, Basic, Typed
<1>1. /\ q \in Seq(Conns) /\ Len(q) = Len(st.send_data[i]) + 1 /\ q # <<>>
      /\ (Len(q) = 1 <=> st.send_data[i] = <<>>)
      /\ \A m \in DOMAIN q : q[m] = k
  BY <1>0 DEF Queue
<1>2. /\ v = [st EXCEPT !.send_data[i] = q]
      /\ u = IF Len(v.send_data[i]) = 1 THEN add_write_req(v, i) ELSE v
  BY DEF write_connection
<1> HIDE DEF v, q
<1>3. LGood(v, n, {i}) /\ Queued(v, st, i, q)
  BY <1>0, <1>1, <1>2, QueueLive
<1>4. i \in v.active_connections
  BY <1>3 DEF Queued
<1>5. CASE Len(q) = 1
  <2>1. u = add_write_req(v, i)
    BY <1>2, <1>3, <1>5 DEF Queued
  <2>a. LGood(u, n, {i}) /\ WriteAdded(u, v, i)
    BY <1>3, <1>4, <2>1, AddWriteLive
  <2>2. LGood(u, n, {i}) /\ ButWrites(u, v) /\ u.num_write_reqs[i] = v.num_write_reqs[i] + 1
    BY <2>a DEF WriteAdded
  <2>3. Queue(u, i)
    BY <1>0, <1>1, <1>3, <1>5, <2>2 DEF Queue, Queued, ButWrites
  <2>4. LGood(u, n, {})
    BY <2>2, <2>3, QueueDone
  <2> QED
    BY <1>3, <2>2, <2>4 DEF Queued, ButWrites, SameWs
<1>6. CASE Len(q) # 1
  <2>1. u = v
    BY <1>2, <1>3, <1>6 DEF Queued
  <2>2. Queue(u, i)
    BY <1>0, <1>1, <1>3, <1>6, <2>1 DEF Queue, Queued
  <2>3. LGood(u, n, {})
    BY <1>3, <2>1, <2>2, QueueDone
  <2> QED
    BY <1>3, <2>1, <2>3 DEF Queued
<1> QED
  BY <1>5, <1>6

-----------------------------------------------------------------------------
(* Files and descriptors.                                                  *)

\* What is not about descriptors and files is left alone.
ButFiles(u, st) ==
  /\ u.active_connections = st.active_connections /\ u.owner = st.owner /\ u.id = st.id
  /\ u.turn = st.turn /\ u.cut = st.cut /\ u.sockfd = st.sockfd
  /\ u.send_data = st.send_data /\ u.num_write_reqs = st.num_write_reqs
  /\ u.reads = st.reads /\ u.writes = st.writes
  /\ SameWs(u, st)

LEMMA FilesLive ==
  ASSUME NEW n, NEW X, NEW st, LGood(st, n, X), NEW u, Basic(u), ButFiles(u, st), OpenFiles(u),
         \A d \in Fds : st.fds[d] \in Conns => u.fds[d] = st.fds[d],
         \A r \in BagToSet(u.files) : r \in BagToSet(st.files) \/ r.conn = st.owner[r.idx]
  PROVE  LGood(u, n, X)
<1>1. OwnRequests(u)
  BY DEF LGood, Live, OwnRequests, Current, ButFiles
<1>2. OwnConn(u)
  BY DEF LGood, Live, OwnConn, Current, ButFiles
<1>3. Counted(u)
  BY DEF LGood, Live, Counted, OwnWrites, ButFiles
<1>4. Connections(u, n)
  BY DEF LGood, Live, Connections, Connected, ButFiles
<1>5. Websockets(u)
  BY DEF LGood, Live, Websockets, ButFiles, SameWs
<1>6. \A i \in u.active_connections \ X : Queue(u, i)
  BY DEF LGood, Live, Queue, ButFiles
<1> QED
  BY <1>1, <1>2, <1>3, <1>4, <1>5, <1>6 DEF LGood, Live

\* open() for the descriptor d, which no client and no other file has.
Opened(u, st, d) ==
  /\ ButFiles(u, st) /\ u.files = st.files
  /\ u.fds[d] = File /\ \A r \in BagToSet(st.files) : r.fd # d

LEMMA OpenLive ==
  ASSUME NEW n, NEW X, NEW st, LGood(st, n, X), NEW d \in Fds, st.fds[d] = None,
         NEW u, u = [st EXCEPT !.fds[d] = File]
  PROVE  LGood(u, n, X) /\ Opened(u, st, d)
<1>1. /\ Basic(u) /\ DOMAIN st = Fields /\ st.fds \in [Fds -> Conns \cup {None, File}]
      /\ OpenFiles(st)
  <2>1. Basic(st) /\ OpenFiles(st)
    BY DEF LGood, Live
  <2>2. Basic(u)
    BY <2>1, FdBasic
  <2>3. DOMAIN st = Fields /\ st.fds \in [Fds -> Conns \cup {None, File}]
    BY <2>1 DEF Basic, Typed
  <2> QED
    BY <2>1, <2>2, <2>3
<1>2. ButFiles(u, st) /\ u.files = st.files /\ u.fds = [st.fds EXCEPT ![d] = File]
  BY <1>1 DEF Fields, ButFiles, SameWs
<1>3. None # File /\ \A c \in Conns : c # None
  BY DEF None, File, Conns
<1>4. \A e \in Fds : u.fds[e] = IF e = d THEN File ELSE st.fds[e]
  BY <1>1, <1>2
<1>5. \A r \in BagToSet(st.files) : r.fd # d /\ r.fd \in Fds
  BY <1>1, <1>3 DEF OpenFiles, LGood, Basic, Typed, ReadFiles
<1>6. OpenFiles(u)
  BY <1>1, <1>2, <1>4, <1>5 DEF OpenFiles
<1>7. \A e \in Fds : st.fds[e] \in Conns => u.fds[e] = st.fds[e]
  BY <1>3, <1>4
<1>8. LGood(u, n, X)
  BY <1>1, <1>2, <1>6, <1>7, FilesLive
<1> QED
  BY <1>2, <1>4, <1>5, <1>8 DEF Opened

LEMMA NewInBag ==
  ASSUME NEW B, IsABag(B), NEW r, r \notin BagToSet(B), NEW C, C = B (+) SetToBag({r})
  PROVE  BagToSet(C) = BagToSet(B) \cup {r} /\ C[r] = 1 /\ \A e \in BagToSet(B) : C[e] = B[e]
  BY BagAddProps

\* The file is read for the client.
FileAdded(u, st, r) == u = [st EXCEPT !.files = @ (+) SetToBag({r})]

LEMMA FileAddedLive ==
  ASSUME NEW n, NEW X, NEW st, LGood(st, n, X), NEW r \in ReadFiles, r.idx < st.size,
         r.turn <= st.turn[r.idx], r.conn = st.owner[r.idx], st.fds[r.fd] = File,
         \A q \in BagToSet(st.files) : q.fd # r.fd,
         NEW u, FileAdded(u, st, r)
  PROVE  LGood(u, n, X) /\ SameWs(u, st)
<1> DEFINE C == st.files (+) SetToBag({r})
<1>1. Basic(u) /\ DOMAIN st = Fields /\ IsABag(st.files) /\ OpenFiles(st)
  BY FileAddedBasic DEF LGood, Live, Basic, Typed, FileAdded
<1>2. u = [st EXCEPT !.files = C]
  BY DEF FileAdded
<1>b. C = st.files (+) SetToBag({r})
  OBVIOUS
<1> HIDE DEF C
<1>3. ButFiles(u, st) /\ u.files = C /\ u.fds = st.fds
  BY <1>1, <1>2 DEF Fields, ButFiles, SameWs
<1>4. /\ BagToSet(C) = BagToSet(st.files) \cup {r}
      /\ C[r] = 1 /\ \A e \in BagToSet(st.files) : C[e] = st.files[e]
  <2>1. r \notin BagToSet(st.files)
    OBVIOUS
  <2> QED
    BY <1>1, <1>b, <2>1, NewInBag
<1>5. OpenFiles(u)
  <2>1. \A q \in BagToSet(C) : st.fds[q.fd] = File /\ C[q] = 1
    BY <1>1, <1>4 DEF OpenFiles
  <2>2. \A q, p \in BagToSet(C) : q.fd = p.fd => q = p
    BY <1>1, <1>4 DEF OpenFiles
  <2> QED
    BY <1>3, <2>1, <2>2 DEF OpenFiles
<1>6. \A q \in BagToSet(u.files) : q \in BagToSet(st.files) \/ q.conn = st.owner[q.idx]
  BY <1>3, <1>4
<1>7. \A d \in Fds : st.fds[d] \in Conns => u.fds[d] = st.fds[d]
  BY <1>3
<1>8. LGood(u, n, X)
  BY <1>1, <1>3, <1>5, <1>6, <1>7, FilesLive
<1> QED
  BY <1>3, <1>8 DEF ButFiles

\* The file has been read, and is closed.
FileGone(u, st, r) ==
  /\ ButFiles(u, st)
  /\ u.files = st.files (-) SetToBag({r})
  /\ u.fds = [st.fds EXCEPT ![r.fd] = None]

LEMMA FileGoneLive ==
  ASSUME NEW n, NEW X, NEW st, LGood(st, n, X), NEW r \in BagToSet(st.files),
         NEW u, Basic(u), FileGone(u, st, r)
  PROVE  LGood(u, n, X)
<1>1. /\ IsABag(st.files) /\ OpenFiles(st) /\ r.fd \in Fds
      /\ st.fds \in [Fds -> Conns \cup {None, File}]
      /\ \A q \in BagToSet(st.files) : q.fd \in Fds
  BY DEF LGood, Live, Basic, Typed, ReadFiles
<1>2. BagToSet(u.files) \subseteq BagToSet(st.files)
  BY <1>1, BagTaken DEF FileGone
<1>3. /\ \A e \in BagToSet(st.files) : e # r => e \in BagToSet(u.files) /\ u.files[e] = st.files[e]
      /\ st.files[r] = 1 => r \notin BagToSet(u.files)
  <2> DEFINE C == st.files (-) SetToBag({r})
  <2>1. C = st.files (-) SetToBag({r}) /\ u.files = C
    BY DEF FileGone
  <2> HIDE DEF C
  <2>2. /\ \A e \in BagToSet(st.files) : e # r => e \in BagToSet(C) /\ C[e] = st.files[e]
        /\ IF st.files[r] = 1 THEN r \notin BagToSet(C) ELSE r \in BagToSet(C) /\ C[r] = st.files[r] - 1
    BY <1>1, <2>1, BagRemoveProps
  <2> QED
    BY <2>1, <2>2
<1>4. \A d \in Fds : u.fds[d] = IF d = r.fd THEN None ELSE st.fds[d]
  BY <1>1 DEF FileGone
<1>5. OpenFiles(u)
  <2>1. ASSUME NEW q \in BagToSet(u.files)
        PROVE  u.fds[q.fd] = File /\ u.files[q] = 1 /\ q \in BagToSet(st.files)
    <3>1. q # r /\ q \in BagToSet(st.files)
      BY <1>1, <1>2, <1>3 DEF OpenFiles
    <3>2. q.fd # r.fd /\ q.fd \in Fds /\ st.fds[q.fd] = File /\ st.files[q] = 1
      BY <1>1, <3>1 DEF OpenFiles
    <3> QED
      BY <1>3, <1>4, <3>1, <3>2
  <2> QED
    BY <1>1, <2>1 DEF OpenFiles
<1>6. \A d \in Fds : st.fds[d] \in Conns => u.fds[d] = st.fds[d]
  BY <1>1, <1>4 DEF OpenFiles, Conns, File
<1>7. ButFiles(u, st)
  BY DEF FileGone
<1> QED
  BY <1>2, <1>5, <1>6, <1>7, FilesLive

\* setup_client: what is in flight of earlier clients of the slot is no concern of the new
\* one, and no write is.
LEMMA SetupLive ==
  ASSUME NEW n \in Nat, NEW st, LGood(st, n, {}), NEW i \in Slots, i \notin st.active_connections,
         NEW k, NEW d, NEW z,
         \/ k = None /\ d = 0
         \/ k = n + 1 /\ k \in Conns /\ d \in Fds /\ st.fds[d] = None,
         NEW u, Basic(u), SetUp(st, i, k, d, z, u)
  PROVE  LGood(u, n + 1, {}) /\ i \in u.active_connections
<1>t. /\ st.id \in [Slots -> -1 .. IdRange - 1] /\ st.owner \in [Slots -> Conns \cup {None}]
      /\ st.sockfd \in [Slots -> Fds \cup {0}] /\ st.send_data \in [Slots -> Seq(Conns)]
      /\ st.num_write_reqs \in [Slots -> Int] /\ st.active_connections \subseteq Slots
      /\ st.turn \in [Slots -> Nat] /\ st.ws_client_idx \in [Slots -> -1 .. MaxWs - 1]
      /\ st.fds \in [Fds -> Conns \cup {None, File}] /\ IsABag(st.writes)
  BY DEF LGood, Basic, Typed
<1>1. /\ u.active_connections = st.active_connections \cup {i}
      /\ u.active_ws = st.active_ws /\ u.freed_ws = st.freed_ws /\ u.cut = st.cut \ {i}
      /\ u.reads = st.reads /\ u.writes = st.writes /\ u.files = st.files
  BY DEF SetUp
<1>2. \A j \in Slots : j # i =>
        /\ u.id[j] = st.id[j] /\ u.owner[j] = st.owner[j] /\ u.sockfd[j] = st.sockfd[j]
        /\ u.send_data[j] = st.send_data[j] /\ u.num_write_reqs[j] = st.num_write_reqs[j]
        /\ u.turn[j] = st.turn[j] /\ u.ws_client_idx[j] = st.ws_client_idx[j]
  BY <1>t DEF SetUp
<1>3. /\ u.owner[i] = k /\ u.sockfd[i] = d /\ u.send_data[i] = <<>> /\ u.num_write_reqs[i] = 0
      /\ u.turn[i] = st.turn[i] + 1
  BY <1>t DEF SetUp
<1>4. \A e \in Fds : u.fds[e] = IF e = d THEN k ELSE st.fds[e]
  BY DEF SetUp
<1>h. /\ OwnRequests(st) /\ Counted(st) /\ OwnConn(st) /\ Connections(st, n) /\ OpenFiles(st)
      /\ Websockets(st) /\ \A j \in st.active_connections : Queue(st, j)
  BY DEF LGood, Live
<1>w. \A r \in BagToSet(st.writes) : r.idx \in Slots /\ r.idx # i
  BY <1>h, <1>t DEF OwnRequests, Current
<1>5. OwnRequests(u)
  BY <1>1, <1>2, <1>h, <1>w DEF OwnRequests, Current
<1>6. Counted(u)
  <2>1. ASSUME NEW j \in Slots
        PROVE  IsFiniteSet(OwnWrites(u, j)) /\ u.num_write_reqs[j] = Cardinality(OwnWrites(u, j))
    <3>1. CASE j # i
      <4>1. OwnWrites(u, j) = OwnWrites(st, j)
        BY <1>1, <1>2, <3>1 DEF OwnWrites
      <4> QED
        BY <1>2, <1>h, <3>1, <4>1 DEF Counted
    <3>2. CASE j = i
      <4>1. OwnWrites(u, j) = {}
        <5>1. \A w \in Copies(st.writes) : w[1] \in BagToSet(st.writes)
          BY DEF Copies
        <5> QED
          BY <1>1, <1>w, <3>2, <5>1 DEF OwnWrites
      <4> QED
        BY <1>3, <3>2, <4>1, FS_EmptySet
    <3> QED
      BY <3>1, <3>2
  <2> QED
    BY <2>1 DEF Counted
<1>7. OwnConn(u)
  <2> SUFFICES ASSUME NEW r \in BagToSet(st.reads) \cup BagToSet(st.files), Current(u, r)
               PROVE  r.conn = u.owner[r.idx]
    BY <1>1 DEF OwnConn
  <2>1. r.idx \in Slots /\ r.turn \in Nat /\ r.turn <= st.turn[r.idx]
    BY DEF LGood, Basic, Typed, Turns, InTurn, Requests, ReadFiles
  <2>2. r.idx # i
    BY <1>3, <1>t, <2>1 DEF Current
  <2> QED
    BY <1>1, <1>2, <1>h, <2>1, <2>2 DEF OwnConn, Current
<1>8. Websockets(u)
  BY <1>1, <1>2, <1>h, <1>t DEF Websockets
<1>9. \A j \in u.active_connections \ {} : Queue(u, j)
  <2>1. ASSUME NEW j \in st.active_connections
        PROVE  Queue(u, j)
    <3>1. j \in Slots /\ j # i /\ Queue(st, j)
      BY <1>h, <1>t
    <3> QED
      BY <1>1, <1>2, <3>1 DEF Queue
  <2>2. Queue(u, i)
    BY <1>3 DEF Queue
  <2> QED
    BY <1>1, <2>1, <2>2
<1>c. \A c \in Conns : c # None /\ c # File
  BY DEF Conns, None, File
<1>10. Connections(u, n + 1)
  <2>1. ASSUME NEW j \in u.active_connections
        PROVE  Connected(u, j) /\ u.owner[j] <= n + 1
    <3>1. CASE j = i
      BY <1>3, <1>4, <3>1 DEF Connected, None
    <3>2. CASE j # i
      <4>1. j \in st.active_connections /\ j \in Slots
        BY <1>1, <1>t, <3>2
      <4>2. Connected(st, j) /\ st.owner[j] <= n
        BY <1>h, <4>1 DEF Connections
      <4>3. st.owner[j] \in Int /\ n \in Int
        BY <1>t, <4>1, TcpAssumption DEF Conns, None, TcpAssumption
      <4>4. Connected(u, j)
        <5>1. u.owner[j] = st.owner[j] /\ u.sockfd[j] = st.sockfd[j]
          BY <1>2, <3>2, <4>1
        <5>2. CASE st.owner[j] = None /\ st.sockfd[j] = 0
          BY <5>1, <5>2 DEF Connected
        <5>3. CASE st.owner[j] \in Conns /\ st.sockfd[j] \in Fds /\ st.fds[st.sockfd[j]] = st.owner[j]
          <6>1. 0 \notin Fds
            BY DEF Fds
          <6>2. st.sockfd[j] # d
            BY <1>c, <5>3, <6>1
          <6> QED
            BY <1>4, <5>1, <5>3, <6>2 DEF Connected
        <5> QED
          BY <4>2, <5>2, <5>3 DEF Connected
      <4> QED
        BY <1>2, <3>2, <4>1, <4>2, <4>3, <4>4
    <3> QED
      BY <3>1, <3>2
  <2>2. ASSUME NEW j \in u.active_connections, NEW m \in u.active_connections,
               u.owner[j] = u.owner[m], u.owner[j] # None
        PROVE  j = m
    <3>1. \A p \in st.active_connections : p \in Slots /\ p # i /\ u.owner[p] = st.owner[p]
      BY <1>2, <1>t
    <3>2. \A p \in st.active_connections : st.owner[p] # n + 1
      <4>1. \A p \in st.active_connections : st.owner[p] \in Int /\ st.owner[p] <= n
        BY <1>h, <1>t, TcpAssumption DEF Connections, Conns, None, TcpAssumption
      <4> QED
        BY <4>1
    <3>3. CASE j \in st.active_connections /\ m \in st.active_connections
      BY <1>h, <2>2, <3>1, <3>3 DEF Connections
    <3>4. CASE j = i /\ m # i
      BY <1>1, <1>3, <2>2, <3>1, <3>2, <3>4
    <3>5. CASE j # i /\ m = i
      BY <1>1, <1>3, <2>2, <3>1, <3>2, <3>5
    <3> QED
      BY <1>1, <3>3, <3>4, <3>5
  <2> QED
    BY <2>1, <2>2 DEF Connections
<1>11. OpenFiles(u)
  <2>1. ASSUME NEW r \in BagToSet(st.files)
        PROVE  u.fds[r.fd] = File
    <3>1. st.fds[r.fd] = File /\ r.fd \in Fds
      BY <1>h DEF OpenFiles, LGood, Basic, Typed, ReadFiles
    <3>2. r.fd # d
      BY <1>c, <3>1 DEF None, File, Fds
    <3> QED
      BY <1>4, <3>1, <3>2
  <2> QED
    BY <1>1, <1>h, <2>1 DEF OpenFiles
<1> QED
  BY <1>1, <1>5, <1>6, <1>7, <1>8, <1>9, <1>10, <1>11 DEF LGood, Live

-----------------------------------------------------------------------------
(* The callbacks.                                                          *)

\* What the handlers need of an answer to client i, which is on connection k.
Serving(st, i, k) == i \in st.active_connections /\ k = st.owner[i] /\ k \in Conns

LEMMA SendFileLive ==
  ASSUME NEW n, NEW st, LGood(st, n, {}), NEW i, NEW k, Serving(st, i, k),
         NEW u \in send_file_request(st, i, k)
  PROVE  LGood(u, n, {}) /\ i \in u.active_connections
<1>0. i \in Slots /\ i < st.size /\ i \in st.active_connections /\ k \in Conns /\ k = st.owner[i]
  BY TcpAssumption DEF LGood, Basic, Typed, Partitioned, TcpAssumption, Serving
<1>1. CASE FreeFds(st) = {}
  BY <1>0, <1>1 DEF send_file_request
<1>2. CASE FreeFds(st) # {}
  <2> DEFINE d == Min(FreeFds(st))
             v == [st EXCEPT !.fds[d] = File]
             r == [idx |-> i, conn |-> k, fd |-> d, turn |-> st.turn[i]]
  <2>1. d \in Fds /\ st.fds[d] = None
    BY <1>2, FreeFd
  <2>2. u = write_connection(v, i, k) \/ FileAdded(u, v, r)
    BY <1>2 DEF send_file_request, FileAdded
  <2>3. r \in ReadFiles /\ r.idx = i /\ r.turn = st.turn[i] /\ r.conn = k /\ r.fd = d
    BY <1>0, <2>1 DEF ReadFiles, LGood, Basic, Typed
  <2>v. v = [st EXCEPT !.fds[d] = File] /\ v.size = st.size
    BY DEF LGood, Basic, Typed, Fields
  <2> HIDE DEF d, r, v
  <2>o. LGood(v, n, {}) /\ Opened(v, st, d)
    BY <2>1, <2>v, OpenLive
  <2>4. /\ LGood(v, n, {}) /\ ButFiles(v, st) /\ v.files = st.files
        /\ v.fds[d] = File /\ \A q \in BagToSet(st.files) : q.fd # d
    BY <2>o DEF Opened
  <2>5. i \in v.active_connections /\ v.owner[i] = k /\ v.turn = st.turn
    BY <1>0, <2>4 DEF ButFiles
  <2>6. CASE u = write_connection(v, i, k)
    <3>1. LGood(u, n, {}) /\ u.active_connections = v.active_connections
      BY <1>0, <2>4, <2>5, <2>6, WriteConnectionLive
    <3> QED
      BY <2>5, <3>1
  <2>7. CASE FileAdded(u, v, r)
    <3>1. r.idx < v.size /\ r.turn <= v.turn[r.idx] /\ r.conn = v.owner[r.idx] /\ v.fds[r.fd] = File
      BY <1>0, <2>3, <2>4, <2>5, <2>v DEF LGood, Basic, Typed
    <3>2. \A q \in BagToSet(v.files) : q.fd # r.fd
      BY <2>3, <2>4
    <3>3. LGood(u, n, {})
      BY <2>3, <2>4, <2>7, <3>1, <3>2, FileAddedLive
    <3>4. u.active_connections = v.active_connections
      BY <2>4, <2>7 DEF FileAdded, LGood, Basic, Typed, Fields
    <3> QED
      BY <2>5, <3>3, <3>4
  <2> QED
    BY <2>2, <2>6, <2>7
<1> QED
  BY <1>1, <1>2

LEMMA UpgradeLive ==
  ASSUME NEW n, NEW st, LGood(st, n, {}), NEW i, NEW k, Serving(st, i, k),
         NEW u \in Upgrade(st, i, k)
  PROVE  LGood(u, n, {}) /\ i \in u.active_connections
<1> DEFINE v == new_ws_client(st, i)
<1>1. NewWs(st) \in 0 .. MaxWs - 1 /\ u = write_connection(v, i, k)
  BY DEF Upgrade
<1>2. LGood(v, n, {}) /\ Same(v, st)
  BY <1>1, NewWsLive DEF Serving
<1> HIDE DEF v
<1>3. Serving(v, i, k)
  BY <1>2 DEF Serving, Same
<1>4. LGood(u, n, {}) /\ u.active_connections = v.active_connections
  BY <1>1, <1>2, <1>3, WriteConnectionLive DEF Serving
<1> QED
  BY <1>3, <1>4 DEF Serving

LEMMA HttpLive ==
  ASSUME NEW n, NEW st, LGood(st, n, {}), NEW i, NEW k, Serving(st, i, k),
         NEW u \in HttpRequest(st, i, k)
  PROVE  LGood(u, n, {})
<1>1. CASE u \in send_file_request(st, i, k)
  BY <1>1, SendFileLive
<1>2. CASE \E x \in get_process(st, i, k) : u = IF i \in x.active_ws THEN add_read_req(x, i) ELSE x
  <2>1. PICK x \in get_process(st, i, k) : u = IF i \in x.active_ws THEN add_read_req(x, i) ELSE x
    BY <1>2
  <2>2. LGood(x, n, {}) /\ i \in x.active_connections
    BY SendFileLive, UpgradeLive DEF get_process
  <2> QED
    BY <2>1, <2>2, AddReadLive
<1> QED
  BY <1>1, <1>2 DEF HttpRequest

\* The answers to frames go to the client itself: its index is its own.
LEMMA FramesLive ==
  ASSUME NEW n, NEW st, LGood(st, n, {}), NEW i, NEW k, Serving(st, i, k),
         i \in st.active_ws, NEW u \in Frames(st, i, k)
  PROVE  LGood(u, n, {})
<1> DEFINE c == st.websocket_clients[st.ws_client_idx[i] + 1]
           v == [st EXCEPT !.active_ws = @ \ {i}]
           w == write_connection(st, i, k)
           x == write_connection(v, i, k)
<1>1. c = i /\ i \in Slots
  BY DEF LGood, Live, Basic, Typed, WsOwned, Websockets
<1>2. u = add_read_req(st, i) \/ u = add_read_req(w, i) \/ u = add_read_req(x, i)
  <2>1. u \in {add_read_req(st, i),
               add_read_req(write_connection(st, c, k), i),
               add_read_req(write_connection([st EXCEPT !.active_ws = @ \ {c}], c, k), i)}
    BY DEF Frames
  <2> HIDE DEF c
  <2> QED
    BY <1>1, <2>1
<1> HIDE DEF c
<1>3. LGood(v, n, {}) /\ Same(v, st)
  BY <1>1, ClosingLive
<1> HIDE DEF v
<1>4. Serving(v, i, k)
  BY <1>3 DEF Serving, Same
<1>5. LGood(w, n, {}) /\ i \in w.active_connections
  BY WriteConnectionLive DEF Serving
<1>6. LGood(x, n, {}) /\ i \in x.active_connections
  BY <1>3, <1>4, WriteConnectionLive DEF Serving
<1> HIDE DEF w, x
<1> QED
  BY <1>2, <1>5, <1>6, AddReadLive DEF Serving

LEMMA ReadCbLive ==
  ASSUME NEW n, NEW st, LGood(st, n, {}), NEW i, NEW k, Serving(st, i, k),
         NEW u \in read_cb(st, i, k)
  PROVE  LGood(u, n, {})
<1>1. CASE u \in HttpRequest(st, i, k)
  BY <1>1, HttpLive
<1>2. CASE u = close_web_connection(st, i)
  <2>1. LGood(st, n, {i}) /\ Queue(st, i)
    BY QueueOpen DEF LGood, Live, Serving
  <2> QED
    BY <1>2, <2>1, CloseWebLive DEF Serving
<1>3. CASE i \in st.active_ws /\ u \in Frames(st, i, k)
  BY <1>3, FramesLive
<1> QED
  BY <1>1, <1>2, <1>3 DEF read_cb

LEMMA WriteCbLive ==
  ASSUME NEW n, NEW st, LGood(st, n, {}), NEW i \in st.active_connections, NEW u, u = write_cb(st, i)
  PROVE  LGood(u, n, {})
<1>1. LGood(st, n, {i}) /\ Queue(st, i)
  BY QueueOpen DEF LGood, Live
<1> QED
  BY <1>1, CloseWebLive DEF write_cb

\* The rest of the elements is written, one after the other: st is the state once the write
\* that is finished is taken out, its element still in send_data.
Popped(w, st, i) == w = [st EXCEPT !.send_data[i] = Tail(@)]

Ready(st, i) ==
  /\ st.send_data[i] # <<>>
  /\ \A m \in DOMAIN st.send_data[i] : st.send_data[i][m] = st.owner[i]
  /\ i \notin st.cut => st.num_write_reqs[i] = 0

LEMMA NextElement ==
  ASSUME NEW n, NEW st, NEW i \in st.active_connections, LGood(st, n, {i}),
         Ready(st, i), NEW w, Popped(w, st, i),
         NEW x, x = IF w.send_data[i] # <<>> THEN add_write_req(w, i) ELSE w
  PROVE  LGood(x, n, {}) /\ i \in x.active_connections
<1> DEFINE q == Tail(st.send_data[i])
<1>0. i \in Slots /\ st.send_data[i] \in Seq(Conns) /\ st.num_write_reqs[i] \in Int
  BY DEF LGood, Basic, Typed
<1>1. q \in Seq(Conns) /\ \A m \in DOMAIN q : q[m] = st.owner[i]
  BY <1>0 DEF Ready
<1>2. w = [st EXCEPT !.send_data[i] = q]
  BY DEF Popped
<1> HIDE DEF q
<1>3. LGood(w, n, {i}) /\ Queued(w, st, i, q)
  BY <1>0, <1>1, <1>2, QueueLive
<1>4. i \in w.active_connections /\ w.send_data[i] = q
  BY <1>3 DEF Queued
<1>5. CASE q # <<>>
  <2>1. x = add_write_req(w, i)
    BY <1>4, <1>5
  <2>a. LGood(x, n, {i}) /\ WriteAdded(x, w, i)
    BY <1>3, <1>4, <2>1, AddWriteLive, Zenon
  <2>2. LGood(x, n, {i}) /\ ButWrites(x, w) /\ x.num_write_reqs[i] = w.num_write_reqs[i] + 1
    BY <2>a DEF WriteAdded
  <2>3. /\ x.active_connections = w.active_connections /\ x.owner = w.owner /\ x.cut = w.cut
        /\ x.send_data[i] = q
    BY <1>4, <2>2 DEF ButWrites
  <2>4. Queue(x, i)
    BY <1>1, <1>3, <1>5, <2>2, <2>3 DEF Queue, Queued, Ready
  <2> QED
    BY <1>4, <2>2, <2>3, <2>4, QueueDone
<1>6. CASE q = <<>>
  <2>1. x = w
    BY <1>4, <1>6
  <2>2. Queue(x, i)
    BY <1>1, <1>3, <1>6, <2>1 DEF Queue, Queued, Ready
  <2> QED
    BY <1>3, <1>4, <2>1, <2>2, QueueDone
<1> QED
  BY <1>5, <1>6

-----------------------------------------------------------------------------
(* The handlers.                                                           *)

\* Until a handler acts on a request whose client was closed before, clients are as they
\* should be.
LInv == BInv /\ (s.late \/ Live(s, accepted, {}))

\* Handled, with the request already taken out or not.
LEMMA HandledLate ==
  ASSUME NEW st, DOMAIN st = Fields, NEW r, NEW u, u = Handled(st, r)
  PROVE  DOMAIN u = Fields /\ u.late = (st.late \/ ~Current(st, r))
  BY DEF Handled, Fields

LEMMA AcceptLive ==
  ASSUME LInv, Accept
  PROVE  LInv'
<1> DEFINE i == NewSlot(s)
           k == IF FreeFds(s) = {} THEN None ELSE accepted + 1
           d == IF FreeFds(s) = {} THEN 0 ELSE Min(FreeFds(s))
           v == [setup_client(s, i, k, d) EXCEPT !.active_connections = @ \cup {i}]
<1>b. BInv' /\ BInv
  BY AcceptBasic DEF LInv
<1>1. s' = add_read_req(v, i) /\ i < MaxSlots /\ accepted' = accepted + 1
  BY DEF Accept
<1>2. DOMAIN s = Fields /\ accepted \in Nat /\ accepted + 1 \in Conns
  BY <1>b, TcpAssumption DEF BInv, Basic, Typed, TcpAssumption, Conns, Accept
<1>3. /\ k \in Conns \cup {None} /\ d \in Fds \cup {0}
      /\ \/ k = None /\ d = 0
         \/ k = accepted + 1 /\ k \in Conns /\ d \in Fds /\ s.fds[d] = None
  BY <1>2, FreeFd
<1>4. SetUp(s, i, k, d, new_id(s, i), v)
  <2> HIDE DEF i, k, d
  <2> QED
    BY <1>2, SetupFields
<1>5. Basic(v) /\ i \in Slots /\ i \notin s.active_connections
  <2>1. i \in Slots /\ (i \in s.freed_indexes \/ i = s.size)
    BY <1>1, <1>b, NewSlotFree DEF BInv
  <2>s. s.size \in Int /\ Partitioned(s)
    BY <1>b, TcpAssumption DEF BInv, Basic, Typed, TcpAssumption
  <2> HIDE DEF i, k, d
  <2>2. i \notin s.active_connections
    BY <2>1, <2>s DEF Partitioned
  <2>3. Basic(v)
    BY <1>1, <1>3, <1>b, SetupBasic DEF BInv, i
  <2> QED
    BY <2>1, <2>2, <2>3
<1> HIDE DEF v, i, k, d
<1>6. CASE s.late
  <2>1. DOMAIN v = Fields /\ v.late = s.late
    BY <1>4 DEF SetUp
  <2>2. Kept(s', v)
    BY <1>1, <2>1, AddReadKept
  <2> QED
    BY <1>6, <1>b, <2>1, <2>2 DEF Kept, LInv
<1>7. CASE ~s.late
  <2>1. LGood(s, accepted, {})
    BY <1>7, <1>b DEF LInv, LGood, BInv
  <2>2. LGood(v, accepted + 1, {}) /\ i \in v.active_connections
    BY <1>2, <1>3, <1>4, <1>5, <2>1, SetupLive
  <2>3. LGood(s', accepted + 1, {})
    BY <1>1, <2>2, AddReadLive
  <2> QED
    BY <1>1, <1>b, <2>3 DEF LGood, LInv
<1> QED
  BY <1>6, <1>7

LEMMA ReadDoneLive ==
  ASSUME LInv, NEW r \in BagToSet(s.reads), ReadDone(r)
  PROVE  LInv'
<1> DEFINE v == [s EXCEPT !.reads = @ (-) SetToBag({r})]
           h == Handled(v, r)
           w == [h EXCEPT !.read_req_active[r.idx] = FALSE]
<1>b. BInv' /\ BInv /\ DOMAIN s = Fields
  BY ReadDoneBasic DEF LInv, BInv, Basic, Typed
<1>1. s' = v \/ s' \in read_cb(w, r.idx, r.conn)
  BY DEF ReadDone
<1>2. r.idx \in Slots /\ r.conn \in Conns /\ accepted' = accepted
  BY <1>b DEF ReadDone, BInv, Basic, Typed, Requests, None
<1>3. DOMAIN v = Fields /\ v.late = s.late
  BY <1>b DEF Fields
<1>v. v = [s EXCEPT !.reads = @ (-) SetToBag({r})]
  OBVIOUS
<1> HIDE DEF v
<1>4. DOMAIN h = Fields /\ h.late = (v.late \/ ~Current(v, r))
  BY <1>3, HandledLate
<1>h. h = Handled(v, r)
  OBVIOUS
<1> HIDE DEF h
<1>5. DOMAIN w = Fields /\ w.late = h.late
  BY <1>4 DEF Fields
<1>w. w = [h EXCEPT !.read_req_active[r.idx] = FALSE]
  OBVIOUS
<1> HIDE DEF w
<1>6. s' \in read_cb(w, r.idx, r.conn) => Kept(s', w)
  BY <1>5, ReadCbKept
<1>7. CASE s.late
  BY <1>1, <1>3, <1>4, <1>5, <1>6, <1>7, <1>b DEF Kept, LInv
<1>8. CASE ~s.late
  <2>1. LGood(s, accepted, {})
    BY <1>8, <1>b DEF LInv, LGood, BInv
  <2>2. LGood(v, accepted, {}) /\ ButReads(v, s)
    BY <1>v, <2>1, ReadTakenLive
  <2>3. CASE s' = v
    BY <1>2, <1>b, <2>2, <2>3 DEF LInv, LGood
  <2>4. CASE s' \in read_cb(w, r.idx, r.conn) /\ ~Current(v, r)
    BY <1>4, <1>5, <1>6, <1>b, <2>4 DEF Kept, LInv
  <2>5. CASE s' \in read_cb(w, r.idx, r.conn) /\ Current(v, r)
    <3>1. LGood(h, accepted, {}) /\ Same(h, v)
      BY <1>h, <2>2, HandledLive
    <3>2. LGood(w, accepted, {}) /\ Same(w, h)
      BY <1>2, <1>w, <3>1, IdleLive
    <3>3. Serving(s, r.idx, r.conn)
      <4>1. Current(s, r)
        BY <2>2, <2>5 DEF Current, ButReads
      <4> QED
        BY <1>2, <2>1, <4>1 DEF LGood, Live, OwnConn, Serving, Current
    <3>4. Serving(w, r.idx, r.conn)
      BY <2>2, <3>1, <3>2, <3>3 DEF Serving, Same, ButReads
    <3>5. LGood(s', accepted, {})
      BY <2>5, <3>2, <3>4, ReadCbLive
    <3> QED
      BY <1>2, <1>b, <3>5 DEF LInv, LGood
  <2> QED
    BY <1>1, <2>3, <2>4, <2>5
<1> QED
  BY <1>7, <1>8

LEMMA ReadFailLive ==
  ASSUME LInv, NEW r \in BagToSet(s.reads), ReadFail(r)
  PROVE  LInv'
<1> DEFINE v == [s EXCEPT !.reads = @ (-) SetToBag({r})]
           h == Handled(v, r)
<1>b. BInv' /\ BInv /\ DOMAIN s = Fields
  BY ReadFailBasic DEF LInv, BInv, Basic, Typed
<1>1. s' = v \/ (s' = CloseLoop(h, r.idx) /\ v.num_write_reqs[r.idx] = 0)
  BY DEF ReadFail
<1>2. accepted' = accepted
  BY DEF ReadFail
<1>3. DOMAIN v = Fields /\ v.late = s.late
  BY <1>b DEF Fields
<1>v. v = [s EXCEPT !.reads = @ (-) SetToBag({r})]
  OBVIOUS
<1> HIDE DEF v
<1>4. DOMAIN h = Fields /\ h.late = (v.late \/ ~Current(v, r))
  BY <1>3, HandledLate
<1>h. h = Handled(v, r)
  OBVIOUS
<1> HIDE DEF h
<1>6. s' = CloseLoop(h, r.idx) => Kept(s', h)
  BY <1>4, CloseLoopKept
<1>7. CASE s.late
  BY <1>1, <1>3, <1>4, <1>6, <1>7, <1>b DEF Kept, LInv
<1>8. CASE ~s.late
  <2>1. LGood(s, accepted, {})
    BY <1>8, <1>b DEF LInv, LGood, BInv
  <2>2. LGood(v, accepted, {})
    BY <1>v, <2>1, ReadTakenLive
  <2>3. CASE s' = v
    BY <1>2, <1>b, <2>2, <2>3 DEF LInv, LGood
  <2>4. CASE s' = CloseLoop(h, r.idx) /\ ~Current(v, r)
    BY <1>4, <1>6, <1>b, <2>4 DEF Kept, LInv
  <2>5. CASE s' = CloseLoop(h, r.idx) /\ v.num_write_reqs[r.idx] = 0 /\ Current(v, r)
    <3>1. LGood(h, accepted, {}) /\ Same(h, v)
      BY <1>h, <2>2, HandledLive
    <3>2. r.idx \in h.active_connections /\ h.num_write_reqs[r.idx] = 0
      BY <2>5, <3>1 DEF Same, Current
    <3>3. LGood(h, accepted, {r.idx})
      BY <3>1, QueueOpen
    <3>4. LGood(s', accepted, {})
      BY <2>5, <3>2, <3>3, CloseLoopLive
    <3> QED
      BY <1>2, <1>b, <3>4 DEF LInv, LGood
  <2> QED
    BY <1>1, <2>3, <2>4, <2>5
<1> QED
  BY <1>7, <1>8

LEMMA CountTyped ==
  ASSUME NEW st, Basic(st), NEW i \in Slots
  PROVE  DOMAIN st = Fields /\ st.num_write_reqs[i] - 1 \in Int
  BY DEF Basic, Typed

\* A write that has ended, taken out of the requests in flight and counted.
LEMMA WriteEnds ==
  ASSUME NEW n, NEW st, LGood(st, n, {}), NEW r \in BagToSet(st.writes),
         NEW v, v = [st EXCEPT !.writes = @ (-) SetToBag({r})],
         NEW h, h = Handled(v, r),
         NEW w, w = [h EXCEPT !.num_write_reqs[r.idx] = @ - 1]
  PROVE  LGood(w, n, {r.idx}) /\ WriteGone(w, st, r)
<1>0. DOMAIN st = Fields /\ r.idx \in Slots
  BY DEF LGood, Basic, Typed, Requests
<1>1. Basic(v)
  BY WriteTakenBasic DEF LGood
<1>2. Basic(h) /\ DOMAIN h = Fields /\ h.num_write_reqs[r.idx] - 1 \in Int
  <2>1. Basic(h)
    BY <1>1, HandledBasic
  <2> QED
    BY <1>0, <2>1, CountTyped
<1>3. Basic(w)
  BY <1>0, <1>2, CountBasic
<1>4. WriteGone(w, st, r)
  <2>1. /\ ButWrites(v, st) /\ v.writes = st.writes (-) SetToBag({r})
        /\ v.num_write_reqs = st.num_write_reqs /\ DOMAIN v = Fields
    BY <1>0 DEF Fields, ButWrites, SameWs
  <2>2. ButWrites(h, v) /\ h.writes = v.writes /\ h.num_write_reqs = v.num_write_reqs
    BY <2>1 DEF Handled, Fields, ButWrites, SameWs
  <2>3. /\ ButWrites(w, h) /\ w.writes = h.writes
        /\ w.num_write_reqs = [h.num_write_reqs EXCEPT ![r.idx] = @ - 1]
    BY <1>2 DEF Fields, ButWrites, SameWs
  <2> QED
    BY <2>1, <2>2, <2>3 DEF WriteGone, ButWrites, SameWs
<1> QED
  BY <1>3, <1>4, TakenLive

\* Its client is still there, and has the ID it was submitted with.
LEMMA WriteOwn ==
  ASSUME NEW n, NEW st, LGood(st, n, {}), NEW r \in BagToSet(st.writes)
  PROVE  /\ r.idx \in st.active_connections /\ st.id[r.idx] = r.ID /\ ~Stale(st, r)
         /\ Queue(st, r.idx) /\ r.idx \in Slots /\ st.num_write_reqs[r.idx] # 0
<1>1. r.idx \in st.active_connections /\ st.id[r.idx] = r.ID /\ r.idx \in Slots
  BY DEF LGood, Live, OwnRequests, Current, Basic, Typed
<1>2. st.num_write_reqs[r.idx] # 0
  BY <1>1, NoneCounted DEF LGood, Live, Basic, Typed
<1> QED
  BY <1>1, <1>2 DEF LGood, Live, Stale

\* Written for such a write, once it is taken out: the parts of the definition by name.
LEMMA WrittenParts ==
  ASSUME NEW st, NEW r, r.idx \in st.active_connections, st.id[r.idx] = r.ID,
         NEW v, v = [st EXCEPT !.num_write_reqs[r.idx] = @ - 1]
  PROVE  \E w, x : /\ Popped(w, v, r.idx)
                   /\ x = IF w.send_data[r.idx] # <<>> THEN add_write_req(w, r.idx) ELSE w
                   /\ Written(st, r) = write_cb(x, r.idx)
<1> DEFINE w == [v EXCEPT !.send_data[r.idx] = Tail(@)]
           x == IF w.send_data[r.idx] # <<>> THEN add_write_req(w, r.idx) ELSE w
<1>1. Written(st, r) = write_cb(x, r.idx)
  BY DEF Written
<1>2. Popped(w, v, r.idx)
  BY DEF Popped
<1> HIDE DEF w
<1>3. x = IF w.send_data[r.idx] # <<>> THEN add_write_req(w, r.idx) ELSE w
  OBVIOUS
<1> HIDE DEF x
<1> QED
  BY <1>1, <1>2, <1>3

LEMMA WriteDoneLive ==
  ASSUME LInv, NEW r \in BagToSet(s.writes), WriteDone(r)
  PROVE  LInv'
<1> DEFINE i == r.idx
           v == [s EXCEPT !.writes = @ (-) SetToBag({r})]
           h == Handled(v, r)
           w == [h EXCEPT !.num_write_reqs[i] = @ - 1]
<1>b. BInv' /\ BInv /\ DOMAIN s = Fields
  BY WriteDoneBasic DEF LInv, BInv, Basic, Typed
<1>1. /\ s' = v \/ s' = Written(h, r)
      /\ ~Stale(s, r) => s' = Written(h, r) /\ ~NothingToPop(r)
  BY DEF WriteDone
<1>2. accepted' = accepted
  BY DEF WriteDone
<1>3. DOMAIN v = Fields /\ v.late = s.late
  BY <1>b DEF Fields
<1>v. v = [s EXCEPT !.writes = @ (-) SetToBag({r})]
  OBVIOUS
<1> HIDE DEF v
<1>4. DOMAIN h = Fields /\ h.late = (v.late \/ ~Current(v, r))
  BY <1>3, HandledLate
<1>h. h = Handled(v, r)
  OBVIOUS
<1> HIDE DEF h
<1>5. CASE s.late
  <2>1. s' = Written(h, r) => Kept(s', h)
    BY <1>4, WrittenKept
  <2> QED
    BY <1>1, <1>3, <1>4, <1>5, <1>b, <2>1 DEF Kept, LInv
<1>6. CASE ~s.late
  <2>1. LGood(s, accepted, {})
    BY <1>6, <1>b DEF LInv, LGood, BInv
  <2>2. /\ i \in s.active_connections /\ s.id[i] = r.ID /\ ~Stale(s, r)
        /\ Queue(s, i) /\ i \in Slots
    BY <2>1, WriteOwn
  <2>3. s' = Written(h, r) /\ s.send_data[i] # <<>>
    BY <1>1, <2>2 DEF NothingToPop
  <2>w. w = [h EXCEPT !.num_write_reqs[i] = @ - 1]
    OBVIOUS
  <2> HIDE DEF w
  <2>4. LGood(w, accepted, {i}) /\ WriteGone(w, s, r)
    BY <1>v, <1>h, <2>1, <2>w, WriteEnds
  <2>5. /\ i \in w.active_connections /\ w.send_data = s.send_data /\ w.owner = s.owner
        /\ w.cut = s.cut /\ w.num_write_reqs[i] = s.num_write_reqs[i] - 1
    <3>1. s.num_write_reqs \in [Slots -> Int]
      BY <2>1 DEF LGood, Basic, Typed
    <3> QED
      BY <2>2, <2>4, <3>1 DEF WriteGone, ButWrites
  <2>6. i \notin w.cut => w.num_write_reqs[i] = 0
    BY <2>2, <2>3, <2>5 DEF Queue
  <2>7. /\ w.send_data[i] # <<>>
        /\ \A m \in DOMAIN w.send_data[i] : w.send_data[i][m] = w.owner[i]
    BY <2>2, <2>3, <2>5 DEF Queue
  <2>8. i \in h.active_connections /\ h.id[i] = r.ID
    BY <1>b, <1>3, <1>h, <1>v, <2>2 DEF Handled, Fields
  <2>9. PICK p, x : /\ Popped(p, w, i)
                    /\ x = IF p.send_data[i] # <<>> THEN add_write_req(p, i) ELSE p
                    /\ Written(h, r) = write_cb(x, i)
    BY <2>8, <2>w, WrittenParts
  <2>r. Ready(w, i)
    BY <2>6, <2>7 DEF Ready
  <2>10. LGood(x, accepted, {}) /\ i \in x.active_connections
    BY <2>4, <2>5, <2>9, <2>r, NextElement
  <2>11. LGood(s', accepted, {})
    BY <2>3, <2>9, <2>10, WriteCbLive
  <2> QED
    BY <1>2, <1>b, <2>11 DEF LInv, LGood
<1> QED
  BY <1>5, <1>6

LEMMA WriteFailLive ==
  ASSUME LInv, NEW r \in BagToSet(s.writes), WriteFail(r)
  PROVE  LInv'
<1> DEFINE i == r.idx
           v == [s EXCEPT !.writes = @ (-) SetToBag({r})]
           h == Handled(v, r)
           w == [h EXCEPT !.num_write_reqs[i] = @ - 1]
<1>b. BInv' /\ BInv /\ DOMAIN s = Fields
  BY WriteFailBasic DEF LInv, BInv, Basic, Typed
<1>1. s' = IF s.id[i] # r.ID THEN v ELSE IF w.num_write_reqs[i] = 0 THEN CloseLoop(w, i) ELSE w
  BY DEF WriteFail
<1>2. accepted' = accepted
  BY DEF WriteFail
<1>3. DOMAIN v = Fields /\ v.late = s.late
  BY <1>b DEF Fields
<1>v. v = [s EXCEPT !.writes = @ (-) SetToBag({r})]
  OBVIOUS
<1> HIDE DEF v
<1>4. DOMAIN h = Fields /\ h.late = (v.late \/ ~Current(v, r))
  BY <1>3, HandledLate
<1>h. h = Handled(v, r)
  OBVIOUS
<1> HIDE DEF h
<1>w. w = [h EXCEPT !.num_write_reqs[i] = @ - 1]
  OBVIOUS
<1>5. DOMAIN w = Fields /\ w.late = h.late
  BY <1>4 DEF Fields
<1> HIDE DEF w
<1>6. CASE s.late
  <2>1. s' = CloseLoop(w, i) => Kept(s', w)
    BY <1>5, CloseLoopKept
  <2> QED
    BY <1>1, <1>3, <1>4, <1>5, <1>6, <1>b, <2>1 DEF Kept, LInv
<1>7. CASE ~s.late
  <2>1. LGood(s, accepted, {})
    BY <1>7, <1>b DEF LInv, LGood, BInv
  <2>2. /\ i \in s.active_connections /\ s.id[i] = r.ID
        /\ Queue(s, i) /\ i \in Slots /\ s.num_write_reqs[i] # 0
    BY <2>1, WriteOwn
  <2>4. LGood(w, accepted, {i}) /\ WriteGone(w, s, r)
    BY <1>v, <1>h, <1>w, <2>1, WriteEnds
  <2>5. /\ i \in w.active_connections /\ w.send_data = s.send_data /\ w.owner = s.owner
        /\ w.cut = s.cut /\ w.num_write_reqs[i] = s.num_write_reqs[i] - 1
        /\ s.num_write_reqs[i] \in Int
    <3>1. s.num_write_reqs \in [Slots -> Int]
      BY <2>1 DEF LGood, Basic, Typed
    <3> QED
      BY <2>2, <2>4, <3>1 DEF WriteGone, ButWrites
  <2>6. CASE w.num_write_reqs[i] = 0
    <3>1. LGood(s', accepted, {})
      BY <1>1, <2>2, <2>4, <2>5, <2>6, CloseLoopLive
    <3> QED
      BY <1>2, <1>b, <3>1 DEF LInv, LGood
  <2>7. CASE w.num_write_reqs[i] # 0
    <3>1. i \in w.cut
      BY <2>2, <2>5, <2>7 DEF Queue
    <3>2. Queue(w, i)
      BY <2>2, <2>5, <3>1 DEF Queue
    <3>3. LGood(s', accepted, {})
      BY <1>1, <2>2, <2>4, <2>7, <3>2, QueueDone
    <3> QED
      BY <1>2, <1>b, <3>3 DEF LInv, LGood
  <2> QED
    BY <2>6, <2>7
<1> QED
  BY <1>6, <1>7

LEMMA FileReadLive ==
  ASSUME LInv, NEW r \in BagToSet(s.files), FileRead(r)
  PROVE  LInv'
<1> DEFINE h == Handled(s, r)
           v == [h EXCEPT !.files = @ (-) SetToBag({r})]
           w == [v EXCEPT !.fds[r.fd] = None]
<1>b. BInv' /\ BInv /\ DOMAIN s = Fields
  BY FileReadBasic DEF LInv, BInv, Basic, Typed
<1>h. Basic(h) /\ h.files = s.files
  <2>1. Basic(h)
    BY <1>b, HandledBasic DEF BInv
  <2> QED
    BY <1>b, <2>1 DEF Handled, Fields
<1>3. DOMAIN h = Fields /\ h.late = (s.late \/ ~Current(s, r))
  BY <1>b, HandledLate
<1>e. h = Handled(s, r)
  OBVIOUS
<1>1. s' = write_connection([h EXCEPT !.files = @ (-) SetToBag({r}), !.fds[r.fd] = None], r.idx, r.conn)
  BY DEF FileRead
<1>2. r.idx \in Slots /\ r.conn \in Conns /\ r.fd \in Fds /\ accepted' = accepted
  BY <1>b DEF BInv, Basic, Typed, ReadFiles, FileRead
<1> HIDE DEF h
<1>4. s' = write_connection(w, r.idx, r.conn)
  BY <1>1, <1>3 DEF Fields
<1>5. DOMAIN w = Fields /\ w.late = h.late /\ FileGone(w, h, r)
  BY <1>3 DEF Fields, FileGone, ButFiles, SameWs
<1>6. Basic(v)
  BY <1>h, FileTakenBasic
<1>7. Basic(w)
  <2> HIDE DEF v
  <2> QED
    BY <1>2, <1>6, FdBasic
<1> HIDE DEF v, w
<1>8. CASE h.late
  <2>1. Kept(s', w)
    BY <1>4, <1>5, WriteKept
  <2> QED
    BY <1>5, <1>8, <1>b, <2>1 DEF Kept, LInv
<1>9. CASE ~h.late
  <2>1. ~s.late /\ Current(s, r)
    BY <1>3, <1>9
  <2>2. LGood(s, accepted, {})
    BY <1>b, <2>1 DEF LInv, LGood, BInv
  <2>3. LGood(h, accepted, {}) /\ Same(h, s)
    BY <1>e, <2>2, HandledLive
  <2>4. LGood(w, accepted, {})
    BY <1>5, <1>7, <1>h, <2>3, FileGoneLive
  <2>5. r.idx \in s.active_connections /\ r.conn = s.owner[r.idx]
    BY <2>1, <2>2 DEF LGood, Live, OwnConn, Current
  <2>6. r.idx \in w.active_connections /\ r.conn = w.owner[r.idx]
    BY <1>5, <2>3, <2>5 DEF FileGone, ButFiles, Same
  <2>7. LGood(s', accepted, {})
    BY <1>2, <1>4, <2>4, <2>6, WriteConnectionLive
  <2> QED
    BY <1>2, <1>b, <2>7 DEF LInv, LGood
<1> QED
  BY <1>8, <1>9

LEMMA ReapLive ==
  ASSUME LInv, Reap
  PROVE  LInv'
<1>b. BInv' /\ BInv /\ DOMAIN s = Fields /\ accepted' = accepted
  BY ReapBasic DEF LInv, BInv, Basic, Typed, Reap
<1>1. PICK i \in s.active_connections : s' = CloseLoop(CutAt(s, i), i)
  BY DEF Reap, CutAt
<1> DEFINE c == CutAt(s, i)
<1>2. DOMAIN c = Fields /\ c.late = s.late /\ i \in Slots
  BY <1>b DEF CutAt, Fields, BInv, Basic, Typed
<1>3. s' = CloseLoop(c, i) /\ c = CutAt(s, i)
  BY <1>1
<1> HIDE DEF c
<1>4. CASE s.late
  <2>1. Kept(s', c)
    BY <1>2, <1>3, CloseLoopKept
  <2> QED
    BY <1>2, <1>4, <1>b, <2>1 DEF Kept, LInv
<1>5. CASE ~s.late
  <2>1. LGood(s, accepted, {})
    BY <1>5, <1>b DEF LInv, LGood, BInv
  <2>2. /\ LGood(c, accepted, {}) /\ c.active_connections = s.active_connections
        /\ c.num_write_reqs[i] = 0 \/ i \in c.cut
    BY <1>2, <1>3, <2>1, CutLive
  <2>3. LGood(c, accepted, {i})
    BY <2>2, QueueOpen
  <2>4. LGood(s', accepted, {})
    BY <1>3, <2>2, <2>3, CloseLoopLive
  <2> QED
    BY <1>b, <2>4 DEF LInv, LGood
<1> QED
  BY <1>4, <1>5

-----------------------------------------------------------------------------
(* The theorems.                                                           *)

\* A front() or pop() of an empty send_data is the timer's, a websocket index of -1 a late
\* request's.
LEMMA UndefinedLive ==
  ASSUME LInv,
         \/ \E r \in BagToSet(s.reads) : ReadDoneUndefined(r)
         \/ \E r \in BagToSet(s.writes) : WriteDoneUndefined(r)
  PROVE  s.late \/ s.cut # {}
<1> SUFFICES ASSUME ~s.late
             PROVE  s.cut # {}
  OBVIOUS
<1>1. LGood(s, accepted, {})
  BY DEF LInv, LGood, BInv
<1>2. ASSUME NEW r \in BagToSet(s.reads), ReadDoneUndefined(r)
      PROVE  FALSE
  BY <1>1, <1>2 DEF LGood, Live, Websockets, ReadDoneUndefined
<1>3. ASSUME NEW r \in BagToSet(s.writes), WriteDoneUndefined(r)
      PROVE  r.idx \in s.cut
  <2>1. Queue(s, r.idx) /\ s.num_write_reqs[r.idx] # 0
    BY <1>1, WriteOwn
  <2> QED
    BY <1>3, <2>1 DEF WriteDoneUndefined, NothingToPop, Queue
<1> QED
  BY <1>2, <1>3

LEMMA InitLive ==
  ASSUME Init
  PROVE  LInv /\ NothingUndefined
<1>1. IsABag(EmptyBag) /\ BagToSet(EmptyBag) = {} /\ Copies(EmptyBag) = {}
  BY DEF IsABag, EmptyBag, BagToSet, SetToBag, Copies
<1>2. OwnRequests(s) /\ OwnConn(s) /\ OpenFiles(s)
  BY <1>1 DEF Init, OwnRequests, OwnConn, OpenFiles
<1>3. Counted(s)
  <2>1. \A i \in Slots : OwnWrites(s, i) = {} /\ s.num_write_reqs[i] = 0
    BY <1>1 DEF Init, OwnWrites
  <2> QED
    BY <2>1, FS_EmptySet DEF Counted
<1>4. Connections(s, accepted) /\ Websockets(s) /\ s.active_connections = {}
  BY DEF Init, Connections, Websockets
<1>5. Live(s, accepted, {})
  BY <1>2, <1>3, <1>4 DEF Live
<1> QED
  BY <1>5, InitBasic DEF LInv, NothingUndefined, Init

LEMMA NextLive ==
  ASSUME LInv, NothingUndefined, [Next]_vars
  PROVE  LInv' /\ NothingUndefined'
<1>1. CASE UNCHANGED vars
  BY <1>1 DEF LInv, BInv, NothingUndefined, vars
<1>2. CASE /\ Next
           /\ \/ \E r \in BagToSet(s.reads) : ReadDoneUndefined(r)
              \/ \E r \in BagToSet(s.writes) : WriteDoneUndefined(r)
  <2>1. s' = s /\ accepted' = accepted /\ undefined' = TRUE
    BY <1>2 DEF ReadDoneUndefined, WriteDoneUndefined
  <2>2. LInv'
    BY <2>1 DEF LInv, BInv
  <2> QED
    BY <1>2, <2>1, <2>2, UndefinedLive DEF NothingUndefined
<1>3. ASSUME ~undefined,
             \/ Accept \/ Reap
             \/ \E r \in BagToSet(s.reads) : ReadDone(r) \/ ReadFail(r)
             \/ \E r \in BagToSet(s.writes) : WriteDone(r) \/ WriteFail(r)
             \/ \E r \in BagToSet(s.files) : FileRead(r)
      PROVE  LInv' /\ NothingUndefined'
  <2>1. undefined' = undefined
    BY <1>3 DEF Accept, Reap, ReadDone, ReadFail, WriteDone, WriteFail, FileRead
  <2>2. LInv'
    BY <1>3, AcceptLive, ReadDoneLive, ReadFailLive, WriteDoneLive, WriteFailLive, FileReadLive, ReapLive
  <2> QED
    BY <1>3, <2>1, <2>2 DEF NothingUndefined
<1> QED
  BY <1>1, <1>2, <1>3 DEF Next

LEMMA AlwaysLive == Spec => [](LInv /\ NothingUndefined)
<1>1. Init => LInv /\ NothingUndefined
  BY InitLive
<1>2. LInv /\ NothingUndefined /\ [Next]_vars => (LInv /\ NothingUndefined)'
  BY NextLive
<1> QED
  BY <1>1, <1>2, PTL DEF Spec

\* The descriptor of an active client is open and its own, through failed writes, timer and
\* websockets, until a handler acts on a request that outlived its client.
THEOREM DescriptorsOwned == Spec => []DescriptorOwned
<1>1. LInv => DescriptorOwned
  <2> SUFFICES ASSUME LInv, ~s.late
               PROVE  DescriptorOwned
    BY DEF DescriptorOwned
  <2>1. LGood(s, accepted, {})
    BY DEF LInv, LGood, BInv
  <2> QED
    BY <2>1, TargetLive DEF DescriptorOwned
<1> QED
  BY <1>1, AlwaysLive, PTL

\* What is queued for an active client was meant for the connection it has, on the same terms.
THEOREM AnswersReachTheirClient == Spec => []AnswersItsClient
<1>1. LInv => AnswersItsClient
  BY DEF LInv, Live, Queue, AnswersItsClient
<1> QED
  BY <1>1, AlwaysLive, PTL

\* Elements of send_data are written one after the other, unless the timer has emptied it.
THEOREM OneWriteAtATime == Spec => []OneWrite
<1>1. LInv => OneWrite
  <2> SUFFICES ASSUME LInv, ~s.late, NEW i \in s.active_connections \ s.cut
               PROVE  LET w == {r \in BagToSet(s.writes) : r.idx = i}
                      IN  IF s.send_data[i] = <<>> THEN w = {} ELSE \E r \in w : w = {r} /\ s.writes[r] = 1
    BY DEF OneWrite
  <2> DEFINE w == {r \in BagToSet(s.writes) : r.idx = i}
             O == OwnWrites(s, i)
  <2>1. LGood(s, accepted, {})
    BY DEF LInv, LGood, BInv
  <2>2. /\ i \in Slots /\ Queue(s, i) /\ IsABag(s.writes) /\ Counted(s)
        /\ \A r \in w : r \in BagToSet(s.writes) /\ r.idx = i /\ r.ID = s.id[i]
    BY <2>1 DEF LGood, Live, Basic, Typed, OwnRequests
  <2>3. CASE s.send_data[i] = <<>>
    <3>1. s.num_write_reqs[i] = 0
      BY <2>2, <2>3 DEF Queue
    <3>2. w = {}
      BY <2>2, <3>1, NoneCounted
    <3> QED
      BY <2>3, <3>2
  <2>4. CASE s.send_data[i] # <<>>
    <3>1. Cardinality(O) = 1 /\ IsFiniteSet(O)
      BY <2>2, <2>4 DEF Queue, Counted
    <3> HIDE DEF O
    <3>2. PICK c : O = {c}
      BY <3>1, FS_Singleton
    <3>3. c \in Copies(s.writes)
      BY <3>2 DEF O, OwnWrites
    <3>4. PICK r \in BagToSet(s.writes) : \E m \in 1 .. s.writes[r] : c = <<r, m>>
      BY <2>2, <3>3, CopiesOf
    <3>5. ASSUME NEW q \in w, NEW m \in 1 .. s.writes[q]
          PROVE  <<q, m>> = c
      <4>1. <<q, m>> \in Copies(s.writes)
        BY <2>2, CopiesOf
      <4>2. <<q, m>> \in O
        BY <2>2, <4>1 DEF O, OwnWrites
      <4> QED
        BY <3>2, <4>2
    <3>6. c[1].idx = i
      BY <3>2 DEF O, OwnWrites
    <3>7. r \in w
      BY <3>4, <3>6
    <3>8. \A q \in w : s.writes[q] \in Nat /\ s.writes[q] > 0
      BY <2>2 DEF IsABag, BagToSet
    <3>9. \A q \in w : q = r
      <4> TAKE q \in w
      <4>1. 1 \in 1 .. s.writes[q] /\ 1 \in 1 .. s.writes[r]
        BY <3>7, <3>8
      <4>2. <<q, 1>> = c /\ <<r, 1>> = c
        BY <3>5, <3>7, <4>1
      <4> QED
        BY <4>2
    <3>10. s.writes[r] = 1
      <4>1. 1 \in 1 .. s.writes[r] /\ s.writes[r] \in 1 .. s.writes[r]
        BY <3>7, <3>8
      <4>2. <<r, 1>> = c /\ <<r, s.writes[r]>> = c
        BY <3>5, <3>7, <4>1
      <4> QED
        BY <4>2
    <3>11. w = {r}
      BY <3>7, <3>9
    <3> QED
      BY <2>4, <3>7, <3>10, <3>11
  <2> QED
    BY <2>3, <2>4
<1> QED
  BY <1>1, AlwaysLive, PTL

\* front() and pop() meet the element whose write has finished, and websocket indexes are never
\* -1, but for what the timer has emptied and for requests that outlive their client.
THEOREM NeverUndefined == Spec => []NothingUndefined
  BY AlwaysLive, PTL

=============================================================================
