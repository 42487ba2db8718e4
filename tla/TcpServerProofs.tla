--------------------------- MODULE TcpServerProofs ---------------------------
(***************************************************************************)
(* What TcpServer promises for any number of slots, descriptors,           *)
(* websockets and connections.  The handlers are compositions of operators *)
(* on the state record, so the parts of the invariant are predicates on    *)
(* such a record, and there is a lemma for each operator.                  *)
(***************************************************************************)
EXTENDS TcpServer, CommonLemmas

\* The type of the state record, field by field.
Fields ==
  {"size", "id", "owner", "turn", "cut", "late", "sockfd", "send_data", "read_req_active", "num_write_reqs",
   "active_connections", "freed_indexes", "ws_client_idx", "websocket_clients", "freed_ws",
   "all_ws", "active_ws", "fds", "reads", "writes", "files"}

Typed(st) ==
  /\ DOMAIN st = Fields
  /\ st.size \in 0 .. MaxSlots
  /\ st.id \in [Slots -> -1 .. IdRange - 1]
  /\ st.owner \in [Slots -> Conns \cup {None}] /\ st.turn \in [Slots -> Nat]
  /\ st.cut \subseteq Slots /\ st.late \in BOOLEAN
  /\ st.sockfd \in [Slots -> Fds \cup {0}]
  /\ st.send_data \in [Slots -> Seq(Conns)]
  /\ st.read_req_active \in [Slots -> BOOLEAN]
  /\ st.num_write_reqs \in [Slots -> Int]
  /\ st.active_connections \subseteq Slots /\ st.freed_indexes \subseteq Slots
  /\ st.ws_client_idx \in [Slots -> -1 .. MaxWs - 1]
  /\ st.websocket_clients \in Seq(Slots) /\ Len(st.websocket_clients) <= MaxWs
  /\ st.freed_ws \subseteq -1 .. MaxWs - 1 /\ st.all_ws \subseteq 0 .. MaxWs - 1
  /\ st.active_ws \subseteq Slots
  /\ st.fds \in [Fds -> Conns \cup {None, File}]
  /\ IsABag(st.reads) /\ BagToSet(st.reads) \subseteq Requests
  /\ IsABag(st.writes) /\ BagToSet(st.writes) \subseteq Requests
  /\ IsABag(st.files) /\ BagToSet(st.files) \subseteq ReadFiles

\* SlotsPartitioned of any state record.
Partitioned(st) ==
  /\ st.active_connections \cap st.freed_indexes = {}
  /\ st.active_connections \cup st.freed_indexes = 0 .. st.size - 1

\* Whatever names a slot names one that has been set up: close_connection frees no other.
InSize(st) ==
  /\ \A r \in BagToSet(st.reads) \cup BagToSet(st.writes) \cup BagToSet(st.files) :
       r.idx < st.size
  /\ \A x \in DOMAIN st.websocket_clients : st.websocket_clients[x] < st.size
  /\ \A i \in st.active_ws : i < st.size

\* An open websocket has its index to itself.
WsOwned(st) ==
  /\ \A i \in Slots : st.ws_client_idx[i] < Len(st.websocket_clients)
  /\ \A x \in st.freed_ws : x < Len(st.websocket_clients)
  /\ \A i \in st.active_ws : st.ws_client_idx[i] # -1 =>
       /\ st.ws_client_idx[i] \notin st.freed_ws
       /\ st.websocket_clients[st.ws_client_idx[i] + 1] = i

\* A request with ID x is submitted in turn t of its slot.  d turns later, as long as that is
\* less than one round of IDs, the slot has this ID,
IdAfter(x, d) == IF x + d < IdRange THEN x + d ELSE x + d - IdRange

\* so that the slot has z in turn t only if the request is of the same client, or if a round
\* of IDs has passed.
InTurn(r, z, t) ==
  /\ r.turn <= t
  /\ t - r.turn < IdRange => z = IdAfter(r.ID, t - r.turn)

\* What is in flight is of the client that has the slot, or of an earlier one.
Turns(st) ==
  /\ \A r \in BagToSet(st.reads) \cup BagToSet(st.writes) :
       InTurn(r, st.id[r.idx], st.turn[r.idx])
  /\ \A r \in BagToSet(st.files) : r.turn <= st.turn[r.idx]

-----------------------------------------------------------------------------
(* The operators on the state record, one lemma for each.                  *)

\* What the counts and the IDs are about is left alone.
Core(u, st) ==
  /\ u.size = st.size /\ u.id = st.id /\ u.owner = st.owner /\ u.turn = st.turn
  /\ u.sockfd = st.sockfd
  /\ u.num_write_reqs = st.num_write_reqs /\ u.freed_indexes = st.freed_indexes
  /\ u.fds = st.fds /\ u.reads = st.reads /\ u.writes = st.writes

Basic(st) == Typed(st) /\ Partitioned(st) /\ InSize(st) /\ WsOwned(st) /\ Turns(st)

\* kill_client.
LEMMA KillBasic ==
  ASSUME NEW st, Basic(st), NEW i \in Slots, NEW u, u = kill_client(st, i)
  PROVE  Basic(u) /\ Core(u, st)
<1>1. Typed(u)
  BY DEF Basic, Typed, kill_client, Fields
<1>2. Partitioned(u)
  BY DEF Basic, Typed, Partitioned, kill_client, Fields
<1>3. InSize(u)
  BY DEF Basic, Typed, InSize, kill_client, Fields
<1>4. WsOwned(u)
  BY DEF Basic, Typed, WsOwned, kill_client, Fields
<1>6. Turns(u)
  BY DEF Basic, Typed, Turns, kill_client, Fields
<1>5. Core(u, st)
  BY DEF Basic, Typed, kill_client, Fields, Core
<1> QED
  BY <1>1, <1>2, <1>3, <1>4, <1>5, <1>6 DEF Basic

\* close_connection.
LEMMA CloseBasic ==
  ASSUME NEW st, Basic(st), NEW i \in Slots, i < st.size,
         NEW u, u = close_connection(st, i)
  PROVE  Basic(u) /\ u.size = st.size
<1>1. Typed(u)
  BY DEF Basic, Typed, close_connection, Fields
<1>2. Partitioned(u)
  BY DEF Basic, Typed, Partitioned, close_connection, Slots, Fields
<1>3. InSize(u)
  BY DEF Basic, Typed, InSize, close_connection, Slots, Fields
<1>4. WsOwned(u)
  BY DEF Basic, Typed, WsOwned, close_connection, Slots, Fields
<1>6. Turns(u)
  BY DEF Basic, Typed, Turns, close_connection, Slots, Fields
<1>5. u.size = st.size
  BY DEF Basic, Typed, close_connection, Fields
<1> QED
  BY <1>1, <1>2, <1>3, <1>4, <1>5, <1>6 DEF Basic

\* A change of send_data.
LEMMA QueueBasic ==
  ASSUME NEW st, Basic(st), NEW i \in Slots, NEW q \in Seq(Conns),
         NEW u, u = [st EXCEPT !.send_data[i] = q]
  PROVE  Basic(u) /\ Core(u, st)
<1>1. Typed(u)
  BY DEF Basic, Typed, Fields
<1>2. Partitioned(u)
  BY DEF Basic, Typed, Partitioned, Fields
<1>3. InSize(u)
  BY DEF Basic, Typed, InSize, Fields
<1>4. WsOwned(u)
  BY DEF Basic, Typed, WsOwned, Fields
<1>6. Turns(u)
  BY DEF Basic, Typed, Turns, Fields
<1>5. Core(u, st)
  BY DEF Basic, Typed, Fields, Core
<1> QED
  BY <1>1, <1>2, <1>3, <1>4, <1>5, <1>6 DEF Basic

\* A change of read_req_active.
LEMMA IdleBasic ==
  ASSUME NEW st, Basic(st), NEW i \in Slots, NEW b \in BOOLEAN,
         NEW u, u = [st EXCEPT !.read_req_active[i] = b]
  PROVE  Basic(u) /\ Core(u, st)
<1>1. Typed(u)
  BY DEF Basic, Typed, Fields
<1>2. Partitioned(u)
  BY DEF Basic, Typed, Partitioned, Fields
<1>3. InSize(u)
  BY DEF Basic, Typed, InSize, Fields
<1>4. WsOwned(u)
  BY DEF Basic, Typed, WsOwned, Fields
<1>6. Turns(u)
  BY DEF Basic, Typed, Turns, Fields
<1>5. Core(u, st)
  BY DEF Basic, Typed, Fields, Core
<1> QED
  BY <1>1, <1>2, <1>3, <1>4, <1>5, <1>6 DEF Basic

\* A descriptor is closed, or is of a file.
LEMMA FdBasic ==
  ASSUME NEW st, Basic(st), NEW d \in Fds, NEW v \in {None, File},
         NEW u, u = [st EXCEPT !.fds[d] = v]
  PROVE  Basic(u) /\ u.size = st.size
<1>1. Typed(u)
  BY DEF Basic, Typed, Fields
<1>2. Partitioned(u)
  BY DEF Basic, Typed, Partitioned, Fields
<1>3. InSize(u)
  BY DEF Basic, Typed, InSize, Fields
<1>4. WsOwned(u)
  BY DEF Basic, Typed, WsOwned, Fields
<1>6. Turns(u)
  BY DEF Basic, Typed, Turns, Fields
<1>5. u.size = st.size
  BY DEF Basic, Typed, Fields
<1> QED
  BY <1>1, <1>2, <1>3, <1>4, <1>5, <1>6 DEF Basic

\* A websocket that starts to close.
LEMMA ClosingBasic ==
  ASSUME NEW st, Basic(st), NEW i \in Slots,
         NEW u, u = [st EXCEPT !.active_ws = @ \ {i}]
  PROVE  Basic(u) /\ Core(u, st)
<1>1. Typed(u)
  BY DEF Basic, Typed, Fields
<1>2. Partitioned(u)
  BY DEF Basic, Typed, Partitioned, Fields
<1>3. InSize(u)
  BY DEF Basic, Typed, InSize, Fields
<1>4. WsOwned(u)
  BY DEF Basic, Typed, WsOwned, Fields
<1>6. Turns(u)
  BY DEF Basic, Typed, Turns, Fields
<1>5. Core(u, st)
  BY DEF Basic, Typed, Fields, Core
<1> QED
  BY <1>1, <1>2, <1>3, <1>4, <1>5, <1>6 DEF Basic

\* A change of num_write_reqs.
LEMMA CountBasic ==
  ASSUME NEW st, Basic(st), NEW i \in Slots, NEW n \in Int,
         NEW u, u = [st EXCEPT !.num_write_reqs[i] = n]
  PROVE  Basic(u) /\ u.size = st.size
<1>1. Typed(u)
  BY DEF Basic, Typed, Fields
<1>2. Partitioned(u)
  BY DEF Basic, Typed, Partitioned, Fields
<1>3. InSize(u)
  BY DEF Basic, Typed, InSize, Fields
<1>4. WsOwned(u)
  BY DEF Basic, Typed, WsOwned, Fields
<1>6. Turns(u)
  BY DEF Basic, Typed, Turns, Fields
<1>5. u.size = st.size
  BY DEF Basic, Typed, Fields
<1> QED
  BY <1>1, <1>2, <1>3, <1>4, <1>5, <1>6 DEF Basic

\* A handler acts on a request.
LEMMA HandledBasic ==
  ASSUME NEW st, Basic(st), NEW r, NEW u, u = Handled(st, r)
  PROVE  Basic(u) /\ Core(u, st)
<1> DEFINE b == st.late \/ ~Current(st, r)
<1>b. b \in BOOLEAN /\ u = [st EXCEPT !.late = b]
  BY DEF Handled
<1> HIDE DEF b
<1>1. Typed(u)
  BY <1>b DEF Basic, Typed, Fields
<1>2. Partitioned(u)
  BY <1>b DEF Basic, Typed, Partitioned, Fields
<1>3. InSize(u)
  BY <1>b DEF Basic, Typed, InSize, Fields
<1>4. WsOwned(u)
  BY <1>b DEF Basic, Typed, WsOwned, Fields
<1>6. Turns(u)
  BY <1>b DEF Basic, Typed, Turns, Fields
<1>5. Core(u, st)
  BY <1>b DEF Basic, Typed, Fields, Core
<1> QED
  BY <1>1, <1>2, <1>3, <1>4, <1>5, <1>6 DEF Basic

\* It makes no difference whether the request is taken out of the requests in flight before.
LEMMA HandledTaken ==
  ASSUME NEW st, DOMAIN st = Fields, NEW r, NEW h, h = Handled(st, r)
  PROVE  /\ Handled([st EXCEPT !.reads = @ (-) SetToBag({r})], r)
              = [h EXCEPT !.reads = @ (-) SetToBag({r})]
         /\ Handled([st EXCEPT !.writes = @ (-) SetToBag({r})], r)
              = [h EXCEPT !.writes = @ (-) SetToBag({r})]
<1> DEFINE b == ~Current(st, r)
           R == st.reads (-) SetToBag({r})
           W == st.writes (-) SetToBag({r})
<1>1. /\ (~Current([st EXCEPT !.reads = R], r)) = b
      /\ (~Current([st EXCEPT !.writes = W], r)) = b
  BY DEF Current, Fields
<1>2. h = [st EXCEPT !.late = @ \/ b]
  BY DEF Handled
<1>3. Handled([st EXCEPT !.reads = R], r) = [[st EXCEPT !.reads = R] EXCEPT !.late = @ \/ b]
  BY <1>1 DEF Handled
<1>4. Handled([st EXCEPT !.writes = W], r) = [[st EXCEPT !.writes = W] EXCEPT !.late = @ \/ b]
  BY <1>1 DEF Handled
<1>5. h.reads = st.reads /\ h.writes = st.writes
  BY <1>2 DEF Fields
<1> HIDE DEF b, R, W
<1>6. [h EXCEPT !.reads = R] = [[st EXCEPT !.reads = R] EXCEPT !.late = @ \/ b]
  BY <1>2 DEF Fields
<1>7. [h EXCEPT !.writes = W] = [[st EXCEPT !.writes = W] EXCEPT !.late = @ \/ b]
  BY <1>2 DEF Fields
<1> QED
  BY <1>3, <1>4, <1>5, <1>6, <1>7 DEF R, W

\* The timer finds a client in mid-write.
CutAt(st, i) == [st EXCEPT !.cut = IF st.num_write_reqs[i] # 0 THEN @ \cup {i} ELSE @]

LEMMA CutBasic ==
  ASSUME NEW st, Basic(st), NEW i \in Slots, NEW u, u = CutAt(st, i)
  PROVE  Basic(u) /\ Core(u, st)
<1> DEFINE c == IF st.num_write_reqs[i] # 0 THEN st.cut \cup {i} ELSE st.cut
<1>b. c \subseteq Slots /\ u = [st EXCEPT !.cut = c]
  BY DEF Basic, Typed, CutAt
<1> HIDE DEF c
<1>1. Typed(u)
  BY <1>b DEF Basic, Typed, Fields
<1>2. Partitioned(u)
  BY <1>b DEF Basic, Typed, Partitioned, Fields
<1>3. InSize(u)
  BY <1>b DEF Basic, Typed, InSize, Fields
<1>4. WsOwned(u)
  BY <1>b DEF Basic, Typed, WsOwned, Fields
<1>6. Turns(u)
  BY <1>b DEF Basic, Typed, Turns, Fields
<1>5. Core(u, st)
  BY <1>b DEF Basic, Typed, Fields, Core
<1> QED
  BY <1>1, <1>2, <1>3, <1>4, <1>5, <1>6 DEF Basic

\* A READ request is no longer in flight.
LEMMA ReadTakenBasic ==
  ASSUME NEW st, Basic(st), NEW r \in BagToSet(st.reads),
         NEW u, u = [st EXCEPT !.reads = @ (-) SetToBag({r})]
  PROVE  Basic(u) /\ u.size = st.size
<1> DEFINE C == st.reads (-) SetToBag({r})
<1>b. IsABag(st.reads)
  BY DEF Basic, Typed
<1>d. C = st.reads (-) SetToBag({r}) /\ u = [st EXCEPT !.reads = C]
  OBVIOUS
<1> HIDE DEF C
<1>c. IsABag(C) /\ BagToSet(C) \subseteq BagToSet(st.reads)
  BY <1>b, <1>d, BagTaken
<1>1. Typed(u)
  BY <1>c, <1>d DEF Basic, Typed, Fields
<1>2. Partitioned(u)
  BY <1>c, <1>d DEF Basic, Typed, Partitioned, Fields
<1>3. InSize(u)
  BY <1>c, <1>d DEF Basic, Typed, InSize, Fields
<1>4. WsOwned(u)
  BY <1>c, <1>d DEF Basic, Typed, WsOwned, Fields
<1>6. Turns(u)
  BY <1>c, <1>d DEF Basic, Typed, Turns, Fields
<1>5. u.size = st.size
  BY <1>c, <1>d DEF Basic, Typed, Fields
<1> QED
  BY <1>1, <1>2, <1>3, <1>4, <1>5, <1>6 DEF Basic

\* A WRITE request is no longer in flight.
LEMMA WriteTakenBasic ==
  ASSUME NEW st, Basic(st), NEW r \in BagToSet(st.writes),
         NEW u, u = [st EXCEPT !.writes = @ (-) SetToBag({r})]
  PROVE  Basic(u) /\ u.size = st.size
<1> DEFINE C == st.writes (-) SetToBag({r})
<1>b. IsABag(st.writes)
  BY DEF Basic, Typed
<1>d. C = st.writes (-) SetToBag({r}) /\ u = [st EXCEPT !.writes = C]
  OBVIOUS
<1> HIDE DEF C
<1>c. IsABag(C) /\ BagToSet(C) \subseteq BagToSet(st.writes)
  BY <1>b, <1>d, BagTaken
<1>1. Typed(u)
  BY <1>c, <1>d DEF Basic, Typed, Fields
<1>2. Partitioned(u)
  BY <1>c, <1>d DEF Basic, Typed, Partitioned, Fields
<1>3. InSize(u)
  BY <1>c, <1>d DEF Basic, Typed, InSize, Fields
<1>4. WsOwned(u)
  BY <1>c, <1>d DEF Basic, Typed, WsOwned, Fields
<1>6. Turns(u)
  BY <1>c, <1>d DEF Basic, Typed, Turns, Fields
<1>5. u.size = st.size
  BY <1>c, <1>d DEF Basic, Typed, Fields
<1> QED
  BY <1>1, <1>2, <1>3, <1>4, <1>5, <1>6 DEF Basic

\* A CUSTOM_READ request is no longer in flight.
LEMMA FileTakenBasic ==
  ASSUME NEW st, Basic(st), NEW r \in BagToSet(st.files),
         NEW u, u = [st EXCEPT !.files = @ (-) SetToBag({r})]
  PROVE  Basic(u) /\ Core(u, st)
<1> DEFINE C == st.files (-) SetToBag({r})
<1>b. IsABag(st.files)
  BY DEF Basic, Typed
<1>d. C = st.files (-) SetToBag({r}) /\ u = [st EXCEPT !.files = C]
  OBVIOUS
<1> HIDE DEF C
<1>c. IsABag(C) /\ BagToSet(C) \subseteq BagToSet(st.files)
  BY <1>b, <1>d, BagTaken
<1>1. Typed(u)
  BY <1>c, <1>d DEF Basic, Typed, Fields
<1>2. Partitioned(u)
  BY <1>c, <1>d DEF Basic, Typed, Partitioned, Fields
<1>3. InSize(u)
  BY <1>c, <1>d DEF Basic, Typed, InSize, Fields
<1>4. WsOwned(u)
  BY <1>c, <1>d DEF Basic, Typed, WsOwned, Fields
<1>6. Turns(u)
  BY <1>c, <1>d DEF Basic, Typed, Turns, Fields
<1>5. Core(u, st)
  BY <1>c, <1>d DEF Basic, Typed, Fields, Core
<1> QED
  BY <1>1, <1>2, <1>3, <1>4, <1>5, <1>6 DEF Basic

\* A READ request of a slot that has been set up.
LEMMA ReadAddedBasic ==
  ASSUME NEW st, Basic(st), NEW r \in Requests, r.idx < st.size,
         InTurn(r, st.id[r.idx], st.turn[r.idx]),
         NEW u, u = [st EXCEPT !.reads = @ (+) SetToBag({r})]
  PROVE  Basic(u) /\ u.size = st.size
<1> DEFINE C == st.reads (+) SetToBag({r})
<1>c. IsABag(C) /\ BagToSet(C) = BagToSet(st.reads) \cup {r}
  BY BagAddProps DEF Basic, Typed
<1> HIDE DEF C
<1>d. u = [st EXCEPT !.reads = C]
  BY DEF C
<1>1. Typed(u)
  BY <1>c, <1>d DEF Basic, Typed, Fields
<1>2. Partitioned(u)
  BY <1>c, <1>d DEF Basic, Typed, Partitioned, Fields
<1>3. InSize(u)
  BY <1>c, <1>d DEF Basic, Typed, InSize, Fields
<1>4. WsOwned(u)
  BY <1>c, <1>d DEF Basic, Typed, WsOwned, Fields
<1>6. Turns(u)
  BY <1>c, <1>d DEF Basic, Typed, Turns, Fields
<1>5. u.size = st.size
  BY <1>c, <1>d DEF Basic, Typed, Fields
<1> QED
  BY <1>1, <1>2, <1>3, <1>4, <1>5, <1>6 DEF Basic

\* A WRITE request of a slot that has been set up.
LEMMA WriteAddedBasic ==
  ASSUME NEW st, Basic(st), NEW r \in Requests, r.idx < st.size,
         InTurn(r, st.id[r.idx], st.turn[r.idx]),
         NEW u, u = [st EXCEPT !.writes = @ (+) SetToBag({r})]
  PROVE  Basic(u) /\ u.size = st.size
<1> DEFINE C == st.writes (+) SetToBag({r})
<1>c. IsABag(C) /\ BagToSet(C) = BagToSet(st.writes) \cup {r}
  BY BagAddProps DEF Basic, Typed
<1> HIDE DEF C
<1>d. u = [st EXCEPT !.writes = C]
  BY DEF C
<1>1. Typed(u)
  BY <1>c, <1>d DEF Basic, Typed, Fields
<1>2. Partitioned(u)
  BY <1>c, <1>d DEF Basic, Typed, Partitioned, Fields
<1>3. InSize(u)
  BY <1>c, <1>d DEF Basic, Typed, InSize, Fields
<1>4. WsOwned(u)
  BY <1>c, <1>d DEF Basic, Typed, WsOwned, Fields
<1>6. Turns(u)
  BY <1>c, <1>d DEF Basic, Typed, Turns, Fields
<1>5. u.size = st.size
  BY <1>c, <1>d DEF Basic, Typed, Fields
<1> QED
  BY <1>1, <1>2, <1>3, <1>4, <1>5, <1>6 DEF Basic

\* A CUSTOM_READ request of a slot that has been set up.
LEMMA FileAddedBasic ==
  ASSUME NEW st, Basic(st), NEW r \in ReadFiles, r.idx < st.size,
         r.turn <= st.turn[r.idx],
         NEW u, u = [st EXCEPT !.files = @ (+) SetToBag({r})]
  PROVE  Basic(u) /\ Core(u, st)
<1> DEFINE C == st.files (+) SetToBag({r})
<1>c. IsABag(C) /\ BagToSet(C) = BagToSet(st.files) \cup {r}
  BY BagAddProps DEF Basic, Typed
<1> HIDE DEF C
<1>d. u = [st EXCEPT !.files = C]
  BY DEF C
<1>1. Typed(u)
  BY <1>c, <1>d DEF Basic, Typed, Fields
<1>2. Partitioned(u)
  BY <1>c, <1>d DEF Basic, Typed, Partitioned, Fields
<1>3. InSize(u)
  BY <1>c, <1>d DEF Basic, Typed, InSize, Fields
<1>4. WsOwned(u)
  BY <1>c, <1>d DEF Basic, Typed, WsOwned, Fields
<1>6. Turns(u)
  BY <1>c, <1>d DEF Basic, Typed, Turns, Fields
<1>5. Core(u, st)
  BY <1>c, <1>d DEF Basic, Typed, Fields, Core
<1> QED
  BY <1>1, <1>2, <1>3, <1>4, <1>5, <1>6 DEF Basic

\* What a request is made of.
LEMMA RequestType ==
  ASSUME NEW st, Typed(st), NEW i \in Slots
  PROVE  /\ Request(st, i) \in Requests /\ Request(st, i).idx = i
         /\ InTurn(Request(st, i), st.id[i], st.turn[i])
<1>1. Target(st, i) \in Conns \cup {None}
  BY DEF Typed, Target
<1>2. st.id[i] \in -1 .. IdRange - 1 /\ st.turn[i] \in Nat
  BY DEF Typed
<1>3. st.turn[i] <= st.turn[i] /\ st.id[i] = IdAfter(st.id[i], st.turn[i] - st.turn[i])
  BY <1>2, TcpAssumption DEF IdAfter, TcpAssumption
<1> QED
  BY <1>1, <1>2, <1>3 DEF Request, Requests, InTurn

\* add_read_req.
LEMMA AddReadBasic ==
  ASSUME NEW st, Basic(st), NEW i \in Slots, i < st.size,
         NEW u, u = add_read_req(st, i)
  PROVE  Basic(u) /\ u.size = st.size
<1> DEFINE r == Request(st, i)
           v == [st EXCEPT !.reads = @ (+) SetToBag({r})]
<1>1. r \in Requests /\ r.idx < st.size /\ InTurn(r, st.id[r.idx], st.turn[r.idx])
  BY RequestType DEF Basic
<1>2. Basic(v) /\ v.size = st.size
  <2> HIDE DEF r
  <2> QED
    BY <1>1, ReadAddedBasic
<1>3. CASE st.read_req_active[i]
  BY <1>3 DEF add_read_req
<1>4. CASE ~st.read_req_active[i]
  <2>1. u = [v EXCEPT !.read_req_active[i] = TRUE]
    BY <1>4 DEF add_read_req
  <2> HIDE DEF v
  <2>2. TRUE \in BOOLEAN
    OBVIOUS
  <2>3. Basic(u) /\ Core(u, v)
    BY <1>2, <2>1, <2>2, IdleBasic
  <2> QED
    BY <1>2, <2>3 DEF Core
<1> QED
  BY <1>3, <1>4

\* add_write_req.
LEMMA AddWriteBasic ==
  ASSUME NEW st, Basic(st), NEW i \in Slots, i < st.size,
         NEW u, u = add_write_req(st, i)
  PROVE  Basic(u) /\ u.size = st.size
<1> DEFINE r == Request(st, i)
           v == [st EXCEPT !.writes = @ (+) SetToBag({r})]
<1>1. r \in Requests /\ r.idx < st.size /\ InTurn(r, st.id[r.idx], st.turn[r.idx])
  BY RequestType DEF Basic
<1>2. Basic(v) /\ v.size = st.size
  <2> HIDE DEF r
  <2> QED
    BY <1>1, WriteAddedBasic
<1>3. u = [v EXCEPT !.num_write_reqs[i] = @ + 1]
  BY DEF add_write_req
<1>4. v.num_write_reqs[i] + 1 \in Int
  BY <1>2 DEF Basic, Typed
<1> HIDE DEF v
<1> QED
  BY <1>2, <1>3, <1>4, CountBasic

\* write_connection.
LEMMA WriteConnectionBasic ==
  ASSUME NEW st, Basic(st), NEW i \in Slots, i < st.size, NEW k \in Conns,
         NEW u, u = write_connection(st, i, k)
  PROVE  Basic(u) /\ u.size = st.size
<1> DEFINE v == [st EXCEPT !.send_data[i] = Append(@, k)]
<1>1. Append(st.send_data[i], k) \in Seq(Conns)
  BY DEF Basic, Typed
<1>2. Basic(v)
  BY <1>1, QueueBasic
<1>3. v.size = st.size
  BY DEF Basic, Typed, Fields
<1>4. u = IF Len(v.send_data[i]) = 1 THEN add_write_req(v, i) ELSE v
  BY DEF write_connection
<1> HIDE DEF v
<1> QED
  BY <1>2, <1>3, <1>4, AddWriteBasic

\* web_server::close_connection.
LEMMA CloseWebBasic ==
  ASSUME NEW st, Basic(st), NEW i \in Slots, i < st.size,
         NEW u, u = close_web_connection(st, i)
  PROVE  Basic(u)
<1> DEFINE v == kill_client(st, i)
<1>1. Basic(v) /\ v.size = st.size
  BY KillBasic DEF Core
<1> HIDE DEF v
<1> QED
  BY <1>1, CloseBasic DEF close_web_connection, v

\* A close loop of start().
LEMMA CloseLoopBasic ==
  ASSUME NEW st, Basic(st), NEW i \in Slots, i < st.size,
         NEW u, u = CloseLoop(st, i)
  PROVE  Basic(u)
<1> DEFINE v == kill_client(st, i)
           w == [v EXCEPT !.send_data[i] = <<>>]
<1>1. Basic(v) /\ v.size = st.size
  BY KillBasic DEF Core
<1>2. u = close_connection(w, i)
  BY DEF CloseLoop
<1> HIDE DEF v
<1>3. Basic(w) /\ w.size = st.size
  <2>1. <<>> \in Seq(Conns)
    OBVIOUS
  <2>2. Basic(w)
    BY <1>1, <2>1, QueueBasic
  <2>3. w.size = v.size
    BY <1>1 DEF Basic, Typed, Fields
  <2> QED
    BY <1>1, <2>2, <2>3
<1> HIDE DEF w
<1> QED
  BY <1>2, <1>3, CloseBasic

\* The websocket index a new websocket gets is free or the next one.
LEMMA NewWsFree ==
  ASSUME NEW st, Basic(st), NEW x, x = NewWs(st), x \in 0 .. MaxWs - 1
  PROVE  /\ x <= Len(st.websocket_clients)
         /\ x # Len(st.websocket_clients) => x \in st.freed_ws
<1>1. CASE st.freed_ws = {}
  BY <1>1 DEF NewWs, Basic, Typed
<1>2. CASE st.freed_ws # {}
  <2>1. st.freed_ws \in SUBSET Int /\ \A y \in st.freed_ws : y >= -1
    BY TcpAssumption DEF Basic, Typed, TcpAssumption
  <2>2. Min(st.freed_ws) \in st.freed_ws
    BY <1>2, <2>1, MinLeast
  <2> QED
    BY <1>2, <2>2 DEF NewWs, Basic, WsOwned, Typed
<1> QED
  BY <1>1, <1>2

\* An element of a sequence is replaced, or one more added.
LEMMA SeqPut ==
  ASSUME NEW S, NEW W \in Seq(S), NEW e \in S, NEW x \in Nat, x <= Len(W),
         NEW V, V = IF x = Len(W) THEN Append(W, e) ELSE [W EXCEPT ![x + 1] = e]
  PROVE  /\ V \in Seq(S) /\ V[x + 1] = e
         /\ Len(V) = IF x = Len(W) THEN Len(W) + 1 ELSE Len(W)
         /\ \A y \in 1 .. Len(W) : y # x + 1 => V[y] = W[y]
<1>1. CASE x = Len(W)
  BY <1>1
<1>2. CASE x # Len(W)
  <2>1. x + 1 \in 1 .. Len(W) /\ V = [W EXCEPT ![x + 1] = e]
    BY <1>2
  <2> QED
    BY <1>2, <2>1
<1> QED
  BY <1>1, <1>2

\* new_ws_client: the other open websockets keep their indexes.
LEMMA NewWsBasic ==
  ASSUME NEW st, Basic(st), NEW i \in Slots, i < st.size, NewWs(st) \in 0 .. MaxWs - 1,
         NEW u, u = new_ws_client(st, i)
  PROVE  Basic(u) /\ Core(u, st)
<1> DEFINE x == NewWs(st)
           ws == IF x = Len(st.websocket_clients) THEN Append(st.websocket_clients, i)
                 ELSE [st.websocket_clients EXCEPT ![x + 1] = i]
<1>1. u = [st EXCEPT !.freed_ws = @ \ {x}, !.websocket_clients = ws, !.all_ws = @ \cup {x},
                     !.active_ws = @ \cup {i}, !.ws_client_idx[i] = x]
  BY DEF new_ws_client
<1>2. /\ x \in 0 .. MaxWs - 1 /\ x <= Len(st.websocket_clients)
      /\ x # Len(st.websocket_clients) => x \in st.freed_ws
  BY NewWsFree
<1> HIDE DEF x
<1>t. /\ x \in Nat /\ MaxWs \in Nat /\ st.websocket_clients \in Seq(Slots)
      /\ Len(st.websocket_clients) \in Nat /\ Len(st.websocket_clients) <= MaxWs
      /\ DOMAIN st.websocket_clients = 1 .. Len(st.websocket_clients)
      /\ x \in -1 .. MaxWs - 1
  BY <1>2, TcpAssumption DEF Basic, Typed, TcpAssumption
<1>s. ws = IF x = Len(st.websocket_clients) THEN Append(st.websocket_clients, i)
           ELSE [st.websocket_clients EXCEPT ![x + 1] = i]
  OBVIOUS
<1> HIDE DEF ws
<1>p. /\ ws \in Seq(Slots) /\ ws[x + 1] = i
      /\ Len(ws) = IF x = Len(st.websocket_clients) THEN Len(st.websocket_clients) + 1
                   ELSE Len(st.websocket_clients)
      /\ \A y \in 1 .. Len(st.websocket_clients) : y # x + 1 => ws[y] = st.websocket_clients[y]
  BY <1>2, <1>s, <1>t, SeqPut
<1>3. /\ Len(ws) \in Nat /\ Len(ws) <= MaxWs
      /\ Len(ws) >= Len(st.websocket_clients) /\ x < Len(ws)
      /\ \A y \in 1 .. Len(ws) : y # x + 1 => y \in 1 .. Len(st.websocket_clients)
  BY <1>2, <1>t, <1>p
<1>d. DOMAIN st = Fields
  BY DEF Basic, Typed
<1>f. /\ u.size = st.size /\ u.freed_ws = st.freed_ws \ {x} /\ u.websocket_clients = ws
      /\ u.active_ws = st.active_ws \cup {i} /\ u.all_ws = st.all_ws \cup {x}
      /\ u.ws_client_idx = [st.ws_client_idx EXCEPT ![i] = x]
      /\ u.reads = st.reads /\ u.writes = st.writes /\ u.files = st.files
      /\ u.id = st.id /\ u.owner = st.owner /\ u.sockfd = st.sockfd
      /\ u.send_data = st.send_data /\ u.read_req_active = st.read_req_active
      /\ u.num_write_reqs = st.num_write_reqs /\ u.active_connections = st.active_connections
      /\ u.freed_indexes = st.freed_indexes /\ u.fds = st.fds /\ DOMAIN u = Fields
      /\ u.turn = st.turn /\ u.cut = st.cut /\ u.late = st.late
  BY <1>1, <1>d DEF Fields
<1>4. Typed(u)
  <2>1. u.ws_client_idx \in [Slots -> -1 .. MaxWs - 1]
    BY <1>f, <1>t DEF Basic, Typed
  <2>2. u.websocket_clients \in Seq(Slots) /\ Len(u.websocket_clients) <= MaxWs
    BY <1>f, <1>p, <1>3
  <2>3. /\ u.freed_ws \subseteq -1 .. MaxWs - 1 /\ u.all_ws \subseteq 0 .. MaxWs - 1
        /\ u.active_ws \subseteq Slots
    BY <1>f, <1>2 DEF Basic, Typed
  <2> QED
    BY <1>f, <2>1, <2>2, <2>3 DEF Basic, Typed
<1>5. Partitioned(u) /\ Core(u, st) /\ Turns(u)
  BY <1>f DEF Basic, Partitioned, Core, Turns
<1>6. InSize(u)
  <2>1. \A y \in DOMAIN ws : ws[y] < st.size
    <3>1. DOMAIN ws = 1 .. Len(ws)
      BY <1>p
    <3> QED
      BY <1>3, <1>p, <1>t, <3>1 DEF Basic, InSize
  <2> QED
    BY <1>f, <2>1 DEF Basic, InSize
<1>7. WsOwned(u)
  <2>1. /\ u.freed_ws = st.freed_ws \ {x} /\ u.websocket_clients = ws
        /\ u.active_ws = st.active_ws \cup {i}
        /\ u.ws_client_idx = [st.ws_client_idx EXCEPT ![i] = x]
    BY <1>f
  <2>2. \A j \in Slots : u.ws_client_idx[j] < Len(u.websocket_clients)
    <3> TAKE j \in Slots
    <3>1. CASE j = i
      BY <1>3, <2>1, <3>1 DEF Basic, Typed
    <3>2. CASE j # i
      <4>1. u.ws_client_idx[j] = st.ws_client_idx[j] /\ st.ws_client_idx[j] \in Int
        BY <2>1, <3>2, TcpAssumption DEF Basic, Typed, TcpAssumption
      <4>2. st.ws_client_idx[j] < Len(st.websocket_clients)
        BY DEF Basic, WsOwned
      <4> QED
        BY <1>3, <1>t, <2>1, <4>1, <4>2
    <3> QED
      BY <3>1, <3>2
  <2>3. \A y \in u.freed_ws : y < Len(u.websocket_clients)
    <3> TAKE y \in u.freed_ws
    <3>1. y \in Int
      BY <2>1, TcpAssumption DEF Basic, Typed, TcpAssumption
    <3>2. y < Len(st.websocket_clients)
      BY <2>1 DEF Basic, WsOwned
    <3> QED
      BY <1>3, <1>t, <2>1, <3>1, <3>2
  <2>4. ASSUME NEW j \in u.active_ws, u.ws_client_idx[j] # -1
        PROVE  /\ u.ws_client_idx[j] \notin u.freed_ws
               /\ u.websocket_clients[u.ws_client_idx[j] + 1] = j
    <3>1. CASE j = i
      <4>1. u.ws_client_idx[j] = x
        BY <2>1, <3>1 DEF Basic, Typed
      <4> QED
        BY <1>p, <2>1, <3>1, <4>1
    <3>2. CASE j # i
      <4> DEFINE y == st.ws_client_idx[j]
      <4>1. j \in st.active_ws /\ j \in Slots /\ u.ws_client_idx[j] = y
        BY <2>1, <3>2 DEF Basic, Typed
      <4>2. y \in 0 .. MaxWs - 1 /\ y < Len(st.websocket_clients)
        BY <2>4, <4>1, TcpAssumption DEF Basic, Typed, WsOwned, TcpAssumption
      <4>3. y \notin st.freed_ws /\ st.websocket_clients[y + 1] = j
        BY <2>4, <4>1 DEF Basic, WsOwned
      <4> HIDE DEF y
      <4>4. y # x
        BY <1>2, <4>2, <4>3
      <4>5. y + 1 \in 1 .. Len(st.websocket_clients) /\ y + 1 # x + 1
        BY <1>t, <4>2, <4>4
      <4>6. ws[y + 1] = j
        BY <1>p, <4>3, <4>5
      <4> QED
        BY <2>1, <4>1, <4>3, <4>6
    <3> QED
      BY <3>1, <3>2
  <2> QED
    BY <2>2, <2>3, <2>4 DEF WsOwned
<1> QED
  BY <1>4, <1>5, <1>6, <1>7 DEF Basic

\* A remainder that does not wrap.
LEMMA ModSmall ==
  ASSUME NEW m \in Nat \ {0}, NEW x \in Nat, x < m
  PROVE  x % m = x
  OBVIOUS

\* A new ID is an ID.
LEMMA NewIdType ==
  ASSUME NEW st, Typed(st), NEW i \in Slots
  PROVE  new_id(st, i) \in -1 .. IdRange - 1
<1>1. st.id[i] \in Int /\ IdRange \in Nat \ {0}
  BY TcpAssumption DEF Typed, TcpAssumption
<1>2. (st.id[i] + 1) % IdRange \in 0 .. IdRange - 1
  BY <1>1
<1> QED
  BY <1>1, <1>2 DEF new_id

\* One value of a function is replaced.
LEMMA FunPut ==
  ASSUME NEW S, NEW T, NEW f \in [S -> T], NEW i \in S, NEW v \in T
  PROVE  [f EXCEPT ![i] = v] \in [S -> T]
  OBVIOUS

\* setup_client for the index that is given: it was free, or is the next one.
LEMMA NewSlotFree ==
  ASSUME NEW st, Basic(st), NEW i, i = NewSlot(st), i < MaxSlots
  PROVE  /\ i \in Slots
         /\ \/ i \in st.freed_indexes /\ \A j \in st.freed_indexes : i <= j
            \/ i = st.size /\ st.freed_indexes = {}
<1>1. CASE st.freed_indexes = {}
  <2>1. i = st.size /\ st.size \in 0 .. MaxSlots
    BY <1>1 DEF NewSlot, Basic, Typed
  <2> QED
    BY <1>1, <2>1, TcpAssumption DEF Slots, TcpAssumption
<1>2. CASE st.freed_indexes # {}
  <2>1. st.freed_indexes \in SUBSET Int /\ \A y \in st.freed_indexes : y >= -1
    <3>1. st.freed_indexes \subseteq Slots
      BY DEF Basic, Typed
    <3>2. \A y \in Slots : y \in Int /\ y >= -1
      BY TcpAssumption DEF TcpAssumption, Slots
    <3> QED
      BY <3>1, <3>2
  <2>2. Min(st.freed_indexes) \in st.freed_indexes /\ \A y \in st.freed_indexes : Min(st.freed_indexes) <= y
    BY <1>2, <2>1, MinLeast
  <2> QED
    BY <1>2, <2>2 DEF NewSlot, Basic, Typed
<1> QED
  BY <1>1, <1>2

\* What setup_client does to the fields, z being the new ID.
SetUp(st, i, k, d, z, u) ==
  /\ u.size = (IF i = st.size THEN st.size + 1 ELSE st.size)
  /\ u.freed_indexes = st.freed_indexes \ {i}
  /\ u.active_connections = st.active_connections \cup {i}
  /\ u.websocket_clients = st.websocket_clients
  /\ u.freed_ws = st.freed_ws /\ u.active_ws = st.active_ws /\ u.all_ws = st.all_ws
  /\ u.ws_client_idx = [st.ws_client_idx EXCEPT ![i] = -1]
  /\ u.reads = st.reads /\ u.writes = st.writes /\ u.files = st.files
  /\ u.id = [st.id EXCEPT ![i] = z]
  /\ u.owner = [st.owner EXCEPT ![i] = k]
  /\ u.turn = [st.turn EXCEPT ![i] = st.turn[i] + 1] /\ u.cut = st.cut \ {i} /\ u.late = st.late
  /\ u.sockfd = [st.sockfd EXCEPT ![i] = d]
  /\ u.send_data = [st.send_data EXCEPT ![i] = <<>>]
  /\ u.read_req_active = [st.read_req_active EXCEPT ![i] = FALSE]
  /\ u.num_write_reqs = [st.num_write_reqs EXCEPT ![i] = 0]
  /\ u.fds = [e \in Fds |-> IF e = d THEN k ELSE st.fds[e]]
  /\ DOMAIN u = Fields

LEMMA SetupFields ==
  ASSUME NEW st, DOMAIN st = Fields, NEW i, NEW k, NEW d,
         NEW u, u = [setup_client(st, i, k, d) EXCEPT !.active_connections = @ \cup {i}]
  PROVE  SetUp(st, i, k, d, new_id(st, i), u)
<1>1. u.size = (IF i = st.size THEN st.size + 1 ELSE st.size)
  BY DEF setup_client, Fields
<1>2. u.id = [st.id EXCEPT ![i] = new_id(st, i)]
  BY DEF setup_client, Fields
<1>3. u.owner = [st.owner EXCEPT ![i] = k]
  BY DEF setup_client, Fields
<1>4. u.sockfd = [st.sockfd EXCEPT ![i] = d] /\ u.send_data = [st.send_data EXCEPT ![i] = <<>>]
  BY DEF setup_client, Fields
<1>5. u.fds = [e \in Fds |-> IF e = d THEN k ELSE st.fds[e]] /\ DOMAIN u = Fields
  BY DEF setup_client, Fields
<1>6. /\ u.freed_indexes = st.freed_indexes \ {i}
      /\ u.active_connections = st.active_connections \cup {i}
  BY DEF setup_client, Fields
<1>7. /\ u.websocket_clients = st.websocket_clients
      /\ u.freed_ws = st.freed_ws /\ u.active_ws = st.active_ws /\ u.all_ws = st.all_ws
      /\ u.reads = st.reads /\ u.writes = st.writes /\ u.files = st.files
  BY DEF setup_client, Fields
<1>8. u.ws_client_idx = [st.ws_client_idx EXCEPT ![i] = -1]
  BY DEF setup_client, Fields
<1>9. u.read_req_active = [st.read_req_active EXCEPT ![i] = FALSE]
  BY DEF setup_client, Fields
<1>10. u.num_write_reqs = [st.num_write_reqs EXCEPT ![i] = 0]
  BY DEF setup_client, Fields
<1>11. u.turn = [st.turn EXCEPT ![i] = st.turn[i] + 1] /\ u.cut = st.cut \ {i} /\ u.late = st.late
  BY DEF setup_client, Fields
<1> QED
  BY <1>1, <1>2, <1>3, <1>4, <1>5, <1>6, <1>7, <1>8, <1>9, <1>10, <1>11 DEF SetUp

\* The next ID of a slot, as long as less than a round of IDs has passed.
LEMMA NextIdAfter ==
  ASSUME NEW x \in -1 .. IdRange - 1, NEW d \in Nat, d + 1 < IdRange,
         NEW z \in -1 .. IdRange - 1, z = IdAfter(x, d)
  PROVE  (z + 1) % IdRange = IdAfter(x, d + 1)
<1>t. IdRange \in Nat \ {0} /\ x \in Int /\ z \in Int
  BY TcpAssumption DEF TcpAssumption
<1>1. z + 1 \in 0 .. IdRange
  BY <1>t
<1>2. CASE z + 1 = IdRange
  <2>1. (z + 1) % IdRange = 0
    BY <1>2, <1>t
  <2> QED
    BY <1>t, <1>2, <2>1 DEF IdAfter
<1>3. CASE z + 1 < IdRange
  <2>1. (z + 1) % IdRange = z + 1
    BY <1>1, <1>3, <1>t, ModSmall
  <2> QED
    BY <1>t, <1>1, <1>3, <2>1 DEF IdAfter
<1> QED
  BY <1>1, <1>2, <1>3, <1>t

\* A new client of the slot leaves the requests of earlier ones in their turn.
LEMMA NextTurn ==
  ASSUME NEW r \in Requests, NEW z \in -1 .. IdRange - 1, NEW t \in Nat, InTurn(r, z, t)
  PROVE  InTurn(r, (z + 1) % IdRange, t + 1)
<1> DEFINE y == (z + 1) % IdRange
<1>t. /\ IdRange \in Nat \ {0} /\ r.turn \in Nat /\ r.ID \in -1 .. IdRange - 1
      /\ r.turn <= t
  BY TcpAssumption DEF TcpAssumption, Requests, InTurn
<1>1. r.turn <= t + 1
  BY <1>t
<1>2. ASSUME (t + 1) - r.turn < IdRange
      PROVE  y = IdAfter(r.ID, (t + 1) - r.turn)
  <2> DEFINE d == t - r.turn
  <2>1. d \in Nat /\ d + 1 < IdRange /\ (t + 1) - r.turn = d + 1 /\ d < IdRange
    BY <1>t, <1>2
  <2>2. z = IdAfter(r.ID, d)
    BY <2>1 DEF InTurn
  <2> HIDE DEF d
  <2>3. (z + 1) % IdRange = IdAfter(r.ID, d + 1)
    BY <1>t, <2>1, <2>2, NextIdAfter
  <2> QED
    BY <2>1, <2>3
<1> HIDE DEF y
<1>3. (t + 1) - r.turn < IdRange => y = IdAfter(r.ID, (t + 1) - r.turn)
  BY <1>2, Zenon
<1>4. InTurn(r, y, t + 1) <=>
        r.turn <= t + 1 /\ ((t + 1) - r.turn < IdRange => y = IdAfter(r.ID, (t + 1) - r.turn))
  BY Zenon DEF InTurn
<1> QED
  BY <1>1, <1>3, <1>4, Zenon DEF y

LEMMA SetupKeeps ==
  ASSUME NEW st, Basic(st), NEW i \in Slots,
         i \in st.freed_indexes \/ (i = st.size /\ st.freed_indexes = {}),
         NEW k \in Conns \cup {None}, NEW d \in Fds \cup {0}, NEW z \in -1 .. IdRange - 1,
         i \in st.freed_indexes => z = (st.id[i] + 1) % IdRange,
         NEW u, SetUp(st, i, k, d, z, u)
  PROVE  Basic(u) /\ i < u.size
<1> USE DEF SetUp
<1>t. st.size \in Nat /\ i \in Nat /\ MaxSlots \in Nat /\ i <= st.size /\ i < MaxSlots /\ st.size <= MaxSlots
  <2>1. st.size \in 0 .. MaxSlots /\ MaxSlots \in Nat /\ i \in 0 .. MaxSlots - 1
    BY TcpAssumption DEF Basic, Typed, Slots, TcpAssumption
  <2>2. i \in st.freed_indexes => i \in 0 .. st.size - 1
    BY DEF Basic, Partitioned
  <2> QED
    BY <2>1, <2>2
<1>g. u.size \in 0 .. MaxSlots /\ st.size <= u.size /\ i < u.size
  BY <1>t
<1>4. Typed(u)
  <2>1. -1 \in -1 .. MaxWs - 1 /\ 0 \in Int
    BY TcpAssumption DEF TcpAssumption
  <2>2. FALSE \in BOOLEAN /\ <<>> \in Seq(Conns)
    OBVIOUS
  <2>3. u.id \in [Slots -> -1 .. IdRange - 1] /\ u.owner \in [Slots -> Conns \cup {None}]
    <3>1. st.id \in [Slots -> -1 .. IdRange - 1] /\ st.owner \in [Slots -> Conns \cup {None}]
      BY DEF Basic, Typed
    <3> QED
      BY <2>1, <3>1, FunPut
  <2>4. u.sockfd \in [Slots -> Fds \cup {0}] /\ u.send_data \in [Slots -> Seq(Conns)]
    <3>1. st.sockfd \in [Slots -> Fds \cup {0}] /\ st.send_data \in [Slots -> Seq(Conns)]
      BY DEF Basic, Typed
    <3> QED
      BY <2>2, <3>1, FunPut
  <2>5. u.read_req_active \in [Slots -> BOOLEAN]
    <3>1. st.read_req_active \in [Slots -> BOOLEAN]
      BY DEF Basic, Typed
    <3> QED
      BY <2>2, <3>1, FunPut
  <2>6. u.num_write_reqs \in [Slots -> Int] /\ u.ws_client_idx \in [Slots -> -1 .. MaxWs - 1]
    <3>1. st.num_write_reqs \in [Slots -> Int] /\ st.ws_client_idx \in [Slots -> -1 .. MaxWs - 1]
      BY DEF Basic, Typed
    <3> QED
      BY <2>1, <3>1, FunPut
  <2>7. u.active_connections \subseteq Slots /\ u.freed_indexes \subseteq Slots
    BY DEF Basic, Typed
  <2>8. u.fds \in [Fds -> Conns \cup {None, File}]
    BY DEF Basic, Typed
  <2>9. u.turn \in [Slots -> Nat] /\ u.cut \subseteq Slots /\ u.late \in BOOLEAN
    <3>1. st.turn \in [Slots -> Nat] /\ st.turn[i] + 1 \in Nat
      BY DEF Basic, Typed
    <3>2. u.turn \in [Slots -> Nat]
      BY <3>1, FunPut
    <3>3. u.cut \subseteq Slots /\ u.late \in BOOLEAN
      BY DEF Basic, Typed
    <3> QED
      BY <3>2, <3>3
  <2> QED
    BY <1>g, <2>3, <2>4, <2>5, <2>6, <2>7, <2>8, <2>9 DEF Basic, Typed
<1>5. Partitioned(u)
  <2>1. st.active_connections \cup st.freed_indexes = 0 .. st.size - 1
    BY DEF Basic, Partitioned
  <2>2. u.active_connections \cup u.freed_indexes = (0 .. st.size - 1) \cup {i}
    BY <2>1
  <2>3. (0 .. st.size - 1) \cup {i} = 0 .. u.size - 1
    <3>1. CASE i = st.size
      BY <1>t, <3>1
    <3>2. CASE i # st.size
      BY <1>t, <3>2
    <3> QED
      BY <3>1, <3>2
  <2>4. u.active_connections \cap u.freed_indexes = {}
    BY DEF Basic, Partitioned
  <2> QED
    BY <2>2, <2>3, <2>4 DEF Partitioned
<1>6. InSize(u)
  <2>1. \A r \in BagToSet(st.reads) \cup BagToSet(st.writes) \cup BagToSet(st.files) : r.idx \in Int
    BY DEF Basic, Typed, Requests, ReadFiles, Slots
  <2>2. \A x \in DOMAIN st.websocket_clients : st.websocket_clients[x] \in Int
    <3>1. Slots \subseteq Int /\ st.websocket_clients \in Seq(Slots)
      BY DEF Basic, Typed, Slots
    <3> QED
      BY <3>1
  <2>3. \A j \in st.active_ws : j \in Int
    BY DEF Basic, Typed, Slots
  <2>4. \A j \in Int : j < st.size => j < u.size
    BY <1>g, <1>t
  <2> QED
    BY <2>1, <2>2, <2>3, <2>4 DEF Basic, InSize
<1>7. WsOwned(u)
  <2>1. -1 < Len(st.websocket_clients)
    BY DEF Basic, Typed
  <2>2. \A j \in Slots : u.ws_client_idx[j] = IF j = i THEN -1 ELSE st.ws_client_idx[j]
    BY DEF Basic, Typed
  <2>3. st.active_ws \subseteq Slots
    BY DEF Basic, Typed
  <2> QED
    BY <2>1, <2>2, <2>3 DEF Basic, WsOwned
<1>8. Turns(u)
  <2>1. \A j \in Slots : /\ u.turn[j] = (IF j = i THEN st.turn[j] + 1 ELSE st.turn[j])
                         /\ u.id[j] = (IF j = i THEN z ELSE st.id[j])
                         /\ st.turn[j] \in Nat /\ st.id[j] \in -1 .. IdRange - 1
    BY DEF Basic, Typed
  <2>2. ASSUME NEW r \in BagToSet(u.reads) \cup BagToSet(u.writes)
        PROVE  InTurn(r, u.id[r.idx], u.turn[r.idx])
    <3>1. r \in Requests /\ r.idx \in Slots /\ r.idx < st.size
      BY DEF Basic, Typed, Requests, InSize
    <3>2. InTurn(r, st.id[r.idx], st.turn[r.idx])
      BY DEF Basic, Turns
    <3>3. CASE r.idx # i
      BY <2>1, <3>1, <3>2, <3>3
    <3>4. CASE r.idx = i
      <4>1. i \in st.freed_indexes
        BY <1>t, <3>1, <3>4
      <4>2. z = (st.id[r.idx] + 1) % IdRange
        BY <3>4, <4>1
      <4>3. InTurn(r, (st.id[r.idx] + 1) % IdRange, st.turn[r.idx] + 1)
        BY <2>1, <3>1, <3>2, NextTurn
      <4>4. u.id[r.idx] = z /\ u.turn[r.idx] = st.turn[r.idx] + 1
        BY <2>1, <3>1, <3>4
      <4> QED
        BY <4>2, <4>3, <4>4
    <3> QED
      BY <3>3, <3>4
  <2>3. ASSUME NEW r \in BagToSet(u.files)
        PROVE  r.turn <= u.turn[r.idx]
    <3>1. r.idx \in Slots /\ r.turn \in Nat
      BY DEF Basic, Typed, ReadFiles
    <3>2. r.turn <= st.turn[r.idx]
      BY DEF Basic, Turns
    <3> QED
      BY <2>1, <3>1, <3>2
  <2> QED
    BY <2>2, <2>3 DEF Turns
<1> QED
  BY <1>4, <1>5, <1>6, <1>7, <1>8, <1>g DEF Basic

LEMMA SetupBasic ==
  ASSUME NEW st, Basic(st), NEW i, i = NewSlot(st), i < MaxSlots,
         NEW k \in Conns \cup {None}, NEW d \in Fds \cup {0},
         NEW u, u = [setup_client(st, i, k, d) EXCEPT !.active_connections = @ \cup {i}]
  PROVE  Basic(u) /\ i < u.size /\ i \in Slots
<1>1. i \in Slots /\ (i \in st.freed_indexes \/ (i = st.size /\ st.freed_indexes = {}))
  BY NewSlotFree
<1>2. new_id(st, i) \in -1 .. IdRange - 1
  BY <1>1, NewIdType DEF Basic
<1>3. SetUp(st, i, k, d, new_id(st, i), u)
  <2>1. DOMAIN st = Fields
    BY DEF Basic, Typed
  <2> QED
    BY <2>1, SetupFields, Zenon
<1>4. i \in st.freed_indexes => new_id(st, i) = (st.id[i] + 1) % IdRange
  BY DEF new_id
<1> QED
  BY <1>1, <1>2, <1>3, <1>4, SetupKeeps, Zenon

-----------------------------------------------------------------------------
(* The callbacks and the handlers.                                         *)

\* The lowest free descriptor.
LEMMA FreeFd ==
  ASSUME NEW st, FreeFds(st) # {}
  PROVE  Min(FreeFds(st)) \in Fds /\ st.fds[Min(FreeFds(st))] = None
<1>1. FreeFds(st) \in SUBSET Int /\ \A x \in FreeFds(st) : x >= -1
  BY TcpAssumption DEF FreeFds, Fds, TcpAssumption
<1>2. Min(FreeFds(st)) \in FreeFds(st)
  BY <1>1, MinLeast
<1> QED
  BY <1>2 DEF FreeFds

LEMMA SendFileBasic ==
  ASSUME NEW st, Basic(st), NEW i \in Slots, i < st.size, NEW k \in Conns,
         NEW u \in send_file_request(st, i, k)
  PROVE  Basic(u) /\ u.size = st.size
<1>1. CASE FreeFds(st) = {}
  BY <1>1 DEF send_file_request
<1>2. CASE FreeFds(st) # {}
  <2> DEFINE d == Min(FreeFds(st))
             v == [st EXCEPT !.fds[d] = File]
             r == [idx |-> i, conn |-> k, fd |-> d, turn |-> st.turn[i]]
  <2>1. d \in Fds
    BY <1>2, FreeFd
  <2>2. u = write_connection(v, i, k) \/ u = [v EXCEPT !.files = @ (+) SetToBag({r})]
    BY <1>2 DEF send_file_request
  <2>3. r \in ReadFiles /\ r.idx = i /\ r.turn <= v.turn[r.idx]
    BY <2>1 DEF ReadFiles, Basic, Typed, Fields
  <2> HIDE DEF d, r
  <2>4. Basic(v) /\ v.size = st.size
    BY <2>1, FdBasic
  <2> HIDE DEF v
  <2>5. CASE u = write_connection(v, i, k)
    BY <2>4, <2>5, WriteConnectionBasic
  <2>6. CASE u = [v EXCEPT !.files = @ (+) SetToBag({r})]
    BY <2>3, <2>4, <2>6, FileAddedBasic DEF Core
  <2> QED
    BY <2>2, <2>5, <2>6
<1> QED
  BY <1>1, <1>2

LEMMA UpgradeBasic ==
  ASSUME NEW st, Basic(st), NEW i \in Slots, i < st.size, NEW k \in Conns,
         NEW u \in Upgrade(st, i, k)
  PROVE  Basic(u) /\ u.size = st.size
<1> DEFINE v == new_ws_client(st, i)
<1>1. NewWs(st) \in 0 .. MaxWs - 1 /\ u = write_connection(v, i, k)
  BY DEF Upgrade
<1>2. Basic(v) /\ v.size = st.size
  BY <1>1, NewWsBasic DEF Core
<1> HIDE DEF v
<1> QED
  BY <1>1, <1>2, WriteConnectionBasic

LEMMA HttpBasic ==
  ASSUME NEW st, Basic(st), NEW i \in Slots, i < st.size, NEW k \in Conns,
         NEW u \in HttpRequest(st, i, k)
  PROVE  Basic(u)
<1>1. CASE u \in send_file_request(st, i, k)
  BY <1>1, SendFileBasic
<1>2. CASE \E x \in get_process(st, i, k) : u = IF i \in x.active_ws THEN add_read_req(x, i) ELSE x
  <2>1. PICK x \in get_process(st, i, k) : u = IF i \in x.active_ws THEN add_read_req(x, i) ELSE x
    BY <1>2
  <2>2. Basic(x) /\ x.size = st.size
    BY SendFileBasic, UpgradeBasic DEF get_process
  <2> QED
    BY <2>1, <2>2, AddReadBasic
<1> QED
  BY <1>1, <1>2 DEF HttpRequest

\* Where the answers to frames are written: to the websocket's index, which names a client.
LEMMA AnswerSlot ==
  ASSUME NEW st, Basic(st), NEW i \in Slots, st.ws_client_idx[i] # -1,
         NEW c, c = st.websocket_clients[st.ws_client_idx[i] + 1]
  PROVE  c \in Slots /\ c < st.size
<1>1. st.ws_client_idx[i] \in 0 .. MaxWs - 1 /\ st.ws_client_idx[i] < Len(st.websocket_clients)
  BY TcpAssumption DEF Basic, Typed, WsOwned, TcpAssumption
<1>2. st.ws_client_idx[i] + 1 \in DOMAIN st.websocket_clients
  BY <1>1, TcpAssumption DEF Basic, Typed, TcpAssumption
<1> QED
  BY <1>2 DEF Basic, Typed, InSize

LEMMA FramesBasic ==
  ASSUME NEW st, Basic(st), NEW i \in Slots, i < st.size, NEW k \in Conns,
         st.ws_client_idx[i] # -1, NEW u \in Frames(st, i, k)
  PROVE  Basic(u)
<1> DEFINE c == st.websocket_clients[st.ws_client_idx[i] + 1]
           v == [st EXCEPT !.active_ws = @ \ {c}]
           w == write_connection(st, c, k)
           x == write_connection(v, c, k)
<1>1. c \in Slots /\ c < st.size
  BY AnswerSlot
<1>2. u = add_read_req(st, i) \/ u = add_read_req(w, i) \/ u = add_read_req(x, i)
  BY DEF Frames
<1> HIDE DEF c
<1>3. Basic(v) /\ v.size = st.size
  BY <1>1, ClosingBasic DEF Core
<1> HIDE DEF v
<1>4. Basic(w) /\ w.size = st.size
  BY <1>1, WriteConnectionBasic
<1>5. Basic(x) /\ x.size = st.size
  BY <1>1, <1>3, WriteConnectionBasic
<1> HIDE DEF w, x
<1> QED
  BY <1>2, <1>4, <1>5, AddReadBasic

LEMMA ReadCbBasic ==
  ASSUME NEW st, Basic(st), NEW i \in Slots, i < st.size, NEW k \in Conns,
         NEW u \in read_cb(st, i, k)
  PROVE  Basic(u)
<1>1. CASE u \in HttpRequest(st, i, k)
  BY <1>1, HttpBasic
<1>2. CASE u = close_web_connection(st, i)
  BY <1>2, CloseWebBasic
<1>3. CASE st.ws_client_idx[i] # -1 /\ u \in Frames(st, i, k)
  BY <1>3, FramesBasic
<1> QED
  BY <1>1, <1>2, <1>3 DEF read_cb

\* The part of the invariant that holds whatever the IDs do.
BInv ==
  Basic(s) /\ accepted \in 0 .. MaxConns /\ undefined \in BOOLEAN

LEMMA AcceptBasic ==
  ASSUME BInv, Accept
  PROVE  BInv'
<1> DEFINE i == NewSlot(s)
           k == IF FreeFds(s) = {} THEN None ELSE accepted + 1
           d == IF FreeFds(s) = {} THEN 0 ELSE Min(FreeFds(s))
           v == [setup_client(s, i, k, d) EXCEPT !.active_connections = @ \cup {i}]
<1>1. s' = add_read_req(v, i) /\ i < MaxSlots
  BY DEF Accept
<1>2. accepted' \in 0 .. MaxConns /\ undefined' \in BOOLEAN
  BY TcpAssumption DEF Accept, BInv, TcpAssumption
<1>3. k \in Conns \cup {None} /\ d \in Fds \cup {0}
  <2>1. accepted + 1 \in Conns
    BY TcpAssumption DEF Accept, BInv, TcpAssumption, Conns
  <2> QED
    BY <2>1, FreeFd
<1>4. Basic(v) /\ i < v.size /\ i \in Slots
  <2> HIDE DEF k, d
  <2> QED
    BY <1>1, <1>3, SetupBasic DEF BInv
<1>5. Basic(s')
  <2> HIDE DEF v, i
  <2> QED
    BY <1>1, <1>4, AddReadBasic
<1> QED
  BY <1>2, <1>5 DEF BInv

LEMMA ReadDoneBasic ==
  ASSUME BInv, NEW r \in BagToSet(s.reads), ReadDone(r)
  PROVE  BInv'
<1> DEFINE h == Handled(s, r)
           u == [s EXCEPT !.reads = @ (-) SetToBag({r})]
           v == [h EXCEPT !.reads = @ (-) SetToBag({r})]
           w == [v EXCEPT !.read_req_active[r.idx] = FALSE]
<1>h. Basic(h) /\ Core(h, s)
  BY HandledBasic DEF BInv
<1>1. s' = u \/ s' \in read_cb(w, r.idx, r.conn)
  <2>1. v = Handled(u, r)
    BY HandledTaken DEF BInv, Basic, Typed
  <2> QED
    BY <2>1 DEF ReadDone
<1>2. r.idx \in Slots /\ r.idx < s.size /\ r.conn \in Conns
  BY DEF ReadDone, BInv, Basic, Typed, InSize, Requests, None
<1>u. Basic(u)
  BY ReadTakenBasic DEF BInv
<1>3. Basic(v) /\ v.size = s.size
  <2>1. r \in BagToSet(h.reads) /\ h.size = s.size
    BY <1>h DEF Core
  <2> HIDE DEF h
  <2> QED
    BY <1>h, <2>1, ReadTakenBasic
<1> HIDE DEF u, v
<1>4. Basic(w) /\ w.size = s.size
  <2>1. FALSE \in BOOLEAN
    OBVIOUS
  <2>2. Basic(w) /\ Core(w, v)
    BY <1>2, <1>3, <2>1, IdleBasic
  <2> QED
    BY <1>3, <2>2 DEF Core
<1> HIDE DEF w
<1>5. Basic(s')
  BY <1>1, <1>2, <1>u, <1>4, ReadCbBasic
<1> QED
  BY <1>5 DEF BInv, ReadDone

LEMMA ReadFailBasic ==
  ASSUME BInv, NEW r \in BagToSet(s.reads), ReadFail(r)
  PROVE  BInv'
<1> DEFINE v == [s EXCEPT !.reads = @ (-) SetToBag({r})]
           h == Handled(v, r)
<1>1. s' = v \/ s' = CloseLoop(h, r.idx)
  BY DEF ReadFail
<1>2. r.idx \in Slots /\ r.idx < s.size
  BY DEF BInv, Basic, Typed, InSize, Requests
<1>3. Basic(v) /\ v.size = s.size
  BY ReadTakenBasic DEF BInv
<1> HIDE DEF v
<1>h. Basic(h) /\ h.size = s.size
  BY <1>3, HandledBasic DEF Core
<1> HIDE DEF h
<1>4. Basic(s')
  BY <1>1, <1>2, <1>3, <1>h, CloseLoopBasic
<1> QED
  BY <1>4 DEF BInv, ReadFail

\* A WRITE that is finished, once it is no longer in flight.
LEMMA WriteCbBasic ==
  ASSUME NEW st, Basic(st), NEW i \in Slots, i < st.size, NEW u, u = write_cb(st, i)
  PROVE  Basic(u)
  BY CloseWebBasic DEF write_cb

LEMMA WrittenBasic ==
  ASSUME NEW st, Basic(st), NEW r \in Requests, r.idx < st.size,
         r.idx \in st.active_connections /\ st.id[r.idx] = r.ID => st.send_data[r.idx] # <<>>,
         NEW u, u = Written(st, r)
  PROVE  Basic(u)
<1> DEFINE i   == r.idx
           v   == [st EXCEPT !.num_write_reqs[i] = @ - 1]
           own == i \in st.active_connections /\ st.id[i] = r.ID
           w   == IF own THEN [v EXCEPT !.send_data[i] = Tail(@)] ELSE v
           x   == IF own /\ w.send_data[i] # <<>> THEN add_write_req(w, i) ELSE w
<1>1. u = write_cb(x, i)
  BY DEF Written
<1>2. i \in Slots
  BY DEF Requests
<1>3. Basic(v) /\ v.size = st.size /\ v.send_data = st.send_data
  <2>1. st.num_write_reqs[i] - 1 \in Int
    BY <1>2 DEF Basic, Typed
  <2>2. v.send_data = st.send_data
    BY DEF Basic, Typed, Fields
  <2> QED
    BY <1>2, <2>1, <2>2, CountBasic
<1> HIDE DEF v
<1>4. Basic(w) /\ w.size = st.size
  <2>1. CASE own
    <3>1. Tail(v.send_data[i]) \in Seq(Conns)
      BY <1>2, <1>3, <2>1 DEF Basic, Typed
    <3>2. Basic(w) /\ Core(w, v)
      BY <1>2, <1>3, <2>1, <3>1, QueueBasic
    <3> QED
      BY <1>3, <3>2 DEF Core
  <2>2. CASE ~own
    BY <1>3, <2>2
  <2> QED
    BY <2>1, <2>2
<1> HIDE DEF w
<1>5. Basic(x) /\ x.size = st.size
  BY <1>2, <1>4, AddWriteBasic
<1> HIDE DEF x
<1> QED
  BY <1>1, <1>2, <1>5, WriteCbBasic

LEMMA WriteDoneBasic ==
  ASSUME BInv, NEW r \in BagToSet(s.writes), WriteDone(r)
  PROVE  BInv'
<1> DEFINE v == [s EXCEPT !.writes = @ (-) SetToBag({r})]
           h == Handled(v, r)
<1>1. s' = v \/ (s' = Written(h, r) /\ ~NothingToPop(r))
  BY DEF WriteDone
<1>2. r \in Requests /\ r.idx < s.size
  BY DEF BInv, Basic, Typed, InSize
<1>3. Basic(v) /\ v.size = s.size
  BY WriteTakenBasic DEF BInv
<1>4. ~NothingToPop(r) =>
        (r.idx \in h.active_connections /\ h.id[r.idx] = r.ID => h.send_data[r.idx] # <<>>)
  BY DEF BInv, Basic, Typed, Fields, NothingToPop, Handled
<1> HIDE DEF v
<1>h. Basic(h) /\ h.size = s.size
  BY <1>3, HandledBasic DEF Core
<1> HIDE DEF h
<1>5. Basic(s')
  BY <1>1, <1>2, <1>3, <1>h, <1>4, WrittenBasic
<1> QED
  BY <1>5 DEF BInv, WriteDone

\* A WRITE that is counted, once it is no longer in flight.
LEMMA WriteTakenCounted ==
  ASSUME NEW st, Basic(st), NEW r \in BagToSet(st.writes), r.idx \in Slots
  PROVE  LET v == [st EXCEPT !.writes = @ (-) SetToBag({r})]
             w == [v EXCEPT !.num_write_reqs[r.idx] = @ - 1]
         IN  Basic(w) /\ w.size = v.size /\ v.size = st.size
<1> DEFINE v == [st EXCEPT !.writes = @ (-) SetToBag({r})]
           w == [v EXCEPT !.num_write_reqs[r.idx] = @ - 1]
<1>1. Basic(v) /\ v.size = st.size
  BY WriteTakenBasic
<1>2. Basic(w) /\ w.size = v.size
  <2> HIDE DEF v
  <2>1. v.num_write_reqs[r.idx] - 1 \in Int
    BY <1>1 DEF Basic, Typed
  <2> QED
    BY <1>1, <2>1, CountBasic
<1> QED
  BY <1>1, <1>2

LEMMA WriteFailBasic ==
  ASSUME BInv, NEW r \in BagToSet(s.writes), WriteFail(r)
  PROVE  BInv'
<1> DEFINE v == [s EXCEPT !.writes = @ (-) SetToBag({r})]
           h == Handled(v, r)
           w == [h EXCEPT !.num_write_reqs[r.idx] = @ - 1]
<1>1. s' = v \/ s' = w \/ s' = CloseLoop(w, r.idx)
  BY DEF WriteFail
<1>2. r.idx \in Slots /\ r.idx < s.size
  BY DEF BInv, Basic, Typed, InSize, Requests
<1>3. Basic(v) /\ v.size = s.size
  BY WriteTakenBasic DEF BInv
<1> HIDE DEF v
<1>h. Basic(h) /\ h.size = s.size
  BY <1>3, HandledBasic DEF Core
<1> HIDE DEF h
<1>4. Basic(w) /\ w.size = s.size
  <2>1. h.num_write_reqs[r.idx] - 1 \in Int
    BY <1>2, <1>h DEF Basic, Typed
  <2> QED
    BY <1>2, <1>h, <2>1, CountBasic
<1> HIDE DEF w
<1>5. Basic(s')
  BY <1>1, <1>2, <1>3, <1>4, CloseLoopBasic
<1> QED
  BY <1>5 DEF BInv, WriteFail

LEMMA FileReadBasic ==
  ASSUME BInv, NEW r \in BagToSet(s.files), FileRead(r)
  PROVE  BInv'
<1> DEFINE h == Handled(s, r)
           v == [h EXCEPT !.files = @ (-) SetToBag({r})]
           w == [v EXCEPT !.fds[r.fd] = None]
<1>h. Basic(h) /\ Core(h, s)
  BY HandledBasic DEF BInv
<1>f. h.files = s.files
  BY DEF Handled, BInv, Basic, Typed, Fields
<1>1. s' = write_connection(w, r.idx, r.conn)
  <2>1. s' = write_connection([h EXCEPT !.files = @ (-) SetToBag({r}), !.fds[r.fd] = None], r.idx, r.conn)
    BY DEF FileRead
  <2> HIDE DEF h
  <2> QED
    BY <1>h, <2>1 DEF Basic, Typed, Fields
<1>2. r.idx \in Slots /\ r.idx < s.size /\ r.conn \in Conns /\ r.fd \in Fds
  BY DEF BInv, Basic, Typed, InSize, ReadFiles
<1> HIDE DEF h
<1>3. Basic(v) /\ v.size = s.size
  BY <1>h, <1>f, FileTakenBasic DEF Core
<1> HIDE DEF v
<1>4. Basic(w) /\ w.size = s.size
  BY <1>2, <1>3, FdBasic
<1> HIDE DEF w
<1>5. Basic(s')
  BY <1>1, <1>2, <1>4, WriteConnectionBasic
<1> QED
  BY <1>5 DEF BInv, FileRead

LEMMA ReapBasic ==
  ASSUME BInv, Reap
  PROVE  BInv'
<1>1. PICK i \in s.active_connections : s' = CloseLoop(CutAt(s, i), i)
  BY DEF Reap, CutAt
<1>2. i \in Slots /\ i < s.size
  BY TcpAssumption DEF BInv, Basic, Typed, Partitioned, TcpAssumption
<1>c. Basic(CutAt(s, i)) /\ CutAt(s, i).size = s.size
  BY <1>2, CutBasic DEF BInv, Core
<1>3. Basic(s')
  BY <1>1, <1>2, <1>c, CloseLoopBasic
<1> QED
  BY <1>3 DEF BInv, Reap

LEMMA InitBasic ==
  ASSUME Init
  PROVE  BInv
<1>1. IsABag(EmptyBag) /\ BagToSet(EmptyBag) = {}
  BY DEF IsABag, EmptyBag, BagToSet, SetToBag
<1>2. Typed(s)
  BY <1>1, TcpAssumption DEF Init, Typed, Fields, TcpAssumption
<1>3. Partitioned(s) /\ InSize(s)
  BY <1>1, TcpAssumption DEF Init, Partitioned, InSize, TcpAssumption
<1>4. WsOwned(s) /\ Turns(s)
  BY <1>1 DEF Init, WsOwned, Turns
<1>5. accepted \in 0 .. MaxConns
  BY TcpAssumption DEF Init, TcpAssumption
<1>6. undefined \in BOOLEAN
  BY Zenon DEF Init
<1> QED
  BY <1>2, <1>3, <1>4, <1>5, <1>6, Zenon DEF BInv, Basic

LEMMA NextBasic ==
  ASSUME BInv, [Next]_vars
  PROVE  BInv'
<1>1. ASSUME NEW r \in BagToSet(s.reads), ReadDoneUndefined(r)
      PROVE  BInv'
  BY <1>1 DEF BInv, ReadDoneUndefined
<1>2. ASSUME NEW r \in BagToSet(s.writes), WriteDoneUndefined(r)
      PROVE  BInv'
  BY <1>2 DEF BInv, WriteDoneUndefined
<1>3. CASE UNCHANGED vars
  BY <1>3 DEF BInv, vars
<1> QED
  BY <1>1, <1>2, <1>3, AcceptBasic, ReadDoneBasic, ReadFailBasic, WriteDoneBasic, WriteFailBasic,
     FileReadBasic, ReapBasic DEF Next

\* The state of the server thread keeps its types, whatever completes in whatever order.
THEOREM TcpTypeCorrect == Spec => []TypeOK
<1>1. BInv => TypeOK
  BY DEF BInv, Basic, Typed, TypeOK, ReadFiles
<1> QED
  BY <1>1, InitBasic, NextBasic, PTL DEF Spec

\* Every index of the clients vector is in use or free, never both: close_connection frees no
\* index twice, and no index is lost, however completions, failures and the timer interleave.
THEOREM SlotsAlwaysPartitioned == Spec => []SlotsPartitioned
<1>1. BInv => SlotsPartitioned
  BY DEF BInv, Basic, Partitioned, SlotsPartitioned
<1> QED
  BY <1>1, InitBasic, NextBasic, PTL DEF Spec

\* An open websocket has its index to itself, although kill_client is called several times for
\* a client and leaves the index with it.
THEOREM WsIndexesOwned == Spec => []WsIndexOwned
<1>1. BInv => WsIndexOwned
  BY DEF BInv, Basic, WsOwned, WsIndexOwned
<1> QED
  BY <1>1, InitBasic, NextBasic, PTL DEF Spec

\* Whatever the number of connections and however often IDs wrap: a READ or WRITE in flight with
\* the ID of the client that has the slot was submitted by that client, unless the slot has
\* had as many clients since as there are IDs.  What is late for a client that was closed is not
\* taken for one of the next IdRange - 1 clients' of the slot.
THEOREM LateAlwaysDropped == Spec => []LateDropped
<1>1. BInv => LateDropped
  <2> SUFFICES ASSUME BInv, NEW r \in BagToSet(s.reads) \cup BagToSet(s.writes), r.ID = s.id[r.idx],
                      ~(s.turn[r.idx] - r.turn >= IdRange)
               PROVE  r.turn = s.turn[r.idx]
    BY DEF LateDropped
  <2>1. r.idx \in Slots /\ r.turn \in Nat /\ r.ID \in -1 .. IdRange - 1
    BY DEF BInv, Basic, Typed, Requests
  <2>2. s.turn[r.idx] \in Nat
    BY <2>1 DEF BInv, Basic, Typed
  <2>3. InTurn(r, s.id[r.idx], s.turn[r.idx])
    BY DEF BInv, Basic, Turns
  <2> QED
    BY <2>1, <2>2, <2>3, TcpAssumption DEF InTurn, IdAfter, TcpAssumption
<1> QED
  BY <1>1, InitBasic, NextBasic, PTL DEF Spec

-----------------------------------------------------------------------------
(* Requests in flight outlive the client that submitted them.  As long as  *)
(* no ID of a slot wraps (the loop of 100 in setup_client), num_write_reqs *)
(* counts the writes of the client that has the slot and no others.  This  *)
(* needs the argument about slot 0, where the filter lets late writes      *)
(* through.                                                                *)

\* IDs of a slot only grow, at most by one with each connection that is accepted, and a
\* request has the ID of the client that submitted it.
IdsGrow(st, n) ==
  /\ \A i \in Slots : i < st.size => st.id[i] + 2 <= n
  /\ \A r \in BagToSet(st.reads) \cup BagToSet(st.writes) :
       r.ID <= st.id[r.idx]

\* WritesCounted of any state record.
Counted(st) ==
  \A i \in Slots : /\ IsFiniteSet(OwnWrites(st, i))
                   /\ st.num_write_reqs[i] = Cardinality(OwnWrites(st, i))

\* Slot 0, where the filter lets late writes through: it is the first to be used again, so
\* that its descriptor stays closed while it is free, and late writes are on no connection.
SlotZero(st) ==
  /\ 0 \in st.freed_indexes =>
       /\ Target(st, 0) = None
       /\ \A r \in BagToSet(st.writes) : r.idx = 0 => r.conn = None
  /\ \A r \in BagToSet(st.writes) : r.idx = 0 /\ r.ID # st.id[0] => r.conn = None

Counts(st, n) == IdsGrow(st, n) /\ Counted(st) /\ SlotZero(st)
Good(st, n) == Basic(st) /\ Counts(st, n)

-----------------------------------------------------------------------------
(* Copies of requests.                                                     *)

\* The writes of one client, when a request is added or taken away.
Own(B, i, z) == {w \in Copies(B) : w[1].idx = i /\ w[1].ID = z}

LEMMA OwnIs ==
  ASSUME NEW st, NEW i
  PROVE  OwnWrites(st, i) = Own(st.writes, i, st.id[i])
  BY DEF OwnWrites, Own

LEMMA OwnAdded ==
  ASSUME NEW B, IsABag(B), NEW r, NEW C, C = B (+) SetToBag({r}), NEW i, NEW z, IsFiniteSet(Own(B, i, z))
  PROVE  /\ IsFiniteSet(Own(C, i, z))
         /\ r.idx = i /\ r.ID = z => Cardinality(Own(C, i, z)) = Cardinality(Own(B, i, z)) + 1
         /\ ~(r.idx = i /\ r.ID = z) => Own(C, i, z) = Own(B, i, z)
<1> DEFINE e == <<r, C[r]>>
<1>1. Copies(C) = Copies(B) \cup {e} /\ e \notin Copies(B)
  BY CopiesAdd
<1>2. e[1] = r
  OBVIOUS
<1> HIDE DEF e
<1>3. CASE r.idx = i /\ r.ID = z
  <2>1. Own(C, i, z) = Own(B, i, z) \cup {e} /\ e \notin Own(B, i, z)
    BY <1>1, <1>2, <1>3 DEF Own
  <2>2. /\ IsFiniteSet(Own(B, i, z) \cup {e})
        /\ Cardinality(Own(B, i, z) \cup {e}) = Cardinality(Own(B, i, z)) + 1
    BY <2>1, FS_AddElement
  <2> QED
    BY <1>3, <2>1, <2>2
<1>4. CASE ~(r.idx = i /\ r.ID = z)
  BY <1>1, <1>2, <1>4 DEF Own
<1> QED
  BY <1>3, <1>4

LEMMA OwnTaken ==
  ASSUME NEW B, IsABag(B), NEW r \in BagToSet(B), NEW C, C = B (-) SetToBag({r}), NEW i, NEW z, IsFiniteSet(Own(B, i, z))
  PROVE  /\ IsFiniteSet(Own(C, i, z))
         /\ r.idx = i /\ r.ID = z => Cardinality(Own(C, i, z)) = Cardinality(Own(B, i, z)) - 1
         /\ ~(r.idx = i /\ r.ID = z) => Own(C, i, z) = Own(B, i, z)
<1> DEFINE e == <<r, B[r]>>
<1>1. Copies(C) = Copies(B) \ {e} /\ e \in Copies(B)
  BY CopiesTaken
<1>2. e[1] = r
  OBVIOUS
<1> HIDE DEF e
<1>3. CASE r.idx = i /\ r.ID = z
  <2>1. Own(C, i, z) = Own(B, i, z) \ {e} /\ e \in Own(B, i, z)
    BY <1>1, <1>2, <1>3 DEF Own
  <2>2. /\ IsFiniteSet(Own(B, i, z) \ {e})
        /\ Cardinality(Own(B, i, z) \ {e}) = Cardinality(Own(B, i, z)) - 1
    BY <2>1, FS_RemoveElement
  <2> QED
    BY <1>3, <2>1, <2>2
<1>4. CASE ~(r.idx = i /\ r.ID = z)
  BY <1>1, <1>2, <1>4 DEF Own
<1> QED
  BY <1>3, <1>4

\* A write of the client that has the slot is submitted,
LEMMA CountedAdded ==
  ASSUME NEW st, IsABag(st.writes), st.num_write_reqs \in [Slots -> Int], Counted(st),
         NEW i \in Slots, NEW r, r.idx = i, r.ID = st.id[i],
         NEW u, u.id = st.id, u.writes = st.writes (+) SetToBag({r}),
         u.num_write_reqs = [st.num_write_reqs EXCEPT ![i] = @ + 1]
  PROVE  Counted(u)
<1> DEFINE C == st.writes (+) SetToBag({r})
<1>c. C = st.writes (+) SetToBag({r}) /\ u.writes = C
  OBVIOUS
<1> HIDE DEF C
<1> SUFFICES ASSUME NEW j \in Slots
             PROVE  /\ IsFiniteSet(OwnWrites(u, j))
                    /\ u.num_write_reqs[j] = Cardinality(OwnWrites(u, j))
  BY DEF Counted
<1>1. IsFiniteSet(OwnWrites(st, j)) /\ st.num_write_reqs[j] = Cardinality(OwnWrites(st, j))
  BY DEF Counted
<1>2. /\ OwnWrites(st, j) = Own(st.writes, j, st.id[j])
      /\ OwnWrites(u, j) = Own(C, j, st.id[j])
  BY <1>c, OwnIs
<1>3. /\ IsFiniteSet(Own(C, j, st.id[j]))
      /\ r.idx = j /\ r.ID = st.id[j] =>
           Cardinality(Own(C, j, st.id[j])) = Cardinality(Own(st.writes, j, st.id[j])) + 1
      /\ ~(r.idx = j /\ r.ID = st.id[j]) => Own(C, j, st.id[j]) = Own(st.writes, j, st.id[j])
  BY <1>c, <1>1, <1>2, OwnAdded
<1>4. u.num_write_reqs[j] = IF j = i THEN st.num_write_reqs[j] + 1 ELSE st.num_write_reqs[j]
  OBVIOUS
<1> QED
  BY <1>1, <1>2, <1>3, <1>4

\* or is no longer in flight.
LEMMA CountedTaken ==
  ASSUME NEW st, IsABag(st.writes), st.num_write_reqs \in [Slots -> Int], Counted(st),
         NEW r \in BagToSet(st.writes), r.idx \in Slots, r.ID = st.id[r.idx],
         NEW u, u.id = st.id, u.writes = st.writes (-) SetToBag({r}),
         u.num_write_reqs = [st.num_write_reqs EXCEPT ![r.idx] = @ - 1]
  PROVE  Counted(u)
<1> DEFINE C == st.writes (-) SetToBag({r})
<1>c. C = st.writes (-) SetToBag({r}) /\ u.writes = C
  OBVIOUS
<1> HIDE DEF C
<1> SUFFICES ASSUME NEW j \in Slots
             PROVE  /\ IsFiniteSet(OwnWrites(u, j))
                    /\ u.num_write_reqs[j] = Cardinality(OwnWrites(u, j))
  BY DEF Counted
<1>1. IsFiniteSet(OwnWrites(st, j)) /\ st.num_write_reqs[j] = Cardinality(OwnWrites(st, j))
  BY DEF Counted
<1>2. /\ OwnWrites(st, j) = Own(st.writes, j, st.id[j])
      /\ OwnWrites(u, j) = Own(C, j, st.id[j])
  BY <1>c, OwnIs
<1>3. /\ IsFiniteSet(Own(C, j, st.id[j]))
      /\ r.idx = j /\ r.ID = st.id[j] =>
           Cardinality(Own(C, j, st.id[j])) = Cardinality(Own(st.writes, j, st.id[j])) - 1
      /\ ~(r.idx = j /\ r.ID = st.id[j]) => Own(C, j, st.id[j]) = Own(st.writes, j, st.id[j])
  BY <1>c, <1>1, <1>2, OwnTaken
<1>4. u.num_write_reqs[j] = IF j = r.idx THEN st.num_write_reqs[j] - 1 ELSE st.num_write_reqs[j]
  OBVIOUS
<1> QED
  BY <1>1, <1>2, <1>3, <1>4

\* No write of the client that has the slot is in flight when none is counted.
LEMMA NoneCounted ==
  ASSUME NEW st, IsABag(st.writes), Counted(st), NEW i \in Slots, st.num_write_reqs[i] = 0,
         NEW r \in BagToSet(st.writes), r.idx = i
  PROVE  r.ID # st.id[i]
<1>1. OwnWrites(st, i) = {}
  BY FS_EmptySet DEF Counted
<1>2. 1 \in 1 .. st.writes[r]
  BY DEF IsABag, BagToSet
<1>3. <<r, 1>> \in Copies(st.writes)
  BY <1>2, CopiesOf
<1> QED
  BY <1>1, <1>3 DEF OwnWrites

-----------------------------------------------------------------------------
(* The operators on the state record.                                      *)

\* What leaves the counts and the IDs alone.
LEMMA CoreGood ==
  ASSUME NEW n, NEW st, Good(st, n), NEW u, Basic(u), Core(u, st)
  PROVE  Good(u, n)
<1>1. IdsGrow(u, n)
  BY DEF Good, Counts, IdsGrow, Core
<1>2. Counted(u)
  BY DEF Good, Counts, Counted, OwnWrites, Core
<1>3. SlotZero(u)
  BY DEF Good, Counts, SlotZero, Target, Core
<1> QED
  BY <1>1, <1>2, <1>3 DEF Good, Counts

LEMMA HandledGood ==
  ASSUME NEW n, NEW st, Good(st, n), NEW r, NEW u, u = Handled(st, r)
  PROVE  Good(u, n) /\ Core(u, st)
<1>1. Basic(u) /\ Core(u, st)
  BY HandledBasic DEF Good
<1> QED
  BY <1>1, CoreGood

LEMMA KillGood ==
  ASSUME NEW n, NEW st, Good(st, n), NEW i \in Slots, NEW u, u = kill_client(st, i)
  PROVE  Good(u, n) /\ Core(u, st)
<1>1. Basic(u) /\ Core(u, st)
  BY KillBasic DEF Good
<1> QED
  BY <1>1, CoreGood

LEMMA QueueGood ==
  ASSUME NEW n, NEW st, Good(st, n), NEW i \in Slots, NEW q \in Seq(Conns),
         NEW u, u = [st EXCEPT !.send_data[i] = q]
  PROVE  Good(u, n) /\ Core(u, st)
<1>1. Basic(u) /\ Core(u, st)
  BY QueueBasic DEF Good
<1> QED
  BY <1>1, CoreGood

LEMMA IdleGood ==
  ASSUME NEW n, NEW st, Good(st, n), NEW i \in Slots, NEW b \in BOOLEAN,
         NEW u, u = [st EXCEPT !.read_req_active[i] = b]
  PROVE  Good(u, n) /\ Core(u, st)
<1>1. Basic(u) /\ Core(u, st)
  BY IdleBasic DEF Good
<1> QED
  BY <1>1, CoreGood

\* A descriptor that is closed or of a file is on no connection.
LEMMA FdGood ==
  ASSUME NEW n, NEW st, Good(st, n), NEW d \in Fds, NEW v \in {None, File},
         NEW u, u = [st EXCEPT !.fds[d] = v]
  PROVE  Good(u, n) /\ u.size = st.size
<1>1. Basic(u) /\ u.size = st.size
  BY FdBasic DEF Good
<1>2. /\ u.id = st.id /\ u.owner = st.owner /\ u.reads = st.reads /\ u.writes = st.writes
      /\ u.sockfd = st.sockfd /\ u.num_write_reqs = st.num_write_reqs
      /\ u.freed_indexes = st.freed_indexes /\ u.fds = [st.fds EXCEPT ![d] = v]
  BY DEF Good, Basic, Typed, Fields
<1>3. IdsGrow(u, n)
  BY <1>1, <1>2 DEF Good, Counts, IdsGrow
<1>4. Counted(u)
  BY <1>2 DEF Good, Counts, Counted, OwnWrites
<1>5. Target(st, 0) = None => Target(u, 0) = None
  BY <1>2 DEF Good, Basic, Typed, Target, None, File
<1>6. SlotZero(u)
  BY <1>2, <1>5 DEF Good, Counts, SlotZero
<1> QED
  BY <1>1, <1>3, <1>4, <1>6 DEF Good, Counts

\* close_connection: when slot 0 is freed, no write of its client is in flight.
LEMMA CloseGood ==
  ASSUME NEW n, NEW st, Good(st, n), NEW i \in Slots, i < st.size,
         NEW u, u = close_connection(st, i)
  PROVE  Good(u, n) /\ u.size = st.size
<1>1. Basic(u) /\ u.size = st.size
  BY CloseBasic DEF Good
<1>2. CASE st.num_write_reqs[i] # 0
  BY <1>2 DEF close_connection
<1>3. CASE st.num_write_reqs[i] = 0
  <2>1. /\ u.id = st.id /\ u.owner = st.owner /\ u.reads = st.reads /\ u.writes = st.writes
        /\ u.sockfd = st.sockfd /\ u.num_write_reqs = st.num_write_reqs
        /\ u.freed_indexes = st.freed_indexes \cup {i}
        /\ u.fds = [d \in Fds |-> IF d = st.sockfd[i] THEN None ELSE st.fds[d]]
    BY <1>3 DEF Good, Basic, Typed, Fields, close_connection
  <2>2. IdsGrow(u, n)
    BY <1>1, <2>1 DEF Good, Counts, IdsGrow
  <2>3. Counted(u)
    BY <2>1 DEF Good, Counts, Counted, OwnWrites
  <2>4. Target(st, 0) = None \/ i = 0 => Target(u, 0) = None
    BY <2>1 DEF Good, Basic, Typed, Target, None, File
  <2>5. i = 0 => \A r \in BagToSet(st.writes) : r.idx = 0 => r.conn = None
    <3> SUFFICES ASSUME i = 0, NEW r \in BagToSet(st.writes), r.idx = 0
                 PROVE  r.conn = None
      OBVIOUS
    <3>1. IsABag(st.writes) /\ Counted(st)
      BY DEF Good, Basic, Typed, Counts
    <3>4. r.ID # st.id[0]
      BY <1>3, <3>1, NoneCounted
    <3> QED
      BY <3>4 DEF Good, Counts, SlotZero
  <2>6. SlotZero(u)
    BY <2>1, <2>4, <2>5 DEF Good, Counts, SlotZero
  <2> QED
    BY <1>1, <2>2, <2>3, <2>6 DEF Good, Counts
<1> QED
  BY <1>2, <1>3

\* A READ request is no longer in flight.
LEMMA ReadTakenGood ==
  ASSUME NEW n, NEW st, Good(st, n), NEW r \in BagToSet(st.reads),
         NEW u, u = [st EXCEPT !.reads = @ (-) SetToBag({r})]
  PROVE  Good(u, n) /\ u.size = st.size
<1>1. Basic(u) /\ u.size = st.size
  BY ReadTakenBasic DEF Good
<1> DEFINE C == st.reads (-) SetToBag({r})
<1>2. BagToSet(C) \subseteq BagToSet(st.reads)
  <2>1. IsABag(st.reads)
    BY DEF Good, Basic, Typed
  <2> QED
    BY <2>1, BagTaken
<1>3. u = [st EXCEPT !.reads = C]
  OBVIOUS
<1> HIDE DEF C
<1>4. /\ u.id = st.id /\ u.owner = st.owner /\ u.reads = C /\ u.writes = st.writes
      /\ u.sockfd = st.sockfd /\ u.num_write_reqs = st.num_write_reqs
      /\ u.freed_indexes = st.freed_indexes /\ u.fds = st.fds
  BY <1>3 DEF Good, Basic, Typed, Fields
<1>5. IdsGrow(u, n)
  BY <1>1, <1>2, <1>4 DEF Good, Counts, IdsGrow
<1>6. Counted(u)
  BY <1>4 DEF Good, Counts, Counted, OwnWrites
<1>7. SlotZero(u)
  BY <1>4 DEF Good, Counts, SlotZero, Target
<1> QED
  BY <1>1, <1>5, <1>6, <1>7 DEF Good, Counts

\* add_read_req: the request has the ID of the slot.
LEMMA AddReadGood ==
  ASSUME NEW n, NEW st, Good(st, n), NEW i \in Slots, i < st.size,
         NEW u, u = add_read_req(st, i)
  PROVE  Good(u, n) /\ u.size = st.size
<1>1. Basic(u) /\ u.size = st.size
  BY AddReadBasic DEF Good
<1> DEFINE r == Request(st, i)
           C == st.reads (+) SetToBag({r})
<1>2. r.idx = i /\ r.ID = st.id[i]
  BY DEF Request
<1>3. BagToSet(C) = BagToSet(st.reads) \cup {r}
  <2>1. IsABag(st.reads)
    BY DEF Good, Basic, Typed
  <2> QED
    BY <2>1, BagAddProps
<1>4. CASE st.read_req_active[i]
  BY <1>4 DEF add_read_req
<1>5. CASE ~st.read_req_active[i]
  <2>1. u = [st EXCEPT !.reads = C, !.read_req_active[i] = TRUE]
    BY <1>5 DEF add_read_req
  <2> HIDE DEF C, r
  <2>2. /\ u.id = st.id /\ u.owner = st.owner /\ u.reads = C /\ u.writes = st.writes
        /\ u.sockfd = st.sockfd /\ u.num_write_reqs = st.num_write_reqs
        /\ u.freed_indexes = st.freed_indexes /\ u.fds = st.fds
    BY <2>1 DEF Good, Basic, Typed, Fields
  <2>3. IdsGrow(u, n)
    <3>1. st.id[i] <= st.id[i]
      BY TcpAssumption DEF Good, Basic, Typed, TcpAssumption
    <3> QED
      BY <1>1, <1>2, <1>3, <2>2, <3>1 DEF Good, Counts, IdsGrow
  <2>4. Counted(u)
    BY <2>2 DEF Good, Counts, Counted, OwnWrites
  <2>5. SlotZero(u)
    BY <2>2 DEF Good, Counts, SlotZero, Target
  <2> QED
    BY <1>1, <2>3, <2>4, <2>5 DEF Good, Counts
<1> QED
  BY <1>4, <1>5

\* add_write_req: the request is counted for the client that has the slot.
LEMMA AddWriteGood ==
  ASSUME NEW n, NEW st, Good(st, n), NEW i \in Slots, i < st.size,
         NEW u, u = add_write_req(st, i)
  PROVE  Good(u, n) /\ u.size = st.size
<1>1. Basic(u) /\ u.size = st.size
  BY AddWriteBasic DEF Good
<1> DEFINE r == Request(st, i)
           C == st.writes (+) SetToBag({r})
<1>2. r.idx = i /\ r.ID = st.id[i] /\ r.conn = Target(st, i)
  BY DEF Request
<1>b. IsABag(st.writes)
  BY DEF Good, Basic, Typed
<1>3. BagToSet(C) = BagToSet(st.writes) \cup {r}
  BY <1>b, BagAddProps
<1>4. /\ u = [st EXCEPT !.writes = C, !.num_write_reqs[i] = @ + 1]
      /\ C = st.writes (+) SetToBag({r})
  BY DEF add_write_req
<1> HIDE DEF C, r
<1>5. /\ u.id = st.id /\ u.owner = st.owner /\ u.reads = st.reads /\ u.writes = C
      /\ u.sockfd = st.sockfd /\ u.num_write_reqs = [st.num_write_reqs EXCEPT ![i] = @ + 1]
      /\ u.freed_indexes = st.freed_indexes /\ u.fds = st.fds
  BY <1>4 DEF Good, Basic, Typed, Fields
<1>6. IdsGrow(u, n)
  <2>1. st.id[i] <= st.id[i]
    BY TcpAssumption DEF Good, Basic, Typed, TcpAssumption
  <2> QED
    BY <1>1, <1>2, <1>3, <1>5, <2>1 DEF Good, Counts, IdsGrow
<1>7. Counted(u)
  <2>1. st.num_write_reqs \in [Slots -> Int] /\ Counted(st)
    BY DEF Good, Basic, Typed, Counts
  <2>2. /\ u.id = st.id /\ u.writes = st.writes (+) SetToBag({r})
        /\ u.num_write_reqs = [st.num_write_reqs EXCEPT ![i] = @ + 1]
    BY <1>4, <1>5
  <2> QED
    BY <1>2, <1>b, <2>1, <2>2, CountedAdded
<1>8. SlotZero(u)
  <2>1. Target(u, 0) = Target(st, 0)
    BY <1>5 DEF Target
  <2> QED
    BY <1>2, <1>3, <1>5, <2>1 DEF Good, Counts, SlotZero
<1> QED
  BY <1>1, <1>6, <1>7, <1>8 DEF Good, Counts

\* A WRITE request of a client that was replaced is no longer in flight, which nothing counts.
LEMMA OtherTakenGood ==
  ASSUME NEW n, NEW st, Good(st, n), NEW r \in BagToSet(st.writes), r.ID # st.id[r.idx],
         NEW u, u = [st EXCEPT !.writes = @ (-) SetToBag({r})]
  PROVE  Good(u, n) /\ u.size = st.size
<1>1. Basic(u) /\ u.size = st.size
  BY WriteTakenBasic DEF Good
<1> DEFINE C == st.writes (-) SetToBag({r})
<1>b. IsABag(st.writes)
  BY DEF Good, Basic, Typed
<1>2. BagToSet(C) \subseteq BagToSet(st.writes)
  BY <1>b, BagTaken
<1>3. u = [st EXCEPT !.writes = C] /\ C = st.writes (-) SetToBag({r})
  OBVIOUS
<1> HIDE DEF C
<1>4. /\ u.id = st.id /\ u.owner = st.owner /\ u.reads = st.reads /\ u.writes = C
      /\ u.sockfd = st.sockfd /\ u.num_write_reqs = st.num_write_reqs
      /\ u.freed_indexes = st.freed_indexes /\ u.fds = st.fds
  BY <1>3 DEF Good, Basic, Typed, Fields
<1>5. IdsGrow(u, n)
  BY <1>1, <1>2, <1>4 DEF Good, Counts, IdsGrow
<1>6. Counted(u)
  <2> SUFFICES ASSUME NEW j \in Slots
               PROVE  /\ IsFiniteSet(OwnWrites(u, j))
                      /\ u.num_write_reqs[j] = Cardinality(OwnWrites(u, j))
    BY DEF Counted
  <2>1. IsFiniteSet(OwnWrites(st, j)) /\ st.num_write_reqs[j] = Cardinality(OwnWrites(st, j))
    BY DEF Good, Counts, Counted
  <2>2. /\ OwnWrites(st, j) = Own(st.writes, j, st.id[j])
        /\ OwnWrites(u, j) = Own(C, j, st.id[j])
    BY <1>4, OwnIs
  <2>3. Own(C, j, st.id[j]) = Own(st.writes, j, st.id[j])
    BY <1>3, <1>b, <2>1, <2>2, OwnTaken
  <2> QED
    BY <1>4, <2>1, <2>2, <2>3
<1>7. SlotZero(u)
  <2>1. Target(u, 0) = Target(st, 0)
    BY <1>4 DEF Target
  <2> QED
    BY <1>2, <1>4, <2>1 DEF Good, Counts, SlotZero
<1> QED
  BY <1>1, <1>5, <1>6, <1>7 DEF Good, Counts

\* A WRITE request of the client that has the slot is no longer in flight, and is counted.
LEMMA OwnTakenGood ==
  ASSUME NEW n, NEW st, Good(st, n), NEW r \in BagToSet(st.writes), r.ID = st.id[r.idx],
         NEW v, v = [st EXCEPT !.writes = @ (-) SetToBag({r})],
         NEW u, u = [v EXCEPT !.num_write_reqs[r.idx] = @ - 1], Basic(u), u.size = st.size
  PROVE  Good(u, n)
<1> DEFINE C == st.writes (-) SetToBag({r})
           i == r.idx
<1>i. i \in Slots
  BY DEF Good, Basic, Typed, Requests
<1>b. IsABag(st.writes)
  BY DEF Good, Basic, Typed
<1>2. BagToSet(C) \subseteq BagToSet(st.writes)
  BY <1>b, BagTaken
<1>3. v = [st EXCEPT !.writes = C] /\ C = st.writes (-) SetToBag({r})
  OBVIOUS
<1> HIDE DEF C, i
<1>4. /\ v.id = st.id /\ v.owner = st.owner /\ v.reads = st.reads /\ v.writes = C
      /\ v.sockfd = st.sockfd /\ v.num_write_reqs = st.num_write_reqs
      /\ v.freed_indexes = st.freed_indexes /\ v.fds = st.fds /\ DOMAIN v = Fields
      /\ v.send_data = st.send_data
  BY <1>3 DEF Good, Basic, Typed, Fields
<1>5. /\ u.id = v.id /\ u.owner = v.owner /\ u.reads = v.reads /\ u.writes = v.writes
      /\ u.sockfd = v.sockfd /\ u.num_write_reqs = [v.num_write_reqs EXCEPT ![i] = @ - 1]
      /\ u.freed_indexes = v.freed_indexes /\ u.fds = v.fds /\ u.send_data = v.send_data
  BY <1>4 DEF Fields, i
<1>6. IdsGrow(u, n)
  BY <1>2, <1>4, <1>5 DEF Good, Counts, IdsGrow
<1>7. Counted(u)
  <2>1. st.num_write_reqs \in [Slots -> Int] /\ Counted(st)
    BY DEF Good, Basic, Typed, Counts
  <2>2. /\ u.id = st.id /\ u.writes = st.writes (-) SetToBag({r})
        /\ u.num_write_reqs = [st.num_write_reqs EXCEPT ![r.idx] = @ - 1]
    BY <1>3, <1>4, <1>5 DEF i
  <2>3. r.idx \in Slots
    BY <1>i DEF i
  <2> QED
    BY <1>b, <2>1, <2>2, <2>3, CountedTaken
<1>8. SlotZero(u)
  <2>1. Target(u, 0) = Target(st, 0)
    BY <1>4, <1>5 DEF Target
  <2>2. u.writes = C /\ u.id = st.id /\ u.freed_indexes = st.freed_indexes
    BY <1>4, <1>5
  <2>3. SlotZero(st)
    BY DEF Good, Counts
  <2> QED
    BY <1>2, <2>1, <2>2, <2>3, Zenon DEF SlotZero
<1> QED
  BY <1>4, <1>5, <1>6, <1>7, <1>8 DEF Good, Counts

LEMMA WriteConnectionGood ==
  ASSUME NEW n, NEW st, Good(st, n), NEW i \in Slots, i < st.size, NEW k \in Conns,
         NEW u, u = write_connection(st, i, k)
  PROVE  Good(u, n) /\ u.size = st.size
<1> DEFINE v == [st EXCEPT !.send_data[i] = Append(@, k)]
<1>1. Append(st.send_data[i], k) \in Seq(Conns)
  BY DEF Good, Basic, Typed
<1>2. Good(v, n) /\ Core(v, st)
  BY <1>1, QueueGood
<1>3. v.size = st.size
  BY <1>2 DEF Core
<1>4. u = IF Len(v.send_data[i]) = 1 THEN add_write_req(v, i) ELSE v
  BY DEF write_connection
<1> HIDE DEF v
<1> QED
  BY <1>2, <1>3, <1>4, AddWriteGood

LEMMA CloseWebGood ==
  ASSUME NEW n, NEW st, Good(st, n), NEW i \in Slots, i < st.size,
         NEW u, u = close_web_connection(st, i)
  PROVE  Good(u, n)
<1> DEFINE v == kill_client(st, i)
<1>1. Good(v, n) /\ v.size = st.size
  BY KillGood DEF Core
<1> HIDE DEF v
<1> QED
  BY <1>1, CloseGood DEF close_web_connection, v

LEMMA CloseLoopGood ==
  ASSUME NEW n, NEW st, Good(st, n), NEW i \in Slots, i < st.size,
         NEW u, u = CloseLoop(st, i)
  PROVE  Good(u, n)
<1> DEFINE v == kill_client(st, i)
           w == [v EXCEPT !.send_data[i] = <<>>]
<1>1. Good(v, n) /\ v.size = st.size
  BY KillGood DEF Core
<1>2. u = close_connection(w, i)
  BY DEF CloseLoop
<1> HIDE DEF v
<1>3. Good(w, n) /\ Core(w, v)
  <2>1. <<>> \in Seq(Conns)
    OBVIOUS
  <2> QED
    BY <1>1, <2>1, QueueGood
<1>4. w.size = st.size
  BY <1>1, <1>3 DEF Core
<1> HIDE DEF w
<1> QED
  BY <1>2, <1>3, <1>4, CloseGood

\* setup_client: what is in flight for the slot has a lower ID than the new client.  If it is
\* slot 0, no write in flight is on a connection; if it is another, slot 0 is in use.
LEMMA SetupCounts ==
  ASSUME NEW n \in Nat, NEW st, Good(st, n), NEW i \in Slots,
         \/ i \in st.freed_indexes /\ \A j \in st.freed_indexes : i <= j
         \/ i = st.size /\ st.freed_indexes = {},
         NEW k \in Conns \cup {None}, NEW d \in Fds \cup {0}, NEW z \in -1 .. IdRange - 1,
         i < st.size => z = st.id[i] + 1,
         i = st.size => z = -1,
         NEW u, SetUp(st, i, k, d, z, u)
  PROVE  Counts(u, n + 1)
<1> USE DEF SetUp
<1>t. /\ st.size \in Nat /\ i \in Nat /\ i <= st.size /\ IdRange \in Nat
      /\ \A j \in Slots : j \in Nat /\ st.id[j] \in Int
  <2>1. st.size \in 0 .. MaxSlots /\ MaxSlots \in Nat /\ i \in 0 .. MaxSlots - 1
    BY TcpAssumption DEF Good, Basic, Typed, Slots, TcpAssumption
  <2>2. i \in st.freed_indexes => i \in 0 .. st.size - 1
    BY DEF Good, Basic, Partitioned
  <2>3. \A j \in Slots : j \in Nat /\ st.id[j] \in Int
    BY TcpAssumption DEF Good, Basic, Typed, Slots, TcpAssumption
  <2> QED
    BY <2>1, <2>2, <2>3, TcpAssumption DEF TcpAssumption
<1>1. \A j \in Slots : /\ u.id[j] = (IF j = i THEN z ELSE st.id[j])
                       /\ u.owner[j] = (IF j = i THEN k ELSE st.owner[j])
                       /\ u.num_write_reqs[j] = (IF j = i THEN 0 ELSE st.num_write_reqs[j])
  BY DEF Good, Basic, Typed
<1>2. \A r \in BagToSet(st.reads) \cup BagToSet(st.writes) :
        /\ r.idx \in Slots /\ r.ID \in Int /\ r.idx < st.size
        /\ r.idx = i => r.ID < z
  <2> TAKE r \in BagToSet(st.reads) \cup BagToSet(st.writes)
  <2>1. r.idx \in Slots /\ r.ID \in -1 .. IdRange - 1 /\ r.idx < st.size
    BY DEF Good, Basic, Typed, Requests, InSize
  <2>2. r.ID <= st.id[r.idx]
    BY DEF Good, Counts, IdsGrow
  <2> QED
    BY <1>t, <2>1, <2>2
<1>3. IdsGrow(u, n + 1)
  <2>1. ASSUME NEW j \in Slots, j < u.size
        PROVE  u.id[j] + 2 <= n + 1
    <3>1. j < st.size => st.id[j] + 2 <= n
      BY DEF Good, Counts, IdsGrow
    <3> QED
      BY <1>t, <1>1, <2>1, <3>1
  <2>2. ASSUME NEW r \in BagToSet(u.reads) \cup BagToSet(u.writes)
        PROVE  r.ID <= u.id[r.idx]
    <3>1. r \in BagToSet(st.reads) \cup BagToSet(st.writes)
      OBVIOUS
    <3>2. r.ID <= st.id[r.idx]
      BY <3>1 DEF Good, Counts, IdsGrow
    <3> QED
      BY <1>1, <1>2, <3>1, <3>2
  <2> QED
    BY <2>1, <2>2 DEF IdsGrow
<1>4. Counted(u)
  <2> SUFFICES ASSUME NEW j \in Slots
               PROVE  /\ IsFiniteSet(OwnWrites(u, j))
                      /\ u.num_write_reqs[j] = Cardinality(OwnWrites(u, j))
    BY DEF Counted
  <2>1. CASE j # i
    <3>1. OwnWrites(u, j) = OwnWrites(st, j)
      BY <1>1, <2>1 DEF OwnWrites
    <3> QED
      BY <1>1, <2>1, <3>1 DEF Good, Counts, Counted
  <2>2. CASE j = i
    <3>1. ASSUME NEW w \in OwnWrites(u, j)
          PROVE  FALSE
      <4>1. w \in Copies(st.writes) /\ w[1].idx = i /\ w[1].ID = z
        BY <1>1, <2>2, <3>1 DEF OwnWrites
      <4>2. PICK r \in BagToSet(st.writes) : w[1] = r
        BY <4>1 DEF Copies
      <4>3. r.ID < z /\ r.ID = z /\ r.ID \in Int
        BY <1>2, <4>1, <4>2
      <4> QED
        BY <4>3
    <3>2. OwnWrites(u, j) = {}
      BY <3>1
    <3> QED
      BY <1>1, <2>2, <3>2, FS_EmptySet
  <2> QED
    BY <2>1, <2>2
<1>5. SlotZero(u)
  <2>0. 0 \in Slots
    BY TcpAssumption DEF TcpAssumption, Slots
  <2>1. 0 \notin u.freed_indexes
    <3>1. 0 \in st.freed_indexes => i = 0
      BY <1>t
    <3> QED
      BY <3>1
  <2>2. ASSUME NEW r \in BagToSet(u.writes), r.idx = 0, r.ID # u.id[0]
        PROVE  r.conn = None
    <3>1. CASE i = 0
      <4>1. 0 < st.size
        BY <1>2, <2>2
      <4>2. 0 \in st.freed_indexes
        BY <1>t, <3>1, <4>1
      <4> QED
        BY <2>2, <4>2 DEF Good, Counts, SlotZero
    <3>2. CASE i # 0
      <4>1. u.id[0] = st.id[0]
        BY <1>1, <2>0, <3>2
      <4> QED
        BY <2>2, <4>1 DEF Good, Counts, SlotZero
    <3> QED
      BY <3>1, <3>2
  <2> QED
    BY <2>1, <2>2 DEF SlotZero
<1> QED
  BY <1>3, <1>4, <1>5 DEF Counts

LEMMA SetupGood ==
  ASSUME MaxConns <= IdRange + 1,
         NEW n \in Nat, n < MaxConns, NEW st, Good(st, n), NEW i, i = NewSlot(st), i < MaxSlots,
         NEW k \in Conns \cup {None}, NEW d \in Fds \cup {0},
         NEW u, u = [setup_client(st, i, k, d) EXCEPT !.active_connections = @ \cup {i}]
  PROVE  Good(u, n + 1) /\ i < u.size /\ i \in Slots
<1> DEFINE z == new_id(st, i)
<1>1. /\ i \in Slots
      /\ \/ i \in st.freed_indexes /\ \A j \in st.freed_indexes : i <= j
         \/ i = st.size /\ st.freed_indexes = {}
  BY NewSlotFree DEF Good
<1>2. z \in -1 .. IdRange - 1
  BY <1>1, NewIdType DEF Good, Basic
<1>3. SetUp(st, i, k, d, z, u)
  <2>1. DOMAIN st = Fields
    BY DEF Good, Basic, Typed
  <2> QED
    BY <2>1, SetupFields, Zenon
<1>4. Basic(u) /\ i < u.size
  BY SetupBasic DEF Good
<1>5. i < st.size => z = st.id[i] + 1
  <2> SUFFICES ASSUME i < st.size
               PROVE  z = st.id[i] + 1
    OBVIOUS
  <2>1. i \in st.freed_indexes
    BY <1>1, TcpAssumption DEF Good, Basic, Typed, Slots, TcpAssumption
  <2>2. st.id[i] \in -1 .. IdRange - 1 /\ st.id[i] + 2 <= n
    BY <1>1 DEF Good, Basic, Typed, Counts, IdsGrow
  <2>3. st.id[i] + 1 \in Nat /\ st.id[i] + 1 < IdRange /\ IdRange \in Nat \ {0}
    BY <2>2, TcpAssumption DEF TcpAssumption
  <2>4. (st.id[i] + 1) % IdRange = st.id[i] + 1
    BY <2>3, ModSmall
  <2> QED
    BY <2>1, <2>4 DEF new_id
<1>6. i = st.size => z = -1
  <2>1. i = st.size => i \notin st.freed_indexes
    <3>1. st.freed_indexes \subseteq 0 .. st.size - 1
      BY DEF Good, Basic, Partitioned
    <3>2. st.size \in Int
      BY TcpAssumption DEF Good, Basic, Typed, TcpAssumption
    <3> QED
      BY <3>1, <3>2
  <2> QED
    BY <2>1 DEF new_id
<1> HIDE DEF z
<1>7. Counts(u, n + 1)
  BY <1>1, <1>2, <1>3, <1>5, <1>6, SetupCounts, Zenon
<1> QED
  BY <1>1, <1>4, <1>7 DEF Good

-----------------------------------------------------------------------------
(* The callbacks and the handlers.                                         *)

LEMMA SendFileGood ==
  ASSUME NEW n, NEW st, Good(st, n), NEW i \in Slots, i < st.size, NEW k \in Conns,
         NEW u \in send_file_request(st, i, k)
  PROVE  Good(u, n) /\ u.size = st.size
<1>1. CASE FreeFds(st) = {}
  BY <1>1 DEF send_file_request
<1>2. CASE FreeFds(st) # {}
  <2> DEFINE d == Min(FreeFds(st))
             v == [st EXCEPT !.fds[d] = File]
             r == [idx |-> i, conn |-> k, fd |-> d, turn |-> st.turn[i]]
  <2>1. d \in Fds
    BY <1>2, FreeFd
  <2>2. u = write_connection(v, i, k) \/ u = [v EXCEPT !.files = @ (+) SetToBag({r})]
    BY <1>2 DEF send_file_request
  <2>3. r \in ReadFiles /\ r.idx = i /\ r.turn <= v.turn[r.idx]
    BY <2>1 DEF ReadFiles, Good, Basic, Typed, Fields
  <2> HIDE DEF d, r
  <2>4. Good(v, n) /\ v.size = st.size
    BY <2>1, FdGood
  <2> HIDE DEF v
  <2>5. CASE u = write_connection(v, i, k)
    BY <2>4, <2>5, WriteConnectionGood
  <2>6. CASE u = [v EXCEPT !.files = @ (+) SetToBag({r})]
    <3>1. Basic(u) /\ Core(u, v)
      BY <2>3, <2>4, <2>6, FileAddedBasic DEF Good
    <3>2. Good(u, n)
      BY <2>4, <3>1, CoreGood
    <3> QED
      BY <2>4, <3>1, <3>2 DEF Core
  <2> QED
    BY <2>2, <2>5, <2>6
<1> QED
  BY <1>1, <1>2

LEMMA UpgradeGood ==
  ASSUME NEW n, NEW st, Good(st, n), NEW i \in Slots, i < st.size, NEW k \in Conns,
         NEW u \in Upgrade(st, i, k)
  PROVE  Good(u, n) /\ u.size = st.size
<1> DEFINE v == new_ws_client(st, i)
<1>1. NewWs(st) \in 0 .. MaxWs - 1 /\ u = write_connection(v, i, k)
  BY DEF Upgrade
<1>2. Basic(v) /\ Core(v, st)
  BY <1>1, NewWsBasic DEF Good
<1> HIDE DEF v
<1>3. Good(v, n) /\ v.size = st.size
  BY <1>2, CoreGood DEF Core
<1> QED
  BY <1>1, <1>3, WriteConnectionGood

LEMMA HttpGood ==
  ASSUME NEW n, NEW st, Good(st, n), NEW i \in Slots, i < st.size, NEW k \in Conns,
         NEW u \in HttpRequest(st, i, k)
  PROVE  Good(u, n)
<1>1. CASE u \in send_file_request(st, i, k)
  BY <1>1, SendFileGood
<1>2. CASE \E x \in get_process(st, i, k) : u = IF i \in x.active_ws THEN add_read_req(x, i) ELSE x
  <2>1. PICK x \in get_process(st, i, k) : u = IF i \in x.active_ws THEN add_read_req(x, i) ELSE x
    BY <1>2
  <2>2. Good(x, n) /\ x.size = st.size
    BY SendFileGood, UpgradeGood DEF get_process
  <2> QED
    BY <2>1, <2>2, AddReadGood
<1> QED
  BY <1>1, <1>2 DEF HttpRequest

LEMMA FramesGood ==
  ASSUME NEW n, NEW st, Good(st, n), NEW i \in Slots, i < st.size, NEW k \in Conns,
         st.ws_client_idx[i] # -1, NEW u \in Frames(st, i, k)
  PROVE  Good(u, n)
<1> DEFINE c == st.websocket_clients[st.ws_client_idx[i] + 1]
           v == [st EXCEPT !.active_ws = @ \ {c}]
           w == write_connection(st, c, k)
           x == write_connection(v, c, k)
<1>1. c \in Slots /\ c < st.size
  BY AnswerSlot DEF Good
<1>2. u = add_read_req(st, i) \/ u = add_read_req(w, i) \/ u = add_read_req(x, i)
  BY DEF Frames
<1> HIDE DEF c
<1>3. Basic(v) /\ Core(v, st)
  BY <1>1, ClosingBasic DEF Good
<1> HIDE DEF v
<1>4. Good(v, n) /\ v.size = st.size
  BY <1>3, CoreGood DEF Core
<1>5. Good(w, n) /\ w.size = st.size
  BY <1>1, WriteConnectionGood
<1>6. Good(x, n) /\ x.size = st.size
  BY <1>1, <1>4, WriteConnectionGood
<1> HIDE DEF w, x
<1> QED
  BY <1>2, <1>5, <1>6, AddReadGood

LEMMA ReadCbGood ==
  ASSUME NEW n, NEW st, Good(st, n), NEW i \in Slots, i < st.size, NEW k \in Conns,
         NEW u \in read_cb(st, i, k)
  PROVE  Good(u, n)
<1>1. CASE u \in HttpRequest(st, i, k)
  BY <1>1, HttpGood
<1>2. CASE u = close_web_connection(st, i)
  BY <1>2, CloseWebGood
<1>3. CASE st.ws_client_idx[i] # -1 /\ u \in Frames(st, i, k)
  BY <1>3, FramesGood
<1> QED
  BY <1>1, <1>2, <1>3 DEF read_cb

\* The inductive invariant.
RInv == Good(s, accepted) /\ accepted \in 0 .. MaxConns

LEMMA AcceptGood ==
  ASSUME MaxConns <= IdRange + 1, RInv, Accept
  PROVE  RInv'
<1> DEFINE i == NewSlot(s)
           k == IF FreeFds(s) = {} THEN None ELSE accepted + 1
           d == IF FreeFds(s) = {} THEN 0 ELSE Min(FreeFds(s))
           v == [setup_client(s, i, k, d) EXCEPT !.active_connections = @ \cup {i}]
<1>1. s' = add_read_req(v, i) /\ i < MaxSlots
  BY DEF Accept
<1>2. /\ accepted' = accepted + 1 /\ accepted \in Nat /\ accepted < MaxConns
      /\ accepted' \in 0 .. MaxConns /\ accepted + 1 \in Conns
  BY TcpAssumption DEF Accept, RInv, TcpAssumption, Conns
<1>3. k \in Conns \cup {None} /\ d \in Fds \cup {0}
  BY <1>2, FreeFd
<1>4. Good(v, accepted + 1) /\ i < v.size /\ i \in Slots
  <2> HIDE DEF k, d
  <2> QED
    BY <1>1, <1>2, <1>3, SetupGood DEF RInv
<1>5. Good(s', accepted + 1)
  <2> HIDE DEF v, i
  <2> QED
    BY <1>1, <1>4, AddReadGood
<1> QED
  BY <1>2, <1>5 DEF RInv

LEMMA ReadDoneGood ==
  ASSUME RInv, NEW r \in BagToSet(s.reads), ReadDone(r)
  PROVE  RInv'
<1> DEFINE h == Handled(s, r)
           u == [s EXCEPT !.reads = @ (-) SetToBag({r})]
           v == [h EXCEPT !.reads = @ (-) SetToBag({r})]
           w == [v EXCEPT !.read_req_active[r.idx] = FALSE]
<1>h. Good(h, accepted) /\ Core(h, s)
  BY HandledGood DEF RInv
<1>1. s' = u \/ s' \in read_cb(w, r.idx, r.conn)
  <2>1. v = Handled(u, r)
    BY HandledTaken DEF RInv, Good, Basic, Typed
  <2> QED
    BY <2>1 DEF ReadDone
<1>2. r.idx \in Slots /\ r.idx < s.size /\ r.conn \in Conns
  BY DEF ReadDone, RInv, Good, Basic, Typed, InSize, Requests, None
<1>u. Good(u, accepted)
  BY ReadTakenGood DEF RInv
<1>3. Good(v, accepted) /\ v.size = s.size
  <2>1. r \in BagToSet(h.reads) /\ h.size = s.size
    BY <1>h DEF Core
  <2>2. v = [h EXCEPT !.reads = @ (-) SetToBag({r})]
    OBVIOUS
  <2> HIDE DEF h, v
  <2>3. Good(v, accepted) /\ v.size = h.size
    BY <1>h, <2>1, <2>2, ReadTakenGood
  <2> QED
    BY <2>1, <2>3
<1> HIDE DEF u, v
<1>4. Good(w, accepted) /\ w.size = s.size
  <2>1. FALSE \in BOOLEAN
    OBVIOUS
  <2>2. Good(w, accepted) /\ Core(w, v)
    BY <1>2, <1>3, <2>1, IdleGood
  <2> QED
    BY <1>3, <2>2 DEF Core
<1> HIDE DEF w
<1>5. Good(s', accepted)
  BY <1>1, <1>2, <1>u, <1>4, ReadCbGood
<1> QED
  BY <1>5 DEF RInv, ReadDone

LEMMA ReadFailGood ==
  ASSUME RInv, NEW r \in BagToSet(s.reads), ReadFail(r)
  PROVE  RInv'
<1> DEFINE v == [s EXCEPT !.reads = @ (-) SetToBag({r})]
           h == Handled(v, r)
<1>1. s' = v \/ s' = CloseLoop(h, r.idx)
  BY DEF ReadFail
<1>2. r.idx \in Slots /\ r.idx < s.size
  BY DEF RInv, Good, Basic, Typed, InSize, Requests
<1>3. Good(v, accepted) /\ v.size = s.size
  BY ReadTakenGood DEF RInv
<1> HIDE DEF v
<1>h. Good(h, accepted) /\ h.size = s.size
  BY <1>3, HandledGood DEF Core
<1> HIDE DEF h
<1>4. Good(s', accepted)
  BY <1>1, <1>2, <1>3, <1>h, CloseLoopGood
<1> QED
  BY <1>4 DEF RInv, ReadFail

\* A write that the filter lets through is of the client that has the slot, also in slot 0.
LEMMA NotStaleOwn ==
  ASSUME RInv, NEW r \in BagToSet(s.writes), r.conn # None, ~Stale(s, r)
  PROVE  r.ID = s.id[r.idx]
<1>1. r.idx \in Nat
  BY DEF RInv, Good, Basic, Typed, Requests, Slots
<1>2. CASE r.idx = 0
  BY <1>2 DEF RInv, Good, Counts, SlotZero
<1>3. CASE r.idx > 0
  BY <1>3 DEF Stale
<1> QED
  BY <1>1, <1>2, <1>3

LEMMA WrittenGood ==
  ASSUME NEW n, NEW st, NEW r \in Requests, r.idx < st.size,
         r.idx \in st.active_connections /\ st.id[r.idx] = r.ID => st.send_data[r.idx] # <<>>,
         NEW v, v = [st EXCEPT !.num_write_reqs[r.idx] = @ - 1],
         Good(v, n), v.size = st.size, v.send_data = st.send_data,
         NEW u, u = Written(st, r)
  PROVE  Good(u, n)
<1> DEFINE i   == r.idx
           own == i \in st.active_connections /\ st.id[i] = r.ID
           w   == IF own THEN [v EXCEPT !.send_data[i] = Tail(@)] ELSE v
           x   == IF own /\ w.send_data[i] # <<>> THEN add_write_req(w, i) ELSE w
<1>1. u = write_cb(x, i)
  BY DEF Written
<1>2. i \in Slots
  BY DEF Requests
<1>3. Good(w, n) /\ w.size = st.size
  <2>1. CASE own
    <3>1. Tail(v.send_data[i]) \in Seq(Conns)
      BY <1>2, <2>1 DEF Good, Basic, Typed
    <3>2. Good(w, n) /\ Core(w, v)
      BY <1>2, <2>1, <3>1, QueueGood
    <3> QED
      BY <3>2 DEF Core
  <2>2. CASE ~own
    BY <2>2
  <2> QED
    BY <2>1, <2>2
<1> HIDE DEF w
<1>4. Good(x, n) /\ x.size = st.size
  BY <1>2, <1>3, AddWriteGood
<1> HIDE DEF x
<1> QED
  BY <1>1, <1>2, <1>4, CloseWebGood DEF write_cb

LEMMA WriteDoneGood ==
  ASSUME RInv, NEW r \in BagToSet(s.writes), WriteDone(r)
  PROVE  RInv'
<1> DEFINE h == Handled(s, r)
           u == [s EXCEPT !.writes = @ (-) SetToBag({r})]
           v == [h EXCEPT !.writes = @ (-) SetToBag({r})]
           w == [v EXCEPT !.num_write_reqs[r.idx] = @ - 1]
<1>1. \/ s' = u /\ Stale(s, r)
      \/ s' = Written(v, r) /\ ~Stale(s, r) /\ ~NothingToPop(r)
  <2>1. v = Handled(u, r)
    BY HandledTaken DEF RInv, Good, Basic, Typed
  <2> QED
    BY <2>1 DEF WriteDone
<1>2. r \in Requests /\ r.idx < s.size /\ r.idx \in Slots
  BY DEF RInv, Good, Basic, Typed, InSize, Requests
<1>h. Good(h, accepted) /\ Core(h, s) /\ r \in BagToSet(h.writes)
  BY HandledGood DEF RInv, Core
<1>3. CASE s' = u /\ Stale(s, r)
  <2>1. r.ID # s.id[r.idx]
    BY <1>3 DEF Stale
  <2>2. Good(u, accepted)
    BY <2>1, OtherTakenGood DEF RInv
  <2> QED
    BY <1>3, <2>2 DEF RInv, WriteDone
<1>4. CASE s' = Written(v, r) /\ ~Stale(s, r) /\ ~NothingToPop(r)
  <2>1. r.ID = h.id[r.idx]
    BY <1>4, <1>h, NotStaleOwn DEF WriteDone, Core
  <2>7. /\ h.send_data = s.send_data /\ h.active_connections = s.active_connections
        /\ h.id = s.id /\ h.size = s.size
    BY DEF RInv, Good, Basic, Typed, Fields, Handled
  <2> HIDE DEF h
  <2>2. Basic(w) /\ w.size = v.size /\ v.size = s.size
    BY <1>2, <1>h, <2>7, WriteTakenCounted DEF Good
  <2>3. Good(w, accepted)
    BY <1>h, <2>1, <2>2, <2>7, OwnTakenGood
  <2>6. w.send_data = v.send_data
    BY <1>h DEF Good, Basic, Typed, Fields
  <2>4. /\ v.send_data = s.send_data
        /\ r.idx \in v.active_connections /\ v.id[r.idx] = r.ID => v.send_data[r.idx] # <<>>
    BY <1>4, <1>h, <2>7 DEF Good, Basic, Typed, Fields, NothingToPop
  <2> HIDE DEF v
  <2>5. Good(s', accepted)
    BY <1>2, <1>4, <2>2, <2>3, <2>4, <2>6, WrittenGood
  <2> QED
    BY <2>5 DEF RInv, WriteDone
<1> QED
  BY <1>1, <1>3, <1>4

LEMMA WriteFailGood ==
  ASSUME RInv, NEW r \in BagToSet(s.writes), WriteFail(r)
  PROVE  RInv'
<1> DEFINE h == Handled(s, r)
           u == [s EXCEPT !.writes = @ (-) SetToBag({r})]
           v == [h EXCEPT !.writes = @ (-) SetToBag({r})]
           w == [v EXCEPT !.num_write_reqs[r.idx] = @ - 1]
<1>1. \/ s' = u /\ s.id[r.idx] # r.ID
      \/ s' = w /\ s.id[r.idx] = r.ID
      \/ s' = CloseLoop(w, r.idx) /\ s.id[r.idx] = r.ID
  <2>1. v = Handled(u, r)
    BY HandledTaken DEF RInv, Good, Basic, Typed
  <2> QED
    BY <2>1 DEF WriteFail
<1>2. r.idx \in Slots /\ r.idx < s.size
  BY DEF RInv, Good, Basic, Typed, InSize, Requests
<1>h. /\ Good(h, accepted) /\ r \in BagToSet(h.writes)
      /\ h.size = s.size /\ h.id = s.id
  BY HandledGood DEF RInv, Core
<1>3. CASE s' = u /\ s.id[r.idx] # r.ID
  <2>1. Good(u, accepted)
    BY <1>3, OtherTakenGood DEF RInv
  <2> QED
    BY <1>3, <2>1 DEF RInv, WriteFail
<1>4. CASE (s' = w \/ s' = CloseLoop(w, r.idx)) /\ s.id[r.idx] = r.ID
  <2> HIDE DEF h
  <2>1. Basic(w) /\ w.size = v.size /\ v.size = s.size
    BY <1>2, <1>h, WriteTakenCounted DEF Good
  <2>2. Good(w, accepted)
    BY <1>4, <1>h, <2>1, OwnTakenGood
  <2> HIDE DEF v, w
  <2>3. Good(s', accepted)
    BY <1>2, <1>4, <2>1, <2>2, CloseLoopGood
  <2> QED
    BY <2>3 DEF RInv, WriteFail
<1> QED
  BY <1>1, <1>3, <1>4

LEMMA FileReadGood ==
  ASSUME RInv, NEW r \in BagToSet(s.files), FileRead(r)
  PROVE  RInv'
<1> DEFINE h == Handled(s, r)
           v == [h EXCEPT !.files = @ (-) SetToBag({r})]
           w == [v EXCEPT !.fds[r.fd] = None]
<1>h. Good(h, accepted) /\ Core(h, s)
  BY HandledGood DEF RInv
<1>f. h.files = s.files
  BY DEF Handled, RInv, Good, Basic, Typed, Fields
<1>1. s' = write_connection(w, r.idx, r.conn)
  <2>1. s' = write_connection([h EXCEPT !.files = @ (-) SetToBag({r}), !.fds[r.fd] = None], r.idx, r.conn)
    BY DEF FileRead
  <2> HIDE DEF h
  <2> QED
    BY <1>h, <2>1 DEF Good, Basic, Typed, Fields
<1>2. r.idx \in Slots /\ r.idx < s.size /\ r.conn \in Conns /\ r.fd \in Fds
  BY DEF RInv, Good, Basic, Typed, InSize, ReadFiles
<1> HIDE DEF h
<1>3. Basic(v) /\ Core(v, h)
  BY <1>h, <1>f, FileTakenBasic DEF Good
<1> HIDE DEF v
<1>4. Good(v, accepted) /\ v.size = s.size
  BY <1>3, <1>h, CoreGood DEF Core
<1>5. Good(w, accepted) /\ w.size = s.size
  BY <1>2, <1>4, FdGood
<1> HIDE DEF w
<1>6. Good(s', accepted)
  BY <1>1, <1>2, <1>5, WriteConnectionGood
<1> QED
  BY <1>6 DEF RInv, FileRead

LEMMA ReapGood ==
  ASSUME RInv, Reap
  PROVE  RInv'
<1>1. PICK i \in s.active_connections : s' = CloseLoop(CutAt(s, i), i)
  BY DEF Reap, CutAt
<1>2. i \in Slots /\ i < s.size
  BY TcpAssumption DEF RInv, Good, Basic, Typed, Partitioned, TcpAssumption
<1>c. Good(CutAt(s, i), accepted) /\ CutAt(s, i).size = s.size
  <2>1. Basic(CutAt(s, i)) /\ Core(CutAt(s, i), s)
    BY <1>2, CutBasic DEF RInv, Good
  <2> QED
    BY <2>1, CoreGood DEF RInv, Core
<1>3. Good(s', accepted)
  BY <1>1, <1>2, <1>c, CloseLoopGood
<1> QED
  BY <1>3 DEF RInv, Reap

LEMMA InitGood ==
  ASSUME Init
  PROVE  RInv
<1>1. Basic(s) /\ accepted \in 0 .. MaxConns
  BY InitBasic DEF BInv
<1>2. IsABag(EmptyBag) /\ BagToSet(EmptyBag) = {}
  BY DEF IsABag, EmptyBag, BagToSet, SetToBag
<1>3. IdsGrow(s, accepted)
  <2>1. s.size = 0 /\ BagToSet(s.reads) = {} /\ BagToSet(s.writes) = {}
    BY <1>2 DEF Init
  <2> QED
    BY <2>1 DEF IdsGrow, Slots
<1>4. Counted(s)
  <2>1. Copies(s.writes) = {}
    BY <1>2 DEF Init, Copies
  <2>2. \A i \in Slots : OwnWrites(s, i) = {} /\ s.num_write_reqs[i] = 0
    BY <2>1 DEF OwnWrites, Init
  <2> QED
    BY <2>2, FS_EmptySet DEF Counted
<1>5. SlotZero(s)
  BY <1>2 DEF Init, SlotZero
<1> QED
  BY <1>1, <1>3, <1>4, <1>5 DEF RInv, Good, Counts

LEMMA NextGood ==
  ASSUME MaxConns <= IdRange + 1, RInv, [Next]_vars
  PROVE  RInv'
<1>1. ASSUME NEW r \in BagToSet(s.reads), ReadDoneUndefined(r)
      PROVE  RInv'
  BY <1>1 DEF RInv, ReadDoneUndefined
<1>2. ASSUME NEW r \in BagToSet(s.writes), WriteDoneUndefined(r)
      PROVE  RInv'
  BY <1>2 DEF RInv, WriteDoneUndefined
<1>3. CASE UNCHANGED vars
  BY <1>3 DEF RInv, vars
<1> QED
  BY <1>1, <1>2, <1>3, AcceptGood, ReadDoneGood, ReadFailGood, WriteDoneGood, WriteFailGood,
     FileReadGood, ReapGood DEF Next

\* Until a slot has been used so often that its ID wraps, num_write_reqs is the number of writes
\* in flight of the client that has the slot, which is what close_connection waits for.
THEOREM WritesAlwaysCounted ==
  ASSUME MaxConns <= IdRange + 1
  PROVE  Spec => []WritesCounted
<1>1. RInv => WritesCounted
  BY DEF RInv, Good, Counts, Counted, WritesCounted
<1>2. Init => RInv
  BY InitGood
<1>3. RInv /\ [Next]_vars => RInv'
  BY NextGood
<1> QED
  BY <1>1, <1>2, <1>3, PTL DEF Spec

=============================================================================
