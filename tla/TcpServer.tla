------------------------------ MODULE TcpServer ------------------------------
(***************************************************************************)
(* One plain TCP server thread (server<NON_TLS>) and the callbacks of the  *)
(* web server on it: client slots, their IDs and descriptors, the io_uring *)
(* requests in flight, and how connections are closed.                     *)
(*                                                                         *)
(* Requests complete in any order and with any result the kernel can give. *)
(* A request holds on to the connection its descriptor named when it was   *)
(* submitted, also after close().  What peers send is reduced to what the  *)
(* web server makes of it.  A write that is continued after a partial      *)
(* result is one write.                                                    *)
(*                                                                         *)
(* s is one record, because handlers call several of its operations in a   *)
(* row; each operation is an operator on that record.                      *)
(***************************************************************************)
EXTENDS Integers, Sequences, FiniteSets, FiniteSetsExt, RequestBags

CONSTANTS
  MaxSlots,     \* bound: size of the clients vector
  MaxConns,     \* bound: connections accepted in a behaviour
  MaxFds,       \* size of the descriptor table
  MaxQueue,     \* bound: answers under way at which clients send no more
  MaxReads,     \* bound: READ requests in flight at which nobody connects
  IdRange,      \* client IDs loop every 100
  MaxWs         \* bound: size of the websocket_clients vector; 0 when peers ask for none

ASSUME TcpAssumption ==
  /\ MaxSlots \in Nat \ {0} /\ MaxConns \in Nat /\ MaxFds \in Nat /\ MaxQueue \in Nat /\ MaxReads \in Nat
  /\ IdRange \in Nat \ {0}
  /\ MaxWs \in Nat

Slots == 0 .. MaxSlots - 1
Conns == 1 .. MaxConns
Fds   == 1 .. MaxFds
None  == 0    \* no connection: a descriptor that is closed, or none
File  == -1   \* a descriptor of an open file

VARIABLES
  s,          \* the state of the server thread, see Init
  accepted,   \* connections accepted so far; connection k is the k-th
  undefined   \* front() and pop() met an empty send_data, or an index of -1 was used

vars == <<s, accepted, undefined>>

\* client<T>(): id is set by setup_client.  Ghosts: owner, the connection that was accepted
\* into the slot; turn, how many clients the slot has had; cut, the slots whose client had
\* send_data emptied by the timer in mid-write; late, whether a handler has acted on a
\* request of a client that was closed before.
Init ==
  /\ s = [size             |-> 0,    \* clients.size()
          id               |-> [i \in Slots |-> -1],
          owner            |-> [i \in Slots |-> None],
          turn             |-> [i \in Slots |-> 0],
          cut              |-> {},
          late             |-> FALSE,
          sockfd           |-> [i \in Slots |-> 0],
          send_data        |-> [i \in Slots |-> <<>>],   \* whom each element is for
          read_req_active  |-> [i \in Slots |-> FALSE],
          num_write_reqs   |-> [i \in Slots |-> 0],
          active_connections |-> {},
          freed_indexes    |-> {},
          ws_client_idx    |-> [i \in Slots |-> -1],     \* of the web server's tcp_clients
          websocket_clients |-> <<>>,      \* the client_idx of every websocket index
          freed_ws         |-> {},         \* freed_indexes of the web server
          all_ws           |-> {},         \* all_websocket_connections: websocket indexes
          active_ws        |-> {},         \* active_websocket_connections_client_idxs
          fds              |-> [d \in Fds |-> None],     \* the descriptor table
          reads            |-> EmptyBag,   \* READ requests in flight
          writes           |-> EmptyBag,   \* WRITE requests in flight
          files            |-> EmptyBag]   \* CUSTOM_READ requests in flight
  /\ accepted = 0
  /\ undefined = FALSE

-----------------------------------------------------------------------------
(* server_base and server<NON_TLS>.                                        *)

\* open() and accept() return the lowest free descriptor, or fail.
FreeFds(st) == {d \in Fds : st.fds[d] = None}

\* The connection a request on the slot's descriptor is about.
Target(st, i) ==
  IF st.sockfd[i] \in Fds /\ st.fds[st.sockfd[i]] # File THEN st.fds[st.sockfd[i]] ELSE None

\* turn, a ghost, tells which of the slot's clients submits it.
Request(st, i) ==
  [idx |-> i, ID |-> st.id[i], conn |-> Target(st, i), turn |-> st.turn[i]]

add_read_req(st, i) ==
  IF st.read_req_active[i] THEN st
  ELSE [st EXCEPT !.reads = @ (+) SetToBag({Request(st, i)}), !.read_req_active[i] = TRUE]

add_write_req(st, i) ==
  [st EXCEPT !.writes = @ (+) SetToBag({Request(st, i)}), !.num_write_reqs[i] = @ + 1]

\* Mutation of write_connection: every element is written at once.
write_connection_at_once(st, i, k) ==
  add_write_req([st EXCEPT !.send_data[i] = Append(@, k)], i)

\* write_connection: data meant for connection k; written if it is alone.
write_connection(st, i, k) ==
  LET st1 == [st EXCEPT !.send_data[i] = Append(@, k)]
  IN IF Len(st1.send_data[i]) = 1 THEN add_write_req(st1, i) ELSE st1

\* Mutation of close_connection: the index is freed although a write is in flight.
close_connection_always(st, i) ==
  [st EXCEPT !.active_connections = IF st.num_write_reqs[i] = 0 THEN @ \ {i} ELSE @,
             !.send_data[i] = <<>>,
             !.fds = [d \in Fds |-> IF d = st.sockfd[i] THEN None ELSE @[d]],
             !.freed_indexes = @ \cup {i}]

\* close_connection: nothing happens while a write is in flight.
close_connection(st, i) ==
  IF st.num_write_reqs[i] # 0 THEN st
  ELSE [st EXCEPT !.active_connections = @ \ {i},
                  !.send_data[i] = <<>>,
                  !.fds = [d \in Fds |-> IF d = st.sockfd[i] THEN None ELSE @[d]],
                  !.freed_indexes = @ \cup {i}]

\* Mutation of kill_client: the index is freed also when the websocket is closing or
\* was killed before.
kill_client_freed(st, i) ==
  [st EXCEPT !.all_ws = @ \ {st.ws_client_idx[i]},
             !.active_ws = @ \ {i},
             !.freed_ws = IF st.ws_client_idx[i] # -1 THEN @ \cup {st.ws_client_idx[i]} ELSE @]

\* kill_client: the index in tcp_clients is left there, and is used again if the client
\* is killed again.
kill_client(st, i) ==
  [st EXCEPT !.all_ws = @ \ {st.ws_client_idx[i]},
             !.active_ws = @ \ {i},
             !.freed_ws = IF i \in st.active_ws THEN @ \cup {st.ws_client_idx[i]} ELSE @]

\* web_server::close_connection.
close_web_connection(st, i) == close_connection(kill_client(st, i), i)

\* The close loops of start(): close_cb for every element of send_data, which is
\* popped, and close_connection.
CloseLoop(st, i) == close_connection([kill_client(st, i) EXCEPT !.send_data[i] = <<>>], i)

\* The index setup_client gives: the lowest free one, or a new one.
NewSlot(st) == IF st.freed_indexes # {} THEN Min(st.freed_indexes) ELSE st.size

\* Mutation of new_id: a reused slot keeps its ID.
new_id_kept(st, i) == st.id[i]

\* Mutation of new_id: IDs count down, and a remainder of C keeps its sign.
new_id_down(st, i) == IF i \in st.freed_indexes THEN -((1 - st.id[i]) % IdRange) ELSE -1

\* The ID of a slot that is used again; a new slot has -1.
new_id(st, i) == IF i \in st.freed_indexes THEN (st.id[i] + 1) % IdRange ELSE -1

\* setup_client and new_tcp_client: slot i for connection k on descriptor d, or for
\* none when accept() failed.
setup_client(st, i, k, d) ==
  [st EXCEPT !.size = IF i = @ THEN @ + 1 ELSE @,
             !.freed_indexes = @ \ {i},
             !.id[i] = new_id(st, i),
             !.owner[i] = k,
             !.turn[i] = @ + 1,
             !.cut = @ \ {i},
             !.sockfd[i] = d,
             !.send_data[i] = <<>>,
             !.read_req_active[i] = FALSE,
             !.num_write_reqs[i] = 0,
             !.ws_client_idx[i] = -1,
             !.fds = [e \in Fds |-> IF e = d THEN k ELSE @[e]]]

\* The filter of start(): a request of a client that was replaced, except in slot 0.
Stale(st, r) == r.idx > 0 /\ st.id[r.idx] # r.ID

\* Is the client that submitted r still there?
Current(st, r) == r.idx \in st.active_connections /\ st.turn[r.idx] = r.turn

\* A handler acts on r.
Handled(st, r) == [st EXCEPT !.late = @ \/ ~Current(st, r)]

-----------------------------------------------------------------------------
(* The handlers.                                                           *)

\* ACCEPT: the result is not looked at, so that a failed accept() makes a client too.
Accept ==
  /\ accepted < MaxConns /\ BagCardinality(s.reads) < MaxReads
  /\ NewSlot(s) < MaxSlots
  /\ LET i == NewSlot(s)
         st == IF FreeFds(s) = {} THEN setup_client(s, i, None, 0)
               ELSE setup_client(s, i, accepted + 1, Min(FreeFds(s)))
     IN s' = add_read_req([st EXCEPT !.active_connections = @ \cup {i}], i)
  /\ accepted' = accepted + 1
  /\ UNCHANGED undefined

\* What read_cb may do with data read for slot i, of a connection k:
\* a file, which is opened and then sent from the cache, or read first; nothing when
\* it cannot be opened,
send_file_request(st, i, k) ==
  IF FreeFds(st) = {} THEN {st}
  ELSE LET d   == Min(FreeFds(st))
           st1 == [st EXCEPT !.fds[d] = File]
       IN {write_connection(st1, i, k),
           [st1 EXCEPT !.files = @ (+) SetToBag({[idx |-> i, conn |-> k, fd |-> d,
                                               turn |-> st.turn[i]]})]}
\* an upgrade to a websocket, which takes the lowest free index, or a new one,
NewWs(st) == IF st.freed_ws # {} THEN Min(st.freed_ws) ELSE Len(st.websocket_clients)
\* (Mutation of new_ws_client: an index that is used again keeps its entry.)
new_ws_client_kept(st, i) ==
  LET x == NewWs(st)
  IN [st EXCEPT !.freed_ws = @ \ {x},
                !.websocket_clients = IF x = Len(@) THEN Append(@, i) ELSE @,
                !.all_ws = @ \cup {x},
                !.active_ws = @ \cup {i},
                !.ws_client_idx[i] = x]
new_ws_client(st, i) ==
  LET x == NewWs(st)
  IN [st EXCEPT !.freed_ws = @ \ {x},
                !.websocket_clients = IF x = Len(@) THEN Append(@, i) ELSE [@ EXCEPT ![x + 1] = i],
                !.all_ws = @ \cup {x},
                !.active_ws = @ \cup {i},
                !.ws_client_idx[i] = x]
Upgrade(st, i, k) ==
  IF NewWs(st) \in 0 .. MaxWs - 1 THEN {write_connection(new_ws_client(st, i), i, k)} ELSE {}
get_process(st, i, k) == send_file_request(st, i, k) \cup Upgrade(st, i, k)
\* an HTTP request, which get_process answers, or which is answered with the 404
\* page; a websocket is read from again only in the first case,
HttpRequest(st, i, k) ==
  {IF i \in x.active_ws THEN add_read_req(x, i) ELSE x : x \in get_process(st, i, k)}
  \cup send_file_request(st, i, k)
\* websocket frames: nothing to answer, a ping, or a close frame,
Frames(st, i, k) ==
  LET c == st.websocket_clients[st.ws_client_idx[i] + 1]   \* where answers are written
  IN {add_read_req(st, i),
      add_read_req(write_connection(st, c, k), i),
      add_read_req(write_connection([st EXCEPT !.active_ws = @ \ {c}], c, k), i)}
\* or bytes that make no sense.
read_cb(st, i, k) ==
  HttpRequest(st, i, k)
  \cup (IF i \notin st.active_ws THEN {close_web_connection(st, i)}
        ELSE IF st.ws_client_idx[i] = -1 THEN {} ELSE Frames(st, i, k))

\* READ with data.
ReadDone(r) ==
  LET st == [s EXCEPT !.reads = @ (-) SetToBag({r})]
  IN /\ r.conn # None
     /\ Len(s.send_data[r.idx]) < MaxQueue
     /\ BagCardinality(s.writes) + BagCardinality(s.files) < MaxQueue
     /\ IF Stale(s, r) THEN s' = st
        ELSE s' \in read_cb([Handled(st, r) EXCEPT !.read_req_active[r.idx] = FALSE],
                            r.idx, r.conn)
     /\ UNCHANGED <<accepted, undefined>>

\* A websocket index of -1 is used: kill_client has freed the index of a slot in which a
\* late READ of a closed client had opened a websocket, or frames come for such a slot.
ReadDoneUndefined(r) ==
  /\ r.conn # None
  /\ ~Stale(s, r)
  /\ (MaxWs > 0 /\ -1 \in s.freed_ws) \/ (r.idx \in s.active_ws /\ s.ws_client_idx[r.idx] = -1)
  /\ undefined' = TRUE
  /\ UNCHANGED <<s, accepted>>

\* READ that failed or met the end of the stream: the client is closed, unless it
\* has been replaced or a write is in flight.
ReadFail(r) ==
  LET st == [s EXCEPT !.reads = @ (-) SetToBag({r})]
  IN /\ s' = IF st.id[r.idx] = r.ID /\ st.num_write_reqs[r.idx] = 0
             THEN CloseLoop(Handled(st, r), r.idx) ELSE st
     /\ UNCHANGED <<accepted, undefined>>

\* websocket_process_write_cb: is this a websocket, also one that is closing?  Counting
\* currently_writing down has no other effect, as ws_client::close is never set.
websocket_process_write_cb(st, i) == st.ws_client_idx[i] \in st.all_ws

\* For web requests the connection is closed right after the answer.
write_cb(st, i) == IF websocket_process_write_cb(st, i) THEN st ELSE close_web_connection(st, i)

\* The WRITE case once the request is finished, with an element to pop: the next
\* element is written, and write_cb called.
Written(st, r) ==
  LET i   == r.idx
      st1 == [st EXCEPT !.num_write_reqs[i] = @ - 1]
      own == i \in st.active_connections /\ st.id[i] = r.ID
      st2 == IF own THEN [st1 EXCEPT !.send_data[i] = Tail(@)] ELSE st1
      st3 == IF own /\ st2.send_data[i] # <<>> THEN add_write_req(st2, i) ELSE st2
  IN write_cb(st3, i)

\* front() and pop() meet an empty send_data.
NothingToPop(r) ==
  /\ r.idx \in s.active_connections /\ s.id[r.idx] = r.ID
  /\ s.send_data[r.idx] = <<>>

WriteDone(r) ==
  LET st == [s EXCEPT !.writes = @ (-) SetToBag({r})]
  IN /\ r.conn # None
     /\ Stale(s, r) \/ ~NothingToPop(r)
     /\ s' = IF Stale(s, r) THEN st ELSE Written(Handled(st, r), r)
     /\ UNCHANGED <<accepted, undefined>>

\* The same with nothing to pop: what happens from here on is undefined.
WriteDoneUndefined(r) ==
  /\ r.conn # None
  /\ ~Stale(s, r)
  /\ NothingToPop(r)
  /\ undefined' = TRUE
  /\ UNCHANGED <<s, accepted>>

\* Mutation of WriteFail: a failed write is not counted.
WriteFail_uncounted(r) ==
  LET st == [s EXCEPT !.writes = @ (-) SetToBag({r})]
  IN /\ s' = IF s.id[r.idx] = r.ID /\ s.num_write_reqs[r.idx] = 0
             THEN CloseLoop(Handled(st, r), r.idx) ELSE st
     /\ UNCHANGED <<accepted, undefined>>

\* WRITE that failed: the client is closed with the last write in flight, unless it
\* has been replaced.
WriteFail(r) ==
  LET st == [s EXCEPT !.writes = @ (-) SetToBag({r})]
      st1 == [Handled(st, r) EXCEPT !.num_write_reqs[r.idx] = @ - 1]
  IN /\ s' = IF s.id[r.idx] # r.ID THEN st
             ELSE IF st1.num_write_reqs[r.idx] = 0 THEN CloseLoop(st1, r.idx) ELSE st1
     /\ UNCHANGED <<accepted, undefined>>

\* TIMERFD, for a client whose peer has shut down.  A round that finds several is the same as
\* several rounds that find one: what the loop does to one client does not depend on others.
Reap ==
  /\ \E i \in s.active_connections :
       s' = CloseLoop([s EXCEPT !.cut = IF s.num_write_reqs[i] # 0 THEN @ \cup {i} ELSE @], i)
  /\ UNCHANGED <<accepted, undefined>>

\* CUSTOM_READ: custom_read_cb closes the file and sends it to the slot that asked.
FileRead(r) ==
  /\ s' = write_connection([Handled(s, r) EXCEPT !.files = @ (-) SetToBag({r}),
                                                 !.fds[r.fd] = None], r.idx, r.conn)
  /\ UNCHANGED <<accepted, undefined>>

Next ==
  /\ ~undefined
  /\ \/ Accept
     \/ \E r \in BagToSet(s.reads) : ReadDone(r) \/ ReadDoneUndefined(r) \/ ReadFail(r)
     \/ \E r \in BagToSet(s.writes) : WriteDone(r) \/ WriteDoneUndefined(r) \/ WriteFail(r)
     \/ \E r \in BagToSet(s.files) : FileRead(r)
     \/ Reap

Spec == Init /\ [][Next]_vars

-----------------------------------------------------------------------------
Requests ==
  [idx : Slots, ID : -1 .. IdRange - 1, conn : Conns \cup {None}, turn : Nat]
ReadFiles == [idx : Slots, conn : Conns, fd : Fds, turn : Nat]

TypeOK ==
  /\ s.size \in 0 .. MaxSlots
  /\ s.id \in [Slots -> -1 .. IdRange - 1]
  /\ s.owner \in [Slots -> Conns \cup {None}] /\ s.turn \in [Slots -> Nat]
  /\ s.cut \subseteq Slots /\ s.late \in BOOLEAN
  /\ s.sockfd \in [Slots -> Fds \cup {0}]
  /\ s.send_data \in [Slots -> Seq(Conns)]
  /\ s.read_req_active \in [Slots -> BOOLEAN]
  /\ s.num_write_reqs \in [Slots -> Int]
  /\ s.active_connections \subseteq Slots /\ s.freed_indexes \subseteq Slots
  /\ s.ws_client_idx \in [Slots -> -1 .. MaxWs - 1]
  /\ s.websocket_clients \in Seq(Slots) /\ Len(s.websocket_clients) <= MaxWs
  /\ s.freed_ws \subseteq -1 .. MaxWs - 1 /\ s.all_ws \subseteq 0 .. MaxWs - 1
  /\ s.active_ws \subseteq Slots
  /\ s.fds \in [Fds -> Conns \cup {None, File}]
  /\ IsABag(s.reads) /\ BagToSet(s.reads) \subseteq Requests
  /\ IsABag(s.writes) /\ BagToSet(s.writes) \subseteq Requests
  /\ IsABag(s.files) /\ BagToSet(s.files) \subseteq ReadFiles
  /\ accepted \in 0 .. MaxConns /\ undefined \in BOOLEAN

\* Every index of the clients vector is in use or free, never both, however often a
\* connection is closed: an index in both would be given to a second client while
\* the first is served, one in neither would be lost.
SlotsPartitioned ==
  /\ s.active_connections \cap s.freed_indexes = {}
  /\ s.active_connections \cup s.freed_indexes = 0 .. s.size - 1

\* The writes in flight of the client that has slot i.
OwnWrites(st, i) == {w \in Copies(st.writes) : w[1].idx = i /\ w[1].ID = st.id[i]}

\* num_write_reqs of a slot counts the write requests in flight of the client that
\* has the slot now, through failures, reuse of the slot and late completions of
\* requests for the previous client.
WritesCounted ==
  \A i \in Slots : s.num_write_reqs[i] = Cardinality(OwnWrites(s, i))

\* Nothing in flight for a client that was replaced is taken for its successor's: a request
\* with the ID of the client that has the slot, which the filter (but in slot 0) and the path
\* of failed requests compare, was submitted by that client, unless the slot has had as many
\* clients since as there are IDs.
LateDropped ==
  \A r \in BagToSet(s.reads) \cup BagToSet(s.writes) :
    r.ID = s.id[r.idx] =>
      r.turn = s.turn[r.idx] \/ s.turn[r.idx] - r.turn >= IdRange

\* The descriptor of an active client is open and is the client's own connection:
\* no other client's end has closed it ("so we close it once here", server_base.tcc),
\* through writes that fail, the timer and websockets, until a handler acts on a request
\* that outlived its client.
DescriptorOwned ==
  s.late \/ \A i \in s.active_connections : Target(s, i) = s.owner[i]

\* An index belongs to one open websocket: it is not free, and websocket_write on it goes
\* to the client that has it, although clients are killed several times and an index that
\* was freed is soon another's.
WsIndexOwned ==
  \A i \in s.active_ws : s.ws_client_idx[i] # -1 =>
    /\ s.ws_client_idx[i] \notin s.freed_ws
    /\ s.websocket_clients[s.ws_client_idx[i] + 1] = i

\* What is queued for an active client was meant for the connection it has, until a handler
\* acts on a request that outlived its client.
AnswersItsClient ==
  s.late \/ \A i \in s.active_connections : \A n \in DOMAIN s.send_data[i] :
              s.send_data[i][n] = s.owner[i]

\* The elements of send_data are written one after the other: one write is in flight for a
\* client exactly as long as there is an element, unless the timer has emptied send_data
\* under it.
OneWrite ==
  s.late \/ \A i \in s.active_connections \ s.cut :
    LET w == {r \in BagToSet(s.writes) : r.idx = i}
    IN IF s.send_data[i] = <<>> THEN w = {} ELSE \E r \in w : w = {r} /\ s.writes[r] = 1

\* front() and pop() meet the element whose write has finished, and websocket indexes are
\* never -1, but for what the timer has emptied and for requests that outlive their client.
NothingUndefined == undefined => s.late \/ s.cut # {}

=============================================================================
