------------------------------ MODULE TlsServer ------------------------------
(***************************************************************************)
(* One TLS server thread (server<TLS>): how wolfSSL, which asks for bytes  *)
(* and hands out bytes through the callbacks tls_recv and tls_send, is     *)
(* driven by io_uring completions.                                         *)
(*                                                                         *)
(* wolfSSL is external.  A record is RecordSize bytes: one of header, which*)
(* wolfSSL asks for first, and the body.  The bytes of a connection are    *)
(* numbered; a session that is given another byte than the next one fails, *)
(* as decryption does.  The records of a peer are its hello, its Finished, *)
(* which it sends once it has the server's flight, and application data.   *)
(*                                                                         *)
(* A handler changes one slot of the clients vector, so that the operators *)
(* go from the record of a slot to that record, or the set of records that *)
(* it may be, afterwards.  What the code keeps about a slot elsewhere      *)
(* (active_connections, freed_indexes, the requests in flight) is part of  *)
(* the record.                                                             *)
(*                                                                         *)
(* A write that is continued after a partial result is one write, and a    *)
(* file read that is continued one read.  Descriptors, and what is in      *)
(* send_data, are the subject of TcpServer; here send_data is the number   *)
(* of its elements.                                                        *)
(***************************************************************************)
EXTENDS Integers, Sequences, FiniteSets, FiniteSetsExt, RequestBags

CONSTANTS
  FirstSlot,   \* the slots below are taken by clients that stay
  MaxSlots,    \* bound: size of the clients vector
  MaxConns,    \* bound: connections accepted in a behaviour
  MaxQueue,    \* bound: elements of send_data at which peers send no more
  Records,     \* bound: records a peer sends
  EarlyData    \* what may come in one read with the end of the Finished: "none",
               \* "whole" (one whole record of data), "any"

ASSUME TlsAssumption ==
  /\ FirstSlot \in Nat /\ MaxSlots \in Nat /\ FirstSlot < MaxSlots
  /\ MaxConns \in Nat /\ MaxQueue \in Nat /\ Records \in Nat
  /\ EarlyData \in {"none", "whole", "any"}

RecordSize == 3
Hello      == RecordSize        \* the last byte of the hello
Handshake  == 2 * RecordSize    \* the last byte of the Finished
IdRange == 100                  \* IDs of a slot wrap at this
Slots == FirstSlot .. MaxSlots - 1
Conns == 1 .. MaxConns
None  == 0

VARIABLES
  clients,    \* the slots of the clients vector, see new_client
  size,       \* clients.size()
  accepted,   \* connections accepted so far; connection k is the k-th
  taken,      \* bytes of each connection that the kernel has handed over
  flown,      \* connections whose peer has the server's flight
  gone,       \* connections whose peer has shut down
  undefined   \* has the behaviour of the program become undefined?

vars == <<clients, size, accepted, taken, flown, gone, undefined>>

\* client<TLS>().  conn stands for sockfd, state and consumed for ssl: where the session
\* is and the bytes it has consumed; websocket for what the web server knows.  The two
\* last_written of the code are -1 or what was written: FALSE or TRUE.  active and free:
\* is the slot in active_connections and freed_indexes?  requests: the ones in flight for
\* the slot, those of earlier clients too.  files and late: the CUSTOM_READs in flight that
\* were submitted for this client, and for earlier ones of the slot.  entry: what the web
\* server's tcp_clients holds for the slot, where accept_cb has put nothing yet, a blank
\* or, since an upgrade, a websocket index.
\* Three fields keep what has happened.  unanswered: neither the file nor 404.html could be
\* opened for a request of the client; crossed: the answer to an earlier client of the slot
\* was written to it; stray: kill_client erased a websocket index that was no longer the
\* client's.
new_client ==
  [id |-> -1, conn |-> None, state |-> "none", consumed |-> 0, recv_data |-> <<>>,
   send_data |-> 0, last_written |-> FALSE, accept_last_written |-> FALSE,
   read_req_active |-> FALSE, num_write_reqs |-> 0, websocket |-> "no",
   active |-> FALSE, free |-> FALSE, requests |-> EmptyBag, files |-> 0, late |-> 0,
   entry |-> "none", unanswered |-> FALSE, crossed |-> FALSE, stray |-> FALSE]

Init ==
  /\ clients = [i \in Slots |-> new_client]
  /\ size = FirstSlot
  /\ accepted = 0
  /\ taken = [k \in Conns |-> 0]
  /\ flown = {} /\ gone = {} /\ undefined = FALSE

-----------------------------------------------------------------------------
(* server_base.                                                            *)

\* A request keeps the connection that the descriptor named when it was submitted;
\* the descriptor of a free slot names none.
Request(c, event, what) ==
  [event |-> event, ID |-> c.id, what |-> what, conn |-> IF c.free THEN None ELSE c.conn]

add_read_req(c, event) ==
  IF c.read_req_active THEN c
  ELSE [c EXCEPT !.requests = @ (+) SetToBag({Request(c, event, "read")}),
                 !.read_req_active = TRUE]

add_write_req(c, event, what) ==
  [c EXCEPT !.requests = @ (+) SetToBag({Request(c, event, what)}),
            !.num_write_reqs = @ + 1]

\* The request has been completed.
Done(c, r) == [c EXCEPT !.requests = @ (-) SetToBag({r})]

Freed == {i \in Slots : clients[i].free}
NewSlot == IF Freed # {} THEN Min(Freed) ELSE size

\* The file reads in flight and tcp_clients are not touched.
setup_client(c, k) ==
  [new_client EXCEPT !.id = IF c.free THEN (c.id + 1) % IdRange ELSE -1,
                     !.conn = k,
                     !.requests = c.requests,
                     !.late = c.late + c.files,
                     !.entry = c.entry,
                     !.stray = c.stray]

\* The filter of start(): a request of a client that was replaced, except in slot 0.
Stale(i, r) == i > 0 /\ clients[i].id # r.ID

-----------------------------------------------------------------------------
(* The wolfSSL callbacks.                                                  *)

\* Has the last write of the client been completed and not yet been told to wolfSSL?
Acked(c) == IF c.active THEN c.last_written ELSE c.accept_last_written

\* tls_send: the first call submits the write, the one after the completion takes
\* its result.
tls_send(c, what) ==
  CASE Acked(c) /\ c.active  -> [c EXCEPT !.last_written = FALSE]
    [] Acked(c) /\ ~c.active -> [c EXCEPT !.accept_last_written = FALSE]
    [] ~Acked(c) -> add_write_req(c, IF c.active THEN "WRITE" ELSE "ACCEPT_WRITE", what)

\* What wolfSSL asks for next: the header or the body of a record.
Wanted(c) == IF c.consumed % RecordSize = 0 THEN 1 ELSE RecordSize - 1

\* The session takes the first n bytes of recv_data.
Consume(c, n) ==
  LET right == c.recv_data[1] = c.consumed + 1
  IN [c EXCEPT !.recv_data = SubSeq(@, n + 1, Len(@)),
               !.consumed = IF right THEN @ + n ELSE @,
               !.state = IF right THEN @ ELSE "broken"]

\* Mutation of tls_recv: the handshake, too, waits for a read that nobody submits.
tls_recv_unarmed(c) ==
  CASE Len(c.recv_data) >= Wanted(c) -> Consume(c, Wanted(c))
    [] c.recv_data = <<>> -> add_read_req(c, IF c.active THEN "READ" ELSE "ACCEPT_READ")
    [] OTHER -> c

\* tls_recv and tls_recv_helper.  With too little data an active client is left to
\* the READ handler; the handshake submits a read.
tls_recv(c) ==
  CASE Len(c.recv_data) >= Wanted(c) -> Consume(c, Wanted(c))
    [] Len(c.recv_data) < Wanted(c) /\ ~c.active -> add_read_req(c, "ACCEPT_READ")
    [] c.recv_data = <<>> /\ c.active -> add_read_req(c, "READ")
    [] OTHER -> c

-----------------------------------------------------------------------------
(* wolfSSL, external.                                                      *)

\* One record, the header of which may have been read before.
ReadRecord(c) ==
  LET c1 == tls_recv(c)
  IN IF c1.consumed % RecordSize = 0 \/ c1.state = "broken" THEN c1 ELSE tls_recv(c1)

GotRecord(c, c1) == c1.consumed > c.consumed /\ c1.consumed % RecordSize = 0

\* wolfSSL_accept from where it stopped; 1 is returned iff the session is then open.
\* A hello may be refused, with an alert.
AcceptFinished(c) ==
  LET c1 == ReadRecord(c)
  IN IF GotRecord(c, c1) THEN [c1 EXCEPT !.state = "open"] ELSE c1

AcceptHello(c) ==
  LET c1 == ReadRecord(c)
  IN IF GotRecord(c, c1)
     THEN {tls_send([c1 EXCEPT !.state = "flight"], "flight"),
           tls_send([c1 EXCEPT !.state = "refused"], "alert")}
     ELSE {c1}

wolfSSL_accept(c) ==
  CASE c.state = "hello" -> AcceptHello(c)
    [] c.state = "flight" ->
         {IF Acked(c) THEN AcceptFinished([tls_send(c, "flight") EXCEPT !.state = "finished"])
          ELSE tls_send(c, "flight")}
    [] c.state = "finished" -> {AcceptFinished(c)}
    [] OTHER -> {c}

\* wolfSSL_read returns at most one record.
wolfSSL_read(c) == IF c.state = "open" THEN ReadRecord(c) ELSE c

\* wolfSSL_write is called with the same data until it is all written, IsWritten.  In the
\* handshake it goes on with the handshake first: the flight is handed out once more; the
\* other states wait for bytes, for which a read is in flight.
wolfSSL_write(c) ==
  CASE c.state = "open"   -> tls_send(c, "data")
    [] c.state = "flight" -> tls_send(c, "flight")
    [] OTHER -> c
IsWritten(c) == c.state = "open" /\ Acked(c)

\* wolfSSL_shutdown sends a close_notify if there is a session.  For an active client
\* tls_send looks at the front of send_data, also if there is none: whatever is in
\* that memory then counts as last_written.
wolfSSL_shutdown(c) ==
  CASE c.state = "none" -> {c}
    [] c.state # "none" /\ c.active /\ c.send_data = 0 ->
         {c, add_write_req(c, "WRITE", "close_notify")}
    [] OTHER -> {tls_send(c, "close_notify")}

-----------------------------------------------------------------------------
(* server<TLS>.                                                            *)

\* What close_connection leaves of a client.
Closed(c) == [c EXCEPT !.state = "none", !.consumed = 0, !.active = FALSE,
                       !.send_data = 0, !.free = TRUE]

\* Mutation of close_connection: a write in flight does not keep the client.
close_connection_always(c) == {Closed(x) : x \in wolfSSL_shutdown(c)}

\* kill_client: the web server forgets the websocket, under the index that tcp_clients
\* has for the slot.  This is the one of an earlier client if the client has not come as
\* far as accept_cb, and one that was given up before if the client is killed again.
kill_client(c) ==
  [c EXCEPT !.websocket = IF @ = "no" THEN "no" ELSE "killed",
            !.stray = @ \/ (c.entry = "ws" /\ c.websocket \notin {"open", "closing"})]

\* close_connection, with what the web server does first.
close_connection(c) ==
  IF c.num_write_reqs # 0 THEN {kill_client(c)}
  ELSE {Closed(x) : x \in wolfSSL_shutdown(kill_client(c))}

write_connection(c) ==
  LET c1 == [c EXCEPT !.send_data = @ + 1]
  IN IF c1.send_data = 1 THEN wolfSSL_write(c1) ELSE c1

\* What read_cb may do with an HTTP request: answer it from the cache, submit a read of
\* the file (or of 404.html), do nothing, if neither can be opened, or upgrade to a
\* websocket.
http_request(c) ==
  {write_connection(c),
   [c EXCEPT !.files = @ + 1],
   [c EXCEPT !.unanswered = TRUE],
   add_read_req(write_connection([c EXCEPT !.websocket = "open", !.entry = "ws"]), "READ")}

\* And with frames: nothing, a pong, or the answer to a close frame.
frames(c) ==
  {add_read_req(x, "READ") :
     x \in {c, write_connection(c), write_connection([c EXCEPT !.websocket = "closing"])}}

\* Bytes that make no sense, and frames where no websocket is open, close the
\* connection.  Peers send an HTTP request first and then frames.
read_cb(c) ==
  CASE c.websocket = "no"   -> http_request(c) \cup close_connection(c)
    [] c.websocket = "open" -> frames(c)
    [] OTHER -> close_connection(c)

\* listed: is the index of a websocket in all_websocket_connections?
write_cb(c, listed) ==
  IF c.websocket \in {"open", "closing"} /\ listed THEN {c} ELSE close_connection(c)

\* A handler that leaves slot i as one of X.
Becomes(i, X) == \E c \in X : clients' = [clients EXCEPT ![i] = c]

\* ACCEPT: setup_client, tls_accept.
Accept ==
  /\ accepted < MaxConns
  /\ NewSlot < MaxSlots
  /\ LET c == setup_client(clients[NewSlot], accepted + 1)
     IN Becomes(NewSlot, wolfSSL_accept([c EXCEPT !.state = "hello"]))
  /\ size' = IF NewSlot = size THEN size + 1 ELSE size
  /\ accepted' = accepted + 1
  /\ UNCHANGED <<taken, flown, gone, undefined>>

\* Mutation of Received: the data takes the place of what was left over.
Received_replaced(c, k, n) ==
  [c EXCEPT !.read_req_active = FALSE,
            !.recv_data = [m \in 1 .. n - taken[k] |-> taken[k] + m]]

\* The data of a read that ends after byte n of connection k, added to recv_data.
Received(c, k, n) ==
  [c EXCEPT !.read_req_active = FALSE,
            !.recv_data = @ \o [m \in 1 .. n - taken[k] |-> taken[k] + m]]

\* How far a read of connection k may get.
ReadEnds(k) ==
  {n \in taken[k] + 1 .. Records * RecordSize :
     /\ k \in flown \/ n <= Hello
     /\ taken[k] < Handshake /\ n > Handshake =>
          EarlyData = "any" \/ (EarlyData = "whole" /\ n = Handshake + RecordSize)}

\* ACCEPT_READ once the handshake is done: accept_cb, one wolfSSL_read, and what is left
\* over of the data is dropped.
Accepted(c) ==
  LET c1 == [c EXCEPT !.active = TRUE, !.entry = "blank"]
      c2 == wolfSSL_read(c1)
      c3 == [c2 EXCEPT !.recv_data = <<>>]
  IN IF GotRecord(c1, c2) THEN read_cb([c3 EXCEPT !.read_req_active = FALSE]) ELSE {c3}

accept_read(c) ==
  UNION {IF x.state = "open" THEN Accepted(x) ELSE {x} : x \in wolfSSL_accept(c)}

\* One round of the loop of READ: wolfSSL_read if there is data.
ReadOnce(c) == IF c.recv_data = <<>> THEN c ELSE wolfSSL_read(c)

\* The loop, which finds at most Records records.
ReadLoop(c) ==
  LET after[m \in 0 .. Records] == IF m = 0 THEN c ELSE ReadOnce(after[m - 1])
  IN after[Records]

SameRecord(c, c1) == c1.consumed \div RecordSize = c.consumed \div RecordSize

\* READ: wolfSSL_read as long as there is data; with no record, read on.
read(c) ==
  LET c1 == ReadLoop(c)
  IN IF SameRecord(c, c1) THEN {add_read_req(c1, "READ")} ELSE read_cb(c1)

\* ACCEPT_READ and READ with data.
ReadDone(i, r) ==
  LET c == Done(clients[i], r)
  IN /\ r.what = "read" /\ r.conn # None
     /\ c.send_data < MaxQueue
     /\ \E n \in ReadEnds(r.conn) :
          /\ taken' = [taken EXCEPT ![r.conn] = n]
          /\ Becomes(i, IF Stale(i, r) THEN {c}
                        ELSE IF r.event = "READ" THEN read(Received(c, r.conn, n))
                        ELSE accept_read(Received(c, r.conn, n)))
     /\ UNCHANGED <<size, accepted, flown, gone, undefined>>

\* Mutation of accept_write: the write is not counted down.
accept_write_uncounted(c) == wolfSSL_accept([c EXCEPT !.accept_last_written = TRUE])

\* ACCEPT_WRITE: wolfSSL goes on; what it returns is not looked at.
accept_write(c) ==
  wolfSSL_accept([c EXCEPT !.num_write_reqs = @ - 1, !.accept_last_written = TRUE])

\* The next element of send_data, if there is one.
WriteNext(c) == IF c.send_data > 0 THEN wolfSSL_write(c) ELSE c

\* Mutation of write: an element is popped without looking whether there is one.
write_unchecked(c, listed) ==
  {WriteNext(x) :
     x \in write_cb([c EXCEPT !.num_write_reqs = @ - 1, !.send_data = @ - 1], listed)}

\* WRITE: wolfSSL goes on with the front of send_data; once that is written, the
\* callback is called and the next element written.
write(c, listed) ==
  LET c1 == [c EXCEPT !.num_write_reqs = @ - 1]
      c2 == [c1 EXCEPT !.last_written = TRUE]
      c3 == wolfSSL_write(c2)
      c4 == [c3 EXCEPT !.send_data = @ - 1, !.last_written = FALSE]
  IN CASE c.send_data = 0 -> {c1}
       [] c.send_data > 0 /\ ~IsWritten(c2) -> {c3}
       [] OTHER -> {WriteNext(x) : x \in write_cb(c4, listed)}

\* After a stray erase the index of any websocket may be the one that was erased.
Listed == IF \E i \in Slots : clients[i].stray THEN BOOLEAN ELSE {TRUE}

WriteDone(i, r) ==
  LET c == Done(clients[i], r)
  IN /\ r.what # "read" /\ r.conn # None
     /\ \E listed \in Listed :
          Becomes(i, IF Stale(i, r) THEN {c}
                     ELSE IF r.event = "WRITE" THEN write(c, listed) ELSE accept_write(c))
     /\ flown' = IF r.what = "flight" THEN flown \cup {r.conn} ELSE flown
     /\ UNCHANGED <<size, accepted, taken, gone, undefined>>

\* CUSTOM_READ with the whole file: custom_read_cb writes it to the client that has the
\* slot now, whoever asked for it and whatever that client is doing.
FileDone(i) ==
  LET c == clients[i]
  IN /\ \/ c.files > 0 /\ Becomes(i, {write_connection([c EXCEPT !.files = @ - 1])})
        \/ c.late > 0
           /\ Becomes(i, {write_connection([c EXCEPT !.late = @ - 1, !.crossed = TRUE])})
     /\ UNCHANGED <<size, accepted, taken, flown, gone, undefined>>

\* The close loop: close_cb for every element of send_data, then close_connection.
CloseLoop(c) == close_connection([c EXCEPT !.send_data = 0, !.last_written = FALSE])

\* Mutation of Fail: only failed WRITEs are counted, not ACCEPT_WRITEs.
Fail_accept_uncounted(i, r) ==
  LET c == Done(clients[i], r)
      c1 == IF r.event # "WRITE" THEN c ELSE [c EXCEPT !.num_write_reqs = @ - 1]
  IN /\ r.conn \in gone \cup {None}
     /\ Becomes(i, IF c.id = r.ID /\ c1.num_write_reqs = 0 THEN CloseLoop(c1) ELSE {c1})
     /\ UNCHANGED <<size, accepted, taken, flown, gone, undefined>>

\* A request that failed or met the end of the stream.
Fail(i, r) ==
  LET c == Done(clients[i], r)
      c1 == IF r.what = "read" THEN c ELSE [c EXCEPT !.num_write_reqs = @ - 1]
  IN /\ r.conn \in gone \cup {None}
     /\ Becomes(i, IF c.id # r.ID THEN {c}
                   ELSE IF c1.num_write_reqs = 0 THEN CloseLoop(c1) ELSE {c1})
     /\ UNCHANGED <<size, accepted, taken, flown, gone, undefined>>

\* Slot i is past the end of tcp_clients, which accept_cb makes as long as the highest
\* slot that it is called for.
OutOfBounds(i) == \A j \in Slots : j >= i => clients[j].entry = "none"

\* kill_client reads and writes tcp_clients[i] of a client that failed in the handshake.
FailUndefined(i, r) ==
  /\ r.conn \in gone \cup {None}
  /\ clients[i].id = r.ID
  /\ clients[i].num_write_reqs = IF r.what = "read" THEN 0 ELSE 1
  /\ OutOfBounds(i)
  /\ undefined' = TRUE
  /\ UNCHANGED <<clients, size, accepted, taken, flown, gone>>

\* TIMERFD, for one of the clients whose peer has shut down.
Reap ==
  /\ \E i \in Slots :
       /\ clients[i].active /\ clients[i].conn \in gone
       /\ Becomes(i, CloseLoop(clients[i]))
  /\ UNCHANGED <<size, accepted, taken, flown, gone, undefined>>

\* NOTIFICATION: a broadcast is written to every open websocket.
broadcast_message ==
  LET open == {i \in Slots : clients[i].websocket = "open"}
  IN /\ open # {} /\ \A i \in open : clients[i].send_data < MaxQueue
     /\ clients' = [i \in Slots |-> IF i \in open THEN write_connection(clients[i])
                                    ELSE clients[i]]
     /\ UNCHANGED <<size, accepted, taken, flown, gone, undefined>>

\* The peer of an accepted connection shuts down.
PeerGone ==
  /\ \E k \in 1 .. accepted : k \notin gone /\ gone' = gone \cup {k}
  /\ UNCHANGED <<clients, size, accepted, taken, flown, undefined>>

Next ==
  /\ ~undefined
  /\ \/ Accept
     \/ \E i \in Slots : \E r \in BagToSet(clients[i].requests) :
          ReadDone(i, r) \/ WriteDone(i, r) \/ Fail(i, r) \/ FailUndefined(i, r)
     \/ \E i \in Slots : FileDone(i)
     \/ Reap
     \/ broadcast_message
     \/ PeerGone

Spec == Init /\ [][Next]_vars

\* The kernel completes every request on a connection whose peer has shut down, and
\* the timer goes off again and again: weak fairness, with the conditions under which
\* the steps are possible written out.  Nothing is said of the file reads.
InFlight(k) == \E i \in Slots : \E r \in BagToSet(clients[i].requests) : r.conn = k

Complete(k) ==
  \E i \in Slots : \E r \in BagToSet(clients[i].requests) :
    r.conn = k /\ (ReadDone(i, r) \/ WriteDone(i, r) \/ Fail(i, r))

Fairness ==
  /\ \A k \in Conns : <>[](~undefined /\ k \in gone /\ InFlight(k)) => []<><<Complete(k)>>_vars
  /\ <>[](~undefined /\ \E i \in Slots :
             /\ clients[i].active /\ clients[i].conn \in gone
             /\ \/ clients[i].num_write_reqs = 0
                \/ clients[i].send_data > 0
                \/ clients[i].websocket \in {"open", "closing"})
       => []<><<Reap>>_vars

FairSpec == Spec /\ Fairness

-----------------------------------------------------------------------------
Requests ==
  [event : {"ACCEPT_READ", "READ"}, ID : -1 .. IdRange - 1, what : {"read"},
   conn : Conns \cup {None}]
  \cup
  [event : {"ACCEPT_WRITE", "WRITE"}, ID : -1 .. IdRange - 1, conn : Conns,
   what : {"flight", "alert", "data", "close_notify"}]

ClientFields ==
  {"id", "conn", "state", "consumed", "recv_data", "send_data", "last_written",
   "accept_last_written", "read_req_active", "num_write_reqs", "websocket", "active",
   "free", "requests", "files", "late", "entry", "unanswered", "crossed", "stray"}

ClientOK(c) ==
  /\ DOMAIN c = ClientFields
  /\ c.id \in -1 .. IdRange - 1 /\ c.conn \in Conns \cup {None}
  /\ c.state \in {"none", "hello", "flight", "finished", "open", "refused", "broken"}
  /\ c.consumed \in 0 .. Records * RecordSize
  /\ c.recv_data \in Seq(1 .. Records * RecordSize)
  /\ c.send_data \in Nat /\ c.num_write_reqs \in Int
  /\ c.last_written \in BOOLEAN /\ c.accept_last_written \in BOOLEAN
  /\ c.read_req_active \in BOOLEAN /\ c.active \in BOOLEAN /\ c.free \in BOOLEAN
  /\ c.websocket \in {"no", "open", "closing", "killed"}
  /\ IsABag(c.requests) /\ BagToSet(c.requests) \subseteq Requests
  /\ c.files \in Nat /\ c.late \in Nat /\ c.entry \in {"none", "blank", "ws"}
  /\ c.unanswered \in BOOLEAN /\ c.crossed \in BOOLEAN /\ c.stray \in BOOLEAN

TypeOK ==
  /\ DOMAIN clients = Slots /\ \A i \in Slots : ClientOK(clients[i])
  /\ size \in FirstSlot .. MaxSlots
  /\ accepted \in 0 .. MaxConns
  /\ taken \in [Conns -> 0 .. Records * RecordSize]
  /\ flown \subseteq Conns /\ gone \subseteq Conns /\ undefined \in BOOLEAN

\* The requests in flight that the client in a slot has submitted.
Own(c) == {w \in Copies(c.requests) : w[1].ID = c.id}
OwnWrites(c) == {w \in Own(c) : w[1].what # "read"}

\* num_write_reqs counts the writes in flight of the client that has the slot now,
\* the handshake's and the close_notify included (slot 0 takes on late ones).
WritesCounted ==
  \A i \in Slots \ {0} : clients[i].num_write_reqs = Cardinality(OwnWrites(clients[i]))

\* wolfSSL has one buffer of output per session, which the kernel reads from: its
\* session is not freed under a write in flight, except for the close_notify; and as
\* long as the peer is there, at most one write is in flight (the timer empties
\* send_data under a write, after which another one may start), unless the answer to an
\* earlier client of the slot came in.
OutputBufferOwned ==
  \A i \in Slots \ {0} :
    /\ \A w \in OwnWrites(clients[i]) : w[1].what = "close_notify" \/ clients[i].state # "none"
    /\ clients[i].conn \notin gone /\ ~clients[i].crossed => clients[i].num_write_reqs <= 1

\* No byte of a peer is lost or given to wolfSSL out of order, however the records
\* are cut up by the reads.
NothingLost == \A i \in Slots \ {0} : clients[i].state # "broken"

InUse == {i \in FirstSlot .. size - 1 : ~clients[i].free}

\* A client is never forgotten: something is in flight for it that will wake the server,
\* a file read included, or its peer has gone and the timer will find it.  Except for a
\* client whose hello was refused, one for whose request neither the file nor 404.html
\* could be opened, and one that got the answer to an earlier client of the slot.
NotForgotten ==
  \A i \in InUse \ {0} :
    \/ Own(clients[i]) # {} \/ clients[i].files > 0
    \/ clients[i].active /\ clients[i].conn \in gone
    \/ clients[i].state = "refused" \/ clients[i].unanswered \/ clients[i].crossed

\* A client whose peer has shut down is closed in the end, in the handshake, in the
\* middle of a write, of a file read or idle, also if nothing could be opened for its
\* request; except for one whose hello was refused and one that got the answer to an
\* earlier client.  In the handshake kill_client may go past the end of tcp_clients.
GoneIsClosed ==
  \A k \in Conns :
    k \in gone ~> \/ undefined
                  \/ \A i \in InUse : clients[i].conn = k =>
                       clients[i].state = "refused" \/ clients[i].crossed

=============================================================================
