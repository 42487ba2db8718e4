--------------------------- MODULE TlsServerProofs ---------------------------
(***************************************************************************)
(* What TlsServer promises for any number of slots, connections and        *)
(* records.  A handler changes one slot, so the parts of the invariant are *)
(* predicates on the record of a slot, and there is a lemma for each       *)
(* operator.                                                               *)
(***************************************************************************)
EXTENDS TlsServer, CommonLemmas, SequenceTheorems

-----------------------------------------------------------------------------
(* Types.                                                                  *)

\* A session is one of a client that has a connection; it asks for one header, then for
\* the body.
Typed(c) ==
  /\ ClientOK(c)
  /\ c.state # "none" => ~c.free /\ c.conn \in Conns
  /\ c.consumed % RecordSize \in {0, 1}

\* x is c later on, the same client; what was submitted since is its own, on its connection.
Later(c, x) ==
  /\ x.id = c.id /\ x.conn = c.conn /\ (c.crossed => x.crossed)
  /\ \A r \in BagToSet(x.requests) :
       r \in BagToSet(c.requests) \/ (r.ID = c.id /\ r.conn \in {None, c.conn})

LEMMA RequestType ==
  ASSUME NEW c, ClientOK(c)
  PROVE  /\ \A e \in {"ACCEPT_READ", "READ"} : Request(c, e, "read") \in Requests
         /\ ~c.free /\ c.conn \in Conns =>
              \A e \in {"ACCEPT_WRITE", "WRITE"} :
                \A w \in {"flight", "alert", "data", "close_notify"} : Request(c, e, w) \in Requests
  BY DEF ClientOK, Request, Requests

LEMMA AddedBag ==
  ASSUME NEW c, ClientOK(c), NEW r
  PROVE  /\ IsABag(c.requests (+) SetToBag({r}))
         /\ BagToSet(c.requests (+) SetToBag({r})) = BagToSet(c.requests) \cup {r}
<1>1. IsABag(c.requests)
  BY DEF ClientOK
<1> QED
  BY <1>1, BagAddProps

LEMMA AddReadTyped ==
  ASSUME NEW c, Typed(c), NEW e \in {"ACCEPT_READ", "READ"}, NEW x, x = add_read_req(c, e)
  PROVE  Typed(x) /\ Later(c, x)
<1>1. CASE c.read_req_active
  BY <1>1 DEF add_read_req, Later
<1>2. CASE ~c.read_req_active
  <2> DEFINE r == Request(c, e, "read")
             B == c.requests (+) SetToBag({r})
  <2>1. r \in Requests /\ r.ID = c.id /\ r.conn \in {None, c.conn}
    <3>1. r.ID = c.id /\ r.conn \in {None, c.conn}
      BY DEF Request
    <3> QED
      BY <3>1, RequestType DEF Typed
  <2>2. IsABag(B) /\ BagToSet(B) = BagToSet(c.requests) \cup {r}
    <3>1. ClientOK(c)
      BY DEF Typed
    <3> QED
      BY <3>1, AddedBag
  <2>3. x = [c EXCEPT !.requests = B, !.read_req_active = TRUE]
    BY <1>2 DEF add_read_req
  <2> HIDE DEF r, B
  <2>4. ClientOK(x)
    BY <2>1, <2>2, <2>3 DEF Typed, ClientOK, ClientFields
  <2> QED
    BY <2>1, <2>2, <2>3, <2>4 DEF Typed, ClientOK, ClientFields, Later
<1> QED
  BY <1>1, <1>2

LEMMA AddWriteTyped ==
  ASSUME NEW c, Typed(c), c.state # "none", NEW e \in {"ACCEPT_WRITE", "WRITE"},
         NEW w \in {"flight", "alert", "data", "close_notify"}, NEW x, x = add_write_req(c, e, w)
  PROVE  Typed(x) /\ Later(c, x)
<1> DEFINE r == Request(c, e, w)
           B == c.requests (+) SetToBag({r})
<1>1. r \in Requests /\ r.ID = c.id /\ r.conn \in {None, c.conn}
  <2>1. r.ID = c.id /\ r.conn \in {None, c.conn}
    BY DEF Request
  <2> QED
    BY <2>1, RequestType DEF Typed
<1>2. IsABag(B) /\ BagToSet(B) = BagToSet(c.requests) \cup {r}
  <2>1. ClientOK(c)
    BY DEF Typed
  <2> QED
    BY <2>1, AddedBag
<1>3. x = [c EXCEPT !.requests = B, !.num_write_reqs = @ + 1]
  BY DEF add_write_req
<1> HIDE DEF r, B
<1>4. ClientOK(x)
  BY <1>1, <1>2, <1>3 DEF Typed, ClientOK, ClientFields
<1> QED
  BY <1>1, <1>2, <1>3, <1>4 DEF Typed, ClientOK, ClientFields, Later

\* The event of what wolfSSL submits for a client.
ReadEvent(c) == IF c.active THEN "READ" ELSE "ACCEPT_READ"

\* y is c after the session was given some of the received bytes.
Fed(c, y) ==
  /\ y.id = c.id /\ y.conn = c.conn /\ y.send_data = c.send_data
  /\ y.last_written = c.last_written /\ y.accept_last_written = c.accept_last_written
  /\ y.read_req_active = c.read_req_active /\ y.num_write_reqs = c.num_write_reqs
  /\ y.websocket = c.websocket /\ y.active = c.active /\ y.free = c.free
  /\ y.requests = c.requests /\ y.files = c.files /\ y.unanswered = c.unanswered
  /\ y.crossed = c.crossed
  /\ y.state \in {c.state, "broken"}

\* Of the bytes of the connection, tk so far, recv_data are the ones after those consumed.
Contiguous(c, tk) ==
  /\ tk = c.consumed + Len(c.recv_data)
  /\ \A m \in 1 .. Len(c.recv_data) : c.recv_data[m] = c.consumed + m

LEMMA SendTyped ==
  ASSUME NEW c, Typed(c), c.state # "none",
         NEW w \in {"flight", "alert", "data", "close_notify"}, NEW x, x = tls_send(c, w)
  PROVE  Typed(x) /\ Later(c, x)
<1>1. CASE ~Acked(c)
  <2>1. x = add_write_req(c, IF c.active THEN "WRITE" ELSE "ACCEPT_WRITE", w)
    BY <1>1 DEF tls_send
  <2>2. (IF c.active THEN "WRITE" ELSE "ACCEPT_WRITE") \in {"ACCEPT_WRITE", "WRITE"}
    OBVIOUS
  <2> QED
    BY <2>1, <2>2, AddWriteTyped
<1>2. CASE Acked(c)
  <2>1. \/ x = [c EXCEPT !.last_written = FALSE]
        \/ x = [c EXCEPT !.accept_last_written = FALSE]
    BY <1>2 DEF tls_send, Typed, ClientOK
  <2> QED
    BY <2>1 DEF Typed, ClientOK, ClientFields, Later
<1> QED
  BY <1>1, <1>2

\* What is left after the first n elements.
LEMMA Rest ==
  ASSUME NEW S, NEW q \in Seq(S), NEW n \in Nat, n <= Len(q)
  PROVE  /\ SubSeq(q, n + 1, Len(q)) \in Seq(S)
         /\ Len(SubSeq(q, n + 1, Len(q))) = Len(q) - n
         /\ \A m \in 1 .. Len(q) - n : SubSeq(q, n + 1, Len(q))[m] = q[n + m]
  OBVIOUS

LEMMA WantedFits ==
  ASSUME NEW c, ClientOK(c), c.consumed % RecordSize \in {0, 1}, c.consumed < Records * RecordSize
  PROVE  /\ Wanted(c) \in {1, 2}
         /\ c.consumed + Wanted(c) \in 0 .. Records * RecordSize
         /\ (c.consumed + Wanted(c)) % RecordSize = IF c.consumed % RecordSize = 0 THEN 1 ELSE 0
<1>1. c.consumed \in Nat /\ Records \in Nat
  BY TlsAssumption DEF ClientOK
<1>2. CASE c.consumed % RecordSize = 0
  <2>1. (c.consumed + 1) % 3 = 1
    BY <1>1, <1>2 DEF RecordSize
  <2> QED
    BY <1>1, <1>2, <2>1 DEF Wanted, RecordSize
<1>3. CASE c.consumed % RecordSize = 1
  <2>1. (c.consumed + 2) % 3 = 0 /\ c.consumed + 2 <= Records * 3
    BY <1>1, <1>3 DEF RecordSize
  <2>2. Wanted(c) = 2
    BY <1>3 DEF Wanted, RecordSize
  <2> QED
    BY <1>1, <1>3, <2>1, <2>2 DEF RecordSize
<1> QED
  BY <1>2, <1>3

LEMMA ConsumeIs ==
  ASSUME NEW c, Typed(c), c.state # "none", Len(c.recv_data) >= Wanted(c), NEW n,
         n = Wanted(c), NEW x, x = Consume(c, n)
  PROVE  /\ Typed(x) /\ Fed(c, x)
         /\ Len(x.recv_data) = Len(c.recv_data) - n
         /\ \/ x.consumed = c.consumed + n
            \/ x.consumed = c.consumed /\ x.state = "broken"
         /\ \A tk : Contiguous(c, tk) =>
              /\ Contiguous(x, tk) /\ x.state = c.state /\ x.consumed = c.consumed + n
<1> DEFINE right == c.recv_data[1] = c.consumed + 1
           q == SubSeq(c.recv_data, n + 1, Len(c.recv_data))
<1>1. /\ n \in {1, 2} /\ n <= Len(c.recv_data)
      /\ c.recv_data \in Seq(1 .. Records * RecordSize) /\ Len(c.recv_data) \in Nat
  BY DEF Typed, ClientOK, Wanted, RecordSize
<1>2. /\ q \in Seq(1 .. Records * RecordSize) /\ Len(q) = Len(c.recv_data) - n
      /\ \A m \in 1 .. Len(c.recv_data) - n : q[m] = c.recv_data[n + m]
  <2>1. n \in Nat /\ n <= Len(c.recv_data)
    BY <1>1
  <2> QED
    BY <1>1, <2>1, Rest
<1>3. c.recv_data[1] \in 1 .. Records * RecordSize
  <2>1. 1 \in 1 .. Len(c.recv_data)
    BY <1>1
  <2> QED
    BY <1>1, <2>1, ElementOfSeq
<1>4. c.consumed \in Nat /\ ClientOK(c) /\ c.consumed % RecordSize \in {0, 1}
  BY DEF Typed, ClientOK
<1>5. right => /\ c.consumed + n \in 0 .. Records * RecordSize
               /\ (c.consumed + n) % RecordSize \in {0, 1}
  <2>1. right => c.consumed < Records * RecordSize
    BY <1>3, <1>4, TlsAssumption DEF RecordSize
  <2>2. ASSUME c.consumed < Records * RecordSize
        PROVE  /\ c.consumed + Wanted(c) \in 0 .. Records * RecordSize
               /\ (c.consumed + Wanted(c)) % RecordSize \in {0, 1}
    BY <1>4, <2>2, WantedFits
  <2> QED
    BY <2>1, <2>2
<1>6. x = [c EXCEPT !.recv_data = q, !.consumed = IF right THEN @ + n ELSE @,
                    !.state = IF right THEN @ ELSE "broken"]
  BY DEF Consume
<1> HIDE DEF q, right
<1>7. ClientOK(x)
  BY <1>2, <1>4, <1>5, <1>6 DEF ClientOK, ClientFields
<1>8. Typed(x) /\ Fed(c, x)
  BY <1>4, <1>5, <1>6, <1>7 DEF Typed, ClientOK, ClientFields, Fed
<1>9. x.recv_data = q /\ x.consumed = (IF right THEN c.consumed + n ELSE c.consumed)
      /\ x.state = IF right THEN c.state ELSE "broken"
  BY <1>4, <1>6 DEF ClientOK, ClientFields
<1>10. ASSUME NEW tk, Contiguous(c, tk)
       PROVE  Contiguous(x, tk) /\ right
  <2>1. right
    BY <1>1, <1>10 DEF Contiguous, right
  <2>2. x.recv_data = q /\ x.consumed = c.consumed + n
    BY <1>9, <2>1
  <2>3. tk = x.consumed + Len(x.recv_data)
    <3>1. tk = c.consumed + Len(c.recv_data)
      BY <1>10 DEF Contiguous
    <3>2. Len(x.recv_data) = Len(c.recv_data) - n
      BY <1>2, <2>2
    <3> QED
      BY <1>1, <1>4, <2>2, <3>1, <3>2
  <2>4. ASSUME NEW m \in 1 .. Len(x.recv_data)
        PROVE  x.recv_data[m] = x.consumed + m
    <3>1. m \in 1 .. Len(c.recv_data) - n /\ n + m \in 1 .. Len(c.recv_data)
      BY <1>1, <1>2, <2>2
    <3>2. q[m] = c.recv_data[n + m] /\ c.recv_data[n + m] = c.consumed + (n + m)
      BY <1>2, <1>10, <3>1 DEF Contiguous
    <3> QED
      BY <1>1, <1>4, <2>2, <3>1, <3>2
  <2> QED
    BY <2>1, <2>3, <2>4 DEF Contiguous
<1> QED
  BY <1>2, <1>8, <1>9, <1>10

LEMMA RecvIs ==
  ASSUME NEW c, Typed(c), c.state # "none", NEW x, x = tls_recv(c)
  PROVE  /\ Len(c.recv_data) >= Wanted(c) => x = Consume(c, Wanted(c))
         /\ Len(c.recv_data) < Wanted(c) =>
              /\ x \in {c, add_read_req(c, ReadEvent(c))}
              /\ ~c.active \/ c.recv_data = <<>> => x = add_read_req(c, ReadEvent(c))
<1>1. /\ Wanted(c) \in {1, 2} /\ c.recv_data \in Seq(1 .. Records * RecordSize)
      /\ Len(c.recv_data) \in Nat
  BY DEF Typed, ClientOK, Wanted, RecordSize
<1>2. CASE Len(c.recv_data) >= Wanted(c)
  BY <1>1, <1>2 DEF tls_recv
<1>3. CASE Len(c.recv_data) < Wanted(c) /\ ~c.active
  BY <1>1, <1>3 DEF tls_recv, ReadEvent
<1>4. CASE Len(c.recv_data) < Wanted(c) /\ c.active
  BY <1>1, <1>4 DEF tls_recv, ReadEvent
<1> QED
  BY <1>1, <1>2, <1>3, <1>4

\* What add_read_req leaves alone.
LEMMA AddReadIs ==
  ASSUME NEW c, ClientOK(c), NEW e, NEW x, x = add_read_req(c, e)
  PROVE  /\ x.id = c.id /\ x.conn = c.conn /\ x.send_data = c.send_data
         /\ x.last_written = c.last_written /\ x.accept_last_written = c.accept_last_written
         /\ x.num_write_reqs = c.num_write_reqs /\ x.websocket = c.websocket
         /\ x.active = c.active /\ x.free = c.free /\ x.state = c.state
         /\ x.consumed = c.consumed /\ x.recv_data = c.recv_data /\ x.read_req_active
         /\ x.files = c.files /\ x.unanswered = c.unanswered /\ x.crossed = c.crossed
         /\ \A f : add_read_req(x, f) = x
<1>1. CASE c.read_req_active
  BY <1>1 DEF add_read_req
<1>2. CASE ~c.read_req_active
  <2>1. x = [c EXCEPT !.requests = @ (+) SetToBag({Request(c, e, "read")}), !.read_req_active = TRUE]
    BY <1>2 DEF add_read_req
  <2>2. x.read_req_active
    BY <2>1 DEF ClientOK, ClientFields
  <2>3. \A f : add_read_req(x, f) = x
    BY <2>2 DEF add_read_req
  <2> QED
    BY <2>1, <2>2, <2>3 DEF ClientOK, ClientFields
<1> QED
  BY <1>1, <1>2

\* The last byte before the record that a session is in.
Start(c) == IF c.consumed % RecordSize = 0 THEN c.consumed ELSE c.consumed - 1

\* One record, or as much of it as there is: y is the client when wolfSSL has taken what
\* it got, x after the read that it may have submitted for more.
Record(c, y, x) ==
  /\ Typed(y) /\ Fed(c, y) /\ x \in {y, add_read_req(y, ReadEvent(c))}
  /\ GotRecord(c, x) => x = y /\ y.consumed = Start(c) + RecordSize
  /\ ~GotRecord(c, x) =>
       /\ y.consumed \in {c.consumed, Start(c) + 1}
       /\ y.state # "broken" => c.consumed + Len(c.recv_data) < Start(c) + RecordSize
       /\ y.state # "broken" /\ (~c.active \/ y.recv_data = <<>>)
            => x = add_read_req(y, ReadEvent(c))
  /\ \A tk : Contiguous(c, tk) => Contiguous(y, tk) /\ y.state = c.state

LEMMA RecordIs ==
  ASSUME NEW c, Typed(c), c.state \notin {"none", "broken"}, NEW x, x = ReadRecord(c)
  PROVE  \E y : Record(c, y, x)
<1> DEFINE c1 == tls_recv(c)
           n == Len(c.recv_data)
<1>1. /\ c.consumed \in Nat /\ n \in Nat /\ ClientOK(c)
      /\ c.recv_data = <<>> <=> n = 0
      /\ c.consumed % RecordSize \in {0, 1}
  BY DEF Typed, ClientOK
<1>2. x = IF c1.consumed % RecordSize = 0 \/ c1.state = "broken" THEN c1 ELSE tls_recv(c1)
  BY DEF ReadRecord
<1>3. /\ n >= Wanted(c) => c1 = Consume(c, Wanted(c))
      /\ n < Wanted(c) => /\ c1 \in {c, add_read_req(c, ReadEvent(c))}
                          /\ ~c.active \/ c.recv_data = <<>> => c1 = add_read_req(c, ReadEvent(c))
  BY RecvIs
<1>4. Fed(c, c)
  BY DEF Fed
<1>5. c1 \in {c, add_read_req(c, ReadEvent(c))} => c1.consumed = c.consumed /\ c1.state = c.state
  BY <1>1, AddReadIs
<1> HIDE DEF c1, n
<1>a. CASE c.consumed % RecordSize = 0
  <2>1. Wanted(c) = 1 /\ Start(c) = c.consumed
    BY <1>a DEF Wanted, Start
  <2>2. CASE n = 0
    <3>1. c1 = add_read_req(c, ReadEvent(c)) /\ x = c1 /\ x.consumed = c.consumed
      BY <1>1, <1>2, <1>3, <1>5, <1>a, <2>1, <2>2
    <3>2. ~GotRecord(c, x)
      BY <1>1, <3>1 DEF GotRecord
    <3>3. Record(c, c, x)
      BY <1>1, <1>4, <2>1, <2>2, <3>1, <3>2 DEF Record, RecordSize, n
    <3> QED
      BY <3>3
  <2>3. CASE n > 0
    <3>1. c1 = Consume(c, Wanted(c))
      BY <1>1, <1>3, <2>1, <2>3
    <3>2. /\ Typed(c1) /\ Fed(c, c1)
          /\ c1.consumed = c.consumed + 1 \/ (c1.consumed = c.consumed /\ c1.state = "broken")
          /\ \A tk : Contiguous(c, tk) =>
               Contiguous(c1, tk) /\ c1.state = c.state /\ c1.consumed = c.consumed + 1
          /\ Len(c1.recv_data) = n - 1
      <4>1. Len(c.recv_data) >= Wanted(c)
        BY <1>1, <2>1, <2>3 DEF n
      <4> QED
        BY <2>1, <3>1, <4>1, ConsumeIs DEF n
    <3>3. CASE c1.state = "broken"
      <4>1. x = c1
        BY <1>2, <3>3
      <4>2. ~GotRecord(c, x)
        BY <1>1, <1>a, <3>2, <4>1 DEF GotRecord, RecordSize
      <4>3. Record(c, c1, x)
        BY <1>1, <2>1, <3>2, <3>3, <4>1, <4>2 DEF Record
      <4> QED
        BY <4>3
    <3>4. CASE c1.state # "broken"
      <4>1. c1.consumed = c.consumed + 1 /\ c1.consumed % RecordSize = 1 /\ Wanted(c1) = 2
        BY <1>1, <1>a, <3>2, <3>4 DEF RecordSize, Wanted
      <4>2. x = tls_recv(c1) /\ c1.state # "none" /\ c1.active = c.active
        BY <1>2, <3>2, <3>4, <4>1 DEF Fed
      <4>n. Len(c1.recv_data) = n - 1
        BY <3>2
      <4>3. CASE Len(c1.recv_data) >= 2
        <5>1. x = Consume(c1, Wanted(c1))
          BY <3>2, <4>1, <4>2, <4>3, RecvIs
        <5>2. /\ Typed(x) /\ Fed(c1, x)
              /\ x.consumed = c.consumed + 3 \/ (x.consumed = c.consumed + 1 /\ x.state = "broken")
              /\ \A tk : Contiguous(c1, tk) => Contiguous(x, tk) /\ x.state = c1.state
          <6>1. /\ Typed(x) /\ Fed(c1, x)
                /\ \/ x.consumed = c1.consumed + 2
                   \/ x.consumed = c1.consumed /\ x.state = "broken"
                /\ \A tk : Contiguous(c1, tk) => Contiguous(x, tk) /\ x.state = c1.state
            BY <3>2, <4>1, <4>2, <4>3, <5>1, ConsumeIs
          <6>2. c1.consumed + 2 = c.consumed + 3
            BY <1>1, <4>1
          <6> QED
            BY <4>1, <6>1, <6>2
        <5>3. Fed(c, x)
          BY <3>2, <5>2 DEF Fed
        <5>4. ~GotRecord(c, x) => x.state = "broken" /\ x.consumed = c.consumed + 1
          BY <1>1, <1>a, <5>2 DEF GotRecord, RecordSize
        <5>5. GotRecord(c, x) => x.consumed = c.consumed + 3
          BY <1>1, <1>a, <5>2 DEF GotRecord, RecordSize
        <5>6. Record(c, x, x)
          BY <1>1, <2>1, <3>2, <5>2, <5>3, <5>4, <5>5 DEF Record, RecordSize
        <5> QED
          BY <5>6
      <4>4. CASE Len(c1.recv_data) < 2
        <5>1. /\ x \in {c1, add_read_req(c1, ReadEvent(c1))}
              /\ ~c1.active \/ c1.recv_data = <<>> => x = add_read_req(c1, ReadEvent(c1))
          BY <3>2, <4>1, <4>2, <4>4, RecvIs
        <5>2. ReadEvent(c1) = ReadEvent(c)
          BY <4>2 DEF ReadEvent
        <5>3. x.consumed = c.consumed + 1
          BY <3>2, <4>1, <5>1, AddReadIs DEF Typed
        <5>4. ~GotRecord(c, x)
          BY <1>1, <1>a, <5>3 DEF GotRecord, RecordSize
        <5>5. c.consumed + n < c.consumed + 3
          BY <1>1, <4>n, <4>4
        <5>6. Record(c, c1, x)
          BY <1>1, <2>1, <3>2, <4>1, <4>2, <5>1, <5>2, <5>4, <5>5 DEF Record, RecordSize, n
        <5> QED
          BY <5>6
      <4> QED
        BY <1>1, <4>n, <4>3, <4>4
    <3> QED
      BY <3>3, <3>4
  <2> QED
    BY <1>1, <2>2, <2>3
<1>b. CASE c.consumed % RecordSize = 1
  <2>1. Wanted(c) = 2 /\ Start(c) = c.consumed - 1
    BY <1>b DEF Wanted, Start, RecordSize
  <2>2. CASE n < 2
    <3>1. c1 \in {c, add_read_req(c, ReadEvent(c))} /\ x = tls_recv(c1)
      BY <1>1, <1>2, <1>3, <1>5, <1>b, <2>1, <2>2 DEF RecordSize
    <3>2. x = c1
      <4>1. CASE c1 = c
        BY <3>1, <4>1 DEF c1
      <4>2. CASE c1 = add_read_req(c, ReadEvent(c))
        <5>1. /\ Typed(c1) /\ c1.state # "none" /\ c1.recv_data = c.recv_data
              /\ c1.consumed = c.consumed /\ \A f : add_read_req(c1, f) = c1
          BY <1>1, <4>2, AddReadIs, AddReadTyped DEF ReadEvent
        <5>2. Wanted(c1) = 2
          BY <2>1, <5>1 DEF Wanted
        <5>3. x \in {c1, add_read_req(c1, ReadEvent(c1))}
          BY <2>2, <3>1, <5>1, <5>2, RecvIs DEF n
        <5> QED
          BY <5>1, <5>3
      <4> QED
        BY <3>1, <4>1, <4>2
    <3>3. ~GotRecord(c, x)
      BY <1>1, <1>5, <3>1, <3>2 DEF GotRecord
    <3>4. c.consumed + n < Start(c) + RecordSize
      BY <1>1, <2>1, <2>2 DEF RecordSize
    <3>5. Record(c, c, x)
      BY <1>1, <1>3, <1>4, <2>1, <2>2, <3>1, <3>2, <3>3, <3>4 DEF Record, n
    <3> QED
      BY <3>5
  <2>3. CASE n >= 2
    <3>1. c1 = Consume(c, Wanted(c))
      BY <1>1, <1>3, <2>1, <2>3
    <3>2. /\ Typed(c1) /\ Fed(c, c1)
          /\ c1.consumed = c.consumed + 2 \/ (c1.consumed = c.consumed /\ c1.state = "broken")
          /\ \A tk : Contiguous(c, tk) => Contiguous(c1, tk) /\ c1.state = c.state
      <4>1. Len(c.recv_data) >= Wanted(c)
        BY <1>1, <2>1, <2>3 DEF n
      <4> QED
        BY <2>1, <3>1, <4>1, ConsumeIs
    <3>3. x = c1
      BY <1>1, <1>2, <1>b, <3>2 DEF RecordSize
    <3>4. ~GotRecord(c, x) => x.state = "broken" /\ x.consumed = c.consumed
      BY <1>1, <1>b, <3>2, <3>3 DEF GotRecord, RecordSize
    <3>5. GotRecord(c, x) => x.consumed = c.consumed + 2
      BY <1>1, <1>b, <3>2, <3>3 DEF GotRecord, RecordSize
    <3>6. Record(c, c1, x)
      BY <1>1, <2>1, <3>2, <3>3, <3>4, <3>5 DEF Record, RecordSize
    <3> QED
      BY <3>6
  <2> QED
    BY <1>1, <2>2, <2>3
<1> QED
  BY <1>1, <1>a, <1>b

-----------------------------------------------------------------------------
(* The requests of the client that has a slot.                             *)

OwnReads(c) == {w \in Own(c) : w[1].what = "read"}

\* One more of its own, or of another's.
LEMMA OwnAdded ==
  ASSUME NEW c, ClientOK(c), NEW r, r.ID = c.id, NEW x, x.id = c.id,
         x.requests = c.requests (+) SetToBag({r})
  PROVE  \E v : v[1] = r /\ v \notin Own(c) /\ Own(x) = Own(c) \cup {v}
<1> DEFINE v == <<r, x.requests[r]>>
<1>1. IsABag(c.requests)
  BY DEF ClientOK
<1>2. Copies(x.requests) = Copies(c.requests) \cup {v} /\ v \notin Copies(c.requests)
  BY <1>1, CopiesAdd
<1>3. v[1] = r
  OBVIOUS
<1> HIDE DEF v
<1>4. v \notin Own(c) /\ Own(x) = Own(c) \cup {v}
  BY <1>2, <1>3 DEF Own
<1> QED
  BY <1>3, <1>4

LEMMA OwnTaken ==
  ASSUME NEW c, ClientOK(c), NEW r \in BagToSet(c.requests), NEW x, x.id = c.id,
         x.requests = c.requests (-) SetToBag({r})
  PROVE  /\ r.ID = c.id => \E v \in Own(c) : v[1] = r /\ Own(x) = Own(c) \ {v}
         /\ r.ID # c.id => Own(x) = Own(c)
<1> DEFINE v == <<r, c.requests[r]>>
<1>1. IsABag(c.requests)
  BY DEF ClientOK
<1>2. Copies(x.requests) = Copies(c.requests) \ {v} /\ v \in Copies(c.requests)
  BY <1>1, CopiesTaken
<1>3. v[1] = r
  OBVIOUS
<1> HIDE DEF v
<1>4. CASE r.ID = c.id
  <2>1. v \in Own(c) /\ Own(x) = Own(c) \ {v}
    BY <1>2, <1>3, <1>4 DEF Own
  <2> QED
    BY <1>3, <1>4, <2>1
<1>5. CASE r.ID # c.id
  BY <1>2, <1>3, <1>5 DEF Own
<1> QED
  BY <1>4, <1>5

LEMMA OwnIn ==
  ASSUME NEW c, ClientOK(c), NEW w \in Own(c)
  PROVE  w[1] \in BagToSet(c.requests) /\ w[1].ID = c.id /\ w[1] \in Requests
<1>1. w[1].ID = c.id /\ w \in Copies(c.requests) /\ IsABag(c.requests)
  BY DEF Own, ClientOK
<1>2. PICK r \in BagToSet(c.requests) : \E m \in 1 .. c.requests[r] : w = <<r, m>>
  BY <1>1, CopiesOf
<1> QED
  BY <1>1, <1>2 DEF ClientOK

LEMMA OwnHas ==
  ASSUME NEW c, ClientOK(c), NEW r \in BagToSet(c.requests), r.ID = c.id
  PROVE  \E w \in Own(c) : w[1] = r
<1>1. IsABag(c.requests) /\ c.requests[r] \in Nat /\ c.requests[r] > 0
  BY DEF ClientOK, IsABag, BagToSet
<1>2. <<r, 1>> \in Copies(c.requests)
  BY <1>1, CopiesOf
<1>3. <<r, 1>> \in Own(c)
  BY <1>2 DEF Own
<1> QED
  BY <1>3

\* The writes of the client are counted, and the ones that are still in flight when it is
\* closed are for the close_notify; a read is in flight only if read_req_active, and then
\* one; all are on its connection.
Sound(c) ==
  /\ IsFiniteSet(OwnWrites(c)) /\ c.num_write_reqs = Cardinality(OwnWrites(c))
  /\ c.state = "none" => \A w \in OwnWrites(c) : w[1].what = "close_notify"
  /\ ~c.read_req_active => OwnReads(c) = {}
  /\ \A v, w \in OwnReads(c) : v = w
  /\ ~c.free => \A w \in Own(c) : w[1].conn = c.conn

\* What every operator keeps.
Leads(c, x) == Typed(x) /\ Later(c, x) /\ (Sound(c) => Sound(x))

LEMMA LeadsOn ==
  ASSUME NEW c, NEW y, NEW x, Leads(c, y), Leads(y, x)
  PROVE  Leads(c, x)
  BY DEF Leads, Later

LEMMA LeadsHere ==
  ASSUME NEW c, Typed(c)
  PROVE  Leads(c, c)
  BY DEF Leads, Later

\* Changes to the other fields.
LEMMA OtherFields ==
  ASSUME NEW c, NEW x, Typed(x), x.id = c.id, x.conn = c.conn, x.requests = c.requests,
         x.num_write_reqs = c.num_write_reqs, x.read_req_active = c.read_req_active,
         x.free = c.free, x.state = "none" => c.state = "none", c.crossed => x.crossed
  PROVE  Leads(c, x)
<1>1. Own(x) = Own(c) /\ OwnWrites(x) = OwnWrites(c) /\ OwnReads(x) = OwnReads(c)
  BY DEF Own, OwnWrites, OwnReads
<1> QED
  BY <1>1 DEF Leads, Later, Sound

LEMMA AddReadLeads ==
  ASSUME NEW c, Typed(c), NEW e \in {"ACCEPT_READ", "READ"}, NEW x, x = add_read_req(c, e)
  PROVE  /\ Leads(c, x)
         /\ c.read_req_active => x = c
         /\ ~c.read_req_active =>
              \E v : v[1] = Request(c, e, "read") /\ v \notin Own(c) /\ Own(x) = Own(c) \cup {v}
         /\ OwnWrites(x) = OwnWrites(c)
<1>1. CASE c.read_req_active
  <2>1. x = c
    BY <1>1 DEF add_read_req
  <2> QED
    BY <1>1, <2>1, LeadsHere
<1>2. CASE ~c.read_req_active
  <2> DEFINE r == Request(c, e, "read")
  <2>1. x = [c EXCEPT !.requests = @ (+) SetToBag({r}), !.read_req_active = TRUE]
    BY <1>2 DEF add_read_req
  <2>2. r.ID = c.id /\ r.what = "read" /\ r.conn = IF c.free THEN None ELSE c.conn
    BY DEF Request
  <2> HIDE DEF r
  <2>3. /\ x.id = c.id /\ x.requests = c.requests (+) SetToBag({r}) /\ ClientOK(c)
        /\ x.conn = c.conn /\ x.num_write_reqs = c.num_write_reqs /\ x.read_req_active
        /\ x.free = c.free /\ x.state = c.state
    BY <2>1 DEF Typed, ClientOK, ClientFields
  <2>4. PICK v : v[1] = r /\ v \notin Own(c) /\ Own(x) = Own(c) \cup {v}
    BY <2>2, <2>3, OwnAdded
  <2>5. OwnWrites(x) = OwnWrites(c) /\ OwnReads(x) = OwnReads(c) \cup {v}
    BY <2>2, <2>4 DEF OwnWrites, OwnReads
  <2>6. Sound(c) => Sound(x)
    BY <1>2, <2>2, <2>3, <2>4, <2>5 DEF Sound
  <2>7. Leads(c, x)
    BY <2>6, AddReadTyped DEF Leads
  <2> QED
    BY <1>2, <2>4, <2>5, <2>7 DEF r
<1> QED
  BY <1>1, <1>2

LEMMA AddWriteLeads ==
  ASSUME NEW c, Typed(c), c.state # "none", NEW e \in {"ACCEPT_WRITE", "WRITE"},
         NEW what \in {"flight", "alert", "data", "close_notify"},
         NEW x, x = add_write_req(c, e, what)
  PROVE  /\ Leads(c, x)
         /\ \E v : v[1] = Request(c, e, what) /\ v \notin Own(c) /\ Own(x) = Own(c) \cup {v}
         /\ OwnReads(x) = OwnReads(c)
<1> DEFINE r == Request(c, e, what)
<1>1. x = [c EXCEPT !.requests = @ (+) SetToBag({r}), !.num_write_reqs = @ + 1]
  BY DEF add_write_req
<1>2. r.ID = c.id /\ r.what # "read" /\ r.conn = IF c.free THEN None ELSE c.conn
  BY DEF Request
<1> HIDE DEF r
<1>3. /\ x.id = c.id /\ x.requests = c.requests (+) SetToBag({r}) /\ ClientOK(c)
      /\ x.conn = c.conn /\ x.num_write_reqs = c.num_write_reqs + 1
      /\ x.read_req_active = c.read_req_active /\ x.free = c.free /\ x.state = c.state
  BY <1>1 DEF Typed, ClientOK, ClientFields
<1>4. PICK v : v[1] = r /\ v \notin Own(c) /\ Own(x) = Own(c) \cup {v}
  BY <1>2, <1>3, OwnAdded
<1>5. OwnWrites(x) = OwnWrites(c) \cup {v} /\ OwnReads(x) = OwnReads(c) /\ v \notin OwnWrites(c)
  BY <1>2, <1>4 DEF OwnWrites, OwnReads
<1>6. ASSUME Sound(c) PROVE Sound(x)
  <2>1. IsFiniteSet(OwnWrites(x)) /\ Cardinality(OwnWrites(x)) = Cardinality(OwnWrites(c)) + 1
    BY <1>5, <1>6, FS_AddElement DEF Sound
  <2> QED
    BY <1>2, <1>3, <1>4, <1>5, <1>6, <2>1 DEF Sound
<1>7. Leads(c, x)
  BY <1>6, AddWriteTyped DEF Leads
<1> QED
  BY <1>4, <1>5, <1>7 DEF r

\* What tls_send leaves alone.
Sent(c, x) ==
  /\ x.id = c.id /\ x.conn = c.conn /\ x.state = c.state /\ x.consumed = c.consumed
  /\ x.recv_data = c.recv_data /\ x.send_data = c.send_data
  /\ x.read_req_active = c.read_req_active /\ x.websocket = c.websocket
  /\ x.active = c.active /\ x.free = c.free /\ x.files = c.files
  /\ x.unanswered = c.unanswered /\ x.crossed = c.crossed

\* The write is submitted, or its result is taken.
LEMMA SendLeads ==
  ASSUME NEW c, Typed(c), c.state # "none",
         NEW what \in {"flight", "alert", "data", "close_notify"}, NEW x, x = tls_send(c, what)
  PROVE  /\ Leads(c, x) /\ Sent(c, x) /\ OwnReads(x) = OwnReads(c)
         /\ Acked(c) => /\ x.requests = c.requests /\ x.num_write_reqs = c.num_write_reqs
                        /\ x.last_written = (c.last_written /\ ~c.active)
                        /\ x.accept_last_written = (c.accept_last_written /\ c.active)
         /\ ~Acked(c) =>
              /\ x.num_write_reqs = c.num_write_reqs + 1
              /\ x.last_written = c.last_written /\ x.accept_last_written = c.accept_last_written
              /\ x = add_write_req(c, IF c.active THEN "WRITE" ELSE "ACCEPT_WRITE", what)
<1>0. ClientOK(c)
  BY DEF Typed
<1>1. CASE ~Acked(c)
  <2>1. x = add_write_req(c, IF c.active THEN "WRITE" ELSE "ACCEPT_WRITE", what)
    BY <1>1 DEF tls_send
  <2>2. (IF c.active THEN "WRITE" ELSE "ACCEPT_WRITE") \in {"ACCEPT_WRITE", "WRITE"}
    OBVIOUS
  <2>3. Leads(c, x) /\ OwnReads(x) = OwnReads(c)
    BY <2>1, <2>2, AddWriteLeads
  <2>4. /\ Sent(c, x) /\ x.num_write_reqs = c.num_write_reqs + 1
        /\ x.last_written = c.last_written /\ x.accept_last_written = c.accept_last_written
    BY <1>0, <2>1 DEF add_write_req, ClientOK, ClientFields, Sent
  <2> QED
    BY <1>1, <2>1, <2>3, <2>4
<1>2. CASE Acked(c) /\ c.active
  <2>1. x = [c EXCEPT !.last_written = FALSE]
    BY <1>2 DEF tls_send
  <2>2. /\ Sent(c, x) /\ x.requests = c.requests /\ x.num_write_reqs = c.num_write_reqs
        /\ x.last_written = FALSE /\ x.accept_last_written = c.accept_last_written
    BY <1>0, <2>1 DEF ClientOK, ClientFields, Sent
  <2>3. Typed(x)
    BY SendTyped
  <2>4. Leads(c, x) /\ OwnReads(x) = OwnReads(c)
    BY <2>2, <2>3, OtherFields DEF Sent, OwnReads, Own
  <2> QED
    BY <1>0, <1>2, <2>2, <2>4 DEF ClientOK
<1>3. CASE Acked(c) /\ ~c.active
  <2>1. x = [c EXCEPT !.accept_last_written = FALSE]
    BY <1>3 DEF tls_send
  <2>2. /\ Sent(c, x) /\ x.requests = c.requests /\ x.num_write_reqs = c.num_write_reqs
        /\ x.accept_last_written = FALSE /\ x.last_written = c.last_written
    BY <1>0, <2>1 DEF ClientOK, ClientFields, Sent
  <2>3. Typed(x)
    BY SendTyped
  <2>4. Leads(c, x) /\ OwnReads(x) = OwnReads(c)
    BY <2>2, <2>3, OtherFields DEF Sent, OwnReads, Own
  <2> QED
    BY <1>0, <1>3, <2>2, <2>4 DEF ClientOK
<1> QED
  BY <1>1, <1>2, <1>3

LEMMA FedLeads ==
  ASSUME NEW c, NEW y, Typed(y), Fed(c, y), c.state # "none"
  PROVE  Leads(c, y) /\ y.state # "none" /\ OwnReads(y) = OwnReads(c) /\ OwnWrites(y) = OwnWrites(c)
<1>1. y.state # "none"
  BY DEF Fed
<1>2. Leads(c, y)
  BY <1>1, OtherFields DEF Fed
<1> QED
  BY <1>1, <1>2 DEF Fed, OwnReads, OwnWrites, Own

LEMMA RecordLeads ==
  ASSUME NEW c, c.state # "none", NEW y, NEW x, Record(c, y, x)
  PROVE  Leads(c, x) /\ x.state = y.state /\ x.state # "none" /\ x.consumed = y.consumed
         /\ x.recv_data = y.recv_data
<1>1. Typed(y) /\ Fed(c, y) /\ x \in {y, add_read_req(y, ReadEvent(c))} /\ ClientOK(y)
  BY DEF Record, Typed
<1>2. Leads(c, y) /\ y.state # "none"
  BY <1>1, FedLeads
<1>3. ReadEvent(c) \in {"ACCEPT_READ", "READ"}
  BY DEF ReadEvent
<1>4. Leads(y, x)
  BY <1>1, <1>3, LeadsHere, AddReadLeads
<1>5. x.state = y.state /\ x.consumed = y.consumed /\ x.recv_data = y.recv_data
  BY <1>1, AddReadIs
<1> QED
  BY <1>2, <1>4, <1>5, LeadsOn

\* A change of the state of a session.
LEMMA StateLeads ==
  ASSUME NEW c, Typed(c), c.state # "none",
         NEW s \in {"hello", "flight", "finished", "open", "refused", "broken"},
         NEW x, x = [c EXCEPT !.state = s]
  PROVE  /\ Leads(c, x) /\ x.state = s
         /\ x.id = c.id /\ x.conn = c.conn /\ x.consumed = c.consumed
         /\ x.recv_data = c.recv_data /\ x.send_data = c.send_data
         /\ x.read_req_active = c.read_req_active /\ x.websocket = c.websocket
         /\ x.active = c.active /\ x.free = c.free /\ x.num_write_reqs = c.num_write_reqs
         /\ x.last_written = c.last_written /\ x.accept_last_written = c.accept_last_written
         /\ x.requests = c.requests /\ x.crossed = c.crossed
         /\ x.files = c.files /\ x.unanswered = c.unanswered
<1>1. ClientOK(x) /\ Typed(x)
  BY DEF Typed, ClientOK, ClientFields
<1>2. /\ x.state = s
      /\ x.id = c.id /\ x.conn = c.conn /\ x.consumed = c.consumed
      /\ x.recv_data = c.recv_data /\ x.send_data = c.send_data
      /\ x.read_req_active = c.read_req_active /\ x.websocket = c.websocket
      /\ x.active = c.active /\ x.free = c.free /\ x.num_write_reqs = c.num_write_reqs
      /\ x.last_written = c.last_written /\ x.accept_last_written = c.accept_last_written
      /\ x.requests = c.requests /\ x.crossed = c.crossed
      /\ x.files = c.files /\ x.unanswered = c.unanswered
  BY DEF Typed, ClientOK, ClientFields
<1> QED
  BY <1>1, <1>2, OtherFields

LEMMA FinishedLeads ==
  ASSUME NEW c, Typed(c), c.state = "finished", NEW x, x = AcceptFinished(c)
  PROVE  /\ Leads(c, x)
         /\ x.state = "open" => x.read_req_active = c.read_req_active
<1> DEFINE c1 == ReadRecord(c)
<1>1. PICK y : Record(c, y, c1)
  BY RecordIs
<1>2. Leads(c, c1) /\ c1.state = y.state /\ c1.state # "none"
  BY <1>1, RecordLeads
<1>3. x = IF GotRecord(c, c1) THEN [c1 EXCEPT !.state = "open"] ELSE c1
  BY DEF AcceptFinished
<1> HIDE DEF c1
<1>4. CASE GotRecord(c, c1)
  <2>1. Leads(c1, x) /\ x.read_req_active = c1.read_req_active
    BY <1>2, <1>3, <1>4, StateLeads DEF Leads
  <2>2. c1.read_req_active = c.read_req_active
    BY <1>1, <1>4 DEF Record, Fed
  <2> QED
    BY <1>2, <2>1, <2>2, LeadsOn
<1>5. CASE ~GotRecord(c, c1)
  <2>1. x.state # "open"
    BY <1>1, <1>2, <1>3, <1>5 DEF Record, Fed
  <2> QED
    BY <1>2, <1>3, <1>5, <2>1
<1> QED
  BY <1>4, <1>5

LEMMA HelloLeads ==
  ASSUME NEW c, Typed(c), c.state = "hello", NEW x \in AcceptHello(c)
  PROVE  Leads(c, x) /\ x.state # "open"
<1> DEFINE c1 == ReadRecord(c)
<1>1. PICK y : Record(c, y, c1)
  BY RecordIs
<1>2. Leads(c, c1) /\ c1.state = y.state /\ c1.state # "none"
  BY <1>1, RecordLeads
<1>3. x \in IF GotRecord(c, c1)
            THEN {tls_send([c1 EXCEPT !.state = "flight"], "flight"),
                  tls_send([c1 EXCEPT !.state = "refused"], "alert")}
            ELSE {c1}
  BY DEF AcceptHello
<1>y. y.state \in {"hello", "broken"}
  BY <1>1 DEF Record, Fed
<1> HIDE DEF c1
<1>4. ASSUME NEW s \in {"flight", "refused"}, NEW what \in {"flight", "alert"},
             x = tls_send([c1 EXCEPT !.state = s], what)
      PROVE  Leads(c, x) /\ x.state # "open"
  <2> DEFINE c2 == [c1 EXCEPT !.state = s]
  <2>1. Leads(c1, c2) /\ c2.state = s
    BY <1>2, StateLeads DEF Leads
  <2> HIDE DEF c2
  <2>2. x = tls_send(c2, what)
    BY <1>4 DEF c2
  <2>3. Leads(c2, x) /\ Sent(c2, x)
    BY <2>1, <2>2, SendLeads DEF Leads
  <2> QED
    BY <1>2, <2>1, <2>3, LeadsOn DEF Sent
<1> QED
  BY <1>2, <1>3, <1>4, <1>y

LEMMA AcceptLeads ==
  ASSUME NEW c, Typed(c), NEW x \in wolfSSL_accept(c)
  PROVE  /\ Leads(c, x)
         /\ x.state = "open" => x.read_req_active = c.read_req_active
<1>1. CASE c.state = "hello"
  BY <1>1, HelloLeads DEF wolfSSL_accept
<1>2. CASE c.state = "flight"
  <2> DEFINE c1 == tls_send(c, "flight")
             c2 == [c1 EXCEPT !.state = "finished"]
  <2>1. x = IF Acked(c) THEN AcceptFinished(c2) ELSE c1
    BY <1>2 DEF wolfSSL_accept
  <2>2. Leads(c, c1) /\ Sent(c, c1)
    BY <1>2, SendLeads
  <2> HIDE DEF c1
  <2>3. Leads(c1, c2) /\ c2.state = "finished" /\ c2.read_req_active = c1.read_req_active
    BY <1>2, <2>2, StateLeads DEF Leads, Sent
  <2> HIDE DEF c2
  <2>4. CASE Acked(c)
    <3>1. Leads(c2, x) /\ (x.state = "open" => x.read_req_active = c2.read_req_active)
      BY <2>1, <2>3, <2>4, FinishedLeads DEF Leads
    <3>2. Leads(c, c2)
      BY <2>2, <2>3, LeadsOn
    <3>3. Leads(c, x)
      BY <3>1, <3>2, LeadsOn
    <3> QED
      BY <2>2, <2>3, <3>1, <3>3 DEF Sent
  <2> QED
    BY <1>2, <2>1, <2>2, <2>4 DEF Sent
<1>3. CASE c.state = "finished"
  BY <1>3, FinishedLeads DEF wolfSSL_accept
<1>4. CASE c.state \notin {"hello", "flight", "finished"}
  <2>1. x = c
    BY <1>4 DEF wolfSSL_accept
  <2> QED
    BY <2>1, LeadsHere
<1> QED
  BY <1>1, <1>2, <1>3, <1>4

LEMMA ReadLeads ==
  ASSUME NEW c, Typed(c), NEW x, x = wolfSSL_read(c)
  PROVE  /\ Leads(c, x)
         /\ GotRecord(c, x) => x.read_req_active = c.read_req_active
<1>1. CASE c.state = "open"
  <2>1. x = ReadRecord(c)
    BY <1>1 DEF wolfSSL_read
  <2>2. PICK y : Record(c, y, x)
    BY <1>1, <2>1, RecordIs
  <2>3. Leads(c, x)
    BY <1>1, <2>2, RecordLeads
  <2> QED
    BY <2>2, <2>3 DEF Record, Fed
<1>2. CASE c.state # "open"
  BY <1>2, LeadsHere DEF wolfSSL_read
<1> QED
  BY <1>1, <1>2

LEMMA WriteSslLeads ==
  ASSUME NEW c, Typed(c), NEW x, x = wolfSSL_write(c)
  PROVE  Leads(c, x) /\ Sent(c, x)
<1>1. CASE c.state = "open"
  BY <1>1, SendLeads DEF wolfSSL_write
<1>2. CASE c.state = "flight"
  BY <1>2, SendLeads DEF wolfSSL_write
<1>3. CASE c.state \notin {"open", "flight"}
  BY <1>3, LeadsHere DEF wolfSSL_write, Sent
<1> QED
  BY <1>1, <1>2, <1>3

\* At most a close_notify is sent.
LEMMA ShutdownLeads ==
  ASSUME NEW c, Typed(c), NEW x \in wolfSSL_shutdown(c)
  PROVE  /\ Leads(c, x) /\ Sent(c, x) /\ OwnReads(x) = OwnReads(c)
         /\ \A w \in OwnWrites(x) : w \in OwnWrites(c) \/ w[1].what = "close_notify"
         /\ x.num_write_reqs \in {c.num_write_reqs, c.num_write_reqs + 1}
<1>0. ClientOK(c)
  BY DEF Typed
<1>1. CASE x = c
  BY <1>1, LeadsHere DEF Sent
<1>2. CASE c.state # "none" /\ x = add_write_req(c, "WRITE", "close_notify")
  <2>1. /\ Leads(c, x) /\ OwnReads(x) = OwnReads(c)
        /\ \E v : v[1] = Request(c, "WRITE", "close_notify") /\ v \notin Own(c) /\ Own(x) = Own(c) \cup {v}
    BY <1>2, AddWriteLeads
  <2>2. Sent(c, x) /\ x.num_write_reqs = c.num_write_reqs + 1
    BY <1>0, <1>2 DEF add_write_req, ClientOK, ClientFields, Sent
  <2>3. Request(c, "WRITE", "close_notify").what = "close_notify"
    BY DEF Request
  <2> QED
    BY <2>1, <2>2, <2>3 DEF OwnWrites
<1>3. CASE c.state # "none" /\ x = tls_send(c, "close_notify")
  <2>1. /\ Leads(c, x) /\ Sent(c, x) /\ OwnReads(x) = OwnReads(c)
        /\ Acked(c) => x.requests = c.requests /\ x.num_write_reqs = c.num_write_reqs
        /\ ~Acked(c) =>
              /\ x.num_write_reqs = c.num_write_reqs + 1
              /\ x = add_write_req(c, IF c.active THEN "WRITE" ELSE "ACCEPT_WRITE", "close_notify")
    BY <1>3, SendLeads
  <2>2. CASE Acked(c)
    BY <2>1, <2>2 DEF OwnWrites, Own, Sent
  <2>3. CASE ~Acked(c)
    <3> DEFINE e == IF c.active THEN "WRITE" ELSE "ACCEPT_WRITE"
    <3>0. e \in {"ACCEPT_WRITE", "WRITE"}
      OBVIOUS
    <3>1. x = add_write_req(c, e, "close_notify")
      BY <2>1, <2>3
    <3> HIDE DEF e
    <3>2. \E v : v[1] = Request(c, e, "close_notify") /\ v \notin Own(c) /\ Own(x) = Own(c) \cup {v}
      BY <1>3, <3>0, <3>1, AddWriteLeads
    <3>3. Request(c, e, "close_notify").what = "close_notify"
      BY DEF Request
    <3> QED
      BY <2>1, <2>3, <3>2, <3>3 DEF OwnWrites
  <2> QED
    BY <2>2, <2>3
<1>4. \/ x = c
      \/ c.state # "none" /\ x = add_write_req(c, "WRITE", "close_notify")
      \/ c.state # "none" /\ x = tls_send(c, "close_notify")
  <2>1. CASE c.state = "none"
    BY <2>1 DEF wolfSSL_shutdown
  <2>2. CASE c.state # "none" /\ c.active /\ c.send_data = 0
    BY <2>2 DEF wolfSSL_shutdown
  <2>3. CASE c.state # "none" /\ ~(c.active /\ c.send_data = 0)
    BY <2>3 DEF wolfSSL_shutdown
  <2> QED
    BY <2>1, <2>2, <2>3
<1> QED
  BY <1>1, <1>2, <1>3, <1>4

\* With no write in flight a client can be closed; what is in flight then is a read and
\* the close_notify.
LEMMA ClosedLeads ==
  ASSUME NEW c, Typed(c), c.num_write_reqs = 0, NEW y \in wolfSSL_shutdown(c),
         NEW x, x = Closed(y)
  PROVE  /\ Leads(c, x)
         /\ x.state = "none" /\ x.free /\ ~x.active /\ x.send_data = 0
         /\ x.websocket = c.websocket /\ x.num_write_reqs \in {0, 1}
<1>1. /\ Leads(c, y) /\ Sent(c, y) /\ OwnReads(y) = OwnReads(c)
      /\ \A w \in OwnWrites(y) : w \in OwnWrites(c) \/ w[1].what = "close_notify"
      /\ y.num_write_reqs \in {0, 1}
  BY ShutdownLeads
<1>2. Typed(y) /\ ClientOK(y)
  BY <1>1 DEF Leads, Typed
<1>3. /\ x.state = "none" /\ x.consumed = 0 /\ ~x.active /\ x.send_data = 0 /\ x.free
      /\ x.id = y.id /\ x.conn = y.conn /\ x.requests = y.requests
      /\ x.num_write_reqs = y.num_write_reqs /\ x.read_req_active = y.read_req_active
      /\ x.websocket = y.websocket /\ x.crossed = y.crossed
  BY <1>2 DEF Closed, ClientOK, ClientFields
<1>4. ClientOK(x)
  BY <1>2, TlsAssumption DEF Closed, ClientOK, ClientFields, RecordSize
<1>5. Typed(x)
  BY <1>3, <1>4 DEF Typed, RecordSize
<1>6. Later(c, x)
  BY <1>1, <1>3 DEF Leads, Later
<1>7. Own(x) = Own(y) /\ OwnWrites(x) = OwnWrites(y) /\ OwnReads(x) = OwnReads(y)
  BY <1>3 DEF Own, OwnWrites, OwnReads
<1>8. ASSUME Sound(c) PROVE Sound(x)
  <2>1. OwnWrites(c) = {}
    BY <1>8, FS_EmptySet DEF Sound
  <2>2. Sound(y)
    BY <1>1, <1>8 DEF Leads
  <2> QED
    BY <1>1, <1>3, <1>7, <2>1, <2>2 DEF Sound
<1> QED
  BY <1>1, <1>3, <1>5, <1>6, <1>8 DEF Leads, Sent

\* kill_client.
LEMMA KillLeads ==
  ASSUME NEW c, Typed(c), NEW x, x = kill_client(c)
  PROVE  /\ Leads(c, x)
         /\ Sent(c, [x EXCEPT !.websocket = c.websocket])
         /\ x.websocket = IF c.websocket = "no" THEN "no" ELSE "killed"
         /\ x.last_written = c.last_written /\ x.accept_last_written = c.accept_last_written
         /\ x.num_write_reqs = c.num_write_reqs /\ x.requests = c.requests
<1>1. ClientOK(c)
  BY DEF Typed
<1>2. /\ Sent(c, [x EXCEPT !.websocket = c.websocket])
      /\ x.websocket = IF c.websocket = "no" THEN "no" ELSE "killed"
      /\ x.last_written = c.last_written /\ x.accept_last_written = c.accept_last_written
      /\ x.num_write_reqs = c.num_write_reqs /\ x.requests = c.requests
  BY <1>1 DEF kill_client, ClientOK, ClientFields, Sent
<1>3. x.id = c.id /\ x.conn = c.conn /\ x.free = c.free /\ x.state = c.state
      /\ x.read_req_active = c.read_req_active /\ x.crossed = c.crossed
  BY <1>1 DEF kill_client, ClientOK, ClientFields
<1>4. ClientOK(x)
  BY <1>1 DEF kill_client, ClientOK, ClientFields
<1>5. Typed(x)
  BY <1>1, <1>4 DEF kill_client, ClientOK, ClientFields, Typed
<1> QED
  BY <1>2, <1>3, <1>5, OtherFields

LEMMA CloseLeads ==
  ASSUME NEW c, Typed(c), NEW x \in close_connection(c)
  PROVE  Leads(c, x)
<1> DEFINE k == kill_client(c)
<1>1. Leads(c, k) /\ k.num_write_reqs = c.num_write_reqs /\ Typed(k)
  BY KillLeads DEF Leads
<1>2. x \in IF c.num_write_reqs # 0 THEN {k} ELSE {Closed(y) : y \in wolfSSL_shutdown(k)}
  BY DEF close_connection
<1> HIDE DEF k
<1>3. CASE c.num_write_reqs # 0
  BY <1>1, <1>2, <1>3
<1>4. CASE c.num_write_reqs = 0
  <2>1. PICK y \in wolfSSL_shutdown(k) : x = Closed(y)
    BY <1>2, <1>4
  <2>2. Leads(k, x)
    BY <1>1, <1>4, <2>1, ClosedLeads
  <2> QED
    BY <1>1, <2>2, LeadsOn
<1> QED
  BY <1>3, <1>4

\* One more element of send_data.
LEMMA WriteConnectionLeads ==
  ASSUME NEW c, Typed(c), NEW x, x = write_connection(c)
  PROVE  Leads(c, x)
<1> DEFINE c1 == [c EXCEPT !.send_data = @ + 1]
<1>1. Typed(c1) /\ Leads(c, c1)
  <2>1. ClientOK(c1) /\ Typed(c1)
    BY DEF Typed, ClientOK, ClientFields
  <2>2. /\ c1.id = c.id /\ c1.conn = c.conn /\ c1.free = c.free /\ c1.state = c.state
        /\ c1.read_req_active = c.read_req_active /\ c1.num_write_reqs = c.num_write_reqs
        /\ c1.requests = c.requests /\ c1.crossed = c.crossed
    BY DEF Typed, ClientOK, ClientFields
  <2> HIDE DEF c1
  <2> QED
    BY <2>1, <2>2, OtherFields
<1>2. x = IF c1.send_data = 1 THEN wolfSSL_write(c1) ELSE c1
  BY DEF write_connection
<1> HIDE DEF c1
<1>3. CASE c1.send_data = 1
  <2>1. Leads(c1, x)
    BY <1>1, <1>2, <1>3, WriteSslLeads
  <2> QED
    BY <1>1, <2>1, LeadsOn
<1> QED
  BY <1>1, <1>2, <1>3

\* x differs from c in what the web server knows of the client at most.
SameClient(c, x) ==
  /\ ClientOK(x)
  /\ x.id = c.id /\ x.conn = c.conn /\ x.state = c.state /\ x.consumed = c.consumed
  /\ x.recv_data = c.recv_data /\ x.send_data = c.send_data
  /\ x.last_written = c.last_written /\ x.accept_last_written = c.accept_last_written
  /\ x.read_req_active = c.read_req_active /\ x.num_write_reqs = c.num_write_reqs
  /\ x.active = c.active /\ x.free = c.free /\ x.requests = c.requests
  /\ c.crossed => x.crossed

LEMMA SameLeads ==
  ASSUME NEW c, Typed(c), NEW x, SameClient(c, x)
  PROVE  Leads(c, x)
<1>1. Typed(x)
  BY DEF Typed, SameClient
<1> QED
  BY <1>1, OtherFields DEF SameClient

\* What the web server does with a websocket: entry may be another, too.
Switched(c, x, s) ==
  /\ SameClient(c, x) /\ x.websocket = s
  /\ x.files = c.files /\ x.unanswered = c.unanswered /\ x.crossed = c.crossed

LEMMA SwitchedIs ==
  ASSUME NEW c, ClientOK(c)
  PROVE  /\ Switched(c, [c EXCEPT !.websocket = "open", !.entry = "ws"], "open")
         /\ Switched(c, [c EXCEPT !.websocket = "closing"], "closing")
  BY DEF Switched, SameClient, ClientOK, ClientFields

LEMMA WebsocketLeads ==
  ASSUME NEW c, Typed(c), NEW s \in {"open", "closing"}, NEW x, Switched(c, x, s)
  PROVE  Leads(c, x)
  BY SameLeads DEF Switched

LEMMA AnswerLeads ==
  ASSUME NEW c, Typed(c)
  PROVE  /\ Leads(c, write_connection(c))
         /\ \A s \in {"open", "closing"} :
              \A y : Switched(c, y, s) => Leads(c, write_connection(y))
<1>1. ASSUME NEW s \in {"open", "closing"}, NEW y, Switched(c, y, s)
      PROVE  Leads(c, write_connection(y))
  <2> DEFINE x == write_connection(y)
  <2>1. Leads(c, y)
    BY <1>1, WebsocketLeads
  <2>2. Leads(y, x)
    BY <2>1, WriteConnectionLeads DEF Leads
  <2>3. Leads(c, x)
    BY <2>1, <2>2, LeadsOn
  <2> QED
    BY <2>3
<1> QED
  BY <1>1, WriteConnectionLeads

\* A file read is submitted, or nothing is done: one of two fields of x is another.
Noted(c, x) ==
  /\ SameClient(c, x) /\ x.websocket = c.websocket /\ x.crossed = c.crossed
  /\ x.files > 0 \/ x.unanswered

LEMMA NotedIs ==
  ASSUME NEW c, ClientOK(c)
  PROVE  /\ Noted(c, [c EXCEPT !.files = @ + 1])
         /\ Noted(c, [c EXCEPT !.unanswered = TRUE])
  BY DEF Noted, SameClient, ClientOK, ClientFields

\* A file read ends: one of this client, or of an earlier one.
Loaded(c, x) ==
  /\ SameClient(c, x) /\ x.websocket = c.websocket /\ x.unanswered = c.unanswered
  /\ (x.crossed /\ x.files = c.files) \/ (c.files > 0 /\ x.crossed = c.crossed)

LEMMA LoadedIs ==
  ASSUME NEW c, ClientOK(c)
  PROVE  /\ c.files > 0 => Loaded(c, [c EXCEPT !.files = @ - 1])
         /\ c.late > 0 => Loaded(c, [c EXCEPT !.late = @ - 1, !.crossed = TRUE])
  BY DEF Loaded, SameClient, ClientOK, ClientFields

LEMMA LoadedLeads ==
  ASSUME NEW c, Typed(c), NEW y, Loaded(c, y), NEW x, x = write_connection(y)
  PROVE  Leads(c, x)
<1>1. Leads(c, y)
  BY SameLeads DEF Loaded
<1>2. Leads(y, x)
  BY <1>1, WriteConnectionLeads DEF Leads
<1> QED
  BY <1>1, <1>2, LeadsOn

\* What http_request leads to.
LEMMA RequestIs ==
  ASSUME NEW c, ClientOK(c), NEW x \in http_request(c)
  PROVE  \/ x = write_connection(c)
         \/ Noted(c, x)
         \/ \E y : Switched(c, y, "open") /\ x = add_read_req(write_connection(y), "READ")
<1>1. CASE x = write_connection(c)
  BY <1>1
<1>2. CASE x \in {[c EXCEPT !.files = @ + 1], [c EXCEPT !.unanswered = TRUE]}
  BY <1>2, NotedIs
<1>3. CASE x = add_read_req(write_connection([c EXCEPT !.websocket = "open", !.entry = "ws"]), "READ")
  BY <1>3, SwitchedIs
<1> QED
  BY <1>1, <1>2, <1>3 DEF http_request

\* And frames.
LEMMA FramesAre ==
  ASSUME NEW c, ClientOK(c), NEW x \in frames(c)
  PROVE  \E y : /\ x = add_read_req(y, "READ")
                /\ \/ y = c \/ y = write_connection(c)
                   \/ \E z : Switched(c, z, "closing") /\ y = write_connection(z)
<1>1. PICK y \in {c, write_connection(c), write_connection([c EXCEPT !.websocket = "closing"])} :
        x = add_read_req(y, "READ")
  BY DEF frames
<1> QED
  BY <1>1, SwitchedIs

LEMMA ReadOnLeads ==
  ASSUME NEW c, NEW y, Leads(c, y), NEW x, x = add_read_req(y, "READ")
  PROVE  Leads(c, x)
<1>1. Leads(y, x)
  BY AddReadLeads DEF Leads
<1> QED
  BY <1>1, LeadsOn

LEMMA ReadCbLeads ==
  ASSUME NEW c, Typed(c), NEW x \in read_cb(c)
  PROVE  Leads(c, x)
<1>0. ClientOK(c)
  BY DEF Typed
<1>1. CASE x \in http_request(c)
  <2>1. CASE x = write_connection(c)
    BY <2>1, AnswerLeads
  <2>2. CASE Noted(c, x)
    BY <2>2, SameLeads DEF Noted
  <2>3. ASSUME NEW y, Switched(c, y, "open"), x = add_read_req(write_connection(y), "READ")
        PROVE  Leads(c, x)
    BY <2>3, AnswerLeads, ReadOnLeads
  <2> QED
    BY <1>0, <1>1, <2>1, <2>2, <2>3, RequestIs
<1>2. CASE x \in frames(c)
  <2>1. PICK y : /\ x = add_read_req(y, "READ")
                 /\ \/ y = c \/ y = write_connection(c)
                    \/ \E z : Switched(c, z, "closing") /\ y = write_connection(z)
    BY <1>0, <1>2, FramesAre
  <2>2. Leads(c, y)
    BY <2>1, AnswerLeads, LeadsHere
  <2> QED
    BY <2>1, <2>2, ReadOnLeads
<1>3. CASE x \in close_connection(c)
  BY <1>3, CloseLeads
<1>4. x \in http_request(c) \/ x \in frames(c) \/ x \in close_connection(c)
  <2>1. CASE c.websocket = "no"
    BY <2>1 DEF read_cb
  <2>2. CASE c.websocket = "open"
    BY <2>2 DEF read_cb
  <2>3. CASE c.websocket \notin {"no", "open"}
    BY <2>3 DEF read_cb
  <2> QED
    BY <2>1, <2>2, <2>3
<1> QED
  BY <1>1, <1>2, <1>3, <1>4

LEMMA WriteCbLeads ==
  ASSUME NEW c, Typed(c), NEW listed \in BOOLEAN, NEW x \in write_cb(c, listed)
  PROVE  Leads(c, x)
<1>1. x = c \/ x \in close_connection(c)
  BY DEF write_cb
<1> QED
  BY <1>1, CloseLeads, LeadsHere

LEMMA AcceptedLeads ==
  ASSUME NEW c, Typed(c), c.state = "open", ~c.read_req_active, NEW x \in Accepted(c)
  PROVE  Leads(c, x)
<1> DEFINE c1 == [c EXCEPT !.active = TRUE, !.entry = "blank"]
           c2 == wolfSSL_read(c1)
           c3 == [c2 EXCEPT !.recv_data = <<>>]
           c4 == [c3 EXCEPT !.read_req_active = FALSE]
<1>0. ClientOK(c)
  BY DEF Typed
<1>1. x \in IF GotRecord(c1, c2) THEN read_cb(c4) ELSE {c3}
  BY DEF Accepted
<1>2. Leads(c, c1) /\ ~c1.read_req_active
  <2>1. ClientOK(c1) /\ Typed(c1)
    BY DEF Typed, ClientOK, ClientFields
  <2>2. /\ c1.id = c.id /\ c1.conn = c.conn /\ c1.free = c.free /\ c1.state = c.state
        /\ c1.read_req_active = c.read_req_active /\ c1.num_write_reqs = c.num_write_reqs
        /\ c1.requests = c.requests /\ c1.crossed = c.crossed
    BY DEF Typed, ClientOK, ClientFields
  <2> HIDE DEF c1
  <2> QED
    BY <2>1, <2>2, OtherFields
<1> HIDE DEF c1
<1>3. Leads(c1, c2) /\ (GotRecord(c1, c2) => ~c2.read_req_active)
  BY <1>2, ReadLeads DEF Leads
<1> HIDE DEF c2
<1>4. Leads(c2, c3) /\ c3.read_req_active = c2.read_req_active
  <2>0. ClientOK(c2) /\ Typed(c2)
    BY <1>3 DEF Leads, Typed
  <2>1. ClientOK(c3)
    BY <2>0 DEF ClientOK, ClientFields
  <2>2. /\ c3.id = c2.id /\ c3.conn = c2.conn /\ c3.free = c2.free /\ c3.state = c2.state
        /\ c3.read_req_active = c2.read_req_active /\ c3.num_write_reqs = c2.num_write_reqs
        /\ c3.requests = c2.requests /\ c3.crossed = c2.crossed /\ c3.consumed = c2.consumed
    BY <2>0 DEF ClientOK, ClientFields
  <2> HIDE DEF c3
  <2>3. Typed(c3)
    BY <2>0, <2>1, <2>2 DEF Typed
  <2> QED
    BY <2>2, <2>3, OtherFields
<1> HIDE DEF c3
<1>5. Leads(c, c3)
  <2>1. Leads(c, c2)
    BY <1>2, <1>3, LeadsOn
  <2> QED
    BY <2>1, <1>4, LeadsOn
<1>6. CASE GotRecord(c1, c2)
  <2>1. ClientOK(c3) /\ Typed(c3) /\ ~c3.read_req_active
    BY <1>3, <1>4, <1>5, <1>6 DEF Leads, Typed
  <2>2. ClientOK(c4) /\ Typed(c4)
    BY <2>1 DEF Typed, ClientOK, ClientFields
  <2>3. /\ c4.id = c3.id /\ c4.conn = c3.conn /\ c4.free = c3.free /\ c4.state = c3.state
        /\ c4.read_req_active = c3.read_req_active /\ c4.num_write_reqs = c3.num_write_reqs
        /\ c4.requests = c3.requests /\ c4.crossed = c3.crossed
    BY <2>1 DEF ClientOK, ClientFields
  <2> HIDE DEF c4
  <2>4. Leads(c3, c4)
    BY <2>2, <2>3, OtherFields
  <2>5. Leads(c4, x)
    BY <1>1, <1>6, <2>2, ReadCbLeads
  <2>6. Leads(c3, x)
    BY <2>4, <2>5, LeadsOn
  <2> QED
    BY <1>5, <2>6, LeadsOn
<1>7. CASE ~GotRecord(c1, c2)
  BY <1>1, <1>5, <1>7
<1> QED
  BY <1>6, <1>7

LEMMA AcceptReadLeads ==
  ASSUME NEW c, Typed(c), ~c.read_req_active, NEW x \in accept_read(c)
  PROVE  Leads(c, x)
<1>1. PICK y \in wolfSSL_accept(c) : x \in IF y.state = "open" THEN Accepted(y) ELSE {y}
  BY DEF accept_read
<1>2. Leads(c, y) /\ (y.state = "open" => ~y.read_req_active)
  BY AcceptLeads
<1>3. CASE y.state = "open"
  <2>1. Leads(y, x)
    BY <1>1, <1>2, <1>3, AcceptedLeads DEF Leads
  <2> QED
    BY <1>2, <2>1, LeadsOn
<1> QED
  BY <1>1, <1>2, <1>3

\* The loop of READ is one.
LEMMA LoopExists ==
  ASSUME NEW c, NEW N \in Nat
  PROVE  \E g : g = [m \in 0 .. N |-> IF m = 0 THEN c ELSE ReadOnce(g[m - 1])]
<1> DEFINE P(n) == \E g : g = [m \in 0 .. n |-> IF m = 0 THEN c ELSE ReadOnce(g[m - 1])]
           T == {n \in Nat : ~P(n)}
<1> SUFFICES ASSUME T # {} PROVE FALSE
  OBVIOUS
<1>1. T \subseteq Nat
  OBVIOUS
<1>2. PICK n \in T : \A y \in T : n <= y
  <2> HIDE DEF T
  <2> QED
    BY <1>1, NatLeast
<1>3. n \in Nat /\ ~P(n)
  BY <1>2
<1>4. n # 0
  <2> DEFINE g == [m \in 0 .. 0 |-> c]
  <2>1. g = [m \in 0 .. 0 |-> IF m = 0 THEN c ELSE ReadOnce(g[m - 1])]
    OBVIOUS
  <2>2. P(0)
    BY <2>1
  <2> QED
    BY <1>3, <2>2
<1>5. P(n - 1)
  <2>1. n - 1 \in Nat /\ ~(n <= n - 1)
    BY <1>3, <1>4
  <2>2. n - 1 \notin T
    <3> HIDE DEF T
    <3> QED
      BY <1>2, <2>1
  <2> HIDE DEF P
  <2> QED
    BY <2>1, <2>2
<1>6. PICK f : f = [m \in 0 .. n - 1 |-> IF m = 0 THEN c ELSE ReadOnce(f[m - 1])]
  BY <1>5
<1> DEFINE g == [m \in 0 .. n |-> IF m = n THEN ReadOnce(f[n - 1]) ELSE f[m]]
<1>7. g = [m \in 0 .. n |-> IF m = 0 THEN c ELSE ReadOnce(g[m - 1])]
  <2>1. ASSUME NEW m \in 0 .. n
        PROVE  g[m] = IF m = 0 THEN c ELSE ReadOnce(g[m - 1])
    <3>1. CASE m = 0
      BY <1>3, <1>4, <1>6, <3>1
    <3>2. CASE m = n
      <4>1. g[m] = ReadOnce(f[n - 1]) /\ g[n - 1] = f[n - 1]
        BY <1>3, <1>4, <3>2
      <4> QED
        BY <1>4, <3>2, <4>1
    <3>3. CASE m # 0 /\ m # n
      <4>1. g[m] = f[m] /\ g[m - 1] = f[m - 1] /\ m \in 0 .. n - 1
        BY <1>3, <3>3
      <4>2. f[m] = ReadOnce(f[m - 1])
        BY <1>6, <3>3, <4>1
      <4> QED
        BY <3>3, <4>1, <4>2
    <3> QED
      BY <3>1, <3>2, <3>3
  <2>2. g = [m \in 0 .. n |-> g[m]]
    OBVIOUS
  <2> HIDE DEF g
  <2> QED
    BY <2>1, <2>2
<1>8. P(n)
  BY <1>7
<1> QED
  BY <1>3, <1>8

LEMMA LoopIs ==
  ASSUME NEW c
  PROVE  \E a : /\ a[0] = c /\ ReadLoop(c) = a[Records]
                /\ \A m \in 0 .. Records - 1 : a[m + 1] = ReadOnce(a[m])
<1> DEFINE a == CHOOSE g : g = [m \in 0 .. Records |-> IF m = 0 THEN c ELSE ReadOnce(g[m - 1])]
<1>0. Records \in Nat
  BY TlsAssumption
<1>1. \E g : g = [m \in 0 .. Records |-> IF m = 0 THEN c ELSE ReadOnce(g[m - 1])]
  BY <1>0, LoopExists
<1>2. a = [m \in 0 .. Records |-> IF m = 0 THEN c ELSE ReadOnce(a[m - 1])]
  BY <1>1
<1>3. ReadLoop(c) = a[Records]
  BY DEF ReadLoop
<1> HIDE DEF a
<1>4. a[0] = c
  BY <1>0, <1>2
<1>5. ASSUME NEW m \in 0 .. Records - 1
      PROVE  a[m + 1] = ReadOnce(a[m])
  <2>1. m + 1 \in 0 .. Records /\ m + 1 # 0 /\ (m + 1) - 1 = m
    BY <1>0
  <2>2. a[m + 1] = ReadOnce(a[(m + 1) - 1])
    BY <1>2, <2>1
  <2> QED
    BY <2>1, <2>2
<1> QED
  BY <1>3, <1>4, <1>5

LEMMA LoopLeads ==
  ASSUME NEW c, Typed(c)
  PROVE  Leads(c, ReadLoop(c))
<1>1. PICK a : /\ a[0] = c /\ ReadLoop(c) = a[Records]
               /\ \A m \in 0 .. Records - 1 : a[m + 1] = ReadOnce(a[m])
  BY LoopIs
<1>0. Records \in Nat
  BY TlsAssumption
<1> DEFINE S == {x \in {a[m] : m \in 0 .. Records} : Leads(c, x)}
<1>2. a[0] \in S
  BY <1>0, <1>1, LeadsHere
<1>3. ASSUME NEW m \in 0 .. Records - 1, a[m] \in S
      PROVE  a[m + 1] \in S
  <2> DEFINE y == a[m]
             z == a[m + 1]
  <2>1. Leads(c, y) /\ z = ReadOnce(y)
    BY <1>1, <1>3
  <2>2. z \in {a[j] : j \in 0 .. Records}
    BY <1>0
  <2> HIDE DEF y, z
  <2>3. z = y \/ z = wolfSSL_read(y)
    BY <2>1 DEF ReadOnce
  <2>4. Leads(c, z)
    BY <2>1, <2>3, ReadLeads, LeadsOn DEF Leads
  <2> QED
    BY <2>2, <2>4 DEF z
<1> HIDE DEF S
<1>4. \A m \in 0 .. Records : a[m] \in S
  BY <1>0, <1>2, <1>3, AlwaysIn
<1> QED
  BY <1>0, <1>1, <1>4 DEF S

LEMMA ReadHandlerLeads ==
  ASSUME NEW c, Typed(c), NEW x \in read(c)
  PROVE  Leads(c, x)
<1> DEFINE c1 == ReadLoop(c)
<1>1. Leads(c, c1)
  BY LoopLeads
<1>2. x = add_read_req(c1, "READ") \/ x \in read_cb(c1)
  BY DEF read
<1> HIDE DEF c1
<1>3. Leads(c1, x)
  BY <1>1, <1>2, AddReadLeads, ReadCbLeads DEF Leads
<1> QED
  BY <1>1, <1>3, LeadsOn

\* One write fewer to wait for.
CountedDown(c) == [c EXCEPT !.num_write_reqs = @ - 1]

LEMMA CountedDownIs ==
  ASSUME NEW c, Typed(c), NEW x, x = CountedDown(c)
  PROVE  /\ Typed(x) /\ Sent(c, x) /\ x.num_write_reqs = c.num_write_reqs - 1
         /\ x.requests = c.requests
         /\ x.last_written = c.last_written /\ x.accept_last_written = c.accept_last_written
<1>1. ClientOK(x)
  BY DEF Typed, ClientOK, ClientFields, CountedDown
<1>2. /\ Sent(c, x) /\ x.num_write_reqs = c.num_write_reqs - 1
      /\ x.requests = c.requests
      /\ x.last_written = c.last_written /\ x.accept_last_written = c.accept_last_written
  BY DEF Typed, ClientOK, ClientFields, Sent, CountedDown
<1> QED
  BY <1>1, <1>2 DEF Typed, Sent

LEMMA AcceptWriteLeads ==
  ASSUME NEW c, Typed(c), NEW x \in accept_write(c)
  PROVE  Leads(CountedDown(c), x)
<1> DEFINE c1 == CountedDown(c)
           c2 == [c1 EXCEPT !.accept_last_written = TRUE]
<1>1. c2 = [c EXCEPT !.num_write_reqs = @ - 1, !.accept_last_written = TRUE]
  BY DEF Typed, ClientOK, ClientFields, CountedDown
<1>2. x \in wolfSSL_accept(c2)
  BY <1>1 DEF accept_write
<1>3. Typed(c1)
  BY CountedDownIs
<1> HIDE DEF c1
<1>4. Leads(c1, c2)
  <2>1. ClientOK(c2) /\ Typed(c2)
    BY <1>3 DEF Typed, ClientOK, ClientFields
  <2>2. /\ c2.id = c1.id /\ c2.conn = c1.conn /\ c2.free = c1.free /\ c2.state = c1.state
        /\ c2.read_req_active = c1.read_req_active /\ c2.num_write_reqs = c1.num_write_reqs
        /\ c2.requests = c1.requests /\ c2.crossed = c1.crossed
    BY <1>3 DEF Typed, ClientOK, ClientFields
  <2> HIDE DEF c2
  <2> QED
    BY <2>1, <2>2, OtherFields
<1> HIDE DEF c2
<1>5. Leads(c2, x)
  BY <1>2, <1>4, AcceptLeads DEF Leads
<1>6. Leads(c1, x)
  BY <1>4, <1>5, LeadsOn
<1> QED
  BY <1>6 DEF c1

LEMMA WriteHandlerLeads ==
  ASSUME NEW c, Typed(c), NEW listed \in BOOLEAN, NEW x \in write(c, listed)
  PROVE  Leads(CountedDown(c), x)
<1> DEFINE c1 == CountedDown(c)
           c2 == [c1 EXCEPT !.last_written = TRUE]
           c3 == wolfSSL_write(c2)
           c4 == [c3 EXCEPT !.send_data = @ - 1, !.last_written = FALSE]
<1>1. x \in CASE c.send_data = 0 -> {c1}
              [] c.send_data > 0 /\ ~IsWritten(c2) -> {c3}
              [] OTHER -> {WriteNext(y) : y \in write_cb(c4, listed)}
  BY DEF write, CountedDown
<1>2. Typed(c1) /\ c1.send_data = c.send_data /\ c.send_data \in Nat
  BY CountedDownIs DEF Sent, Typed, ClientOK
<1> HIDE DEF c1
<1>3. Leads(c1, c2) /\ c2.send_data = c1.send_data
  <2>1. ClientOK(c2) /\ Typed(c2)
    BY <1>2 DEF Typed, ClientOK, ClientFields
  <2>2. /\ c2.id = c1.id /\ c2.conn = c1.conn /\ c2.free = c1.free /\ c2.state = c1.state
        /\ c2.read_req_active = c1.read_req_active /\ c2.num_write_reqs = c1.num_write_reqs
        /\ c2.requests = c1.requests /\ c2.crossed = c1.crossed /\ c2.send_data = c1.send_data
    BY <1>2 DEF Typed, ClientOK, ClientFields
  <2> HIDE DEF c2
  <2> QED
    BY <2>1, <2>2, OtherFields
<1> HIDE DEF c2
<1>4. Leads(c2, c3) /\ c3.send_data = c2.send_data
  BY <1>3, WriteSslLeads DEF Leads, Sent
<1> HIDE DEF c3
<1>5. Leads(c1, c3) /\ Typed(c3)
  BY <1>3, <1>4, LeadsOn DEF Leads
<1>6. CASE c.send_data = 0
  BY <1>1, <1>2, <1>6, LeadsHere DEF c1
<1>7. CASE c.send_data > 0 /\ ~IsWritten(c2)
  BY <1>1, <1>2, <1>5, <1>7 DEF c1
<1>8. CASE c.send_data > 0 /\ IsWritten(c2)
  <2>1. PICK y \in write_cb(c4, listed) : x = WriteNext(y)
    BY <1>1, <1>2, <1>8
  <2>2. Leads(c3, c4)
    <3>1. ClientOK(c4) /\ Typed(c4)
      <4>1. c3.send_data > 0 /\ ClientOK(c3) /\ Typed(c3)
        BY <1>2, <1>3, <1>4, <1>5, <1>8 DEF Typed
      <4>2. ClientOK(c4)
        BY <4>1 DEF ClientOK, ClientFields
      <4>3. c4.state = c3.state /\ c4.free = c3.free /\ c4.conn = c3.conn /\ c4.consumed = c3.consumed
        BY <4>1 DEF ClientOK, ClientFields
      <4> QED
        BY <4>1, <4>2, <4>3 DEF Typed
    <3>2. /\ c4.id = c3.id /\ c4.conn = c3.conn /\ c4.free = c3.free /\ c4.state = c3.state
          /\ c4.read_req_active = c3.read_req_active /\ c4.num_write_reqs = c3.num_write_reqs
          /\ c4.requests = c3.requests /\ c4.crossed = c3.crossed
      BY <1>5 DEF Typed, ClientOK, ClientFields
    <3> HIDE DEF c4
    <3> QED
      BY <3>1, <3>2, OtherFields
  <2> HIDE DEF c4
  <2>3. Leads(c4, y)
    BY <2>1, <2>2, WriteCbLeads DEF Leads
  <2>4. Leads(y, x)
    BY <2>1, <2>3, WriteSslLeads, LeadsHere DEF Leads, WriteNext
  <2>5. Leads(c1, c4)
    BY <1>5, <2>2, LeadsOn
  <2>6. Leads(c1, y)
    BY <2>3, <2>5, LeadsOn
  <2>7. Leads(c1, x)
    BY <2>4, <2>6, LeadsOn
  <2> QED
    BY <2>7 DEF c1
<1> QED
  BY <1>2, <1>6, <1>7, <1>8

LEMMA CloseLoopLeads ==
  ASSUME NEW c, Typed(c), NEW x \in CloseLoop(c)
  PROVE  Leads(c, x)
<1> DEFINE c1 == [c EXCEPT !.send_data = 0, !.last_written = FALSE]
<1>1. Leads(c, c1)
  <2>1. ClientOK(c1) /\ Typed(c1)
    BY DEF Typed, ClientOK, ClientFields
  <2>2. /\ c1.id = c.id /\ c1.conn = c.conn /\ c1.free = c.free /\ c1.state = c.state
        /\ c1.read_req_active = c.read_req_active /\ c1.num_write_reqs = c.num_write_reqs
        /\ c1.requests = c.requests /\ c1.crossed = c.crossed
    BY DEF Typed, ClientOK, ClientFields
  <2> HIDE DEF c1
  <2> QED
    BY <2>1, <2>2, OtherFields
<1>2. x \in close_connection(c1)
  BY DEF CloseLoop
<1> HIDE DEF c1
<1>3. Leads(c1, x)
  BY <1>1, <1>2, CloseLeads DEF Leads
<1> QED
  BY <1>1, <1>3, LeadsOn

-----------------------------------------------------------------------------
(* The handlers.                                                           *)

\* A completion takes the request away.
LEMMA DoneIs ==
  ASSUME NEW c, Typed(c), NEW r \in BagToSet(c.requests), NEW x, x = Done(c, r)
  PROVE  /\ Typed(x) /\ Later(c, x) /\ Sent(c, x) /\ x.num_write_reqs = c.num_write_reqs
         /\ x.last_written = c.last_written /\ x.accept_last_written = c.accept_last_written
         /\ BagToSet(x.requests) \subseteq BagToSet(c.requests)
         /\ r.ID = c.id => \E v \in Own(c) : v[1] = r /\ Own(x) = Own(c) \ {v}
         /\ r.ID # c.id => Own(x) = Own(c)
<1> DEFINE B == c.requests (-) SetToBag({r})
<1>1. ClientOK(c) /\ IsABag(c.requests)
  BY DEF Typed, ClientOK
<1>2. IsABag(B) /\ BagToSet(B) \subseteq BagToSet(c.requests)
  BY <1>1, BagTaken
<1>3. x = [c EXCEPT !.requests = B]
  BY DEF Done
<1> HIDE DEF B
<1>4. /\ Sent(c, x) /\ x.num_write_reqs = c.num_write_reqs
      /\ x.last_written = c.last_written /\ x.accept_last_written = c.accept_last_written
      /\ x.requests = B
  BY <1>1, <1>3 DEF ClientOK, ClientFields, Sent
<1>5. ClientOK(x)
  BY <1>1, <1>2, <1>3 DEF ClientOK, ClientFields
<1>6. Typed(x) /\ Later(c, x)
  BY <1>2, <1>4, <1>5 DEF Typed, Later, Sent
<1>7. x.id = c.id /\ x.requests = c.requests (-) SetToBag({r})
  BY <1>4 DEF Sent, B
<1>8. /\ r.ID = c.id => \E v \in Own(c) : v[1] = r /\ Own(x) = Own(c) \ {v}
      /\ r.ID # c.id => Own(x) = Own(c)
  BY <1>1, <1>7, OwnTaken
<1> QED
  BY <1>2, <1>4, <1>6, <1>8

\* Nothing but the requests counts for Sound here.
LEMMA DoneSound ==
  ASSUME NEW c, Typed(c), Sound(c), NEW r \in BagToSet(c.requests), NEW x, x = Done(c, r)
  PROVE  /\ r.ID # c.id \/ r.what = "read" => Sound(x)
         /\ r.ID = c.id /\ r.what = "read" => OwnReads(x) = {} /\ OwnWrites(x) = OwnWrites(c)
         /\ r.ID = c.id /\ r.what # "read" => Sound(CountedDown(x)) /\ OwnReads(x) = OwnReads(c)
<1>1. /\ Typed(x) /\ Sent(c, x) /\ x.num_write_reqs = c.num_write_reqs
      /\ r.ID = c.id => \E v \in Own(c) : v[1] = r /\ Own(x) = Own(c) \ {v}
      /\ r.ID # c.id => Own(x) = Own(c)
  BY DoneIs
<1>2. CASE r.ID # c.id
  <2>1. Own(x) = Own(c) /\ OwnWrites(x) = OwnWrites(c) /\ OwnReads(x) = OwnReads(c)
    BY <1>1, <1>2 DEF OwnWrites, OwnReads
  <2> QED
    BY <1>1, <1>2, <2>1 DEF Sound, Sent
<1>3. CASE r.ID = c.id /\ r.what = "read"
  <2>1. PICK v \in Own(c) : v[1] = r /\ Own(x) = Own(c) \ {v}
    BY <1>1, <1>3
  <2>2. OwnWrites(x) = OwnWrites(c) /\ OwnReads(x) = OwnReads(c) \ {v} /\ v \in OwnReads(c)
    BY <1>3, <2>1 DEF OwnWrites, OwnReads
  <2>3. OwnReads(x) = {}
    BY <2>2 DEF Sound
  <2> QED
    BY <1>1, <1>3, <2>1, <2>2, <2>3 DEF Sound, Sent
<1>4. CASE r.ID = c.id /\ r.what # "read"
  <2> DEFINE y == CountedDown(x)
  <2>1. PICK v \in Own(c) : v[1] = r /\ Own(x) = Own(c) \ {v}
    BY <1>1, <1>4
  <2>2. OwnWrites(x) = OwnWrites(c) \ {v} /\ OwnReads(x) = OwnReads(c) /\ v \in OwnWrites(c)
    BY <1>4, <2>1 DEF OwnWrites, OwnReads
  <2>3. Sent(x, y) /\ y.num_write_reqs = c.num_write_reqs - 1 /\ y.requests = x.requests
    BY <1>1, CountedDownIs
  <2> HIDE DEF y
  <2>4. Own(y) = Own(x) /\ OwnWrites(y) = OwnWrites(x) /\ OwnReads(y) = OwnReads(x)
    BY <2>3 DEF Own, OwnWrites, OwnReads, Sent
  <2>5. IsFiniteSet(OwnWrites(y)) /\ Cardinality(OwnWrites(y)) = Cardinality(OwnWrites(c)) - 1
    BY <2>2, <2>4, FS_RemoveElement DEF Sound
  <2>6. Sound(y)
    BY <1>1, <2>1, <2>2, <2>3, <2>4, <2>5 DEF Sound, Sent
  <2> QED
    BY <1>4, <2>2, <2>6 DEF y
<1> QED
  BY <1>2, <1>3, <1>4

\* The data of a read.
Bytes(a, n) == [m \in 1 .. n - a |-> a + m]

LEMMA ReceivedIs ==
  ASSUME TypeOK, NEW c, Typed(c), NEW k \in Conns, NEW n \in ReadEnds(k),
         NEW x, x = Received(c, k, n)
  PROVE  /\ Typed(x) /\ ~x.read_req_active /\ x.requests = c.requests
         /\ x.id = c.id /\ x.conn = c.conn /\ x.state = c.state /\ x.consumed = c.consumed
         /\ x.send_data = c.send_data /\ x.websocket = c.websocket /\ x.active = c.active
         /\ x.free = c.free /\ x.num_write_reqs = c.num_write_reqs
         /\ x.last_written = c.last_written /\ x.accept_last_written = c.accept_last_written
         /\ x.crossed = c.crossed /\ x.files = c.files /\ x.unanswered = c.unanswered
         /\ Sound(c) /\ OwnReads(c) = {} => Sound(x)
<1> DEFINE q == Bytes(taken[k], n)
           d == c.recv_data \o q
<1>1. ClientOK(c)
  BY DEF Typed
<1>2. q \in Seq(1 .. Records * RecordSize)
  <2>1. taken[k] \in Nat /\ n \in taken[k] + 1 .. Records * RecordSize /\ Records * RecordSize \in Nat
    BY TlsAssumption DEF TypeOK, ReadEnds, RecordSize
  <2>2. n - taken[k] \in Nat
    BY <2>1
  <2>3. q \in [1 .. n - taken[k] -> 1 .. Records * RecordSize]
    BY <2>1 DEF Bytes
  <2> HIDE DEF q
  <2> QED
    BY <2>2, <2>3, SeqDef
<1>3. d \in Seq(1 .. Records * RecordSize)
  <2> HIDE DEF q
  <2> QED
    BY <1>1, <1>2, ConcatProperties DEF ClientOK
<1>4. x = [c EXCEPT !.read_req_active = FALSE, !.recv_data = d]
  BY DEF Received, Bytes
<1> HIDE DEF d
<1>5. /\ ~x.read_req_active /\ x.requests = c.requests /\ x.recv_data = d
      /\ x.id = c.id /\ x.conn = c.conn /\ x.state = c.state /\ x.consumed = c.consumed
      /\ x.send_data = c.send_data /\ x.websocket = c.websocket /\ x.active = c.active
      /\ x.free = c.free /\ x.num_write_reqs = c.num_write_reqs
      /\ x.last_written = c.last_written /\ x.accept_last_written = c.accept_last_written
      /\ x.crossed = c.crossed /\ x.files = c.files /\ x.unanswered = c.unanswered
  BY <1>1, <1>4 DEF ClientOK, ClientFields
<1>6. ClientOK(x)
  BY <1>1, <1>3, <1>4 DEF ClientOK, ClientFields
<1>7. Typed(x)
  BY <1>5, <1>6 DEF Typed
<1>8. Own(x) = Own(c) /\ OwnWrites(x) = OwnWrites(c) /\ OwnReads(x) = OwnReads(c)
  BY <1>5 DEF Own, OwnWrites, OwnReads
<1>9. Sound(c) /\ OwnReads(c) = {} => Sound(x)
  BY <1>5, <1>8 DEF Sound
<1> QED
  BY <1>5, <1>7, <1>9 DEF d

\* What a completion of r makes of slot i.
ReadTo(i, r, n) ==
  LET c == Done(clients[i], r)
  IN IF Stale(i, r) THEN {c}
     ELSE IF r.event = "READ" THEN read(Received(c, r.conn, n))
     ELSE accept_read(Received(c, r.conn, n))

WriteTo(i, r) ==
  LET c == Done(clients[i], r)
  IN IF Stale(i, r) THEN {c}
     ELSE IF r.event = "WRITE" THEN UNION {write(c, listed) : listed \in BOOLEAN}
     ELSE accept_write(c)

FailTo(i, r) ==
  LET c == Done(clients[i], r)
      c1 == IF r.what = "read" THEN c ELSE [c EXCEPT !.num_write_reqs = @ - 1]
  IN IF c.id # r.ID THEN {c} ELSE IF c1.num_write_reqs = 0 THEN CloseLoop(c1) ELSE {c1}

\* In a slot other than 0 the handlers keep Sound too.
Handled(i, c, x) == Typed(x) /\ Later(c, x) /\ (i # 0 /\ Sound(c) => Sound(x))

LEMMA HandledOn ==
  ASSUME NEW i, NEW c, NEW y, NEW x, Leads(y, x), Later(c, y), i # 0 /\ Sound(c) => Sound(y)
  PROVE  Handled(i, c, x)
  BY DEF Leads, Later, Handled

LEMMA ReadHandled ==
  ASSUME TypeOK, NEW i \in Slots, Typed(clients[i]), NEW r \in BagToSet(clients[i].requests),
         r.what = "read", r.conn # None, NEW n \in ReadEnds(r.conn), NEW x \in ReadTo(i, r, n)
  PROVE  Handled(i, clients[i], x)
<1> DEFINE c == clients[i]
           d == Done(c, r)
           y == Received(d, r.conn, n)
<1>0. i \in Int /\ i >= 0 /\ r.conn \in Conns
  BY TlsAssumption DEF Typed, ClientOK, Requests, Slots
<1>1. /\ Typed(d) /\ Later(c, d) /\ Sent(c, d)
      /\ BagToSet(d.requests) \subseteq BagToSet(c.requests)
  BY DoneIs
<1>2. CASE Stale(i, r)
  <2>1. x = d /\ r.ID # c.id
    BY <1>2 DEF ReadTo, Stale
  <2>2. Sound(c) => Sound(d)
    BY <2>1, DoneSound
  <2> HIDE DEF d
  <2> QED
    BY <1>1, <2>1, <2>2 DEF Handled
<1>3. CASE ~Stale(i, r)
  <2>1. x \in read(y) \/ x \in accept_read(y)
    BY <1>3 DEF ReadTo
  <2>2. i # 0 => r.ID = c.id
    BY <1>0, <1>3 DEF Stale
  <2>3. i # 0 /\ Sound(c) => Sound(d) /\ OwnReads(d) = {}
    BY <2>2, DoneSound
  <2> HIDE DEF d
  <2>4. /\ Typed(y) /\ ~y.read_req_active /\ y.requests = d.requests
        /\ y.id = d.id /\ y.conn = d.conn /\ y.crossed = d.crossed
        /\ Sound(d) /\ OwnReads(d) = {} => Sound(y)
    BY <1>0, <1>1, ReceivedIs
  <2> HIDE DEF y
  <2>5. Leads(y, x)
    BY <2>1, <2>4, ReadHandlerLeads, AcceptReadLeads
  <2>6. Later(c, y)
    BY <1>1, <2>4 DEF Later
  <2> QED
    BY <2>3, <2>4, <2>5, <2>6, HandledOn
<1> QED
  BY <1>2, <1>3

LEMMA WriteHandled ==
  ASSUME NEW i \in Slots, Typed(clients[i]), NEW r \in BagToSet(clients[i].requests),
         r.what # "read", NEW x \in WriteTo(i, r)
  PROVE  Handled(i, clients[i], x)
<1> DEFINE c == clients[i]
           d == Done(c, r)
           y == CountedDown(d)
<1>0. i \in Int /\ i >= 0
  BY TlsAssumption DEF Slots
<1>1. Typed(d) /\ Later(c, d) /\ Sent(c, d)
  BY DoneIs
<1>2. CASE Stale(i, r)
  <2>1. x = d /\ r.ID # c.id
    BY <1>2 DEF WriteTo, Stale
  <2>2. Sound(c) => Sound(d)
    BY <2>1, DoneSound
  <2> HIDE DEF d
  <2> QED
    BY <1>1, <2>1, <2>2 DEF Handled
<1>3. CASE ~Stale(i, r)
  <2>1. (\E listed \in BOOLEAN : x \in write(d, listed)) \/ x \in accept_write(d)
    BY <1>3 DEF WriteTo
  <2>2. i # 0 => r.ID = c.id
    BY <1>0, <1>3 DEF Stale
  <2>3. i # 0 /\ Sound(c) => Sound(y)
    BY <2>2, DoneSound
  <2> HIDE DEF d
  <2>4. Sent(d, y) /\ y.requests = d.requests
    BY <1>1, CountedDownIs
  <2>5. Leads(y, x)
    BY <1>1, <2>1, WriteHandlerLeads, AcceptWriteLeads
  <2> HIDE DEF y
  <2>6. Later(c, y)
    BY <1>1, <2>4 DEF Later, Sent
  <2> QED
    BY <2>3, <2>5, <2>6, HandledOn
<1> QED
  BY <1>2, <1>3

LEMMA FailHandled ==
  ASSUME NEW i \in Slots, Typed(clients[i]), NEW r \in BagToSet(clients[i].requests),
         NEW x \in FailTo(i, r)
  PROVE  Handled(i, clients[i], x)
<1> DEFINE c == clients[i]
           d == Done(c, r)
           y == IF r.what = "read" THEN d ELSE CountedDown(d)
<1>1. Typed(d) /\ Later(c, d) /\ Sent(c, d)
  BY DoneIs
<1>d. d.id = c.id
  BY <1>1 DEF Sent
<1>2. x \in IF d.id # r.ID THEN {d} ELSE IF y.num_write_reqs = 0 THEN CloseLoop(y) ELSE {y}
  BY DEF FailTo, CountedDown
<1>3. CASE r.ID # c.id
  <2>1. Sound(c) => Sound(d)
    BY <1>3, DoneSound
  <2> HIDE DEF d
  <2> QED
    BY <1>1, <1>2, <1>3, <1>d, <2>1 DEF Handled
<1>4. CASE r.ID = c.id
  <2>1. Sound(c) => Sound(y)
    BY <1>4, DoneSound
  <2> HIDE DEF d
  <2>2. Typed(y) /\ Sent(d, y) /\ y.requests = d.requests
    BY <1>1, CountedDownIs DEF Sent
  <2> HIDE DEF y
  <2>3. Later(c, y)
    BY <1>1, <2>2 DEF Later, Sent
  <2>4. Leads(y, x)
    BY <1>2, <1>4, <1>d, <2>2, CloseLoopLeads, LeadsHere
  <2> QED
    BY <2>1, <2>3, <2>4, HandledOn
<1> QED
  BY <1>3, <1>4

\* The handlers as steps.
LEMMA HandlerSteps ==
  ASSUME NEW i \in Slots, NEW r
  PROVE  /\ ReadDone(i, r) =>
              /\ r.what = "read" /\ r.conn # None
              /\ \E n \in ReadEnds(r.conn) : \E x \in ReadTo(i, r, n) :
                   /\ taken' = [taken EXCEPT ![r.conn] = n]
                   /\ clients' = [clients EXCEPT ![i] = x]
              /\ UNCHANGED <<size, accepted, flown, gone>>
         /\ WriteDone(i, r) =>
              /\ r.what # "read" /\ r.conn # None
              /\ \E x \in WriteTo(i, r) : clients' = [clients EXCEPT ![i] = x]
              /\ flown' = IF r.what = "flight" THEN flown \cup {r.conn} ELSE flown
              /\ UNCHANGED <<size, accepted, taken, gone>>
         /\ Fail(i, r) =>
              /\ r.conn \in gone \cup {None}
              /\ \E x \in FailTo(i, r) : clients' = [clients EXCEPT ![i] = x]
              /\ UNCHANGED <<size, accepted, taken, flown, gone>>
         /\ FailUndefined(i, r) => UNCHANGED <<clients, size, accepted, taken, flown, gone>>
<1>1. ReadDone(i, r) =>
              /\ r.what = "read" /\ r.conn # None
              /\ \E n \in ReadEnds(r.conn) : \E x \in ReadTo(i, r, n) :
                   /\ taken' = [taken EXCEPT ![r.conn] = n]
                   /\ clients' = [clients EXCEPT ![i] = x]
              /\ UNCHANGED <<size, accepted, flown, gone>>
  BY Zenon DEF ReadDone, ReadTo, Becomes
<1>2. WriteDone(i, r) =>
              /\ r.what # "read" /\ r.conn # None
              /\ \E x \in WriteTo(i, r) : clients' = [clients EXCEPT ![i] = x]
              /\ flown' = IF r.what = "flight" THEN flown \cup {r.conn} ELSE flown
              /\ UNCHANGED <<size, accepted, taken, gone>>
  <2> SUFFICES ASSUME WriteDone(i, r)
               PROVE  \E x \in WriteTo(i, r) : clients' = [clients EXCEPT ![i] = x]
    BY Zenon DEF WriteDone
  <2> DEFINE c == Done(clients[i], r)
             X(l) == IF Stale(i, r) THEN {c}
                     ELSE IF r.event = "WRITE" THEN write(c, l) ELSE accept_write(c)
  <2>1. PICK l \in Listed : \E x \in X(l) : clients' = [clients EXCEPT ![i] = x]
    BY Zenon DEF WriteDone, Becomes
  <2>2. PICK x \in X(l) : clients' = [clients EXCEPT ![i] = x]
    BY <2>1
  <2>3. l \in BOOLEAN
    BY DEF Listed
  <2>4. x \in WriteTo(i, r)
    <3>1. CASE Stale(i, r)
      BY <2>2, <3>1 DEF WriteTo
    <3>2. CASE ~Stale(i, r) /\ r.event = "WRITE"
      BY <2>2, <2>3, <3>2 DEF WriteTo
    <3>3. CASE ~Stale(i, r) /\ r.event # "WRITE"
      BY <2>2, <3>3 DEF WriteTo
    <3> QED
      BY <3>1, <3>2, <3>3
  <2> QED
    BY <2>2, <2>4
<1>3. Fail(i, r) =>
              /\ r.conn \in gone \cup {None}
              /\ \E x \in FailTo(i, r) : clients' = [clients EXCEPT ![i] = x]
              /\ UNCHANGED <<size, accepted, taken, flown, gone>>
  BY Zenon DEF Fail, FailTo, Becomes
<1>4. FailUndefined(i, r) => UNCHANGED <<clients, size, accepted, taken, flown, gone>>
  BY DEF FailUndefined
<1> QED
  BY <1>1, <1>2, <1>3, <1>4

\* And the end of a file read.
LEMMA FileSteps ==
  ASSUME NEW i \in Slots, ClientOK(clients[i]), FileDone(i)
  PROVE  /\ \E y : Loaded(clients[i], y) /\ clients' = [clients EXCEPT ![i] = write_connection(y)]
         /\ UNCHANGED <<size, accepted, taken, flown, gone>>
         /\ clients[i].files > 0 \/ clients[i].late > 0
<1>1. CASE /\ clients[i].files > 0
           /\ clients' = [clients EXCEPT ![i] = write_connection([clients[i] EXCEPT !.files = @ - 1])]
  BY <1>1, LoadedIs DEF FileDone
<1>2. CASE /\ clients[i].late > 0
           /\ clients' = [clients EXCEPT ![i] =
                 write_connection([clients[i] EXCEPT !.late = @ - 1, !.crossed = TRUE])]
  BY <1>2, LoadedIs DEF FileDone
<1> QED
  BY <1>1, <1>2 DEF FileDone, Becomes

-----------------------------------------------------------------------------
(* Steps.                                                                  *)

TypeInv == TypeOK /\ \A i \in Slots : Typed(clients[i])

LEMMA NewSlotIs ==
  ASSUME TypeOK, NewSlot < MaxSlots
  PROVE  /\ NewSlot \in Slots
         /\ clients[NewSlot].free \/ NewSlot = size
         /\ NewSlot = size \/ Freed # {}
<1>1. Freed \subseteq Int /\ \A x \in Freed : x >= -1
  BY TlsAssumption DEF Freed, Slots
<1>2. CASE Freed # {}
  <2>1. Min(Freed) \in Freed
    BY <1>1, <1>2, MinLeast
  <2> QED
    BY <1>2, <2>1 DEF NewSlot, Freed
<1>3. CASE Freed = {}
  BY <1>3, TlsAssumption DEF NewSlot, TypeOK, Slots
<1> QED
  BY <1>2, <1>3

\* The record of a new client before wolfSSL_accept.
Hallo(c, k) == [setup_client(c, k) EXCEPT !.state = "hello"]

LEMMA HalloIs ==
  ASSUME NEW c, ClientOK(c), NEW k \in Conns, NEW x, x = Hallo(c, k)
  PROVE  /\ Typed(x) /\ x.requests = c.requests /\ x.conn = k /\ x.state = "hello"
         /\ x.id = IF c.free THEN (c.id + 1) % IdRange ELSE -1
         /\ x.consumed = 0 /\ x.recv_data = <<>> /\ x.send_data = 0 /\ x.num_write_reqs = 0
         /\ ~x.last_written /\ ~x.accept_last_written /\ ~x.read_req_active
         /\ ~x.active /\ ~x.free /\ x.websocket = "no" /\ x.files = 0
<1>1. /\ x.requests = c.requests /\ x.conn = k /\ x.state = "hello"
      /\ x.id = IF c.free THEN (c.id + 1) % IdRange ELSE -1
      /\ x.consumed = 0 /\ x.recv_data = <<>> /\ x.send_data = 0 /\ x.num_write_reqs = 0
      /\ ~x.last_written /\ ~x.accept_last_written /\ ~x.read_req_active
      /\ ~x.active /\ ~x.free /\ x.websocket = "no" /\ x.files = 0
      /\ x.late = c.late + c.files /\ x.entry = c.entry
  BY DEF Hallo, setup_client, new_client
<1>2. DOMAIN x = ClientFields /\ x.last_written = FALSE /\ x.accept_last_written = FALSE
      /\ x.read_req_active = FALSE /\ x.active = FALSE /\ x.free = FALSE
      /\ x.unanswered = FALSE /\ x.crossed = FALSE /\ x.stray = c.stray
  BY DEF Hallo, setup_client, new_client, ClientFields
<1>3. x.id \in -1 .. IdRange - 1
  <2>1. c.id \in -1 .. 99
    BY DEF ClientOK, IdRange
  <2>2. (c.id + 1) % 100 \in 0 .. 99
    BY <2>1
  <2> QED
    BY <1>1, <2>2 DEF IdRange
<1>4. 0 \in 0 .. Records * RecordSize /\ <<>> \in Seq(1 .. Records * RecordSize)
  BY TlsAssumption DEF RecordSize
<1>5. IsABag(x.requests) /\ BagToSet(x.requests) \subseteq Requests
  BY <1>1 DEF ClientOK
<1>6. ClientOK(x)
  <2>1. x.conn \in Conns \cup {None} /\ x.send_data \in Nat /\ x.num_write_reqs \in Int
    BY <1>1
  <2>2. x.consumed \in 0 .. Records * RecordSize /\ x.recv_data \in Seq(1 .. Records * RecordSize)
    BY <1>1, <1>4
  <2>3. /\ x.state \in {"none", "hello", "flight", "finished", "open", "refused", "broken"}
        /\ x.websocket \in {"no", "open", "closing", "killed"}
    BY <1>1
  <2>4. /\ x.last_written \in BOOLEAN /\ x.accept_last_written \in BOOLEAN
        /\ x.read_req_active \in BOOLEAN /\ x.active \in BOOLEAN /\ x.free \in BOOLEAN
    BY <1>2
  <2>5. x.files \in Nat /\ x.late \in Nat /\ x.entry \in {"none", "blank", "ws"}
    BY <1>1 DEF ClientOK
  <2>6. x.unanswered \in BOOLEAN /\ x.crossed \in BOOLEAN
    BY <1>2
  <2>7. c.stray \in BOOLEAN
    BY DEF ClientOK
  <2>8. x.stray \in BOOLEAN
    BY <1>2, <2>7, Zenon
  <2> QED
    BY <1>2, <1>3, <1>5, <2>1, <2>2, <2>3, <2>4, <2>5, <2>6, <2>8 DEF ClientOK
<1> QED
  BY <1>1, <1>6 DEF Typed, RecordSize

LEMMA AcceptIs ==
  ASSUME TypeInv, Accept
  PROVE  /\ NewSlot \in Slots /\ accepted + 1 \in Conns
         /\ \E x \in wolfSSL_accept(Hallo(clients[NewSlot], accepted + 1)) :
              clients' = [clients EXCEPT ![NewSlot] = x]
         /\ size' = IF NewSlot = size THEN size + 1 ELSE size
         /\ accepted' = accepted + 1 /\ accepted' \in 0 .. MaxConns
         /\ UNCHANGED <<taken, flown, gone>>
<1>1. NewSlot \in Slots
  BY NewSlotIs DEF Accept, TypeInv
<1>2. accepted + 1 \in Conns /\ accepted + 1 \in 0 .. MaxConns
  BY TlsAssumption DEF Accept, TypeInv, TypeOK, Conns
<1>3. \E x \in wolfSSL_accept(Hallo(clients[NewSlot], accepted + 1)) :
              clients' = [clients EXCEPT ![NewSlot] = x]
  BY Zenon DEF Accept, Becomes, Hallo
<1> QED
  BY <1>1, <1>2, <1>3 DEF Accept

\* One slot is given another record.
LEMMA OneSlot ==
  ASSUME NEW i \in Slots, NEW x, DOMAIN clients = Slots, clients' = [clients EXCEPT ![i] = x]
  PROVE  /\ DOMAIN clients' = Slots /\ clients'[i] = x
         /\ \A j \in Slots : j # i => clients'[j] = clients[j]
  OBVIOUS

LEMMA HandledHere ==
  ASSUME NEW i, NEW c, Typed(c)
  PROVE  Handled(i, c, c)
  BY DEF Handled, Later

\* A step handles every slot, except that a new client may take one.
LEMMA StepHandles ==
  ASSUME TypeInv, [Next]_vars, NEW i \in Slots
  PROVE  /\ DOMAIN clients' = Slots
         /\ Handled(i, clients[i], clients'[i]) \/ (Accept /\ i = NewSlot)
<1>0. /\ TypeOK /\ DOMAIN clients = Slots /\ \A j \in Slots : Typed(clients[j])
  BY DEF TypeInv, TypeOK
<1> DEFINE Goal == /\ DOMAIN clients' = Slots
                   /\ Handled(i, clients[i], clients'[i]) \/ (Accept /\ i = NewSlot)
<1>s. ASSUME clients' = clients PROVE Goal
  BY <1>0, <1>s, HandledHere
<1>h. ASSUME NEW j \in Slots, NEW x, clients' = [clients EXCEPT ![j] = x], Handled(j, clients[j], x)
      PROVE  Goal
  <2>1. DOMAIN clients' = Slots /\ clients'[j] = x /\ (i # j => clients'[i] = clients[i])
    BY <1>0, <1>h, OneSlot
  <2> QED
    BY <1>0, <1>h, <2>1, HandledHere
<1> HIDE DEF Goal
<1>1. CASE Accept
  <2>1. PICK x : NewSlot \in Slots /\ clients' = [clients EXCEPT ![NewSlot] = x]
    BY <1>1, AcceptIs
  <2>2. DOMAIN clients' = Slots /\ (i # NewSlot => clients'[i] = clients[i])
    BY <1>0, <2>1, OneSlot
  <2>3. i # NewSlot => Handled(i, clients[i], clients'[i])
    BY <1>0, <2>2, HandledHere
  <2> QED
    BY <1>1, <2>2, <2>3 DEF Goal
<1>2. ASSUME NEW j \in Slots, NEW r \in BagToSet(clients[j].requests), ReadDone(j, r)
      PROVE  Goal
  <2>1. /\ r.what = "read" /\ r.conn # None
        /\ \E n \in ReadEnds(r.conn) : \E x \in ReadTo(j, r, n) : clients' = [clients EXCEPT ![j] = x]
    BY <1>2, HandlerSteps
  <2>2. PICK n \in ReadEnds(r.conn) : \E x \in ReadTo(j, r, n) : clients' = [clients EXCEPT ![j] = x]
    BY <2>1
  <2>3. PICK x \in ReadTo(j, r, n) : clients' = [clients EXCEPT ![j] = x]
    BY <2>2
  <2>4. Handled(j, clients[j], x)
    BY <1>0, <2>1, ReadHandled
  <2> QED
    BY <1>h, <2>3, <2>4
<1>3. ASSUME NEW j \in Slots, NEW r \in BagToSet(clients[j].requests), WriteDone(j, r)
      PROVE  Goal
  <2>1. /\ r.what # "read"
        /\ \E x \in WriteTo(j, r) : clients' = [clients EXCEPT ![j] = x]
    BY <1>3, HandlerSteps
  <2>2. PICK x \in WriteTo(j, r) : clients' = [clients EXCEPT ![j] = x]
    BY <2>1
  <2>3. Handled(j, clients[j], x)
    BY <1>0, <2>1, WriteHandled
  <2> QED
    BY <1>h, <2>2, <2>3
<1>4. ASSUME NEW j \in Slots, NEW r \in BagToSet(clients[j].requests), Fail(j, r)
      PROVE  Goal
  <2>1. PICK x \in FailTo(j, r) : clients' = [clients EXCEPT ![j] = x]
    BY <1>4, HandlerSteps
  <2>2. Handled(j, clients[j], x)
    BY <1>0, FailHandled
  <2> QED
    BY <1>h, <2>1, <2>2
<1>u. ASSUME NEW j \in Slots, NEW r, FailUndefined(j, r) PROVE Goal
  BY <1>s, <1>u DEF FailUndefined
<1>f. ASSUME NEW j \in Slots, FileDone(j) PROVE Goal
  <2>1. PICK y : Loaded(clients[j], y) /\ clients' = [clients EXCEPT ![j] = write_connection(y)]
    BY <1>0, <1>f, FileSteps DEF Typed
  <2>2. Handled(j, clients[j], write_connection(y))
    BY <1>0, <2>1, LoadedLeads DEF Leads, Handled
  <2> QED
    BY <1>h, <2>1, <2>2
<1>5. CASE Reap
  <2>1. PICK j \in Slots : \E x \in CloseLoop(clients[j]) : clients' = [clients EXCEPT ![j] = x]
    BY <1>5 DEF Reap, Becomes
  <2>2. PICK x \in CloseLoop(clients[j]) : clients' = [clients EXCEPT ![j] = x]
    BY <2>1
  <2>3. Handled(j, clients[j], x)
    BY <1>0, CloseLoopLeads DEF Leads, Handled
  <2> QED
    BY <1>h, <2>2, <2>3 DEF Goal
<1>6. CASE broadcast_message
  <2>1. /\ DOMAIN clients' = Slots
        /\ clients'[i] = clients[i] \/ clients'[i] = write_connection(clients[i])
    BY <1>6 DEF broadcast_message
  <2>2. Handled(i, clients[i], clients'[i])
    BY <1>0, <2>1, HandledHere, WriteConnectionLeads DEF Leads, Handled
  <2> QED
    BY <2>1, <2>2 DEF Goal
<1>7. CASE PeerGone
  BY <1>7, <1>s DEF PeerGone, Goal
<1>8. CASE UNCHANGED vars
  BY <1>8, <1>s DEF vars, Goal
<1> QED
  BY <1>1, <1>2, <1>3, <1>4, <1>5, <1>6, <1>7, <1>8, <1>f, <1>u DEF Next, Goal

LEMMA TypeInit ==
  ASSUME Init
  PROVE  TypeInv
<1>1. IsABag(EmptyBag) /\ BagToSet(EmptyBag) = {}
  BY DEF EmptyBag, SetToBag, IsABag, BagToSet
<1>2. Typed(new_client)
  <2>1. ClientOK(new_client)
    BY <1>1, TlsAssumption DEF ClientOK, ClientFields, new_client, RecordSize, IdRange
  <2> QED
    BY <2>1 DEF Typed, new_client, RecordSize
<1>3. clients = [i \in Slots |-> new_client]
  BY DEF Init
<1>4. \A i \in Slots : clients[i] = new_client
  BY <1>3
<1>5. ClientOK(new_client)
  BY <1>2 DEF Typed
<1>6. size \in FirstSlot .. MaxSlots /\ accepted \in 0 .. MaxConns
  BY TlsAssumption DEF Init
<1>7. taken \in [Conns -> 0 .. Records * RecordSize] /\ flown \subseteq Conns /\ gone \subseteq Conns
  BY TlsAssumption DEF Init, RecordSize
<1>9. undefined \in BOOLEAN
  BY DEF Init
<1>8. DOMAIN clients = Slots
  BY <1>3
<1> QED
  BY <1>2, <1>4, <1>5, <1>6, <1>7, <1>8, <1>9 DEF TypeInv, TypeOK

\* The other variables.
LEMMA OthersTyped ==
  ASSUME TypeInv, [Next]_vars
  PROVE  /\ size' \in FirstSlot .. MaxSlots /\ accepted' \in 0 .. MaxConns
         /\ taken' \in [Conns -> 0 .. Records * RecordSize]
         /\ flown' \subseteq Conns /\ gone' \subseteq Conns
<1>0. /\ size \in FirstSlot .. MaxSlots /\ accepted \in 0 .. MaxConns
      /\ taken \in [Conns -> 0 .. Records * RecordSize]
      /\ flown \subseteq Conns /\ gone \subseteq Conns
  BY DEF TypeInv, TypeOK
<1>r. ASSUME NEW i \in Slots, NEW r \in BagToSet(clients[i].requests)
      PROVE  r.conn \in Conns \cup {None}
  BY DEF TypeInv, TypeOK, ClientOK, Requests
<1>1. CASE Accept
  <2>1. /\ NewSlot \in Slots /\ size' = (IF NewSlot = size THEN size + 1 ELSE size)
        /\ accepted' \in 0 .. MaxConns /\ UNCHANGED <<taken, flown, gone>>
    BY <1>1, AcceptIs
  <2>2. size' \in FirstSlot .. MaxSlots
    BY <1>0, <2>1, TlsAssumption DEF Slots
  <2> QED
    BY <1>0, <2>1, <2>2
<1>2. ASSUME NEW i \in Slots, NEW r \in BagToSet(clients[i].requests), ReadDone(i, r)
      PROVE  /\ taken' \in [Conns -> 0 .. Records * RecordSize]
             /\ UNCHANGED <<size, accepted, flown, gone>>
  <2>1. /\ UNCHANGED <<size, accepted, flown, gone>>
        /\ \E n \in ReadEnds(r.conn) : taken' = [taken EXCEPT ![r.conn] = n]
        /\ r.conn # None
    BY <1>2, HandlerSteps
  <2>2. PICK n \in ReadEnds(r.conn) : taken' = [taken EXCEPT ![r.conn] = n]
    BY <2>1
  <2>3. n \in 0 .. Records * RecordSize
    <3>1. taken[r.conn] \in Nat
      BY <1>0, <1>r, <2>1
    <3> QED
      BY <3>1, TlsAssumption DEF ReadEnds, RecordSize
  <2> QED
    BY <1>0, <2>1, <2>2, <2>3
<1>3. ASSUME NEW i \in Slots, NEW r \in BagToSet(clients[i].requests), WriteDone(i, r)
      PROVE  /\ flown' \subseteq Conns /\ UNCHANGED <<size, accepted, taken, gone>>
  <2>1. /\ r.conn # None /\ UNCHANGED <<size, accepted, taken, gone>>
        /\ flown' = IF r.what = "flight" THEN flown \cup {r.conn} ELSE flown
    BY <1>3, HandlerSteps
  <2> QED
    BY <1>0, <1>r, <2>1
<1>4. ASSUME NEW i \in Slots, NEW r \in BagToSet(clients[i].requests), Fail(i, r)
      PROVE  UNCHANGED <<size, accepted, taken, flown, gone>>
  BY <1>4, HandlerSteps
<1>u. ASSUME NEW i \in Slots, NEW r \in BagToSet(clients[i].requests), FailUndefined(i, r)
      PROVE  UNCHANGED <<size, accepted, taken, flown, gone>>
  BY <1>u, HandlerSteps
<1>f. ASSUME NEW i \in Slots, FileDone(i)
      PROVE  UNCHANGED <<size, accepted, taken, flown, gone>>
  BY <1>f DEF FileDone
<1>5. CASE Reap \/ broadcast_message
  BY <1>0, <1>5 DEF Reap, broadcast_message
<1>6. CASE PeerGone
  <2>1. 1 .. accepted \subseteq Conns
    BY <1>0, TlsAssumption DEF Conns
  <2>2. \E k \in 1 .. accepted : gone' = gone \cup {k}
    BY <1>6 DEF PeerGone
  <2> QED
    BY <1>0, <1>6, <2>1, <2>2 DEF PeerGone
<1>7. CASE UNCHANGED vars
  BY <1>0, <1>7 DEF vars
<1> QED
  BY <1>0, <1>1, <1>2, <1>3, <1>4, <1>5, <1>6, <1>7, <1>f, <1>u DEF Next

LEMMA UndefinedTyped ==
  ASSUME TypeInv, [Next]_vars
  PROVE  undefined' \in BOOLEAN
<1>1. undefined \in BOOLEAN
  BY DEF TypeInv, TypeOK
<1>2. undefined' = TRUE \/ undefined' = undefined
  BY DEF Next, vars, Accept, ReadDone, WriteDone, Fail, FailUndefined, FileDone, Reap,
         broadcast_message, PeerGone
<1> QED
  BY <1>1, <1>2, Zenon

LEMMA TypeStep ==
  ASSUME TypeInv, [Next]_vars
  PROVE  TypeInv'
<1>1. ASSUME NEW i \in Slots
      PROVE  Typed(clients'[i])
  <2>1. CASE Handled(i, clients[i], clients'[i])
    BY <2>1 DEF Handled
  <2>2. CASE Accept /\ i = NewSlot
    <3> DEFINE h == Hallo(clients[i], accepted + 1)
    <3>1. /\ accepted + 1 \in Conns /\ ClientOK(clients[i]) /\ DOMAIN clients = Slots
          /\ \E x \in wolfSSL_accept(h) : clients' = [clients EXCEPT ![i] = x]
      BY <2>2, AcceptIs DEF TypeInv, TypeOK
    <3>2. Typed(h)
      BY <3>1, HalloIs
    <3> HIDE DEF h
    <3>3. PICK x \in wolfSSL_accept(h) : clients' = [clients EXCEPT ![i] = x]
      BY <3>1
    <3>4. clients'[i] = x
      BY <3>1, <3>3, OneSlot
    <3> QED
      BY <3>2, <3>4, AcceptLeads DEF Leads
  <2> QED
    BY <2>1, <2>2, StepHandles
<1>2. DOMAIN clients' = Slots
  <2>1. FirstSlot \in Slots
    BY TlsAssumption DEF Slots
  <2> QED
    BY <2>1, StepHandles
<1>3. \A i \in Slots : ClientOK(clients'[i])
  BY <1>1 DEF Typed
<1>4. TypeOK'
  BY <1>2, <1>3, OthersTyped, UndefinedTyped DEF TypeOK
<1> QED
  BY <1>1, <1>4 DEF TypeInv

\* The clients vector, wolfSSL's view of each session and the requests in flight have
\* their types, whatever the reads cut out of the stream of a peer: no element of
\* send_data is popped that is not there, and no byte is consumed twice.
THEOREM TlsTypeCorrect == Spec => []TypeOK
<1>1. Init => TypeInv
  BY TypeInit
<1>2. TypeInv /\ [Next]_vars => TypeInv'
  BY TypeStep
<1>3. TypeInv => TypeOK
  BY DEF TypeInv
<1> QED
  BY <1>1, <1>2, <1>3, PTL DEF Spec

-----------------------------------------------------------------------------
(* Whose requests they are.                                                *)
(*                                                                         *)
(* The IDs of a slot go up, and a request of an earlier client is not on   *)
(* the connection of the one that has the slot now: as long as no ID of a  *)
(* slot wraps.  Each connection has one slot.                              *)

Late(c) == \A r \in BagToSet(c.requests) : r.ID <= c.id /\ (r.ID # c.id => r.conn # c.conn)

\* The slots from size on have never been used.
Unused == \A i \in Slots : i >= size => clients[i] = new_client

IdsGrow ==
  \A i \in Slots \ {0} : i < size => Late(clients[i]) /\ clients[i].id + 2 <= accepted

Homes ==
  /\ \A i \in Slots :
       /\ clients[i].conn <= accepted
       /\ \A r \in BagToSet(clients[i].requests) : r.conn <= accepted
  /\ \A i, j \in Slots : i # j =>
       \/ clients[j].conn = None
       \/ /\ clients[i].conn # clients[j].conn
          /\ \A r \in BagToSet(clients[i].requests) : r.conn # clients[j].conn

SlotInv == TypeInv /\ Unused /\ IdsGrow /\ Homes /\ \A i \in Slots \ {0} : Sound(clients[i])

LEMMA NewClientIs ==
  /\ BagToSet(new_client.requests) = {} /\ Own(new_client) = {} /\ new_client.id = -1
  /\ new_client.conn = None /\ ~new_client.active /\ ~new_client.free
  /\ new_client.websocket = "no" /\ new_client.state = "none" /\ new_client.num_write_reqs = 0
<1>1. IsABag(EmptyBag) /\ BagToSet(EmptyBag) = {}
  BY DEF EmptyBag, SetToBag, IsABag, BagToSet
<1>2. \A w : w \notin Copies(EmptyBag)
  BY <1>1, CopiesOf
<1> QED
  BY <1>1, <1>2 DEF new_client, Own

\* Nothing happens to a slot that nobody has.
LEMMA UnusedStays ==
  ASSUME TypeInv, [Next]_vars, NEW i \in Slots, clients[i] = new_client
  PROVE  clients'[i] = new_client \/ (Accept /\ i = NewSlot)
<1>0. DOMAIN clients = Slots
  BY DEF TypeInv, TypeOK
<1>1. CASE Accept
  <2>1. PICK x : NewSlot \in Slots /\ clients' = [clients EXCEPT ![NewSlot] = x]
    BY <1>1, AcceptIs
  <2> QED
    BY <1>0, <1>1, <2>1, OneSlot
<1>2. ASSUME NEW j \in Slots, NEW r \in BagToSet(clients[j].requests),
             ReadDone(j, r) \/ WriteDone(j, r) \/ Fail(j, r)
      PROVE  clients'[i] = new_client
  <2>1. j # i
    BY NewClientIs
  <2>2. \E x : clients' = [clients EXCEPT ![j] = x]
    BY <1>2, HandlerSteps
  <2> QED
    BY <1>0, <2>1, <2>2, OneSlot
<1>u. ASSUME NEW j \in Slots, NEW r, FailUndefined(j, r) PROVE clients'[i] = new_client
  BY <1>u DEF FailUndefined
<1>f. ASSUME NEW j \in Slots, FileDone(j) PROVE clients'[i] = new_client
  <2>1. /\ \E x : clients' = [clients EXCEPT ![j] = x]
        /\ clients[j].files > 0 \/ clients[j].late > 0
    BY <1>f, FileSteps DEF TypeInv, TypeOK
  <2>2. j # i
    BY <2>1 DEF new_client
  <2> QED
    BY <1>0, <2>1, <2>2, OneSlot
<1>3. CASE Reap
  <2>1. PICK j \in Slots : clients[j].active /\ \E x : clients' = [clients EXCEPT ![j] = x]
    BY <1>3 DEF Reap, Becomes
  <2> QED
    BY <1>0, <2>1, NewClientIs, OneSlot
<1>4. CASE broadcast_message
  BY <1>4, NewClientIs DEF broadcast_message
<1>5. CASE PeerGone \/ UNCHANGED vars
  BY <1>5 DEF PeerGone, vars
<1> QED
  BY <1>1, <1>2, <1>3, <1>4, <1>5, <1>f, <1>u DEF Next

LEMMA SlotInit ==
  ASSUME Init
  PROVE  SlotInv
<1>1. TypeInv
  BY TypeInit
<1>2. /\ \A i \in Slots : clients[i] = new_client
      /\ accepted = 0 /\ size = FirstSlot
  BY DEF Init
<1>3. Unused /\ Homes
  BY <1>2, NewClientIs DEF Unused, Homes, None
<1>4. IdsGrow
  BY <1>2, TlsAssumption DEF IdsGrow, Slots
<1>5. Sound(new_client)
  BY NewClientIs, FS_EmptySet DEF Sound, OwnWrites, OwnReads
<1> QED
  BY <1>1, <1>2, <1>3, <1>4, <1>5 DEF SlotInv

LEMMA Numbers ==
  ASSUME NEW c, ClientOK(c)
  PROVE  /\ c.conn \in Nat /\ c.id \in Int
         /\ \A r \in BagToSet(c.requests) : r.conn \in Nat /\ r.ID \in Int
<1>1. Conns \cup {None} \subseteq Nat /\ -1 .. IdRange - 1 \subseteq Int
  BY TlsAssumption DEF Conns, None, IdRange
<1>2. ASSUME NEW r \in Requests PROVE r.conn \in Nat /\ r.ID \in Int
  <2>1. r.conn \in Conns \cup {None} /\ r.ID \in -1 .. IdRange - 1
    BY DEF Requests
  <2> QED
    BY <1>1, <2>1
<1>3. c.conn \in Conns \cup {None} /\ c.id \in -1 .. IdRange - 1 /\ BagToSet(c.requests) \subseteq Requests
  BY DEF ClientOK
<1> QED
  BY <1>1, <1>2, <1>3

\* The client that a slot is given: its ID is above those of all requests of the slot.
LEMMA HalloSlot ==
  ASSUME MaxConns <= IdRange + 1, SlotInv, Accept, NEW s \in Slots, s = NewSlot,
         NEW h, h = Hallo(clients[s], accepted + 1)
  PROVE  /\ Typed(h) /\ h.conn = accepted + 1 /\ h.requests = clients[s].requests
         /\ s # 0 => /\ h.id + 2 <= accepted + 1 /\ Late(h) /\ Own(h) = {} /\ Sound(h)
                     /\ \A r \in BagToSet(h.requests) : r.ID # h.id
<1> DEFINE c == clients[s]
<1>0. /\ TypeOK /\ ClientOK(c) /\ accepted \in 0 .. MaxConns /\ accepted < MaxConns
      /\ accepted + 1 \in Conns /\ NewSlot < MaxSlots /\ MaxConns \in Nat
  BY AcceptIs, TlsAssumption DEF SlotInv, TypeInv, TypeOK, Accept
<1>1. /\ Typed(h) /\ h.requests = c.requests /\ h.conn = accepted + 1 /\ h.state = "hello"
      /\ h.id = (IF c.free THEN (c.id + 1) % IdRange ELSE -1)
      /\ h.num_write_reqs = 0 /\ ~h.read_req_active
  BY <1>0, HalloIs
<1>2. c.free \/ s = size
  BY <1>0, NewSlotIs
<1>3. \A r \in BagToSet(c.requests) : r.ID \in Int /\ r.conn <= accepted /\ r.conn \in Int
  BY <1>0, Numbers DEF SlotInv, Homes
<1>4. ASSUME s # 0
      PROVE  /\ h.id + 2 <= accepted + 1 /\ h.id \in Int
             /\ \A r \in BagToSet(h.requests) : r.ID < h.id
  <2>1. CASE c.free
    <3>1. s < size
      <4>1. s \in Int /\ size \in Int
        BY <1>0, TlsAssumption DEF TypeOK, Slots
      <4>2. s >= size => c = new_client
        BY DEF SlotInv, Unused
      <4> QED
        BY <2>1, <4>1, <4>2, NewClientIs
    <3>2. Late(c) /\ c.id + 2 <= accepted /\ c.id \in -1 .. 99
      BY <1>0, <1>4, <3>1 DEF SlotInv, IdsGrow, ClientOK, IdRange
    <3>3. c.id + 1 \in 0 .. 99
      BY <1>0, <3>2 DEF IdRange
    <3>4. h.id = c.id + 1
      <4>1. (c.id + 1) % 100 = c.id + 1
        BY <3>3
      <4> QED
        BY <1>1, <2>1, <4>1 DEF IdRange
    <3>5. \A r \in BagToSet(h.requests) : r.ID < h.id
      <4> TAKE r \in BagToSet(h.requests)
      <4>1. r.ID \in Int /\ r.ID <= c.id
        BY <1>1, <1>3, <3>2 DEF Late
      <4> QED
        BY <3>2, <3>4, <4>1
    <3>6. h.id + 2 <= accepted + 1
      BY <1>0, <3>2, <3>4
    <3> QED
      BY <3>2, <3>4, <3>5, <3>6
  <2>2. CASE ~c.free
    <3>1. c = new_client
      <4>1. s = size /\ s \in Int
        BY <1>2, <2>2, TlsAssumption DEF Slots
      <4> QED
        BY <4>1 DEF SlotInv, Unused
    <3>2. h.id = -1
      BY <1>1, <2>2
    <3> QED
      BY <1>0, <1>1, <3>1, <3>2, NewClientIs
  <2> QED
    BY <2>1, <2>2
<1>5. ASSUME s # 0
      PROVE  /\ Late(h) /\ Own(h) = {} /\ Sound(h)
             /\ \A r \in BagToSet(h.requests) : r.ID # h.id
  <2>1. ASSUME NEW r \in BagToSet(h.requests)
        PROVE  r.ID <= h.id /\ r.ID # h.id /\ r.conn # h.conn
    <3>1. r.ID < h.id /\ r.ID \in Int /\ r.conn \in Int /\ r.conn <= accepted /\ h.id \in Int
      BY <1>1, <1>3, <1>4, <1>5
    <3> QED
      BY <1>0, <1>1, <3>1
  <2>2. Own(h) = {}
    <3>1. ClientOK(h)
      BY <1>1 DEF Typed
    <3> QED
      BY <2>1, <3>1, OwnIn
  <2>3. Sound(h)
    BY <1>1, <2>2, FS_EmptySet DEF Sound, OwnWrites, OwnReads
  <2> QED
    BY <2>1, <2>2, <2>3 DEF Late
<1> QED
  BY <1>1, <1>4, <1>5

\* What a step does to the numbers of a slot.
LEMMA SlotLater ==
  ASSUME MaxConns <= IdRange + 1, SlotInv, [Next]_vars, NEW i \in Slots
  PROVE  \E h : /\ Typed(clients'[i]) /\ Later(h, clients'[i]) /\ (i # 0 => Sound(clients'[i]))
                /\ h.requests = clients[i].requests
                /\ \/ h = clients[i]
                   \/ /\ Accept /\ i = NewSlot /\ h.conn = accepted + 1
                      /\ i # 0 => h.id + 2 <= accepted + 1 /\ Late(h)
<1>1. CASE Handled(i, clients[i], clients'[i])
  BY <1>1 DEF Handled, SlotInv
<1>2. CASE Accept /\ i = NewSlot
  <2> DEFINE h == Hallo(clients[i], accepted + 1)
  <2>1. /\ Typed(h) /\ h.conn = accepted + 1 /\ h.requests = clients[i].requests
        /\ i # 0 => h.id + 2 <= accepted + 1 /\ Late(h) /\ Sound(h)
    BY <1>2, HalloSlot
  <2>2. PICK x \in wolfSSL_accept(h) : clients' = [clients EXCEPT ![i] = x]
    BY <1>2, AcceptIs DEF SlotInv
  <2> HIDE DEF h
  <2>3. clients'[i] = x
    BY <2>2, OneSlot DEF SlotInv, TypeInv, TypeOK
  <2>4. Leads(h, x)
    BY <2>1, <2>2, AcceptLeads
  <2> QED
    BY <1>2, <2>1, <2>3, <2>4 DEF Leads
<1> QED
  BY <1>1, <1>2, StepHandles DEF SlotInv

LEMMA SizesStep ==
  ASSUME TypeInv, [Next]_vars
  PROVE  /\ accepted' \in {accepted, accepted + 1}
         /\ Accept => accepted' = accepted + 1
         /\ size' = IF Accept /\ NewSlot = size THEN size + 1 ELSE size
<1>1. CASE Accept
  BY <1>1, AcceptIs
<1>2. CASE ~Accept
  <2>1. UNCHANGED <<size, accepted>>
    BY <1>2 DEF Next, ReadDone, WriteDone, Fail, FailUndefined, FileDone, Reap,
                broadcast_message, PeerGone, vars
  <2> QED
    BY <1>2, <2>1
<1> QED
  BY <1>1, <1>2

LEMMA SlotStep ==
  ASSUME MaxConns <= IdRange + 1, SlotInv, [Next]_vars
  PROVE  SlotInv'
<1>0. /\ accepted' \in {accepted, accepted + 1} /\ (Accept => accepted' = accepted + 1)
      /\ size' = (IF Accept /\ NewSlot = size THEN size + 1 ELSE size)
      /\ accepted \in Nat /\ size \in Nat /\ TypeInv'
  BY SizesStep, TypeStep, TlsAssumption DEF SlotInv, TypeInv, TypeOK
<1>t. ASSUME NEW i \in Slots
      PROVE  /\ i \in Nat /\ clients[i].conn \in Nat /\ clients[i].id \in Int
             /\ clients'[i].conn \in Nat /\ clients'[i].id \in Int
             /\ \A r \in BagToSet(clients[i].requests) : r.conn \in Nat /\ r.ID \in Int
             /\ \A r \in BagToSet(clients'[i].requests) : r.conn \in Nat /\ r.ID \in Int
  <2>1. ClientOK(clients[i]) /\ ClientOK(clients'[i])
    BY <1>0 DEF SlotInv, TypeInv, TypeOK
  <2> QED
    BY <2>1, Numbers, TlsAssumption DEF Slots
<1>p. ASSUME NEW i \in Slots
      PROVE  \E h : /\ Later(h, clients'[i]) /\ (i # 0 => Sound(clients'[i]))
                    /\ h.requests = clients[i].requests
                    /\ \/ h = clients[i]
                       \/ /\ Accept /\ i = NewSlot /\ h.conn = accepted + 1
                          /\ i # 0 => h.id + 2 <= accepted + 1 /\ Late(h)
  BY SlotLater
<1>1. Unused'
  <2> SUFFICES ASSUME NEW i \in Slots, i >= size'
               PROVE  clients'[i] = new_client
    BY DEF Unused
  <2>1. i >= size /\ ~(Accept /\ i = NewSlot /\ NewSlot = size)
    BY <1>0, <1>t
  <2>2. clients[i] = new_client
    BY <2>1 DEF SlotInv, Unused
  <2>3. ~(Accept /\ i = NewSlot)
    <3>1. SUFFICES ASSUME Accept, i = NewSlot PROVE FALSE
      OBVIOUS
    <3>2. clients[i].free \/ i = size
      BY <3>1, NewSlotIs DEF SlotInv, TypeInv, Accept
    <3> QED
      BY <2>1, <2>2, <3>1, <3>2, NewClientIs
  <2> QED
    BY <2>2, <2>3, UnusedStays DEF SlotInv
<1>2. IdsGrow'
  <2> SUFFICES ASSUME NEW i \in Slots \ {0}, i < size'
               PROVE  Late(clients'[i]) /\ clients'[i].id + 2 <= accepted'
    BY DEF IdsGrow
  <2>1. PICK h : /\ Later(h, clients'[i])
                 /\ h.requests = clients[i].requests
                 /\ \/ h = clients[i]
                    \/ /\ Accept /\ h.conn = accepted + 1
                       /\ h.id + 2 <= accepted + 1 /\ Late(h)
    BY <1>p
  <2>i. clients'[i].id = h.id /\ h.id \in Int
    BY <1>t, <2>1 DEF Later
  <2>2. Late(h) /\ h.id + 2 <= accepted'
    <3>1. CASE Accept /\ h.id + 2 <= accepted + 1 /\ Late(h)
      BY <1>0, <3>1
    <3>2. CASE h = clients[i] /\ i < size
      <4>1. Late(h) /\ h.id + 2 <= accepted
        BY <3>2 DEF SlotInv, IdsGrow
      <4> QED
        BY <1>0, <2>i, <4>1
    <3>3. CASE h = clients[i] /\ ~(i < size)
      <4>1. Accept /\ i = NewSlot /\ i = size
        BY <1>0, <1>t, <3>3
      <4>2. clients[i] = new_client
        BY <1>0, <4>1 DEF SlotInv, Unused
      <4> QED
        BY <1>0, <3>3, <4>1, <4>2, NewClientIs DEF Late
    <3> QED
      BY <2>1, <3>1, <3>2, <3>3
  <2>3. Late(clients'[i])
    <3> SUFFICES ASSUME NEW r \in BagToSet(clients'[i].requests)
                 PROVE  r.ID <= clients'[i].id /\ (r.ID # clients'[i].id => r.conn # clients'[i].conn)
      BY DEF Late
    <3>1. CASE r.ID = clients'[i].id
      BY <1>t, <3>1
    <3>2. CASE r.ID # clients'[i].id
      BY <2>1, <2>2, <3>2 DEF Later, Late
    <3> QED
      BY <3>1, <3>2
  <2> QED
    BY <2>2, <2>3, <2>i
<1>h. ASSUME NEW i \in Slots
      PROVE  \E k \in Nat :
               /\ clients'[i].conn = k
               /\ \A r \in BagToSet(clients'[i].requests) :
                    r \in BagToSet(clients[i].requests) \/ r.conn \in {None, k}
               /\ k = clients[i].conn \/ (Accept /\ i = NewSlot /\ k = accepted + 1)
  BY <1>t, <1>p DEF Later
<1>3. Homes'
  <2>1. ASSUME NEW i \in Slots
        PROVE  /\ clients'[i].conn <= accepted'
               /\ \A r \in BagToSet(clients'[i].requests) : r.conn <= accepted'
    <3>1. PICK k \in Nat :
               /\ clients'[i].conn = k
               /\ \A r \in BagToSet(clients'[i].requests) :
                    r \in BagToSet(clients[i].requests) \/ r.conn \in {None, k}
               /\ k = clients[i].conn \/ (Accept /\ i = NewSlot /\ k = accepted + 1)
      BY <1>h
    <3>2. clients[i].conn <= accepted /\ \A r \in BagToSet(clients[i].requests) : r.conn <= accepted
      BY DEF SlotInv, Homes
    <3>3. k <= accepted'
      BY <1>0, <1>t, <3>1, <3>2
    <3>4. ASSUME NEW r \in BagToSet(clients'[i].requests) PROVE r.conn <= accepted'
      <4>1. r.conn \in Nat
        BY <1>t
      <4> QED
        BY <1>0, <3>1, <3>2, <3>3, <4>1 DEF None
    <3> QED
      BY <3>1, <3>3, <3>4
  <2>2. ASSUME NEW i \in Slots, NEW j \in Slots, i # j, clients'[j].conn # None
        PROVE  /\ clients'[i].conn # clients'[j].conn
               /\ \A r \in BagToSet(clients'[i].requests) : r.conn # clients'[j].conn
    <3>1. PICK k \in Nat :
               /\ clients'[i].conn = k
               /\ \A r \in BagToSet(clients'[i].requests) :
                    r \in BagToSet(clients[i].requests) \/ r.conn \in {None, k}
               /\ k = clients[i].conn \/ (Accept /\ i = NewSlot /\ k = accepted + 1)
      BY <1>h
    <3>2. PICK l \in Nat :
               /\ clients'[j].conn = l
               /\ l = clients[j].conn \/ (Accept /\ j = NewSlot /\ l = accepted + 1)
      BY <1>h
    <3>3. /\ clients[i].conn <= accepted /\ \A r \in BagToSet(clients[i].requests) : r.conn <= accepted
          /\ clients[j].conn <= accepted
          /\ \/ clients[j].conn = None
             \/ /\ clients[i].conn # clients[j].conn
                /\ \A r \in BagToSet(clients[i].requests) : r.conn # clients[j].conn
      BY <2>2 DEF SlotInv, Homes
    <3>4. k # l
      BY <1>0, <1>t, <2>2, <3>1, <3>2, <3>3
    <3>5. \A r \in BagToSet(clients[i].requests) : r.conn # l
      <4> TAKE r \in BagToSet(clients[i].requests)
      <4>1. r.conn \in Nat /\ r.conn <= accepted
        BY <1>t, <3>3
      <4> QED
        BY <1>0, <2>2, <3>2, <3>3, <4>1
    <3> QED
      BY <2>2, <3>1, <3>2, <3>4, <3>5
  <2> QED
    BY <2>1, <2>2 DEF Homes
<1>4. \A i \in Slots \ {0} : Sound(clients'[i])
  BY <1>p
<1> QED
  BY <1>0, <1>1, <1>2, <1>3, <1>4 DEF SlotInv

\* num_write_reqs counts the writes in flight of the client that has the slot, through
\* the handshake, failures, the close_notify and the reuse of the slot; for this no ID of a
\* slot may wrap, and slot 0, whose requests are not filtered, is left out.
THEOREM TlsWritesCounted ==
  ASSUME MaxConns <= IdRange + 1
  PROVE  Spec => []WritesCounted
<1>1. Init => SlotInv
  BY SlotInit
<1>2. SlotInv /\ [Next]_vars => SlotInv'
  BY SlotStep
<1>3. SlotInv => WritesCounted
  BY DEF SlotInv, WritesCounted, Sound
<1> QED
  BY <1>1, <1>2, <1>3, PTL DEF Spec

-----------------------------------------------------------------------------
(* What a client is doing: it has been closed, its session is being set up *)
(* or it is active.                                                        *)

Events(c, E) == \A w \in Own(c) : w[1].event \in E

Down(c) ==
  /\ c.state = "none" /\ c.free /\ ~c.active
  /\ c.websocket \in {"no", "killed"} /\ c.num_write_reqs <= 1

\* The handshake: of the connection, tk bytes were received; fl: the peer has the flight.
\* The answer to an earlier client (crossed) may have made a second write of the flight.
Shaking(c, tk, fl) ==
  /\ c.state \in {"hello", "flight", "finished", "refused"}
  /\ ~c.active /\ ~c.last_written /\ c.websocket = "no" /\ c.files = 0
  /\ ~c.crossed => c.send_data = 0
  /\ Events(c, {"ACCEPT_READ", "ACCEPT_WRITE"})
  /\ c.state = "refused" => c.num_write_reqs <= 1 /\ OwnReads(c) = {}
  /\ c.state # "refused" => Contiguous(c, tk)
  /\ c.state = "hello" =>
       /\ ~c.accept_last_written /\ c.num_write_reqs = 0 /\ OwnReads(c) # {}
       /\ c.consumed \in {0, 1} /\ tk < Hello /\ ~fl
  /\ c.state = "flight" =>
       /\ ~c.accept_last_written /\ ~c.read_req_active
       /\ c.num_write_reqs = 1 \/ (c.crossed /\ c.num_write_reqs > 1)
       /\ c.consumed = Hello /\ tk = Hello /\ ~fl
  /\ c.state = "finished" =>
       /\ ~c.crossed => ~c.accept_last_written /\ c.num_write_reqs = 0 /\ OwnReads(c) # {}
       /\ c.consumed \in {Hello, Hello + 1} /\ tk < Handshake

\* What an active client has in flight; a client that was crossed (cr) may have a second
\* write of the handshake's, too.
UpEvents(cr) == {"READ", "WRITE"} \cup (IF cr THEN {"ACCEPT_WRITE"} ELSE {})

\* As long as the peer is there and the client was not crossed (~gn), an element of
\* send_data is being written, if there is one.
Up(c, gn) ==
  /\ c.active /\ c.state \in {"open", "broken"}
  /\ c.state = "open" => ~c.last_written /\ c.consumed >= Handshake
  /\ ~gn => /\ c.num_write_reqs <= 1
            /\ c.state = "open" => c.num_write_reqs = IF c.send_data > 0 THEN 1 ELSE 0
  /\ Events(c, UpEvents(gn))

\* And something will wake the server; on a websocket, a read.
Awake(c, gn) ==
  c.state = "open" /\ ~gn =>
    /\ c.num_write_reqs = 1 \/ OwnReads(c) # {} \/ c.files > 0 \/ c.unanswered
    /\ c.websocket \in {"open", "closing"} => OwnReads(c) # {}

\* Nothing is dropped, unless the peer's first request may come cut up with its Finished.
Strict(c, tk, gn) == EarlyData # "any" => c.state = "open" /\ Contiguous(c, tk) /\ Awake(c, gn)

\* Has the peer gone, or was the client crossed?
Loose(c, gn) == gn \/ c.crossed

Good(c, tk, fl, gn) ==
  \/ Down(c) \/ Shaking(c, tk, fl)
  \/ Up(c, Loose(c, gn)) /\ Strict(c, tk, Loose(c, gn))

\* A record with its types, and with its requests counted.
Whole(c) == Typed(c) /\ Sound(c)

\* A read that is marked is in flight.
Reading(c) == c.read_req_active => OwnReads(c) # {}

\* The session is as it was.
Kept(c, x) == x.state = c.state /\ x.consumed = c.consumed /\ x.recv_data = c.recv_data

LEMMA LeadsWhole ==
  ASSUME NEW c, NEW x, Whole(c), Leads(c, x)
  PROVE  Whole(x)
  BY DEF Whole, Leads

LEMMA UpAddRead ==
  ASSUME NEW gn, NEW c, Whole(c), Up(c, gn), NEW x, x = add_read_req(c, "READ")
  PROVE  /\ Whole(x) /\ Up(x, gn) /\ Kept(c, x) /\ x.websocket = c.websocket
         /\ x.num_write_reqs = c.num_write_reqs
         /\ Reading(c) => Reading(x) /\ OwnReads(x) # {}
<1>0. Typed(c) /\ ClientOK(c)
  BY DEF Whole, Typed
<1>1. /\ Leads(c, x)
      /\ c.read_req_active => x = c
      /\ ~c.read_req_active =>
           \E v : v[1] = Request(c, "READ", "read") /\ v \notin Own(c) /\ Own(x) = Own(c) \cup {v}
  BY <1>0, AddReadLeads
<1>2. /\ x.send_data = c.send_data
      /\ x.last_written = c.last_written /\ x.accept_last_written = c.accept_last_written
      /\ x.num_write_reqs = c.num_write_reqs /\ x.websocket = c.websocket
      /\ x.active = c.active /\ Kept(c, x)
  BY <1>0, AddReadIs DEF Kept
<1>3. Whole(x)
  BY <1>1, LeadsWhole
<1>4. Request(c, "READ", "read").event = "READ" /\ Request(c, "READ", "read").what = "read"
  BY DEF Request
<1>5. CASE c.read_req_active
  BY <1>1, <1>2, <1>3, <1>5 DEF Reading
<1>6. CASE ~c.read_req_active
  <2>1. PICK v : v[1] = Request(c, "READ", "read") /\ Own(x) = Own(c) \cup {v}
    BY <1>1, <1>6
  <2>2. v \in OwnReads(x) /\ Events(x, UpEvents(gn))
    BY <1>4, <2>1 DEF OwnReads, Events, UpEvents, Up
  <2>3. Up(x, gn)
    BY <1>2, <2>2 DEF Up, Kept
  <2> QED
    BY <1>2, <1>3, <2>2, <2>3 DEF Reading
<1> QED
  BY <1>5, <1>6

\* One more element to write.
LEMMA UpWriteConnection ==
  ASSUME NEW gn, NEW c, Whole(c), Up(c, gn), NEW x, x = write_connection(c)
  PROVE  /\ Whole(x) /\ Up(x, gn) /\ Kept(c, x) /\ x.websocket = c.websocket
         /\ OwnReads(x) = OwnReads(c) /\ x.read_req_active = c.read_req_active
         /\ c.state = "open" /\ ~gn => x.num_write_reqs = 1
<1> DEFINE c1 == [c EXCEPT !.send_data = @ + 1]
<1>0. Typed(c) /\ ClientOK(c) /\ c.send_data \in Nat /\ c.num_write_reqs \in Int
  BY DEF Whole, Typed, ClientOK
<1>1. Whole(x)
  BY <1>0, WriteConnectionLeads, LeadsWhole
<1>2. /\ c1.id = c.id /\ c1.requests = c.requests /\ c1.send_data = c.send_data + 1
      /\ c1.last_written = c.last_written /\ c1.num_write_reqs = c.num_write_reqs
      /\ c1.websocket = c.websocket /\ c1.active = c.active
      /\ c1.read_req_active = c.read_req_active /\ Kept(c, c1)
  BY <1>0 DEF ClientOK, ClientFields, Kept
<1>3. Typed(c1)
  <2>1. ClientOK(c1)
    BY <1>0 DEF ClientOK, ClientFields
  <2> QED
    BY <1>0, <2>1 DEF Typed, ClientOK, ClientFields
<1>4. x = IF c1.send_data = 1 THEN wolfSSL_write(c1) ELSE c1
  BY DEF write_connection
<1> HIDE DEF c1
<1>5. Own(c1) = Own(c) /\ OwnReads(c1) = OwnReads(c)
  BY <1>2 DEF Own, OwnReads
<1>6. CASE x = c1 /\ (c.state = "open" => c.send_data > 0)
  <2>1. Events(x, UpEvents(gn))
    BY <1>5, <1>6 DEF Up, Events
  <2>2. x.active /\ x.state = c.state /\ x.consumed = c.consumed
    BY <1>2, <1>6 DEF Up, Kept
  <2>3. x.num_write_reqs = c.num_write_reqs /\ (c.state = "open" => ~x.last_written)
    BY <1>2, <1>6 DEF Up
  <2>4. x.send_data > 0 /\ (c.state = "open" => c.send_data > 0)
    BY <1>0, <1>2, <1>6
  <2>5. Up(x, gn)
    BY <2>1, <2>2, <2>3, <2>4 DEF Up
  <2> QED
    BY <1>1, <1>2, <1>5, <1>6, <2>5 DEF Up
<1>7. CASE c.state = "open" /\ c.send_data = 0
  <2>1. x = tls_send(c1, "data") /\ c1.state = "open" /\ c1.active /\ ~Acked(c1)
    BY <1>2, <1>4, <1>7 DEF wolfSSL_write, Kept, Up, Acked
  <2>2. /\ Sent(c1, x) /\ OwnReads(x) = OwnReads(c1)
        /\ x.num_write_reqs = c1.num_write_reqs + 1 /\ x.last_written = c1.last_written
        /\ x = add_write_req(c1, "WRITE", "data")
    BY <1>3, <2>1, SendLeads
  <2>3. \E v : v[1] = Request(c1, "WRITE", "data") /\ Own(x) = Own(c1) \cup {v}
    BY <1>3, <2>1, <2>2, AddWriteLeads
  <2>4. Events(x, UpEvents(gn))
    BY <1>5, <2>3 DEF Events, UpEvents, Up, Request
  <2>k. Kept(c, x)
    BY <1>2, <2>2 DEF Kept, Sent
  <2>s. x.send_data = 1
    BY <1>2, <1>7, <2>2 DEF Sent
  <2>5. Kept(c, x) /\ x.send_data = 1 /\ x.active
    BY <2>k, <2>s, <2>1, <2>2 DEF Sent
  <2>6. Up(x, gn) /\ (~gn => x.num_write_reqs = 1)
    BY <1>0, <1>2, <1>7, <2>2, <2>4, <2>5 DEF Up, Kept
  <2> QED
    BY <1>1, <1>2, <1>5, <2>2, <2>5, <2>6 DEF Sent
<1>8. c.state # "open" => x = c1
  BY <1>2, <1>4 DEF wolfSSL_write, Kept, Up
<1>9. c.state = "open" /\ c.send_data > 0 => x = c1
  BY <1>0, <1>2, <1>4
<1> QED
  BY <1>0, <1>6, <1>7, <1>8, <1>9

LEMMA UpWebsocket ==
  ASSUME NEW gn, NEW c, Whole(c), Up(c, gn), NEW x, SameClient(c, x)
  PROVE  /\ Whole(x) /\ Up(x, gn) /\ Kept(c, x)
         /\ OwnReads(x) = OwnReads(c) /\ x.read_req_active = c.read_req_active
<1>1. Whole(x)
  BY SameLeads, LeadsWhole DEF Whole
<1>2. Own(x) = Own(c) /\ OwnReads(x) = OwnReads(c)
  BY DEF SameClient, Own, OwnReads
<1>3. Up(x, gn) /\ Kept(c, x)
  BY <1>2 DEF SameClient, Up, Events, Kept
<1> QED
  BY <1>1, <1>2, <1>3 DEF SameClient

\* With no write in flight close_connection closes.
LEMMA CloseDown ==
  ASSUME NEW c, Whole(c), c.num_write_reqs = 0, NEW x \in close_connection(c)
  PROVE  Whole(x) /\ Down(x)
<1> DEFINE k == kill_client(c)
<1>0. Typed(c) /\ c.websocket \in {"no", "open", "closing", "killed"}
  BY DEF Whole, Typed, ClientOK
<1>1. Leads(c, k) /\ k.num_write_reqs = 0 /\ k.websocket \in {"no", "killed"}
  BY <1>0, KillLeads
<1>2. PICK y \in wolfSSL_shutdown(k) : x = Closed(y)
  BY DEF close_connection
<1> HIDE DEF k
<1>3. /\ Leads(k, x)
      /\ x.state = "none" /\ x.free /\ ~x.active /\ x.send_data = 0
      /\ x.websocket = k.websocket /\ x.num_write_reqs \in {0, 1}
  BY <1>1, <1>2, ClosedLeads DEF Leads
<1>4. Whole(x)
  <2>1. Whole(k)
    BY <1>1, LeadsWhole
  <2> QED
    BY <1>3, <2>1, LeadsWhole
<1> QED
  BY <1>1, <1>3, <1>4 DEF Down

\* Otherwise the web server forgets the client, which stays.
LEMMA UpClose ==
  ASSUME NEW gn, NEW c, Whole(c), Up(c, gn), NEW x \in close_connection(c)
  PROVE  /\ Whole(x)
         /\ \/ Down(x)
            \/ /\ Up(x, gn) /\ Kept(c, x) /\ Awake(x, gn) /\ c.num_write_reqs # 0
               /\ x.send_data = c.send_data
<1>0. Typed(c) /\ ClientOK(c)
  BY DEF Whole, Typed
<1>1. CASE c.num_write_reqs = 0
  BY <1>1, CloseDown
<1>2. CASE c.num_write_reqs # 0
  <2>1. x = kill_client(c)
    BY <1>2 DEF close_connection
  <2>2. /\ Leads(c, x) /\ x.websocket = (IF c.websocket = "no" THEN "no" ELSE "killed")
        /\ x.last_written = c.last_written /\ x.num_write_reqs = c.num_write_reqs
        /\ x.requests = c.requests
    BY <1>0, <2>1, KillLeads
  <2>3. x.id = c.id /\ x.send_data = c.send_data /\ x.active = c.active /\ Kept(c, x)
    BY <1>0, <2>1 DEF kill_client, ClientOK, ClientFields, Kept
  <2>4. Own(x) = Own(c)
    BY <2>2, <2>3 DEF Own
  <2>5. Up(x, gn)
    BY <2>2, <2>3, <2>4 DEF Up, Events, Kept
  <2>6. Awake(x, gn)
    BY <1>2, <2>2, <2>5 DEF Awake, Up
  <2>7. Whole(x)
    BY <2>2, LeadsWhole
  <2> QED
    BY <1>2, <2>3, <2>5, <2>6, <2>7
<1> QED
  BY <1>1, <1>2

\* The web server's answer to what was read.
LEMMA UpReadCb ==
  ASSUME NEW gn, NEW c, Whole(c), Up(c, gn), Reading(c), NEW x \in read_cb(c)
  PROVE  Whole(x) /\ (Down(x) \/ (Up(x, gn) /\ Kept(c, x) /\ Awake(x, gn)))
<1>0. ClientOK(c)
  BY DEF Whole, Typed
<1>w. ASSUME NEW s \in {"open", "closing"}, NEW z, Switched(c, z, s), NEW y, y = write_connection(z)
      PROVE  Whole(y) /\ Up(y, gn) /\ Kept(c, y) /\ Reading(y)
  <2>1. /\ Whole(z) /\ Up(z, gn) /\ Kept(c, z)
        /\ OwnReads(z) = OwnReads(c) /\ z.read_req_active = c.read_req_active
    BY <1>w, UpWebsocket DEF Switched
  <2>2. /\ Whole(y) /\ Up(y, gn) /\ Kept(z, y)
        /\ OwnReads(y) = OwnReads(z) /\ y.read_req_active = z.read_req_active
    BY <1>w, <2>1, UpWriteConnection
  <2> QED
    BY <2>1, <2>2 DEF Kept, Reading
<1>r. ASSUME NEW y, Whole(y), Up(y, gn), Kept(c, y), Reading(y), x = add_read_req(y, "READ")
      PROVE  Whole(x) /\ Up(x, gn) /\ Kept(c, x) /\ Awake(x, gn)
  <2>1. Whole(x) /\ Up(x, gn) /\ Kept(y, x) /\ OwnReads(x) # {}
    BY <1>r, UpAddRead
  <2> QED
    BY <1>r, <2>1 DEF Awake, Kept
<1>a. ASSUME NEW y, y = write_connection(c)
      PROVE  /\ Whole(y) /\ Up(y, gn) /\ Kept(c, y) /\ Reading(y) /\ y.websocket = c.websocket
             /\ c.state = "open" /\ ~gn => y.num_write_reqs = 1
  <2>1. /\ Whole(y) /\ Up(y, gn) /\ Kept(c, y) /\ y.websocket = c.websocket
        /\ OwnReads(y) = OwnReads(c) /\ y.read_req_active = c.read_req_active
        /\ c.state = "open" /\ ~gn => y.num_write_reqs = 1
    BY <1>a, UpWriteConnection
  <2> QED
    BY <2>1 DEF Reading
<1>1. CASE x \in close_connection(c)
  BY <1>1, UpClose
<1>2. CASE c.websocket = "no" /\ x = write_connection(c)
  BY <1>2, <1>a DEF Awake, Kept
<1>n. CASE c.websocket = "no" /\ Noted(c, x)
  <2>1. Whole(x) /\ Up(x, gn) /\ Kept(c, x)
    BY <1>n, UpWebsocket DEF Noted
  <2> QED
    BY <1>n, <2>1 DEF Noted, Awake
<1>3. ASSUME NEW z, Switched(c, z, "open"), x = add_read_req(write_connection(z), "READ")
      PROVE  Whole(x) /\ Up(x, gn) /\ Kept(c, x) /\ Awake(x, gn)
  <2> DEFINE y == write_connection(z)
  <2>1. Whole(y) /\ Up(y, gn) /\ Kept(c, y) /\ Reading(y)
    BY <1>3, <1>w
  <2>2. x = add_read_req(y, "READ")
    BY <1>3
  <2> HIDE DEF y
  <2> QED
    BY <1>r, <2>1, <2>2
<1>4. CASE x \in frames(c)
  <2>1. PICK y : /\ x = add_read_req(y, "READ")
                 /\ \/ y = c \/ y = write_connection(c)
                    \/ \E z : Switched(c, z, "closing") /\ y = write_connection(z)
    BY <1>0, <1>4, FramesAre
  <2>2. Whole(y) /\ Up(y, gn) /\ Kept(c, y) /\ Reading(y)
    <3>1. CASE y = c
      BY <3>1 DEF Kept
    <3>2. CASE y = write_connection(c)
      BY <1>a, <3>2
    <3>3. CASE \E z : Switched(c, z, "closing") /\ y = write_connection(z)
      BY <1>w, <3>3
    <3> QED
      BY <2>1, <3>1, <3>2, <3>3
  <2> QED
    BY <1>r, <2>1, <2>2
<1>5. CASE c.websocket = "no"
  <2>1. x \in http_request(c) \/ x \in close_connection(c)
    BY <1>5 DEF read_cb
  <2>2. CASE x \in http_request(c)
    <3>1. \/ x = write_connection(c)
          \/ Noted(c, x)
          \/ \E z : Switched(c, z, "open") /\ x = add_read_req(write_connection(z), "READ")
      BY <1>0, <2>2, RequestIs
    <3> QED
      BY <1>2, <1>3, <1>5, <1>n, <3>1
  <2> QED
    BY <1>1, <2>1, <2>2
<1>6. CASE c.websocket = "open"
  <2>1. x \in frames(c)
    BY <1>6 DEF read_cb
  <2> QED
    BY <1>4, <2>1
<1>7. CASE c.websocket \notin {"no", "open"}
  <2>1. x \in close_connection(c)
    BY <1>7 DEF read_cb
  <2> QED
    BY <1>1, <2>1
<1> QED
  BY <1>5, <1>6, <1>7

LEMMA RecordGrows ==
  ASSUME NEW c, Typed(c), NEW y, NEW x, Record(c, y, x)
  PROVE  y.consumed >= c.consumed
<1>1. c.consumed \in Nat /\ y.consumed \in Nat
  BY DEF Record, Typed, ClientOK
<1>2. y.consumed \in {c.consumed, Start(c) + 1, Start(c) + RecordSize}
  BY DEF Record
<1> QED
  BY <1>1, <1>2 DEF Start, RecordSize

\* x is c after some of the data was read.
ReadOn(c, x, gn) ==
  /\ Whole(x) /\ Up(x, gn) /\ (Reading(c) => Reading(x))
  /\ \A tk : c.state = "open" /\ Contiguous(c, tk) => Contiguous(x, tk) /\ x.state = "open"

LEMMA UpFed ==
  ASSUME NEW gn, NEW c, Whole(c), Up(c, gn), NEW y, Typed(y), Fed(c, y), y.consumed >= c.consumed
  PROVE  Whole(y) /\ Up(y, gn) /\ OwnReads(y) = OwnReads(c)
<1>1. c.state # "none" /\ Typed(c) /\ c.consumed \in Nat /\ y.consumed \in Nat
  BY DEF Up, Whole, Typed, ClientOK
<1>2. Leads(c, y) /\ OwnReads(y) = OwnReads(c)
  BY <1>1, FedLeads
<1>3. Own(y) = Own(c)
  BY DEF Fed, Own
<1>4. y.active /\ y.state \in {"open", "broken"} /\ (y.state = "open" => c.state = "open")
  BY DEF Fed, Up
<1>5. y.state = "open" => ~y.last_written /\ y.consumed >= Handshake
  BY <1>1, <1>4 DEF Fed, Up, Handshake, RecordSize
<1>6. Up(y, gn)
  BY <1>3, <1>4, <1>5 DEF Fed, Up, Events
<1> QED
  BY <1>2, <1>6, LeadsWhole

LEMMA UpReadOnce ==
  ASSUME NEW gn, NEW c, Whole(c), Up(c, gn), NEW x, x = wolfSSL_read(c)
  PROVE  ReadOn(c, x, gn)
<1>0. Typed(c)
  BY DEF Whole
<1>1. CASE c.state # "open"
  BY <1>1 DEF wolfSSL_read, ReadOn
<1>2. CASE c.state = "open"
  <2>1. x = ReadRecord(c)
    BY <1>2 DEF wolfSSL_read
  <2>2. PICK y : Record(c, y, x)
    BY <1>0, <1>2, <2>1, RecordIs
  <2>3. Typed(y) /\ Fed(c, y) /\ ReadEvent(c) = "READ" /\ x \in {y, add_read_req(y, "READ")}
    BY <2>2 DEF Record, Up, ReadEvent
  <2>4. Whole(y) /\ Up(y, gn) /\ OwnReads(y) = OwnReads(c) /\ y.read_req_active = c.read_req_active
    BY <1>0, <2>2, <2>3, RecordGrows, UpFed DEF Fed
  <2>5. Whole(x) /\ Up(x, gn) /\ Kept(y, x) /\ (Reading(y) => Reading(x))
    <3>1. CASE x = y
      BY <2>4, <3>1 DEF Kept
    <3>2. CASE x = add_read_req(y, "READ")
      BY <2>4, <3>2, UpAddRead
    <3> QED
      BY <2>3, <3>1, <3>2
  <2>6. Reading(c) => Reading(y)
    BY <2>4 DEF Reading
  <2>7. \A tk : Contiguous(c, tk) => Contiguous(y, tk) /\ y.state = "open"
    BY <1>2, <2>2 DEF Record
  <2> QED
    BY <2>5, <2>6, <2>7 DEF ReadOn, Kept, Contiguous
<1> QED
  BY <1>1, <1>2

LEMMA UpLoop ==
  ASSUME NEW gn, NEW c, Whole(c), Up(c, gn)
  PROVE  ReadOn(c, ReadLoop(c), gn)
<1>1. PICK a : /\ a[0] = c /\ ReadLoop(c) = a[Records]
               /\ \A m \in 0 .. Records - 1 : a[m + 1] = ReadOnce(a[m])
  BY LoopIs
<1>0. Records \in Nat
  BY TlsAssumption
<1> DEFINE S == {x \in {a[m] : m \in 0 .. Records} : ReadOn(c, x, gn)}
<1>2. a[0] \in S
  <2>1. ReadOn(c, c, gn)
    BY DEF ReadOn
  <2> QED
    BY <1>0, <1>1, <2>1
<1>3. ASSUME NEW m \in 0 .. Records - 1, a[m] \in S
      PROVE  a[m + 1] \in S
  <2> DEFINE y == a[m]
             z == a[m + 1]
  <2>1. ReadOn(c, y, gn) /\ z = ReadOnce(y)
    BY <1>1, <1>3
  <2>2. z \in {a[j] : j \in 0 .. Records}
    BY <1>0
  <2> HIDE DEF y, z
  <2>3. z = y \/ z = wolfSSL_read(y)
    BY <2>1 DEF ReadOnce
  <2>4. ASSUME z = wolfSSL_read(y) PROVE ReadOn(c, z, gn)
    <3>1. ReadOn(y, z, gn)
      BY <2>1, <2>4, UpReadOnce DEF ReadOn
    <3> QED
      BY <2>1, <3>1 DEF ReadOn
  <2>5. ReadOn(c, z, gn)
    BY <2>1, <2>3, <2>4
  <2> QED
    BY <2>2, <2>5 DEF z
<1> HIDE DEF S
<1>4. \A m \in 0 .. Records : a[m] \in S
  BY <1>0, <1>2, <1>3, AlwaysIn
<1> QED
  BY <1>0, <1>1, <1>4 DEF S

\* READ: with no record a read is submitted; else the web server does.
LEMMA UpRead ==
  ASSUME NEW gn, NEW c, Whole(c), Up(c, gn), Reading(c), NEW x \in read(c)
  PROVE  /\ Whole(x)
         /\ \/ Down(x)
            \/ /\ Up(x, gn) /\ Awake(x, gn)
               /\ \A tk : c.state = "open" /\ Contiguous(c, tk) => Contiguous(x, tk) /\ x.state = "open"
<1> DEFINE c1 == ReadLoop(c)
<1>1. ReadOn(c, c1, gn)
  BY UpLoop
<1>2. x = add_read_req(c1, "READ") \/ x \in read_cb(c1)
  BY DEF read
<1> HIDE DEF c1
<1>3. Whole(c1) /\ Up(c1, gn) /\ Reading(c1)
  BY <1>1 DEF ReadOn
<1>4. CASE x = add_read_req(c1, "READ")
  <2>1. Whole(x) /\ Up(x, gn) /\ Kept(c1, x) /\ OwnReads(x) # {}
    BY <1>3, <1>4, UpAddRead
  <2> QED
    BY <1>1, <2>1 DEF ReadOn, Kept, Contiguous, Awake
<1>5. CASE x \in read_cb(c1)
  <2>1. Whole(x) /\ (Down(x) \/ (Up(x, gn) /\ Kept(c1, x) /\ Awake(x, gn)))
    BY <1>3, <1>5, UpReadCb
  <2> QED
    BY <1>1, <2>1 DEF ReadOn, Kept, Contiguous
<1> QED
  BY <1>2, <1>4, <1>5

\* The next element, if there is one.
LEMMA UpWriteNext ==
  ASSUME NEW gn, NEW c, Whole(c), c.active, c.state = "open", ~c.last_written,
         c.consumed >= Handshake, Events(c, UpEvents(gn)), ~gn => c.num_write_reqs = 0,
         NEW x, x = WriteNext(c)
  PROVE  /\ Whole(x) /\ Up(x, gn) /\ Kept(c, x) /\ x.websocket = c.websocket
         /\ OwnReads(x) = OwnReads(c)
<1>0. Typed(c) /\ ClientOK(c) /\ c.send_data \in Nat /\ c.num_write_reqs \in Int
  BY DEF Whole, Typed, ClientOK
<1>1. CASE c.send_data = 0
  <2>1. x = c
    BY <1>1 DEF WriteNext
  <2> QED
    BY <1>1, <2>1 DEF Up, Kept
<1>2. CASE c.send_data > 0
  <2>1. x = tls_send(c, "data") /\ ~Acked(c)
    BY <1>2 DEF WriteNext, wolfSSL_write, Acked
  <2>2. /\ Leads(c, x) /\ Sent(c, x) /\ OwnReads(x) = OwnReads(c)
        /\ x.num_write_reqs = c.num_write_reqs + 1 /\ x.last_written = c.last_written
        /\ x = add_write_req(c, "WRITE", "data")
    BY <1>0, <2>1, SendLeads
  <2>3. \E v : v[1] = Request(c, "WRITE", "data") /\ Own(x) = Own(c) \cup {v}
    BY <1>0, <2>2, AddWriteLeads
  <2>4. Events(x, UpEvents(gn))
    BY <2>3 DEF Events, UpEvents, Request
  <2>5. x.active /\ x.state = "open" /\ ~x.last_written /\ x.consumed >= Handshake
    BY <2>2 DEF Sent
  <2>6. x.send_data > 0 /\ (~gn => x.num_write_reqs = 1)
    BY <1>0, <1>2, <2>2 DEF Sent
  <2>7. Up(x, gn)
    BY <2>4, <2>5, <2>6 DEF Up
  <2> QED
    BY <2>2, <2>7, LeadsWhole DEF Sent, Kept
<1> QED
  BY <1>0, <1>1, <1>2

\* WRITE.
LEMMA UpWrite ==
  ASSUME NEW gn, NEW tk, NEW c, Typed(c), Whole(CountedDown(c)), Up(c, gn), Strict(c, tk, gn),
         NEW listed \in BOOLEAN, NEW x \in write(c, listed)
  PROVE  Whole(x) /\ (Down(x) \/ (Up(x, gn) /\ Strict(x, tk, gn)))
<1> DEFINE c1 == CountedDown(c)
           c2 == [c1 EXCEPT !.last_written = TRUE]
           c3 == wolfSSL_write(c2)
           c4 == [c3 EXCEPT !.send_data = @ - 1, !.last_written = FALSE]
<1>1. x \in CASE c.send_data = 0 -> {c1}
              [] c.send_data > 0 /\ ~IsWritten(c2) -> {c3}
              [] OTHER -> {WriteNext(y) : y \in write_cb(c4, listed)}
  BY DEF write, CountedDown
<1>2. /\ Whole(c1) /\ Sent(c, c1) /\ c1.num_write_reqs = c.num_write_reqs - 1
      /\ c1.requests = c.requests /\ c1.last_written = c.last_written /\ Typed(c1) /\ ClientOK(c1)
  BY CountedDownIs DEF Whole, Typed
<1>3. /\ c.send_data \in Nat /\ c.num_write_reqs \in Int /\ c1.num_write_reqs \in Nat
  <2>1. c.send_data \in Nat /\ c.num_write_reqs \in Int
    BY DEF Typed, ClientOK
  <2>2. c1.num_write_reqs \in Nat
    BY <1>2, FS_CardinalityType DEF Whole, Sound
  <2> QED
    BY <2>1, <2>2
<1>n. ~gn => c.num_write_reqs = 1 /\ c1.num_write_reqs = 0
  BY <1>2, <1>3 DEF Up
<1>o. Own(c1) = Own(c) /\ OwnReads(c1) = OwnReads(c)
  BY <1>2 DEF Own, OwnReads, Sent
<1>f. c1.active /\ c1.state = c.state /\ Kept(c, c1) /\ c1.send_data = c.send_data
      /\ c1.websocket = c.websocket /\ (c.state = "open" => ~c1.last_written)
      /\ Events(c1, UpEvents(gn))
  BY <1>2, <1>o DEF Sent, Kept, Up, Events
<1> HIDE DEF c1
<1>4. /\ Leads(c1, c2) /\ c2.send_data = c1.send_data /\ c2.active /\ c2.last_written
      /\ c2.num_write_reqs = c1.num_write_reqs /\ c2.websocket = c1.websocket /\ Kept(c1, c2)
      /\ c2.requests = c1.requests /\ c2.id = c1.id
  <2>1. ClientOK(c2) /\ Typed(c2)
    BY <1>2 DEF Typed, ClientOK, ClientFields
  <2>2. /\ c2.id = c1.id /\ c2.conn = c1.conn /\ c2.free = c1.free /\ c2.state = c1.state
        /\ c2.read_req_active = c1.read_req_active /\ c2.num_write_reqs = c1.num_write_reqs
        /\ c2.requests = c1.requests /\ c2.send_data = c1.send_data
        /\ c2.websocket = c1.websocket /\ Kept(c1, c2) /\ c2.active = c1.active /\ c2.last_written
        /\ c2.crossed = c1.crossed
    BY <1>2 DEF ClientOK, ClientFields, Kept
  <2> HIDE DEF c2
  <2>3. Leads(c1, c2)
    BY <2>1, <2>2, OtherFields
  <2> QED
    BY <1>f, <2>2, <2>3
<1> HIDE DEF c2
<1>5. Whole(c2) /\ Own(c2) = Own(c1) /\ OwnReads(c2) = OwnReads(c1) /\ Acked(c2)
  BY <1>2, <1>4, LeadsWhole DEF Own, OwnReads, Acked
<1>6. CASE c.send_data = 0
  <2>1. x = c1
    BY <1>1, <1>6
  <2>2. c.state = "open" => gn
    BY <1>6, <1>n DEF Up
  <2>3. Up(c1, gn)
    BY <1>f, <1>n, <2>2 DEF Up, Kept
  <2>4. Strict(c1, tk, gn)
    BY <1>f, <2>2 DEF Strict, Awake, Kept, Contiguous
  <2> QED
    BY <1>2, <2>1, <2>3, <2>4
<1>7. CASE c.send_data > 0 /\ ~IsWritten(c2)
  <2>1. x = c3 /\ c.state # "open"
    BY <1>1, <1>3, <1>4, <1>5, <1>7, <1>f DEF IsWritten, Kept
  <2>2. x = c2
    BY <1>4, <1>f, <2>1 DEF Kept, wolfSSL_write, Up
  <2>3. Up(c2, gn)
    BY <1>4, <1>5, <1>f, <1>n, <2>1 DEF Up, Events, Kept
  <2>4. Strict(c2, tk, gn)
    BY <2>1 DEF Strict
  <2> QED
    BY <1>5, <2>2, <2>3, <2>4
<1>8. CASE c.send_data > 0 /\ IsWritten(c2)
  <2>1. PICK y \in write_cb(c4, listed) : x = WriteNext(y)
    BY <1>1, <1>3, <1>8
  <2>2. c2.state = "open" /\ c.state = "open" /\ c3 = tls_send(c2, "data")
    BY <1>4, <1>8, <1>f DEF IsWritten, Kept, wolfSSL_write
  <2>3. /\ Leads(c2, c3) /\ Sent(c2, c3) /\ OwnReads(c3) = OwnReads(c2)
        /\ c3.requests = c2.requests /\ c3.num_write_reqs = c2.num_write_reqs
    BY <1>5, <2>2, SendLeads DEF Whole
  <2>4. Whole(c3) /\ Typed(c3) /\ ClientOK(c3)
    BY <1>5, <2>3, LeadsWhole DEF Whole, Typed
  <2> HIDE DEF c3
  <2>5. /\ c4.id = c3.id /\ c4.conn = c3.conn /\ c4.free = c3.free /\ Kept(c3, c4)
        /\ c4.read_req_active = c3.read_req_active /\ c4.num_write_reqs = c3.num_write_reqs
        /\ c4.requests = c3.requests /\ c4.websocket = c3.websocket /\ c4.active = c3.active
        /\ ~c4.last_written /\ c4.crossed = c3.crossed
    BY <2>4 DEF ClientOK, ClientFields, Kept
  <2>6. Whole(c4)
    <3>1. c3.send_data - 1 \in Nat
      BY <1>3, <1>4, <1>8, <1>f, <2>3 DEF Sent
    <3>2. ClientOK(c4) /\ Typed(c4)
      BY <2>4, <3>1 DEF Typed, ClientOK, ClientFields
    <3> HIDE DEF c4
    <3>3. Leads(c3, c4)
      BY <2>5, <3>2, OtherFields DEF Kept
    <3> QED
      BY <2>4, <3>3, LeadsWhole
  <2> HIDE DEF c4
  <2>7. Own(c4) = Own(c) /\ OwnReads(c4) = OwnReads(c)
    BY <1>5, <1>o, <2>3, <2>5 DEF Own, OwnReads, Sent
  <2>k. Kept(c, c4)
    BY <1>4, <1>f, <2>3, <2>5 DEF Kept, Sent
  <2>w. c4.active /\ c4.websocket = c.websocket /\ c4.num_write_reqs = c1.num_write_reqs
    BY <1>4, <1>f, <2>3, <2>5 DEF Sent
  <2>8. /\ c4.active /\ c4.state = "open" /\ ~c4.last_written /\ c4.consumed >= Handshake
        /\ Events(c4, UpEvents(gn)) /\ (~gn => c4.num_write_reqs = 0)
    BY <1>n, <2>2, <2>5, <2>7, <2>k, <2>w DEF Kept, Up, Events
  <2>9. CASE c.websocket \in {"open", "closing"} /\ y = c4
    <3>1. x = WriteNext(c4)
      BY <2>1, <2>9
    <3>2. /\ Whole(x) /\ Up(x, gn) /\ Kept(c4, x) /\ x.websocket = c4.websocket
          /\ OwnReads(x) = OwnReads(c4)
      BY <2>6, <2>8, <3>1, UpWriteNext
    <3>3. Strict(x, tk, gn)
      BY <2>2, <2>9, <2>7, <2>k, <2>w, <3>2 DEF Strict, Awake, Kept, Contiguous
    <3> QED
      BY <3>2, <3>3
  <2>10. CASE y \in close_connection(c4)
    <3>1. y \in close_connection(c4)
      BY <2>10
    <3>2. CASE c4.num_write_reqs = 0
      <4>1. Whole(y) /\ Down(y)
        BY <2>6, <3>1, <3>2, CloseDown
      <4>2. x = y
        BY <2>1, <4>1 DEF Down, WriteNext, wolfSSL_write
      <4> QED
        BY <4>1, <4>2
    <3>3. CASE c4.num_write_reqs # 0
      <4>1. gn
        BY <2>8, <3>3
      <4>2. Up(c4, gn)
        BY <2>8, <4>1 DEF Up
      <4>3. y = kill_client(c4)
        BY <3>1, <3>3 DEF close_connection
      <4>4. Whole(y) /\ Kept(c4, y) /\ (Down(y) \/ Up(y, gn))
        <5>1. ClientOK(c4)
          BY <2>6 DEF Whole, Typed
        <5>2. Kept(c4, y)
          BY <4>3, <5>1 DEF kill_client, ClientOK, ClientFields, Kept
        <5> QED
          BY <2>6, <3>1, <4>2, <5>2, UpClose
      <4>5. y.state = "open" /\ Up(y, gn)
        BY <2>8, <4>4 DEF Kept, Down
      <4>6. Whole(x) /\ Up(x, gn) /\ Kept(y, x)
        BY <2>1, <4>1, <4>4, <4>5, UpWriteNext DEF Up
      <4>7. Strict(x, tk, gn)
        BY <2>2, <2>k, <4>1, <4>4, <4>6 DEF Strict, Awake, Kept, Contiguous
      <4> QED
        BY <4>6, <4>7
    <3> QED
      BY <3>2, <3>3
  <2>11. (c.websocket \in {"open", "closing"} /\ y = c4) \/ y \in close_connection(c4)
    BY <2>1, <2>w DEF write_cb
  <2> QED
    BY <2>9, <2>10, <2>11
<1> QED
  BY <1>3, <1>6, <1>7, <1>8

\* A second ACCEPT_WRITE of the handshake's may end when the client is active.
LEMMA UpAcceptWrite ==
  ASSUME NEW gn, gn, NEW tk, NEW c, Typed(c), Whole(CountedDown(c)), Up(c, gn), Strict(c, tk, gn),
         NEW x \in accept_write(c)
  PROVE  Up(x, gn) /\ Strict(x, tk, gn)
<1> DEFINE c2 == [c EXCEPT !.num_write_reqs = @ - 1, !.accept_last_written = TRUE]
<1>1. /\ Kept(c, c2) /\ c2.active = c.active /\ c2.last_written = c.last_written
      /\ c2.id = c.id /\ c2.requests = c.requests
  BY DEF Typed, ClientOK, ClientFields, Kept
<1>2. x \in wolfSSL_accept(c2)
  BY DEF accept_write
<1> HIDE DEF c2
<1>3. x = c2
  BY <1>1, <1>2 DEF wolfSSL_accept, Up, Kept
<1>4. Own(c2) = Own(c)
  BY <1>1 DEF Own
<1>5. Events(c2, UpEvents(gn))
  BY <1>4 DEF Up, Events
<1> QED
  BY <1>1, <1>3, <1>5 DEF Up, Strict, Awake, Kept, Contiguous

\* The close loop, when the peer has gone.
LEMMA UpCloseLoop ==
  ASSUME NEW tk, NEW c, Whole(c), Up(c, TRUE), Strict(c, tk, TRUE), NEW x \in CloseLoop(c)
  PROVE  Whole(x) /\ (Down(x) \/ (Up(x, TRUE) /\ Strict(x, tk, TRUE)))
<1> DEFINE c1 == [c EXCEPT !.send_data = 0, !.last_written = FALSE]
<1>0. Typed(c) /\ ClientOK(c)
  BY DEF Whole, Typed
<1>1. /\ c1.id = c.id /\ c1.conn = c.conn /\ c1.free = c.free /\ Kept(c, c1)
      /\ c1.read_req_active = c.read_req_active /\ c1.num_write_reqs = c.num_write_reqs
      /\ c1.requests = c.requests /\ c1.active = c.active /\ ~c1.last_written
      /\ c1.crossed = c.crossed
  BY <1>0 DEF ClientOK, ClientFields, Kept
<1>2. ClientOK(c1) /\ Typed(c1)
  BY <1>0 DEF Typed, ClientOK, ClientFields
<1>3. x \in close_connection(c1)
  BY DEF CloseLoop
<1> HIDE DEF c1
<1>4. Whole(c1)
  <2>1. Leads(c, c1)
    BY <1>1, <1>2, OtherFields DEF Kept
  <2> QED
    BY <2>1, LeadsWhole
<1>5. Up(c1, TRUE)
  <2>1. Own(c1) = Own(c)
    BY <1>1 DEF Own
  <2> QED
    BY <1>1, <2>1 DEF Up, Events, Kept
<1>6. Whole(x) /\ (Down(x) \/ (Up(x, TRUE) /\ Kept(c1, x)))
  BY <1>3, <1>4, <1>5, UpClose
<1>7. Kept(c1, x) => Strict(x, tk, TRUE)
  BY <1>1 DEF Strict, Awake, Kept, Contiguous
<1> QED
  BY <1>6, <1>7

LEMMA OwnNone ==
  ASSUME NEW c, Sound(c), c.num_write_reqs = 0, ~c.read_req_active
  PROVE  Own(c) = {} /\ OwnReads(c) = {}
<1>1. OwnWrites(c) = {} /\ OwnReads(c) = {}
  BY FS_EmptySet DEF Sound
<1> QED
  BY <1>1 DEF OwnWrites, OwnReads

\* Nothing is in flight and nothing is to be written.
Calm(c) ==
  /\ ~c.accept_last_written /\ c.send_data = 0 /\ c.num_write_reqs = 0 /\ ~c.read_req_active

\* A session in the handshake when data has come in.
Ready(c, tk) ==
  /\ Whole(c) /\ ~c.active /\ ~c.last_written /\ c.websocket = "no" /\ c.files = 0
  /\ Contiguous(c, tk) /\ Events(c, {"ACCEPT_READ", "ACCEPT_WRITE"})
  /\ ~c.crossed => Calm(c)

\* What is written is as it was.
AsBefore(c, x) ==
  /\ x.accept_last_written = c.accept_last_written /\ x.last_written = c.last_written
  /\ x.send_data = c.send_data /\ x.num_write_reqs = c.num_write_reqs
  /\ x.crossed = c.crossed /\ x.files = c.files /\ x.websocket = c.websocket
  /\ x.active = c.active

LEMMA UpLooser ==
  ASSUME NEW c, NEW tk, NEW g, NEW h, g => h, Up(c, g), Strict(c, tk, g)
  PROVE  Up(c, h) /\ Strict(c, tk, h)
<1>1. UpEvents(g) \subseteq UpEvents(h)
  BY DEF UpEvents
<1>2. Up(c, h)
  BY <1>1 DEF Up, Events
<1>3. Strict(c, tk, h)
  BY DEF Strict, Awake
<1> QED
  BY <1>2, <1>3

\* The handshake is done: with the Finished came nothing more, or a whole record.
LEMMA AcceptedGood ==
  ASSUME NEW gn, NEW tk, NEW c, Ready(c, tk), c.state = "open", c.consumed = Handshake,
         EarlyData # "any" => tk \in {Handshake, Handshake + RecordSize},
         ~c.read_req_active, c.crossed => gn,
         NEW x \in Accepted(c)
  PROVE  Whole(x) /\ (Down(x) \/ (Up(x, gn) /\ Strict(x, tk, gn)))
<1> DEFINE c1 == [c EXCEPT !.active = TRUE, !.entry = "blank"]
           c2 == wolfSSL_read(c1)
           c3 == [c2 EXCEPT !.recv_data = <<>>]
           c4 == [c3 EXCEPT !.read_req_active = FALSE]
<1>0. Typed(c) /\ ClientOK(c) /\ Whole(c)
  BY DEF Ready, Whole, Typed
<1>1. x \in IF GotRecord(c1, c2) THEN read_cb(c4) ELSE {c3}
  BY DEF Accepted
<1>2. /\ c1.id = c.id /\ c1.conn = c.conn /\ c1.free = c.free /\ Kept(c, c1)
      /\ c1.read_req_active = c.read_req_active /\ c1.num_write_reqs = c.num_write_reqs
      /\ c1.requests = c.requests /\ c1.active /\ c1.last_written = c.last_written
      /\ c1.send_data = c.send_data /\ c1.websocket = c.websocket /\ c1.crossed = c.crossed
  BY <1>0 DEF ClientOK, ClientFields, Kept
<1>3. ClientOK(c1) /\ Typed(c1)
  BY <1>0 DEF Typed, ClientOK, ClientFields
<1> HIDE DEF c1
<1>4. Whole(c1)
  <2>1. Leads(c, c1)
    BY <1>2, <1>3, OtherFields DEF Kept
  <2> QED
    BY <1>0, <2>1, LeadsWhole
<1>5. /\ c1.state = "open" /\ c1.consumed = Handshake /\ ~c1.last_written
      /\ ~c1.read_req_active /\ Contiguous(c1, tk)
      /\ ~gn => c1.send_data = 0 /\ c1.num_write_reqs = 0
  BY <1>2 DEF Ready, Calm, Kept, Contiguous
<1>6. OwnReads(c1) = {}
  BY <1>4, <1>5 DEF Whole, Sound
<1>e. Events(c1, UpEvents(gn))
  <2>1. CASE gn
    <3>1. Own(c1) = Own(c) /\ Events(c, {"ACCEPT_READ", "ACCEPT_WRITE"})
      BY <1>2 DEF Own, Ready
    <3>2. ASSUME NEW w \in Own(c1) PROVE w[1].event = "ACCEPT_WRITE"
      <4>1. w[1].event \in {"ACCEPT_READ", "ACCEPT_WRITE"}
        BY <3>1, <3>2 DEF Events
      <4>2. w[1].what # "read"
        BY <1>6, <3>2 DEF OwnReads
      <4>3. w[1] \in Requests
        BY <1>3, <3>2, OwnIn DEF ClientOK
      <4> QED
        BY <4>1, <4>2, <4>3 DEF Requests
    <3> QED
      BY <2>1, <3>2 DEF Events, UpEvents
  <2>2. CASE ~gn
    <3>1. Own(c1) = {}
      BY <1>4, <1>5, <2>2, OwnNone DEF Whole
    <3> QED
      BY <3>1 DEF Events
  <2> QED
    BY <2>1, <2>2
<1>7. Up(c1, gn)
  BY <1>2, <1>5, <1>e DEF Up, Handshake, RecordSize
<1>8. c2 = ReadRecord(c1)
  BY <1>5 DEF wolfSSL_read
<1>9. PICK y : Record(c1, y, c2)
  BY <1>3, <1>5, <1>8, RecordIs
<1> HIDE DEF c2
<1>10. /\ Typed(y) /\ Fed(c1, y) /\ ReadEvent(c1) = "READ" /\ c2 \in {y, add_read_req(y, "READ")}
       /\ Contiguous(y, tk) /\ y.state = "open" /\ y.consumed >= Handshake
  BY <1>2, <1>3, <1>5, <1>9, RecordGrows DEF Record, ReadEvent
<1>11. Whole(y) /\ Up(y, gn) /\ OwnReads(y) = {} /\ ~y.read_req_active
  BY <1>4, <1>5, <1>6, <1>7, <1>10, UpFed DEF Fed
<1>12. /\ Whole(c2) /\ Up(c2, gn) /\ Kept(y, c2) /\ ClientOK(c2) /\ Typed(c2)
       /\ c2 = add_read_req(y, "READ") => OwnReads(c2) # {}
  <2>1. CASE c2 = y
    <3>1. y = add_read_req(y, "READ") => OwnReads(y) # {}
      BY <1>11, UpAddRead DEF Reading
    <3> QED
      BY <1>11, <2>1, <3>1 DEF Kept, Whole, Typed
  <2>2. CASE c2 = add_read_req(y, "READ")
    <3>1. Reading(y)
      BY <1>11 DEF Reading
    <3>2. Whole(c2) /\ Up(c2, gn) /\ Kept(y, c2) /\ OwnReads(c2) # {}
      BY <1>11, <2>2, <3>1, UpAddRead
    <3> QED
      BY <3>2 DEF Whole, Typed
  <2> QED
    BY <1>10, <2>1, <2>2
<1>13. /\ c3.id = c2.id /\ c3.conn = c2.conn /\ c3.free = c2.free /\ c3.state = c2.state
       /\ c3.read_req_active = c2.read_req_active /\ c3.num_write_reqs = c2.num_write_reqs
       /\ c3.requests = c2.requests /\ c3.consumed = c2.consumed /\ c3.recv_data = <<>>
       /\ c3.active = c2.active /\ c3.last_written = c2.last_written
       /\ c3.send_data = c2.send_data /\ c3.websocket = c2.websocket
       /\ c3.crossed = c2.crossed
  BY <1>12 DEF ClientOK, ClientFields
<1>14. Whole(c3)
  <2>1. ClientOK(c3)
    BY <1>12 DEF ClientOK, ClientFields
  <2> HIDE DEF c3
  <2>2. Typed(c3)
    BY <1>12, <1>13, <2>1 DEF Typed
  <2>3. Leads(c2, c3)
    BY <1>13, <2>2, OtherFields
  <2> QED
    BY <1>12, <2>3, LeadsWhole
<1> HIDE DEF c3
<1>15. Up(c3, gn) /\ OwnReads(c3) = OwnReads(c2)
  <2>1. Own(c3) = Own(c2) /\ OwnReads(c3) = OwnReads(c2)
    BY <1>13 DEF Own, OwnReads
  <2>2. Events(c3, UpEvents(gn))
    BY <1>12, <2>1 DEF Up, Events
  <2> QED
    BY <1>12, <1>13, <2>1, <2>2 DEF Up
<1>n. /\ tk = y.consumed + Len(y.recv_data) /\ y.consumed \in Nat /\ Len(y.recv_data) \in Nat
      /\ tk = c1.consumed + Len(c1.recv_data) /\ Len(c1.recv_data) \in Nat
      /\ y.recv_data \in Seq(1 .. Records * RecordSize)
  <2>1. tk = y.consumed + Len(y.recv_data) /\ tk = c1.consumed + Len(c1.recv_data)
    BY <1>5, <1>10 DEF Contiguous
  <2>2. /\ y.consumed \in Nat /\ y.recv_data \in Seq(1 .. Records * RecordSize)
        /\ c1.recv_data \in Seq(1 .. Records * RecordSize)
    BY <1>3, <1>10 DEF Typed, ClientOK
  <2> QED
    BY <2>1, <2>2
<1>s. Start(c1) = Handshake
  BY <1>5 DEF Start, Handshake, RecordSize
<1>16. CASE GotRecord(c1, c2)
  <2>1. c2 = y /\ c2.consumed = Handshake + RecordSize
    BY <1>9, <1>16, <1>s DEF Record
  <2>2. /\ c4.id = c3.id /\ c4.conn = c3.conn /\ c4.free = c3.free /\ Kept(c3, c4)
        /\ c4.num_write_reqs = c3.num_write_reqs /\ ~c4.read_req_active
        /\ c4.requests = c3.requests /\ c4.active = c3.active /\ c4.last_written = c3.last_written
        /\ c4.send_data = c3.send_data /\ c4.read_req_active = FALSE
        /\ c4.crossed = c3.crossed
    BY <1>14 DEF Whole, Typed, ClientOK, ClientFields, Kept
  <2>3. Whole(c4)
    <3>1. ClientOK(c4) /\ Typed(c4)
      BY <1>14 DEF Whole, Typed, ClientOK, ClientFields
    <3>2. ~c3.read_req_active
      BY <1>11, <1>13, <2>1
    <3>3. c3.read_req_active \in BOOLEAN
      BY <1>14 DEF Whole, Typed, ClientOK
    <3> HIDE DEF c4
    <3>4. c4.read_req_active = c3.read_req_active
      BY <2>2, <3>2, <3>3
    <3>5. Leads(c3, c4)
      BY <2>2, <3>1, <3>4, OtherFields DEF Kept
    <3> QED
      BY <1>14, <3>5, LeadsWhole
  <2> HIDE DEF c4
  <2>4. Up(c4, gn) /\ Reading(c4)
    <3>1. Own(c4) = Own(c3)
      BY <2>2 DEF Own
    <3> QED
      BY <1>15, <2>2, <3>1 DEF Up, Events, Kept, Reading
  <2>5. Whole(x) /\ (Down(x) \/ (Up(x, gn) /\ Kept(c4, x) /\ Awake(x, gn)))
    BY <1>1, <1>16, <2>3, <2>4, UpReadCb
  <2>6. EarlyData # "any" => tk = Handshake + RecordSize
    BY <1>n, <2>1 DEF Handshake, RecordSize
  <2>7. c4.state = "open" /\ c4.consumed = Handshake + RecordSize /\ c4.recv_data = <<>>
    BY <1>10, <1>13, <2>1, <2>2 DEF Kept
  <2>8. EarlyData # "any" => Contiguous(c4, tk)
    BY <2>6, <2>7 DEF Contiguous, Handshake, RecordSize
  <2>9. Kept(c4, x) /\ Awake(x, gn) => Strict(x, tk, gn)
    BY <2>7, <2>8 DEF Strict, Kept, Contiguous
  <2> QED
    BY <2>5, <2>9
<1>17. CASE ~GotRecord(c1, c2)
  <2>1. x = c3
    BY <1>1, <1>17
  <2>2. ASSUME EarlyData # "any" PROVE Contiguous(c3, tk) /\ c3.state = "open" /\ Awake(c3, gn)
    <3>1. c1.consumed + Len(c1.recv_data) < Handshake + RecordSize
      BY <1>9, <1>10, <1>17, <1>s DEF Record
    <3>2. tk = Handshake
      BY <1>5, <1>n, <2>2, <3>1 DEF Handshake, RecordSize
    <3>3. y.recv_data = <<>> /\ y.consumed = Handshake
      <4>1. Len(y.recv_data) = 0 /\ y.consumed = Handshake
        BY <1>10, <1>n, <3>2 DEF Handshake, RecordSize
      <4> QED
        BY <1>n, <4>1
    <3>4. c2 = add_read_req(y, "READ")
      BY <1>9, <1>10, <1>17, <3>3 DEF Record
    <3>5. OwnReads(c3) # {}
      BY <1>12, <1>15, <3>4
    <3>6. c3.state = "open" /\ c3.consumed = Handshake /\ c3.recv_data = <<>>
      BY <1>10, <1>12, <1>13, <3>3 DEF Kept
    <3>7. Contiguous(c3, tk)
      BY <3>2, <3>6 DEF Contiguous, Handshake, RecordSize
    <3> QED
      BY <3>5, <3>6, <3>7 DEF Awake
  <2>3. Strict(c3, tk, gn)
    BY <2>2 DEF Strict
  <2> QED
    BY <1>14, <1>15, <2>1, <2>3
<1> QED
  BY <1>16, <1>17

\* In the handshake a read is submitted, if there is none.
LEMMA ReadyAddRead ==
  ASSUME NEW tk, NEW c, Ready(c, tk), c.state \in {"hello", "finished"},
         NEW x, x = add_read_req(c, "ACCEPT_READ")
  PROVE  /\ Whole(x) /\ Kept(c, x) /\ AsBefore(c, x) /\ Contiguous(x, tk)
         /\ Events(x, {"ACCEPT_READ", "ACCEPT_WRITE"})
         /\ ~c.read_req_active => OwnReads(x) # {}
<1>0. Typed(c) /\ ClientOK(c) /\ Whole(c)
  BY DEF Ready, Whole, Typed
<1>1. /\ Leads(c, x)
      /\ c.read_req_active => x = c
      /\ ~c.read_req_active =>
           \E v : v[1] = Request(c, "ACCEPT_READ", "read") /\ Own(x) = Own(c) \cup {v}
  BY <1>0, AddReadLeads
<1>2. Kept(c, x) /\ AsBefore(c, x)
  BY <1>0, AddReadIs DEF Kept, AsBefore
<1>3. /\ Request(c, "ACCEPT_READ", "read").event = "ACCEPT_READ"
      /\ Request(c, "ACCEPT_READ", "read").what = "read"
  BY DEF Request
<1>5. Events(x, {"ACCEPT_READ", "ACCEPT_WRITE"}) /\ (~c.read_req_active => OwnReads(x) # {})
  <2>1. CASE ~c.read_req_active
    <3>1. PICK v : v[1] = Request(c, "ACCEPT_READ", "read") /\ Own(x) = Own(c) \cup {v}
      BY <1>1, <2>1
    <3> QED
      BY <1>3, <3>1 DEF OwnReads, Events, Ready
  <2>2. CASE c.read_req_active
    BY <1>1, <2>2 DEF Ready
  <2> QED
    BY <2>1, <2>2
<1>6. Whole(x)
  BY <1>0, <1>1, LeadsWhole
<1>7. Contiguous(x, tk)
  BY <1>2 DEF Ready, Kept, Contiguous
<1> QED
  BY <1>2, <1>5, <1>6, <1>7

\* One record of the handshake.
LEMMA ReadyRecord ==
  ASSUME NEW tk, NEW c, Ready(c, tk), c.state \in {"hello", "finished"}, NEW x, x = ReadRecord(c)
  PROVE  /\ AsBefore(c, x)
         /\ GotRecord(c, x) =>
              /\ Ready(x, tk) /\ x.state = c.state /\ x.consumed = Start(c) + RecordSize
              /\ x.read_req_active = c.read_req_active /\ tk >= x.consumed
         /\ ~GotRecord(c, x) =>
              /\ Whole(x) /\ x.state = c.state /\ Contiguous(x, tk)
              /\ ~c.read_req_active => OwnReads(x) # {}
              /\ Events(x, {"ACCEPT_READ", "ACCEPT_WRITE"})
              /\ x.consumed \in {c.consumed, Start(c) + 1} /\ tk < Start(c) + RecordSize
<1>0. Typed(c) /\ ClientOK(c) /\ Whole(c) /\ Contiguous(c, tk) /\ ~c.active
  BY DEF Ready, Whole, Typed
<1>1. PICK y : Record(c, y, x)
  BY <1>0, RecordIs
<1>2. /\ Typed(y) /\ Fed(c, y) /\ ReadEvent(c) = "ACCEPT_READ"
      /\ Contiguous(y, tk) /\ y.state = c.state
  BY <1>0, <1>1 DEF Record, ReadEvent
<1>3. Whole(y)
  BY <1>0, <1>2, FedLeads, LeadsWhole
<1>o. Own(y) = Own(c) /\ AsBefore(c, y) /\ y.read_req_active = c.read_req_active
  BY <1>2 DEF Fed, Own, AsBefore
<1>4. Ready(y, tk)
  <2>1. Events(y, {"ACCEPT_READ", "ACCEPT_WRITE"})
    BY <1>o DEF Events, Ready
  <2>2. ~y.crossed => Calm(y)
    BY <1>o DEF Ready, Calm, AsBefore
  <2> QED
    BY <1>2, <1>3, <1>o, <2>1, <2>2 DEF Ready, AsBefore
<1>5. CASE GotRecord(c, x)
  <2>1. x = y /\ y.consumed = Start(c) + RecordSize
    BY <1>1, <1>5 DEF Record
  <2>2. tk >= y.consumed
    <3>1. y.consumed \in Nat /\ Len(y.recv_data) \in Nat
      BY <1>2 DEF Typed, ClientOK
    <3>2. tk = y.consumed + Len(y.recv_data)
      BY <1>2 DEF Contiguous
    <3> QED
      BY <3>1, <3>2
  <2> QED
    BY <1>2, <1>4, <1>5, <1>o, <2>1, <2>2
<1>6. CASE ~GotRecord(c, x)
  <2>1. /\ y.consumed \in {c.consumed, Start(c) + 1} /\ x = add_read_req(y, "ACCEPT_READ")
        /\ c.consumed + Len(c.recv_data) < Start(c) + RecordSize
    BY <1>0, <1>1, <1>2, <1>6 DEF Record
  <2>2. tk < Start(c) + RecordSize
    BY <1>0, <2>1 DEF Contiguous
  <2>3. y.state \in {"hello", "finished"}
    BY <1>2
  <2>4. /\ Whole(x) /\ Kept(y, x) /\ AsBefore(y, x) /\ Contiguous(x, tk)
        /\ Events(x, {"ACCEPT_READ", "ACCEPT_WRITE"})
        /\ ~y.read_req_active => OwnReads(x) # {}
    BY <1>4, <2>1, <2>3, ReadyAddRead
  <2>5. AsBefore(c, x)
    BY <1>o, <2>4 DEF AsBefore
  <2> QED
    BY <1>2, <1>6, <1>o, <2>1, <2>2, <2>4, <2>5 DEF Kept
<1> QED
  BY <1>5, <1>6

\* The flight or the alert is sent.
LEMMA HelloSends ==
  ASSUME NEW tk, NEW c, Ready(c, tk), c.state = "hello",
         ~c.accept_last_written, c.num_write_reqs = 0, ~c.read_req_active,
         NEW s \in {"flight", "refused"}, NEW what \in {"flight", "alert"},
         NEW c1,
         /\ Leads(c, c1) /\ c1.state = s
         /\ c1.id = c.id /\ c1.conn = c.conn /\ c1.consumed = c.consumed
         /\ c1.recv_data = c.recv_data /\ c1.send_data = c.send_data
         /\ c1.read_req_active = c.read_req_active /\ c1.websocket = c.websocket
         /\ c1.active = c.active /\ c1.free = c.free /\ c1.num_write_reqs = c.num_write_reqs
         /\ c1.last_written = c.last_written /\ c1.accept_last_written = c.accept_last_written
         /\ c1.requests = c.requests /\ c1.crossed = c.crossed /\ c1.files = c.files,
         NEW x, x = tls_send(c1, what)
  PROVE  /\ Whole(x) /\ x.state = s /\ x.consumed = c.consumed /\ Contiguous(x, tk)
         /\ ~x.active /\ ~x.last_written /\ ~x.accept_last_written
         /\ x.send_data = c.send_data /\ x.crossed = c.crossed /\ x.files = 0
         /\ x.websocket = "no" /\ x.num_write_reqs = 1 /\ ~x.read_req_active
         /\ OwnReads(x) = {} /\ Events(x, {"ACCEPT_READ", "ACCEPT_WRITE"})
<1>0. Typed(c) /\ Whole(c)
  BY DEF Ready, Whole
<1>3. Whole(c1) /\ Typed(c1)
  BY <1>0, LeadsWhole DEF Whole
<1>4. ~Acked(c1) /\ ~c1.active /\ c1.num_write_reqs = 0 /\ ~c1.read_req_active
  BY DEF Acked, Ready
<1>5. /\ Leads(c1, x) /\ Sent(c1, x) /\ OwnReads(x) = OwnReads(c1)
      /\ x.num_write_reqs = c1.num_write_reqs + 1
      /\ x.last_written = c1.last_written /\ x.accept_last_written = c1.accept_last_written
      /\ x = add_write_req(c1, "ACCEPT_WRITE", what)
  BY <1>3, <1>4, SendLeads
<1>6. Own(c1) = {} /\ OwnReads(c1) = {}
  BY <1>3, <1>4, OwnNone DEF Whole
<1>7. \E v : v[1] = Request(c1, "ACCEPT_WRITE", what) /\ Own(x) = Own(c1) \cup {v}
  BY <1>3, <1>5, AddWriteLeads
<1>8. Events(x, {"ACCEPT_READ", "ACCEPT_WRITE"})
  BY <1>6, <1>7 DEF Events, Request
<1>9. Whole(x)
  BY <1>3, <1>5, LeadsWhole
<1>10. x.num_write_reqs = 1
  BY <1>4, <1>5
<1> QED
  BY <1>5, <1>6, <1>8, <1>9, <1>10 DEF Ready, Sent, Contiguous

LEMMA HelloGood ==
  ASSUME NEW tk, NEW fl, ~fl, NEW c, Ready(c, tk), c.state = "hello", c.consumed \in {0, 1},
         ~c.accept_last_written, c.num_write_reqs = 0, ~c.read_req_active,
         tk <= Hello, NEW x \in AcceptHello(c)
  PROVE  Whole(x) /\ Shaking(x, tk, fl)
<1> DEFINE c1 == ReadRecord(c)
<1>1. x \in IF GotRecord(c, c1)
            THEN {tls_send([c1 EXCEPT !.state = "flight"], "flight"),
                  tls_send([c1 EXCEPT !.state = "refused"], "alert")}
            ELSE {c1}
  BY DEF AcceptHello
<1>2. Start(c) = 0
  BY DEF Start, RecordSize
<1>t. tk \in Int
  <2>1. Len(c.recv_data) \in Nat /\ c.consumed \in Nat
    BY DEF Ready, Whole, Typed, ClientOK
  <2> QED
    BY <2>1 DEF Ready, Contiguous
<1>3. /\ AsBefore(c, c1)
      /\ GotRecord(c, c1) =>
           /\ Ready(c1, tk) /\ c1.state = "hello" /\ c1.consumed = 0 + RecordSize
           /\ c1.read_req_active = c.read_req_active /\ tk >= c1.consumed
      /\ ~GotRecord(c, c1) =>
           /\ Whole(c1) /\ c1.state = "hello" /\ Contiguous(c1, tk) /\ OwnReads(c1) # {}
           /\ Events(c1, {"ACCEPT_READ", "ACCEPT_WRITE"})
           /\ c1.consumed \in {c.consumed, 0 + 1} /\ tk < 0 + RecordSize
  BY <1>2, ReadyRecord
<1> HIDE DEF c1
<1>4. CASE ~GotRecord(c, c1)
  <2>1. x = c1
    BY <1>1, <1>4
  <2>2. c1.consumed \in {0, 1} /\ tk < Hello
    BY <1>3, <1>4, <1>t DEF Hello, RecordSize
  <2>3. /\ ~c1.active /\ ~c1.last_written /\ c1.websocket = "no" /\ c1.files = 0
        /\ ~c1.accept_last_written /\ c1.num_write_reqs = 0 /\ (~c1.crossed => c1.send_data = 0)
    BY <1>3 DEF AsBefore, Ready, Calm
  <2> QED
    BY <1>3, <1>4, <2>1, <2>2, <2>3 DEF Shaking
<1>5. CASE GotRecord(c, c1)
  <2>1. c1.consumed = Hello /\ tk = Hello
    BY <1>3, <1>5, <1>t DEF Hello, RecordSize
  <2>2. /\ Ready(c1, tk) /\ c1.state = "hello"
        /\ ~c1.accept_last_written /\ c1.num_write_reqs = 0 /\ ~c1.read_req_active
    BY <1>3, <1>5 DEF AsBefore
  <2>3. \E s \in {"flight", "refused"} : \E what \in {"flight", "alert"} :
          x = tls_send([c1 EXCEPT !.state = s], what)
    BY <1>1, <1>5
  <2>4. PICK s \in {"flight", "refused"}, what \in {"flight", "alert"} :
          x = tls_send([c1 EXCEPT !.state = s], what)
    BY <2>3
  <2>a. s \in {"flight", "refused"} /\ what \in {"flight", "alert"}
    BY <2>4
  <2> DEFINE c2 == [c1 EXCEPT !.state = s]
  <2>b. x = tls_send(c2, what)
    BY <2>4
  <2>c. /\ Leads(c1, c2) /\ c2.state = s
        /\ c2.id = c1.id /\ c2.conn = c1.conn /\ c2.consumed = c1.consumed
        /\ c2.recv_data = c1.recv_data /\ c2.send_data = c1.send_data
        /\ c2.read_req_active = c1.read_req_active /\ c2.websocket = c1.websocket
        /\ c2.active = c1.active /\ c2.free = c1.free /\ c2.num_write_reqs = c1.num_write_reqs
        /\ c2.last_written = c1.last_written /\ c2.accept_last_written = c1.accept_last_written
        /\ c2.requests = c1.requests /\ c2.crossed = c1.crossed /\ c2.files = c1.files
    <3>1. Typed(c1)
      BY <2>2 DEF Ready, Whole
    <3>2. s \in {"hello", "flight", "finished", "open", "refused", "broken"}
      BY <2>a
    <3>3. c1.state # "none"
      BY <2>2
    <3>4. c2 = [c1 EXCEPT !.state = s]
      OBVIOUS
    <3> HIDE DEF c2
    <3> QED
      BY <3>1, <3>2, <3>3, <3>4, StateLeads
  <2> HIDE DEF c2
  <2>5. /\ Whole(x) /\ x.state = s /\ x.consumed = c1.consumed /\ Contiguous(x, tk)
        /\ ~x.active /\ ~x.last_written /\ ~x.accept_last_written
        /\ x.send_data = c1.send_data /\ x.crossed = c1.crossed /\ x.files = 0
        /\ x.websocket = "no" /\ x.num_write_reqs = 1 /\ ~x.read_req_active
        /\ OwnReads(x) = {} /\ Events(x, {"ACCEPT_READ", "ACCEPT_WRITE"})
    BY <2>2, <2>a, <2>b, <2>c, HelloSends
  <2>d. ~x.crossed => x.send_data = 0
    BY <2>2, <2>5 DEF Ready, Calm
  <2>6. CASE s = "flight"
    BY <2>1, <2>5, <2>6, <2>d DEF Shaking
  <2>7. CASE s = "refused"
    BY <2>1, <2>5, <2>7, <2>d DEF Shaking
  <2> QED
    BY <2>6, <2>7
<1> QED
  BY <1>4, <1>5

LEMMA FinishedGood ==
  ASSUME NEW tk, NEW fl, NEW c, Ready(c, tk), c.state = "finished",
         c.consumed \in {Hello, Hello + 1}, NEW x, x = AcceptFinished(c)
  PROVE  /\ Whole(x)
         /\ \/ Shaking(x, tk, fl)
            \/ /\ Ready(x, tk) /\ x.state = "open" /\ x.consumed = Handshake /\ tk >= Handshake
               /\ x.read_req_active = c.read_req_active /\ x.crossed = c.crossed
<1> DEFINE c1 == ReadRecord(c)
<1>1. x = IF GotRecord(c, c1) THEN [c1 EXCEPT !.state = "open"] ELSE c1
  BY DEF AcceptFinished
<1>2. Start(c) = Hello
  BY DEF Start, Hello, RecordSize
<1>3. /\ AsBefore(c, c1)
      /\ GotRecord(c, c1) =>
           /\ Ready(c1, tk) /\ c1.state = "finished" /\ c1.consumed = Hello + RecordSize
           /\ c1.read_req_active = c.read_req_active /\ tk >= c1.consumed
      /\ ~GotRecord(c, c1) =>
           /\ Whole(c1) /\ c1.state = "finished" /\ Contiguous(c1, tk)
           /\ ~c.read_req_active => OwnReads(c1) # {}
           /\ Events(c1, {"ACCEPT_READ", "ACCEPT_WRITE"})
           /\ c1.consumed \in {c.consumed, Hello + 1} /\ tk < Hello + RecordSize
  BY <1>2, ReadyRecord
<1> HIDE DEF c1
<1>h. Hello + RecordSize = Handshake
  BY DEF Hello, Handshake, RecordSize
<1>4. CASE ~GotRecord(c, c1)
  <2>1. x = c1 /\ c1.consumed \in {Hello, Hello + 1} /\ tk < Handshake
    BY <1>1, <1>3, <1>4, <1>h
  <2>2. /\ ~c1.active /\ ~c1.last_written /\ c1.websocket = "no" /\ c1.files = 0
        /\ ~c1.crossed => c1.send_data = 0
        /\ ~c1.crossed =>
             /\ ~c1.accept_last_written /\ c1.num_write_reqs = 0 /\ OwnReads(c1) # {}
    BY <1>3, <1>4 DEF AsBefore, Ready, Calm
  <2> QED
    BY <1>3, <1>4, <2>1, <2>2 DEF Shaking
<1>5. CASE GotRecord(c, c1)
  <2>1. x = [c1 EXCEPT !.state = "open"] /\ Whole(c1) /\ Typed(c1) /\ c1.state = "finished"
    BY <1>1, <1>3, <1>5 DEF Ready, Whole
  <2>2. /\ Leads(c1, x) /\ x.state = "open" /\ x.consumed = c1.consumed
        /\ x.recv_data = c1.recv_data /\ x.send_data = c1.send_data
        /\ x.read_req_active = c1.read_req_active /\ x.websocket = c1.websocket
        /\ x.active = c1.active /\ x.num_write_reqs = c1.num_write_reqs
        /\ x.last_written = c1.last_written /\ x.accept_last_written = c1.accept_last_written
        /\ x.crossed = c1.crossed /\ x.files = c1.files /\ x.requests = c1.requests /\ x.id = c1.id
    BY <2>1, StateLeads
  <2>3. Whole(x)
    BY <2>1, <2>2, LeadsWhole
  <2>4. Ready(x, tk)
    <3>1. Own(x) = Own(c1) /\ Events(c1, {"ACCEPT_READ", "ACCEPT_WRITE"})
      BY <1>3, <1>5, <2>2 DEF Own, Ready
    <3>2. Events(x, {"ACCEPT_READ", "ACCEPT_WRITE"}) /\ (~x.crossed => Calm(x))
      BY <1>3, <1>5, <2>2, <3>1 DEF Ready, Calm, Events
    <3> QED
      BY <1>3, <1>5, <2>2, <2>3, <3>2 DEF Ready, Contiguous
  <2>5. x.read_req_active = c.read_req_active /\ x.crossed = c.crossed
    BY <1>3, <1>5, <2>2 DEF AsBefore
  <2> QED
    BY <1>3, <1>5, <1>h, <2>2, <2>3, <2>4, <2>5
<1> QED
  BY <1>4, <1>5

\* ACCEPT_READ.
LEMMA ReadyAcceptRead ==
  ASSUME NEW gn, NEW tk, NEW fl, NEW c, Ready(c, tk), c.state \in {"hello", "finished"},
         ~c.read_req_active,
         c.state = "hello" => /\ c.consumed \in {0, 1} /\ tk <= Hello /\ ~fl
                              /\ ~c.accept_last_written /\ c.num_write_reqs = 0,
         c.state = "finished" =>
           /\ c.consumed \in {Hello, Hello + 1}
           /\ EarlyData # "any" => tk <= Handshake \/ tk = Handshake + RecordSize,
         NEW x \in accept_read(c)
  PROVE  Whole(x) /\ Good(x, tk, fl, gn)
<1>1. PICK y \in wolfSSL_accept(c) : x \in IF y.state = "open" THEN Accepted(y) ELSE {y}
  BY DEF accept_read
<1>2. CASE c.state = "hello"
  <2>1. y \in AcceptHello(c)
    BY <1>2 DEF wolfSSL_accept
  <2>2. Whole(y) /\ Shaking(y, tk, fl)
    BY <1>2, <2>1, HelloGood
  <2>3. x = y
    BY <1>1, <2>2 DEF Shaking
  <2> QED
    BY <2>2, <2>3 DEF Good
<1>3. CASE c.state = "finished"
  <2>1. y = AcceptFinished(c)
    BY <1>3 DEF wolfSSL_accept
  <2>2. \/ Whole(y) /\ Shaking(y, tk, fl)
        \/ /\ Ready(y, tk) /\ y.state = "open" /\ y.consumed = Handshake /\ tk >= Handshake
           /\ y.read_req_active = c.read_req_active
    BY <1>3, <2>1, FinishedGood
  <2>3. CASE Whole(y) /\ Shaking(y, tk, fl)
    <3>1. x = y
      BY <1>1, <2>3 DEF Shaking
    <3> QED
      BY <2>3, <3>1 DEF Good
  <2>4. CASE /\ Ready(y, tk) /\ y.state = "open" /\ y.consumed = Handshake /\ tk >= Handshake
             /\ y.read_req_active = c.read_req_active
    <3>1. x \in Accepted(y)
      BY <1>1, <2>4
    <3>2. tk \in Int
      <4>1. Len(c.recv_data) \in Nat /\ c.consumed \in Nat
        BY DEF Ready, Whole, Typed, ClientOK
      <4> QED
        BY <4>1 DEF Ready, Contiguous
    <3>3. EarlyData # "any" => tk \in {Handshake, Handshake + RecordSize}
      BY <1>3, <2>4, <3>2 DEF Handshake, RecordSize
    <3> DEFINE g == Loose(y, gn)
    <3>l. y.crossed => g
      BY DEF Loose
    <3> HIDE DEF g
    <3>4. Whole(x) /\ (Down(x) \/ (Up(x, g) /\ Strict(x, tk, g)))
      BY <2>4, <3>1, <3>3, <3>l, AcceptedGood
    <3>5. Leads(y, x)
      BY <2>4, <3>1, AcceptedLeads DEF Ready, Whole
    <3>6. g => Loose(x, gn)
      BY <3>5 DEF g, Loose, Leads, Later
    <3> QED
      BY <3>4, <3>6, UpLooser DEF Good
  <2> QED
    BY <2>2, <2>3, <2>4
<1> QED
  BY <1>2, <1>3

\* ACCEPT_WRITE: the flight is out, or the alert.
LEMMA ShakingAcceptWrite ==
  ASSUME NEW tk, NEW fl, NEW fl2, NEW c, Typed(c), Whole(CountedDown(c)), Shaking(c, tk, fl),
         NEW x \in accept_write(c)
  PROVE  Whole(x) /\ Shaking(x, tk, fl2)
<1> DEFINE c1 == CountedDown(c)
           c2 == [c1 EXCEPT !.accept_last_written = TRUE]
<1>1. c2 = [c EXCEPT !.num_write_reqs = @ - 1, !.accept_last_written = TRUE]
  BY DEF Typed, ClientOK, ClientFields, CountedDown
<1>2. x \in wolfSSL_accept(c2)
  BY <1>1 DEF accept_write
<1>3. /\ Whole(c1) /\ Sent(c, c1) /\ c1.num_write_reqs = c.num_write_reqs - 1
      /\ c1.requests = c.requests /\ c1.last_written = c.last_written /\ Typed(c1) /\ ClientOK(c1)
  BY CountedDownIs DEF Whole, Typed
<1>n. c1.num_write_reqs \in Nat /\ c.num_write_reqs \in Int
  BY <1>3, FS_CardinalityType DEF Whole, Sound, Typed, ClientOK
<1> HIDE DEF c1
<1>4. /\ c2.id = c1.id /\ c2.conn = c1.conn /\ c2.free = c1.free /\ Kept(c1, c2)
      /\ c2.read_req_active = c1.read_req_active /\ c2.num_write_reqs = c1.num_write_reqs
      /\ c2.requests = c1.requests /\ c2.active = c1.active /\ c2.accept_last_written
      /\ c2.last_written = c1.last_written /\ c2.send_data = c1.send_data
      /\ c2.websocket = c1.websocket /\ c2.crossed = c1.crossed /\ c2.files = c1.files
  BY <1>3 DEF ClientOK, ClientFields, Kept
<1>5. Whole(c2) /\ Typed(c2)
  <2>1. ClientOK(c2) /\ Typed(c2)
    BY <1>3 DEF Typed, ClientOK, ClientFields
  <2> HIDE DEF c2
  <2>2. Leads(c1, c2)
    BY <1>4, <2>1, OtherFields DEF Kept
  <2> QED
    BY <1>3, <2>1, <2>2, LeadsWhole
<1> HIDE DEF c2
<1>6. /\ Kept(c, c2) /\ ~c2.active /\ ~c2.last_written /\ c2.websocket = "no"
      /\ c2.files = 0 /\ c2.crossed = c.crossed /\ (~c2.crossed => c2.send_data = 0)
  BY <1>3, <1>4 DEF Kept, Sent, Shaking
<1>7. Own(c2) = Own(c) /\ OwnReads(c2) = OwnReads(c)
  BY <1>3, <1>4 DEF Own, OwnReads, Sent
<1>8. CASE c.state = "refused"
  <2>1. x = c2
    BY <1>2, <1>6, <1>8 DEF wolfSSL_accept, Kept
  <2>2. c2.num_write_reqs <= 1
    BY <1>3, <1>4, <1>8, <1>n DEF Shaking
  <2> QED
    BY <1>5, <1>6, <1>7, <1>8, <2>1, <2>2 DEF Shaking, Kept, Events
<1>9. CASE c.state = "flight"
  <2> DEFINE c3 == tls_send(c2, "flight")
             c4 == [c3 EXCEPT !.state = "finished"]
  <2>1. Acked(c2) /\ c2.state = "flight"
    BY <1>4, <1>6, <1>9 DEF Acked, Kept
  <2>2. x = AcceptFinished(c4)
    BY <1>2, <2>1 DEF wolfSSL_accept
  <2>3. /\ Leads(c2, c3) /\ Sent(c2, c3) /\ c3.num_write_reqs = c2.num_write_reqs
        /\ c3.requests = c2.requests
        /\ c3.last_written = (c2.last_written /\ ~c2.active)
        /\ c3.accept_last_written = (c2.accept_last_written /\ c2.active)
    BY <1>5, <2>1, SendLeads
  <2>4. Whole(c3) /\ Typed(c3) /\ c3.state = "flight"
    BY <1>5, <2>1, <2>3, LeadsWhole DEF Whole, Sent
  <2> HIDE DEF c3
  <2>5. /\ Leads(c3, c4) /\ c4.state = "finished" /\ c4.consumed = c3.consumed
        /\ c4.recv_data = c3.recv_data /\ c4.send_data = c3.send_data
        /\ c4.read_req_active = c3.read_req_active /\ c4.websocket = c3.websocket
        /\ c4.active = c3.active /\ c4.num_write_reqs = c3.num_write_reqs
        /\ c4.last_written = c3.last_written /\ c4.accept_last_written = c3.accept_last_written
        /\ c4.crossed = c3.crossed /\ c4.files = c3.files /\ c4.requests = c3.requests
        /\ c4.id = c3.id
    BY <2>4, StateLeads
  <2>6. Whole(c4)
    BY <2>4, <2>5, LeadsWhole
  <2> HIDE DEF c4
  <2>7. /\ ~c2.read_req_active /\ c2.consumed = Hello /\ Contiguous(c2, tk)
        /\ ~c2.crossed => c2.num_write_reqs = 0
    BY <1>3, <1>4, <1>6, <1>9, <1>n DEF Shaking, Sent, Kept, Contiguous
  <2>e. Own(c4) = Own(c) /\ Events(c4, {"ACCEPT_READ", "ACCEPT_WRITE"})
    BY <1>7, <2>3, <2>5 DEF Own, Sent, Events, Shaking
  <2>q. ~c4.last_written /\ ~c4.accept_last_written /\ ~c4.active
    BY <1>6, <2>3, <2>5 DEF Sent
  <2>c. ~c4.crossed => Calm(c4)
    BY <1>6, <2>3, <2>5, <2>7, <2>q DEF Calm, Sent
  <2>8. Ready(c4, tk) /\ c4.consumed \in {Hello, Hello + 1}
    BY <1>6, <2>3, <2>5, <2>6, <2>7, <2>c, <2>e, <2>q DEF Ready, Sent, Contiguous
  <2>9. /\ Whole(x)
        /\ Shaking(x, tk, fl2) \/ tk >= Handshake
    BY <2>2, <2>5, <2>8, FinishedGood
  <2>10. tk = Hello
    BY <1>9 DEF Shaking
  <2> QED
    BY <2>9, <2>10 DEF Hello, Handshake, RecordSize
<1>10. CASE c.state = "finished"
  <2>1. c.crossed
    BY <1>3, <1>10, <1>n DEF Shaking
  <2>2. /\ x = AcceptFinished(c2) /\ c2.state = "finished" /\ c2.consumed \in {Hello, Hello + 1}
        /\ tk < Handshake /\ Contiguous(c2, tk)
    BY <1>2, <1>6, <1>10 DEF wolfSSL_accept, Shaking, Kept, Contiguous
  <2>3. Events(c2, {"ACCEPT_READ", "ACCEPT_WRITE"})
    BY <1>7 DEF Events, Shaking
  <2>4. Ready(c2, tk)
    BY <1>5, <1>6, <2>1, <2>2, <2>3 DEF Ready
  <2>5. Whole(x) /\ (Shaking(x, tk, fl2) \/ tk >= Handshake)
    BY <2>2, <2>4, FinishedGood
  <2>6. tk \in Int
    <3>1. Len(c2.recv_data) \in Nat /\ c2.consumed \in Nat
      BY <1>5 DEF Typed, ClientOK
    <3> QED
      BY <2>2, <3>1 DEF Contiguous
  <2> QED
    BY <2>2, <2>5, <2>6 DEF Handshake, RecordSize
<1>11. c.state # "hello"
  BY <1>3, <1>n DEF Shaking
<1> QED
  BY <1>8, <1>9, <1>10, <1>11 DEF Shaking

\* A client that was closed stays closed.
LEMMA DownRead ==
  ASSUME NEW c, Typed(c), Down(c), NEW x, x \in read(c) \/ x \in accept_read(c)
  PROVE  Down(x)
<1>1. CASE x \in accept_read(c)
  <2>1. wolfSSL_accept(c) = {c}
    BY DEF Down, wolfSSL_accept
  <2>2. x = c
    BY <1>1, <2>1 DEF accept_read, Down
  <2> QED
    BY <2>2
<1>2. CASE x \in read(c)
  <2>1. ReadLoop(c) = c
    <3>1. PICK a : /\ a[0] = c /\ ReadLoop(c) = a[Records]
                   /\ \A m \in 0 .. Records - 1 : a[m + 1] = ReadOnce(a[m])
      BY LoopIs
    <3>2. Records \in Nat
      BY TlsAssumption
    <3>3. ReadOnce(c) = c
      BY DEF ReadOnce, wolfSSL_read, Down
    <3> DEFINE S == {c}
    <3>4. a[0] \in S
      BY <3>1
    <3>5. \A m \in 0 .. Records - 1 : a[m] \in S => a[m + 1] \in S
      BY <3>1, <3>3
    <3>6. \A m \in 0 .. Records : a[m] \in S
      <4> HIDE DEF S
      <4> QED
        BY <3>2, <3>4, <3>5, AlwaysIn
    <3> QED
      BY <3>1, <3>2, <3>6
  <2>2. x = add_read_req(c, "READ")
    BY <1>2, <2>1 DEF read, SameRecord
  <2> QED
    BY <2>2, AddReadIs DEF Down, Typed
<1> QED
  BY <1>1, <1>2

LEMMA DownCounted ==
  ASSUME NEW c, Typed(c), Down(c)
  PROVE  Down(CountedDown(c))
<1>1. /\ Sent(c, CountedDown(c)) /\ CountedDown(c).num_write_reqs = c.num_write_reqs - 1
      /\ c.num_write_reqs \in Int
  BY CountedDownIs DEF Typed, ClientOK
<1> QED
  BY <1>1 DEF Down, Sent

LEMMA DownWrite ==
  ASSUME NEW c, Typed(c), Down(c), NEW listed \in BOOLEAN,
         NEW x, x \in write(c, listed) \/ x \in accept_write(c)
  PROVE  Down(x)
<1> DEFINE c1 == CountedDown(c)
           c2 == [c1 EXCEPT !.accept_last_written = TRUE]
<1>1. Down(c1) /\ ClientOK(c1)
  BY DownCounted, CountedDownIs DEF Typed
<1>2. CASE x \in write(c, listed)
  <2> DEFINE c3 == [c1 EXCEPT !.last_written = TRUE]
  <2>1. Down(c3) /\ c3.state = "none"
    <3> HIDE DEF c1
    <3> QED
      BY <1>1 DEF Down, ClientOK, ClientFields
  <2>2. x \in {c1, c3, wolfSSL_write(c3)}
    <3>1. ~IsWritten(c3)
      <4> HIDE DEF c3
      <4> QED
        BY <2>1 DEF IsWritten
    <3>2. c.send_data \in Nat
      BY DEF Typed, ClientOK
    <3> QED
      BY <1>2, <3>1, <3>2 DEF write, CountedDown
  <2>3. wolfSSL_write(c3) = c3
    <3> HIDE DEF c3
    <3> QED
      BY <2>1 DEF wolfSSL_write
  <2> QED
    BY <1>1, <2>1, <2>2, <2>3
<1>3. CASE x \in accept_write(c)
  <2>1. c2 = [c EXCEPT !.num_write_reqs = @ - 1, !.accept_last_written = TRUE]
    BY DEF Typed, ClientOK, ClientFields, CountedDown
  <2>2. x \in wolfSSL_accept(c2)
    BY <1>3, <2>1 DEF accept_write
  <2> HIDE DEF c1
  <2>3. Down(c2)
    BY <1>1 DEF Down, ClientOK, ClientFields
  <2> HIDE DEF c2
  <2>4. x = c2
    BY <2>2, <2>3 DEF Down, wolfSSL_accept
  <2> QED
    BY <2>3, <2>4
<1> QED
  BY <1>2, <1>3

\* The close loop with no write in flight.
LEMMA LoopDown ==
  ASSUME NEW c, Whole(c), c.num_write_reqs = 0, NEW x \in CloseLoop(c)
  PROVE  Whole(x) /\ Down(x)
<1> DEFINE c1 == [c EXCEPT !.send_data = 0, !.last_written = FALSE]
<1>0. Typed(c) /\ ClientOK(c)
  BY DEF Whole, Typed
<1>1. /\ c1.id = c.id /\ c1.conn = c.conn /\ c1.free = c.free /\ c1.state = c.state
      /\ c1.read_req_active = c.read_req_active /\ c1.num_write_reqs = c.num_write_reqs
      /\ c1.requests = c.requests /\ c1.crossed = c.crossed
  BY <1>0 DEF ClientOK, ClientFields
<1>2. ClientOK(c1) /\ Typed(c1)
  BY <1>0 DEF Typed, ClientOK, ClientFields
<1>3. x \in close_connection(c1)
  BY DEF CloseLoop
<1> HIDE DEF c1
<1>4. Whole(c1)
  <2>1. Leads(c, c1)
    BY <1>1, <1>2, OtherFields
  <2> QED
    BY <2>1, LeadsWhole
<1> QED
  BY <1>1, <1>3, <1>4, CloseDown


-----------------------------------------------------------------------------
(* The handlers keep Good.                                                 *)

\* A session has no request on another connection, and what it has in flight is as
\* num_write_reqs and read_req_active say.
LEMMA OwnRequest ==
  ASSUME NEW c, Whole(c), c.state # "none", NEW r \in BagToSet(c.requests), r.ID = c.id
  PROVE  /\ r.conn = c.conn /\ c.conn \in Conns /\ r \in Requests
         /\ r.what = "read" => OwnReads(c) # {} /\ c.read_req_active
         /\ r.what # "read" => c.num_write_reqs >= 1
         /\ \A E : Events(c, E) => r.event \in E
<1>1. ClientOK(c) /\ ~c.free /\ c.conn \in Conns /\ Sound(c)
  BY DEF Whole, Typed
<1>2. PICK w \in Own(c) : w[1] = r
  BY <1>1, OwnHas
<1>3. r \in Requests
  BY <1>1 DEF ClientOK
<1>4. r.conn = c.conn
  BY <1>1, <1>2 DEF Sound
<1>5. r.what = "read" => OwnReads(c) # {} /\ c.read_req_active
  BY <1>1, <1>2 DEF OwnReads, Sound
<1>6. ASSUME r.what # "read" PROVE c.num_write_reqs >= 1
  <2>1. w \in OwnWrites(c) /\ IsFiniteSet(OwnWrites(c))
    BY <1>1, <1>2, <1>6 DEF OwnWrites, Sound
  <2>2. Cardinality(OwnWrites(c)) # 0 /\ Cardinality(OwnWrites(c)) \in Nat
    BY <2>1, FS_EmptySet, FS_CardinalityType
  <2> QED
    BY <1>1, <2>2 DEF Sound
<1>7. \A E : Events(c, E) => r.event \in E
  BY <1>2 DEF Events
<1> QED
  BY <1>1, <1>3, <1>4, <1>5, <1>6, <1>7

\* What was received up to t and is n now: the t = o + l bytes before and the n - t new ones.
LEMMA ReceivedSum ==
  ASSUME NEW t \in Int, NEW o \in Int, NEW l \in Int, t = o + l
  PROVE  /\ \A n \in Int : o + (l + (n - t)) = n
         /\ \A m \in Int : t + (m - l) = o + m
  OBVIOUS

\* The bytes of a read follow those before.
LEMMA ReceivedContiguous ==
  ASSUME TypeOK, NEW c, Typed(c), NEW k \in Conns, Contiguous(c, taken[k]),
         NEW n \in ReadEnds(k), NEW x, x = Received(c, k, n)
  PROVE  Contiguous(x, n)
<1> DEFINE q == Bytes(taken[k], n)
           D == 1 .. Records * RecordSize
<1>1. x.recv_data = c.recv_data \o q /\ x.consumed = c.consumed
  <2>1. ClientOK(c)
    BY DEF Typed
  <2>2. x = [c EXCEPT !.read_req_active = FALSE, !.recv_data = @ \o q]
    BY DEF Received, Bytes
  <2> HIDE DEF q
  <2> QED
    BY <2>1, <2>2 DEF ClientOK, ClientFields
<1>2. /\ taken[k] \in Nat /\ n \in taken[k] + 1 .. Records * RecordSize
      /\ Records * RecordSize \in Nat /\ n \in Nat
  BY TlsAssumption DEF TypeOK, ReadEnds, RecordSize
<1>3. n - taken[k] \in Nat
  BY <1>2
<1>4. q \in Seq(D) /\ Len(q) = n - taken[k]
  <2>1. q \in [1 .. n - taken[k] -> D] /\ DOMAIN q = 1 .. n - taken[k]
    BY <1>2 DEF Bytes
  <2> HIDE DEF q
  <2>2. q \in Seq(D)
    BY <1>3, <2>1, SeqDef
  <2> QED
    BY <1>3, <2>1, <2>2, LenProperties
<1>5. \A m \in 1 .. Len(q) : q[m] = taken[k] + m
  BY <1>4 DEF Bytes
<1>6. c.recv_data \in Seq(D) /\ c.consumed \in Nat /\ Len(c.recv_data) \in Nat
  BY DEF Typed, ClientOK
<1> HIDE DEF q, D
<1>7. /\ Len(x.recv_data) = Len(c.recv_data) + Len(q)
      /\ \A m \in 1 .. Len(x.recv_data) :
           x.recv_data[m] = IF m <= Len(c.recv_data) THEN c.recv_data[m] ELSE q[m - Len(c.recv_data)]
  <2> DEFINE p == c.recv_data
             d == p \o q
  <2>1. p \in Seq(D) /\ q \in Seq(D)
    BY <1>4, <1>6
  <2>2. /\ Len(d) = Len(p) + Len(q)
        /\ \A m \in 1 .. Len(p) + Len(q) : d[m] = IF m <= Len(p) THEN p[m] ELSE q[m - Len(p)]
    <3> HIDE DEF p
    <3> QED
      BY <2>1, ConcatProperties
  <2>3. x.recv_data = d
    BY <1>1
  <2> HIDE DEF d
  <2> QED
    BY <2>2, <2>3
<1>t. taken[k] = c.consumed + Len(c.recv_data)
  BY DEF Contiguous
<1>i. taken[k] \in Int /\ c.consumed \in Int /\ Len(c.recv_data) \in Int /\ n \in Int
  BY <1>2, <1>6
<1>s. /\ \A e \in Int : c.consumed + (Len(c.recv_data) + (e - taken[k])) = e
      /\ \A m \in Int : taken[k] + (m - Len(c.recv_data)) = c.consumed + m
  BY <1>i, <1>t, ReceivedSum
<1>8. n = x.consumed + Len(x.recv_data)
  <2>1. Len(x.recv_data) = Len(c.recv_data) + (n - taken[k])
    BY <1>4, <1>7
  <2>2. x.consumed + (Len(c.recv_data) + (n - taken[k])) = n
    BY <1>1, <1>i, <1>s
  <2> QED
    BY <2>1, <2>2
<1>9. ASSUME NEW m \in 1 .. Len(x.recv_data) PROVE x.recv_data[m] = x.consumed + m
  <2>1. CASE m <= Len(c.recv_data)
    BY <1>1, <1>6, <1>7, <2>1 DEF Contiguous
  <2>2. CASE m > Len(c.recv_data)
    <3>1. m - Len(c.recv_data) \in 1 .. Len(q) /\ Len(q) \in Nat
      BY <1>3, <1>4, <1>6, <1>7, <2>2
    <3>2. x.recv_data[m] = taken[k] + (m - Len(c.recv_data))
      <4>1. x.recv_data[m] = q[m - Len(c.recv_data)]
        <5>1. ~(m <= Len(c.recv_data))
          BY <1>6, <2>2
        <5> QED
          BY <1>7, <5>1
      <4> QED
        BY <1>5, <3>1, <4>1
    <3>3. m \in Int
      OBVIOUS
    <3> QED
      BY <1>1, <1>s, <3>2, <3>3
  <2> QED
    BY <1>6, <2>1, <2>2
<1> QED
  BY <1>8, <1>9 DEF Contiguous

\* A late completion, of a client that has been replaced.
LEMMA DoneGood ==
  ASSUME NEW tk, NEW fl, NEW gn, NEW c, Typed(c), Good(c, tk, fl, gn),
         NEW r \in BagToSet(c.requests), r.ID # c.id, NEW x, x = Done(c, r)
  PROVE  Good(x, tk, fl, gn)
<1>1. /\ Sent(c, x) /\ x.num_write_reqs = c.num_write_reqs
      /\ x.last_written = c.last_written /\ x.accept_last_written = c.accept_last_written
      /\ Own(x) = Own(c)
  BY DoneIs
<1>2. OwnReads(x) = OwnReads(c)
  BY <1>1 DEF OwnReads
<1>3. Down(c) => Down(x)
  BY <1>1 DEF Down, Sent
<1>4. Shaking(c, tk, fl) => Shaking(x, tk, fl)
  BY <1>1, <1>2 DEF Shaking, Sent, Events, Contiguous
<1>g. Loose(x, gn) = Loose(c, gn)
  BY <1>1 DEF Loose, Sent
<1> DEFINE g == Loose(c, gn)
<1> HIDE DEF g
<1>5. Up(c, g) => Up(x, g)
  BY <1>1 DEF Up, Sent, Events
<1>6. Strict(c, tk, g) => Strict(x, tk, g)
  BY <1>1, <1>2 DEF Strict, Awake, Sent, Contiguous
<1> QED
  BY <1>3, <1>4, <1>5, <1>6, <1>g DEF Good, g

\* A step for another client, of another connection; or the peer has gone.
LEMMA GoodFrame ==
  ASSUME NEW c, Typed(c), NEW tk, NEW fl, NEW gn, Good(c, tk, fl, gn),
         NEW tk2, NEW fl2, NEW gn2, c.conn # None => tk2 = tk /\ (fl2 <=> fl), gn => gn2
  PROVE  Good(c, tk2, fl2, gn2)
<1>1. CASE Down(c)
  BY <1>1 DEF Good
<1>2. CASE ~Down(c)
  <2>1. c.state # "none"
    BY <1>2 DEF Good, Shaking, Up
  <2>2. tk2 = tk /\ (fl2 <=> fl)
    BY <2>1, TlsAssumption DEF Typed, Conns, None
  <2>3. Shaking(c, tk, fl) => Shaking(c, tk2, fl2)
    BY <2>2 DEF Shaking
  <2>4. Loose(c, gn) => Loose(c, gn2)
    BY DEF Loose
  <2>5. /\ Up(c, Loose(c, gn)) /\ Strict(c, tk, Loose(c, gn))
          => Up(c, Loose(c, gn2)) /\ Strict(c, tk2, Loose(c, gn2))
    BY <2>2, <2>4, UpLooser
  <2> QED
    BY <1>2, <2>3, <2>5 DEF Good
<1> QED
  BY <1>1, <1>2

\* The completion of a read of the client that has the slot.
LEMMA ReadGood ==
  ASSUME TypeOK, NEW i \in Slots, NEW c, c = clients[i], Whole(c),
         NEW r \in BagToSet(c.requests), r.what = "read", r.ID = c.id, r.conn # None,
         NEW gn, NEW tk, Good(c, taken[c.conn], c.conn \in flown, gn),
         NEW n \in ReadEnds(r.conn), r.conn = c.conn => tk = n, NEW x \in ReadTo(i, r, n)
  PROVE  Good(x, tk, c.conn \in flown, gn)
<1> DEFINE d == Done(c, r)
           y == Received(d, r.conn, n)
<1>0. Typed(c) /\ Sound(c) /\ r.conn \in Conns
  BY DEF Whole, Typed, ClientOK, Requests
<1>1. /\ Typed(d) /\ Sent(c, d) /\ d.num_write_reqs = c.num_write_reqs
      /\ d.last_written = c.last_written /\ d.accept_last_written = c.accept_last_written
      /\ \E v \in Own(c) : Own(d) = Own(c) \ {v}
  BY <1>0, DoneIs
<1>2. Sound(d) /\ OwnReads(d) = {}
  BY <1>0, DoneSound
<1>3. x \in IF r.event = "READ" THEN read(y) ELSE accept_read(y)
  BY DEF ReadTo, Stale
<1>c. y = Received(d, r.conn, n)
  OBVIOUS
<1> HIDE DEF d
<1>4. /\ Typed(y) /\ ~y.read_req_active /\ y.requests = d.requests
      /\ y.id = d.id /\ y.conn = d.conn /\ y.state = d.state /\ y.consumed = d.consumed
      /\ y.send_data = d.send_data /\ y.websocket = d.websocket /\ y.active = d.active
      /\ y.free = d.free /\ y.num_write_reqs = d.num_write_reqs
      /\ y.last_written = d.last_written /\ y.accept_last_written = d.accept_last_written
      /\ Sound(y) /\ y.files = d.files /\ y.crossed = d.crossed
  BY <1>0, <1>1, <1>2, ReceivedIs
<1> HIDE DEF y
<1>5. /\ y.state = c.state /\ y.consumed = c.consumed /\ y.conn = c.conn
      /\ y.send_data = c.send_data /\ y.websocket = c.websocket /\ y.active = c.active
      /\ y.free = c.free /\ y.num_write_reqs = c.num_write_reqs
      /\ y.last_written = c.last_written /\ y.accept_last_written = c.accept_last_written
      /\ y.files = c.files /\ y.crossed = c.crossed
  BY <1>1, <1>4 DEF Sent
<1>6. Own(y) \subseteq Own(c)
  BY <1>1, <1>4 DEF Own
<1>7. Whole(y)
  BY <1>4 DEF Whole
<1>8. CASE Down(c)
  <2>1. Down(y)
    BY <1>5, <1>8 DEF Down
  <2>2. Down(x)
    BY <1>3, <1>4, <2>1, DownRead
  <2> QED
    BY <2>2 DEF Good
<1>9. CASE ~Down(c)
  <2>1. c.state # "none"
    BY <1>9 DEF Good, Shaking, Up
  <2>2. /\ r.conn = c.conn /\ r \in Requests /\ OwnReads(c) # {} /\ c.read_req_active
        /\ \A E : Events(c, E) => r.event \in E
    BY <2>1, OwnRequest
  <2>3. tk = n /\ c.conn \in Conns /\ n \in ReadEnds(c.conn)
    BY <1>0, <2>2
  <2>4. Contiguous(c, taken[c.conn]) => Contiguous(y, tk)
    <3>1. Contiguous(c, taken[c.conn]) => Contiguous(d, taken[c.conn])
      BY <1>1 DEF Contiguous, Sent
    <3> QED
      BY <1>1, <1>c, <2>2, <2>3, <3>1, ReceivedContiguous
  <2>5. /\ c.conn \in flown \/ n <= Hello
        /\ taken[c.conn] < Handshake /\ n > Handshake =>
             EarlyData = "any" \/ (EarlyData = "whole" /\ n = Handshake + RecordSize)
        /\ n \in Int
    <3>1. taken[c.conn] \in Nat /\ Records * RecordSize \in Nat
      BY <2>3, TlsAssumption DEF TypeOK, RecordSize
    <3> QED
      BY <2>3, <3>1 DEF ReadEnds
  <2>6. CASE Shaking(c, taken[c.conn], c.conn \in flown)
    <3>1. r.event # "READ" /\ x \in accept_read(y)
      BY <1>3, <2>2, <2>6 DEF Shaking
    <3>2. c.state \in {"hello", "finished"}
      <4>1. c.state # "refused" /\ c.state # "flight"
        BY <2>2, <2>6 DEF Shaking
      <4> QED
        BY <2>6, <4>1 DEF Shaking
    <3>3. /\ Contiguous(c, taken[c.conn])
          /\ ~c.crossed => ~c.accept_last_written /\ c.num_write_reqs = 0 /\ c.send_data = 0
      BY <2>6, <3>2 DEF Shaking
    <3>4. /\ ~c.active /\ ~c.last_written /\ c.websocket = "no" /\ c.files = 0
          /\ Events(c, {"ACCEPT_READ", "ACCEPT_WRITE"})
      BY <2>6 DEF Shaking
    <3>e. Events(y, {"ACCEPT_READ", "ACCEPT_WRITE"})
      BY <1>6, <3>4 DEF Events
    <3>c. ~y.crossed => Calm(y)
      BY <1>4, <1>5, <3>3 DEF Calm
    <3>5. Ready(y, tk)
      BY <1>5, <1>7, <2>4, <3>3, <3>4, <3>c, <3>e DEF Ready
    <3>6. y.state = "hello" => /\ y.consumed \in {0, 1} /\ tk <= Hello /\ ~(c.conn \in flown)
                               /\ ~y.accept_last_written /\ y.num_write_reqs = 0
      BY <1>5, <2>3, <2>5, <2>6 DEF Shaking
    <3>7. y.state = "finished" =>
           /\ y.consumed \in {Hello, Hello + 1}
           /\ EarlyData # "any" => tk <= Handshake \/ tk = Handshake + RecordSize
      <4>1. SUFFICES ASSUME y.state = "finished"
                     PROVE  /\ y.consumed \in {Hello, Hello + 1}
                            /\ EarlyData # "any" => tk <= Handshake \/ tk = Handshake + RecordSize
        OBVIOUS
      <4>2. c.consumed \in {Hello, Hello + 1} /\ taken[c.conn] < Handshake
        BY <1>5, <2>6, <4>1 DEF Shaking
      <4>3. n <= Handshake \/ n > Handshake
        BY <2>5 DEF Handshake, RecordSize
      <4> QED
        BY <1>5, <2>3, <2>5, <4>2, <4>3
    <3>8. y.state \in {"hello", "finished"}
      BY <1>5, <3>2
    <3> QED
      BY <1>4, <3>1, <3>5, <3>6, <3>7, <3>8, ReadyAcceptRead
  <2>7. CASE Up(c, Loose(c, gn)) /\ Strict(c, taken[c.conn], Loose(c, gn))
    <3> DEFINE g == Loose(c, gn)
    <3>0. Up(c, g) /\ Strict(c, taken[c.conn], g)
      BY <2>7
    <3>l. g => Loose(x, gn)
      <4>1. c.crossed => x.crossed
        <5>1. Leads(y, x)
          <6>1. ~y.read_req_active
            BY <1>4
          <6> QED
            BY <1>3, <1>4, <6>1, ReadHandlerLeads, AcceptReadLeads
        <5> QED
          BY <1>5, <5>1 DEF Leads, Later
      <4> QED
        BY <4>1 DEF Loose
    <3> HIDE DEF g
    <3>1. r.event = "READ" /\ x \in read(y)
      <4>1. r.event \in UpEvents(g)
        BY <2>2, <3>0 DEF Up
      <4> QED
        BY <1>3, <2>2, <4>1 DEF Requests, UpEvents
    <3>2. Up(y, g) /\ Reading(y)
      BY <1>4, <1>5, <1>6, <3>0 DEF Up, Events, Reading
    <3>3. \/ Down(x)
          \/ /\ Up(x, g) /\ Awake(x, g)
             /\ y.state = "open" /\ Contiguous(y, tk) => Contiguous(x, tk) /\ x.state = "open"
      BY <1>7, <3>1, <3>2, UpRead
    <3>4. EarlyData # "any" => y.state = "open" /\ Contiguous(y, tk)
      BY <1>5, <2>4, <3>0 DEF Strict
    <3>5. Down(x) \/ (Up(x, g) /\ Strict(x, tk, g))
      BY <3>3, <3>4 DEF Strict
    <3> QED
      BY <3>5, <3>l, UpLooser DEF Good
  <2> QED
    BY <1>9, <2>6, <2>7 DEF Good
<1> QED
  BY <1>8, <1>9

\* The completion of a write.
LEMMA WriteGood ==
  ASSUME NEW i \in Slots, NEW c, c = clients[i], Whole(c),
         NEW r \in BagToSet(c.requests), r.what # "read", r.ID = c.id,
         NEW tk, NEW fl, NEW fl2, NEW gn, Good(c, tk, fl, gn), NEW x \in WriteTo(i, r)
  PROVE  Good(x, tk, fl2, gn)
<1> DEFINE d == Done(c, r)
<1>0. Typed(c) /\ Sound(c)
  BY DEF Whole
<1>1. /\ Typed(d) /\ Sent(c, d) /\ d.num_write_reqs = c.num_write_reqs
      /\ d.last_written = c.last_written /\ d.accept_last_written = c.accept_last_written
      /\ \E v \in Own(c) : Own(d) = Own(c) \ {v}
  BY <1>0, DoneIs
<1>2. Sound(CountedDown(d)) /\ OwnReads(d) = OwnReads(c)
  BY <1>0, DoneSound
<1>3. \E listed \in BOOLEAN : x \in IF r.event = "WRITE" THEN write(d, listed) ELSE accept_write(d)
  BY DEF WriteTo, Stale
<1> HIDE DEF d
<1>4. Whole(CountedDown(d))
  BY <1>1, <1>2, CountedDownIs DEF Whole
<1>5. CASE Down(c)
  <2>1. Down(d)
    BY <1>1, <1>5 DEF Down, Sent
  <2>2. Down(x)
    BY <1>1, <1>3, <2>1, DownWrite
  <2> QED
    BY <2>2 DEF Good
<1>6. CASE Shaking(c, tk, fl)
  <2>1. c.state # "none" /\ Events(c, {"ACCEPT_READ", "ACCEPT_WRITE"})
    BY <1>6 DEF Shaking
  <2>2. r.event # "WRITE"
    BY <2>1, OwnRequest
  <2>3. Events(d, {"ACCEPT_READ", "ACCEPT_WRITE"})
    BY <1>1, <2>1 DEF Events
  <2>4. Shaking(d, tk, fl)
    BY <1>1, <1>2, <1>6, <2>3 DEF Shaking, Sent, Contiguous
  <2>5. Shaking(x, tk, fl2)
    BY <1>1, <1>3, <1>4, <2>2, <2>4, ShakingAcceptWrite
  <2> QED
    BY <2>5 DEF Good
<1>7. CASE Up(c, Loose(c, gn)) /\ Strict(c, tk, Loose(c, gn))
  <2> DEFINE g == Loose(c, gn)
  <2>0. Up(c, g) /\ Strict(c, tk, g)
    BY <1>7
  <2>l. g => Loose(x, gn)
    <3>1. Leads(CountedDown(d), x)
      BY <1>1, <1>2, <1>3, WriteHandlerLeads, AcceptWriteLeads
    <3>2. CountedDown(d).crossed = c.crossed
      BY <1>1, CountedDownIs DEF Sent, Typed
    <3> QED
      BY <3>1, <3>2 DEF Leads, Later, Loose
  <2> HIDE DEF g
  <2>1. c.state # "none" /\ Events(c, UpEvents(g))
    BY <2>0 DEF Up
  <2>2. r \in Requests /\ r.event \in UpEvents(g)
    BY <2>1, OwnRequest
  <2>3. Up(d, g)
    <3>1. Events(d, UpEvents(g))
      BY <1>1, <2>1 DEF Events
    <3> QED
      BY <1>1, <2>0, <3>1 DEF Up, Sent
  <2>4. Strict(d, tk, g)
    BY <1>1, <1>2, <2>0 DEF Strict, Awake, Sent, Contiguous
  <2>5. Down(x) \/ (Up(x, g) /\ Strict(x, tk, g))
    <3>1. CASE r.event = "WRITE"
      BY <1>1, <1>3, <1>4, <2>3, <2>4, <3>1, UpWrite
    <3>2. CASE r.event # "WRITE"
      <4>1. g /\ x \in accept_write(d)
        BY <1>3, <2>2, <3>2 DEF UpEvents, Requests
      <4> QED
        BY <1>1, <1>4, <2>3, <2>4, <4>1, UpAcceptWrite
    <3> QED
      BY <3>1, <3>2
  <2> QED
    BY <2>5, <2>l, UpLooser DEF Good
<1> QED
  BY <1>5, <1>6, <1>7 DEF Good

\* A request that failed: the client is closed unless a write is still in flight.
LEMMA FailGood ==
  ASSUME NEW i \in Slots, NEW c, c = clients[i], Whole(c),
         NEW r \in BagToSet(c.requests), r.ID = c.id,
         NEW tk, NEW fl, NEW gn, c.state # "none" => gn, Good(c, tk, fl, gn), NEW x \in FailTo(i, r)
  PROVE  Good(x, tk, fl, gn)
<1> DEFINE d == Done(c, r)
           y == IF r.what = "read" THEN d ELSE CountedDown(d)
<1>0. Typed(c) /\ Sound(c) /\ c.num_write_reqs \in Int
  BY DEF Whole, Typed, ClientOK
<1>1. /\ Typed(d) /\ Sent(c, d) /\ d.num_write_reqs = c.num_write_reqs
      /\ d.last_written = c.last_written /\ d.accept_last_written = c.accept_last_written
      /\ \E v \in Own(c) : Own(d) = Own(c) \ {v}
  BY <1>0, DoneIs
<1>2. /\ r.what = "read" => Sound(d)
      /\ r.what # "read" => Sound(CountedDown(d))
  BY <1>0, DoneSound
<1>3. d.id = r.ID
  BY <1>1 DEF Sent
<1>4. x \in IF y.num_write_reqs = 0 THEN CloseLoop(y) ELSE {y}
  BY <1>3 DEF FailTo, CountedDown
<1> HIDE DEF d
<1>5. Whole(y)
  BY <1>1, <1>2, CountedDownIs DEF Whole
<1>6. /\ y.num_write_reqs = (IF r.what = "read" THEN c.num_write_reqs ELSE c.num_write_reqs - 1)
      /\ Sent(d, y) /\ y.requests = d.requests
      /\ y.last_written = c.last_written /\ y.accept_last_written = c.accept_last_written
  <2>1. CASE r.what = "read"
    BY <1>1, <2>1 DEF Sent
  <2>2. CASE r.what # "read"
    BY <1>1, <2>2, CountedDownIs
  <2> QED
    BY <2>1, <2>2
<1>d. r.what # "read" => y = CountedDown(d)
  OBVIOUS
<1>r. r.what = "read" => y = d
  OBVIOUS
<1> HIDE DEF y
<1>7. CASE y.num_write_reqs = 0
  <2>1. Down(x)
    BY <1>4, <1>5, <1>7, LoopDown
  <2> QED
    BY <2>1 DEF Good
<1>8. CASE y.num_write_reqs # 0
  <2>1. x = y
    BY <1>4, <1>8
  <2>2. CASE Down(c)
    <3>1. Down(d)
      BY <1>1, <2>2 DEF Down, Sent
    <3>2. Down(y)
      BY <1>1, <1>d, <1>r, <3>1, DownCounted
    <3> QED
      BY <2>1, <3>2 DEF Good
  <2>s. Own(y) \subseteq Own(c) /\ y.num_write_reqs \in Nat
    <3>1. Own(y) \subseteq Own(c)
      BY <1>1, <1>6 DEF Own, Sent
    <3> QED
      BY <1>5, <3>1, FS_CardinalityType DEF Whole, Sound
  <2>3. CASE Shaking(c, tk, fl)
    <3>1. c.state # "none"
      BY <2>3 DEF Shaking
    <3>2. /\ r.what = "read" => OwnReads(c) # {} /\ c.read_req_active
          /\ r.what # "read" => c.num_write_reqs >= 1
      BY <3>1, OwnRequest
    <3>3. c.crossed /\ c.state \in {"flight", "finished"}
      BY <1>0, <1>6, <1>8, <2>3, <3>2 DEF Shaking
    <3>4. /\ y.state = c.state /\ y.consumed = c.consumed /\ y.recv_data = c.recv_data
          /\ y.read_req_active = c.read_req_active /\ y.websocket = c.websocket
          /\ y.active = c.active /\ y.files = c.files /\ y.crossed
          /\ y.accept_last_written = c.accept_last_written
      BY <1>1, <1>6, <3>3 DEF Sent
    <3>5. Events(y, {"ACCEPT_READ", "ACCEPT_WRITE"}) /\ Contiguous(y, tk)
      BY <2>3, <2>s, <3>3, <3>4 DEF Shaking, Events, Contiguous
    <3>6. y.num_write_reqs = 1 \/ y.num_write_reqs > 1
      BY <1>8, <2>s
    <3>7. Shaking(y, tk, fl)
      BY <1>6, <2>3, <3>3, <3>4, <3>5, <3>6 DEF Shaking
    <3> QED
      BY <2>1, <3>7 DEF Good
  <2>4. CASE Up(c, Loose(c, gn)) /\ Strict(c, tk, Loose(c, gn))
    <3>1. c.state # "none"
      BY <2>4 DEF Up
    <3>2. Loose(c, gn) /\ Loose(y, gn)
      BY <3>1 DEF Loose
    <3>3. y.state = c.state /\ y.active = c.active /\ y.consumed = c.consumed
          /\ y.recv_data = c.recv_data
      BY <1>1, <1>6 DEF Sent
    <3>4. Events(y, UpEvents(Loose(y, gn)))
      BY <2>4, <2>s, <3>2 DEF Up, Events, UpEvents
    <3>5. Up(y, Loose(y, gn))
      BY <1>6, <2>4, <3>2, <3>3, <3>4 DEF Up
    <3>6. Strict(y, tk, Loose(y, gn))
      BY <2>4, <3>2, <3>3 DEF Strict, Awake, Contiguous
    <3> QED
      BY <2>1, <3>5, <3>6 DEF Good
  <2> QED
    BY <2>2, <2>3, <2>4 DEF Good
<1> QED
  BY <1>7, <1>8

\* A file read ends.  In the handshake it is one of an earlier client's: the flight may be
\* written once more.
LEMMA LoadedGood ==
  ASSUME NEW c, Whole(c), NEW tk, NEW fl, NEW gn, Good(c, tk, fl, gn),
         NEW y, Loaded(c, y), NEW x, x = write_connection(y)
  PROVE  x.conn = c.conn /\ Good(x, tk, fl, gn)
<1> DEFINE c1 == [y EXCEPT !.send_data = @ + 1]
<1>0. /\ Typed(c) /\ SameClient(c, y) /\ ClientOK(y) /\ y.websocket = c.websocket
      /\ (y.crossed /\ y.files = c.files) \/ c.files > 0
  BY DEF Whole, Loaded, SameClient
<1>1. Leads(c, x) /\ Leads(c, y)
  BY <1>0, LoadedLeads, SameLeads
<1>2. Whole(y) /\ Whole(x) /\ x.conn = c.conn /\ (c.crossed => x.crossed)
  <2>1. Whole(y) /\ Whole(x)
    BY <1>1, LeadsWhole
  <2> QED
    BY <1>1, <2>1 DEF Leads, Later
<1>3. /\ c1.id = y.id /\ c1.requests = y.requests /\ c1.send_data = y.send_data + 1
      /\ c1.last_written = y.last_written /\ c1.num_write_reqs = y.num_write_reqs
      /\ c1.accept_last_written = y.accept_last_written /\ c1.free = y.free
      /\ c1.websocket = y.websocket /\ c1.active = y.active /\ c1.files = y.files
      /\ c1.crossed = y.crossed /\ c1.read_req_active = y.read_req_active /\ Kept(y, c1)
  BY <1>0 DEF ClientOK, ClientFields, Kept
<1>4. Typed(c1)
  <2>1. ClientOK(c1)
    BY <1>0 DEF ClientOK, ClientFields
  <2> QED
    BY <1>2, <2>1 DEF Whole, Typed, ClientOK, ClientFields
<1>5. x = IF c1.send_data = 1 THEN wolfSSL_write(c1) ELSE c1
  BY DEF write_connection
<1> HIDE DEF c1
<1>6. CASE Down(c)
  <2>1. Down(c1)
    BY <1>0, <1>3, <1>6 DEF Down, SameClient, Kept
  <2>2. x = c1
    BY <1>5, <2>1 DEF Down, wolfSSL_write
  <2> QED
    BY <1>2, <2>1, <2>2 DEF Good
<1>7. CASE Shaking(c, tk, fl)
  <2>1. y.crossed /\ y.files = 0
    <3>1. c.files = 0
      BY <1>7 DEF Shaking
    <3> QED
      BY <1>0, <3>1
  <2>2. Own(c1) = Own(c) /\ OwnReads(c1) = OwnReads(c)
    BY <1>0, <1>3 DEF Own, OwnReads, SameClient
  <2>3. /\ c1.state = c.state /\ c1.consumed = c.consumed /\ c1.recv_data = c.recv_data
        /\ c1.active = c.active /\ c1.last_written = c.last_written /\ c1.websocket = c.websocket
        /\ c1.accept_last_written = c.accept_last_written /\ c1.num_write_reqs = c.num_write_reqs
        /\ c1.read_req_active = c.read_req_active /\ c1.files = 0 /\ c1.crossed
    BY <1>0, <1>3, <2>1 DEF SameClient, Kept
  <2>4. Events(c1, {"ACCEPT_READ", "ACCEPT_WRITE"}) /\ (c.state # "refused" => Contiguous(c1, tk))
    BY <1>7, <2>2, <2>3 DEF Shaking, Events, Contiguous
  <2>5. Shaking(c1, tk, fl)
    BY <1>7, <2>2, <2>3, <2>4 DEF Shaking
  <2>6. CASE x = c1
    BY <1>2, <2>5, <2>6 DEF Good
  <2>7. CASE c1.state = "flight" /\ x = tls_send(c1, "flight")
    <3>1. ~Acked(c1) /\ ~c1.active /\ c1.num_write_reqs \in Int
      BY <1>4, <2>5, <2>7 DEF Acked, Shaking, Typed, ClientOK
    <3>2. /\ Sent(c1, x) /\ OwnReads(x) = OwnReads(c1)
          /\ x.num_write_reqs = c1.num_write_reqs + 1 /\ x.last_written = c1.last_written
          /\ x.accept_last_written = c1.accept_last_written
          /\ x = add_write_req(c1, "ACCEPT_WRITE", "flight")
      BY <1>4, <2>7, <3>1, SendLeads
    <3>3. \E v : v[1] = Request(c1, "ACCEPT_WRITE", "flight") /\ Own(x) = Own(c1) \cup {v}
      BY <1>4, <2>7, <3>2, AddWriteLeads
    <3>4. Events(x, {"ACCEPT_READ", "ACCEPT_WRITE"})
      BY <2>4, <3>3 DEF Events, Request
    <3>5. x.crossed /\ x.num_write_reqs > 1
      <4>1. x.crossed
        BY <2>3, <3>2 DEF Sent
      <4>2. c1.num_write_reqs = 1 \/ c1.num_write_reqs > 1
        BY <2>5, <2>7 DEF Shaking
      <4> QED
        BY <3>1, <3>2, <4>1, <4>2
    <3>6. Shaking(x, tk, fl)
      BY <2>5, <2>7, <3>2, <3>4, <3>5 DEF Shaking, Sent, Contiguous
    <3> QED
      BY <1>2, <3>6 DEF Good
  <2>8. x = c1 \/ (c1.state = "flight" /\ x = tls_send(c1, "flight"))
    BY <1>5, <2>5 DEF wolfSSL_write, Shaking
  <2> QED
    BY <2>6, <2>7, <2>8
<1>8. CASE Up(c, Loose(c, gn)) /\ Strict(c, tk, Loose(c, gn))
  <2> DEFINE g == Loose(c, gn)
  <2>1. Up(c, g) /\ Strict(c, tk, g)
    BY <1>8
  <2>2. g => Loose(x, gn)
    BY <1>2 DEF Loose
  <2> HIDE DEF g
  <2>3. Up(y, g) /\ Kept(c, y) /\ OwnReads(y) = OwnReads(c)
    BY <1>0, <2>1, UpWebsocket
  <2>4. /\ Up(x, g) /\ Kept(y, x) /\ x.websocket = y.websocket /\ OwnReads(x) = OwnReads(y)
        /\ y.state = "open" /\ ~g => x.num_write_reqs = 1
    BY <1>2, <2>3, UpWriteConnection
  <2>5. Strict(x, tk, g)
    BY <1>0, <2>1, <2>3, <2>4 DEF Strict, Awake, Contiguous, Kept
  <2> QED
    BY <1>2, <2>2, <2>4, <2>5, UpLooser DEF Good
<1> QED
  BY <1>6, <1>7, <1>8 DEF Good

-----------------------------------------------------------------------------
(* Steps keep Good, for every slot in use but 0.                           *)

Here(i) ==
  Good(clients[i], taken[clients[i].conn], clients[i].conn \in flown, clients[i].conn \in gone)

GoodInv == \A i \in Slots \ {0} : i < size => Here(i)

\* Nothing has been seen of the connections to come.
Seen == \A k \in Conns : k > accepted => taken[k] = 0 /\ k \notin flown

SessionInv == SlotInv /\ GoodInv /\ Seen

\* A slot that has a request or a client is in use.
LEMMA InUseIs ==
  ASSUME SlotInv, NEW i \in Slots,
         \/ BagToSet(clients[i].requests) # {}
         \/ clients[i].active
         \/ clients[i].websocket = "open"
  PROVE  i < size
<1>1. i \in Int /\ size \in Int
  BY TlsAssumption DEF SlotInv, TypeInv, TypeOK, Slots
<1>2. i >= size => clients[i] = new_client
  BY DEF SlotInv, Unused
<1>3. BagToSet(new_client.requests) = {} /\ ~new_client.active /\ new_client.websocket # "open"
  BY NewClientIs DEF new_client
<1> QED
  BY <1>1, <1>2, <1>3

\* A slot that the step leaves alone.
LEMMA OtherGood ==
  ASSUME SessionInv, NEW i \in Slots \ {0}, i < size, clients'[i] = clients[i],
         clients[i].conn # None => /\ taken'[clients[i].conn] = taken[clients[i].conn]
                                   /\ clients[i].conn \in flown' <=> clients[i].conn \in flown,
         gone \subseteq gone'
  PROVE  Here(i)'
<1>1. Typed(clients[i]) /\ Here(i)
  BY DEF SessionInv, SlotInv, TypeInv, GoodInv
<1>2. clients[i].conn \in gone => clients[i].conn \in gone'
  OBVIOUS
<1> DEFINE c == clients[i]
           tk == taken[c.conn]
           tk2 == taken'[c.conn]
           fl == c.conn \in flown
           fl2 == c.conn \in flown'
           gn == c.conn \in gone
           gn2 == c.conn \in gone'
<1>3. Typed(c) /\ Good(c, tk, fl, gn) /\ (c.conn # None => tk2 = tk /\ (fl2 <=> fl)) /\ (gn => gn2)
  BY <1>1, <1>2 DEF Here
<1>4. Good(c, tk2, fl2, gn2)
  <2> HIDE DEF c, tk, tk2, fl, fl2, gn, gn2
  <2> QED
    BY <1>3, GoodFrame
<1> QED
  BY <1>4 DEF Here

\* What a completion knows of the slots.
LEMMA HandlerSlots ==
  ASSUME SessionInv, NEW j \in Slots, NEW r \in BagToSet(clients[j].requests),
         NEW x, clients' = [clients EXCEPT ![j] = x]
  PROVE  /\ clients'[j] = x /\ j < size /\ r.conn \in Nat /\ r.conn <= accepted
         /\ \A i \in Slots : i # j =>
              clients'[i] = clients[i] /\ (clients[i].conn # None => r.conn # clients[i].conn)
         /\ j # 0 => /\ Whole(clients[j]) /\ Here(j)
                     /\ r.ID # clients[j].id => r.conn # clients[j].conn
<1>1. DOMAIN clients = Slots /\ \A i \in Slots : ClientOK(clients[i])
  BY DEF SessionInv, SlotInv, TypeInv, TypeOK
<1>2. /\ clients'[j] = x
      /\ \A i \in Slots : i # j => clients'[i] = clients[i]
  BY <1>1, OneSlot
<1>3. j < size
  BY InUseIs DEF SessionInv
<1>4. r.conn \in Nat /\ r.conn <= accepted
  BY <1>1, Numbers DEF SessionInv, SlotInv, Homes
<1>5. \A i \in Slots : i # j => (clients[i].conn # None => r.conn # clients[i].conn)
  BY DEF SessionInv, SlotInv, Homes
<1>6. j # 0 => /\ Whole(clients[j]) /\ Here(j)
               /\ r.ID # clients[j].id => r.conn # clients[j].conn
  BY <1>3 DEF SessionInv, SlotInv, TypeInv, GoodInv, IdsGrow, Late, Whole
<1> QED
  BY <1>2, <1>3, <1>4, <1>5, <1>6

LEMMA ReadStep ==
  ASSUME SessionInv, NEW j \in Slots, NEW r \in BagToSet(clients[j].requests), ReadDone(j, r)
  PROVE  Seen' /\ \A i \in Slots \ {0} : i < size => Here(i)'
<1>1. /\ r.what = "read" /\ r.conn # None
      /\ \E n \in ReadEnds(r.conn) : \E x \in ReadTo(j, r, n) :
           /\ taken' = [taken EXCEPT ![r.conn] = n]
           /\ clients' = [clients EXCEPT ![j] = x]
      /\ UNCHANGED <<size, accepted, flown, gone>>
  BY HandlerSteps
<1>2. PICK n \in ReadEnds(r.conn) : \E x \in ReadTo(j, r, n) :
           /\ taken' = [taken EXCEPT ![r.conn] = n]
           /\ clients' = [clients EXCEPT ![j] = x]
  BY <1>1
<1>3. PICK x \in ReadTo(j, r, n) : /\ taken' = [taken EXCEPT ![r.conn] = n]
                                   /\ clients' = [clients EXCEPT ![j] = x]
  BY <1>2
<1>x. clients' = [clients EXCEPT ![j] = x]
  BY <1>3
<1>4. /\ clients'[j] = x /\ r.conn \in Nat /\ r.conn <= accepted
      /\ \A i \in Slots : i # j =>
           clients'[i] = clients[i] /\ (clients[i].conn # None => r.conn # clients[i].conn)
      /\ j # 0 => /\ Whole(clients[j]) /\ Here(j)
                  /\ r.ID # clients[j].id => r.conn # clients[j].conn
  <2>1. clients'[j] = x /\ r.conn \in Nat /\ r.conn <= accepted
    BY <1>x, HandlerSlots
  <2>2. \A i \in Slots : i # j => clients'[i] = clients[i]
    BY <1>x, HandlerSlots
  <2>3. \A i \in Slots : i # j => (clients[i].conn # None => r.conn # clients[i].conn)
    BY DEF SessionInv, SlotInv, Homes
  <2>4. j # 0 => Whole(clients[j]) /\ Here(j)
    BY <1>x, HandlerSlots
  <2>5. j # 0 /\ r.ID # clients[j].id => r.conn # clients[j].conn
    BY <1>x, HandlerSlots
  <2> QED
    BY <2>1, <2>2, <2>3, <2>4, <2>5
<1>t. /\ TypeOK /\ DOMAIN taken = Conns /\ accepted \in Nat /\ Conns \subseteq Nat
      /\ \A i \in Slots : clients[i].conn \in Conns \cup {None}
      /\ \A i \in Slots : ClientOK(clients[i])
  <2>1. TypeOK
    BY DEF SessionInv, SlotInv, TypeInv
  <2>2. DOMAIN taken = Conns /\ \A i \in Slots : ClientOK(clients[i])
    BY <2>1 DEF TypeOK
  <2>3. accepted \in Nat /\ Conns \subseteq Nat
    BY <2>1, TlsAssumption DEF TypeOK, Conns
  <2>4. \A i \in Slots : clients[i].conn \in Conns \cup {None}
    BY <2>2 DEF ClientOK
  <2> QED
    BY <2>1, <2>2, <2>3, <2>4
<1>5. Seen'
  <2> SUFFICES ASSUME NEW k \in Conns, k > accepted PROVE taken'[k] = 0 /\ k \notin flown
    BY <1>1 DEF Seen
  <2>1. k # r.conn /\ taken[k] = 0 /\ k \notin flown
    BY <1>4, <1>t DEF SessionInv, Seen
  <2> QED
    BY <1>3, <1>t, <2>1
<1>6. ASSUME NEW i \in Slots \ {0}, i < size, i # j PROVE Here(i)'
  <2>1. clients[i].conn # None => taken'[clients[i].conn] = taken[clients[i].conn]
    BY <1>3, <1>4, <1>6, <1>t
  <2> QED
    BY <1>1, <1>4, <1>6, <2>1, OtherGood
<1>7. ASSUME j # 0 PROVE Here(j)'
  <2> DEFINE c == clients[j]
  <2>0. j \in Slots \ {0} /\ Whole(c) /\ Typed(c) /\ Good(c, taken[c.conn], c.conn \in flown, c.conn \in gone)
    BY <1>4, <1>7 DEF Here, Whole
  <2>1. x.conn = c.conn
    BY <1>1, <1>t, <2>0, ReadHandled DEF Handled, Later
  <2>2. Good(x, taken'[c.conn], c.conn \in flown, c.conn \in gone)
    <3>1. CASE r.ID = c.id
      <4>1. r.conn = c.conn => taken'[c.conn] = n
        BY <1>1, <1>3, <1>t
      <4> QED
        BY <1>1, <1>t, <2>0, <3>1, <4>1, ReadGood
    <3>2. CASE r.ID # c.id
      <4>1. x = Done(c, r)
        <5>1. j > 0
          BY <1>7, TlsAssumption DEF Slots
        <5> QED
          BY <3>2, <5>1 DEF ReadTo, Stale
      <4>2. Good(x, taken[c.conn], c.conn \in flown, c.conn \in gone)
        BY <2>0, <3>2, <4>1, DoneGood
      <4>3. c.conn # None => taken'[c.conn] = taken[c.conn]
        BY <1>3, <1>4, <1>7, <1>t, <3>2
      <4>4. Typed(x) /\ (x.conn # None => taken'[c.conn] = taken[c.conn])
        BY <2>0, <2>1, <4>1, <4>3, DoneIs
      <4> QED
        BY <4>2, <4>4, GoodFrame
    <3> QED
      BY <3>1, <3>2
  <2> QED
    BY <1>1, <1>4, <2>1, <2>2 DEF Here
<1> QED
  BY <1>5, <1>6, <1>7

LEMMA WriteStep ==
  ASSUME SessionInv, NEW j \in Slots, NEW r \in BagToSet(clients[j].requests), WriteDone(j, r)
  PROVE  Seen' /\ \A i \in Slots \ {0} : i < size => Here(i)'
<1>1. /\ r.what # "read" /\ r.conn # None
      /\ \E x \in WriteTo(j, r) : clients' = [clients EXCEPT ![j] = x]
      /\ flown' = IF r.what = "flight" THEN flown \cup {r.conn} ELSE flown
      /\ UNCHANGED <<size, accepted, taken, gone>>
  BY HandlerSteps
<1>3. PICK x \in WriteTo(j, r) : clients' = [clients EXCEPT ![j] = x]
  BY <1>1
<1>x. clients' = [clients EXCEPT ![j] = x]
  BY <1>3
<1>4. /\ clients'[j] = x /\ r.conn \in Nat /\ r.conn <= accepted
      /\ \A i \in Slots : i # j =>
           clients'[i] = clients[i] /\ (clients[i].conn # None => r.conn # clients[i].conn)
      /\ j # 0 => /\ Whole(clients[j]) /\ Here(j)
                  /\ r.ID # clients[j].id => r.conn # clients[j].conn
  <2>1. clients'[j] = x /\ r.conn \in Nat /\ r.conn <= accepted
    BY <1>x, HandlerSlots
  <2>2. \A i \in Slots : i # j => clients'[i] = clients[i]
    BY <1>x, HandlerSlots
  <2>3. \A i \in Slots : i # j => (clients[i].conn # None => r.conn # clients[i].conn)
    BY DEF SessionInv, SlotInv, Homes
  <2>4. j # 0 => Whole(clients[j]) /\ Here(j)
    BY <1>x, HandlerSlots
  <2>5. j # 0 /\ r.ID # clients[j].id => r.conn # clients[j].conn
    BY <1>x, HandlerSlots
  <2> QED
    BY <2>1, <2>2, <2>3, <2>4, <2>5
<1>t. /\ TypeOK /\ accepted \in Nat /\ Conns \subseteq Nat
      /\ \A i \in Slots : ClientOK(clients[i])
  <2>1. TypeOK
    BY DEF SessionInv, SlotInv, TypeInv
  <2> QED
    BY <2>1, TlsAssumption DEF TypeOK, Conns
<1>5. Seen'
  <2> SUFFICES ASSUME NEW k \in Conns, k > accepted PROVE taken[k] = 0 /\ k \notin flown'
    BY <1>1 DEF Seen
  <2>1. k # r.conn /\ taken[k] = 0 /\ k \notin flown
    BY <1>4, <1>t DEF SessionInv, Seen
  <2> QED
    BY <1>1, <2>1
<1>6. ASSUME NEW i \in Slots \ {0}, i < size, i # j PROVE Here(i)'
  <2>1. clients[i].conn # None => (clients[i].conn \in flown' <=> clients[i].conn \in flown)
    BY <1>1, <1>4, <1>6
  <2> QED
    BY <1>1, <1>4, <1>6, <2>1, OtherGood
<1>7. ASSUME j # 0 PROVE Here(j)'
  <2> DEFINE c == clients[j]
  <2>0. j \in Slots \ {0} /\ Whole(c) /\ Typed(c) /\ Good(c, taken[c.conn], c.conn \in flown, c.conn \in gone)
    BY <1>4, <1>7 DEF Here, Whole
  <2>1. x.conn = c.conn
    BY <1>1, <1>t, <2>0, WriteHandled DEF Handled, Later
  <2>2. Good(x, taken[c.conn], c.conn \in flown', c.conn \in gone)
    <3>1. CASE r.ID = c.id
      <4> DEFINE fl == c.conn \in flown
                 fl2 == c.conn \in flown'
                 gn == c.conn \in gone
                 tk == taken[c.conn]
      <4>1. Good(c, tk, fl, gn)
        BY <2>0
      <4>2. Good(x, tk, fl2, gn)
        <5>1. c = clients[j]
          OBVIOUS
        <5> HIDE DEF c, tk, fl, fl2, gn
        <5> QED
          BY <1>1, <2>0, <3>1, <4>1, <5>1, WriteGood
      <4> QED
        BY <4>2
    <3>2. CASE r.ID # c.id
      <4>1. x = Done(c, r)
        <5>1. j > 0
          BY <1>7, TlsAssumption DEF Slots
        <5> QED
          BY <3>2, <5>1 DEF WriteTo, Stale
      <4>2. Good(x, taken[c.conn], c.conn \in flown, c.conn \in gone)
        BY <2>0, <3>2, <4>1, DoneGood
      <4>3. c.conn \in flown' <=> c.conn \in flown
        BY <1>1, <1>4, <1>7, <3>2
      <4>4. Typed(x)
        BY <2>0, <4>1, DoneIs
      <4> QED
        BY <4>2, <4>3, <4>4, GoodFrame
    <3> QED
      BY <3>1, <3>2
  <2> QED
    BY <1>1, <1>4, <2>1, <2>2 DEF Here
<1> QED
  BY <1>5, <1>6, <1>7

LEMMA FailStep ==
  ASSUME SessionInv, NEW j \in Slots, NEW r \in BagToSet(clients[j].requests), Fail(j, r)
  PROVE  Seen' /\ \A i \in Slots \ {0} : i < size => Here(i)'
<1>1. /\ r.conn \in gone \cup {None}
      /\ \E x \in FailTo(j, r) : clients' = [clients EXCEPT ![j] = x]
      /\ UNCHANGED <<size, accepted, taken, flown, gone>>
  BY HandlerSteps
<1>3. PICK x \in FailTo(j, r) : clients' = [clients EXCEPT ![j] = x]
  BY <1>1
<1>4. /\ clients'[j] = x
      /\ \A i \in Slots : i # j => clients'[i] = clients[i]
      /\ j # 0 => Whole(clients[j]) /\ Here(j)
  <2>1. j \in DOMAIN clients /\ DOMAIN clients = Slots
    BY DEF SessionInv, SlotInv, TypeInv, TypeOK
  <2>2. clients'[j] = x /\ \A i \in Slots : i # j => clients'[i] = clients[i]
    BY <1>3, <2>1
  <2>3. j # 0 => Whole(clients[j]) /\ Here(j)
    BY <1>3, HandlerSlots
  <2> QED
    BY <2>2, <2>3
<1>t. TypeOK /\ \A i \in Slots : ClientOK(clients[i])
  BY DEF SessionInv, SlotInv, TypeInv, TypeOK
<1>5. Seen'
  BY <1>1 DEF Seen, SessionInv
<1>6. ASSUME NEW i \in Slots \ {0}, i < size, i # j PROVE Here(i)'
  BY <1>1, <1>4, <1>6, OtherGood
<1>7. ASSUME j # 0 PROVE Here(j)'
  <2> DEFINE c == clients[j]
  <2>0. j \in Slots \ {0} /\ Whole(c) /\ Typed(c) /\ Good(c, taken[c.conn], c.conn \in flown, c.conn \in gone)
    BY <1>4, <1>7 DEF Here, Whole
  <2>1. x.conn = c.conn
    BY <1>t, <2>0, FailHandled DEF Handled, Later
  <2>2. Good(x, taken[c.conn], c.conn \in flown, c.conn \in gone)
    <3>1. CASE r.ID = c.id
      <4> DEFINE fl == c.conn \in flown
                 gn == c.conn \in gone
                 tk == taken[c.conn]
      <4>1. Good(c, tk, fl, gn)
        BY <2>0
      <4>2. c.state # "none" => gn
        BY <1>1, <2>0, <3>1, OwnRequest, TlsAssumption DEF Conns, None
      <4>3. Good(x, tk, fl, gn)
        <5>1. c = clients[j]
          OBVIOUS
        <5> HIDE DEF c, tk, fl, gn
        <5> QED
          BY <2>0, <3>1, <4>1, <4>2, <5>1, FailGood
      <4> QED
        BY <4>3
    <3>3. CASE r.ID # c.id
      <4>1. Done(c, r).id = c.id
        BY <2>0, DoneIs DEF Sent
      <4>2. x = Done(c, r)
        BY <3>3, <4>1 DEF FailTo
      <4> QED
        BY <2>0, <3>3, <4>2, DoneGood
    <3> QED
      BY <3>1, <3>3
  <2> QED
    BY <1>1, <1>4, <2>1, <2>2 DEF Here
<1> QED
  BY <1>5, <1>6, <1>7

LEMMA AcceptStep ==
  ASSUME MaxConns <= IdRange + 1, SessionInv, Accept
  PROVE  Seen' /\ GoodInv'
<1>1. /\ NewSlot \in Slots /\ accepted + 1 \in Conns
      /\ \E x \in wolfSSL_accept(Hallo(clients[NewSlot], accepted + 1)) :
           clients' = [clients EXCEPT ![NewSlot] = x]
      /\ size' = (IF NewSlot = size THEN size + 1 ELSE size)
      /\ accepted' = accepted + 1
      /\ UNCHANGED <<taken, flown, gone>>
  BY AcceptIs DEF SessionInv, SlotInv
<1>t. /\ accepted \in Nat /\ size \in Nat /\ Slots \subseteq Nat /\ Conns \subseteq Nat
      /\ DOMAIN clients = Slots /\ \A i \in Slots : ClientOK(clients[i])
  <2>1. TypeOK
    BY DEF SessionInv, SlotInv, TypeInv
  <2> QED
    BY <2>1, TlsAssumption DEF TypeOK, Slots, Conns
<1>s. PICK s \in Slots : s = NewSlot
  BY <1>1
<1> DEFINE h == Hallo(clients[s], accepted + 1)
<1>2. PICK x \in wolfSSL_accept(h) : clients' = [clients EXCEPT ![s] = x]
  BY <1>1, <1>s
<1>3. clients'[s] = x /\ \A i \in Slots : i # s => clients'[i] = clients[i]
  BY <1>1, <1>2, <1>t, OneSlot
<1>4. Seen'
  <2> SUFFICES ASSUME NEW k \in Conns, k > accepted + 1 PROVE taken[k] = 0 /\ k \notin flown
    BY <1>1 DEF Seen
  <2> QED
    BY <1>t DEF SessionInv, Seen
<1>5. ASSUME NEW i \in Slots \ {0}, i < size', i # s PROVE Here(i)'
  <2>1. i < size
    BY <1>1, <1>5, <1>s, <1>t
  <2> QED
    BY <1>1, <1>3, <1>5, <2>1, OtherGood
<1>6. ASSUME s # 0 PROVE Here(s)'
  <2>1. /\ Typed(h) /\ h.conn = accepted + 1 /\ h.state = "hello"
        /\ h.consumed = 0 /\ h.recv_data = <<>> /\ h.send_data = 0 /\ h.num_write_reqs = 0
        /\ ~h.last_written /\ ~h.accept_last_written /\ ~h.read_req_active
        /\ ~h.active /\ h.websocket = "no" /\ h.files = 0
    BY <1>1, <1>t, HalloIs
  <2>2. Sound(h)
    BY <1>1, <1>s, <1>6, HalloSlot DEF SessionInv
  <2> DEFINE tk == taken[accepted + 1]
             fl == accepted + 1 \in flown
             gn == accepted + 1 \in gone
  <2>3. tk = 0 /\ ~fl
    BY <1>1, <1>t DEF SessionInv, Seen
  <2>4. x \in wolfSSL_accept(h)
    BY <1>2
  <2> HIDE DEF h, tk, fl, gn
  <2>5. Contiguous(h, tk)
    BY <2>1, <2>3 DEF Contiguous
  <2>6. Ready(h, tk)
    <3>1. Own(h) = {}
      BY <2>1, <2>2, OwnNone
    <3>2. Events(h, {"ACCEPT_READ", "ACCEPT_WRITE"}) /\ Calm(h)
      BY <2>1, <3>1 DEF Events, Calm
    <3> QED
      BY <2>1, <2>2, <2>5, <3>2 DEF Ready, Whole
  <2>7. x \in AcceptHello(h)
    BY <2>1, <2>4 DEF wolfSSL_accept
  <2>8. Shaking(x, tk, fl)
    <3>1. tk <= Hello /\ h.consumed \in {0, 1}
      BY <2>1, <2>3 DEF Hello, RecordSize
    <3> QED
      BY <2>1, <2>3, <2>6, <2>7, <3>1, HelloGood
  <2>9. x.conn = accepted + 1
    BY <2>1, <2>4, AcceptLeads DEF Leads, Later
  <2>10. Good(x, tk, fl, gn)
    BY <2>8 DEF Good
  <2> QED
    BY <1>1, <1>3, <2>9, <2>10 DEF Here, tk, fl, gn
<1> QED
  BY <1>1, <1>4, <1>5, <1>6 DEF GoodInv

\* The timer finds active clients whose peer has gone.
LEMMA ReapStep ==
  ASSUME SessionInv, Reap
  PROVE  Seen' /\ \A i \in Slots \ {0} : i < size => Here(i)'
<1>1. /\ \E j \in Slots : /\ clients[j].active /\ clients[j].conn \in gone
                          /\ \E x \in CloseLoop(clients[j]) : clients' = [clients EXCEPT ![j] = x]
      /\ UNCHANGED <<size, accepted, taken, flown, gone>>
  BY DEF Reap, Becomes
<1>2. PICK j \in Slots : /\ clients[j].active /\ clients[j].conn \in gone
                         /\ \E x \in CloseLoop(clients[j]) : clients' = [clients EXCEPT ![j] = x]
  BY <1>1
<1>3. PICK x \in CloseLoop(clients[j]) : clients' = [clients EXCEPT ![j] = x]
  BY <1>2
<1>t. /\ DOMAIN clients = Slots /\ \A i \in Slots : Typed(clients[i])
  BY DEF SessionInv, SlotInv, TypeInv, TypeOK
<1>4. clients'[j] = x /\ \A i \in Slots : i # j => clients'[i] = clients[i]
  BY <1>3, <1>t, OneSlot
<1>5. Seen'
  BY <1>1 DEF Seen, SessionInv
<1>6. ASSUME NEW i \in Slots \ {0}, i < size, i # j PROVE Here(i)'
  BY <1>1, <1>4, <1>6, OtherGood
<1>7. ASSUME j # 0 PROVE Here(j)'
  <2> DEFINE c == clients[j]
             tk == taken[c.conn]
  <2>1. Whole(c) /\ Here(j)
    <3>1. j < size
      BY <1>2, InUseIs DEF SessionInv
    <3> QED
      BY <1>7, <1>t, <3>1 DEF SessionInv, SlotInv, GoodInv, Whole
  <2>2. Up(c, TRUE) /\ Strict(c, tk, TRUE)
    <3>1. Up(c, Loose(c, c.conn \in gone)) /\ Strict(c, tk, Loose(c, c.conn \in gone))
      BY <1>2, <2>1 DEF Here, Good, Down, Shaking
    <3> QED
      BY <3>1, UpLooser
  <2>3. x.conn = c.conn
    BY <1>3, <1>t, CloseLoopLeads DEF Leads, Later
  <2>4. Down(x) \/ (Up(x, TRUE) /\ Strict(x, tk, TRUE))
    <3>1. x \in CloseLoop(c)
      BY <1>3
    <3> HIDE DEF c, tk
    <3> QED
      BY <2>1, <2>2, <3>1, UpCloseLoop
  <2>5. Loose(x, c.conn \in gone)
    BY <1>2 DEF Loose
  <2>6. Down(x) \/ (Up(x, Loose(x, c.conn \in gone)) /\ Strict(x, tk, Loose(x, c.conn \in gone)))
    BY <2>4, <2>5, UpLooser
  <2> QED
    BY <1>1, <1>4, <2>3, <2>6 DEF Here, Good
<1> QED
  BY <1>5, <1>6, <1>7

LEMMA BroadcastStep ==
  ASSUME SessionInv, broadcast_message
  PROVE  Seen' /\ \A i \in Slots \ {0} : i < size => Here(i)'
<1>1. /\ \A i \in Slots : clients'[i] = IF clients[i].websocket = "open" THEN write_connection(clients[i])
                                        ELSE clients[i]
      /\ UNCHANGED <<size, accepted, taken, flown, gone>>
  BY DEF broadcast_message
<1>2. Seen'
  BY <1>1 DEF Seen, SessionInv
<1>3. ASSUME NEW i \in Slots \ {0}, i < size PROVE Here(i)'
  <2>1. CASE clients[i].websocket # "open"
    <3>1. clients'[i] = clients[i]
      BY <1>1, <2>1
    <3> QED
      BY <1>1, <1>3, <3>1, OtherGood
  <2>2. CASE clients[i].websocket = "open"
    <3> DEFINE c == clients[i]
               x == clients'[i]
               tk == taken[c.conn]
               gn == Loose(c, c.conn \in gone)
    <3>1. Whole(c) /\ Here(i)
      BY <1>3 DEF SessionInv, SlotInv, TypeInv, GoodInv, Whole
    <3>2. Up(c, gn) /\ Strict(c, tk, gn)
      BY <2>2, <3>1 DEF Here, Good, Down, Shaking
    <3>3. x = write_connection(c)
      BY <1>1, <2>2
    <3>4. x.conn = c.conn
      BY <3>1, <3>3, WriteConnectionLeads DEF Leads, Later, Whole
    <3>5. Up(x, gn) /\ Strict(x, tk, gn)
      <4> HIDE DEF c, x, tk, gn
      <4>1. /\ Up(x, gn) /\ Kept(c, x) /\ x.websocket = c.websocket /\ OwnReads(x) = OwnReads(c)
            /\ c.state = "open" /\ ~gn => x.num_write_reqs = 1
        BY <3>1, <3>2, <3>3, UpWriteConnection
      <4> QED
        BY <3>2, <4>1 DEF Strict, Awake, Contiguous, Kept
    <3>6. gn => Loose(x, c.conn \in gone)
      <4>1. c.crossed => x.crossed
        BY <3>1, <3>3, WriteConnectionLeads DEF Leads, Later, Whole
      <4> QED
        BY <4>1 DEF Loose
    <3>7. Up(x, Loose(x, c.conn \in gone)) /\ Strict(x, tk, Loose(x, c.conn \in gone))
      <4> HIDE DEF gn, c, x, tk
      <4> QED
        BY <3>5, <3>6, UpLooser
    <3> QED
      BY <1>1, <3>4, <3>7 DEF Here, Good
  <2> QED
    BY <2>1, <2>2
<1> QED
  BY <1>2, <1>3

LEMMA FileStep ==
  ASSUME SessionInv, NEW j \in Slots, FileDone(j)
  PROVE  Seen' /\ \A i \in Slots \ {0} : i < size => Here(i)'
<1>t. /\ DOMAIN clients = Slots /\ \A i \in Slots : Typed(clients[i]) /\ ClientOK(clients[i])
  BY DEF SessionInv, SlotInv, TypeInv, TypeOK
<1>1. /\ \E y : Loaded(clients[j], y) /\ clients' = [clients EXCEPT ![j] = write_connection(y)]
      /\ UNCHANGED <<size, accepted, taken, flown, gone>>
  BY <1>t, FileSteps
<1>2. PICK y : Loaded(clients[j], y) /\ clients' = [clients EXCEPT ![j] = write_connection(y)]
  BY <1>1
<1> DEFINE x == write_connection(y)
<1>3. clients'[j] = x /\ \A i \in Slots : i # j => clients'[i] = clients[i]
  BY <1>2, <1>t, OneSlot
<1>4. Seen'
  BY <1>1 DEF Seen, SessionInv
<1>5. ASSUME NEW i \in Slots \ {0}, i < size, i # j PROVE Here(i)'
  BY <1>1, <1>3, <1>5, OtherGood
<1>6. ASSUME j # 0, j < size PROVE Here(j)'
  <2> DEFINE c == clients[j]
             tk == taken[c.conn]
             fl == c.conn \in flown
             gn == c.conn \in gone
  <2>1. Whole(c) /\ Good(c, tk, fl, gn) /\ Loaded(c, y)
    BY <1>2, <1>6, <1>t DEF SessionInv, SlotInv, GoodInv, Whole, Here
  <2>2. x.conn = c.conn /\ Good(x, tk, fl, gn)
    <3> HIDE DEF c, tk, fl, gn
    <3> QED
      BY <2>1, LoadedGood
  <2> QED
    BY <1>1, <1>3, <2>2 DEF Here
<1> QED
  BY <1>4, <1>5, <1>6

LEMMA GoneStep ==
  ASSUME SessionInv,
         \/ PeerGone \/ UNCHANGED vars
         \/ \E j \in Slots : \E r \in BagToSet(clients[j].requests) : FailUndefined(j, r)
  PROVE  Seen' /\ \A i \in Slots \ {0} : i < size => Here(i)'
<1>1. UNCHANGED <<clients, size, accepted, taken, flown>> /\ gone \subseteq gone'
  <2>1. CASE PeerGone \/ UNCHANGED vars
    BY <2>1 DEF PeerGone, vars
  <2>2. CASE \E j \in Slots : \E r \in BagToSet(clients[j].requests) : FailUndefined(j, r)
    BY <2>2, HandlerSteps
  <2> QED
    BY <2>1, <2>2
<1>2. Seen'
  BY <1>1 DEF Seen, SessionInv
<1>3. ASSUME NEW i \in Slots \ {0}, i < size PROVE Here(i)'
  BY <1>1, <1>3, OtherGood
<1> QED
  BY <1>2, <1>3

LEMMA SessionInit == Init => SessionInv
<1> SUFFICES ASSUME Init PROVE SessionInv
  OBVIOUS
<1>1. SlotInv
  BY SlotInit
<1>2. Seen
  BY DEF Init, Seen
<1>3. GoodInv
  <2>1. \A i \in Slots : ~(i < size)
    BY TlsAssumption DEF Init, Slots
  <2> QED
    BY <2>1 DEF GoodInv
<1> QED
  BY <1>1, <1>2, <1>3 DEF SessionInv

LEMMA SessionStep ==
  ASSUME MaxConns <= IdRange + 1, SessionInv, [Next]_vars
  PROVE  SessionInv'
<1>1. SlotInv'
  BY SlotStep DEF SessionInv
<1>2. Seen' /\ GoodInv'
  <2>1. CASE Accept
    BY <2>1, AcceptStep
  <2>2. CASE ~Accept
    <3>1. size' = size
      BY <2>2, SizesStep DEF SessionInv, SlotInv
    <3>2. Seen' /\ \A i \in Slots \ {0} : i < size => Here(i)'
      <4>1. CASE Next
        BY <2>2, <4>1, ReadStep, WriteStep, FailStep, FileStep, ReapStep, BroadcastStep, GoneStep
           DEF Next
      <4>2. CASE UNCHANGED vars
        BY <4>2, GoneStep
      <4> QED
        BY <4>1, <4>2
    <3> QED
      BY <3>1, <3>2 DEF GoodInv
  <2> QED
    BY <2>1, <2>2
<1> QED
  BY <1>1, <1>2 DEF SessionInv

\* What the invariant says of a slot other than 0.
LEMMA SlotIs ==
  ASSUME SessionInv, NEW i \in Slots \ {0}
  PROVE  Whole(clients[i]) /\ (clients[i] = new_client \/ Here(i))
<1>1. i \in Int /\ size \in Int
  BY TlsAssumption DEF SessionInv, SlotInv, TypeInv, TypeOK, Slots
<1> QED
  BY <1>1 DEF SessionInv, SlotInv, TypeInv, Unused, GoodInv, Whole

\* The buffer of output of wolfSSL stays the kernel's as long as a write is in flight: the
\* session is not freed under one, except for the close_notify, and while the peer is there
\* no second write starts, unless the file that an earlier client of the slot has asked for
\* was written to the client.  For every number of slots, records and connections, as long
\* as no ID of a slot wraps.
THEOREM TlsOutputBufferOwned ==
  ASSUME MaxConns <= IdRange + 1
  PROVE  Spec => []OutputBufferOwned
<1>1. Init => SessionInv
  BY SessionInit
<1>2. SessionInv /\ [Next]_vars => SessionInv'
  BY SessionStep
<1>3. SessionInv => OutputBufferOwned
  <2> SUFFICES ASSUME SessionInv, NEW i \in Slots \ {0}
               PROVE  /\ \A w \in OwnWrites(clients[i]) :
                           w[1].what = "close_notify" \/ clients[i].state # "none"
                      /\ clients[i].conn \notin gone /\ ~clients[i].crossed
                           => clients[i].num_write_reqs <= 1
    BY DEF OutputBufferOwned
  <2>1. Whole(clients[i]) /\ (clients[i] = new_client \/ Here(i))
    BY SlotIs
  <2>2. \A w \in OwnWrites(clients[i]) : w[1].what = "close_notify" \/ clients[i].state # "none"
    BY <2>1 DEF Whole, Sound
  <2>3. clients[i].conn \notin gone /\ ~clients[i].crossed => clients[i].num_write_reqs <= 1
    <3>1. CASE clients[i] = new_client
      BY <3>1 DEF new_client
    <3>2. CASE Here(i)
      BY <3>2 DEF Here, Good, Down, Shaking, Up, Loose
    <3> QED
      BY <2>1, <3>1, <3>2
  <2> QED
    BY <2>2, <2>3
<1> QED
  BY <1>1, <1>2, <1>3, PTL DEF Spec

\* No byte of a peer is lost or given to wolfSSL out of order, however its records are cut
\* up by the reads, if the first request comes with the Finished whole or not at all
\* (ACCEPT_READ drops what is left over).
THEOREM TlsNothingLost ==
  ASSUME MaxConns <= IdRange + 1, EarlyData # "any"
  PROVE  Spec => []NothingLost
<1>1. Init => SessionInv
  BY SessionInit
<1>2. SessionInv /\ [Next]_vars => SessionInv'
  BY SessionStep
<1>3. SessionInv => NothingLost
  <2> SUFFICES ASSUME SessionInv, NEW i \in Slots \ {0} PROVE clients[i].state # "broken"
    BY DEF NothingLost
  <2>1. clients[i] = new_client \/ Here(i)
    BY SlotIs
  <2>2. CASE clients[i] = new_client
    BY <2>2 DEF new_client
  <2>3. CASE Here(i)
    BY <2>3 DEF Here, Good, Down, Shaking, Strict
  <2> QED
    BY <2>1, <2>2, <2>3
<1> QED
  BY <1>1, <1>2, <1>3, PTL DEF Spec

\* A client in use is never forgotten: a request of its own is in flight, a file is being
\* read for it, or its peer has gone and the timer will find it; unless its hello was
\* refused, nothing could be opened for its request, or it got an earlier client's answer.
THEOREM TlsNotForgotten ==
  ASSUME MaxConns <= IdRange + 1, EarlyData # "any"
  PROVE  Spec => []NotForgotten
<1>1. Init => SessionInv
  BY SessionInit
<1>2. SessionInv /\ [Next]_vars => SessionInv'
  BY SessionStep
<1>3. SessionInv => NotForgotten
  <2> SUFFICES ASSUME SessionInv, NEW i \in InUse \ {0}
               PROVE  \/ Own(clients[i]) # {} \/ clients[i].files > 0
                      \/ clients[i].active /\ clients[i].conn \in gone
                      \/ clients[i].state = "refused" \/ clients[i].unanswered
                      \/ clients[i].crossed
    BY DEF NotForgotten
  <2> DEFINE c == clients[i]
  <2>1. i \in Slots \ {0} /\ i < size /\ ~c.free
    BY TlsAssumption DEF InUse, Slots, SessionInv, SlotInv, TypeInv, TypeOK
  <2>2. Whole(c) /\ Here(i)
    BY <2>1, SlotIs DEF SessionInv, GoodInv
  <2>3. c.num_write_reqs # 0 \/ OwnReads(c) # {} => Own(c) # {}
    <3>1. Own(c) = {} => OwnReads(c) = {} /\ OwnWrites(c) = {}
      BY DEF OwnReads, OwnWrites
    <3> QED
      BY <2>2, <3>1, FS_EmptySet DEF Whole, Sound
  <2>4. CASE Shaking(c, taken[c.conn], c.conn \in flown)
    BY <2>3, <2>4 DEF Shaking
  <2>5. CASE /\ Up(c, Loose(c, c.conn \in gone))
             /\ Strict(c, taken[c.conn], Loose(c, c.conn \in gone))
    BY <2>3, <2>5 DEF Up, Strict, Awake, Loose
  <2> QED
    BY <2>1, <2>2, <2>4, <2>5 DEF Here, Good, Down
<1> QED
  BY <1>1, <1>2, <1>3, PTL DEF Spec

=============================================================================
