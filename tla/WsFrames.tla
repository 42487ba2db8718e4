------------------------------- MODULE WsFrames -------------------------------
(***************************************************************************)
(* Websocket framing on one connection: get_ws_frames cuts the bytes of    *)
(* successive reads into frames, decode_websocket_frame unmasks them, and  *)
(* websocket_process_read_cb joins fragments and answers control frames    *)
(* with make_ws_frame.                                                     *)
(*                                                                         *)
(* A peer's stream of frames is chosen in Init and delivered by reads of   *)
(* any size.  Lengths may be written in the longer encodings also when they*)
(* are small, so that short streams exercise all three.                    *)
(***************************************************************************)
EXTENDS Integers, Sequences, SequencesExt, Bitwise

CONSTANTS
  Streams,     \* what peers send: sequences of frames [opcode, fin, ext, len], where ext is
               \* the number of bytes of extended length
  Sizes        \* sizes of payload for which make_ws_frame is checked

ASSUME StreamsAssumption ==
  /\ \A fs \in Streams : \A n \in DOMAIN fs :
       /\ fs[n].opcode \in 0 .. 15 /\ fs[n].fin \in BOOLEAN
       /\ fs[n].ext \in {0, 2, 8} /\ fs[n].len \in 0 .. 125
       \* no message in more than two fragments, which the code joins in the wrong order
       /\ n < Len(fs) /\ ~fs[n].fin => fs[n + 1].fin \/ fs[n + 1].opcode >= 8
  /\ Sizes \subseteq Nat

HeadSize == 10         \* "we only need first 10 bytes for length"
Huge     == 2 ^ 30     \* stands for every length beyond that of a stream
text_frame == 1
close_connection == 8
ping == 9
pong == 10

VARIABLES
  stream,      \* what the peer sends: a sequence of frames
  delivered,   \* the bytes of it that have been read
  receiving_data,     \* bytes of a frame that is not complete, and its length or -1
  websocket_frames,   \* payload of the fragments of a message that is not complete
  events,      \* messages, pings and closes handled, in order
  answers,     \* frames written
  state,       \* "active"; "closing": close_ws_connection_req was called; "terminated": the
               \* process ended with std::length_error
  straddled    \* history: some read ended less than HeadSize bytes into a frame

vars == <<stream, delivered, receiving_data, websocket_frames, events, answers, state, straddled>>

-----------------------------------------------------------------------------
(* What peers send.                                                        *)

BigEndian(n, bytes) == [m \in 1 .. bytes |-> (n \div 256 ^ (bytes - m)) % 256]
MaskingKey == <<7, 33, 5, 90>>
XorKey(payload) == [m \in DOMAIN payload |-> payload[m] ^^ MaskingKey[((m - 1) % 4) + 1]]

Extended(ext, len) ==
  CASE ext = 0 -> <<len>>
    [] ext = 2 -> <<126>> \o BigEndian(len, 2)
    [] ext = 8 -> <<127>> \o <<0, 0, 0, 0, 0, 0>> \o BigEndian(len, 2)

\* The payload of the n-th frame, different for every frame.
Payload(n, f) == [m \in 1 .. f.len |-> 20 * n + m]

Encoded(n, f) ==
  LET length == Extended(f.ext, f.len)
  IN <<f.opcode + IF f.fin THEN 128 ELSE 0>> \o [length EXCEPT ![1] = @ + 128]
       \o MaskingKey \o XorKey(Payload(n, f))

Size(f) == 6 + f.ext + f.len
\* The number of bytes of the first n frames.
Upto(n) == FoldLeft(LAMBDA sum, f : sum + Size(f), 0, SubSeq(stream, 1, n))
Bytes == FoldLeft(LAMBDA b, n : b \o Encoded(n, stream[n]), <<>>, [n \in 1 .. Len(stream) |-> n])

-----------------------------------------------------------------------------
(* The framing of the code.                                                *)

\* get_ws_frame_length: the whole length of a frame, of which the loop uses all 64 bits
\* and receiving_data_info the lower 32: the bytes of the long form count from the 3rd or
\* from the 7th.  It may be read from fewer than 10 bytes; whatever is behind them, the
\* frame is longer than that.
get_ws_frame_length(buffer, from) ==
  LET code == buffer[2] % 128
  IN CASE code = 126 -> buffer[3] * 256 + buffer[4] + 2 + 6
       [] code = 127 -> IF Len(buffer) < HeadSize \/ \E m \in from .. 8 : buffer[m] # 0 THEN Huge
                        ELSE buffer[9] * 256 + buffer[10] + 8 + 6
       [] OTHER -> code + 6

\* The loop of get_ws_frames: whole frames, and the rest.
RECURSIVE SplitFrames(_)
SplitFrames(buffer) ==
  IF Len(buffer) > 5 /\ Len(buffer) >= get_ws_frame_length(buffer, 3)
  THEN LET length == get_ws_frame_length(buffer, 3)
           more == SplitFrames(SubSeq(buffer, length + 1, Len(buffer)))
       IN [more EXCEPT !.frames = <<SubSeq(buffer, 1, length)>> \o @]
  ELSE [frames |-> <<>>, rest |-> buffer]

NothingPending == [buffer |-> <<>>, length |-> -1]

\* The length of the pending frame: known, or taken from temp_buffer, into which the
\* pending bytes are inserted first and then, before them, those of the new data.
PendingLength(pending, buffer) ==
  IF pending.length # -1 THEN pending.length
  ELSE get_ws_frame_length(SubSeq(buffer, 1, HeadSize - Len(pending.buffer)) \o pending.buffer, 7)

\* Mutation of Complete: the length of the frame is kept when it is complete.
Complete_length_kept(pending, buffer) ==
  LET length   == PendingLength(pending, buffer)
      required == length - Len(pending.buffer)
      done     == required \in 0 .. Len(buffer)
  IN [frames |-> IF done THEN <<pending.buffer \o SubSeq(buffer, 1, required)>> ELSE <<>>,
      rest |-> IF done THEN SubSeq(buffer, required + 1, Len(buffer)) ELSE <<>>,
      pending |-> [buffer |-> IF done THEN <<>> ELSE pending.buffer \o buffer, length |-> length]]

\* The pending frame with its missing bytes, if they have come.  required_length is
\* unsigned: a length below that of the pending bytes is never reached.
Complete(pending, buffer) ==
  LET length   == PendingLength(pending, buffer)
      required == length - Len(pending.buffer)
  IN IF required \in 0 .. Len(buffer)
     THEN [frames |-> <<pending.buffer \o SubSeq(buffer, 1, required)>>,
           rest |-> SubSeq(buffer, required + 1, Len(buffer)), pending |-> NothingPending]
     ELSE [frames |-> <<>>, rest |-> <<>>,
           pending |-> [buffer |-> pending.buffer \o buffer, length |-> length]]

\* Reads that leave too little to tell the length close the connection.
TooSmall(pending, buffer) ==
  /\ pending.buffer # <<>> /\ pending.length = -1
  /\ Len(pending.buffer) + Len(buffer) < HeadSize

\* Mutation of get_ws_frames: what was pending is not cleared when it is complete.
get_ws_frames_kept(pending, buffer) ==
  LET first == IF pending.buffer = <<>>
               THEN [frames |-> <<>>, rest |-> buffer, pending |-> pending]
               ELSE Complete(pending, buffer)
      split == SplitFrames(first.rest)
  IN [frames |-> first.frames \o split.frames,
      pending |-> IF split.rest = <<>> THEN pending
                  ELSE [buffer |-> split.rest,
                        length |-> IF Len(split.rest) > HeadSize
                                   THEN get_ws_frame_length(split.rest, 7) ELSE -1]]

get_ws_frames(pending, buffer) ==
  LET first == IF pending.buffer = <<>>
               THEN [frames |-> <<>>, rest |-> buffer, pending |-> pending]
               ELSE Complete(pending, buffer)
      split == SplitFrames(first.rest)
  IN [frames |-> first.frames \o split.frames,
      pending |-> IF split.rest = <<>> THEN first.pending
                  ELSE [buffer |-> split.rest,
                        length |-> IF Len(split.rest) > HeadSize
                                   THEN get_ws_frame_length(split.rest, 7) ELSE -1]]

\* decode_websocket_frame.  For a frame that is shorter than its own head the vector is
\* resized to a negative size, which throws.
decode_websocket_frame(data) ==
  LET opcode == data[1] % 16
      code   == data[2] % 128
      offset == CASE code = 126 -> 2 [] code = 127 -> 8 [] OTHER -> 0
      key    == SubSeq(data, 3 + offset, 6 + offset)
      body   == SubSeq(data, 7 + offset, Len(data))
      plain  == [m \in DOMAIN body |-> body[m] ^^ key[((m - 1) % 4) + 1]]
      Decoded(kind) == IF Len(data) < 6 + offset THEN [kind |-> "length_error", data |-> <<>>]
                       ELSE [kind |-> kind, data |-> plain]
  IN CASE data[2] < 128 -> [kind |-> "unmasked", data |-> <<>>]
       [] data[2] >= 128 /\ opcode = close_connection -> [kind |-> "close", data |-> <<>>]
       [] data[2] >= 128 /\ opcode = pong -> [kind |-> "pong", data |-> <<>>]
       [] data[2] >= 128 /\ opcode = ping -> Decoded("ping")
       [] OTHER -> Decoded(IF data[1] < 128 THEN "fragment" ELSE "message")

\* Mutation of frame_head: the short form is used for one length too many.
frame_head_126(size, opcode) ==
  <<128 + opcode>> \o IF size < 127 THEN <<size>> ELSE <<126>> \o BigEndian(size, 2)

\* The head of the frames make_ws_frame makes; they are not masked.
frame_head(size, opcode) ==
  <<128 + opcode>> \o (CASE size < 126 -> <<size>>
                         [] size \in 126 .. 65535 -> <<126>> \o BigEndian(size, 2)
                         [] size > 65535 -> <<127, 0, 0, 0, 0>> \o
                              <<size \div 16777216, (size \div 65536) % 256>> \o BigEndian(size % 65536, 2))

make_ws_frame(msg, opcode) == frame_head(Len(msg), opcode) \o msg

-----------------------------------------------------------------------------
(* websocket_process_read_cb: one frame after another, until a close.      *)

Connection == [fragments |-> websocket_frames, events |-> events, answers |-> answers,
               state |-> state]

close_ws_connection_req(c) ==
  [c EXCEPT !.state = "closing", !.fragments = <<>>,
            !.answers = Append(@, make_ws_frame(<<>>, close_connection))]

\* Mutation of Process: a message is what the last fragment holds.
Process_last(c, frame) ==
  LET d == decode_websocket_frame(frame)
  IN CASE c.state # "active" \/ d.kind \in {"unmasked", "pong"} -> c
       [] c.state = "active" /\ d.kind = "message" ->
            [c EXCEPT !.events = Append(@, [kind |-> "message", data |-> d.data]), !.fragments = <<>>]
       [] c.state = "active" /\ d.kind = "fragment" -> [c EXCEPT !.fragments = d.data]
       [] c.state = "active" /\ d.kind = "close" ->
            close_ws_connection_req([c EXCEPT !.events = Append(@, [kind |-> "close", data |-> <<>>])])
       [] c.state = "active" /\ d.kind = "length_error" -> [c EXCEPT !.state = "terminated"]
       [] OTHER -> [c EXCEPT !.events = Append(@, [kind |-> "ping", data |-> d.data]),
                             !.answers = Append(@, make_ws_frame(d.data, pong))]

Process(c, frame) ==
  LET d == decode_websocket_frame(frame)
  IN CASE c.state # "active" \/ d.kind \in {"unmasked", "pong"} -> c
       [] c.state = "active" /\ d.kind = "message" ->
            [c EXCEPT !.events = Append(@, [kind |-> "message", data |-> c.fragments \o d.data]),
                      !.fragments = <<>>]
       [] c.state = "active" /\ d.kind = "fragment" -> [c EXCEPT !.fragments = d.data \o @]
       [] c.state = "active" /\ d.kind = "close" ->
            close_ws_connection_req([c EXCEPT !.events = Append(@, [kind |-> "close", data |-> <<>>])])
       [] c.state = "active" /\ d.kind = "length_error" -> [c EXCEPT !.state = "terminated"]
       [] OTHER -> [c EXCEPT !.events = Append(@, [kind |-> "ping", data |-> d.data]),
                             !.answers = Append(@, make_ws_frame(d.data, pong))]

Init ==
  /\ stream \in Streams
  /\ delivered = 0
  /\ receiving_data = NothingPending
  /\ websocket_frames = <<>>
  /\ events = <<>> /\ answers = <<>>
  /\ state = "active" /\ straddled = FALSE

\* The bytes that are left of a frame after n bytes of the stream.
Left(n) == n - Upto(CHOOSE m \in 0 .. Len(stream) :
                      Upto(m) <= n /\ (m = Len(stream) \/ n < Upto(m + 1)))

\* A read that ends after byte n.  A read of a closing websocket only closes the connection.
Read(n) ==
  LET buffer == SubSeq(Bytes, delivered + 1, n)
      got    == get_ws_frames(receiving_data, buffer)
      c      == IF TooSmall(receiving_data, buffer) THEN close_ws_connection_req(Connection)
                ELSE FoldLeft(Process, Connection, got.frames)
  IN /\ state = "active"
     /\ delivered' = n
     /\ receiving_data' = IF TooSmall(receiving_data, buffer) THEN receiving_data ELSE got.pending
     /\ websocket_frames' = c.fragments
     /\ events' = c.events /\ answers' = c.answers /\ state' = c.state
     /\ straddled' = (straddled \/ Left(n) \in 1 .. HeadSize - 1)
     /\ UNCHANGED stream

Next == \E n \in delivered + 1 .. Len(Bytes) : Read(n)

Spec == Init /\ [][Next]_vars

-----------------------------------------------------------------------------
\* The reference: what the frames of the stream mean that have been delivered whole,
\* up to a close.
Expected ==
  LET Whole == {n \in 1 .. Len(stream) : Upto(n) <= delivered}
      Step(e, n) ==
        IF n \notin Whole \/ (e.events # <<>> /\ Last(e.events).kind = "close") THEN e
        ELSE LET f == stream[n]
                 text == e.open \o Payload(n, f)
             IN CASE f.opcode = close_connection ->
                       [e EXCEPT !.events = Append(@, [kind |-> "close", data |-> <<>>])]
                  [] f.opcode = ping ->
                       [e EXCEPT !.events = Append(@, [kind |-> "ping", data |-> Payload(n, f)])]
                  [] f.opcode = pong -> e
                  [] OTHER -> IF f.fin THEN [open |-> <<>>, events |-> Append(e.events, [kind |-> "message", data |-> text])]
                              ELSE [e EXCEPT !.open = text]
  IN FoldLeft(Step, [open |-> <<>>, events |-> <<>>], [n \in 1 .. Len(stream) |-> n]).events

TypeOK ==
  /\ delivered \in 0 .. Len(Bytes)
  /\ receiving_data.buffer \in Seq(0 .. 255) /\ receiving_data.length \in -1 .. Huge
  /\ receiving_data.buffer = <<>> => receiving_data.length = -1
  /\ websocket_frames \in Seq(0 .. 255)
  /\ events \in Seq([kind : {"message", "ping", "close"}, data : Seq(0 .. 255)])
  /\ answers \in Seq(Seq(0 .. 255))
  /\ state \in {"active", "closing", "terminated"} /\ straddled \in BOOLEAN

\* As long as no read ends less than HeadSize bytes into a frame, however the stream is
\* cut otherwise, the messages, pings and closes handled are those of the frames that have
\* arrived whole, each once, in order, with the payload the peer sent.
FramesIntact == ~straddled => events = Expected

\* "by this point, the data in the buffer is guaranteed to start with a new frame"
\* (websockets.tcc, in get_ws_frames): the same, unless the reads were so small that the
\* connection is closed.  temp_buffer has the bytes in the wrong order.
FramesKept == state # "closing" => events = Expected

\* What is kept for the next read is exactly the beginning of a frame that has not
\* arrived whole, and its length, once there is enough to tell it.
PendingIsFrameHead ==
  (~straddled /\ state = "active") =>
              LET left == Left(delivered)
                  n == CHOOSE m \in 0 .. Len(stream) : Upto(m) = delivered - left
              IN /\ receiving_data.buffer = SubSeq(Bytes, delivered - left + 1, delivered)
                 /\ left > HeadSize => receiving_data.length = Size(stream[n + 1])

\* The payload size a peer reads from the head of a frame that is not masked.
SizeRead(head) ==
  CASE head[2] < 126 -> head[2]
    [] head[2] = 126 -> head[3] * 256 + head[4]
    [] OTHER -> ((head[7] * 256 + head[8]) * 256 + head[9]) * 256 + head[10]
HeadLength(head) == CASE head[2] < 126 -> 2 [] head[2] = 126 -> 4 [] OTHER -> 10

\* A peer reads from every frame the server makes the size and the bytes it was made
\* of, at the sizes where the encoding changes too; the pongs carry the pings' data.
AnswersReadable ==
  /\ \A size \in Sizes : LET head == frame_head(size, text_frame)
                         IN HeadLength(head) = Len(head) /\ SizeRead(head) = size
  /\ LET Pinged == SelectSeq(events, LAMBDA e : e.kind = "ping")
         Body(a) == SubSeq(a, HeadLength(a) + 1, Len(a))
     IN \A n \in DOMAIN Pinged : Body(answers[n]) = Pinged[n].data

=============================================================================
