------------------------------ MODULE MCWsFrames ------------------------------
(***************************************************************************)
(* WsFrames for TLC: control frames, a message in one and in two fragments *)
(* and the three encodings of the length.                                  *)
(***************************************************************************)
EXTENDS WsFrames

Frame(op, fin, ext, len) == [opcode |-> op, fin |-> fin, ext |-> ext, len |-> len]

Ping     == Frame(ping, TRUE, 0, 0)
LongPing == Frame(ping, TRUE, 2, 6)
Close    == Frame(close_connection, TRUE, 0, 2)
Pong     == Frame(pong, TRUE, 0, 1)
Message  == Frame(text_frame, TRUE, 2, 5)
First    == Frame(text_frame, FALSE, 8, 2)
Final    == Frame(0, TRUE, 0, 7)

\* Every frame after every other, and streams of three and four frames.
MCStreams ==
  {<<f, g>> : f \in {Ping, LongPing, Close, Pong, Message, Final}, g \in {Ping, LongPing, Close, Message, First}}
    \cup {<<First, Final, Message>>, <<First, Ping, Final>>, <<Ping, Pong, Ping, Close>>}

MCSizes == {0, 125, 126, 255, 256, 65535, 65536, 16777216}

=============================================================================
