------------------------------- MODULE Frames -------------------------------
(***************************************************************************)
(* Sizes of WebSocket frames (src/websocket/parser).  A frame is           *)
(* [opcode, mask, bits, len]: bits, 7, 16 or 64, is the field that holds   *)
(* the length of the payload.                                              *)
(***************************************************************************)
EXTENDS Integers

ExtendedLength(bits) == IF bits = 7 THEN 0 ELSE bits \div 8

FrameSize(f) == 2 + ExtendedLength(f.bits) + (IF f.mask THEN 4 ELSE 0) + f.len

\* Bytes consumed from the n bytes that start with frame f, 0: not all of it
\* is there.
to_websocket_entity_consumed(n, f) ==
  LET length == 2 + ExtendedLength(f.bits)
      offset == length + IF f.mask THEN 4 ELSE 0
  IN  IF n < length \/ n < offset \/ f.len > n - offset THEN 0 ELSE offset + f.len

\* Bytes of the frame the server makes of a message, 0 when the buffer is
\* too small.  The 64 bit length is shifted out as it is written, and no
\* payload follows it.
to_websocket_packet(len, capacity) ==
  LET header == 2 + (IF len <= 125 THEN 0 ELSE IF len <= 65535 THEN 2 ELSE 8)
      payload == IF len <= 65535 THEN len ELSE 0
  IN  IF len <= 125 \/ capacity >= header + payload THEN header + payload ELSE 0
=============================================================================
