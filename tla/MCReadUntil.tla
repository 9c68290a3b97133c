---------------------------- MODULE MCReadUntil ----------------------------
(* ReadUntil on every stream of two bytes up to a length.  The buffer      *)
(* starts with room for FirstCap bytes, so that it doubles twice on the    *)
(* way to the limits; a recv asks for at most Chunk bytes; the search uses *)
(* its table for buffers of Short bytes and more.                          *)
EXTENDS ReadUntil

CONSTANTS MaxStream, MaxNeedle

AllStreams == UNION {[1..n -> Byte] : n \in 0..MaxStream}
AllNeedles == UNION {[1..n -> Byte] : n \in 0..MaxNeedle}
=============================================================================
