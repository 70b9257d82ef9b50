---------------------------- MODULE MCByteChannel ----------------------------
(* Small instances of ByteChannel for TLC. *)
EXTENDS ByteChannel

MCPieces == <<"p1", "p2", "p3">>
=============================================================================
