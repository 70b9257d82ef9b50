--------------------------- MODULE MCServerSession ---------------------------
(* Small instances of ServerSession for TLC. *)
EXTENDS ServerSession
=============================================================================
