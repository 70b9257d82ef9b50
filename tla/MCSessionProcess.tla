--------------------------- MODULE MCSessionProcess ---------------------------
(* Small instances of SessionProcess for TLC. *)
EXTENDS SessionProcess
=============================================================================
