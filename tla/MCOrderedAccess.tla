--------------------------- MODULE MCOrderedAccess ---------------------------
(* Small instances of OrderedAccess for TLC. *)
EXTENDS OrderedAccess
=============================================================================
