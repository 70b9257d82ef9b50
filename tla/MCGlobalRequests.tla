--------------------------- MODULE MCGlobalRequests ---------------------------
(* Small instances of GlobalRequests for TLC. *)
EXTENDS GlobalRequests

CONSTANT ClientTasks   (* the tasks that run at the client *)

MCHome == [t \in Tasks |-> IF t \in ClientTasks THEN "client" ELSE "server"]
=============================================================================
