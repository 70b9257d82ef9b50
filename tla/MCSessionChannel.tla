--------------------------- MODULE MCSessionChannel ---------------------------
(* SessionChannel with two set-up sequences: a terminal, and a command     *)
(* behind an optional request that is granted and one that is not.         *)
EXTENDS SessionChannel

MCPlans == {<<"pty-req", "shell">>, <<"env", "unknown", "exec">>}
=============================================================================
