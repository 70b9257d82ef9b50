------------------------------- MODULE MCRelay -------------------------------
(* Small instances of Relay for TLC. *)
EXTENDS Relay

MCUp == <<"u1">>
MCDown == <<"d1">>
=============================================================================
