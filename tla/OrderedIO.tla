------------------------------ MODULE OrderedIO ------------------------------
(***************************************************************************)
(* What the ticket mechanism of a conversation promises to its users: a    *)
(* resource (one half of the control stream) that is used by one holder at *)
(* a time, in exactly the order in which tickets were allocated, and by    *)
(* every ticket at most once.  OrderedAccess is shown to implement it.     *)
(***************************************************************************)
EXTENDS Naturals

VARIABLES
  issued,   (* number of tickets handed out                               *)
  served,   (* number of tickets whose use of the resource is over        *)
  busy      (* whether ticket number `served' is using the resource       *)

vars == <<issued, served, busy>>

Init == issued = 0 /\ served = 0 /\ busy = FALSE

Issue == issued' = issued + 1 /\ UNCHANGED <<served, busy>>

(* The oldest ticket that is still out gets the resource. *)
Grant ==
  /\ ~busy
  /\ served < issued
  /\ busy' = TRUE
  /\ UNCHANGED <<issued, served>>

(* The resource passes to the next ticket only by being given back. *)
Release ==
  /\ busy
  /\ busy' = FALSE
  /\ served' = served + 1
  /\ UNCHANGED issued

Next == Issue \/ Grant \/ Release

Spec == Init /\ [][Next]_vars
=============================================================================
