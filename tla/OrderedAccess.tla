---------------------------- MODULE OrderedAccess ----------------------------
(***************************************************************************)
(* The ordered access mechanism of src/src/conversation.rs, one atomic     *)
(* operation of the code per step: the ticket counters, the tokio Notify   *)
(* registration that every waiter makes before it looks at the counters,   *)
(* the guard whose Drop advances current_serving, the poison flag, and the *)
(* auto-failures that acquire_writer drains for requests dropped without   *)
(* an answer.                                                              *)
(*                                                                         *)
(* The control stream has two halves with one such mechanism each, and     *)
(* `half' says which of them a behaviour is about.  A task is one call     *)
(* that wants the resource once: users of the writer wait with             *)
(* ConversationShared::acquire_writer, those of the reader with the plain  *)
(* OrderedAccess::acquire.  At the writer, tasks in Responders own an      *)
(* IncomingGlobalRequest and may drop it instead of answering; tasks in    *)
(* Cancellable are futures their caller may drop at an await point.        *)
(***************************************************************************)
EXTENDS Naturals, Sequences

CONSTANTS
  Tasks,        (* the calls                                              *)
  Responders,   (* the writers whose ticket belongs to a peer's request   *)
  Cancellable,  (* the calls whose future may be dropped while it waits   *)
  IoMayFail     (* whether an encode or flush may fail                    *)

ASSUME TaskAssumption ==
  /\ Responders \subseteq Tasks
  /\ Cancellable \subseteq Tasks
  /\ IoMayFail \in BOOLEAN

VARIABLES
  half,            (* the half of the control stream, fixed               *)
  nextTicket,      (* AtomicU64 next_ticket                               *)
  currentServing,  (* AtomicU64 current_serving                           *)
  autoFailures,    (* Mutex<BTreeSet<u64>> auto_failures                  *)
  poisoned,        (* AtomicBool poisoned                                 *)
  waiters,         (* tasks enabled on the Notify and not yet notified    *)
  pc,              (* where each task is                                  *)
  ticket,          (* the ticket of each task, its own                    *)
  want,            (* the ticket it is acquiring: its own or, while it    *)
                   (* drains, that of an auto-failure                     *)
  outcome,         (* what became of its last write                       *)
  wire             (* the messages on the stream, in order                *)

vars == <<half, nextTicket, currentServing, autoFailures, poisoned, waiters,
          pc, ticket, want, outcome, wire>>

(* The steps of a task, grouped by the function they belong to. *)
AcquireSteps == {"acq_enable", "acq_poison", "acq_serving", "acq_await"}
WriterSteps  == {"drain_load", "drain_take", "turn", "enable",
                 "check_poison", "check_turn", "await"}
GuardSteps   == {"hold", "poison_held", "wake_held", "release"}
FinalSteps   == {"done", "failed", "cancelled"}
Steps == {"idle", "ticketed", "release_wake", "drop_wake", "poison",
          "poison_wake"}
         \cup AcquireSteps \cup WriterSteps \cup GuardSteps \cup FinalSteps

(* A message as the peer finds it: whole, or cut short by an error. *)
Message == [ticket : Nat, whole : BOOLEAN]

Init ==
  /\ half \in {"writer", "reader"}
  /\ nextTicket = 0
  /\ currentServing = 0
  /\ autoFailures = {}
  /\ poisoned = FALSE
  /\ waiters = {}
  /\ pc = [t \in Tasks |-> "idle"]
  /\ ticket = [t \in Tasks |-> 0]
  /\ want = [t \in Tasks |-> 0]
  /\ outcome = [t \in Tasks |-> "ok"]
  /\ wire = <<>>
-----------------------------------------------------------------------------
At(t, step)   == pc[t] = step
Goto(t, step) == pc' = [pc EXCEPT ![t] = step] /\ UNCHANGED half

Draining(t) == want[t] # ticket[t]
Holding(t)  == pc[t] \in GuardSteps

(* Notify::notify_waiters: every enabled waiter is released, nobody else.  *)
NotifyWaiters == waiters' = {}

(* take_ticket; a task is then bound to its ticket for life. *)
TakeTicket(t) ==
  /\ At(t, "idle")
  /\ nextTicket' = nextTicket + 1
  /\ ticket' = [ticket EXCEPT ![t] = nextTicket]
  /\ want' = [want EXCEPT ![t] = nextTicket]
  /\ Goto(t, "ticketed")
  /\ UNCHANGED <<currentServing, autoFailures, poisoned, waiters, outcome, wire>>

(* The call starts to wait for its ticket. *)
Claim(t) ==
  /\ At(t, "ticketed")
  /\ Goto(t, IF half = "writer" THEN "drain_load" ELSE "acq_enable")
  /\ UNCHANGED <<nextTicket, currentServing, autoFailures, poisoned, waiters,
                 ticket, want, outcome, wire>>

(* Mutant: the auto-failure is queued under the preceding ticket. *)
DropDecoded_PrecedingTicket(t) ==
  /\ half = "writer" /\ t \in Responders
  /\ At(t, "ticketed")
  /\ autoFailures' = autoFailures \cup {ticket[t] - 1}
  /\ Goto(t, "drop_wake")
  /\ UNCHANGED <<nextTicket, currentServing, poisoned, waiters, ticket, want,
                 outcome, wire>>

(* Mutant: no answer is owed any more, the turn of the request is skipped. *)
DropDecoded_SkipsTurn(t) ==
  /\ half = "writer" /\ t \in Responders
  /\ At(t, "ticketed")
  /\ currentServing' = currentServing + 1
  /\ Goto(t, "drop_wake")
  /\ UNCHANGED <<nextTicket, autoFailures, poisoned, waiters, ticket, want,
                 outcome, wire>>

(* Drop of a DecodedGlobalRequest that was never answered. *)
DropDecoded(t) ==
  /\ half = "writer" /\ t \in Responders
  /\ At(t, "ticketed")
  /\ autoFailures' = autoFailures \cup {ticket[t]}
  /\ Goto(t, "drop_wake")
  /\ UNCHANGED <<nextTicket, currentServing, poisoned, waiters, ticket, want,
                 outcome, wire>>

DropWake(t) ==
  /\ At(t, "drop_wake")
  /\ NotifyWaiters
  /\ Goto(t, "done")
  /\ UNCHANGED <<nextTicket, currentServing, autoFailures, poisoned, ticket,
                 want, outcome, wire>>

(* Drop of an IncomingGlobalRequest whose payload was not decoded. *)
DropUndecoded(t) ==
  /\ half = "writer" /\ t \in Responders
  /\ At(t, "ticketed")
  /\ Goto(t, "poison")
  /\ UNCHANGED <<nextTicket, currentServing, autoFailures, poisoned, waiters,
                 ticket, want, outcome, wire>>
-----------------------------------------------------------------------------
(* ConversationShared::acquire_writer and drain_auto_failures. *)

DrainLoad(t) ==
  /\ At(t, "drain_load")
  /\ want' = [want EXCEPT ![t] = currentServing]
  /\ Goto(t, "drain_take")
  /\ UNCHANGED <<nextTicket, currentServing, autoFailures, poisoned, waiters,
                 ticket, outcome, wire>>

(* Mutant: the queue is looked into with contains() instead of remove(). *)
DrainTake_Contains(t) ==
  /\ At(t, "drain_take")
  /\ \/ want[t] \in autoFailures /\ Goto(t, "acq_enable") /\ UNCHANGED want
     \/ /\ want[t] \notin autoFailures
        /\ want' = [want EXCEPT ![t] = ticket[t]]
        /\ Goto(t, "turn")
  /\ UNCHANGED <<nextTicket, currentServing, autoFailures, poisoned, waiters,
                 ticket, outcome, wire>>

DrainTake(t) ==
  /\ At(t, "drain_take")
  /\ \/ /\ want[t] \in autoFailures
        /\ autoFailures' = autoFailures \ {want[t]}
        /\ Goto(t, "acq_enable")
        /\ UNCHANGED want
     \/ /\ want[t] \notin autoFailures
        /\ want' = [want EXCEPT ![t] = ticket[t]]
        /\ Goto(t, "turn")
        /\ UNCHANGED autoFailures
  /\ UNCHANGED <<nextTicket, currentServing, poisoned, waiters, ticket,
                 outcome, wire>>

Turn(t) ==
  /\ At(t, "turn")
  /\ Goto(t, IF currentServing = ticket[t] THEN "acq_enable" ELSE "enable")
  /\ UNCHANGED <<nextTicket, currentServing, autoFailures, poisoned, waiters,
                 ticket, want, outcome, wire>>

Enable(t) ==
  /\ At(t, "enable")
  /\ waiters' = waiters \cup {t}
  /\ Goto(t, "check_poison")
  /\ UNCHANGED <<nextTicket, currentServing, autoFailures, poisoned, ticket,
                 want, outcome, wire>>

CheckPoison(t) ==
  /\ At(t, "check_poison")
  /\ Goto(t, IF poisoned THEN "failed" ELSE "check_turn")
  /\ waiters' = IF poisoned THEN waiters \ {t} ELSE waiters
  /\ UNCHANGED <<nextTicket, currentServing, autoFailures, poisoned, ticket,
                 want, outcome, wire>>

(* The second look at the counter.  Only the counter: an auto-failure that *)
(* became due since DrainTake is not looked for again.                     *)
CheckTurn(t) ==
  /\ At(t, "check_turn")
  /\ Goto(t, IF currentServing = ticket[t] THEN "acq_enable" ELSE "await")
  /\ UNCHANGED <<nextTicket, currentServing, autoFailures, poisoned, waiters,
                 ticket, want, outcome, wire>>

Await(t) ==
  /\ At(t, "await")
  /\ t \notin waiters
  /\ Goto(t, "drain_load")
  /\ UNCHANGED <<nextTicket, currentServing, autoFailures, poisoned, waiters,
                 ticket, want, outcome, wire>>
-----------------------------------------------------------------------------
(* OrderedAccess::acquire(want): register, look at the poison flag, look   *)
(* at the counter, sleep.                                                  *)

AcqEnable(t) ==
  /\ At(t, "acq_enable")
  /\ waiters' = waiters \cup {t}
  /\ Goto(t, "acq_poison")
  /\ UNCHANGED <<nextTicket, currentServing, autoFailures, poisoned, ticket,
                 want, outcome, wire>>

(* Mutant: a ticket whose turn it is gets the guard without a poison check. *)
AcqPoison_TurnFirst(t) ==
  /\ At(t, "acq_poison")
  /\ LET fails == poisoned /\ currentServing # want[t]
     IN  /\ Goto(t, IF fails THEN "failed" ELSE "acq_serving")
         /\ waiters' = IF fails THEN waiters \ {t} ELSE waiters
  /\ UNCHANGED <<nextTicket, currentServing, autoFailures, poisoned, ticket,
                 want, outcome, wire>>

AcqPoison(t) ==
  /\ At(t, "acq_poison")
  /\ Goto(t, IF poisoned THEN "failed" ELSE "acq_serving")
  /\ waiters' = IF poisoned THEN waiters \ {t} ELSE waiters
  /\ UNCHANGED <<nextTicket, currentServing, autoFailures, poisoned, ticket,
                 want, outcome, wire>>

AcqServing(t) ==
  /\ At(t, "acq_serving")
  /\ IF currentServing = want[t]
       THEN Goto(t, "hold") /\ waiters' = waiters \ {t}
       ELSE Goto(t, "acq_await") /\ UNCHANGED waiters
  /\ UNCHANGED <<nextTicket, currentServing, autoFailures, poisoned, ticket,
                 want, outcome, wire>>

AcqAwait(t) ==
  /\ At(t, "acq_await")
  /\ t \notin waiters
  /\ Goto(t, "acq_enable")
  /\ UNCHANGED <<nextTicket, currentServing, autoFailures, poisoned, waiters,
                 ticket, want, outcome, wire>>
-----------------------------------------------------------------------------
(* Under the guard. *)

(* encode and flush succeed; PoisonOnDrop is disarmed. *)
Write(t) ==
  /\ At(t, "hold")
  /\ wire' = Append(wire, [ticket |-> want[t], whole |-> TRUE])
  /\ outcome' = [outcome EXCEPT ![t] = "ok"]
  /\ Goto(t, "release")
  /\ UNCHANGED <<nextTicket, currentServing, autoFailures, poisoned, waiters,
                 ticket, want>>

(* Mutant: a call without PoisonOnDrop. *)
WriteFails_NoPoison(t) ==
  /\ IoMayFail
  /\ At(t, "hold")
  /\ wire' = Append(wire, [ticket |-> want[t], whole |-> FALSE])
  /\ outcome' = [outcome EXCEPT ![t] = "err"]
  /\ Goto(t, "release")
  /\ UNCHANGED <<nextTicket, currentServing, autoFailures, poisoned, waiters,
                 ticket, want>>

(* A call's own message is under PoisonOnDrop, which is dropped before the *)
(* guard; so is the header an acceptor reads, but not the answer that a    *)
(* call reads.  A drained auto-failure gives the guard back first and      *)
(* poisons afterwards.                                                     *)
FailsTo(t) ==
  IF Draining(t) THEN {"release"}
  ELSE {"poison_held"} \cup (IF half = "reader" THEN {"release"} ELSE {})

(* encode or flush fails with part of the message on the stream, or a      *)
(* decode in the middle of one.                                            *)
WriteFails(t) ==
  /\ IoMayFail
  /\ At(t, "hold")
  /\ wire' = Append(wire, [ticket |-> want[t], whole |-> FALSE])
  /\ outcome' = [outcome EXCEPT ![t] = "err"]
  /\ \E step \in FailsTo(t) : Goto(t, step)
  /\ UNCHANGED <<nextTicket, currentServing, autoFailures, poisoned, waiters,
                 ticket, want>>

(* ConversationShared::poison, without and with the guard in hand. *)
Poison(t) ==
  /\ pc[t] \in {"poison", "poison_held"}
  /\ poisoned' = TRUE
  /\ Goto(t, IF pc[t] = "poison" THEN "poison_wake" ELSE "wake_held")
  /\ UNCHANGED <<nextTicket, currentServing, autoFailures, waiters, ticket,
                 want, outcome, wire>>

(* Mutant: the flag is set and nobody is told. *)
PoisonWake_Silent(t) ==
  /\ pc[t] \in {"poison_wake", "wake_held"}
  /\ Goto(t, IF pc[t] = "poison_wake" THEN "failed" ELSE "release")
  /\ UNCHANGED <<nextTicket, currentServing, autoFailures, poisoned, waiters,
                 ticket, want, outcome, wire>>

PoisonWake(t) ==
  /\ pc[t] \in {"poison_wake", "wake_held"}
  /\ NotifyWaiters
  /\ Goto(t, IF pc[t] = "poison_wake" THEN "failed" ELSE "release")
  /\ UNCHANGED <<nextTicket, currentServing, autoFailures, poisoned, ticket,
                 want, outcome, wire>>

(* Drop of the OrderedGuard: fetch_add, then notify_waiters. *)
Release(t) ==
  /\ At(t, "release")
  /\ currentServing' = currentServing + 1
  /\ Goto(t, "release_wake")
  /\ UNCHANGED <<nextTicket, autoFailures, poisoned, waiters, ticket, want,
                 outcome, wire>>

(* Where a task goes once it has given the guard back. *)
AfterRelease(t) ==
  IF outcome[t] = "dropped" THEN "cancelled"
  ELSE IF Draining(t) THEN IF outcome[t] = "ok" THEN "drain_load" ELSE "poison"
  ELSE IF outcome[t] = "ok" THEN "done" ELSE "failed"

ReleaseWake(t) ==
  /\ At(t, "release_wake")
  /\ NotifyWaiters
  /\ Goto(t, AfterRelease(t))
  /\ UNCHANGED <<nextTicket, currentServing, autoFailures, poisoned, ticket,
                 want, outcome, wire>>
-----------------------------------------------------------------------------
(* Mutant: a dropped wait gives its turn up by advancing the counter. *)
CancelWaiting_SkipsAhead(t) ==
  /\ t \in Cancellable
  /\ pc[t] \in {"await", "acq_await"}
  /\ waiters' = {}
  /\ currentServing' = currentServing + 1
  /\ Goto(t, "cancelled")
  /\ UNCHANGED <<nextTicket, autoFailures, poisoned, ticket, want, outcome, wire>>

(* The caller drops the future while it waits for its turn: the ticket is  *)
(* gone and nobody is told.                                                *)
CancelWaiting(t) ==
  /\ t \in Cancellable
  /\ pc[t] \in {"await", "acq_await"}
  /\ waiters' = waiters \ {t}
  /\ Goto(t, "cancelled")
  /\ UNCHANGED <<nextTicket, currentServing, autoFailures, poisoned, ticket,
                 want, outcome, wire>>

(* The caller drops the future in the middle of a message.  PoisonOnDrop   *)
(* acts as above, and nothing does for a drained auto-failure.             *)
CancelWriting(t) ==
  /\ t \in Cancellable
  /\ At(t, "hold")
  /\ wire' = Append(wire, [ticket |-> want[t], whole |-> FALSE])
  /\ outcome' = [outcome EXCEPT ![t] = "dropped"]
  /\ \E step \in FailsTo(t) : Goto(t, step)
  /\ UNCHANGED <<nextTicket, currentServing, autoFailures, poisoned, waiters,
                 ticket, want>>
-----------------------------------------------------------------------------
(* What a task does by itself once it has been polled. *)
Step(t) ==
  \/ DropWake(t)
  \/ DrainLoad(t) \/ DrainTake(t) \/ Turn(t)
  \/ Enable(t) \/ CheckPoison(t) \/ CheckTurn(t) \/ Await(t)
  \/ AcqEnable(t) \/ AcqPoison(t) \/ AcqServing(t) \/ AcqAwait(t)
  \/ Write(t) \/ WriteFails(t)
  \/ Poison(t) \/ PoisonWake(t)
  \/ Release(t) \/ ReleaseWake(t)

(* The owner of a ticket answers or lets go of the request. *)
Decide(t) == Claim(t) \/ DropDecoded(t) \/ DropUndecoded(t)

TaskNext(t) ==
  \/ TakeTicket(t)
  \/ Decide(t)
  \/ Step(t)
  \/ CancelWaiting(t)
  \/ CancelWriting(t)

Next == \E t \in Tasks : TaskNext(t)

Spec == Init /\ [][Next]_vars

(* The runtime polls a woken task again, an encode ends, and the owner of  *)
(* a ticket does not keep its request for ever.  Nothing makes a caller    *)
(* start a call or drop a future.                                          *)
Fairness == \A t \in Tasks : WF_vars(Step(t)) /\ WF_vars(Decide(t))

FairSpec == Spec /\ Fairness
-----------------------------------------------------------------------------
(* Every variable holds a value the code's types allow: tickets are u64,   *)
(* the queue of auto-failures holds tickets, only tasks are registered.    *)
TypeOK ==
  /\ half \in {"writer", "reader"}
  /\ nextTicket \in Nat
  /\ currentServing \in Nat
  /\ autoFailures \in SUBSET Nat
  /\ poisoned \in BOOLEAN
  /\ waiters \in SUBSET Tasks
  /\ pc \in [Tasks -> Steps]
  /\ ticket \in [Tasks -> Nat]
  /\ want \in [Tasks -> Nat]
  /\ outcome \in [Tasks -> {"ok", "err", "dropped"}]
  /\ wire \in Seq(Message)

(* "Only the task whose ticket matches current_serving may access the      *)
(* resource, providing the mutual exclusion required by UnsafeCell"        *)
(* (the SAFETY comment of OrderedAccessInner): two OrderedGuards never     *)
(* exist at once, drained auto-failures, errors and dropped futures        *)
(* included.                                                               *)
MutualExclusion ==
  \A t, u \in Tasks : Holding(t) /\ Holding(u) => t = u

(* The n-th message on the stream is the one of the n-th ticket: no ticket *)
(* is passed over, written twice or overtaken, whichever task wrote it.    *)
(* The peer pairs responses with requests by this order alone.             *)
WireFollowsTickets ==
  \A i \in 1..Len(wire) : wire[i].ticket = i - 1

(* The steps from which a task still has a look at the poison flag ahead.  *)
BeforePoisonCheck ==
  WriterSteps \cup {"idle", "ticketed", "acq_enable", "acq_poison", "acq_await"}

(* A poisoned session gives the stream to no task that has not passed the  *)
(* poison check of acquire() by then, however it is woken afterwards       *)
(* ("The session becomes permanently unusable", IncomingGlobalRequest).    *)
PoisonIsFinal ==
  \A t \in Tasks :
    [](poisoned /\ pc[t] \in BeforePoisonCheck => [](~Holding(t)))

(* The ticket of a request that was dropped after it was decoded. *)
DroppedRequest(k) ==
  \E u \in Responders : ticket[u] = k /\ pc[u] \in {"drop_wake", "done"}

(* Nothing is written behind a message that a call itself cut short: "if   *)
(* any encode step fails after partial bytes are written, the stream is    *)
(* corrupted. Poison the session on drop" (send_global_request).  Two      *)
(* cases are excepted: the answer that a drain writes for a dropped        *)
(* request, because drain_auto_failures gives the writer back before it    *)
(* poisons, and the reader, whose users look at the poison flag before     *)
(* they look at their turn and whose calls do not poison (GlobalRequests   *)
(* has what becomes of that).                                              *)
NothingAfterBroken ==
  half = "writer" =>
    \A i \in 1..Len(wire) :
      wire[i].whole \/ i = Len(wire) \/ DroppedRequest(wire[i].ticket)

(* The promise of OrderedIO, with the guard as the use of the resource.    *)
IO == INSTANCE OrderedIO WITH
        issued <- nextTicket,
        served <- currentServing,
        busy   <- \E t \in Tasks : Holding(t)

ImplementsOrderedIO == IO!Spec

Waiting(t) == pc[t] \in WriterSteps \cup AcquireSteps

(* A call that waits for its turn is let through or told of the poison:    *)
(* acquire_writer returns "draining any preceding auto-failure responses   *)
(* first", and no wake-up is lost on the way.                              *)
EveryCallReturns ==
  \A t \in Tasks : Waiting(t) ~> pc[t] \in FinalSteps

(* What becomes of that with dropped requests and futures: a call waits    *)
(* for ever only in a session that is not poisoned, and there only while   *)
(* an auto-failure is due and nobody drains it, or behind a future that    *)
(* was dropped.  No interleaving of registrations, loads, releases and     *)
(* wake-ups leaves it asleep otherwise, and poison reaches every waiter,   *)
(* those whose wake-up was lost and those behind a leaked ticket included. *)
OnlyDroppedTicketsBlock ==
  \A t \in Tasks :
    Waiting(t) ~> \/ pc[t] \in FinalSteps
                  \/ /\ ~poisoned
                     /\ \/ currentServing \in autoFailures
                        \/ \E u \in Tasks : pc[u] = "cancelled"
=============================================================================
