------------------------- MODULE OrderedAccessProofs -------------------------
(***************************************************************************)
(* Proofs about OrderedAccess for any set of tasks.                        *)
(***************************************************************************)
EXTENDS OrderedAccess, TLAPS

(* A task whose ticket nobody else may use: it has one and has neither     *)
(* dropped its request nor finished.                                       *)
Live(t) == pc[t] \notin {"idle", "drop_wake"} \cup FinalSteps

(* A task that is acquiring or using the ticket want[t]. *)
Claims(t) == pc[t] \in AcquireSteps \cup GuardSteps

(* A task that has put its message on the wire and still has the guard. *)
Written(t) == pc[t] \in {"poison_held", "wake_held", "release"}

(* Tickets belong to one task each. *)
TicketInv ==
  /\ \A t \in Tasks : pc[t] # "idle" => ticket[t] < nextTicket
  /\ \A t, u \in Tasks :
       pc[t] # "idle" /\ pc[u] # "idle" /\ ticket[t] = ticket[u] => t = u

(* A queued auto-failure is a ticket no live task owns or acquires. *)
AutoFailureInv ==
  /\ \A k \in autoFailures : k < nextTicket
  /\ \A t \in Tasks : Live(t) => ticket[t] \notin autoFailures
  /\ \A t \in Tasks : Claims(t) => want[t] \notin autoFailures

(* A ticket is acquired by one task, and by its owner if that is live. *)
ClaimInv ==
  /\ \A t \in Tasks : Claims(t) => want[t] < nextTicket
  /\ \A t \in Tasks :
       pc[t] \in {"ticketed", "turn", "enable", "check_poison", "check_turn",
                  "await"} => want[t] = ticket[t]
  /\ \A t, u \in Tasks : Claims(t) /\ Claims(u) /\ want[t] = want[u] => t = u
  /\ \A t, u \in Tasks : Live(t) /\ Claims(u) /\ want[u] = ticket[t] => t = u

(* The guard is in the hands of the ticket being served. *)
GuardInv == \A t \in Tasks : Holding(t) => want[t] = currentServing

Inv == TypeOK /\ TicketInv /\ AutoFailureInv /\ ClaimInv /\ GuardInv

WireInv ==
  /\ WireFollowsTickets
  /\ \A t \in Tasks : Written(t) => Len(wire) = currentServing + 1
  /\ (\A t \in Tasks : ~Written(t)) => Len(wire) = currentServing
-----------------------------------------------------------------------------
(* The types are kept by every step of every task. *)
LEMMA TypeStep ==
  ASSUME TypeOK, [Next]_vars
  PROVE  TypeOK'
<1> USE DEF TypeOK, Steps, AcquireSteps, WriterSteps, GuardSteps, FinalSteps,
            At, Goto
<1>1. CASE UNCHANGED vars
  BY <1>1 DEF vars
<1>2. ASSUME NEW t \in Tasks, TaskNext(t)
      PROVE  TypeOK'
  <2>1. CASE TakeTicket(t)
    BY <2>1 DEF TakeTicket
  <2>2. CASE Claim(t)
    BY <2>2 DEF Claim
  <2>3. CASE DropDecoded(t)
    BY <2>3 DEF DropDecoded
  <2>4. CASE DropWake(t)
    BY <2>4 DEF DropWake, NotifyWaiters
  <2>5. CASE DropUndecoded(t)
    BY <2>5 DEF DropUndecoded
  <2>6. CASE DrainLoad(t)
    BY <2>6 DEF DrainLoad
  <2>7. CASE DrainTake(t)
    BY <2>7 DEF DrainTake
  <2>8. CASE Turn(t)
    BY <2>8 DEF Turn
  <2>9. CASE Enable(t)
    BY <2>9 DEF Enable
  <2>10. CASE CheckPoison(t)
    BY <2>10 DEF CheckPoison
  <2>11. CASE CheckTurn(t)
    BY <2>11 DEF CheckTurn
  <2>12. CASE Await(t)
    BY <2>12 DEF Await
  <2>13. CASE AcqEnable(t)
    BY <2>13 DEF AcqEnable
  <2>14. CASE AcqPoison(t)
    BY <2>14 DEF AcqPoison
  <2>15. CASE AcqServing(t)
    BY <2>15 DEF AcqServing
  <2>16. CASE AcqAwait(t)
    BY <2>16 DEF AcqAwait
  <2>17. CASE Write(t)
    BY <2>17 DEF Write, Message
  <2>18. CASE WriteFails(t)
    BY <2>18 DEF WriteFails, FailsTo, Draining, Message
  <2>19. CASE Poison(t)
    BY <2>19 DEF Poison
  <2>20. CASE PoisonWake(t)
    BY <2>20 DEF PoisonWake, NotifyWaiters
  <2>21. CASE Release(t)
    BY <2>21 DEF Release
  <2>22. CASE ReleaseWake(t)
    BY <2>22 DEF ReleaseWake, NotifyWaiters, AfterRelease, Draining
  <2>23. CASE CancelWaiting(t)
    BY <2>23 DEF CancelWaiting
  <2>24. CASE CancelWriting(t)
    BY <2>24 DEF CancelWriting, FailsTo, Draining, Message
  <2> QED
    BY <1>2, <2>1, <2>2, <2>3, <2>4, <2>5, <2>6, <2>7, <2>8, <2>9, <2>10, <2>11, <2>12, <2>13, <2>14, <2>15, <2>16, <2>17, <2>18, <2>19, <2>20, <2>21, <2>22, <2>23, <2>24
    DEF TaskNext, Step, Decide
<1> QED
  BY <1>1, <1>2 DEF Next
(* The tickets, the auto-failures and the guard stay consistent. *)
LEMMA InvStep ==
  ASSUME Inv, [Next]_vars
  PROVE  Inv'
<1> USE DEF Inv, TypeOK, TicketInv, AutoFailureInv, ClaimInv, GuardInv, Live,
            Claims, Holding, Steps, AcquireSteps, WriterSteps, GuardSteps,
            FinalSteps, At, Goto
<1>t. TypeOK'
  BY TypeStep DEF Inv
<1>1. CASE UNCHANGED vars
  BY <1>1 DEF vars
<1>2. ASSUME NEW t \in Tasks, TaskNext(t)
      PROVE  Inv'
  <2>1. CASE TakeTicket(t)
    BY <1>t, <2>1 DEF TakeTicket
  <2>2. CASE Claim(t)
    BY <1>t, <2>2 DEF Claim
  <2>3. CASE DropDecoded(t)
    <3>1. TicketInv'
      BY <1>t, <2>3 DEF DropDecoded
    <3>2. AutoFailureInv'
      <4>1. autoFailures' = autoFailures \cup {ticket[t]}
        BY <2>3 DEF DropDecoded
      <4>2. \A u \in Tasks \ {t} : pc'[u] = pc[u]
        BY <2>3 DEF DropDecoded
      <4>3. /\ ~Live(t)' /\ ~Claims(t)' /\ Live(t)
            /\ UNCHANGED <<ticket, want, nextTicket>>
        BY <2>3 DEF DropDecoded
      <4>4. \A u \in Tasks \ {t} : Live(u) => ticket[u] # ticket[t]
        BY <4>3
      <4>5. \A u \in Tasks \ {t} : Claims(u) => want[u] # ticket[t]
        BY <4>3
      <4> QED
        BY <4>1, <4>2, <4>3, <4>4, <4>5
    <3>3. ClaimInv'
      BY <1>t, <2>3 DEF DropDecoded
    <3>4. GuardInv'
      BY <1>t, <2>3 DEF DropDecoded
    <3> QED
      BY <1>t, <3>1, <3>2, <3>3, <3>4 DEF Inv
  <2>4. CASE DropWake(t)
    BY <1>t, <2>4 DEF DropWake, NotifyWaiters
  <2>5. CASE DropUndecoded(t)
    BY <1>t, <2>5 DEF DropUndecoded
  <2>6. CASE DrainLoad(t)
    BY <1>t, <2>6 DEF DrainLoad
  <2>7. CASE DrainTake(t)
    <3>1. CASE want[t] \in autoFailures
      <4>1. /\ pc' = [pc EXCEPT ![t] = "acq_enable"] /\ pc[t] = "drain_take"
            /\ autoFailures' = autoFailures \ {want[t]}
            /\ UNCHANGED <<nextTicket, currentServing, ticket, want>>
        BY <2>7, <3>1 DEF DrainTake
      <4>2. TicketInv'
        BY <1>t, <3>1, <4>1
      <4>3. AutoFailureInv'
        BY <1>t, <3>1, <4>1
      <4>4. ClaimInv'
        BY <1>t, <3>1, <4>1
      <4>5. GuardInv'
        BY <1>t, <3>1, <4>1
      <4> QED
        BY <1>t, <4>2, <4>3, <4>4, <4>5
    <3>2. CASE want[t] \notin autoFailures
      <4>1. /\ pc' = [pc EXCEPT ![t] = "turn"] /\ pc[t] = "drain_take"
            /\ want' = [want EXCEPT ![t] = ticket[t]]
            /\ UNCHANGED <<nextTicket, currentServing, ticket, autoFailures>>
        BY <2>7, <3>2 DEF DrainTake
      <4>2. TicketInv'
        BY <1>t, <4>1
      <4>3. AutoFailureInv'
        BY <1>t, <4>1
      <4>4. ClaimInv'
        BY <1>t, <4>1
      <4>5. GuardInv'
        BY <1>t, <4>1
      <4> QED
        BY <1>t, <4>2, <4>3, <4>4, <4>5
    <3> QED
      BY <3>1, <3>2
  <2>8. CASE Turn(t)
    <3>1. TicketInv'
      BY <1>t, <2>8 DEF Turn
    <3>2. AutoFailureInv'
      BY <1>t, <2>8 DEF Turn
    <3>3. ClaimInv'
      BY <1>t, <2>8 DEF Turn
    <3>4. GuardInv'
      BY <1>t, <2>8 DEF Turn
    <3> QED
      BY <1>t, <3>1, <3>2, <3>3, <3>4 DEF Inv
  <2>9. CASE Enable(t)
    BY <1>t, <2>9 DEF Enable
  <2>10. CASE CheckPoison(t)
    BY <1>t, <2>10 DEF CheckPoison
  <2>11. CASE CheckTurn(t)
    <3>1. TicketInv'
      BY <1>t, <2>11 DEF CheckTurn
    <3>2. AutoFailureInv'
      BY <1>t, <2>11 DEF CheckTurn
    <3>3. ClaimInv'
      BY <1>t, <2>11 DEF CheckTurn
    <3>4. GuardInv'
      BY <1>t, <2>11 DEF CheckTurn
    <3> QED
      BY <1>t, <3>1, <3>2, <3>3, <3>4 DEF Inv
  <2>12. CASE Await(t)
    BY <1>t, <2>12 DEF Await
  <2>13. CASE AcqEnable(t)
    BY <1>t, <2>13 DEF AcqEnable
  <2>14. CASE AcqPoison(t)
    BY <1>t, <2>14 DEF AcqPoison
  <2>15. CASE AcqServing(t)
    <3>1. CASE currentServing = want[t]
      <4>1. /\ pc' = [pc EXCEPT ![t] = "hold"] /\ pc[t] = "acq_serving"
            /\ UNCHANGED <<nextTicket, currentServing, autoFailures, ticket, want>>
        BY <2>15, <3>1 DEF AcqServing
      <4>2. TicketInv'
        BY <1>t, <3>1, <4>1
      <4>3. AutoFailureInv'
        BY <1>t, <3>1, <4>1
      <4>4. ClaimInv'
        BY <1>t, <3>1, <4>1
      <4>5. GuardInv'
        BY <1>t, <3>1, <4>1
      <4> QED
        BY <1>t, <4>2, <4>3, <4>4, <4>5
    <3>2. CASE currentServing # want[t]
      <4>1. /\ pc' = [pc EXCEPT ![t] = "acq_await"] /\ pc[t] = "acq_serving"
            /\ UNCHANGED <<nextTicket, currentServing, autoFailures, ticket, want>>
        BY <2>15, <3>2 DEF AcqServing
      <4>2. TicketInv'
        BY <1>t, <4>1
      <4>3. AutoFailureInv'
        BY <1>t, <4>1
      <4>4. ClaimInv'
        BY <1>t, <4>1
      <4>5. GuardInv'
        BY <1>t, <4>1
      <4> QED
        BY <1>t, <4>2, <4>3, <4>4, <4>5
    <3> QED
      BY <3>1, <3>2
  <2>16. CASE AcqAwait(t)
    BY <1>t, <2>16 DEF AcqAwait
  <2>17. CASE Write(t)
    BY <1>t, <2>17 DEF Write
  <2>18. CASE WriteFails(t)
    BY <1>t, <2>18 DEF WriteFails, FailsTo, Draining
  <2>19. CASE Poison(t)
    <3>1. TicketInv'
      BY <1>t, <2>19 DEF Poison
    <3>2. AutoFailureInv'
      BY <1>t, <2>19 DEF Poison
    <3>3. ClaimInv'
      BY <1>t, <2>19 DEF Poison
    <3>4. GuardInv'
      BY <1>t, <2>19 DEF Poison
    <3> QED
      BY <1>t, <3>1, <3>2, <3>3, <3>4 DEF Inv
  <2>20. CASE PoisonWake(t)
    BY <1>t, <2>20 DEF PoisonWake, NotifyWaiters
  <2>21. CASE Release(t)
    BY <1>t, <2>21 DEF Release
  <2>22. CASE ReleaseWake(t)
    BY <1>t, <2>22 DEF ReleaseWake, NotifyWaiters, AfterRelease, Draining
  <2>23. CASE CancelWaiting(t)
    BY <1>t, <2>23 DEF CancelWaiting
  <2>24. CASE CancelWriting(t)
    BY <1>t, <2>24 DEF CancelWriting, FailsTo, Draining
  <2> QED
    BY <1>2, <2>1, <2>2, <2>3, <2>4, <2>5, <2>6, <2>7, <2>8, <2>9, <2>10, <2>11, <2>12, <2>13, <2>14, <2>15, <2>16, <2>17, <2>18, <2>19, <2>20, <2>21, <2>22, <2>23, <2>24
    DEF TaskNext, Step, Decide
<1> QED
  BY <1>1, <1>2 DEF Next

(* Inv holds in every state of every behaviour. *)
THEOREM Invariance == Spec => []Inv
<1>1. Init => Inv
  <2> SUFFICES ASSUME Init PROVE Inv
    OBVIOUS
  <2>1. TypeOK
    <3>1. wire \in Seq(Message)
      BY DEF Init
    <3>2. poisoned \in BOOLEAN
      BY DEF Init
    <3> QED
      BY <3>1, <3>2 DEF Init, TypeOK, Steps
  <2>2. TicketInv /\ AutoFailureInv /\ ClaimInv /\ GuardInv
    BY DEF Init, TicketInv, AutoFailureInv, ClaimInv, GuardInv, Live, Claims,
           Holding, AcquireSteps, GuardSteps
  <2> QED
    BY <2>1, <2>2 DEF Inv
<1>2. Inv /\ [Next]_vars => Inv'
  BY InvStep
<1> QED
  BY <1>1, <1>2, PTL DEF Spec

(* The types of the code hold for any number of tasks. *)
THEOREM TypeCorrect == Spec => []TypeOK
<1>1. Inv => TypeOK
  BY DEF Inv
<1> QED
  BY <1>1, Invariance, PTL

(* At most one OrderedGuard exists: what `unsafe impl Sync' relies on.     *)
(* A ticket is claimed by one task, and a guard is only given for the      *)
(* ticket being served.                                                    *)
THEOREM Exclusion == Spec => []MutualExclusion
<1>1. Inv => MutualExclusion
  BY DEF Inv, TypeOK, GuardInv, ClaimInv, MutualExclusion, Holding, Claims
<1> QED
  BY <1>1, Invariance, PTL
-----------------------------------------------------------------------------
(* Each step is a step of OrderedIO or leaves its state alone. *)
LEMMA RefinementStep ==
  ASSUME Inv, [Next]_vars
  PROVE  [IO!Next]_IO!vars
<1> DEFINE Busy == \E t \in Tasks : Holding(t)
<1> USE DEF Holding, GuardSteps, At, Goto
<1>1. CASE UNCHANGED vars
  BY <1>1 DEF vars, IO!vars
<1>2. ASSUME NEW t \in Tasks, TaskNext(t)
      PROVE  [IO!Next]_IO!vars
  <2> pc \in [Tasks -> Steps]
    BY DEF Inv, TypeOK
  <2>stutter. ASSUME UNCHANGED <<nextTicket, currentServing>>,
                     \A u \in Tasks : Holding(u)' = Holding(u)
              PROVE  [IO!Next]_IO!vars
    BY <2>stutter DEF IO!vars
  <2>1. CASE TakeTicket(t)
    <3>1. \A u \in Tasks : Holding(u)' = Holding(u)
      BY <2>1 DEF TakeTicket
    <3> QED
      BY <2>1, <3>1 DEF TakeTicket, IO!Next, IO!Issue
  <2>2. CASE Claim(t)
    BY <2>stutter, <2>2 DEF Claim
  <2>3. CASE DropDecoded(t)
    BY <2>stutter, <2>3 DEF DropDecoded
  <2>4. CASE DropWake(t)
    BY <2>stutter, <2>4 DEF DropWake
  <2>5. CASE DropUndecoded(t)
    BY <2>stutter, <2>5 DEF DropUndecoded
  <2>6. CASE DrainLoad(t)
    BY <2>stutter, <2>6 DEF DrainLoad
  <2>7. CASE DrainTake(t)
    BY <2>stutter, <2>7 DEF DrainTake
  <2>8. CASE Turn(t)
    BY <2>stutter, <2>8 DEF Turn
  <2>9. CASE Enable(t)
    BY <2>stutter, <2>9 DEF Enable
  <2>10. CASE CheckPoison(t)
    BY <2>stutter, <2>10 DEF CheckPoison
  <2>11. CASE CheckTurn(t)
    BY <2>stutter, <2>11 DEF CheckTurn
  <2>12. CASE Await(t)
    BY <2>stutter, <2>12 DEF Await
  <2>13. CASE AcqEnable(t)
    BY <2>stutter, <2>13 DEF AcqEnable
  <2>14. CASE AcqPoison(t)
    BY <2>stutter, <2>14 DEF AcqPoison
  <2>15. CASE AcqServing(t)
    <3>1. CASE currentServing = want[t]
      <4>1. ~Busy
        BY <2>15, <3>1 DEF AcqServing, Inv, TypeOK, GuardInv, ClaimInv, Claims,
                         AcquireSteps
      <4>2. Busy'
        BY <2>15, <3>1 DEF AcqServing
      <4>3. currentServing < nextTicket
        BY <2>15, <3>1 DEF AcqServing, Inv, ClaimInv, Claims, AcquireSteps
      <4> QED
        BY <2>15, <4>1, <4>2, <4>3 DEF AcqServing, IO!Next, IO!Grant
    <3>2. CASE currentServing # want[t]
      BY <2>stutter, <2>15, <3>2 DEF AcqServing
    <3> QED
      BY <3>1, <3>2
  <2>16. CASE AcqAwait(t)
    BY <2>stutter, <2>16 DEF AcqAwait
  <2>17. CASE Write(t)
    BY <2>stutter, <2>17 DEF Write
  <2>18. CASE WriteFails(t)
    BY <2>stutter, <2>18 DEF WriteFails, FailsTo
  <2>19. CASE Poison(t)
    BY <2>stutter, <2>19 DEF Poison
  <2>20. CASE PoisonWake(t)
    BY <2>stutter, <2>20 DEF PoisonWake
  <2>21. CASE Release(t)
    <3>1. Busy
      BY <2>21 DEF Release
    <3>2. ~Busy'
      <4>1. \A u \in Tasks : Holding(u) => u = t
        BY <2>21 DEF Release, Inv, TypeOK, GuardInv, ClaimInv, Claims
      <4> QED
        BY <2>21, <4>1 DEF Release
    <3> QED
      BY <2>21, <3>1, <3>2 DEF Release, IO!Next, IO!Release
  <2>22. CASE ReleaseWake(t)
    BY <2>stutter, <2>22 DEF ReleaseWake, AfterRelease
  <2>23. CASE CancelWaiting(t)
    BY <2>stutter, <2>23 DEF CancelWaiting
  <2>24. CASE CancelWriting(t)
    BY <2>stutter, <2>24 DEF CancelWriting, FailsTo
  <2> QED
    BY <1>2, <2>1, <2>2, <2>3, <2>4, <2>5, <2>6, <2>7, <2>8, <2>9, <2>10, <2>11, <2>12, <2>13, <2>14, <2>15, <2>16, <2>17, <2>18, <2>19, <2>20, <2>21, <2>22, <2>23, <2>24
    DEF TaskNext, Step, Decide
<1> QED
  BY <1>1, <1>2 DEF Next

(* The mechanism keeps the promise of OrderedIO: tickets are served in the *)
(* order they were taken, one at a time, and none is served twice.         *)
THEOREM Refinement == Spec => ImplementsOrderedIO
<1>1. Init => IO!Init
  BY DEF Init, IO!Init, Holding, GuardSteps
<1>2. Inv /\ [Next]_vars => [IO!Next]_IO!vars
  BY RefinementStep
<1> QED
  BY <1>1, <1>2, Invariance, PTL DEF Spec, ImplementsOrderedIO, IO!Spec
-----------------------------------------------------------------------------
(* The wire grows by the message of the ticket being served, once. *)
LEMMA WireStep ==
  ASSUME Inv, WireInv, [Next]_vars
  PROVE  WireInv'
<1> USE DEF Written, At, Goto
<1>1. CASE UNCHANGED vars
  BY <1>1 DEF vars, WireInv, WireFollowsTickets
<1>2. ASSUME NEW t \in Tasks, TaskNext(t)
      PROVE  WireInv'
  <2>type. /\ pc \in [Tasks -> Steps] /\ currentServing \in Nat
           /\ want \in [Tasks -> Nat] /\ wire \in Seq(Message)
    BY DEF Inv, TypeOK
  <2>alone. ASSUME Holding(t)
            PROVE  /\ want[t] = currentServing
                   /\ \A u \in Tasks : Holding(u) => u = t
    BY <2>alone DEF Inv, TypeOK, GuardInv, ClaimInv, Claims, Holding
  <2>same. ASSUME UNCHANGED <<currentServing, wire>>,
                  \A u \in Tasks : Written(u)' = Written(u)
           PROVE  WireInv'
    BY <2>same DEF WireInv, WireFollowsTickets
  <2>message. ASSUME At(t, "hold"), UNCHANGED currentServing,
                     pc' \in {[pc EXCEPT ![t] = "release"],
                              [pc EXCEPT ![t] = "poison_held"]},
                     NEW whole \in BOOLEAN,
                     wire' = Append(wire, [ticket |-> want[t], whole |-> whole])
              PROVE  WireInv'
    <3>1. \A u \in Tasks : ~Written(u)
      BY <2>alone, <2>message DEF Holding, GuardSteps
    <3>2. Len(wire) = currentServing /\ want[t] = currentServing
      BY <2>alone, <2>message, <3>1 DEF WireInv, Holding, GuardSteps
    <3>3. Len(wire') = currentServing + 1
      BY <2>type, <2>message, <3>2
    <3>4. WireFollowsTickets'
      <4> SUFFICES ASSUME NEW i \in 1..Len(wire')
                   PROVE  wire'[i].ticket = i - 1
        BY DEF WireFollowsTickets
      <4>1. CASE i = Len(wire')
        BY <4>1, <2>type, <2>message, <3>2, <3>3
      <4>2. CASE i # Len(wire')
        <5>1. i \in 1..Len(wire)
          BY <4>2, <2>type, <3>2, <3>3
        <5>2. wire'[i] = wire[i]
          BY <5>1, <2>type, <2>message
        <5> QED
          BY <5>1, <5>2 DEF WireInv, WireFollowsTickets
      <4> QED
        BY <4>1, <4>2
    <3>5. Written(t)'
      BY <2>type, <2>message
    <3> QED
      BY <2>message, <3>3, <3>4, <3>5 DEF WireInv
  <2>1. CASE TakeTicket(t)
    BY <2>same, <2>type, <2>1 DEF TakeTicket
  <2>2. CASE Claim(t)
    BY <2>same, <2>type, <2>2 DEF Claim
  <2>3. CASE DropDecoded(t)
    BY <2>same, <2>type, <2>3 DEF DropDecoded
  <2>4. CASE DropWake(t)
    BY <2>same, <2>type, <2>4 DEF DropWake
  <2>5. CASE DropUndecoded(t)
    BY <2>same, <2>type, <2>5 DEF DropUndecoded
  <2>6. CASE DrainLoad(t)
    BY <2>same, <2>type, <2>6 DEF DrainLoad
  <2>7. CASE DrainTake(t)
    BY <2>same, <2>type, <2>7 DEF DrainTake
  <2>8. CASE Turn(t)
    BY <2>same, <2>type, <2>8 DEF Turn
  <2>9. CASE Enable(t)
    BY <2>same, <2>type, <2>9 DEF Enable
  <2>10. CASE CheckPoison(t)
    BY <2>same, <2>type, <2>10 DEF CheckPoison
  <2>11. CASE CheckTurn(t)
    BY <2>same, <2>type, <2>11 DEF CheckTurn
  <2>12. CASE Await(t)
    BY <2>same, <2>type, <2>12 DEF Await
  <2>13. CASE AcqEnable(t)
    BY <2>same, <2>type, <2>13 DEF AcqEnable
  <2>14. CASE AcqPoison(t)
    BY <2>same, <2>type, <2>14 DEF AcqPoison
  <2>15. CASE AcqServing(t)
    BY <2>same, <2>type, <2>15 DEF AcqServing
  <2>16. CASE AcqAwait(t)
    BY <2>same, <2>type, <2>16 DEF AcqAwait
  <2>17. CASE Write(t)
    BY <2>message, <2>17 DEF Write
  <2>18. CASE WriteFails(t)
    BY <2>message, <2>18 DEF WriteFails, FailsTo
  <2>19. CASE Poison(t)
    BY <2>same, <2>type, <2>19 DEF Poison
  <2>20. CASE PoisonWake(t)
    BY <2>same, <2>type, <2>20 DEF PoisonWake
  <2>21. CASE Release(t)
    <3>1. \A u \in Tasks : ~Written(u)'
      BY <2>alone, <2>type, <2>21 DEF Release, Holding, GuardSteps
    <3>2. Len(wire) = currentServing + 1
      BY <2>21 DEF Release, WireInv
    <3> QED
      BY <2>21, <3>1, <3>2 DEF Release, WireInv, WireFollowsTickets
  <2>22. CASE ReleaseWake(t)
    BY <2>same, <2>type, <2>22 DEF ReleaseWake, AfterRelease
  <2>23. CASE CancelWaiting(t)
    BY <2>same, <2>type, <2>23 DEF CancelWaiting
  <2>24. CASE CancelWriting(t)
    BY <2>message, <2>24 DEF CancelWriting, FailsTo
  <2> QED
    BY <1>2, <2>1, <2>2, <2>3, <2>4, <2>5, <2>6, <2>7, <2>8, <2>9, <2>10, <2>11, <2>12, <2>13, <2>14, <2>15, <2>16, <2>17, <2>18, <2>19, <2>20, <2>21, <2>22, <2>23, <2>24
    DEF TaskNext, Step, Decide
<1> QED
  BY <1>1, <1>2 DEF Next

(* Messages are on the stream in the order of their tickets, one for each  *)
(* ticket served, whoever wrote them and however the write ended.          *)
THEOREM WireOrder == Spec => []WireFollowsTickets
<1>1. Init => WireInv
  BY DEF Init, WireInv, WireFollowsTickets, Written
<1>2. Inv /\ WireInv /\ [Next]_vars => WireInv'
  BY WireStep
<1>3. WireInv => WireFollowsTickets
  BY DEF WireInv
<1> QED
  BY <1>1, <1>2, <1>3, Invariance, PTL DEF Spec
-----------------------------------------------------------------------------
(* A dropped request stays dropped.                                        *)
LEMMA DroppedStays ==
  ASSUME Inv, [Next]_vars, NEW k, DroppedRequest(k)
  PROVE  DroppedRequest(k)'
<1>p. PICK u \in Responders : ticket[u] = k /\ pc[u] \in {"drop_wake", "done"}
  BY DEF DroppedRequest
<1>u. u \in Tasks
  BY TaskAssumption
<1>s. ASSUME ticket'[u] = ticket[u], pc'[u] \in {"drop_wake", "done"}
      PROVE  DroppedRequest(k)'
  BY <1>s, <1>p DEF DroppedRequest
<1>t. pc \in [Tasks -> Steps] /\ ticket \in [Tasks -> Nat]
  BY DEF Inv, TypeOK
<1> USE DEF At, Goto
<1>1. CASE UNCHANGED vars
  BY <1>1, <1>p, <1>s DEF vars
<1>2. ASSUME NEW t \in Tasks, TaskNext(t)
      PROVE  DroppedRequest(k)'
  <2>1. CASE TakeTicket(t)
    BY <1>p, <1>s, <1>t, <1>u, <2>1 DEF TakeTicket
  <2>2. CASE Claim(t)
    BY <1>p, <1>s, <1>t, <1>u, <2>2 DEF Claim
  <2>3. CASE DropDecoded(t)
    BY <1>p, <1>s, <1>t, <1>u, <2>3 DEF DropDecoded
  <2>4. CASE DropWake(t)
    BY <1>p, <1>s, <1>t, <1>u, <2>4 DEF DropWake
  <2>5. CASE DropUndecoded(t)
    BY <1>p, <1>s, <1>t, <1>u, <2>5 DEF DropUndecoded
  <2>6. CASE DrainLoad(t)
    BY <1>p, <1>s, <1>t, <1>u, <2>6 DEF DrainLoad
  <2>7. CASE DrainTake(t)
    BY <1>p, <1>s, <1>t, <1>u, <2>7 DEF DrainTake
  <2>8. CASE Turn(t)
    BY <1>p, <1>s, <1>t, <1>u, <2>8 DEF Turn
  <2>9. CASE Enable(t)
    BY <1>p, <1>s, <1>t, <1>u, <2>9 DEF Enable
  <2>10. CASE CheckPoison(t)
    BY <1>p, <1>s, <1>t, <1>u, <2>10 DEF CheckPoison
  <2>11. CASE CheckTurn(t)
    BY <1>p, <1>s, <1>t, <1>u, <2>11 DEF CheckTurn
  <2>12. CASE Await(t)
    BY <1>p, <1>s, <1>t, <1>u, <2>12 DEF Await
  <2>13. CASE AcqEnable(t)
    BY <1>p, <1>s, <1>t, <1>u, <2>13 DEF AcqEnable
  <2>14. CASE AcqPoison(t)
    BY <1>p, <1>s, <1>t, <1>u, <2>14 DEF AcqPoison
  <2>15. CASE AcqServing(t)
    BY <1>p, <1>s, <1>t, <1>u, <2>15 DEF AcqServing
  <2>16. CASE AcqAwait(t)
    BY <1>p, <1>s, <1>t, <1>u, <2>16 DEF AcqAwait
  <2>17. CASE Write(t)
    BY <1>p, <1>s, <1>t, <1>u, <2>17 DEF Write
  <2>18. CASE WriteFails(t)
    BY <1>p, <1>s, <1>t, <1>u, <2>18 DEF WriteFails, FailsTo, Draining
  <2>19. CASE Poison(t)
    BY <1>p, <1>s, <1>t, <1>u, <2>19 DEF Poison
  <2>20. CASE PoisonWake(t)
    BY <1>p, <1>s, <1>t, <1>u, <2>20 DEF PoisonWake
  <2>21. CASE Release(t)
    BY <1>p, <1>s, <1>t, <1>u, <2>21 DEF Release
  <2>22. CASE ReleaseWake(t)
    BY <1>p, <1>s, <1>t, <1>u, <2>22 DEF ReleaseWake, AfterRelease
  <2>23. CASE CancelWaiting(t)
    BY <1>p, <1>s, <1>t, <1>u, <2>23 DEF CancelWaiting
  <2>24. CASE CancelWriting(t)
    BY <1>p, <1>s, <1>t, <1>u, <2>24 DEF CancelWriting, FailsTo, Draining
  <2> QED
    BY <1>2, <2>1, <2>2, <2>3, <2>4, <2>5, <2>6, <2>7, <2>8, <2>9, <2>10,
       <2>11, <2>12, <2>13, <2>14, <2>15, <2>16, <2>17, <2>18, <2>19, <2>20,
       <2>21, <2>22, <2>23, <2>24 DEF TaskNext, Step, Decide
<1> QED
  BY <1>1, <1>2 DEF Next

(* A poisoned session stays poisoned.                                      *)
LEMMA PoisonStays ==
  ASSUME poisoned, [Next]_vars
  PROVE  poisoned'
<1>1. CASE UNCHANGED vars
  BY <1>1 DEF vars
<1>2. ASSUME NEW t \in Tasks, TaskNext(t)
      PROVE  poisoned'
  <2>1. CASE TakeTicket(t)
    BY <2>1 DEF TakeTicket
  <2>2. CASE Claim(t)
    BY <2>2 DEF Claim
  <2>3. CASE DropDecoded(t)
    BY <2>3 DEF DropDecoded
  <2>4. CASE DropWake(t)
    BY <2>4 DEF DropWake
  <2>5. CASE DropUndecoded(t)
    BY <2>5 DEF DropUndecoded
  <2>6. CASE DrainLoad(t)
    BY <2>6 DEF DrainLoad
  <2>7. CASE DrainTake(t)
    BY <2>7 DEF DrainTake
  <2>8. CASE Turn(t)
    BY <2>8 DEF Turn
  <2>9. CASE Enable(t)
    BY <2>9 DEF Enable
  <2>10. CASE CheckPoison(t)
    BY <2>10 DEF CheckPoison
  <2>11. CASE CheckTurn(t)
    BY <2>11 DEF CheckTurn
  <2>12. CASE Await(t)
    BY <2>12 DEF Await
  <2>13. CASE AcqEnable(t)
    BY <2>13 DEF AcqEnable
  <2>14. CASE AcqPoison(t)
    BY <2>14 DEF AcqPoison
  <2>15. CASE AcqServing(t)
    BY <2>15 DEF AcqServing
  <2>16. CASE AcqAwait(t)
    BY <2>16 DEF AcqAwait
  <2>17. CASE Write(t)
    BY <2>17 DEF Write
  <2>18. CASE WriteFails(t)
    BY <2>18 DEF WriteFails, FailsTo, Draining
  <2>19. CASE Poison(t)
    BY <2>19 DEF Poison
  <2>20. CASE PoisonWake(t)
    BY <2>20 DEF PoisonWake
  <2>21. CASE Release(t)
    BY <2>21 DEF Release
  <2>22. CASE ReleaseWake(t)
    BY <2>22 DEF ReleaseWake, AfterRelease
  <2>23. CASE CancelWaiting(t)
    BY <2>23 DEF CancelWaiting
  <2>24. CASE CancelWriting(t)
    BY <2>24 DEF CancelWriting, FailsTo, Draining
  <2> QED
    BY <1>2, <2>1, <2>2, <2>3, <2>4, <2>5, <2>6, <2>7, <2>8, <2>9, <2>10,
       <2>11, <2>12, <2>13, <2>14, <2>15, <2>16, <2>17, <2>18, <2>19, <2>20,
       <2>21, <2>22, <2>23, <2>24 DEF TaskNext, Step, Decide
<1> QED
  BY <1>1, <1>2 DEF Next

(* A task that waits at the writer is behind the counter or at it, and a   *)
(* message that a task drains belongs to a request that was dropped.       *)
TurnInv ==
  half = "writer" =>
    /\ \A t \in Tasks :
         Claims(t) \/ pc[t] = "drain_take" => want[t] <= currentServing
    /\ \A k \in autoFailures : DroppedRequest(k)
    /\ \A t \in Tasks : Claims(t) /\ Draining(t) => DroppedRequest(want[t])

Broken(i) == ~wire[i].whole /\ ~DroppedRequest(wire[i].ticket)

(* When the last message was cut short by its own call, nobody writes and  *)
(* nobody who passed the poison check will have a turn: the flag is set    *)
(* before the turn goes on.                                                *)
BrokenInv ==
  half = "writer" =>
    /\ \A i \in 1..Len(wire) : Broken(i) => i = Len(wire)
    /\ Len(wire) > 0 /\ Broken(Len(wire)) =>
         /\ poisoned \/ \E t \in Tasks : pc[t] = "poison_held"
         /\ \A u \in Tasks : pc[u] # "hold"
         /\ \A u \in Tasks : pc[u] = "acq_serving" => want[u] < Len(wire)


(* The turns of the tasks at the writer are kept.                          *)
LEMMA TurnStep ==
  ASSUME Inv, TurnInv, [Next]_vars
  PROVE  TurnInv'
<1>d. \A k : DroppedRequest(k) => DroppedRequest(k)'
  BY DroppedStays
<1>t. /\ half \in {"writer", "reader"} /\ currentServing \in Nat
      /\ autoFailures \in SUBSET Nat
      /\ pc \in [Tasks -> Steps] /\ ticket \in [Tasks -> Nat]
      /\ want \in [Tasks -> Nat]
      /\ \A t \in Tasks : pc[t] \in {"turn", "check_turn"} => want[t] = ticket[t]
  BY DEF Inv, TypeOK, ClaimInv
<1> USE DEF TurnInv, Claims, Draining, AcquireSteps, GuardSteps, At, Goto
<1>1. CASE UNCHANGED vars
  BY <1>d, <1>1 DEF vars
<1>2. ASSUME NEW t \in Tasks, TaskNext(t)
      PROVE  TurnInv'
  <2>1. CASE TakeTicket(t)
    BY <1>d, <1>t, <2>1 DEF TakeTicket
  <2>2. CASE Claim(t)
    BY <1>d, <1>t, <2>2 DEF Claim
  <2>3. CASE DropDecoded(t)
    <3>1. DroppedRequest(ticket[t])'
      BY <1>t, <2>3 DEF DropDecoded, DroppedRequest
    <3> QED
      BY <1>d, <1>t, <3>1, <2>3 DEF DropDecoded
  <2>4. CASE DropWake(t)
    BY <1>d, <1>t, <2>4 DEF DropWake
  <2>5. CASE DropUndecoded(t)
    BY <1>d, <1>t, <2>5 DEF DropUndecoded
  <2>6. CASE DrainLoad(t)
    BY <1>d, <1>t, <2>6 DEF DrainLoad
  <2>7. CASE DrainTake(t)
    BY ZenonT(30), <1>d, <1>t, <2>7 DEF DrainTake
  <2>8. CASE Turn(t)
    BY <1>d, <1>t, <2>8 DEF Turn
  <2>9. CASE Enable(t)
    BY <1>d, <1>t, <2>9 DEF Enable
  <2>10. CASE CheckPoison(t)
    BY <1>d, <1>t, <2>10 DEF CheckPoison
  <2>11. CASE CheckTurn(t)
    BY <1>d, <1>t, <2>11 DEF CheckTurn
  <2>12. CASE Await(t)
    BY <1>d, <1>t, <2>12 DEF Await
  <2>13. CASE AcqEnable(t)
    BY <1>d, <1>t, <2>13 DEF AcqEnable
  <2>14. CASE AcqPoison(t)
    BY <1>d, <1>t, <2>14 DEF AcqPoison
  <2>15. CASE AcqServing(t)
    BY <1>d, <1>t, <2>15 DEF AcqServing
  <2>16. CASE AcqAwait(t)
    BY <1>d, <1>t, <2>16 DEF AcqAwait
  <2>17. CASE Write(t)
    BY <1>d, <1>t, <2>17 DEF Write
  <2>18. CASE WriteFails(t)
    BY <1>d, <1>t, <2>18 DEF WriteFails, FailsTo, Draining
  <2>19. CASE Poison(t)
    BY <1>d, <1>t, <2>19 DEF Poison
  <2>20. CASE PoisonWake(t)
    BY <1>d, <1>t, <2>20 DEF PoisonWake
  <2>21. CASE Release(t)
    BY <1>d, <1>t, <2>21 DEF Release
  <2>22. CASE ReleaseWake(t)
    BY <1>d, <1>t, <2>22 DEF ReleaseWake, AfterRelease
  <2>23. CASE CancelWaiting(t)
    BY <1>d, <1>t, <2>23 DEF CancelWaiting
  <2>24. CASE CancelWriting(t)
    BY <1>d, <1>t, <2>24 DEF CancelWriting, FailsTo, Draining
  <2> QED
    BY <1>2, <2>1, <2>2, <2>3, <2>4, <2>5, <2>6, <2>7, <2>8, <2>9, <2>10,
       <2>11, <2>12, <2>13, <2>14, <2>15, <2>16, <2>17, <2>18, <2>19, <2>20,
       <2>21, <2>22, <2>23, <2>24 DEF TaskNext, Step, Decide
<1> QED
  BY <1>1, <1>2 DEF Next

(* A message cut short by its own call stays the last one.                 *)
LEMMA BrokenStep ==
  ASSUME Inv, WireInv, TurnInv, BrokenInv, [Next]_vars
  PROVE  BrokenInv'
<1>t. /\ half \in {"writer", "reader"} /\ currentServing \in Nat
      /\ pc \in [Tasks -> Steps] /\ want \in [Tasks -> Nat]
      /\ wire \in Seq(Message) /\ Len(wire) \in Nat /\ poisoned \in BOOLEAN
  BY DEF Inv, TypeOK
<1>b. \A i : wire'[i] = wire[i] /\ Broken(i)' => Broken(i)
  BY DroppedStays DEF Broken
<1> USE DEF At, Goto
<1>1. CASE UNCHANGED vars
  BY <1>t, <1>b, <1>1 DEF vars, BrokenInv
<1>2. ASSUME NEW t \in Tasks, TaskNext(t)
      PROVE  BrokenInv'
  <2>same. ASSUME UNCHANGED <<half, wire>>, poisoned => poisoned',
                  \A u \in Tasks : pc'[u] = "hold" => pc[u] = "hold",
                  \A u \in Tasks : pc'[u] = "acq_serving" =>
                                     pc[u] = "acq_serving" /\ want'[u] = want[u],
                  \A u \in Tasks : pc[u] = "poison_held" =>
                                     pc'[u] = "poison_held" \/ poisoned'
           PROVE  BrokenInv'
    BY <1>t, <1>b, <2>same DEF BrokenInv
  <2>message. ASSUME At(t, "hold"), UNCHANGED <<half, want, currentServing>>,
                     NEW whole \in BOOLEAN,
                     wire' = Append(wire, [ticket |-> want[t], whole |-> whole]),
                     pc' \in {[pc EXCEPT ![t] = "release"],
                              [pc EXCEPT ![t] = "poison_held"]},
                     whole \/ Draining(t) \/ half = "reader" \/ pc'[t] = "poison_held"
              PROVE  BrokenInv'
    <3> SUFFICES ASSUME half = "writer" PROVE BrokenInv'
      BY <2>message DEF BrokenInv
    <3>1. /\ Len(wire') = Len(wire) + 1
          /\ \A i \in 1..Len(wire) : wire'[i] = wire[i]
          /\ wire'[Len(wire) + 1] = [ticket |-> want[t], whole |-> whole]
      BY <1>t, <2>message
    <3>2. \A i \in 1..Len(wire) : ~Broken(i)
      BY <1>t, <2>message DEF BrokenInv
    <3>3. \A i \in 1..Len(wire) : ~Broken(i)'
      BY <1>b, <3>1, <3>2
    <3>4. \A u \in Tasks : Holding(u) => u = t
      BY <2>message DEF Inv, GuardInv, ClaimInv, Claims, Holding, GuardSteps
    <3>5. Len(wire) = currentServing
      BY <2>message, <3>4 DEF WireInv, Written, Holding, GuardSteps
    <3>6. ASSUME NEW i, i = Len(wire) + 1, Broken(i)'
          PROVE  pc'[t] = "poison_held"
      <4>1. ~whole
        BY <3>1, <3>6 DEF Broken
      <4>2. ASSUME NEW k, k = want[t] PROVE ~DroppedRequest(k)'
        BY <3>1, <3>6, <4>2 DEF Broken
      <4>3. ~Draining(t)
        BY <2>message, <4>2, DroppedStays DEF TurnInv, Claims, GuardSteps
      <4> QED
        BY <2>message, <4>1, <4>3
    <3>7. \A u \in Tasks : pc'[u] # "hold"
      BY <1>t, <2>message, <3>4 DEF Holding, GuardSteps
    <3>8. \A u \in Tasks : pc'[u] = "acq_serving" => want'[u] < Len(wire')
      BY <1>t, <2>message, <3>1, <3>5 DEF TurnInv, Claims, AcquireSteps
    <3> QED
      BY <1>t, <2>message, <3>1, <3>3, <3>6, <3>7, <3>8 DEF BrokenInv
  <2>1. CASE TakeTicket(t)
    BY <2>same, <1>t, <2>1 DEF TakeTicket
  <2>2. CASE Claim(t)
    BY <2>same, <1>t, <2>2 DEF Claim
  <2>3. CASE DropDecoded(t)
    BY <2>same, <1>t, <2>3 DEF DropDecoded
  <2>4. CASE DropWake(t)
    BY <2>same, <1>t, <2>4 DEF DropWake
  <2>5. CASE DropUndecoded(t)
    BY <2>same, <1>t, <2>5 DEF DropUndecoded
  <2>6. CASE DrainLoad(t)
    BY <2>same, <1>t, <2>6 DEF DrainLoad
  <2>7. CASE DrainTake(t)
    BY <2>same, <1>t, <2>7 DEF DrainTake
  <2>8. CASE Turn(t)
    BY <2>same, <1>t, <2>8 DEF Turn
  <2>9. CASE Enable(t)
    BY <2>same, <1>t, <2>9 DEF Enable
  <2>10. CASE CheckPoison(t)
    BY <2>same, <1>t, <2>10 DEF CheckPoison
  <2>11. CASE CheckTurn(t)
    BY <2>same, <1>t, <2>11 DEF CheckTurn
  <2>12. CASE Await(t)
    BY <2>same, <1>t, <2>12 DEF Await
  <2>13. CASE AcqEnable(t)
    BY <2>same, <1>t, <2>13 DEF AcqEnable
  <2>14. CASE AcqPoison(t)
    <3>1. CASE poisoned
      BY <2>same, <1>t, <3>1, <2>14 DEF AcqPoison
    <3>2. CASE ~poisoned
      <4>1. pc' = [pc EXCEPT ![t] = "acq_serving"] /\ UNCHANGED <<half, want, wire, poisoned>>
        BY <3>2, <2>14 DEF AcqPoison
      <4>2. half = "writer" => want[t] <= currentServing
        BY <2>14 DEF AcqPoison, TurnInv, Claims, AcquireSteps
      <4>3. ASSUME NEW w \in Tasks, pc[w] = "poison_held"
            PROVE  Len(wire) = currentServing + 1
        BY <4>3 DEF WireInv, Written
      <4> QED
        BY <1>t, <1>b, <3>2, <4>1, <4>2, <4>3, <2>14 DEF BrokenInv, AcqPoison
    <3> QED
      BY <3>1, <3>2
  <2>15. CASE AcqServing(t)
    <3>1. CASE currentServing # want[t]
      BY <2>same, <1>t, <3>1, <2>15 DEF AcqServing
    <3>2. CASE currentServing = want[t]
      <4>1. ASSUME NEW w \in Tasks, Written(w) PROVE FALSE
        BY <1>t, <3>2, <4>1, <2>15 DEF AcqServing, Inv, GuardInv, ClaimInv, Claims,
           Holding, GuardSteps, AcquireSteps, Written
      <4>2. Len(wire) = want[t]
        BY <3>2, <4>1 DEF WireInv
      <4>3. half = "writer" /\ Len(wire) > 0 => ~Broken(Len(wire))
        BY <1>t, <4>2, <2>15 DEF AcqServing, BrokenInv
      <4>4. wire' = wire /\ half' = half
        BY <2>15 DEF AcqServing
      <4> QED
        BY <1>t, <1>b, <4>3, <4>4 DEF BrokenInv
    <3> QED
      BY <3>1, <3>2
  <2>16. CASE AcqAwait(t)
    BY <2>same, <1>t, <2>16 DEF AcqAwait
  <2>17. CASE Write(t)
    BY <1>t, <2>message, <2>17 DEF Write
  <2>18. CASE WriteFails(t)
    BY <1>t, <2>message, <2>18 DEF WriteFails, FailsTo
  <2>19. CASE Poison(t)
    BY <2>same, <1>t, <2>19 DEF Poison
  <2>20. CASE PoisonWake(t)
    BY <2>same, <1>t, <2>20 DEF PoisonWake
  <2>21. CASE Release(t)
    BY <2>same, <1>t, <2>21 DEF Release
  <2>22. CASE ReleaseWake(t)
    BY <2>same, <1>t, <2>22 DEF ReleaseWake, AfterRelease
  <2>23. CASE CancelWaiting(t)
    BY <2>same, <1>t, <2>23 DEF CancelWaiting
  <2>24. CASE CancelWriting(t)
    BY <1>t, <2>message, <2>24 DEF CancelWriting, FailsTo
  <2> QED
    BY <1>2, <2>1, <2>2, <2>3, <2>4, <2>5, <2>6, <2>7, <2>8, <2>9, <2>10,
       <2>11, <2>12, <2>13, <2>14, <2>15, <2>16, <2>17, <2>18, <2>19, <2>20,
       <2>21, <2>22, <2>23, <2>24 DEF TaskNext, Step, Decide
<1> QED
  BY <1>1, <1>2 DEF Next

(* For any number of calls and dropped requests: at the writer, a message  *)
(* that a call itself cut short is the last thing on the stream.           *)
THEOREM NothingFollowsBroken == Spec => []NothingAfterBroken
<1>1. Init => WireInv /\ TurnInv /\ BrokenInv
  BY DEF Init, WireInv, WireFollowsTickets, Written, TurnInv, BrokenInv, Claims,
         AcquireSteps, GuardSteps
<1>2. Inv /\ WireInv /\ TurnInv /\ BrokenInv /\ [Next]_vars
        => (WireInv /\ TurnInv /\ BrokenInv)'
  BY WireStep, TurnStep, BrokenStep
<1>3. BrokenInv => NothingAfterBroken
  BY DEF BrokenInv, Broken, NothingAfterBroken
<1> QED
  BY <1>1, <1>2, <1>3, Invariance, PTL DEF Spec
-----------------------------------------------------------------------------
(* A task that has the poison check ahead, or is past all use of the       *)
(* stream.                                                                 *)
ShutOut(t) == poisoned /\ pc[t] \notin {"acq_serving"} \cup GuardSteps

(* In a poisoned session nobody is let in any more.                        *)
LEMMA ShutOutStep ==
  ASSUME Inv, [Next]_vars, NEW v \in Tasks, ShutOut(v)
  PROVE  ShutOut(v)'
<1>p. poisoned'
  BY PoisonStays DEF ShutOut
<1>t. pc \in [Tasks -> Steps]
  BY DEF Inv, TypeOK
<1> USE DEF ShutOut, GuardSteps, At, Goto
<1>1. CASE UNCHANGED vars
  BY <1>1 DEF vars
<1>2. ASSUME NEW t \in Tasks, TaskNext(t)
      PROVE  ShutOut(v)'
  <2>1. CASE TakeTicket(t)
    BY <1>p, <1>t, <2>1 DEF TakeTicket
  <2>2. CASE Claim(t)
    BY <1>p, <1>t, <2>2 DEF Claim
  <2>3. CASE DropDecoded(t)
    BY <1>p, <1>t, <2>3 DEF DropDecoded
  <2>4. CASE DropWake(t)
    BY <1>p, <1>t, <2>4 DEF DropWake
  <2>5. CASE DropUndecoded(t)
    BY <1>p, <1>t, <2>5 DEF DropUndecoded
  <2>6. CASE DrainLoad(t)
    BY <1>p, <1>t, <2>6 DEF DrainLoad
  <2>7. CASE DrainTake(t)
    BY <1>p, <1>t, <2>7 DEF DrainTake
  <2>8. CASE Turn(t)
    BY <1>p, <1>t, <2>8 DEF Turn
  <2>9. CASE Enable(t)
    BY <1>p, <1>t, <2>9 DEF Enable
  <2>10. CASE CheckPoison(t)
    BY <1>p, <1>t, <2>10 DEF CheckPoison
  <2>11. CASE CheckTurn(t)
    BY <1>p, <1>t, <2>11 DEF CheckTurn
  <2>12. CASE Await(t)
    BY <1>p, <1>t, <2>12 DEF Await
  <2>13. CASE AcqEnable(t)
    BY <1>p, <1>t, <2>13 DEF AcqEnable
  <2>14. CASE AcqPoison(t)
    BY <1>p, <1>t, <2>14 DEF AcqPoison
  <2>15. CASE AcqServing(t)
    BY <1>p, <1>t, <2>15 DEF AcqServing
  <2>16. CASE AcqAwait(t)
    BY <1>p, <1>t, <2>16 DEF AcqAwait
  <2>17. CASE Write(t)
    BY <1>p, <1>t, <2>17 DEF Write
  <2>18. CASE WriteFails(t)
    BY <1>p, <1>t, <2>18 DEF WriteFails, FailsTo, Draining
  <2>19. CASE Poison(t)
    BY <1>p, <1>t, <2>19 DEF Poison
  <2>20. CASE PoisonWake(t)
    BY <1>p, <1>t, <2>20 DEF PoisonWake
  <2>21. CASE Release(t)
    BY <1>p, <1>t, <2>21 DEF Release
  <2>22. CASE ReleaseWake(t)
    BY <1>p, <1>t, <2>22 DEF ReleaseWake, AfterRelease
  <2>23. CASE CancelWaiting(t)
    BY <1>p, <1>t, <2>23 DEF CancelWaiting
  <2>24. CASE CancelWriting(t)
    BY <1>p, <1>t, <2>24 DEF CancelWriting, FailsTo, Draining
  <2> QED
    BY <1>2, <2>1, <2>2, <2>3, <2>4, <2>5, <2>6, <2>7, <2>8, <2>9, <2>10,
       <2>11, <2>12, <2>13, <2>14, <2>15, <2>16, <2>17, <2>18, <2>19, <2>20,
       <2>21, <2>22, <2>23, <2>24 DEF TaskNext, Step, Decide
<1> QED
  BY <1>1, <1>2 DEF Next

(* Poison is final for every task that has not passed the check by then,   *)
(* for any number of tasks and any wake-ups.                               *)
THEOREM Poisoned == Spec => PoisonIsFinal
<1> SUFFICES ASSUME NEW t \in Tasks
             PROVE  Spec => [](poisoned /\ pc[t] \in BeforePoisonCheck
                                 => [](~Holding(t)))
  BY DEF PoisonIsFinal
<1>1. poisoned /\ pc[t] \in BeforePoisonCheck => ShutOut(t)
  BY DEF ShutOut, BeforePoisonCheck, WriterSteps, GuardSteps
<1>2. Inv /\ ShutOut(t) /\ [Next]_vars => ShutOut(t)'
  BY ShutOutStep
<1>3. ShutOut(t) => ~Holding(t)
  BY DEF ShutOut, Holding, GuardSteps
<1> QED
  BY <1>1, <1>2, <1>3, Invariance, PTL DEF Spec
=============================================================================
