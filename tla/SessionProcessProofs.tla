------------------------- MODULE SessionProcessProofs -------------------------
(***************************************************************************)
(* Proofs about SessionProcess, for run_piped and run_pty and any bounds   *)
(* on output and input.                                                    *)
(***************************************************************************)
EXTENDS SessionProcess, FiniteSetTheorems, SequenceTheorems, TLAPS

Terminating == {"terminate", "hup", "term", "kill"}
Completing == {"eof", "close", "flush"}

(* Where the command is, seen from run_piped and run_pty: it does not      *)
(* exist before them, and the exit is reported only when it was reaped.    *)
ChildInv ==
  /\ main = "start" => child = None /\ input = None /\ done = {} /\ out = <<>>
  /\ main \in Relaying => child # None
  /\ main \in {"notify"} \cup Completing => child = "reaped"
  /\ noticed \/ result = "ok" => child = "reaped"
  /\ main \in Completing => noticed
  /\ main \in {"notify", "wait"} => ~noticed
  /\ main \in {"start"} \cup Relaying => result = None
  /\ main \in {"stop", "join"} \cup Terminating => result # None

(* The input relay is over when terminate() begins, and the master stays   *)
(* open as long as that relay can use it.                                  *)
InputInv ==
  /\ main \in Terminating => input = "done"
  /\ main = "done" => input \in {None, "done"}
  /\ input = "resize" => Pty
  /\ Pty /\ main \in {"start", "stop", "join"} \cup Relaying => master

(* What has been said of the end, by where the writer of the channel is.   *)
Said(e) == \E i \in 1..Len(out) : out[i] = e
SaidInv ==
  /\ Said("exit") => noticed
  /\ noticed => Said("exit")
  /\ Said("eof") => main \notin {"start", "relay", "write", "notify", "wait", "eof"}
  /\ Said("close") =>
       main \notin {"start", "relay", "write", "notify", "wait", "eof", "close"}

(* A pipe is done when it is empty and nobody can write to it, and every   *)
(* chunk is in its pipe, in the buffer or on its way to the client.        *)
Relayed(p) == Cardinality({i \in 1..Len(out) : out[i] = p})
Buffered(p) == IF held = p THEN 1 ELSE 0
PipeInv ==
  /\ \A p \in Pipes : unread[p] <= produced[p]
  /\ \A p \in done : unread[p] = 0
  /\ done # {} => child \in {"zombie", "reaped"} /\ descendant # "alive"
  /\ main \in {"wait"} \cup Completing \/ result = "ok" => done = Pipes
  /\ main \in {"start"} \cup Relaying \/ result = "ok" =>
       \A p \in Pipes : produced[p] = unread[p] + Buffered(p) + Relayed(p)

Inv == /\ ChildAccountedFor /\ NoStrayUse /\ CompletionOrder
       /\ ChildInv /\ InputInv /\ SaidInv /\ PipeInv
-----------------------------------------------------------------------------
(* The types are kept; for the chunks in a pipe this rests on their number *)
(* being at most that of the chunks written to it.                         *)
LEMMA TypeStep ==
  ASSUME TypeOK, PipeInv, [Next]_vars
  PROVE  TypeOK'
<1> USE ProcessAssumption DEF TypeOK, Pipes, AllPipes, Pty, None, Relaying,
        Ending, Over, kernel, tokens, pipes, relay
<1>1. ASSUME NEW p \in Pipes, Produce(p)
      PROVE  TypeOK'
  BY SMTT(30), <1>1 DEF Produce, PipeInv
<1>2. ASSUME NEW p \in Pipes, ReadOutput(p)
      PROVE  TypeOK'
  BY <1>2 DEF ReadOutput, PipeInv
<1>3. ASSUME NEW p \in Pipes, ReadEnd(p)
      PROVE  TypeOK'
  BY <1>3 DEF ReadEnd, WritersGone
<1>4. CASE Fork
  BY <1>4 DEF Fork
<1>5. CASE ChildExits
  BY <1>5 DEF ChildExits
<1>6. CASE DescendantExits
  BY <1>6 DEF DescendantExits
<1>7. CASE OrphanReaped
  BY <1>7 DEF OrphanReaped
<1>8. CASE Spawn
  BY <1>8 DEF Spawn
<1>9. CASE SpawnFails
  BY ZenonT(30), <1>9 DEF SpawnFails
<1>10. CASE SetupFails
  BY <1>10 DEF SetupFails
<1>11. CASE RelayEnd
  BY <1>11 DEF RelayEnd
<1>12. CASE Reap
  BY <1>12 DEF Reap
<1>13. CASE SendData
  BY <1>13 DEF SendData
<1>14. CASE SendExit
  BY <1>14 DEF SendExit
<1>15. CASE SendEof
  BY <1>15 DEF SendEof
<1>16. CASE SendClose
  BY <1>16 DEF SendClose
<1>17. CASE Flush
  BY <1>17 DEF Flush
<1>18. CASE RelayFails
  BY <1>18 DEF RelayFails
<1>19. CASE Cancelled
  BY <1>19 DEF Cancelled
<1>20. CASE StopInput
  BY <1>20 DEF StopInput
<1>21. CASE JoinInput
  BY <1>21 DEF JoinInput
<1>22. CASE Finished(Terminating)
  BY ZenonT(30), <1>22 DEF Finished, Terminating
<1>23. ASSUME NEW from \in Terminating, NEW to \in Terminating, Escalate(from, to)
       PROVE  TypeOK'
  BY <1>23 DEF Escalate, Deliver, GroupExists, Terminating
<1>24. CASE Abort
  BY ZenonT(30), <1>24 DEF Abort, DropProcess, Deliver, GroupExists
<1>25. CASE ShutDown
  BY <1>25 DEF ShutDown
<1>26. CASE InputStop
  BY <1>26 DEF InputStop
<1>27. CASE InputEvent
  BY <1>27 DEF InputEvent
<1>28. CASE Copy
  BY <1>28 DEF Copy
<1>29. CASE PayloadFails
  BY <1>29 DEF PayloadFails
<1>30. CASE HandleSignal
  BY <1>30 DEF HandleSignal, Deliver, GroupExists
<1>31. CASE HandleResize
  BY <1>31 DEF HandleResize
<1>32. CASE UNCHANGED vars
  BY <1>32 DEF vars
<1> HIDE DEF TypeOK, Pipes, AllPipes
<1> QED
  BY <1>1, <1>2, <1>3, <1>4, <1>5, <1>6, <1>7, <1>8, <1>9, <1>10, <1>11,
     <1>12, <1>13, <1>14, <1>15, <1>16, <1>17, <1>18, <1>19, <1>20, <1>21,
     <1>22, <1>23, <1>24, <1>25, <1>26, <1>27, <1>28, <1>29, <1>30, <1>31,
     <1>32 DEF Next, ReadPipe, Write, Terminate, Terminating

(* The command stays accounted for, whoever reaps or kills it.             *)
LEMMA ChildStep ==
  ASSUME ChildAccountedFor, ChildInv, InputInv, PipeInv, [Next]_vars
  PROVE  ChildAccountedFor' /\ ChildInv'
<1> DEFINE Goal == ChildAccountedFor /\ ChildInv
<1>t. TypeOK /\ TypeOK'
  BY TypeStep DEF ChildAccountedFor
<1> USE <1>t, ProcessAssumption DEF Goal, ChildAccountedFor, ChildInv, InputInv, PipeInv, TypeOK, Pipes, Pty,
        None, Relaying, Ending, Over, Terminating, Completing, kernel, tokens, relay
<1>1. ASSUME NEW p \in Pipes, Produce(p)
      PROVE  Goal'
  BY <1>1 DEF Produce
<1>2. ASSUME NEW p \in Pipes, ReadOutput(p)
      PROVE  Goal'
  BY <1>2 DEF ReadOutput
<1>3. ASSUME NEW p \in Pipes, ReadEnd(p)
      PROVE  Goal'
  BY <1>3 DEF ReadEnd, WritersGone
<1>4. CASE Fork
  BY <1>4 DEF Fork
<1>5. CASE ChildExits
  BY <1>5 DEF ChildExits
<1>6. CASE DescendantExits
  BY <1>6 DEF DescendantExits
<1>7. CASE OrphanReaped
  BY <1>7 DEF OrphanReaped
<1>8. CASE Spawn
  BY <1>8 DEF Spawn
<1>9. CASE SpawnFails
  BY <1>9 DEF SpawnFails
<1>10. CASE SetupFails
  BY <1>10 DEF SetupFails
<1>11. CASE RelayEnd
  BY <1>11 DEF RelayEnd
<1>12. CASE Reap
  BY <1>12 DEF Reap
<1>13. CASE SendData
  BY <1>13 DEF SendData
<1>14. CASE SendExit
  BY <1>14 DEF SendExit
<1>15. CASE SendEof
  BY <1>15 DEF SendEof
<1>16. CASE SendClose
  BY <1>16 DEF SendClose
<1>17. CASE Flush
  BY <1>17 DEF Flush
<1>18. CASE RelayFails
  BY <1>18 DEF RelayFails
<1>19. CASE Cancelled
  BY <1>19 DEF Cancelled
<1>20. CASE StopInput
  BY <1>20 DEF StopInput
<1>21. CASE JoinInput
  BY <1>21 DEF JoinInput
<1>22. CASE Finished(Terminating)
  BY <1>22 DEF Finished, Terminating
<1>23. ASSUME NEW from \in Terminating, NEW to \in Terminating, Escalate(from, to)
       PROVE  Goal'
  BY <1>23 DEF Escalate, Deliver, GroupExists, Terminating
<1>24. CASE Abort
  BY <1>24 DEF Abort, DropProcess, Deliver, GroupExists
<1>25. CASE ShutDown
  BY <1>25 DEF ShutDown
<1>26. CASE InputStop
  BY <1>26 DEF InputStop
<1>27. CASE InputEvent
  BY <1>27 DEF InputEvent
<1>28. CASE Copy
  BY <1>28 DEF Copy
<1>29. CASE PayloadFails
  BY <1>29 DEF PayloadFails
<1>30. CASE HandleSignal
  BY <1>30 DEF HandleSignal, Deliver, GroupExists
<1>31. CASE HandleResize
  BY <1>31 DEF HandleResize
<1>32. CASE UNCHANGED vars
  BY <1>32 DEF vars
<1> HIDE DEF ChildAccountedFor, ChildInv, InputInv, PipeInv, TypeOK, Pipes
<1> QED
  BY <1>1, <1>2, <1>3, <1>4, <1>5, <1>6, <1>7, <1>8, <1>9, <1>10, <1>11,
     <1>12, <1>13, <1>14, <1>15, <1>16, <1>17, <1>18, <1>19, <1>20, <1>21,
     <1>22, <1>23, <1>24, <1>25, <1>26, <1>27, <1>28, <1>29, <1>30, <1>31,
     <1>32 DEF Next, ReadPipe, Write, Terminate, Terminating, Goal

(* The input relay stays inside the lifetime of the master descriptor, and *)
(* the owner signals no group that is gone.                                *)
LEMMA InputStep ==
  ASSUME ChildAccountedFor, NoStrayUse, ChildInv, InputInv, [Next]_vars
  PROVE  NoStrayUse' /\ InputInv'
<1> DEFINE Goal == NoStrayUse /\ InputInv
<1> USE DEF Goal, ChildAccountedFor, NoStrayUse, ChildInv, InputInv, TypeOK,
        Pty, None, Relaying, Ending, Over, Terminating, Completing, kernel,
        tokens
<1>1. ASSUME NEW p \in Pipes, Produce(p)
      PROVE  Goal'
  BY <1>1 DEF Produce
<1>2. ASSUME NEW p \in Pipes, ReadOutput(p)
      PROVE  Goal'
  BY <1>2 DEF ReadOutput
<1>3. ASSUME NEW p \in Pipes, ReadEnd(p)
      PROVE  Goal'
  BY <1>3 DEF ReadEnd, WritersGone
<1>4. CASE Fork
  BY <1>4 DEF Fork
<1>5. CASE ChildExits
  BY <1>5 DEF ChildExits
<1>6. CASE DescendantExits
  BY <1>6 DEF DescendantExits
<1>7. CASE OrphanReaped
  BY <1>7 DEF OrphanReaped
<1>8. CASE Spawn
  BY <1>8 DEF Spawn
<1>9. CASE SpawnFails
  BY <1>9 DEF SpawnFails
<1>10. CASE SetupFails
  BY <1>10 DEF SetupFails
<1>11. CASE RelayEnd
  BY <1>11 DEF RelayEnd
<1>12. CASE Reap
  BY <1>12 DEF Reap
<1>13. CASE SendData
  BY <1>13 DEF SendData
<1>14. CASE SendExit
  BY <1>14 DEF SendExit
<1>15. CASE SendEof
  BY <1>15 DEF SendEof
<1>16. CASE SendClose
  BY <1>16 DEF SendClose
<1>17. CASE Flush
  BY <1>17 DEF Flush
<1>18. CASE RelayFails
  BY <1>18 DEF RelayFails
<1>19. CASE Cancelled
  BY <1>19 DEF Cancelled
<1>20. CASE StopInput
  BY <1>20 DEF StopInput
<1>21. CASE JoinInput
  BY <1>21 DEF JoinInput
<1>22. CASE Finished(Terminating)
  BY <1>22 DEF Finished, Terminating
<1>23. ASSUME NEW from \in Terminating, NEW to \in Terminating, Escalate(from, to)
       PROVE  Goal'
  BY <1>23 DEF Escalate, Deliver, GroupExists, Terminating
<1>24. CASE Abort
  BY <1>24 DEF Abort, DropProcess, Deliver, GroupExists
<1>25. CASE ShutDown
  BY <1>25 DEF ShutDown
<1>26. CASE InputStop
  BY <1>26 DEF InputStop
<1>27. CASE InputEvent
  BY <1>27 DEF InputEvent
<1>28. CASE Copy
  BY <1>28 DEF Copy
<1>29. CASE PayloadFails
  BY <1>29 DEF PayloadFails
<1>30. CASE HandleSignal
  BY <1>30 DEF HandleSignal, Deliver, GroupExists
<1>31. CASE HandleResize
  BY <1>31 DEF HandleResize
<1>32. CASE UNCHANGED vars
  BY <1>32 DEF vars
<1> HIDE DEF ChildAccountedFor, NoStrayUse, ChildInv, InputInv, TypeOK
<1> QED
  BY <1>1, <1>2, <1>3, <1>4, <1>5, <1>6, <1>7, <1>8, <1>9, <1>10, <1>11,
     <1>12, <1>13, <1>14, <1>15, <1>16, <1>17, <1>18, <1>19, <1>20, <1>21,
     <1>22, <1>23, <1>24, <1>25, <1>26, <1>27, <1>28, <1>29, <1>30, <1>31,
     <1>32 DEF Next, ReadPipe, Write, Terminate, Terminating, Goal
-----------------------------------------------------------------------------
(* What the channel writer has said when it has sent one message more.     *)
LEMMA AppendSaid ==
  ASSUME TypeOK, NEW x, out' = Append(out, x)
  PROVE  /\ Len(out') = Len(out) + 1
         /\ \A i \in 1..Len(out) : out'[i] = out[i]
         /\ out'[Len(out) + 1] = x
         /\ \A e : Said(e)' <=> Said(e) \/ e = x
<1>1. out \in Seq(Pipes \cup {"exit", "eof", "close"})
  BY DEF TypeOK
<1>2. /\ Len(out') = Len(out) + 1 /\ Len(out) \in Nat
      /\ \A i \in 1..Len(out) : out'[i] = out[i]
      /\ out'[Len(out) + 1] = x
  BY <1>1
<1>3. ASSUME NEW e PROVE Said(e)' <=> Said(e) \/ e = x
  BY <1>2 DEF Said
<1> QED BY <1>2, <1>3

(* The order of the completion is kept by a message that may come next.    *)
LEMMA OrderAppend ==
  ASSUME TypeOK, CompletionOrder, NEW x, out' = Append(out, x),
         ~Said("close"), Said("eof") => x = "close",
         x = "exit" => ~Said("exit"), x \in {"eof", "close"} => Said("exit")
  PROVE  CompletionOrder'
<1>1. Len(out) \in Nat
  BY DEF TypeOK
<1>2. ASSUME NEW i \in 1..(Len(out) + 1), NEW j \in 1..(Len(out) + 1), i < j
      PROVE  /\ out'[i] = "exit" => out'[j] # "exit"
             /\ out'[i] = "eof" => out'[j] = "close"
             /\ out'[i] # "close"
  <2>1. i \in 1..Len(out) /\ out'[i] = out[i]
    BY <1>1, <1>2, AppendSaid
  <2>2. CASE j \in 1..Len(out)
    BY <2>1, <2>2, <1>2, AppendSaid DEF CompletionOrder
  <2>3. CASE j = Len(out) + 1
    BY <2>1, <2>3, AppendSaid DEF Said
  <2> QED BY <1>1, <2>2, <2>3
<1>3. ASSUME NEW j \in 1..(Len(out) + 1), out'[j] \in {"eof", "close"}
      PROVE  \E i \in 1..(j - 1) : out'[i] = "exit"
  <2>1. CASE j \in 1..Len(out)
    <3>1. PICK i \in 1..(j - 1) : out[i] = "exit"
      BY <1>3, <2>1, AppendSaid DEF CompletionOrder
    <3>2. out'[i] = "exit"
      BY <1>1, <2>1, <3>1, AppendSaid
    <3> QED BY <3>2
  <2>2. CASE j = Len(out) + 1
    <3>1. PICK i \in 1..Len(out) : out[i] = "exit"
      BY <1>3, <2>2, AppendSaid DEF Said
    <3> QED BY <1>1, <2>2, <3>1, AppendSaid
  <2> QED BY <1>1, <2>1, <2>2
<1> QED BY <1>2, <1>3, AppendSaid DEF CompletionOrder

(* The exit, EOF and Close are said in their order, each by its step.      *)
LEMMA SaidStep ==
  ASSUME TypeOK, CompletionOrder, ChildInv, SaidInv, [Next]_vars
  PROVE  CompletionOrder' /\ SaidInv'
<1> DEFINE Goal == CompletionOrder /\ SaidInv
<1>c. ASSUME out' = out PROVE CompletionOrder' /\ \A e : Said(e)' <=> Said(e)
  BY <1>c DEF CompletionOrder, Said
<1>d. ASSUME NEW p \in Pipes PROVE p \notin {"exit", "eof", "close"}
  BY DEF Pipes
<1> USE DEF Goal, ChildInv, SaidInv, Relaying, Ending, Over, Terminating,
        Completing, kernel, tokens, pipes, relay
<1>1. ASSUME NEW p \in Pipes, Produce(p)
      PROVE  Goal'
  BY <1>c, <1>1 DEF Produce
<1>2. ASSUME NEW p \in Pipes, ReadOutput(p)
      PROVE  Goal'
  BY <1>c, <1>2 DEF ReadOutput
<1>3. ASSUME NEW p \in Pipes, ReadEnd(p)
      PROVE  Goal'
  BY <1>c, <1>3 DEF ReadEnd, WritersGone
<1>4. CASE Fork
  BY <1>c, <1>4 DEF Fork
<1>5. CASE ChildExits
  BY <1>c, <1>5 DEF ChildExits
<1>6. CASE DescendantExits
  BY <1>c, <1>6 DEF DescendantExits
<1>7. CASE OrphanReaped
  BY <1>c, <1>7 DEF OrphanReaped
<1>8. CASE Spawn
  BY <1>c, <1>8 DEF Spawn
<1>9. CASE SpawnFails
  BY <1>c, <1>9 DEF SpawnFails
<1>10. CASE SetupFails
  BY <1>c, <1>10 DEF SetupFails
<1>11. CASE RelayEnd
  BY <1>c, <1>11 DEF RelayEnd
<1>12. CASE Reap
  BY <1>c, <1>12 DEF Reap
<1>13. CASE SendData
  <2>0. held \in Pipes
    BY <1>13 DEF SendData, TypeOK
  <2>1. CompletionOrder'
    BY <1>13, <2>0, <1>d, OrderAppend DEF SendData
  <2>2. SaidInv'
    BY <1>13, <2>0, <1>d, AppendSaid DEF SendData
  <2> QED BY <2>1, <2>2
<1>14. CASE SendExit
  <2>1. CompletionOrder'
    BY <1>14, OrderAppend DEF SendExit
  <2>2. SaidInv'
    BY <1>14, AppendSaid DEF SendExit
  <2> QED BY <2>1, <2>2
<1>15. CASE SendEof
  <2>1. CompletionOrder'
    BY <1>15, OrderAppend DEF SendEof
  <2>2. SaidInv'
    BY <1>15, AppendSaid DEF SendEof
  <2> QED BY <2>1, <2>2
<1>16. CASE SendClose
  <2>1. CompletionOrder'
    BY <1>16, OrderAppend DEF SendClose
  <2>2. SaidInv'
    BY <1>16, AppendSaid DEF SendClose
  <2> QED BY <2>1, <2>2
<1>17. CASE Flush
  BY <1>c, <1>17 DEF Flush
<1>18. CASE RelayFails
  BY <1>c, <1>18 DEF RelayFails
<1>19. CASE Cancelled
  BY <1>c, <1>19 DEF Cancelled
<1>20. CASE StopInput
  BY <1>c, <1>20 DEF StopInput
<1>21. CASE JoinInput
  BY <1>c, <1>21 DEF JoinInput
<1>22. CASE Finished(Terminating)
  BY <1>c, <1>22 DEF Finished, Terminating
<1>23. ASSUME NEW from \in Terminating, NEW to \in Terminating, Escalate(from, to)
       PROVE  Goal'
  BY <1>c, <1>23 DEF Escalate, Deliver, GroupExists, Terminating
<1>24. CASE Abort
  BY <1>c, <1>24 DEF Abort, DropProcess, Deliver, GroupExists
<1>25. CASE ShutDown
  BY <1>c, <1>25 DEF ShutDown
<1>26. CASE InputStop
  BY <1>c, <1>26 DEF InputStop
<1>27. CASE InputEvent
  BY <1>c, <1>27 DEF InputEvent
<1>28. CASE Copy
  BY <1>c, <1>28 DEF Copy
<1>29. CASE PayloadFails
  BY <1>c, <1>29 DEF PayloadFails
<1>30. CASE HandleSignal
  BY <1>c, <1>30 DEF HandleSignal, Deliver, GroupExists
<1>31. CASE HandleResize
  BY <1>c, <1>31 DEF HandleResize
<1>32. CASE UNCHANGED vars
  BY <1>c, <1>32 DEF vars
<1> HIDE DEF CompletionOrder, SaidInv, ChildInv
<1> QED
  BY <1>1, <1>2, <1>3, <1>4, <1>5, <1>6, <1>7, <1>8, <1>9, <1>10, <1>11,
     <1>12, <1>13, <1>14, <1>15, <1>16, <1>17, <1>18, <1>19, <1>20, <1>21,
     <1>22, <1>23, <1>24, <1>25, <1>26, <1>27, <1>28, <1>29, <1>30, <1>31,
     <1>32 DEF Next, ReadPipe, Write, Terminate, Terminating, Goal
-----------------------------------------------------------------------------
(* The relayed chunks can be counted.                                      *)
LEMMA RelayedNat ==
  ASSUME TypeOK, NEW p
  PROVE  Relayed(p) \in Nat /\ IsFiniteSet({i \in 1..Len(out) : out[i] = p})
<1>1. IsFiniteSet(1..Len(out))
  BY FS_Interval DEF TypeOK
<1>2. IsFiniteSet({i \in 1..Len(out) : out[i] = p})
  BY <1>1, FS_Subset
<1> QED BY <1>2, FS_CardinalityType DEF Relayed

(* A message more is one relayed chunk more for the pipe it came from.     *)
LEMMA RelayedAppend ==
  ASSUME TypeOK, NEW x, out' = Append(out, x), NEW p
  PROVE  Relayed(p)' = Relayed(p) + (IF x = p THEN 1 ELSE 0)
<1> DEFINE S == {i \in 1..Len(out) : out[i] = p}
           T == {i \in 1..Len(out') : out'[i] = p}
<1>0. Len(out) \in Nat
  BY DEF TypeOK
<1>1. CASE x = p
  <2>1. T = S \cup {Len(out) + 1}
    BY <1>0, <1>1, AppendSaid
  <2>2. Len(out) + 1 \notin S
    BY <1>0
  <2>3. IsFiniteSet(S)
    BY RelayedNat
  <2> HIDE DEF S, T
  <2>4. Cardinality(T) = Cardinality(S) + 1
    BY <2>1, <2>2, <2>3, FS_AddElement
  <2> USE DEF S, T
  <2> QED BY <1>1, <2>4 DEF Relayed
<1>2. CASE x # p
  <2>1. T = S
    BY <1>0, <1>2, AppendSaid
  <2>2. Relayed(p)' = Cardinality(T) /\ Relayed(p) = Cardinality(S)
    BY DEF Relayed
  <2>3. Relayed(p) \in Nat
    BY RelayedNat
  <2> HIDE DEF S, T
  <2> QED BY <1>2, <2>1, <2>2, <2>3
<1> QED BY <1>1, <1>2

(* No chunk is lost between the pipes and the channel.                     *)
LEMMA PipeStep ==
  ASSUME TypeOK, ChildInv, PipeInv, [Next]_vars
  PROVE  PipeInv'
<1>c. ASSUME out' = out PROVE \A p : Relayed(p)' = Relayed(p)
  BY <1>c DEF Relayed
<1>n. \A p \in Pipes : Relayed(p) \in Nat
  BY RelayedNat
<1>p. Pipes \subseteq AllPipes /\ None \notin Pipes
      /\ \A p \in Pipes : p \notin {"exit", "eof", "close"}
  BY DEF Pipes, AllPipes, None
<1>m. mode' = mode => Pipes' = Pipes
  BY DEF Pipes, Pty
<1> USE <1>p, <1>m, ProcessAssumption DEF TypeOK, ChildInv, PipeInv, Buffered, None,
        Relaying, Ending, Over, Terminating, Completing, kernel, tokens,
        pipes, relay
<1>1. ASSUME NEW p \in Pipes, Produce(p)
      PROVE  PipeInv'
  BY SMTT(30), <1>c, <1>n, <1>1 DEF Produce
<1>2. ASSUME NEW p \in Pipes, ReadOutput(p)
      PROVE  PipeInv'
  BY <1>c, <1>n, <1>2 DEF ReadOutput
<1>3. ASSUME NEW p \in Pipes, ReadEnd(p)
      PROVE  PipeInv'
  BY <1>c, <1>n, <1>3 DEF ReadEnd, WritersGone
<1>4. CASE Fork
  BY <1>c, <1>n, <1>4 DEF Fork
<1>5. CASE ChildExits
  BY <1>c, <1>n, <1>5 DEF ChildExits
<1>6. CASE DescendantExits
  BY <1>c, <1>n, <1>6 DEF DescendantExits
<1>7. CASE OrphanReaped
  BY <1>c, <1>n, <1>7 DEF OrphanReaped
<1>8. CASE Spawn
  BY <1>c, <1>n, <1>8 DEF Spawn
<1>9. CASE SpawnFails
  BY <1>c, <1>n, <1>9 DEF SpawnFails
<1>10. CASE SetupFails
  BY <1>c, <1>n, <1>10 DEF SetupFails
<1>11. CASE RelayEnd
  BY <1>c, <1>n, <1>11 DEF RelayEnd
<1>12. CASE Reap
  BY <1>c, <1>n, <1>12 DEF Reap
<1>13. CASE SendData
  <2>1. \A q \in Pipes : Relayed(q)' = Relayed(q) + Buffered(q)
    BY <1>13, RelayedAppend DEF SendData
  <2>2. \A q \in Pipes : Buffered(q)' = 0
    BY <1>13 DEF SendData
  <2> HIDE DEF Buffered
  <2>3. \A q \in Pipes : Buffered(q) \in Nat
    BY DEF Buffered
  <2> QED BY SMTT(30), <1>13, <1>n, <2>1, <2>2, <2>3 DEF SendData
<1>14. CASE SendExit
  BY <1>14, <1>n, RelayedAppend DEF SendExit
<1>15. CASE SendEof
  BY <1>15, <1>n, RelayedAppend DEF SendEof
<1>16. CASE SendClose
  BY <1>16, <1>n, RelayedAppend DEF SendClose
<1>17. CASE Flush
  BY <1>c, <1>n, <1>17 DEF Flush
<1>18. CASE RelayFails
  BY <1>c, <1>n, <1>18 DEF RelayFails
<1>19. CASE Cancelled
  BY <1>c, <1>n, <1>19 DEF Cancelled
<1>20. CASE StopInput
  BY <1>c, <1>n, <1>20 DEF StopInput
<1>21. CASE JoinInput
  BY <1>c, <1>n, <1>21 DEF JoinInput
<1>22. CASE Finished(Terminating)
  BY <1>c, <1>n, <1>22 DEF Finished, Terminating
<1>23. ASSUME NEW from \in Terminating, NEW to \in Terminating, Escalate(from, to)
       PROVE  PipeInv'
  BY <1>c, <1>n, <1>23 DEF Escalate, Deliver, GroupExists, Terminating
<1>24. CASE Abort
  BY <1>c, <1>n, <1>24 DEF Abort, DropProcess, Deliver, GroupExists
<1>25. CASE ShutDown
  BY <1>c, <1>n, <1>25 DEF ShutDown
<1>26. CASE InputStop
  BY <1>c, <1>n, <1>26 DEF InputStop
<1>27. CASE InputEvent
  BY <1>c, <1>n, <1>27 DEF InputEvent
<1>28. CASE Copy
  BY <1>c, <1>n, <1>28 DEF Copy
<1>29. CASE PayloadFails
  BY <1>c, <1>n, <1>29 DEF PayloadFails
<1>30. CASE HandleSignal
  BY <1>c, <1>n, <1>30 DEF HandleSignal, Deliver, GroupExists
<1>31. CASE HandleResize
  BY <1>c, <1>n, <1>31 DEF HandleResize
<1>32. CASE UNCHANGED vars
  BY <1>c, <1>n, <1>32 DEF vars
<1> HIDE DEF TypeOK, PipeInv, ChildInv, Pipes
<1> QED
  BY <1>1, <1>2, <1>3, <1>4, <1>5, <1>6, <1>7, <1>8, <1>9, <1>10, <1>11,
     <1>12, <1>13, <1>14, <1>15, <1>16, <1>17, <1>18, <1>19, <1>20, <1>21,
     <1>22, <1>23, <1>24, <1>25, <1>26, <1>27, <1>28, <1>29, <1>30, <1>31,
     <1>32 DEF Next, ReadPipe, Write, Terminate, Terminating
-----------------------------------------------------------------------------
(* Nothing was spawned, read or said yet.                                  *)
LEMMA InitInv == Init => Inv
<1> SUFFICES ASSUME Init PROVE Inv
  OBVIOUS
<1> USE ProcessAssumption DEF Init, None, Pty, Pipes, AllPipes, Relaying, Ending,
        Over, Terminating, Completing
<1>0. master \in BOOLEAN /\ out \in Seq(Pipes \cup {"exit", "eof", "close"})
  <2>1. master \in BOOLEAN
    BY Zenon
  <2>2. out \in Seq(Pipes \cup {"exit", "eof", "close"})
    OBVIOUS
  <2> QED BY <2>1, <2>2
<1>a. /\ unread \in [AllPipes -> 0..MaxOutput]
      /\ produced \in [AllPipes -> 0..MaxOutput]
      /\ inputs \in 0..MaxInput
  OBVIOUS
<1>b. held \in Pipes \cup {None} /\ done \subseteq Pipes
      /\ stray \subseteq {"owner", "input", "resize"}
  OBVIOUS
<1> HIDE DEF Pipes, Pty, AllPipes
<1>1. TypeOK
  BY <1>0, <1>a, <1>b DEF TypeOK
<1> USE DEF Pipes, Pty, AllPipes
<1>2. ChildAccountedFor /\ NoStrayUse /\ ChildInv /\ InputInv
  BY <1>1 DEF ChildAccountedFor, NoStrayUse, ChildInv, InputInv
<1>3. Len(out) = 0 /\ 1..Len(out) = {}
  OBVIOUS
<1>4. CompletionOrder /\ SaidInv
  BY <1>3 DEF CompletionOrder, SaidInv, Said
<1>5. \A p : {i \in 1..Len(out) : out[i] = p} = {}
  BY <1>3
<1>6. \A p : Relayed(p) = 0
  BY <1>5, FS_EmptySet DEF Relayed
<1>7. PipeInv
  BY <1>6 DEF PipeInv, Buffered
<1> QED BY <1>2, <1>4, <1>7 DEF Inv

(* Every step of the command, its session and its relays keeps Inv.        *)
THEOREM Invariance == Spec => []Inv
<1>1. Inv /\ [Next]_vars => Inv'
  BY ChildStep, InputStep, SaidStep, PipeStep DEF Inv, ChildAccountedFor
<1> QED BY <1>1, InitInv, PTL DEF Spec

(* For any number of chunks and channel events, in both modes: run_piped   *)
(* and run_pty return only when the command was reaped, and their task is  *)
(* never gone while it runs.                                               *)
THEOREM CommandIsAccountedFor == Spec => []ChildAccountedFor
  BY Invariance, PTL DEF Inv

(* terminate() and Drop never signal a group that is not this session's,   *)
(* and the master descriptor is resized only while it is open, unless the  *)
(* task was aborted.                                                       *)
THEOREM NothingStrayIsUsed == Spec => []NoStrayUse
  BY Invariance, PTL DEF Inv

(* The client reads one exit, then EOF, then Close, with no output behind  *)
(* EOF, wherever the relay is interrupted.                                 *)
THEOREM CompletionIsOrdered == Spec => []CompletionOrder
  BY Invariance, PTL DEF Inv

(* A session that ends well has relayed every chunk of every pipe: at its  *)
(* end the pipes are empty, nobody can write to them, and the buffer is    *)
(* free.                                                                   *)
THEOREM OutputIsComplete == Spec => []OutputComplete
<1>1. Inv => OutputComplete
  <2> SUFFICES ASSUME Inv, result = "ok", NEW p \in Pipes
               PROVE  produced[p] = Relayed(p)
    BY DEF OutputComplete, Relayed
  <2>1. done = Pipes /\ unread[p] = 0 /\ Buffered(p) = 0
    BY DEF Inv, PipeInv, Buffered, ChildAccountedFor, ChildInv, TypeOK, Pipes,
           None, Relaying
  <2>2. produced[p] = unread[p] + Buffered(p) + Relayed(p)
    BY DEF Inv, PipeInv
  <2>3. Relayed(p) \in Nat
    BY RelayedNat DEF Inv, ChildAccountedFor
  <2> QED BY <2>1, <2>2, <2>3
<1> QED BY <1>1, Invariance, PTL
=============================================================================
