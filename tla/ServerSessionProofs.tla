------------------------- MODULE ServerSessionProofs -------------------------
(***************************************************************************)
(* Proofs about ServerSession for any channels, keys, listeners and        *)
(* connections.                                                            *)
(***************************************************************************)
EXTENDS ServerSession, TLAPS

First(l) == "first" \in listener[l].socks

(* The listener whose answer is being written is the one the loop has      *)
(* bound, the first socket of a key is in the hands of one listener at a   *)
(* time, and that one is under its key while it runs.                      *)
ListenerInv ==
  /\ \A l \in Listeners : listener[l].st # "unused" => listener[l].key \in Keys
  /\ \A l \in Listeners :
       listener[l].st = "bound" => loop = "responding" /\ pending = l /\ First(l)
  /\ loop = "responding" /\ pending # None =>
       pending \in Listeners /\ listener[pending].st = "bound"
  /\ loop \in {"select", "forward", "cancel"} => pending = None
  /\ \A l, m \in Listeners :
       First(l) /\ First(m) /\ listener[l].key = listener[m].key => l = m
  /\ \A l \in Listeners :
       listener[l].st = "running" /\ First(l) => handles[listener[l].key] = l

(* An outcome is chosen once, where the loop is left, and only with no     *)
(* channel task left if it is SessionFinished.                             *)
OutcomeInv ==
  /\ outcome # "closed" => Broke
  /\ hadSession => \E c \in Channels : channel[c].kind = "session"
  /\ \A c \in Channels : channel[c].kind = "session" => channel[c].st # "new"
  /\ outcome = "finished" => hadSession /\ \A c \in Channels : ~Spawned(c)

Inv == TypeOK /\ ListenerInv /\ OutcomeInv
-----------------------------------------------------------------------------
TaskTable == [Channels -> [kind : Kinds \cup {None}, st : TaskStates]]
Entry == [key : Keys \cup {None}, st : ListenerStates,
          socks : SUBSET {"first", "second"}, joined : BOOLEAN]
ListenerTable == [Listeners -> Entry]

(* What the helpers do to the tables of the tasks and the listeners.       *)
LEMMA SetTaskType ==
  ASSUME channel \in TaskTable, NEW c, NEW st \in TaskStates, SetTask(c, st)
  PROVE  channel' \in TaskTable
<1> SUFFICES ASSUME NEW d \in Channels
             PROVE  channel'[d] \in [kind : Kinds \cup {None}, st : TaskStates]
  BY DEF TaskTable, SetTask
<1>1. CASE d = c
  BY <1>1 DEF TaskTable, SetTask
<1>2. CASE d # c
  BY <1>2 DEF TaskTable, SetTask
<1> QED BY <1>1, <1>2

(* A dropped JoinSet leaves tasks that are gone or being aborted.          *)
LEMMA DropTasksType ==
  ASSUME channel \in TaskTable, listener \in ListenerTable, DropTasks
  PROVE  channel' \in TaskTable /\ listener' \in ListenerTable
<1>1. channel' \in TaskTable
  BY DEF DropTasks, TaskTable, TaskStates
<1>2. listener' \in ListenerTable
  BY DEF DropTasks, ListenerTable, Entry, ListenerStates
<1> QED BY <1>1, <1>2

(* A listener may be joined, or bound to a key.                            *)
LEMMA ListenerType ==
  ASSUME listener \in ListenerTable, NEW l \in Listeners,
         NEW new \in Entry,
         listener' = [listener EXCEPT ![l] = new]
  PROVE  listener' \in ListenerTable
  BY DEF ListenerTable, Entry

(* The types are kept by every step of the loop and of the tasks.          *)
LEMMA TypeStep ==
  ASSUME TypeOK, ListenerInv, [Next]_vars
  PROVE  TypeOK'
<1>t. channel \in TaskTable /\ listener \in ListenerTable
  BY DEF TypeOK, TaskTable, ListenerTable, Entry
<1> USE SessionAssumption DEF TypeOK, LoopStates, TaskStates, ListenerStates,
        None, futures, tokens, link
<1>1. ASSUME NEW c \in Channels, NEW kind \in Kinds, AcceptChannel(c, kind)
      PROVE  TypeOK'
  BY <1>1 DEF AcceptChannel
<1>2. CASE SocksAccepted
  <2>1. channel' \in TaskTable
    BY <1>t, <1>2, SetTaskType DEF SocksAccepted, TaskStates
  <2> QED BY <1>2, <2>1 DEF SocksAccepted, TaskTable
<1>3. CASE SocksFails
  <2>1. channel' \in TaskTable
    BY <1>t, <1>3, SetTaskType DEF SocksFails, TaskStates
  <2> QED BY <1>3, <2>1 DEF SocksFails, TaskTable
<1>4. CASE Rejected
  <2>1. channel' \in TaskTable
    BY <1>t, <1>4, SetTaskType DEF Rejected, TaskStates
  <2> QED BY <1>4, <2>1 DEF Rejected, TaskTable
<1>5. CASE PollCompleted
  BY SMTT(30), <1>5 DEF PollCompleted, DropTasks
<1>6. CASE AcceptChannelEnds
  BY <1>6 DEF AcceptChannelEnds
<1>7. CASE AcceptGlobalEnds
  BY <1>7 DEF AcceptGlobalEnds
<1>8. ASSUME NEW c \in Channels, ReapChannel(c)
      PROVE  TypeOK'
  <2>1. channel' \in TaskTable /\ listener' \in ListenerTable
    BY <1>t, <1>8, SetTaskType, DropTasksType DEF ReapChannel, TaskStates
  <2> QED BY <1>8, <2>1 DEF ReapChannel, TaskTable, ListenerTable, Entry
<1>9. ASSUME NEW c \in Channels, JoinChannel(c)
      PROVE  TypeOK'
  <2>1. channel' \in TaskTable /\ listener' \in ListenerTable
    BY <1>t, <1>9, SetTaskType, DropTasksType DEF JoinChannel, TaskStates
  <2> QED BY <1>9, <2>1 DEF JoinChannel, TaskTable, ListenerTable, Entry
<1>10. ASSUME NEW l \in Listeners, ReapForward(l)
       PROVE  TypeOK'
  <2> DEFINE new == [listener[l] EXCEPT !.joined = TRUE]
  <2>1. listener[l] \in Entry
    BY <1>t DEF ListenerTable, Entry
  <2>2. new \in Entry
    BY <2>1 DEF Entry
  <2>3. listener' = [listener EXCEPT ![l] = new]
    BY <1>10, <1>t DEF ListenerTable, Entry, ReapForward
  <2> HIDE DEF new
  <2>4. listener' \in ListenerTable
    BY <1>t, <2>2, <2>3, ListenerType
  <2> QED BY <1>10, <2>4 DEF ReapForward, ListenerTable, Entry
<1>11. ASSUME NEW k \in Keys, Forward(k)
       PROVE  TypeOK'
  <2>1. ASSUME NEW l \in Listeners, NEW socks \in SUBSET SocketsOf(k), Bind(l, k, socks)
        PROVE  listener' \in ListenerTable
    <3> DEFINE new == [listener[l] EXCEPT !.key = k, !.st = "bound", !.socks = socks]
    <3>1. listener[l] \in Entry /\ socks \in SUBSET {"first", "second"}
      BY <1>t DEF ListenerTable, Entry, SocketsOf
    <3>2. new \in Entry
      BY <3>1 DEF Entry
    <3>3. listener' = [listener EXCEPT ![l] = new]
      BY <2>1, <1>t DEF ListenerTable, Entry, Bind
    <3> HIDE DEF new
    <3> QED BY <1>t, <3>2, <3>3, ListenerType
  <2>2. listener' \in ListenerTable /\ pending' \in Listeners \cup {pending}
    <3>1. CASE UNCHANGED <<listener, pending>>
      BY <3>1, <1>t
    <3>2. ASSUME NEW l \in Listeners, NEW socks \in SUBSET SocketsOf(k), Bind(l, k, socks)
          PROVE  listener' \in ListenerTable /\ pending' \in Listeners
      BY <3>2, <2>1 DEF Bind
    <3> QED BY <1>11, <3>1, <3>2 DEF Forward
  <2> QED BY <1>11, <2>2 DEF Forward, ListenerTable, Entry
<1>12. ASSUME NEW k \in Keys, Cancel(k)
       PROVE  TypeOK'
  BY <1>12 DEF Cancel
<1>13. CASE Responded
  <2>1. listener' \in ListenerTable
    BY <1>t, <1>13 DEF Responded, SetListener, ListenerTable, Entry
  <2>2. handles' \in [Keys -> Listeners \cup {None}]
    BY <1>13 DEF Responded, ListenerInv
  <2> QED BY <1>13, <2>1, <2>2 DEF Responded, ListenerTable, Entry
<1>14. CASE RespondFails
  <2>1. listener' \in ListenerTable
    BY <1>t, <1>14 DEF RespondFails, ListenerTable, Entry
  <2> QED BY <1>14, <2>1 DEF RespondFails, ListenerTable, Entry
<1>15. CASE PoisonGlobal
  BY <1>15 DEF PoisonGlobal, GlobalReady
<1>16. CASE SeeShutdown
  BY <1>16 DEF SeeShutdown
<1>17. CASE CancelTokens
  BY <1>17 DEF CancelTokens
<1>18. CASE AbortForwards
  <2>1. listener' \in ListenerTable
    <3> SUFFICES ASSUME NEW l \in Listeners
                 PROVE  listener'[l] \in Entry
      BY <1>18 DEF AbortForwards, ListenerTable
    <3>1. listener[l] \in Entry
      BY <1>t DEF ListenerTable
    <3>2. [listener[l] EXCEPT !.st = "aborting"] \in Entry
      BY <3>1 DEF Entry
    <3> QED BY <3>1, <3>2, <1>18 DEF AbortForwards
  <2>2. handles' \in [Keys -> Listeners \cup {None}]
    BY <1>18 DEF AbortForwards
  <2> QED BY <1>18, <2>1, <2>2 DEF AbortForwards, ListenerTable, Entry
<1>19. CASE CloseRelays
  BY <1>19 DEF CloseRelays
<1>20. CASE Return
  BY <1>20 DEF Return
<1>21. ASSUME NEW c \in Channels, SessionProceeds(c)
       PROVE  TypeOK'
  <2>1. channel' \in TaskTable
    BY <1>t, <1>21, SetTaskType DEF SessionProceeds, task, TaskStates
  <2> QED BY <1>21, <2>1 DEF SessionProceeds, task, TaskTable
<1>22. ASSUME NEW c \in Channels, SessionCancelled(c)
       PROVE  TypeOK'
  <2>1. channel' \in TaskTable
    BY <1>t, <1>22, SetTaskType DEF SessionCancelled, task, TaskStates
  <2> QED BY ZenonT(30), <1>22, <2>1 DEF SessionCancelled, task, TaskTable
<1>23. ASSUME NEW c \in Channels, TaskEnds(c)
       PROVE  TypeOK'
  <2>1. channel' \in TaskTable
    BY <1>t, <1>23, SetTaskType DEF TaskEnds, task, TaskStates
  <2> QED BY <1>23, <2>1 DEF TaskEnds, task, TaskTable
<1>24. ASSUME NEW c \in Channels, TaskAborted(c)
       PROVE  TypeOK'
  <2>1. channel' \in TaskTable
    BY <1>t, <1>24, SetTaskType DEF TaskAborted, task, TaskStates
  <2> QED BY <1>24, <2>1 DEF TaskAborted, task, TaskTable
<1>25. ASSUME NEW l \in Listeners, NEW s \in {"first", "second"}, ListenerFails(l, s)
       PROVE  TypeOK'
  BY <1>25 DEF ListenerFails, listening
<1>26. ASSUME NEW l \in Listeners, ListenerAborted(l)
       PROVE  TypeOK'
  BY <1>26 DEF ListenerAborted, listening
<1>27. ASSUME NEW l \in Listeners, NEW s \in {"first", "second"}, InnerAborted(l, s)
       PROVE  TypeOK'
  <2> DEFINE left == listener[l].socks \ {s}
             to   == IF left = {} THEN "stopped" ELSE "inner"
             new  == [listener[l] EXCEPT !.st = to, !.socks = left]
  <2>2. listener[l] \in Entry
    BY <1>t DEF ListenerTable
  <2>3. new \in Entry
    BY <2>2 DEF Entry
  <2>4. listener' = [listener EXCEPT ![l] = new]
    BY <2>2, <1>t, <1>27 DEF InnerAborted, listening, ListenerTable, Entry
  <2> HIDE DEF new
  <2>1. listener' \in ListenerTable
    BY <1>t, <2>3, <2>4, ListenerType
  <2> QED BY <1>27, <2>1 DEF InnerAborted, listening, ListenerTable, Entry
<1>28. ASSUME NEW x \in Conns, Connect(x)
       PROVE  TypeOK'
  BY <1>28 DEF Connect, SetRelay
<1>29. ASSUME NEW x \in Conns, ChannelOpened(x)
       PROVE  TypeOK'
  BY <1>29 DEF ChannelOpened, SetRelay
<1>30. ASSUME NEW x \in Conns, RelayEnds(x)
       PROVE  TypeOK'
  BY <1>30 DEF RelayEnds, SetRelay
<1>31. CASE Shutdown
  BY <1>31 DEF Shutdown
<1>32. CASE ClientLeaves
  BY <1>32 DEF ClientLeaves
<1>33. CASE UNCHANGED vars
  BY <1>33 DEF vars
<1>34. ASSUME NEW kind \in Globals, AwaitBody(kind)
       PROVE  TypeOK'
  BY <1>34 DEF AwaitBody, GlobalReady
<1>35. CASE BodyFails
  BY <1>35 DEF BodyFails
<1> HIDE DEF TypeOK
<1> QED
  BY <1>1, <1>2, <1>3, <1>4, <1>5, <1>6, <1>7, <1>8, <1>9, <1>10, <1>11,
     <1>12, <1>13, <1>14, <1>15, <1>16, <1>17, <1>18, <1>19, <1>20, <1>21,
     <1>22, <1>23, <1>24, <1>25, <1>26, <1>27, <1>28, <1>29, <1>30, <1>31,
     <1>32, <1>33, <1>34, <1>35 DEF Next, RunSession, Tasks
-----------------------------------------------------------------------------
(* The handles keep to their listeners.                                    *)
LEMMA ListenerStep ==
  ASSUME TypeOK, ListenerInv, [Next]_vars
  PROVE  ListenerInv'
<1>t. /\ listener \in ListenerTable /\ handles \in [Keys -> Listeners \cup {None}]
      /\ None \notin Listeners
  BY SessionAssumption DEF TypeOK, ListenerTable, Entry
<1>p. loop \in {"select", "forward", "cancel"} => pending = None
  BY DEF ListenerInv
<1>same. ASSUME \/ UNCHANGED <<loop, pending>>
                \/ /\ loop # "responding" /\ loop' # "responding"
                   /\ loop' \in {"select", "forward", "cancel"} => pending' = None,
                \A l \in Listeners :
                   /\ listener'[l].key = listener[l].key
                   /\ listener'[l].socks \subseteq listener[l].socks
                   /\ listener[l].st = "bound" => listener'[l] = listener[l]
                   /\ \/ listener'[l].st = listener[l].st
                      \/ /\ listener[l].st \in {"running", "aborting", "inner"}
                         /\ listener'[l].st \in {"aborting", "inner", "stopped"}
                   /\ listener'[l].st = "running" /\ First(l)' =>
                        handles'[listener[l].key] = handles[listener[l].key]
         PROVE  ListenerInv'
  BY <1>t, <1>same DEF ListenerInv, First
<1> USE DEF futures, tokens, link
<1>1. ASSUME NEW c \in Channels, NEW kind \in Kinds, AcceptChannel(c, kind)
      PROVE  ListenerInv'
  BY <1>t, <1>p, <1>same, <1>1 DEF AcceptChannel
<1>2. CASE SocksAccepted
  BY <1>t, <1>p, <1>same, <1>2 DEF SocksAccepted, SetTask
<1>3. CASE SocksFails
  BY <1>t, <1>p, <1>same, <1>3 DEF SocksFails, SetTask
<1>4. CASE Rejected
  BY <1>t, <1>p, <1>same, <1>4 DEF Rejected, SetTask
<1>5. CASE PollCompleted
  BY <1>t, <1>p, <1>same, <1>5 DEF PollCompleted, DropTasks, ListenerTable,
     Entry
<1>6. CASE AcceptChannelEnds
  BY <1>t, <1>p, <1>same, <1>6 DEF AcceptChannelEnds
<1>7. CASE AcceptGlobalEnds
  BY <1>t, <1>p, <1>same, <1>7 DEF AcceptGlobalEnds
<1>8. ASSUME NEW c \in Channels, ReapChannel(c)
      PROVE  ListenerInv'
  BY <1>t, <1>p, <1>same, <1>8 DEF ReapChannel, DropTasks, ListenerTable, Entry
<1>9. ASSUME NEW c \in Channels, JoinChannel(c)
      PROVE  ListenerInv'
  BY <1>t, <1>p, <1>same, <1>9 DEF JoinChannel, DropTasks, ListenerTable, Entry
<1>10. ASSUME NEW l \in Listeners, ReapForward(l)
       PROVE  ListenerInv'
  BY <1>t, <1>same, <1>10 DEF ReapForward, Joinable, ListenerTable, Entry
<1>11. ASSUME NEW k \in Keys, Forward(k)
       PROVE  ListenerInv'
  <2>1. CASE UNCHANGED <<listener, pending>>
    BY <1>t, <1>p, <2>1, <1>11 DEF Forward, ListenerInv, First, ListenerTable, Entry
  <2>2. ASSUME NEW l \in Listeners, NEW socks \in SUBSET SocketsOf(k),
               "first" \in socks, ~Bound(k, "first"), Bind(l, k, socks)
        PROVE  ListenerInv'
    <3>1. /\ listener'[l].key = k /\ listener'[l].st = "bound"
          /\ "first" \in listener'[l].socks
          /\ \A m \in Listeners \ {l} : listener'[m] = listener[m]
          /\ loop' = "responding" /\ handles' = handles /\ loop = "forward"
          /\ pending' = l
      <4>1. listener[l] \in Entry /\ l \in DOMAIN listener
        BY <1>t DEF ListenerTable
      <4>2. listener'[l] = [listener[l] EXCEPT !.key = k, !.st = "bound", !.socks = socks]
        BY <4>1, <2>2 DEF Bind, Entry
      <4>3. \A m \in Listeners \ {l} : listener'[m] = listener[m]
        BY <1>t, <2>2 DEF Bind, ListenerTable
      <4> QED BY <4>1, <4>2, <4>3, <2>2, <1>11 DEF Forward, Bind, Entry
    <3>2. \A m \in Listeners : First(m) => listener[m].key # k
      BY <2>2 DEF Bound, First
    <3>3. \A m \in Listeners : listener[m].st # "bound"
      BY <3>1 DEF ListenerInv
    <3>4. \A m \in Listeners \ {l} : First(m)' = First(m)
      BY <3>1 DEF First
    <3>5. \A i, j \in Listeners :
            First(i)' /\ First(j)' /\ listener'[i].key = listener'[j].key => i = j
      BY <3>1, <3>2, <3>4 DEF ListenerInv
    <3>6. \A m \in Listeners :
            listener'[m].st = "running" /\ First(m)' => handles'[listener'[m].key] = m
      BY <3>1, <3>4 DEF ListenerInv
    <3>7. \A m \in Listeners : listener'[m].st # "unused" => listener'[m].key \in Keys
      BY <3>1 DEF ListenerInv
    <3>8. First(l)'
      BY <3>1 DEF First
    <3> QED BY <3>1, <3>3, <3>5, <3>6, <3>7, <3>8 DEF ListenerInv
  <2> QED BY <2>1, <2>2, <1>11 DEF Forward
<1>12. ASSUME NEW k \in Keys, Cancel(k)
       PROVE  ListenerInv'
  <2>1. ASSUME NEW l \in Listeners
        PROVE  /\ listener'[l].key = listener[l].key
               /\ listener'[l].socks = listener[l].socks
               /\ \/ listener'[l].st = listener[l].st
                  \/ /\ listener[l].st = "running" /\ l = handles[k]
                     /\ listener'[l].st = "aborting"
    BY <1>t, <1>12 DEF Cancel, ListenerTable, Entry
  <2>2. ASSUME NEW l \in Listeners, listener'[l].st = "running", First(l)'
        PROVE  listener[l].key # k
    <3>1. listener[l].st = "running" /\ l # handles[k]
      BY <1>t, <2>1, <2>2, <1>12 DEF Cancel, ListenerTable, Entry
    <3> QED BY <3>1, <2>1, <2>2 DEF ListenerInv, First
  <2>3. handles' = [handles EXCEPT ![k] = None] /\ loop = "cancel"
        /\ loop' = "responding" /\ pending' = pending
    BY <1>12 DEF Cancel
  <2>4. \A l \in Listeners : First(l)' = First(l)
    BY <2>1 DEF First
  <2> QED BY <1>t, <1>p, <2>1, <2>2, <2>3, <2>4 DEF ListenerInv
<1>13. CASE Responded
  <2>1. CASE pending = None
    BY <1>t, <2>1, <1>13 DEF Responded, ListenerInv, First
  <2>2. CASE pending # None
    <3>1. /\ pending \in Listeners /\ listener[pending].st = "bound"
          /\ listener[pending].key \in Keys /\ First(pending)
      BY <2>2, <1>13 DEF Responded, ListenerInv
    <3>2. /\ listener'[pending].st = "running"
          /\ listener'[pending].key = listener[pending].key
          /\ listener'[pending].socks = listener[pending].socks
          /\ \A m \in Listeners \ {pending} : listener'[m] = listener[m]
          /\ handles' = [handles EXCEPT ![listener[pending].key] = pending]
          /\ loop' = "select" /\ pending' = None
      BY <1>t, <2>2, <3>1, <1>13 DEF Responded, SetListener, ListenerTable, Entry
    <3>3. \A m \in Listeners \ {pending} :
            First(m) => listener[m].key # listener[pending].key
      BY <3>1 DEF ListenerInv
    <3>4. \A m \in Listeners : First(m)' = First(m)
      BY <3>2 DEF First
    <3> QED BY <1>t, <3>1, <3>2, <3>3, <3>4 DEF ListenerInv
  <2> QED BY <2>1, <2>2
<1>14. CASE RespondFails
  <2>1. CASE pending = None
    BY <1>t, <2>1, <1>14 DEF RespondFails, ListenerInv, First
  <2>2. CASE pending # None
    <3>1. pending \in Listeners /\ listener[pending].st = "bound"
      BY <2>2, <1>14 DEF RespondFails, ListenerInv
    <3>2. /\ listener'[pending].st = "stopped"
          /\ listener'[pending].socks = {}
          /\ listener'[pending].key = listener[pending].key
          /\ \A m \in Listeners \ {pending} : listener'[m] = listener[m]
          /\ handles' = handles /\ loop' = "select" /\ pending' = None
      BY <1>t, <2>2, <3>1, <1>14 DEF RespondFails, ListenerTable, Entry
    <3>3. \A m \in Listeners : First(m)' => First(m) /\ m # pending
      BY <3>1, <3>2 DEF First
    <3> QED BY <1>t, <3>1, <3>2, <3>3 DEF ListenerInv
  <2> QED BY <2>1, <2>2
<1>15. CASE PoisonGlobal
  BY <1>t, <1>p, <1>same, <1>15 DEF PoisonGlobal, GlobalReady
<1>16. CASE SeeShutdown
  BY <1>t, <1>p, <1>same, <1>16 DEF SeeShutdown
<1>17. CASE CancelTokens
  BY <1>t, <1>p, <1>same, <1>17 DEF CancelTokens
<1>18. CASE AbortForwards
  BY <1>t, <1>p, <1>same, <1>18 DEF AbortForwards, ListenerInv, First, ListenerTable,
     Entry
<1>19. CASE CloseRelays
  BY <1>t, <1>p, <1>same, <1>19 DEF CloseRelays
<1>20. CASE Return
  BY <1>t, <1>p, <1>same, <1>20 DEF Return
<1>21. ASSUME NEW c \in Channels, SessionProceeds(c)
       PROVE  ListenerInv'
  BY <1>t, <1>p, <1>same, <1>21 DEF SessionProceeds, task, SetTask
<1>22. ASSUME NEW c \in Channels, SessionCancelled(c)
       PROVE  ListenerInv'
  BY <1>t, <1>p, <1>same, <1>22 DEF SessionCancelled, task, SetTask
<1>23. ASSUME NEW c \in Channels, TaskEnds(c)
       PROVE  ListenerInv'
  BY <1>t, <1>p, <1>same, <1>23 DEF TaskEnds, task, SetTask
<1>24. ASSUME NEW c \in Channels, TaskAborted(c)
       PROVE  ListenerInv'
  BY <1>t, <1>p, <1>same, <1>24 DEF TaskAborted, task, SetTask
<1>25. ASSUME NEW l \in Listeners, NEW s \in {"first", "second"}, ListenerFails(l, s)
       PROVE  ListenerInv'
  BY <1>t, <1>same, <1>25 DEF ListenerFails, listening,
     ListenerTable, Entry
<1>26. ASSUME NEW l \in Listeners, ListenerAborted(l)
       PROVE  ListenerInv'
  BY <1>t, <1>same, <1>26 DEF ListenerAborted, listening,
     ListenerTable, Entry
<1>27. ASSUME NEW l \in Listeners, NEW s \in {"first", "second"}, InnerAborted(l, s)
       PROVE  ListenerInv'
  BY <1>t, <1>same, <1>27 DEF InnerAborted, listening,
     ListenerTable, Entry
<1>28. ASSUME NEW x \in Conns, Connect(x)
       PROVE  ListenerInv'
  BY <1>t, <1>p, <1>same, <1>28 DEF Connect, SetRelay
<1>29. ASSUME NEW x \in Conns, ChannelOpened(x)
       PROVE  ListenerInv'
  BY <1>t, <1>p, <1>same, <1>29 DEF ChannelOpened, SetRelay
<1>30. ASSUME NEW x \in Conns, RelayEnds(x)
       PROVE  ListenerInv'
  BY <1>t, <1>p, <1>same, <1>30 DEF RelayEnds, SetRelay
<1>31. CASE Shutdown
  BY <1>t, <1>p, <1>same, <1>31 DEF Shutdown
<1>32. CASE ClientLeaves
  BY <1>t, <1>p, <1>same, <1>32 DEF ClientLeaves
<1>33. CASE UNCHANGED vars
  BY <1>t, <1>p, <1>same, <1>33 DEF vars
<1>34. ASSUME NEW kind \in Globals, AwaitBody(kind)
       PROVE  ListenerInv'
  BY <1>t, <1>p, <1>same, <1>34 DEF AwaitBody, GlobalReady
<1>35. CASE BodyFails
  BY <1>t, <1>p, <1>same, <1>35 DEF BodyFails
<1> QED
  BY <1>1, <1>2, <1>3, <1>4, <1>5, <1>6, <1>7, <1>8, <1>9, <1>10, <1>11,
     <1>12, <1>13, <1>14, <1>15, <1>16, <1>17, <1>18, <1>19, <1>20, <1>21,
     <1>22, <1>23, <1>24, <1>25, <1>26, <1>27, <1>28, <1>29, <1>30, <1>31,
     <1>32, <1>33, <1>34, <1>35 DEF Next, RunSession, Tasks

(* The outcome stays true.                                                 *)
LEMMA OutcomeStep ==
  ASSUME TypeOK, OutcomeInv, [Next]_vars
  PROVE  OutcomeInv'
<1>t. channel \in TaskTable
  BY DEF TypeOK, TaskTable
<1> USE DEF OutcomeInv, TaskTable, Spawned, Finished, Broke, futures, tokens, link
<1>1. ASSUME NEW c \in Channels, NEW kind \in Kinds, AcceptChannel(c, kind)
      PROVE  OutcomeInv'
  BY <1>t, <1>1 DEF AcceptChannel
<1>2. CASE SocksAccepted
  BY <1>t, <1>2 DEF SocksAccepted, SetTask
<1>3. CASE SocksFails
  BY <1>t, <1>3 DEF SocksFails, SetTask
<1>4. CASE Rejected
  BY <1>t, <1>4 DEF Rejected, SetTask
<1>5. CASE PollCompleted
  BY <1>t, <1>5 DEF PollCompleted, DropTasks
<1>6. CASE AcceptChannelEnds
  BY <1>t, <1>6 DEF AcceptChannelEnds
<1>7. CASE AcceptGlobalEnds
  BY <1>t, <1>7 DEF AcceptGlobalEnds
<1>8. ASSUME NEW c \in Channels, ReapChannel(c)
      PROVE  OutcomeInv'
  BY <1>t, <1>8 DEF ReapChannel, DropTasks, SetTask
<1>9. ASSUME NEW c \in Channels, JoinChannel(c)
      PROVE  OutcomeInv'
  BY <1>t, <1>9 DEF JoinChannel, DropTasks, SetTask
<1>10. ASSUME NEW l \in Listeners, ReapForward(l)
       PROVE  OutcomeInv'
  BY <1>t, <1>10 DEF ReapForward
<1>11. ASSUME NEW k \in Keys, Forward(k)
       PROVE  OutcomeInv'
  BY <1>t, <1>11 DEF Forward
<1>12. ASSUME NEW k \in Keys, Cancel(k)
       PROVE  OutcomeInv'
  BY <1>t, <1>12 DEF Cancel
<1>13. CASE Responded
  BY <1>t, <1>13 DEF Responded, SetListener
<1>14. CASE RespondFails
  BY <1>t, <1>14 DEF RespondFails
<1>15. CASE PoisonGlobal
  BY <1>t, <1>15 DEF PoisonGlobal, GlobalReady
<1>16. CASE SeeShutdown
  BY <1>t, <1>16 DEF SeeShutdown
<1>17. CASE CancelTokens
  BY <1>t, <1>17 DEF CancelTokens
<1>18. CASE AbortForwards
  BY <1>t, <1>18 DEF AbortForwards
<1>19. CASE CloseRelays
  BY <1>t, <1>19 DEF CloseRelays
<1>20. CASE Return
  BY <1>t, <1>20 DEF Return
<1>21. ASSUME NEW c \in Channels, SessionProceeds(c)
       PROVE  OutcomeInv'
  BY <1>t, <1>21 DEF SessionProceeds, task, SetTask
<1>22. ASSUME NEW c \in Channels, SessionCancelled(c)
       PROVE  OutcomeInv'
  <2>1. ASSUME NEW from \in {"accepting", "setup"}, task(c, from, "ok")
        PROVE  OutcomeInv'
    BY <1>t, <2>1 DEF task, SetTask
  <2> QED BY <1>22, <2>1 DEF SessionCancelled
<1>23. ASSUME NEW c \in Channels, TaskEnds(c)
       PROVE  OutcomeInv'
  BY <1>t, <1>23 DEF TaskEnds, task, SetTask
<1>24. ASSUME NEW c \in Channels, TaskAborted(c)
       PROVE  OutcomeInv'
  BY <1>t, <1>24 DEF TaskAborted, task, SetTask
<1>25. ASSUME NEW l \in Listeners, NEW s \in {"first", "second"}, ListenerFails(l, s)
       PROVE  OutcomeInv'
  BY <1>t, <1>25 DEF ListenerFails, listening
<1>26. ASSUME NEW l \in Listeners, ListenerAborted(l)
       PROVE  OutcomeInv'
  BY <1>t, <1>26 DEF ListenerAborted, listening
<1>27. ASSUME NEW l \in Listeners, NEW s \in {"first", "second"}, InnerAborted(l, s)
       PROVE  OutcomeInv'
  BY <1>t, <1>27 DEF InnerAborted, listening
<1>28. ASSUME NEW x \in Conns, Connect(x)
       PROVE  OutcomeInv'
  BY <1>t, <1>28 DEF Connect, SetRelay
<1>29. ASSUME NEW x \in Conns, ChannelOpened(x)
       PROVE  OutcomeInv'
  BY <1>t, <1>29 DEF ChannelOpened, SetRelay
<1>30. ASSUME NEW x \in Conns, RelayEnds(x)
       PROVE  OutcomeInv'
  BY <1>t, <1>30 DEF RelayEnds, SetRelay
<1>31. CASE Shutdown
  BY <1>t, <1>31 DEF Shutdown
<1>32. CASE ClientLeaves
  BY <1>t, <1>32 DEF ClientLeaves
<1>33. CASE UNCHANGED vars
  BY <1>t, <1>33 DEF vars
<1>34. ASSUME NEW kind \in Globals, AwaitBody(kind)
       PROVE  OutcomeInv'
  BY <1>t, <1>34 DEF AwaitBody, GlobalReady
<1>35. CASE BodyFails
  BY <1>t, <1>35 DEF BodyFails
<1> HIDE DEF OutcomeInv
<1> QED
  BY <1>1, <1>2, <1>3, <1>4, <1>5, <1>6, <1>7, <1>8, <1>9, <1>10, <1>11,
     <1>12, <1>13, <1>14, <1>15, <1>16, <1>17, <1>18, <1>19, <1>20, <1>21,
     <1>22, <1>23, <1>24, <1>25, <1>26, <1>27, <1>28, <1>29, <1>30, <1>31,
     <1>32, <1>33, <1>34, <1>35 DEF Next, RunSession, Tasks
-----------------------------------------------------------------------------
(* A session begins with no channel and no listener.                       *)
LEMMA InitInv == Init => Inv
<1> SUFFICES ASSUME Init PROVE Inv
  OBVIOUS
<1> USE SessionAssumption DEF Init
<1>1. TypeOK
  <2>1. {hadSession, shutdown, forwardCancel, poisoned, closed} \subseteq BOOLEAN
    BY Zenon
  <2>2. channel \in [Channels -> [kind : Kinds \cup {None}, st : TaskStates]]
    BY DEF TaskStates
  <2>3. listener \in [Listeners -> [key : Keys \cup {None}, st : ListenerStates,
                                    socks : SUBSET {"first", "second"},
                                    joined : BOOLEAN]]
    BY DEF ListenerStates
  <2> QED BY <2>1, <2>2, <2>3 DEF TypeOK, LoopStates, None
<1>2. ListenerInv
  BY DEF ListenerInv, First
<1>3. OutcomeInv
  BY DEF OutcomeInv, Broke, None
<1> QED BY <1>1, <1>2, <1>3 DEF Inv

(* Inv is kept by the loop, the tasks, the listeners and the client.       *)
THEOREM Invariance == Spec => []Inv
<1>1. Inv /\ [Next]_vars => Inv'
  BY TypeStep, ListenerStep, OutcomeStep DEF Inv
<1> QED BY <1>1, InitInv, PTL DEF Spec

(* For any keys, listeners and requests: a listener that runs and has not  *)
(* lost its first socket is the one kept under its key, so that cancel and *)
(* the end of the session reach it.                                        *)
THEOREM RunningListenerHasHandle == Spec => []ListenerHasHandle
<1>1. Inv => ListenerHasHandle
  BY DEF Inv, ListenerInv, First, ListenerHasHandle
<1> QED BY <1>1, Invariance, PTL

(* For any number of channels of any kinds: the outcome SessionFinished is *)
(* given only after a session channel, with no channel task left.          *)
THEOREM FinishedSessionIsDone == Spec => []FinishedMeansDone
<1>1. Inv => FinishedMeansDone
  BY DEF Inv, OutcomeInv, FinishedMeansDone
<1> QED BY <1>1, Invariance, PTL
=============================================================================
