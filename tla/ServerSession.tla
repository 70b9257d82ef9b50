---------------------------- MODULE ServerSession ----------------------------
(***************************************************************************)
(* run_session of src/src/session/dispatcher.rs: the select loop of the    *)
(* server, the channel tasks it spawns and reaps, the reverse forwards of  *)
(* src/src/forward/reverse.rs with the relays they start, and the orderly  *)
(* or disorderly end of all of them.                                       *)
(*                                                                         *)
(* A step is one poll of the loop or of a task up to its next await.  What *)
(* a process does inside its channel task is left to the task: it ends by  *)
(* itself at any time, and soon once its token is cancelled.               *)
(***************************************************************************)
EXTENDS Naturals, FiniteSets

CONSTANTS
  Channels,      (* channels the client opens, one each                   *)
  Kinds,         (* the types they may have                               *)
  Listeners,     (* reverse listeners that may come to exist              *)
  Keys,          (* addresses or socket paths they are asked for          *)
  TcpKeys,       (* the keys that are TCP addresses                       *)
  Conns,         (* connections made to the listeners                     *)
  Globals,       (* what the client sends as global requests              *)
  MaxAsked,      (* bound on all the client asks for                      *)
  BadStreams     (* whether accept_channel may fail on one stream alone   *)

None == "none"

ASSUME SessionAssumption ==
  /\ Kinds \subseteq {"session", "direct", "socks5", "unknown"}
  /\ Globals \subseteq {"forward", "cancel", "unknown", "undecodable"}
  /\ TcpKeys \subseteq Keys
  /\ MaxAsked \in Nat
  /\ BadStreams \in BOOLEAN
  /\ None \notin Listeners \cup Channels

VARIABLES
  loop,           (* where run_session is                                 *)
  pending,        (* the channel or listener an inline await is about     *)
  outcome,        (* its RunSessionOutcome                                *)
  hadSession,     (* had_session                                          *)
  acceptChannel,  (* the pinned accept_channel future                     *)
  acceptGlobal,   (* the pinned accept_global future                      *)
  channel,        (* the type of each channel and the state of its task   *)
  listener,       (* the key of each listener, its task and its sockets   *)
  handles,        (* tcp_forwards and unix_forwards: the listener by key  *)
  relay,          (* the relay of each connection                         *)
  shutdown,       (* the caller's token and its child channel_shutdown    *)
  forwardCancel,  (* forward_cancel                                       *)
  poisoned,       (* whether the control stream is poisoned               *)
  closed,         (* whether the client is gone                           *)
  asked           (* channels and global requests so far                  *)

futures == <<acceptChannel, acceptGlobal>>
tokens  == <<shutdown, forwardCancel>>
link    == <<poisoned, closed>>
vars == <<loop, pending, outcome, hadSession, futures, channel, listener,
          handles, relay, tokens, link, asked>>

LoopStates == {"select", "socks_accept", "rejecting", "forward", "cancel", "responding",
               "stopping", "join_channels", "join_forwards", "join_relays",
               "returned", "error", "panicked"}
Returned == {"returned", "error", "panicked"}
TaskStates == {"new", "accepting", "setup", "running", "aborting",
               "ok", "err", "panic", "gone"}
ListenerStates == {"unused", "bound", "running", "aborting", "inner",
                   "stopped"}

(* A TCP forward of localhost or of every address binds two sockets, with  *)
(* an accept loop each; a Unix forward binds one.                          *)
SocketsOf(k) == IF k \in TcpKeys THEN {"first", "second"} ELSE {"first"}

Init ==
  /\ loop = "select"
  /\ pending = None
  /\ outcome = "closed"
  /\ hadSession = FALSE
  /\ acceptChannel = "pending" /\ acceptGlobal = "pending"
  /\ channel = [c \in Channels |-> [kind |-> None, st |-> "new"]]
  /\ listener = [l \in Listeners |->
                   [key |-> None, st |-> "unused", socks |-> {}, joined |-> FALSE]]
  /\ handles = [k \in Keys |-> None]
  /\ relay = [x \in Conns |-> "none"]
  /\ shutdown = FALSE /\ forwardCancel = FALSE
  /\ poisoned = FALSE /\ closed = FALSE
  /\ asked = 0
-----------------------------------------------------------------------------
(* A channel task in the JoinSet that has not been joined. *)
Spawned(c) == channel[c].st \notin {"new", "gone"}
Finished(c) == channel[c].st \in {"ok", "err", "panic"}

(* Somebody is bound to this socket of the key: a listening socket, or a   *)
(* socket file.                                                            *)
Bound(k, s) == \E l \in Listeners : listener[l].key = k /\ s \in listener[l].socks

(* The task of `run' has ended; the accept loops inside may not have. *)
Joinable(l) == listener[l].st \in {"inner", "stopped"} /\ ~listener[l].joined
InForwardTasks(l) ==
  listener[l].st \notin {"unused", "bound"} /\ ~listener[l].joined

SetTask(c, st)     == channel' = [channel EXCEPT ![c].st = st]
SetListener(l, st) == listener' = [listener EXCEPT ![l].st = st]

(* Drop of the JoinSets: every task still in them is aborted, unawaited. *)
DropTasks ==
  /\ channel' = [c \in Channels |->
       IF ~Spawned(c) THEN channel[c]
       ELSE [channel[c] EXCEPT !.st = IF Finished(c) THEN "gone" ELSE "aborting"]]
  /\ listener' = [l \in Listeners |->
       IF listener[l].st = "running" THEN [listener[l] EXCEPT !.st = "aborting"]
       ELSE listener[l]]
-----------------------------------------------------------------------------
(* The branches of the select loop. *)

(* accept_channel is ready with a channel: session and direct channels are *)
(* dealt with at once and the future is set anew, a socks5 channel is      *)
(* confirmed and an unknown one rejected inline first.                     *)
AcceptChannel(c, kind) ==
  /\ loop = "select"
  /\ acceptChannel = "pending"
  /\ ~closed
  /\ kind \in Kinds
  /\ channel[c].st = "new"
  /\ c = CHOOSE d \in Channels : channel[d].st = "new"
  /\ asked < MaxAsked
  /\ asked' = asked + 1
  /\ hadSession' = (hadSession \/ kind = "session")
  /\ channel' = [channel EXCEPT ![c] =
       [kind |-> kind,
        st |-> CASE kind = "session" -> "accepting"
                 [] kind = "direct"  -> "running"
                 [] OTHER            -> "new"]]
  /\ CASE kind = "socks5"  -> loop' = "socks_accept" /\ pending' = c
       [] kind = "unknown" -> loop' = "rejecting" /\ pending' = c
       [] OTHER            -> UNCHANGED <<loop, pending>>
  /\ UNCHANGED <<outcome, futures, listener, handles, relay, tokens, link>>

SocksAccepted ==
  /\ loop = "socks_accept"
  /\ ~closed
  /\ SetTask(pending, "running")
  /\ loop' = "select" /\ pending' = None
  /\ UNCHANGED <<outcome, hadSession, futures, listener, handles, relay,
                 tokens, link, asked>>

(* A failure to reject is only logged. *)
Rejected ==
  /\ loop = "rejecting"
  /\ SetTask(pending, "gone")
  /\ loop' = "select" /\ pending' = None
  /\ UNCHANGED <<outcome, hadSession, futures, listener, handles, relay,
                 tokens, link, asked>>

(* The confirmation fails: `continue' leaves the completed accept_channel  *)
(* future where it is.                                                     *)
SocksFails ==
  /\ loop = "socks_accept"
  /\ SetTask(pending, "gone")
  /\ acceptChannel' = "completed"
  /\ loop' = "select" /\ pending' = None
  /\ UNCHANGED <<outcome, hadSession, acceptGlobal, listener, handles, relay,
                 tokens, link, asked>>

(* An async fn polled after its completion panics. *)
PollCompleted ==
  /\ loop = "select"
  /\ acceptChannel = "completed"
  /\ loop' = "panicked"
  /\ DropTasks
  /\ UNCHANGED <<pending, outcome, hadSession, futures, handles, relay, tokens,
                 link, asked>>

(* Either accept future fails: the loop ends. *)
AcceptChannelEnds ==
  /\ loop = "select"
  /\ acceptChannel = "pending"
  /\ closed \/ BadStreams
  /\ acceptChannel' = "failed"
  /\ loop' = "stopping"
  /\ UNCHANGED <<pending, outcome, hadSession, acceptGlobal, channel, listener,
                 handles, relay, tokens, link, asked>>

AcceptGlobalEnds ==
  /\ loop = "select"
  /\ closed \/ poisoned
  /\ acceptGlobal' = "failed"
  /\ loop' = "stopping"
  /\ UNCHANGED <<pending, outcome, hadSession, acceptChannel, channel, listener,
                 handles, relay, tokens, link, asked>>

(* Mutant: the session is over with its first finished task. *)
ReapChannel_First(c) ==
  /\ loop = "select"
  /\ Finished(c)
  /\ SetTask(c, "gone")
  /\ IF hadSession THEN outcome' = "finished" /\ loop' = "stopping"
                   ELSE UNCHANGED <<outcome, loop>>
  /\ UNCHANGED <<pending, hadSession, futures, listener, handles, relay, tokens,
                 link, asked>>

(* A finished channel task is reaped: its error ends the session at once,  *)
(* the last one ends it in good order.                                     *)
ReapChannel(c) ==
  /\ loop = "select"
  /\ Finished(c)
  /\ IF channel[c].st = "err"
       THEN loop' = "error" /\ DropTasks /\ UNCHANGED outcome
       ELSE /\ SetTask(c, "gone")
            /\ UNCHANGED listener
            /\ IF hadSession /\ \A d \in Channels \ {c} : ~Spawned(d)
                 THEN outcome' = "finished" /\ loop' = "stopping"
                 ELSE UNCHANGED <<outcome, loop>>
  /\ UNCHANGED <<pending, hadSession, futures, handles, relay, tokens, link, asked>>

ReapForward(l) ==
  /\ loop \in {"select", "join_forwards"}
  /\ Joinable(l)
  /\ listener' = [listener EXCEPT ![l].joined = TRUE]
  /\ UNCHANGED <<loop, pending, outcome, hadSession, futures, channel, handles,
                 relay, tokens, link, asked>>

SeeShutdown ==
  /\ loop = "select"
  /\ shutdown
  /\ outcome' = "shutdown"
  /\ loop' = "stopping"
  /\ UNCHANGED <<pending, hadSession, futures, channel, listener, handles, relay,
                 tokens, link, asked>>
-----------------------------------------------------------------------------
(* dispatch_global, inline in the loop. *)

(* accept_global is ready with a message. *)
GlobalReady(kind) ==
  /\ loop = "select"
  /\ kind \in Globals
  /\ ~closed /\ ~poisoned
  /\ asked < MaxAsked
  /\ asked' = asked + 1

(* A forward or a cancel: its body is awaited inline (decode_payload), and *)
(* nothing else of the loop is polled until it has arrived.                *)
AwaitBody(kind) ==
  /\ kind \in {"forward", "cancel"}
  /\ GlobalReady(kind)
  /\ loop' = kind
  /\ UNCHANGED <<pending, outcome, hadSession, futures, channel, listener, handles,
                 relay, tokens, link>>

(* The body does not decode, or will not come any more: poison. *)
BodyFails ==
  /\ loop \in {"forward", "cancel"}
  /\ closed \/ "undecodable" \in Globals
  /\ poisoned' = TRUE
  /\ loop' = "select"
  /\ UNCHANGED <<pending, outcome, hadSession, futures, channel, listener, handles,
                 relay, tokens, closed, asked>>

(* Which of the unused names a new listener gets is of no account. *)
Bind(l, k, socks) ==
  /\ listener[l].st = "unused"
  /\ l = CHOOSE m \in Listeners : listener[m].st = "unused"
  /\ listener' = [listener EXCEPT ![l].key = k, ![l].st = "bound", ![l].socks = socks]
  /\ pending' = l

(* Mutant: sockets are bound with SO_REUSEPORT. *)
Forward_Reuse(k) ==
  /\ loop = "forward"
  /\ \E l \in Listeners : Bind(l, k, SocketsOf(k))
  /\ loop' = "responding"
  /\ UNCHANGED <<outcome, hadSession, futures, channel, handles, relay, tokens, link, asked>>

(* tcpip-forward and streamlocal-forward: bind, or fail to, then answer.   *)
(* Once the first socket is bound, one more that cannot be is passed over. *)
Forward(k) ==
  /\ loop = "forward"
  /\ \/ \E l \in Listeners, socks \in SUBSET SocketsOf(k) :
           /\ "first" \in socks
           /\ \A s \in socks : ~Bound(k, s)
           /\ Bind(l, k, socks)
     \/ UNCHANGED <<listener, pending>>
  /\ loop' = "responding"
  /\ UNCHANGED <<outcome, hadSession, futures, channel, handles, relay, tokens, link, asked>>

(* cancel-*-forward: abort the listener of the key, then answer. *)
Cancel(k) ==
  /\ loop = "cancel"
  /\ handles' = [handles EXCEPT ![k] = None]
  /\ listener' = [l \in Listeners |->
       IF l = handles[k] /\ listener[l].st = "running"
         THEN [listener[l] EXCEPT !.st = "aborting"] ELSE listener[l]]
  /\ loop' = "responding"
  /\ UNCHANGED <<pending, outcome, hadSession, futures, channel, relay, tokens, link, asked>>

(* The answer is on its way: a new listener is spawned and entered, in the *)
(* place of whatever handle there was under its key.                       *)
Responded ==
  /\ loop = "responding"
  /\ ~closed
  /\ IF pending = None THEN UNCHANGED <<listener, handles>>
     ELSE /\ SetListener(pending, "running")
          /\ handles' = [handles EXCEPT ![listener[pending].key] = pending]
  /\ loop' = "select" /\ pending' = None
  /\ UNCHANGED <<outcome, hadSession, futures, channel, relay, tokens, link, asked>>

(* The answer cannot be written: poisoned, and the new listener dropped. *)
RespondFails ==
  /\ loop = "responding"
  /\ closed
  /\ poisoned' = TRUE
  /\ IF pending = None THEN UNCHANGED listener
     ELSE listener' = [listener EXCEPT ![pending].st = "stopped",
                                       ![pending].socks = {},
                                       ![pending].joined = TRUE]
  /\ loop' = "select" /\ pending' = None
  /\ UNCHANGED <<outcome, hadSession, futures, channel, handles, relay, tokens,
                 closed, asked>>

(* Unknown requests and notices: poison. *)
PoisonGlobal ==
  /\ GlobalReady("unknown")
  /\ poisoned' = TRUE
  /\ UNCHANGED <<loop, pending, outcome, hadSession, futures, channel, listener,
                 handles, relay, tokens, closed>>
-----------------------------------------------------------------------------
(* After the loop. *)

(* Mutant: forward_cancel is forgotten. *)
CancelTokens_KeepsRelays ==
  /\ loop = "stopping"
  /\ shutdown' = TRUE
  /\ loop' = "join_channels"
  /\ UNCHANGED <<pending, outcome, hadSession, futures, channel, listener, handles,
                 relay, forwardCancel, link, asked>>

CancelTokens ==
  /\ loop = "stopping"
  /\ shutdown' = TRUE /\ forwardCancel' = TRUE
  /\ loop' = "join_channels"
  /\ UNCHANGED <<pending, outcome, hadSession, futures, channel, listener, handles,
                 relay, link, asked>>

(* The remaining channel tasks are joined; an error still ends it at once. *)
JoinChannel(c) ==
  /\ loop = "join_channels"
  /\ Finished(c)
  /\ IF channel[c].st = "err"
       THEN loop' = "error" /\ DropTasks
       ELSE SetTask(c, "gone") /\ UNCHANGED <<loop, listener>>
  /\ UNCHANGED <<pending, outcome, hadSession, futures, handles, relay, tokens,
                 link, asked>>

(* Mutant: the listeners are left to run. *)
AbortForwards_Forgotten ==
  /\ loop = "join_channels"
  /\ \A c \in Channels : ~Spawned(c)
  /\ loop' = "join_forwards"
  /\ UNCHANGED <<pending, outcome, hadSession, futures, channel, listener, handles,
                 relay, tokens, link, asked>>

(* No channel task is left: every listener with a handle is aborted. *)
AbortForwards ==
  /\ loop = "join_channels"
  /\ \A c \in Channels : ~Spawned(c)
  /\ listener' = [l \in Listeners |->
       IF (\E k \in Keys : handles[k] = l) /\ listener[l].st = "running"
         THEN [listener[l] EXCEPT !.st = "aborting"] ELSE listener[l]]
  /\ handles' = [k \in Keys |-> None]
  /\ loop' = "join_forwards"
  /\ UNCHANGED <<pending, outcome, hadSession, futures, channel, relay, tokens,
                 link, asked>>

(* forward_tasks is empty, then the tracker of the relays is. *)
CloseRelays ==
  /\ loop = "join_forwards"
  /\ \A l \in Listeners : ~InForwardTasks(l)
  /\ loop' = "join_relays"
  /\ UNCHANGED <<pending, outcome, hadSession, futures, channel, listener, handles,
                 relay, tokens, link, asked>>

Return ==
  /\ loop = "join_relays"
  /\ \A x \in Conns : relay[x] \in {"none", "done"}
  /\ loop' = "returned"
  /\ UNCHANGED <<pending, outcome, hadSession, futures, channel, listener, handles,
                 relay, tokens, link, asked>>

RunSession ==
  \/ \E c \in Channels, kind \in Kinds : AcceptChannel(c, kind)
  \/ SocksAccepted \/ SocksFails \/ Rejected \/ PollCompleted
  \/ AcceptChannelEnds \/ AcceptGlobalEnds
  \/ \E c \in Channels : ReapChannel(c) \/ JoinChannel(c)
  \/ \E l \in Listeners : ReapForward(l)
  \/ \E kind \in Globals : AwaitBody(kind)
  \/ \E k \in Keys : Forward(k) \/ Cancel(k)
  \/ BodyFails
  \/ Responded \/ RespondFails \/ PoisonGlobal
  \/ SeeShutdown \/ CancelTokens \/ AbortForwards \/ CloseRelays \/ Return
-----------------------------------------------------------------------------
(* The tasks. *)

task(c, from, to) ==
  /\ channel[c].st = from
  /\ SetTask(c, to)
  /\ UNCHANGED <<loop, pending, outcome, hadSession, futures, listener, handles,
                 relay, tokens, link, asked>>

(* A session channel is confirmed and set up, each raced with shutdown;    *)
(* a failure of either is not an error of the session.                     *)
SessionProceeds(c) ==
  \/ \E to \in {"setup", "ok"} : task(c, "accepting", to)
  \/ \E to \in {"running", "ok"} : task(c, "setup", to)

SessionCancelled(c) ==
  /\ shutdown
  /\ task(c, "accepting", "ok") \/ task(c, "setup", "ok")

(* A process, or a forward's relay, ends or panics. *)
TaskEnds(c) ==
  \E to \in {"ok", "panic"} \cup (IF channel[c].kind = "session" THEN {"err"} ELSE {}) :
    task(c, "running", to)

TaskTerminated(c) == shutdown /\ TaskEnds(c)

TaskAborted(c) == task(c, "aborting", "gone")

listening(l, from, to, socks) ==
  /\ listener[l].st = from
  /\ listener' = [listener EXCEPT ![l].st = to, ![l].socks = socks]
  /\ UNCHANGED <<loop, pending, outcome, hadSession, futures, channel, handles,
                 relay, tokens, link, asked>>

(* An accept that fails ends the accept loop of that socket alone, and the *)
(* task of `run' with the last of them.                                    *)
ListenerFails(l, s) ==
  LET left == listener[l].socks \ {s}
  IN /\ s \in listener[l].socks
     /\ \/ listening(l, "running", IF left = {} THEN "stopped" ELSE "running", left)
        \/ listening(l, "aborting", "aborting", left)

(* An abort takes effect when the task is next polled.  `run' of a TCP     *)
(* forward drops the JoinSet of its accept loops, which end later still,   *)
(* one by one.                                                             *)
ListenerAborted(l) ==
  \/ /\ listener[l].key \in TcpKeys /\ listener[l].socks # {}
     /\ listening(l, "aborting", "inner", listener[l].socks)
  \/ /\ listener[l].key \notin TcpKeys \/ listener[l].socks = {}
     /\ listening(l, "aborting", "stopped", {})

InnerAborted(l, s) ==
  LET left == listener[l].socks \ {s}
  IN /\ s \in listener[l].socks
     /\ listening(l, "inner", IF left = {} THEN "stopped" ELSE "inner", left)

SetRelay(x, st) ==
  /\ relay' = [relay EXCEPT ![x] = st]
  /\ UNCHANGED <<loop, pending, outcome, hadSession, futures, channel, listener,
                 handles, tokens, link, asked>>

(* An accept loop takes a connection and spawns its relay on the tracker.  *)
(* One that was running when it was aborted may do so once more.           *)
Connect(x) ==
  /\ relay[x] = "none"
  /\ \E l \in Listeners :
       listener[l].st \in {"running", "aborting", "inner"} /\ listener[l].socks # {}
  /\ SetRelay(x, "opening")

(* open_channel is not raced with relay_cancel. *)
ChannelOpened(x) ==
  /\ relay[x] = "opening"
  /\ \E st \in {"relaying", "done"} : SetRelay(x, st)

RelayEnds(x) == relay[x] = "relaying" /\ SetRelay(x, "done")

RelayCancelled(x) == forwardCancel /\ RelayEnds(x)
-----------------------------------------------------------------------------
(* The caller and the client. *)

Shutdown ==
  /\ ~shutdown
  /\ shutdown' = TRUE
  /\ UNCHANGED <<loop, pending, outcome, hadSession, futures, channel, listener,
                 handles, relay, forwardCancel, link, asked>>

ClientLeaves ==
  /\ ~closed
  /\ closed' = TRUE
  /\ UNCHANGED <<loop, pending, outcome, hadSession, futures, channel, listener,
                 handles, relay, tokens, poisoned, asked>>

Tasks ==
  \/ \E c \in Channels : \/ SessionProceeds(c) \/ SessionCancelled(c)
                         \/ TaskEnds(c) \/ TaskAborted(c)
  \/ \E l \in Listeners : \/ ListenerAborted(l)
                          \/ \E s \in {"first", "second"} :
                               ListenerFails(l, s) \/ InnerAborted(l, s)
  \/ \E x \in Conns : Connect(x) \/ ChannelOpened(x) \/ RelayEnds(x)

Next == RunSession \/ Tasks \/ Shutdown \/ ClientLeaves

Spec == Init /\ [][Next]_vars

(* What the loop does without a message from the client, or the body of    *)
(* one.                                                                    *)
LoopRuns ==
  \/ SocksAccepted \/ SocksFails \/ Rejected \/ PollCompleted
  \/ closed /\ AcceptChannelEnds
  \/ AcceptGlobalEnds
  \/ \E c \in Channels : ReapChannel(c) \/ JoinChannel(c)
  \/ \E l \in Listeners : ReapForward(l)
  \/ closed /\ BodyFails
  \/ Responded \/ RespondFails
  \/ SeeShutdown \/ CancelTokens \/ AbortForwards \/ CloseRelays \/ Return

(* What a task does without a message from the client, a process it waits  *)
(* for or a connection.                                                    *)
ChannelRuns(c)  == SessionCancelled(c) \/ TaskTerminated(c) \/ TaskAborted(c)
ListenerRuns(l) ==
  ListenerAborted(l) \/ \E s \in {"first", "second"} : InnerAborted(l, s)
RelayRuns(x)    == ChannelOpened(x) \/ RelayCancelled(x)

(* The runtime polls whatever is ready.  The client answers the channels   *)
(* it is asked to open and reads the control stream, or is seen to have    *)
(* left, and a process whose token is cancelled ends.  Nothing makes the   *)
(* client or the caller do anything else: the body of a request may never  *)
(* come.                                                                   *)
Fairness ==
  /\ WF_vars(LoopRuns)
  /\ \A c \in Channels : WF_vars(ChannelRuns(c))
  /\ \A l \in Listeners : WF_vars(ListenerRuns(l))
  /\ \A x \in Conns : WF_vars(RelayRuns(x))

FairSpec == Spec /\ Fairness
-----------------------------------------------------------------------------
(* Every variable holds a value the code's types allow. *)
TypeOK ==
  /\ loop \in LoopStates
  /\ pending \in Channels \cup Listeners \cup {None}
  /\ outcome \in {"closed", "finished", "shutdown"}
  /\ {hadSession, shutdown, forwardCancel, poisoned, closed} \subseteq BOOLEAN
  /\ {acceptChannel, acceptGlobal} \subseteq {"pending", "completed", "failed"}
  /\ channel \in [Channels -> [kind : Kinds \cup {None}, st : TaskStates]]
  /\ listener \in [Listeners -> [key : Keys \cup {None}, st : ListenerStates,
                                 socks : SUBSET {"first", "second"}, joined : BOOLEAN]]
  /\ handles \in [Keys -> Listeners \cup {None}]
  /\ relay \in [Conns -> {"none", "opening", "relaying", "done"}]
  /\ asked \in 0..MaxAsked

Broke == loop \notin {"select", "socks_accept", "rejecting", "forward", "cancel",
                   "responding"}

(* "At least one session channel ran and all channel tasks completed"      *)
(* (RunSessionOutcome::SessionFinished): the loop gives this outcome only  *)
(* when no channel task of any kind is left, and it takes on none later.   *)
FinishedMeansDone ==
  Broke /\ outcome = "finished" =>
    /\ \E c \in Channels : channel[c].kind = "session"
    /\ \A c \in Channels : ~Spawned(c)

(* A listener that runs can be cancelled: the handle kept under its key is *)
(* its own, so that a later cancel request and the end of the session      *)
(* reach it, however forwards and cancels for a key follow on each other   *)
(* and accept loops end.  Excepted is a listener that has lost the accept  *)
(* loop of its first socket and goes on with the second: a forward of the  *)
(* same key can bind again, and its handle takes the place of this one.    *)
(* All state is well typed besides.                                        *)
ListenerHasHandle ==
  /\ TypeOK
  /\ \A l \in Listeners :
       listener[l].st = "running" /\ "first" \in listener[l].socks =>
         handles[listener[l].key] = l

(* What holds run_session for good: a client that withholds the body of a  *)
(* request, which is awaited in the loop; and at its end a listener whose  *)
(* handle was lost as above, which is joined but was not aborted.          *)
Held ==
  \/ loop \in {"forward", "cancel"}
  \/ /\ loop = "join_forwards"
     /\ \E l \in Listeners :
          /\ listener[l].st = "running" /\ "first" \notin listener[l].socks
          /\ \E m \in Listeners \ {l} : listener[m].key = listener[l].key

(* The caller's shutdown makes run_session return, whatever it is doing;   *)
(* and once a session channel has been accepted and every channel task is  *)
(* over, run_session returns by itself; unless it is held as above for     *)
(* ever.                                                                   *)
SessionReturns ==
  \/ <>[]Held
  \/ /\ shutdown ~> loop \in Returned
     /\ (hadSession /\ \A c \in Channels : Spawned(c) => Finished(c))
          ~> (loop \in Returned \/ \E c \in Channels : Spawned(c) /\ ~Finished(c))

Quiet ==
  /\ \A c \in Channels : ~Spawned(c)
  /\ \A l \in Listeners : listener[l].st \in {"unused", "stopped"}
  /\ \A x \in Conns : relay[x] \in {"none", "done"}

(* A session that returns an outcome leaves nothing running behind: not    *)
(* the accept loops aborted but not awaited, nor a relay they started      *)
(* after the tracker was found empty.                                      *)
ReturnBecomesQuiet == (loop = "returned") ~> []Quiet

(* "Reset the pinned future for the next channel" (run_session): the loop  *)
(* never polls an accept future that has completed.                        *)
FuturesAreFresh == loop = "select" => acceptChannel # "completed"

=============================================================================
