---------------------------- MODULE SessionChannel ----------------------------
(***************************************************************************)
(* One session channel from end to end: Conversation::open_channel, the    *)
(* set-up calls and the two relays of ClientSession (session/client.rs) at *)
(* the client; accept_channel, session_setup and the start of the command  *)
(* (session/dispatcher.rs) and the input relay (session/process.rs) at the *)
(* server; between them the messages of conversation/channel.rs.           *)
(*                                                                         *)
(* A message is its head, the fields next_event reads, followed by a body  *)
(* if it has one.  Whoever handles a head and does not read the body       *)
(* leaves it in front of the next message.  What the command does with its *)
(* output is SessionProcess; here it only has to be some such output.      *)
(***************************************************************************)
EXTENDS Naturals, Sequences

CONSTANTS
  Plans,       (* the set-up calls a client may make, in order            *)
  MaxStdin,    (* bound on the chunks of the client's standard input      *)
  MaxResize,   (* bound on the sizes its resize stream yields             *)
  MaxOutput    (* bound on the chunks the command writes                  *)

Requests == {"pty-req", "env", "exec", "shell", "unknown"}

(* A plan is what the doc of ClientSession shows: requests that prepare    *)
(* the session, and exec or shell as the last call before run.             *)
ASSUME ChannelAssumption ==
  /\ \A p \in Plans : /\ p \in Seq(Requests) /\ p # <<>>
                      /\ \A n \in 1..Len(p) : p[n] \in {"exec", "shell"} <=> n = Len(p)
  /\ MaxStdin \in Nat /\ MaxResize \in Nat /\ MaxOutput \in Nat

VARIABLES
  kind,       (* the type of the channel the client opens                 *)
  plan,       (* set-up calls the client has still to make                *)
  client,     (* where the client is                                      *)
  stdin,      (* where relay_stdin is                                     *)
  typed,      (* chunks relay_stdin has read                              *)
  resized,    (* sizes it has read                                        *)
  exitSeen,   (* exit_result.is_some() in relay_output                    *)
  shown,      (* what relay_output has copied out                         *)
  result,     (* what the client's last call returned                     *)
  server,     (* where the channel task of the server is                  *)
  pty,        (* pty_request.is_some()                                    *)
  isShell,    (* is_shell                                                 *)
  written,    (* output messages the server has written                   *)
  exited,     (* the exit notice was written, and the input relay stopped *)
  input,      (* where the server's input relay is                        *)
  fed,        (* chunks it has given to the command                       *)
  inputEof,   (* history: it ended on the client's EOF                    *)
  wire,       (* heads and bodies under way, "up" to the server, "down"   *)
  end         (* whether a direction was finished or reset                *)

clientVars == <<kind, plan, client, stdin, typed, resized, exitSeen, shown, result>>
serverVars == <<server, pty, isShell, written, exited, input, fed, inputEof>>
streams    == <<wire, end>>
vars == <<clientVars, serverVars, streams>>

None == "none"
Dirs == {"up", "down"}
Body == "body"
WithBody == {"confirmation", "failure-open", "pty-req", "env", "exec",
             "window-change", "data", "extended-data", "exit"}
Bodiless == {"session", "other", "shell", "unknown", "success", "failure",
             "eof", "close"}
Heads    == WithBody \cup Bodiless
Output   == {"data", "extended-data"}

Init ==
  /\ kind \in {"session", "other"} /\ plan \in Plans
  /\ client = "open" /\ stdin = None /\ typed = 0 /\ resized = 0
  /\ exitSeen = FALSE /\ shown = <<>> /\ result = None
  /\ server = "listen" /\ pty = FALSE /\ isShell = FALSE
  /\ written = <<>> /\ exited = FALSE
  /\ input = None /\ fed = 0 /\ inputEof = FALSE
  /\ wire = [d \in Dirs |-> <<>>] /\ end = [d \in Dirs |-> "open"]
-----------------------------------------------------------------------------
(* A message is written and flushed by one call of SshChannelWriter,       *)
(* request, accept or reject; a writer whose future was dropped in the     *)
(* middle of one leaves its head without its body.                         *)
Message(k) == IF k \in WithBody THEN <<k, Body>> ELSE <<k>>

Put(d, ks) == wire' = [wire EXCEPT ![d] = @ \o ks] /\ UNCHANGED end

Exchange(d, n, e, ks) ==
  wire' = [wire EXCEPT ![d] = SubSeq(@, n + 1, Len(@)), ![e] = @ \o ks]

Take(d, n) == wire' = [wire EXCEPT ![d] = SubSeq(@, n + 1, Len(@))]

(* Dropping a writer ends its direction; whether the transport finishes or *)
(* resets the stream is its own affair, and a reset may lose messages.     *)
DropWriter(d, cut) ==
  IF end[d] # "open" THEN UNCHANGED streams
  ELSE \E how \in {"fin", "reset"}, m \in {<<>>} \cup {<<k>> : k \in cut} :
         /\ end' = [end EXCEPT ![d] = how]
         /\ wire' = [wire EXCEPT ![d] = @ \o m]

At(d, k)  == wire[d] # <<>> /\ wire[d][1] = k
Size(k)   == IF k \in WithBody THEN 2 ELSE 1
Whole(d, k) == At(d, k) /\ Len(wire[d]) >= Size(k)

(* next_event or decode_one fails: at the end of the stream, inside of a   *)
(* message that was cut, or because the stream was reset.                  *)
Broken(d) ==
  \/ end[d] = "reset"
  \/ end[d] = "fin" /\ Len(wire[d]) = 1 /\ wire[d][1] \in WithBody
CleanEnd(d) == end[d] = "fin" /\ wire[d] = <<>>

(* Nothing the reader can handle comes: an unexpected message type, which  *)
(* a body in the place of a message counts as, is an error as well.        *)
Misplaced(d, ks) == wire[d] # <<>> /\ wire[d][1] \notin ks
Unread(d, ks) == Broken(d) \/ CleanEnd(d) \/ Misplaced(d, ks)
-----------------------------------------------------------------------------
(* The client.  A call that fails drops the channel.                       *)
Gone(r, cut) ==
  /\ client' = "done" /\ result' = r
  /\ DropWriter("up", cut)

OpenChannel ==
  /\ client = "open" /\ end["up"] = "open"
  /\ Put("up", Message(kind))
  /\ client' = "confirm"
  /\ UNCHANGED <<kind, plan, stdin, typed, resized, exitSeen, shown, result,
                 serverVars>>

(* read_channel_open_response.                                             *)
Confirmed ==
  /\ client = "confirm" /\ Whole("down", "confirmation")
  /\ Take("down", 2)
  /\ client' = "setup"
  /\ UNCHANGED <<kind, plan, stdin, typed, resized, exitSeen, shown, result,
                 serverVars, end>>

Refused ==
  /\ client = "confirm" /\ Whole("down", "failure-open")
  /\ Gone("refused", {})
  /\ UNCHANGED <<kind, plan, stdin, typed, resized, exitSeen, shown,
                 serverVars>>

(* SshChannel::request, up to the flush.                                   *)
SendRequest ==
  /\ client = "setup" /\ end["up"] = "open"
  /\ Put("up", Message(Head(plan)))
  /\ client' = "reply"
  /\ UNCHANGED <<kind, plan, stdin, typed, resized, exitSeen, shown, result,
                 serverVars>>

(* ... and from there: a reply, and ClientSession::run behind the last.    *)
(* The caller goes on when an optional request was rejected.               *)
ReadReply ==
  /\ client = "reply" /\ wire["down"] # <<>>
  /\ wire["down"][1] \in {"success", "failure"}
  /\ Take("down", 1)
  /\ plan' = Tail(plan)
  /\ client' = IF plan' = <<>> THEN "run" ELSE "setup"
  /\ stdin' = IF plan' = <<>> THEN "read" ELSE None
  /\ UNCHANGED <<kind, typed, resized, exitSeen, shown, result, serverVars, end>>

CallFails ==
  /\ \/ client \in {"open", "setup"} /\ end["up"] = "reset"
     \/ client = "confirm" /\ Unread("down", {"confirmation", "failure-open"})
     \/ client = "reply" /\ Unread("down", {"success", "failure"})
  /\ Gone("err", {})
  /\ UNCHANGED <<kind, plan, stdin, typed, resized, exitSeen, shown,
                 serverVars>>
-----------------------------------------------------------------------------
(* relay_stdin and relay_stdin_interactive.  A write fails when the stream *)
(* is lost or the server has dropped its end of it.                        *)
WriteFails == end["up"] = "reset" \/ server = "over"

SendInput ==
  /\ client = "run" /\ stdin = "read" /\ typed < MaxStdin
  /\ typed' = typed + 1
  /\ \/ end["up"] = "open" /\ Put("up", Message("data")) /\ UNCHANGED stdin
     \/ WriteFails /\ stdin' = "eof" /\ UNCHANGED streams
  /\ UNCHANGED <<kind, plan, client, resized, exitSeen, shown, result,
                 serverVars>>

(* run_interactive is for a client that asked for a terminal.  A notice    *)
(* that cannot be sent is logged.                                          *)
SendResize ==
  /\ client = "run" /\ stdin = "read" /\ pty /\ resized < MaxResize
  /\ resized' = resized + 1
  /\ \/ end["up"] = "open" /\ Put("up", Message("window-change"))
     \/ WriteFails /\ UNCHANGED streams
  /\ UNCHANGED <<kind, plan, client, stdin, typed, exitSeen, shown, result,
                 serverVars>>

StdinEnds ==
  /\ client = "run" /\ stdin = "read"
  /\ stdin' = "eof"
  /\ UNCHANGED <<kind, plan, client, typed, resized, exitSeen, shown, result,
                 serverVars, streams>>

(* Errors of the last three calls are ignored.                             *)
SendLast(from, to) ==
  /\ client = "run" /\ stdin = from
  /\ IF end["up"] = "open" /\ server # "over" THEN Put("up", Message(from))
                                             ELSE UNCHANGED streams
  /\ stdin' = to
  /\ UNCHANGED <<kind, plan, client, typed, resized, exitSeen, shown, result,
                 serverVars>>

ShutdownWriter ==
  /\ client = "run" /\ stdin = "shutdown"
  /\ end' = [end EXCEPT !["up"] = IF @ = "open" THEN "fin" ELSE @]
  /\ stdin' = "over"
  /\ UNCHANGED <<kind, plan, client, typed, resized, exitSeen, shown, result,
                 serverVars, wire>>
-----------------------------------------------------------------------------
(* relay_output.  When it ends, the select of run is over in the same      *)
(* poll: relay_stdin is dropped wherever it is, its `done` signal unseen.  *)
Returned(r) == Gone(r, IF stdin = "read" THEN {"data", "window-change"} ELSE {})
ExitResult == IF exitSeen THEN "exit" ELSE "no exit"

ShowOutput(k) ==
  /\ client = "run" /\ Whole("down", k)
  /\ Take("down", 2)
  /\ shown' = Append(shown, k)
  /\ UNCHANGED <<kind, plan, client, stdin, typed, resized, exitSeen, result,
                 serverVars, end>>

(* Mutant: the relay ends with the exit notice.                            *)
ReadExit_Returns ==
  /\ client = "run" /\ Whole("down", "exit")
  /\ exitSeen' = TRUE
  /\ Returned("exit")
  /\ UNCHANGED <<kind, plan, stdin, typed, resized, shown, serverVars>>

ReadExit ==
  /\ client = "run" /\ Whole("down", "exit")
  /\ Take("down", 2)
  /\ exitSeen' = TRUE
  /\ UNCHANGED <<kind, plan, client, stdin, typed, resized, shown, result,
                 serverVars, end>>

(* EOF is logged, and a stray success or failure passed over.              *)
SkipEvent ==
  /\ client = "run" /\ wire["down"] # <<>>
  /\ wire["down"][1] \in {"eof", "success", "failure"}
  /\ Take("down", 1)
  /\ UNCHANGED <<clientVars, serverVars, end>>

ReadClose ==
  /\ client = "run" /\ At("down", "close")
  /\ Returned(ExitResult)
  /\ UNCHANGED <<kind, plan, stdin, typed, resized, exitSeen, shown,
                 serverVars>>

(* Mutant: the end of the stream without a Close is waited over.           *)
OutputEnds_Waits ==
  /\ client = "run" /\ Broken("down")
  /\ Returned(IF exitSeen THEN "exit" ELSE "err")
  /\ UNCHANGED <<kind, plan, stdin, typed, resized, exitSeen, shown,
                 serverVars>>

(* The end of the stream, or an error, which the exit excuses.  A body     *)
(* that was cut is copied as far as it goes, and the stream ends behind    *)
(* it; a cut exit notice is an error in any case.                          *)
OutputEnds ==
  /\ client = "run"
  /\ \/ CleanEnd("down") /\ Returned(ExitResult)
     \/ (Broken("down") \/ Misplaced("down", Heads))
        /\ Returned(IF exitSeen THEN "exit" ELSE "err")
     \/ Broken("down") /\ At("down", "exit") /\ Returned("err")
     \/ Broken("down") /\ (\E k \in Output : At("down", k)) /\ end["down"] = "fin"
        /\ Returned(ExitResult)
  /\ UNCHANGED <<kind, plan, stdin, typed, resized, exitSeen, shown,
                 serverVars>>

(* Writing to the local stdout or stderr fails.                            *)
ShowFails ==
  /\ client = "run" /\ \E k \in Output : At("down", k)
  /\ Returned("err")
  /\ UNCHANGED <<kind, plan, stdin, typed, resized, exitSeen, shown,
                 serverVars>>

(* The caller drops the call, or run, that it is waiting for.              *)
CallDropped ==
  /\ client \notin {"open", "done"}
  /\ CASE client = "setup" -> Gone("dropped", {Head(plan)} \cap WithBody)
       [] client = "run" -> Returned("dropped")
       [] OTHER -> Gone("dropped", {})
  /\ UNCHANGED <<kind, plan, stdin, typed, resized, exitSeen, shown,
                 serverVars>>
-----------------------------------------------------------------------------
(* The channel task of the server.  Its end drops both halves.             *)
TaskOver(cut) ==
  /\ server' = "over" /\ input' = "done"
  /\ DropWriter("down", cut)

(* Conversation::accept_channel and the dispatch on the channel type.      *)
AcceptChannel ==
  /\ server = "listen" /\ wire["up"] # <<>>
  /\ Take("up", 1)
  /\ server' = IF wire["up"][1] = "session" THEN "accept" ELSE "reject"
  /\ UNCHANGED <<clientVars, pty, isShell, written, exited, input, fed,
                 inputEof, end>>

Accept ==
  /\ server = "accept" /\ end["down"] = "open"
  /\ Put("down", Message("confirmation"))
  /\ server' = "setup"
  /\ UNCHANGED <<clientVars, pty, isShell, written, exited, input, fed,
                 inputEof>>

(* The pending channel is dropped behind the message: the answer goes out  *)
(* here and the streams in ServerEnds.                                     *)
Reject ==
  /\ server = "reject" /\ end["down"] = "open"
  /\ Put("down", Message("failure-open"))
  /\ server' = "rejected"
  /\ UNCHANGED <<clientVars, pty, isShell, written, exited, input, fed,
                 inputEof>>

(* session_setup.  A failure to reply is ignored.                          *)
Reply(n, ks) ==
  /\ Exchange("up", n, "down", IF end["down"] = "open" THEN ks ELSE <<>>)
  /\ UNCHANGED end

(* Mutant: the terminal type is not decoded.                               *)
SetupRequest_Undecoded(r) ==
  /\ server = "setup" /\ Whole("up", r)
  /\ Reply(1, Message("success"))
  /\ pty' = (pty \/ r = "pty-req")
  /\ isShell' = (isShell \/ r = "shell")
  /\ server' = IF r \in {"exec", "shell"} THEN "start" ELSE "setup"
  /\ UNCHANGED <<clientVars, written, exited, input, fed, inputEof>>

(* Mutant: the message of the day is sent before the reply.                *)
SetupRequest_MotdFirst(r) ==
  /\ server = "setup" /\ Whole("up", r)
  /\ Reply(Size(r), IF pty /\ r = "shell" THEN Message("data") \o Message("success")
                                          ELSE Message("success"))
  /\ pty' = (pty \/ r = "pty-req")
  /\ isShell' = (isShell \/ r = "shell")
  /\ server' = IF r \in {"exec", "shell"} THEN "start" ELSE "setup"
  /\ UNCHANGED <<clientVars, written, exited, input, fed, inputEof>>

SetupRequest(r) ==
  /\ server = "setup" /\ Whole("up", r)
  /\ Reply(Size(r), Message("success"))
  /\ pty' = (pty \/ r = "pty-req")
  /\ isShell' = (isShell \/ r = "shell")
  /\ server' = IF r \in {"exec", "shell"} THEN "start" ELSE "setup"
  /\ UNCHANGED <<clientVars, written, exited, input, fed, inputEof>>

(* An empty payload is "decoded" to answer an unknown request, and any     *)
(* other event is passed over: a body they have stays where it is.         *)
SetupIgnores ==
  /\ server = "setup" /\ wire["up"] # <<>>
  /\ wire["up"][1] \in {"unknown", "data", "window-change"}
  /\ Reply(1, IF At("up", "unknown") THEN Message("failure") ELSE <<>>)
  /\ UNCHANGED <<clientVars, serverVars>>

(* EOF, Close or an error: set-up fails.                                   *)
SetupFails ==
  /\ server = "setup" /\ Unread("up", Heads \ {"eof", "close"})
  /\ TaskOver({})
  /\ UNCHANGED <<clientVars, pty, isShell, written, exited, fed, inputEof>>

(* allocate_pty, the message of the day, and the spawn in run_piped or     *)
(* run_pty; what fails here ends in ServerEnds.                            *)
StartCommand ==
  /\ server = "start"
  /\ \/ /\ isShell /\ pty /\ end["down"] = "open"
        /\ Put("down", Message("data"))
        /\ written' = Append(written, "data")
     \/ UNCHANGED <<streams, written>>
  /\ server' = "run" /\ input' = "select"
  /\ UNCHANGED <<clientVars, pty, isShell, exited, fed, inputEof>>

(* The output relay of SessionProcess, in the order CompletionOrder has.   *)
WriteOutput(k) ==
  /\ server = "run" /\ end["down"] = "open" /\ Len(written) < MaxOutput
  /\ pty => k = "data"
  /\ Put("down", Message(k))
  /\ written' = Append(written, k)
  /\ UNCHANGED <<clientVars, server, pty, isShell, exited, input, fed,
                 inputEof>>

WriteExit ==
  /\ server = "run" /\ ~exited /\ end["down"] = "open"
  /\ Put("down", Message("exit"))
  /\ exited' = TRUE
  /\ UNCHANGED <<clientVars, server, pty, isShell, written, input, fed,
                 inputEof>>

WriteEof ==
  /\ server = "run" /\ exited /\ end["down"] = "open"
  /\ Put("down", Message("eof"))
  /\ server' = "close"
  /\ UNCHANGED <<clientVars, pty, isShell, written, exited, input, fed,
                 inputEof>>

WriteClose ==
  /\ server = "close" /\ end["down"] = "open"
  /\ Put("down", Message("close"))
  /\ server' = "shutdown"
  /\ UNCHANGED <<clientVars, pty, isShell, written, exited, input, fed,
                 inputEof>>

(* The stream is finished first, and then the input relay is joined.       *)
FinishStream ==
  /\ server = "shutdown" /\ end["down"] = "open"
  /\ end' = [end EXCEPT !["down"] = "fin"]
  /\ server' = "join"
  /\ UNCHANGED <<clientVars, pty, isShell, written, exited, input, fed,
                 inputEof, wire>>

Complete ==
  /\ server = "join" /\ input = "done"
  /\ server' = "over"
  /\ UNCHANGED <<clientVars, pty, isShell, written, exited, input, fed,
                 inputEof, streams>>

(* The task is over early: a write or a spawn failed, the shutdown token   *)
(* was cancelled, or the rejected channel goes out of scope.               *)
ServerEnds ==
  /\ server \notin {"listen", "join", "over"}
  /\ TaskOver(CASE server = "run" -> Output \cup {"exit"}
                [] server = "accept" -> {"confirmation"}
                [] server = "reject" -> {"failure-open"}
                [] OTHER -> {})
  /\ UNCHANGED <<clientVars, pty, isShell, written, exited, fed, inputEof>>
-----------------------------------------------------------------------------
(* relay_input_piped and relay_input_pty.                                  *)
InputTakes == input = "select" /\ ~exited

(* Mutant: a failed copy is not the end of the relay.                      *)
FeedData_IgnoresError ==
  /\ InputTakes /\ Whole("up", "data")
  /\ Take("up", 2)
  /\ fed' \in {fed, fed + 1} /\ UNCHANGED input
  /\ UNCHANGED <<clientVars, server, pty, isShell, written, exited, inputEof,
                 end>>

FeedData ==
  /\ InputTakes /\ Whole("up", "data")
  /\ Take("up", 2)
  /\ \/ fed' = fed + 1 /\ UNCHANGED input
     \/ input' = "done" /\ UNCHANGED fed
  /\ UNCHANGED <<clientVars, server, pty, isShell, written, exited, inputEof,
                 end>>

(* handle_pty_notice decodes it, handle_piped_notice gives up.             *)
FeedResize ==
  /\ InputTakes /\ Whole("up", "window-change")
  /\ Take("up", IF pty THEN 2 ELSE 1)
  /\ input' = IF pty THEN input ELSE "done"
  /\ UNCHANGED <<clientVars, server, pty, isShell, written, exited, fed,
                 inputEof, end>>

(* Mutant: an error is no reason to stop.                                  *)
FeedEnds_RetriesErrors ==
  /\ InputTakes /\ (At("up", "eof") \/ At("up", "close"))
  /\ input' = "done" /\ inputEof' = TRUE
  /\ UNCHANGED <<clientVars, server, pty, isShell, written, exited, fed,
                 streams>>

(* EOF, Close, an error, or a request that wants a reply.                  *)
FeedEnds ==
  /\ InputTakes /\ Unread("up", {"data", "window-change"})
  /\ input' = "done"
  /\ inputEof' = (At("up", "eof") \/ At("up", "close"))
  /\ UNCHANGED <<clientVars, server, pty, isShell, written, exited, fed,
                 streams>>

(* signal_input_relay_stop, when the command has exited.                   *)
FeedStops ==
  /\ input = "select" /\ exited
  /\ input' = "done"
  /\ UNCHANGED <<clientVars, server, pty, isShell, written, exited, fed,
                 inputEof, streams>>

(* The WebTransport session is lost.                                       *)
LoseConnection ==
  /\ \E d \in Dirs : end[d] = "open"
  /\ end' = [d \in Dirs |-> IF end[d] = "open" THEN "reset" ELSE end[d]]
  /\ UNCHANGED <<clientVars, serverVars, wire>>
-----------------------------------------------------------------------------
ClientCall   == OpenChannel \/ SendRequest
ClientAnswer == Confirmed \/ Refused \/ ReadReply \/ CallFails
StdinLast    == SendLast("eof", "close") \/ SendLast("close", "shutdown")
                \/ ShutdownWriter
RelayOutput  == (\E k \in Output : ShowOutput(k)) \/ ReadExit \/ SkipEvent
                \/ ReadClose \/ OutputEnds
ClientStep   == ClientCall \/ ClientAnswer \/ StdinLast \/ RelayOutput
                \/ SendInput \/ SendResize \/ StdinEnds \/ ShowFails \/ CallDropped
SetupStep    == (\E r \in Requests \ {"unknown"} : SetupRequest(r))
                \/ SetupIgnores \/ SetupFails
ServerSteps  == AcceptChannel \/ Accept \/ Reject \/ SetupStep \/ StartCommand
Feed         == FeedData \/ FeedResize \/ FeedEnds \/ FeedStops
ServerStep   == ServerSteps \/ Feed \/ (\E k \in Output : WriteOutput(k))
                \/ WriteExit \/ WriteEof \/ WriteClose \/ FinishStream
                \/ Complete \/ ServerEnds

Next == ClientStep \/ ServerStep \/ LoseConnection
Spec == Init /\ [][Next]_vars

(* A task that was woken is polled.  Neither the user's input nor the      *)
(* command's output is expected; the command takes what it is fed, and a   *)
(* task that has to write to a lost stream ends.                           *)
Fairness ==
  /\ WF_vars(ClientCall) /\ WF_vars(ClientAnswer) /\ WF_vars(StdinLast)
  /\ WF_vars(RelayOutput) /\ WF_vars(ServerSteps) /\ WF_vars(Feed)
  /\ WF_vars(end["down"] # "open" /\ ServerEnds) /\ WF_vars(Complete)
  /\ WF_vars(server = "rejected" /\ ServerEnds)

FairSpec == Spec /\ Fairness
-----------------------------------------------------------------------------
(* Every variable has its type; the client relays its input only in run.   *)
TypeOK ==
  /\ kind \in {"session", "other"} /\ plan \in Seq(Requests)
  /\ client \in {"open", "confirm", "setup", "reply", "run", "done"}
  /\ stdin \in {None, "read", "eof", "close", "shutdown", "over"}
  /\ client = "run" => stdin # None /\ plan = <<>>
  /\ typed \in 0..MaxStdin /\ resized \in 0..MaxResize /\ fed \in 0..MaxStdin
  /\ shown \in Seq(Output) /\ written \in Seq(Output)
  /\ exitSeen \in BOOLEAN /\ exited \in BOOLEAN /\ inputEof \in BOOLEAN
  /\ pty \in BOOLEAN /\ isShell \in BOOLEAN
  /\ result \in {None, "refused", "err", "dropped", "exit", "no exit"}
  /\ client = "done" <=> result # None
  /\ server \in {"listen", "accept", "reject", "rejected", "setup", "start",
                 "run", "close", "shutdown", "join", "over"}
  /\ input \in {None, "select", "done"}
  /\ wire \in [Dirs -> Seq(Heads \cup {Body})]
  /\ end \in [Dirs -> {"open", "fin", "reset"}]

(* No reader of either side loses its place: what session_setup leaves to  *)
(* the input relay, and request() to relay_output, begins with a message   *)
(* (ChannelDataRead, "leaves the channel stream in an inconsistent state"). *)
(* All state is well typed besides.                                        *)
ReadersKeepPlace ==
  /\ TypeOK
  /\ server \in {"setup", "start"} \/ input = "select" => ~At("up", Body)
  /\ client # "done" => ~At("down", Body)

(* Each set-up call gets its own reply, and nothing else: the server has   *)
(* said nothing of its own, the message of the day included, before it     *)
(* answered the last of them; and no request reaches the input relay,      *)
(* which could not answer it (SshChannelReader::next_event).               *)
RepliesFitRequests ==
  /\ client = "reply" /\ wire["down"] # <<>> =>
       At("down", IF Head(plan) = "unknown" THEN "failure" ELSE "success")
  /\ input = "select" => \A r \in Requests : ~At("up", r)

(* What run returns is what the server reported: an exit only if the       *)
(* server has sent one, and none only if it has not, in whatever way the   *)
(* channel ended ("or None if the channel closed without one").  What is   *)
(* shown is what was written, in order, and when run returns without an    *)
(* error from a stream that was not torn down it is all of it, the output  *)
(* behind the exit notice included.                                        *)
RunReturnsTheResult ==
  /\ result = "exit" => exited
  /\ result = "no exit" => ~exited
  /\ Len(shown) <= Len(written) /\ shown = SubSeq(written, 1, Len(shown))
  /\ result \in {"exit", "no exit"} /\ end["down"] # "reset" => shown = written

(* The command's input ends on the client's EOF only behind all the        *)
(* client has read from its own (relay_stdin and relay_input_piped).       *)
InputIsFed ==
  /\ fed <= typed
  /\ inputEof => fed = typed

(* Nobody waits for ever on the other: an open or a set-up call returns    *)
(* whatever becomes of the server's task, once that has the channel; and   *)
(* when the server's task is over, however it ended, run returns, with a   *)
(* relay_stdin that waits for its user too.                                *)
CallsReturn ==
  /\ client \in {"confirm", "reply"} /\ server # "listen"
       ~> client \notin {"confirm", "reply"}
  /\ server = "over" ~> client = "done"

(* The end of the client's input, or of the client, reaches the command:   *)
(* its input is closed.                                                    *)
InputEndIsSeen ==
  (stdin = "over" \/ client = "done") ~> (input = "done" \/ server = "listen")
=============================================================================
