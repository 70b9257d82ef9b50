---------------------------- MODULE SessionProcess ----------------------------
(***************************************************************************)
(* run_piped and run_pty of src/src/session/process.rs: the command of one *)
(* session channel, the inline output relay that reports its exit, the     *)
(* spawned input relay, the escalation of SessionProcess::terminate, and   *)
(* what happens to all of them when the session is shut down or the task   *)
(* that runs the function is aborted.                                      *)
(*                                                                         *)
(* A chunk of output is known by the pipe it came from.  The command, and  *)
(* a descendant it may leave behind in its process group with the pipes    *)
(* open, act on their own.                                                 *)
(***************************************************************************)
EXTENDS Naturals, FiniteSets, Sequences

CONSTANTS
  Modes,          (* whether run_piped, run_pty or both are looked at     *)
  MaxOutput,      (* bound on the chunks written to each pipe             *)
  MaxInput,       (* bound on the channel events the client sends         *)
  StdinMayFill,   (* the command may stop reading its standard input      *)
  MayAbort        (* the task may be aborted, as a dropped JoinSet does   *)

ASSUME ProcessAssumption ==
  /\ Modes \subseteq {"piped", "pty"}
  /\ StdinMayFill \in BOOLEAN /\ MayAbort \in BOOLEAN
  /\ MaxOutput \in Nat /\ MaxInput \in Nat

VARIABLES
  mode,        (* run_piped or run_pty, as session_setup decided          *)
  main,        (* where run_piped or run_pty is                           *)
  result,      (* output_result                                           *)
  child,       (* the spawned command; "reaped" is the flag of that name  *)
  descendant,  (* another process of its group that holds the pipes       *)
  unread,      (* chunks in each pipe                                     *)
  produced,    (* chunks ever written to it                               *)
  done,        (* stdout_done, stderr_done, or the end of the master      *)
  held,        (* the pipe of the chunk being written to the channel      *)
  noticed,     (* exit_status.is_some()                                   *)
  out,         (* what the channel writer has sent                        *)
  stop,        (* stop_input_tx was used or dropped                       *)
  input,       (* where the input relay is                                *)
  inputs,      (* channel events it has read                              *)
  master,      (* whether the PTY master descriptor is open               *)
  shutdown,    (* the session's cancellation token                        *)
  stray        (* history: who used a process group or a descriptor       *)
               (* that no longer belonged to this session                 *)

kernel == <<child, descendant>>
tokens == <<mode, shutdown>>
pipes  == <<unread, produced>>
relay  == <<done, held, noticed, out>>
vars == <<mode, main, result, kernel, pipes, relay, stop, input, inputs, master,
          shutdown, stray>>

None == "none"
AllPipes == {"stdout", "stderr", "master"}
Pty   == mode = "pty"
Pipes == IF Pty THEN {"master"} ELSE {"stdout", "stderr"}

Relaying == {"relay", "write", "notify", "wait", "eof", "close", "flush"}
Ending   == {"stop", "join", "terminate", "hup", "term", "kill"}
Over     == {"done", "aborted"}

Init ==
  /\ mode \in Modes
  /\ main = "start" /\ result = None
  /\ child = None /\ descendant = None
  /\ unread = [p \in AllPipes |-> 0]
  /\ produced = [p \in AllPipes |-> 0]
  /\ done = {} /\ held = None /\ noticed = FALSE /\ out = <<>>
  /\ stop = FALSE /\ input = None /\ inputs = 0
  /\ master = Pty
  /\ shutdown = FALSE
  /\ stray = {}
-----------------------------------------------------------------------------
(* The process group keeps its number while a member is left, and its      *)
(* leader keeps the number until it is reaped.                             *)
GroupExists == child # "reaped" \/ descendant = "alive"
WritersGone == child \notin {"running", "dying"} /\ descendant # "alive"

(* signal::deliver: every signal but KILL may be handled or ignored.       *)
Deliver(who, kill) ==
  /\ child' \in IF child # "running" THEN {child}
                ELSE IF kill THEN {"dying"} ELSE {"running", "dying"}
  /\ descendant' \in IF descendant # "alive" THEN {descendant}
                     ELSE IF kill THEN {"gone"} ELSE {"alive", "gone"}
  /\ stray' = IF GroupExists THEN stray ELSE stray \cup {who}

(* Mutant: Drop without the look at `reaped`.                              *)
DropProcess_Unchecked == Deliver("owner", TRUE)

DropProcess ==
  IF child = "reaped" THEN UNCHANGED <<kernel, stray>>
                      ELSE Deliver("owner", TRUE)

(* The command and its descendant.                                         *)
Produce(p) ==
  /\ child = "running" \/ descendant = "alive"
  /\ produced[p] < MaxOutput
  /\ produced' = [produced EXCEPT ![p] = @ + 1]
  /\ unread' = [unread EXCEPT ![p] = @ + 1]
  /\ UNCHANGED <<main, result, kernel, relay, stop, input, inputs, master,
                 tokens, stray>>

Fork ==
  /\ child = "running" /\ descendant = None
  /\ descendant' = "alive"
  /\ UNCHANGED <<main, result, child, pipes, relay, stop, input, inputs,
                 master, tokens, stray>>

ChildExits ==
  /\ child \in {"running", "dying"}
  /\ child' = "zombie"
  /\ UNCHANGED <<main, result, descendant, pipes, relay, stop, input, inputs,
                 master, tokens, stray>>

DescendantExits ==
  /\ descendant = "alive"
  /\ descendant' = "gone"
  /\ UNCHANGED <<main, result, child, pipes, relay, stop, input, inputs,
                 master, tokens, stray>>

(* tokio reaps a child whose handle was dropped.                           *)
OrphanReaped ==
  /\ main \in Over /\ child = "zombie"
  /\ child' = "reaped"
  /\ UNCHANGED <<main, result, descendant, pipes, relay, stop, input, inputs,
                 master, tokens, stray>>
-----------------------------------------------------------------------------
(* The beginning of run_piped and run_pty.                                 *)
Spawn ==
  /\ main = "start"
  /\ main' = "relay" /\ child' = "running" /\ input' = "select"
  /\ UNCHANGED <<result, descendant, pipes, relay, stop, inputs, master,
                 tokens, stray>>

SpawnFails ==
  /\ main = "start"
  /\ main' = "done" /\ result' = "err" /\ master' = FALSE
  /\ UNCHANGED <<kernel, pipes, relay, stop, input, inputs, tokens, stray>>

(* A dup or the AsyncPtyFd failed behind the spawn: `process` is dropped.  *)
SetupFails ==
  /\ main = "start" /\ Pty
  /\ main' = "done" /\ result' = "err" /\ master' = FALSE
  /\ child' = "dying"
  /\ UNCHANGED <<descendant, pipes, relay, stop, input, inputs, tokens, stray>>

(* relay_output_piped and relay_output_pty.                                *)
ReadOutput(p) ==
  /\ main = "relay" /\ p \notin done /\ unread[p] > 0
  /\ unread' = [unread EXCEPT ![p] = @ - 1]
  /\ main' = "write" /\ held' = p
  /\ UNCHANGED <<result, kernel, produced, done, noticed, out, stop, input,
                 inputs, master, tokens, stray>>

ReadEnd(p) ==
  /\ main = "relay" /\ p \notin done /\ unread[p] = 0 /\ WritersGone
  /\ done' = done \cup {p}
  /\ UNCHANGED <<main, result, kernel, pipes, held, noticed, out, stop, input,
                 inputs, master, tokens, stray>>

SendData ==
  /\ main = "write"
  /\ out' = Append(out, held)
  /\ main' = "relay" /\ held' = None
  /\ UNCHANGED <<result, kernel, pipes, done, noticed, stop, input, inputs,
                 master, tokens, stray>>

(* Mutant: the loop ends when the command has exited.                      *)
RelayEnd_AtExit ==
  /\ main = "relay" /\ (noticed \/ done = Pipes)
  /\ main' = IF noticed THEN "eof" ELSE "wait"
  /\ UNCHANGED <<result, kernel, pipes, relay, stop, input, inputs, master,
                 tokens, stray>>

(* Mutant: the exit is reported behind the loop in any case.               *)
RelayEnd_NoticesAgain ==
  /\ main = "relay" /\ done = Pipes
  /\ main' = "notify"
  /\ UNCHANGED <<result, kernel, pipes, relay, stop, input, inputs, master,
                 tokens, stray>>

RelayEnd ==
  /\ main = "relay" /\ done = Pipes
  /\ main' = IF noticed THEN "eof" ELSE "wait"
  /\ UNCHANGED <<result, kernel, pipes, relay, stop, input, inputs, master,
                 tokens, stray>>

(* Mutant: no process.wait() in the select.                                *)
Reap_BehindLoop ==
  /\ main = "wait"
  /\ ~noticed /\ child = "zombie"
  /\ child' = "reaped" /\ stop' = TRUE
  /\ main' = "notify"
  /\ UNCHANGED <<result, descendant, pipes, relay, input, inputs, master,
                 tokens, stray>>

(* process.wait(), in the select and behind the loop.                      *)
Reap ==
  /\ (main = "relay" /\ done # Pipes) \/ main = "wait"
  /\ ~noticed /\ child = "zombie"
  /\ child' = "reaped" /\ stop' = TRUE
  /\ main' = "notify"
  /\ UNCHANGED <<result, descendant, pipes, relay, input, inputs, master,
                 tokens, stray>>

SendExit ==
  /\ main = "notify"
  /\ out' = Append(out, "exit")
  /\ noticed' = TRUE
  /\ main' = "relay"
  /\ UNCHANGED <<result, kernel, pipes, done, held, stop, input, inputs,
                 master, tokens, stray>>

(* The rest of the async block: EOF, Close, and the end of the stream.     *)
SendEof ==
  /\ main = "eof"
  /\ out' = Append(out, "eof")
  /\ main' = "close"
  /\ UNCHANGED <<result, kernel, pipes, done, held, noticed, stop, input,
                 inputs, master, tokens, stray>>

SendClose ==
  /\ main = "close"
  /\ out' = Append(out, "close")
  /\ main' = "flush"
  /\ UNCHANGED <<result, kernel, pipes, done, held, noticed, stop, input,
                 inputs, master, tokens, stray>>

Flush ==
  /\ main = "flush"
  /\ result' = "ok"
  /\ main' = "stop"
  /\ UNCHANGED <<kernel, pipes, relay, stop, input, inputs, master, tokens,
                 stray>>

(* A read or a write fails, and `?` leaves the async block.                *)
RelayFails ==
  /\ main \in Relaying \ {"wait"}
  /\ main = "relay" => done # Pipes
  /\ result' = "err" /\ held' = None
  /\ main' = "stop"
  /\ UNCHANGED <<kernel, pipes, done, noticed, out, stop, input, inputs,
                 master, tokens, stray>>

(* shutdown.cancelled() wins: the output relay is dropped where it waits.  *)
Cancelled ==
  /\ shutdown /\ main \in Relaying
  /\ result' = "shutdown" /\ held' = None
  /\ main' = "stop"
  /\ UNCHANGED <<kernel, pipes, done, noticed, out, stop, input, inputs,
                 master, tokens, stray>>

(* signal_input_relay_stop and input_handle.await.                         *)
StopInput ==
  /\ main = "stop"
  /\ stop' = TRUE
  /\ main' = "join"
  /\ UNCHANGED <<result, kernel, pipes, relay, input, inputs, master, tokens,
                 stray>>

(* Mutant: a failed relay returns without terminate().                     *)
JoinInput_OnlyCancelledTerminates ==
  /\ main = "join" /\ input = "done"
  /\ main' = IF result = "shutdown" THEN "terminate" ELSE "done"
  /\ master' = FALSE
  /\ UNCHANGED <<result, kernel, pipes, relay, stop, input, inputs, tokens,
                 stray>>

(* The output_result is looked at; a cancelled one drops the master first. *)
JoinInput ==
  /\ main = "join" /\ input = "done"
  /\ main' = IF result = "ok" THEN "done" ELSE "terminate"
  /\ master' = (Pty /\ result = "err")
  /\ UNCHANGED <<result, kernel, pipes, relay, stop, input, inputs, tokens,
                 stray>>
-----------------------------------------------------------------------------
(* SessionProcess::terminate.                                              *)
Finished(from) ==
  /\ main \in from /\ child \in {"zombie", "reaped"}
  /\ child' = "reaped"
  /\ main' = "done" /\ master' = FALSE
  /\ UNCHANGED <<result, descendant, pipes, relay, stop, input, inputs, tokens,
                 stray>>

Escalate(from, to) ==
  /\ main = from /\ child \notin {"zombie", "reaped"}
  /\ Deliver("owner", to = "kill")
  /\ main' = to
  /\ UNCHANGED <<result, pipes, relay, stop, input, inputs, master, tokens>>

(* Mutant: no SIGKILL behind SIGTERM.                                      *)
Terminate_HangupOnly ==
  \/ Finished({"terminate", "hup", "term"})
  \/ Escalate("terminate", "hup")
  \/ Escalate("hup", "term")

Terminate ==
  \/ Finished({"terminate", "hup", "term", "kill"})
  \/ Escalate("terminate", "hup")
  \/ Escalate("hup", "term")
  \/ Escalate("term", "kill")

(* The task's future is dropped: Drop for SessionProcess, the sender of    *)
(* the stop signal and the master; the input relay stays behind, detached. *)
Abort ==
  /\ MayAbort /\ main \in Relaying \cup Ending
  /\ main' = "aborted" /\ stop' = TRUE /\ master' = FALSE /\ held' = None
  /\ DropProcess
  /\ UNCHANGED <<result, pipes, done, noticed, out, input, inputs, tokens>>

ShutDown ==
  /\ ~shutdown
  /\ shutdown' = TRUE
  /\ UNCHANGED <<main, result, kernel, pipes, relay, stop, input, inputs,
                 master, stray, mode>>
-----------------------------------------------------------------------------
(* relay_input_piped and relay_input_pty.  The select is biased: an event  *)
(* is only looked at when no stop is there.                                *)
InputStop ==
  /\ input = "select" /\ stop
  /\ input' = "done"
  /\ UNCHANGED <<main, result, kernel, pipes, relay, stop, inputs, master,
                 tokens, stray>>

(* Data, a signal or a resize is taken up; EOF, Close, an error and any    *)
(* other notice, which in piped mode a resize is, end the relay.           *)
InputEvent ==
  /\ input = "select" /\ ~stop /\ inputs < MaxInput
  /\ inputs' = inputs + 1
  /\ input' \in {"copy", "signal", "done"} \cup (IF Pty THEN {"resize"} ELSE {})
  /\ UNCHANGED <<main, result, kernel, pipes, relay, stop, master, tokens,
                 stray>>

Copy ==
  /\ input = "copy"
  /\ input' \in {"select", "done"}
  /\ UNCHANGED <<main, result, kernel, pipes, relay, stop, inputs, master,
                 tokens, stray>>

PayloadFails ==
  /\ input \in {"signal", "resize"}
  /\ input' = "done"
  /\ UNCHANGED <<main, result, kernel, pipes, relay, stop, inputs, master,
                 tokens, stray>>

HandleSignal ==
  /\ input = "signal"
  /\ input' = "select"
  /\ Deliver("input", FALSE)
  /\ UNCHANGED <<main, result, pipes, relay, stop, inputs, master, tokens>>

HandleResize ==
  /\ input = "resize"
  /\ input' = "select"
  /\ stray' = IF master THEN stray ELSE stray \cup {"resize"}
  /\ UNCHANGED <<main, result, kernel, pipes, relay, stop, inputs, master,
                 tokens>>
-----------------------------------------------------------------------------
Write ==
  SendData \/ SendExit \/ SendEof \/ SendClose \/ Flush

ReadPipe == \E p \in Pipes : ReadOutput(p) \/ ReadEnd(p)

Next ==
  \/ \E p \in Pipes : Produce(p)
  \/ ReadPipe
  \/ Fork \/ ChildExits \/ DescendantExits \/ OrphanReaped
  \/ Spawn \/ SpawnFails \/ SetupFails
  \/ RelayEnd \/ Reap \/ Write \/ RelayFails \/ Cancelled
  \/ StopInput \/ JoinInput \/ Terminate \/ Abort \/ ShutDown
  \/ InputStop \/ InputEvent \/ Copy \/ PayloadFails
  \/ HandleSignal \/ HandleResize

Spec == Init /\ [][Next]_vars

(* The executor polls a ready task again, and select! picks at random      *)
(* among the branches that are ready, so none loses for ever.  A process   *)
(* that was killed dies.  The peer takes what is written and sends the     *)
(* messages it began.  Nothing makes a command exit, its descendant go, or *)
(* either of them read its standard input; a write to it fails when both   *)
(* are gone.                                                               *)
Fairness ==
  /\ WF_vars(Spawn \/ SpawnFails \/ SetupFails)
  /\ SF_vars(ReadPipe) /\ SF_vars(Reap) /\ WF_vars(RelayEnd) /\ WF_vars(Write)
  /\ SF_vars(Cancelled)
  /\ WF_vars(StopInput) /\ WF_vars(JoinInput) /\ WF_vars(Terminate)
  /\ WF_vars(child = "dying" /\ ChildExits)
  /\ WF_vars(InputStop) /\ WF_vars(PayloadFails \/ HandleSignal \/ HandleResize)
  /\ WF_vars((StdinMayFill => WritersGone) /\ Copy)

FairSpec == Spec /\ Fairness
-----------------------------------------------------------------------------
(* Every variable has its type, and a chunk is held exactly while it is    *)
(* written to the channel (process.rs, stdout_buf and stderr_buf).         *)
TypeOK ==
  /\ mode \in Modes
  /\ main \in {"start"} \cup Relaying \cup Ending \cup Over
  /\ result \in {None, "ok", "err", "shutdown"}
  /\ child \in {None, "running", "dying", "zombie", "reaped"}
  /\ descendant \in {None, "alive", "gone"}
  /\ unread \in [AllPipes -> 0..MaxOutput]
  /\ produced \in [AllPipes -> 0..MaxOutput]
  /\ done \subseteq Pipes
  /\ held \in Pipes \cup {None} /\ (held # None <=> main = "write")
  /\ out \in Seq(Pipes \cup {"exit", "eof", "close"})
  /\ input \in {None, "select", "copy", "signal", "resize", "done"}
  /\ inputs \in 0..MaxInput
  /\ noticed \in BOOLEAN /\ stop \in BOOLEAN /\ master \in BOOLEAN
  /\ shutdown \in BOOLEAN
  /\ stray \subseteq {"owner", "input", "resize"}

(* What the client reads ends in order (run_piped: "sends exit-status/     *)
(* exit-signal + EOF + Close"): the exit is reported once, EOF comes only  *)
(* behind it, no output comes behind EOF and nothing behind Close.         *)
CompletionOrder ==
  /\ \A i, j \in 1..Len(out) : i < j =>
        /\ out[i] = "exit" => out[j] # "exit"
        /\ out[i] = "eof" => out[j] = "close"
        /\ out[i] # "close"
  /\ \A j \in 1..Len(out) :
        out[j] \in {"eof", "close"} => \E i \in 1..(j - 1) : out[i] = "exit"

(* A session that ends well has relayed everything that was written to its *)
(* pipes, by the command or by a descendant that outlived it, before or    *)
(* after the exit was reported (relay_output_piped, "continue draining     *)
(* remaining output until both pipes close").                              *)
OutputComplete ==
  result = "ok" => \A p \in Pipes :
     produced[p] = Cardinality({i \in 1..Len(out) : out[i] = p})

(* run_piped and run_pty never leave a command behind: when they return it *)
(* was reaped, unless the set-up failed, and when their task is aborted it *)
(* was at least killed (Drop for SessionProcess).  All state is well typed *)
(* besides.                                                                *)
ChildAccountedFor ==
  /\ TypeOK
  /\ main \in Over => child # "running"
  /\ main = "done" /\ input # None => child = "reaped"

(* Numbers of things that are gone are not used.  terminate() and Drop     *)
(* signal the group only while it still is the one of this session,        *)
(* whatever reaped the command first; and relay_input_pty uses the raw     *)
(* master descriptor only while it is open (the safety contract of         *)
(* pty::set_window_size_raw), on every path of run_pty that runs to its    *)
(* end.  When the future of run_pty is dropped, the relay it spawned may   *)
(* still resize what was the master.                                       *)
NoStrayUse ==
  /\ "owner" \notin stray
  /\ "resize" \in stray => main = "aborted"

(* The exit is reported although a descendant keeps the pipes open, unless *)
(* the session ends or the channel fails first (module doc of process.rs,  *)
(* "so exit notification can be emitted promptly").                        *)
ExitIsReported ==
  child = "zombie" ~> noticed \/ result # None \/ main \in Over

(* A session that is shut down returns, with its command reaped, even if   *)
(* the command ignores every signal that can be ignored.                   *)
ShutdownEnds == shutdown ~> main \in Over
=============================================================================
