# A verification project for dssh

dssh ("DShell") runs SSH sessions over WebTransport: a control stream carries
global requests, every channel has a bidirectional stream of its own, and the
server runs commands, terminals and port forwards for its client.  This
directory models the parts of it that are concurrent or have to survive
failure, checks the models with TLC and proves the safety of eight of them, for
every value of their constants, with TLAPS.
Paths below are relative to the root of the repository copy, `src/`; the code
is under `src/src/`.

## Inventory

| component | state | operations | interacts with | what is hard | what makes it correct |
|---|---|---|---|---|---|
| ordered access (`conversation.rs` 120-410, `conversation/global.rs`) | `next_ticket`, `current_serving`, `Notify`, `poisoned`, `auto_failures` | take a ticket, acquire, drain, release, poison, drop | every user of the control stream | lock-free loads around an await, dropped futures, lost wake-ups | one guard at a time, in ticket order; nobody waits for ever |
| global requests (`conversation.rs` 580-800, `conversation/global.rs`) | two such resources per endpoint, the two directions of the stream | send request, send notification, accept, decode, respond, drop | the peer | answers are matched by order alone | each call gets the answer to its own request |
| dispatcher (`session/dispatcher.rs`) | pinned accept futures, two `JoinSet`s, a `TaskTracker`, forward handles, tokens | one `select!` branch each; `dispatch_global` | channels, forwards, processes | an inline await blocks the loop; ends in many ways | every end stops everything; the outcome is true |
| reverse listeners (`forward/reverse.rs`) | bound sockets, accept loops, relays | bind, answer, accept, relay, abort | dispatcher, channels | an abort is not the end of a task | a listener can always be cancelled |
| session process (`session/process.rs`, `session/signal.rs`) | child, group, pipes or PTY, two relays | relay, report exit, signal, resize, terminate, drop | the kernel, the channel | exit, output, input, shutdown race | no command left behind, nothing lost, told in order |
| channels (`conversation/channel.rs`) | one stream pair | open, accept, reject, events, requests | all users of channels | half-read events | a reader never loses its place |
| session client (`session/client.rs`) | two relays, `done` signal | pty, exec, shell, run | server session | two futures in one task | returns what the server reported |
| relayed connections (`forward/direct.rs`, `forward/socks5.rs`, `relay` of `forward/mod.rs`, the connections of `forward/client.rs`) | a channel, two sockets, two copies at each end | open, decode, connect, confirm or refuse, copy, half-close, abort | dispatcher, channels, sockets | an end, an error or a drop at any of six places | only payload is relayed; an end is seen, and a clean one is a complete one |
| remote forwards (`forward/client.rs`, `forward/reverse.rs`) | requests, replies, mappings, listeners, socket files | request, bind, answer, cancel, accept, match, connect locally | global requests, dispatcher | keys are matched by host and port; sockets of a group fail one by one | a connection reaches the target its argument names |
| forward specifications (`forward/spec.rs`) | none | parse `-L`, `-R`, `-D` | command line | overlapping alternatives | an argument has its documented meaning |
| configuration (`config.rs`, `config/*`) | none | split into entries, locate, tokenize, type arguments, match patterns | files | quotes, line ends, stars | entries and tokens are those of the lines |
| byte channels (`byte_channel.rs`) | a bounded channel between a writer and a reader | write, flush, shut down, read | in-process transports | back-pressure inside `poll_write` | reads what was written |
| codecs (`codec.rs`, `session/mod.rs`, `forward/mod.rs`), version exchange (`version.rs`) | none | encode, decode | everything | truncation | round trips |
| transport, PAM, privileges, PTY (`webtransport.rs`, `session/pam.rs`, `session/privilege.rs`, `session/pty.rs`, `auth.rs`) | wrappers | system and library calls | kernel, h3x | none of their own | not modelled |

`PROJECT.json` lists the hazards found while reading, line by line, with the
property that covers each.

## Modules

* `OrderedIO` - the abstract promise of `OrderedAccess`: tickets are issued,
  and the resource is granted and released in that order, one holder at a time.
* `OrderedAccess` - one half of the control stream.  A task is one call; each
  action is one atomic access or one await of `OrderedAccess::acquire`,
  `ConversationShared::acquire_writer`, `drain_auto_failures`, the guard's and
  the requests' `Drop`, and `poison`.  `half` says which half a behaviour is
  about: at the writer tasks use `acquire_writer`, at the reader plain
  `acquire`.  `Responders` hold an incoming request and may drop it;
  `Cancellable` futures may be dropped while they wait or write.  `wire` is what
  was written (or read), whole or cut short.  A failing writer poisons
  (`PoisonOnDrop`); a failing reader may or may not, since
  `send_global_request` reads its answer without.
* `GlobalRequests` - two endpoints, both directions of the control stream, and
  the tasks of `send_global_request`, `send_global_notification` and
  `accept_global_request` with everything an acceptor may do with what it got.
  It takes exclusive, ordered access to each half as `OrderedIO` promises it,
  and keeps what goes beyond: the ticket pair, the poison check before a
  granted read, auto-failures, and residues of messages of which only the head
  was consumed.  A call that has the reader may be dropped (`DropReading`) or
  fail to decode its success (`DecodeSuccessFails`); it gives up its turn,
  poisons nothing and leaves what it did not read.
* `ServerSession` - `run_session`: the loop with its inline awaits, the channel
  tasks, the reverse listeners with the accept loops inside them, the relays,
  and the joins after the loop.  A task or listener is aborted in two steps, as
  in tokio; dropping a `JoinSet` aborts without waiting.  A TCP listener has two
  sockets with an accept loop each, which end one by one, and the second need
  not be bound; the body of a forward or a cancel is awaited in the loop
  (`AwaitBody`).
* `SessionProcess` - `run_piped` and `run_pty`: the command, a descendant that
  may keep the pipes, the inline output relay, the input relay as a task of its
  own, `terminate`, `Drop`, and the abort of the whole task.  `stray` records
  the use of a process group or descriptor that no longer is the session's.
* `SessionChannel` - one session channel from end to end: `open_channel`, the
  set-up calls and `run` of `ClientSession` at the client; `accept_channel`,
  `session_setup`, the start of the command and the input relay at the server.
  A message is a head and a body, so that a handler which does not read a body
  leaves it where the next message is expected.  Each direction may be finished
  or reset, with a message cut short, and the whole connection may be lost.  The
  output of the command is any that `CompletionOrder` of `SessionProcess` allows.
  `request_pty`, `exec`, `shell` and other requests are the calls of `plan`.
* `Relay` - one connection through a forwarding channel, from the application
  at the near side to the target at the far side: `open_channel`, the decode by
  hand of the far handlers, connect, confirm or refuse, the SOCKS5 negotiation,
  and the four `relay()` tasks with half-close, error, abort and drop.  Every
  pipe ends open, finished or reset; a socket shared by two halves
  (`tokio::io::split`) ends with the second of them.
* `ForwardSpec` - the grammar of `-L`, `-R` and `-D` as ordered choices over the
  fields of an argument, and the forms of its doc comments as a reference.
* `RemoteForwards` - extends `ForwardSpec`: from the parsed `-R` arguments over
  `RemoteForward::request`, the candidates and sockets of
  `bind_tcp_forward_group` or a socket file, cancel and accept errors, to
  `accept_forwarded_channels`, its mappings and the local connect.  `Strange`
  are the other streams a peer may open: channels of unknown type with a short or
  a full payload, and streams of another kind or with a bad or withheld header.
* `ConfigFile` - the line grammar, `line_col`, `tokenize`, the argument types,
  `glob_match` and the criteria of `Match`, as operators; the state is only the
  input, which grows token by token.  Characters are bytes: for text that is not
  ASCII, `?` of `glob_match` takes one byte of a character.
* `ByteChannel` - `ChannelWriter` and `ChannelReader` over a bounded channel,
  with a writer that repeats a pending `poll_write` as `write_all` does.
* `MC*` - the modules TLC is run on.
* `OrderedAccessProofs`, `GlobalRequestsProofs`, `ServerSessionProofs`,
  `SessionProcessProofs`, `SessionChannelProofs`, `RelayProofs`,
  `ForwardSpecProofs`, `RemoteForwardsProofs` - the theorems about the module of
  that name and their proofs.

The modules meet at their promises.  `GlobalRequests` assumes of each half of
the stream what `OrderedIO` says and `OrderedAccess` implements;
`RemoteForwards` takes the order of replies from `GlobalRequests`, the life of a
listener task from `ServerSession`, and stops where `Relay` begins;
`ServerSession` takes a channel task as a whole, inside which `SessionChannel`,
`SessionProcess` and `Relay` look.

Definitions whose comment begins with "Mutant" are variations of the action
that follows them, each a plausible slip; `PROJECT.json` pairs every property
with one that breaks it.

## Runs

| run | module | result | what it shows |
|---|---|---|---|
| `ControlStream` | `OrderedAccess` | pass | either half: mutual exclusion, ticket order on the wire, refinement of `OrderedIO`, nothing behind a cut message, poison is final, and only a dropped ticket of an unpoisoned session keeps a call waiting |
| `LostWakeup` | `OrderedAccess` | violation | with a dropped request a waiting writer may sleep for ever |
| `OneWay` | `GlobalRequests` | pass | every call gets its own answer and no message is misread, unless a call before it gave the reader back with its answer unread; calls return |
| `Sessions` | `ServerSession` | pass | running listeners have handles until they lose their first socket; `SessionFinished` is true, and reached; shutdown returns unless a withheld body or a lost handle holds the session; nothing is left behind |
| `Socks5Failure` | `ServerSession` | violation | a completed future stays in the `select!` |
| `CommandSession` | `SessionProcess` | pass | order and completeness of what the client is told; no command left behind; no stale group or descriptor used; exit reported; shutdown ends |
| `StdinFull` | `SessionProcess` | violation | a command that does not read its input cannot be shut down |
| `SessionChannel` | `SessionChannel` | pass | readers keep their place, replies fit requests, `run` returns what the server reported and all its output, nobody waits for ever |
| `Forwarding` | `Relay` | pass | only payload is relayed, opens are answered and mean a connected target, half-closes cross, a clean end is complete where nothing broke, ends meet |
| `RemoteForwards` | `RemoteForwards` | pass | arguments mean their documented forms; a connection reaches its argument's target or is told why not; keys, socket files; every forwarded channel is answered by a loop that runs |
| `ConfigFile` | `ConfigFile` | pass | entries are those of the lines where no keyword is glued to another character, locations and tokens are where they say unless a carriage return stands alone; patterns match what some cut of the text does; criteria take each token once |
| `DuplicatedBytes` | `ByteChannel` | violation | a piece that meets a full channel is delivered twice |

In every module but `OrderedAccess` the type invariant `TypeOK` is the first
conjunct of one of the invariants (its comment says so), not one of its own.

The four violations are disagreements between the code and what it says of
itself; `PROJECT.json` quotes the lines.  In short:

* `acquire_writer` looks again at `current_serving` after it enabled its
  `Notified`, but not at `auto_failures`.
* `continue` in the socks5 branch skips `accept_channel.set(..)`.
* `input_handle.await` comes before `terminate()`, and `io::copy` into a full
  pipe is not raced with the stop signal.
* `ChannelWriter::poll_write` answers Pending for bytes it has already taken.

More disagreements show in the models although no run is kept for them; where a
property would fail by them it excepts them, and its comment says so:

* acceptors and callers take tickets of the same reader in the order of their
  calls, which is the order of the peer's messages only if one side sends;
  with `Home` spread over both endpoints `NoMisread` fails;
* `drain_auto_failures` gives the writer back before it poisons, and readers
  load the poison flag before their turn: `NothingAfterBroken` is claimed for the
  messages of writers only (`OrderedAccess`);
* a call whose future is dropped while it has the reader, or whose response is
  unexpected or does not decode, poisons nothing (`conversation.rs:649-675`), so
  that the next call is given its answer or the rest of it: `OutcomeIsVerdict`,
  `NoMisread` and `EveryRequestReturns` except the calls behind it (`InOrder`),
  and without that exception TLC finds the first violated with two requests;
* a TCP listener that lost the accept loop of its first socket goes on with the
  second; another forward of its key binds the first, passes over the second
  (`forward/reverse.rs:271`), and its handle takes the place of the running
  listener's (`session/dispatcher.rs:607`), which no cancel and no end of the
  session reaches any more: `run_session` then joins it for ever (`Held`);
* the body of a global request is awaited in the loop of `run_session`
  (`session/dispatcher.rs:588,620,658,689`): while a client withholds it, no
  shutdown is seen and no task reaped (`Held`);
* `accept_forwarded_channels` leaves its loop on every error of
  `accept_channel` (`forward/client.rs:407-416`), where its doc (393-395) says
  that it runs until the session closes: a single stream of another kind or with
  a bad header ends it on a live session, with every relay it holds
  (`TasksDropped`), and a stream whose header is withheld holds it up;
* `ClientSession::run` drops its stdin relay in the poll in which `relay_output`
  signals it to stop, so that EOF and Close are not sent (`Returned`);
* an unknown global request poisons where the dispatcher's table says "respond
  failure" (`PoisonGlobal`); one failed accept method ends the session where the
  doc of `run_session` says both (`AcceptChannelEnds`), with
  `ConversationClosed` as outcome even after a session channel completed; an
  error of a session channel returns without cancelling the relays;
* the input relay may signal a group that was just reaped (`HandleSignal`), and
  resize a closed descriptor once `run_pty` itself was dropped (`HandleResize`),
  both recorded in `stray`;
* the relays of a direct channel are detached tasks that outlive their handler
  (`FarDropped`), and a relay that fails ends its target's stream like a
  finished one (`CopyFails`);
* a channel of unknown type with a short payload keeps
  `accept_forwarded_channels` waiting for the rest of a `forwarded-tcpip` payload
  (`HandleStrange`), and a Unix socket file stays behind when the answer to its
  request cannot be written (`leaked`);
* a keyword that runs into another character makes the whole file one Unknown
  entry, where the docs say that lines which cannot be parsed are captured one
  by one (`config/parser.rs:81,102`, `config.rs:185`); `EntriesFollowLines` says
  nothing of the number of entries of such a file (`Glued`).  `Match` checks
  what precedes the first `all` and not that it is last; a carriage return alone
  ends a line for the grammar and not for `line_col`.

### Bounds

* Three tasks use one half of the stream: a holder, a waiter, and one that
  drops, drains or is cancelled between them.
* Two requests and a notice of one endpoint: two for a pair of answers to be
  swapped, and a notice to be told from a request.
* Two listeners, two keys and three requests of the client (`MaxAsked`,
  channels and global requests together) are what "forward, cancel, forward the
  same address again" takes, with one connection; two channels let one task end
  first and one last, of the same or of another kind, next to one forward.  One
  of the two keys is a TCP address with two sockets, the other a path with one.
  `Kinds` leaves out `"direct"`, which is handled as a socks5 channel that has
  been confirmed.
* One chunk per pipe (`MaxOutput`), before or after the exit, by the command or
  its descendant; two channel events (`MaxInput`), so that one may follow a
  handled one.
* Two chunks of output, before or behind the exit notice or in place of the
  message of the day, and one chunk of input and one resize: two messages each
  way, which is what it takes for one to be misread behind another.  Two plans:
  a terminal, and a command behind a request that is granted and one that is
  not.
* One byte each way through a relayed connection (`UpBytes`, `DownBytes`), so
  that it can be lost, cut off from its end or follow a stray field, and one
  fault (`MaxFaults`): the properties say what survives a single failure.
* Every argument of up to three fields alone, those of four with a plain port,
  host or path in second and fourth place, and of five some that must be
  refused; five pairs of `-R` arguments chosen so that ports, paths, addresses
  or keys collide; one connection; ports below `PortLimit` = 4 of which two are
  given out for port 0, which the 16-bit cut of a reply leaves as they are; each
  of them held by another program on one of the two loopback addresses.
* Files of four typed characters (`MaxTyped`) alone or behind a keyword, an open
  quote or a whole line; patterns and texts of three characters (`MaxGlob`);
  four tokens of `Match` (`MaxMatch`), enough for two criteria with arguments.
* Three pieces through a byte channel with room for one.

The theorems below remove the bounds for the invariants of `OrderedAccess`,
`GlobalRequests`, `ServerSession`, `SessionProcess`, `SessionChannel`, `Relay` and
`RemoteForwards`; there the runs are for the temporal properties, and for the
mutants.

Deadlock is not checked: in each model all calls may be over, or all parties
may be waiting for a client that need not act.

### Fairness

tokio polls a task that was woken, so every step a task can take without the
outside is weakly fair.  `select!` picks at random among ready branches, so the
branches of the output relay are strongly fair.  In `ServerSession` the client
answers a channel it was asked to open and takes what the server writes, or is
seen to be gone, but it may withhold the body of a request; and a cancelled
process ends - which is `ShutdownEnds` of `SessionProcess`, under its own
assumption that the command reads its input.  In `SessionProcess` a killed
process dies, and nothing else is expected of the command.  `OneWay` assumes
that nobody loses a wake-up, which `ControlStream` shows unless a request or a
future is dropped.  In `SessionChannel` every step of the two tasks that needs
neither the user nor the command is weakly fair, a task that has to write to a
lost stream ends, and the command takes the input it is given.  In `Relay` the
handlers and the copies are weakly fair, which presumes that the application and
the target read what is relayed to them (or are gone); what they send, and what
breaks, is not.  In `RemoteForwards` only the client's loop, its handlers and the
local connect, which succeeds or fails, are.  Calls, drops, errors and shutdowns
are never fair.

## Proofs

Every theorem is for all values of the constants that the named assumption of
its module admits, and each module states its inductive invariant in front of
the lemmas, one lemma or step per action.  The type invariant is always part of
it.

**`OrderedAccessProofs`**, for every set of tasks, either half of the stream and
every choice of responders and cancellable calls:

* `TypeCorrect`, `Exclusion` (what makes the `UnsafeCell` of `OrderedAccess`
  sound), `WireOrder`, `NothingFollowsBroken`, `Poisoned`: `Spec => []TypeOK`,
  `[]MutualExclusion`, `[]WireFollowsTickets`, `[]NothingAfterBroken` and
  `PoisonIsFinal`.
* `Refinement`: `Spec => ImplementsOrderedIO`, with `issued` mapped to
  `nextTicket`, `served` to `currentServing` and `busy` to "some task holds".

Mutual exclusion is not inductive: two tasks both served `current_serving` must
be excluded before they get there.  The invariant `Inv` says that a ticket is
acquired by one task at a time (`ClaimInv`), that a queued auto-failure is
nobody's own ticket (`AutoFailureInv`), which is what keeps a drain and the
ticket's owner apart, that tickets are distinct (`TicketInv`), and that a guard
is for the ticket being served (`GuardInv`).  `WireInv` adds that the length of
the wire is the number of tickets served, plus one while a holder has written.
`BrokenInv` is why nothing follows a message cut short: until the session is
poisoned its writer still has the turn, and whoever passed the poison check
before (`TurnInv`) waits for an earlier one.  `Poisoned` follows a single task:
once shut out of a poisoned session (`ShutOut`) it stays so.

**`GlobalRequestsProofs`**, for any number of requests, notices and acceptors,
with every drop, poison and loss of the connection and every answer that is not
read to its end: `TicketsAgree`, `AnswersReachTheirCalls` (`[]OutcomeIsVerdict`)
and `NothingIsMisread` (`[]NoMisread`).  The last two are about calls that are
`InOrder`, that is with no call before them that gave the reader back with its
answer unread; tickets agree whatever is left on the stream.  Nothing on the
stream says which request an answer belongs to, so the invariant has to carry
one number through the exchange: the read ticket of a request at the client is
its write ticket at the server and the place of its answer.  `TicketInv` says
that `ticket_pair_lock` gives read tickets in the order of write tickets,
`SendInv` that the client's writer is served in that order, `AskInv` that the
requests under way are those with the read tickets from the number the server
has accepted, in that order and none left out, `OweInv` that the ticket of an
accepted request is in the hands of one acceptor or an auto-failure, never both,
and `AnswerInv` that the answers under way are those from the one whose turn it
is to be read.  Lost connections break the links in one direction only, and a
call that gives up breaks those of the calls behind it (`OrderKept`: a call that
is `InOrder` has been so all along): what `AskInv` and `AnswerInv` say of
*every* request holds until then, what they say of the messages under way holds
throughout.  Two hypotheses are those of the program: `OneWay`, the calls are
made at the client and accepted at the server (`forward/client.rs`,
`session/dispatcher.rs:308`), and for `NothingIsMisread` alone `OneAcceptor`,
which is the single pinned `accept_global_request` of `run_session`.  It is
needed: an acceptor that passed the poison check of `acquire` while another
dropped an undecoded request would read what is left of it (TLC finds
`NoMisread` violated with two).

**`ServerSessionProofs`**, for any channels, keys, listeners and connections:
`RunningListenerHasHandle` (`[]ListenerHasHandle`) and `FinishedSessionIsDone`
(`[]FinishedMeansDone`).  `ListenerInv` adds that the first socket of a key is
in the hands of one listener at a time and that only the answer being written
has a bound one that does not run yet: between the bind and the insert of the
handle the loop does nothing else.  A listener with its first socket therefore
keeps the handle of its key; one that has only its second may lose it, and the
theorem does not speak of it.  `OutcomeInv` adds that the outcome is chosen
where the loop is left and that a session channel which was seen cannot be
forgotten.

**`SessionProcessProofs`**, for a terminal or pipes and any amount of output and
input: `CommandIsAccountedFor` (`[]ChildAccountedFor`), `NothingStrayIsUsed`
(`[]NoStrayUse`), `CompletionIsOrdered` (`[]CompletionOrder`), `OutputIsComplete`
(`[]OutputComplete`).  What they rest on: the exit is reported only for a reaped
child (`ChildInv`); the input relay is over before `terminate()` begins, and the
master outlives it (`InputInv`); what was said of the end agrees with where the
writer is (`SaidInv`); every chunk is in its pipe, in the buffer or on its way to
the client, and a pipe is done only when no process can write to it (`PipeInv`).

**`SessionChannelProofs`**, for any set-up calls, input and output:
`ReadersStayInPlace` (`[]ReadersKeepPlace`), `EachCallHasItsReply`
(`[]RepliesFitRequests`), `RunTellsTheTruth` (`[]RunReturnsTheResult`),
`InputComesFirst` (`[]InputIsFed`).  The invariant follows the channel: `OpenInv`
and `SetupInv` list what can be on the two streams until the command is started,
at most one request or its answer; from there on `RunInv` says that both streams
are whole messages with at most the last one cut short by the end of the stream,
and that only input is on the way to the input relay.  `ExitInv` says that the
exit notice was seen or is under way and that nothing is behind Close,
`OutputInv` that the output not yet shown is under way in its order, `FeedInv`
that the chunks typed are fed or under way until a write fails, and that EOF and
Close are behind them all.  The assumption on `Plans` is the documented use of
`ClientSession`: `exec` or `shell` is the last call, and the only one of its
kind (`ChannelAssumption`; the code would take a second one for the relay's).

**`RelayProofs`**, for any payloads, any of the five channel types and any number
of faults, aborts and dropped handlers: `PayloadArrivesAlone`
(`[]OnlyPayloadArrives`), `CleanEndsAreComplete` (`[]CleanEndIsComplete`) and
`OpenMeansTargetReached`, the invariant that `OpenIsAnswered` contains.  What the
two ends show is not inductive, since a token that has left one pipe is found in
the next; so the invariant puts the pipes together.  `UpInv`: the handshake that
the far side has eaten (`Eaten`), then the bytes at the target, in the channel and
at the near side are exactly what the application has sent, from the moment the
far side reads payload; before, the channel holds as many tokens as there are
fields left to decode.  `DownInv`: the confirmation that the near handler took,
the bytes at the application, in the channel and at the far side are the
confirmation, the replies of the negotiation (`Said`) and what the target has
sent; where no relay was started, what has come out of the channel is nothing, a
failure message or the front of an answer (`Refusals`).  A relay step regroups
such a concatenation and nothing else (`TokensMove`).  `EndInv` says of each pipe
who can have ended it while no fault concerns its direction: its relay, which was
through with its own source (`Drained`), or a handler that gave up before it
relayed; and the near side gives up on its own only where the far side has not
begun (`GivenUp`).  `Drained` is followed from pipe to pipe from a clean end back
to the sender.  No step takes any of this back (`Steady`), which leaves for each
action only the pipes it ends.  `RelayAssumption` says no more than that the
payloads are sequences, the kinds are channel types and the bound of the faults
is a number.

**`ForwardSpecProofs`**: `ArgumentsMeanTheirForms` - for every sequence of fields
and each of `-L`, `-R` and `-D`, the ordered choices of the grammar yield exactly
the documented readings, and at most one.  Each rule of the grammar is turned
into a condition on the first fields and a value (`Reads`); an ordered choice is
then a nested condition, which is compared with that of the forms.  No form has
more than four fields and each rule takes a fixed number of them, so that no
induction is needed.

**`RemoteForwardsProofs`**, for any arguments, connections, resolver, ports and
programs that hold ports: `ArgumentsAreReadAsDocumented`
(`[]ArgsMeanTheirForms`, by the theorem above), `FilesBelongToListeners`
(`[]FilesHaveListeners`), `WholeListenersHaveTheirOwnKeys`
(`[]SameKeyMeansOneStopped`), `ConnectionsReachTheirTargets` (`[]RightTarget`).
`ListenInv` says that the sockets of a listener are those of its own grant
(`Own`) and that no two sockets of the host clash (`Apart`); `FileInv` that live
listeners have files of their own, so that none unlinks another's; `MapInv` and
`ConnInv` that mappings and channels carry the host and port of a granted
forward.  Those never change once granted, so a mapping fits a channel exactly
when their forwards have the same key (`FitsKey`), and the first mapping that
fits is the right one unless a key is shared.  `ForwardsAssumption` says what the
fields of a command line are, that a path is neither empty nor `*` (the grammar
wants a slash in front), and that `lookup_host` yields addresses.

What stays with TLC:

* every liveness property (`EveryCallReturns`, `ForwardedIsAnswered` and the
  other temporal properties that rest on fairness), and the four violations;
* `ConfigFile`: its operators recurse over the input, and what they compute for
  every input would need induction over data, which the prover has not;
* `ByteChannel`, whose one property fails.

## Plan

1. (done) `OrderedIO`, `OrderedAccess` and its proofs; `GlobalRequests`;
   `ServerSession`; `SessionProcess`.
2. (done) `SessionChannel`: `conversation/channel.rs` with `session_setup` at the
   server and `ClientSession` at the client.  Left out of it: the end of the
   resize stream, which spins the client's relay (`session/client.rs:285`), and
   clients that send data before the last reply or unknown requests with a body,
   both of which `session_setup` would misread (`session/dispatcher.rs:224,239`).
3. (done) `Relay` and `RemoteForwards`: both ends of a forwarded connection, and
   the bookkeeping of remote forwards.
4. (done) Pure parts as operators against a reference: `ForwardSpec` and
   `ConfigFile`; `ByteChannel`.
5. (done) Theorems about `OrderedAccess`, `GlobalRequests`, `ServerSession`,
   `SessionProcess`, `SessionChannel`, `Relay`, `ForwardSpec` and
   `RemoteForwards`: all their invariants.

## Not modelled

The transport adapters of `webtransport.rs`, PAM, privilege switching and
terminal modes are sequences of library or system calls with no state of their
own; what they can fail with are actions of the modules that use them.
`negotiate_version` picks the first supported name of a list, once, before
there is a conversation.  Error types, constants and test doubles are
declarations.  Environment construction in `process.rs` is data.  `waitpid`
errors are left out: the code waits only for its own child.  The encodings of
single fields are those of h3x; the order of fields in open messages is in
`Relay`, and decode failures are actions everywhere.  Pattern lists between
commas with their negation, the width of integers in configuration files, and
`Display` are left out, and so are the bind of a local listener and its endless
retry of a failing accept.  The end of the resize stream is left out of
`SessionChannel`: `continue` polls it again at once (`session/client.rs:285`).
A window-change in piped mode ends the input relay (`session/process.rs:790`);
`SessionChannel` resizes only behind a terminal request.
