-------------------------------- MODULE Relay --------------------------------
(***************************************************************************)
(* One forwarded connection from end to end: an application whose          *)
(* connection was accepted by the near side, the channel that the near     *)
(* side opens for it, the handler at the far side, and the target that     *)
(* handler connects to.  The near side is LocalForward of                  *)
(* forward/client.rs for the direct kinds and                              *)
(* Conversation::open_channel_and_relay of forward/reverse.rs for the      *)
(* forwarded ones; the far side is forward/direct.rs, forward/socks5.rs or *)
(* handle_forwarded_channel of forward/client.rs.  A socks5 channel is     *)
(* opened by a program outside the repository, which copies as the others  *)
(* do.                                                                     *)
(*                                                                         *)
(* A pipe is one direction of a connection or of the channel: the tokens   *)
(* in it, and whether its writer has finished it or it was reset.  The     *)
(* pipes to the application and to the target keep all they were given.    *)
(* Open messages and replies are tokens, one per encoded field, so that a  *)
(* decoder which reads a field too few leaves it to be taken for data.     *)
(***************************************************************************)
EXTENDS Naturals, Sequences, FiniteSets, SequencesExt

CONSTANTS
  Kinds,       (* the channel types to look at                            *)
  UpBytes,     (* what the application has to send, in order              *)
  DownBytes,   (* what the target has to send, in order                   *)
  MaxFaults    (* how many things may break                               *)

ASSUME RelayAssumption ==
  /\ Kinds \subseteq {"direct-tcpip", "direct-streamlocal", "socks5",
                      "forwarded-tcpip", "forwarded-streamlocal"}
  /\ UpBytes \in Seq(Range(UpBytes)) /\ DownBytes \in Seq(Range(DownBytes))
  /\ MaxFaults \in Nat

VARIABLES
  conn,      (* the kind, the port asked for and the SOCKS5 messages      *)
  near,      (* where the near handler is                                 *)
  far,       (* where the far handler is                                  *)
  todo,      (* the fields the far side still has to decode               *)
  pipe,      (* the six pipes                                             *)
  copier,    (* the four spawned relay() tasks                            *)
  sent,      (* how much the application and the target have sent         *)
  faults     (* what broke                                                *)

vars == <<conn, near, far, todo, pipe, copier, sent, faults>>

Copiers == {"near_up", "near_down", "far_up", "far_down"}
Pipes == {"localUp", "chanUp", "targetUp", "targetDown", "chanDown", "localDown"}
ChannelPipes == {"chanUp", "chanDown"}

(* The reader and the writer each relay() was given. *)
Src(c) == CASE c = "near_up" -> "localUp"      [] c = "far_up" -> "chanUp"
            [] c = "far_down" -> "targetDown"  [] c = "near_down" -> "chanDown"
Dst(c) == CASE c = "near_up" -> "chanUp"       [] c = "far_up" -> "targetUp"
            [] c = "far_down" -> "chanDown"    [] c = "near_down" -> "localDown"

Forwarded == conn.kind \in {"forwarded-tcpip", "forwarded-streamlocal"}
Over(c) == copier[c] \in {"done", "failed", "aborted"}
NearCopiers == {"near_up", "near_down"}
FarCopiers == {"far_up", "far_down"}
-----------------------------------------------------------------------------
(* Open messages, field by field, as open_channel and the EncodeInto of    *)
(* each payload write them.                                                *)
Header == <<"max", "type">>
DirectTcpipFields == <<"host", conn.port, "host", "port">>
DirectStreamlocalFields == <<"path", "reserved", "zero">>
ForwardedTcpipFields == <<"host", "port", "host", "port">>
ForwardedStreamlocalFields == <<"path", "reserved">>

OpenMessage ==
  Header \o CASE conn.kind = "direct-tcpip" -> DirectTcpipFields
              [] conn.kind = "direct-streamlocal" -> DirectStreamlocalFields
              [] conn.kind = "forwarded-tcpip" -> ForwardedTcpipFields
              [] conn.kind = "forwarded-streamlocal" -> ForwardedStreamlocalFields
              [] conn.kind = "socks5" -> <<>>

FieldType(token) ==
  IF token \in {"type", "host", "path", "reserved"} THEN "string" ELSE "varint"

(* The types each decoder asks for, one decode_one() after another. *)
AcceptTypes == <<"varint", "string">>
DirectTcpipTypes == <<"string", "varint", "string", "varint">>

(* Mutant: the reserved port is not read. *)
DirectStreamlocalTypes_NoPort == <<"string", "string">>

DirectStreamlocalTypes == <<"string", "string", "varint">>
ForwardedTcpipTypes == <<"string", "varint", "string", "varint">>
ForwardedStreamlocalTypes == <<"string", "string">>

DecodedTypes ==
  AcceptTypes \o CASE conn.kind = "direct-tcpip" -> DirectTcpipTypes
                   [] conn.kind = "direct-streamlocal" -> DirectStreamlocalTypes
                   [] conn.kind = "forwarded-tcpip" -> ForwardedTcpipTypes
                   [] conn.kind = "forwarded-streamlocal" -> ForwardedStreamlocalTypes
                   [] conn.kind = "socks5" -> <<>>

Confirmation == <<"confirm", "max">>
Failure == <<"failure", "code", "text">>

(* What the application sends: on a socks5 channel a greeting and a        *)
(* request come first.                                                     *)
Handshake == IF conn.kind = "socks5" THEN <<conn.greeting, conn.request>> ELSE <<>>
Script == Handshake \o UpBytes

Init ==
  /\ conn \in [kind : Kinds, port : {"port", "bigport"},
               greeting : {"noauth", "otherauth", "badversion"},
               request : {"connect", "bind", "badversion", "badatyp"}]
  /\ conn.kind # "direct-tcpip" => conn.port = "port"
  /\ conn.kind # "socks5" => conn.greeting = "noauth"
  /\ conn.kind # "socks5" \/ conn.greeting # "noauth" => conn.request = "connect"
  /\ near = "open" /\ far = "none"
  /\ todo = <<>>
  /\ pipe = [p \in Pipes |-> [data |-> <<>>, end |-> "open"]]
  /\ copier = [c \in Copiers |-> "none"]
  /\ sent = [app |-> 0, target |-> 0]
  /\ faults = {}
-----------------------------------------------------------------------------
(* Pipes: pp is the state of all pipes, p the one that is changed. *)
Put(pp, p, tokens) == [pp EXCEPT ![p].data = @ \o tokens]
Close(pp, p, how) ==
  [pp EXCEPT ![p].end = IF @ = "open" THEN how ELSE @]

(* A dropped stream writer is finished or reset, as the transport likes; a *)
(* dropped OwnedWriteHalf shuts its socket down for writing.               *)
DropWriter(pp, p) ==
  IF p \in ChannelPipes THEN {Close(pp, p, "fin"), Close(pp, p, "reset")}
                        ELSE {Close(pp, p, "fin")}

(* A dropped stream reader stops the writer; a dropped OwnedReadHalf does  *)
(* nothing.                                                                *)
DropReader(pp, p) == IF p \in ChannelPipes THEN Close(pp, p, "reset") ELSE pp

(* Both ends of the channel, dropped by the near or by the far handler. *)
NearLetsGo(pp) ==
  DropWriter(Close(DropReader(pp, "chanDown"), "localDown", "fin"), "chanUp")
FarLetsGo(pp) == DropWriter(DropReader(pp, "chanUp"), "chanDown")

(* Something breaks, or a task is dropped: at most MaxFaults such events.  *)
Fault(what) ==
  /\ what \notin faults /\ Cardinality(faults) < MaxFaults
  /\ faults' = faults \cup {what}
-----------------------------------------------------------------------------
(* The near handler: open_channel, which writes the open message and waits *)
(* for the answer.                                                         *)
NearOpen ==
  /\ near = "open" /\ pipe["chanUp"].end = "open"
  /\ pipe' = Put(pipe, "chanUp", OpenMessage)
  /\ near' = "wait"
  /\ far' = "decode" /\ todo' = DecodedTypes
  /\ UNCHANGED <<conn, copier, sent, faults>>

NearConfirmed ==
  /\ near = "wait" /\ IsPrefix(Confirmation, pipe["chanDown"].data)
  /\ pipe' = [pipe EXCEPT !["chanDown"].data = SubSeq(@, 3, Len(@))]
  /\ near' = "relay"
  /\ copier' = [c \in Copiers |-> IF c \in NearCopiers THEN "copy" ELSE copier[c]]
  /\ UNCHANGED <<conn, far, todo, sent, faults>>

(* A failure message, or no answer and none to come: a warning, and the    *)
(* accepted connection is dropped with the channel.                        *)
NearRefused ==
  /\ \/ near = "wait" /\ IsPrefix(Failure, pipe["chanDown"].data)
     \/ near = "wait" /\ pipe["chanDown"].end = "reset"
     \/ near = "wait" /\ pipe["chanDown"].data = <<>> /\ pipe["chanDown"].end = "fin"
     \/ near = "open" /\ pipe["chanUp"].end # "open"
  /\ pipe' \in NearLetsGo(pipe)
  /\ near' = "done"
  /\ UNCHANGED <<conn, far, todo, copier, sent, faults>>

(* join! of both relays; for the forwarded kinds also behind a cancel. *)
NearReturns ==
  /\ near \in {"relay", "cancelling"} /\ \A c \in NearCopiers : Over(c)
  /\ near' = "done"
  /\ UNCHANGED <<conn, far, todo, pipe, copier, sent, faults>>

(* relay_cancel, raced with the relays of a forwarded channel: both are    *)
(* told to abort and awaited.                                              *)
NearCancelled ==
  /\ Forwarded /\ near = "relay"
  /\ near' = "cancelling" /\ Fault("cancel")
  /\ UNCHANGED <<conn, far, todo, pipe, copier, sent>>

(* The future of a direct forward is dropped with the JoinSet of its       *)
(* accept loop.  Its relays were spawned and stay behind.                  *)
NearDropped ==
  /\ ~Forwarded
  /\ \/ near \in {"open", "wait"} /\ pipe' \in NearLetsGo(pipe) /\ Fault("near")
     \/ near = "relay" /\ UNCHANGED <<pipe, faults>>
  /\ near' = "dropped"
  /\ UNCHANGED <<conn, far, todo, copier, sent>>
-----------------------------------------------------------------------------
(* The far handler. *)

(* A field of the open message is decoded. *)
FarDecode ==
  /\ far = "decode" /\ todo # <<>> /\ pipe["chanUp"].data # <<>>
  /\ FieldType(Head(pipe["chanUp"].data)) = Head(todo)
  /\ todo' = Tail(todo)
  /\ pipe' = [pipe EXCEPT !["chanUp"].data = Tail(@)]
  /\ UNCHANGED <<conn, near, far, copier, sent, faults>>

(* A read fails, or what is read cannot be decoded: nothing is answered.   *)
FarReadFails ==
  /\ \/ /\ far = "decode" /\ todo # <<>>
        /\ pipe["chanUp"].data # <<>> => FieldType(Head(pipe["chanUp"].data)) # Head(todo)
     \/ far \in {"greeting", "request"} /\ pipe["chanUp"].data = <<>>
  /\ pipe["chanUp"].data = <<>> => pipe["chanUp"].end # "open"
  /\ pipe' \in FarLetsGo(pipe)
  /\ far' = "done"
  /\ UNCHANGED <<conn, near, todo, copier, sent, faults>>

(* PendingChannel::reject and the drop of the stream behind it. *)
FarReject ==
  /\ pipe' \in IF pipe["chanDown"].end = "open"
                 THEN FarLetsGo(Put(pipe, "chanDown", Failure)) ELSE FarLetsGo(pipe)
  /\ far' = "done"
  /\ UNCHANGED <<conn, near, todo, copier, sent, faults>>

(* u16::try_from of the destination port of a direct-tcpip channel. *)
FarPortOverflows ==
  /\ far = "decode" /\ todo = <<>> /\ conn.port = "bigport"
  /\ FarReject

FarConnectFails ==
  /\ far = "decode" /\ todo = <<>> /\ conn.kind # "socks5" /\ conn.port = "port"
  /\ FarReject

StartFarCopiers ==
  copier' = [c \in Copiers |-> IF c \in FarCopiers THEN "copy" ELSE copier[c]]

(* Mutant: the channel is confirmed first and the target connected then. *)
FarConnects_ConfirmFirst ==
  /\ far = "decode" /\ todo = <<>> /\ conn.kind # "socks5" /\ conn.port = "port"
  /\ pipe["chanDown"].end = "open"
  /\ pipe' = Put(pipe, "chanDown", Confirmation)
  /\ far' = "request"
  /\ UNCHANGED <<conn, near, todo, copier, sent, faults>>

(* connect, accept() and the two relays.  A confirmation that cannot be    *)
(* written is an error: everything is dropped.                             *)
FarConnects ==
  /\ far = "decode" /\ todo = <<>> /\ conn.kind # "socks5" /\ conn.port = "port"
  /\ \/ /\ pipe["chanDown"].end = "open"
        /\ pipe' = Put(pipe, "chanDown", Confirmation)
        /\ StartFarCopiers
        /\ far' = "relay"
     \/ /\ pipe["chanDown"].end # "open"
        /\ pipe' \in FarLetsGo(pipe)
        /\ far' = "done"
        /\ UNCHANGED copier
  /\ UNCHANGED <<conn, near, todo, sent, faults>>

(* A socks5 channel is confirmed by the dispatcher before its handler      *)
(* starts.                                                                 *)
FarAcceptsSocks5 ==
  /\ far = "decode" /\ todo = <<>> /\ conn.kind = "socks5"
  /\ \/ /\ pipe["chanDown"].end = "open"
        /\ pipe' = Put(pipe, "chanDown", Confirmation)
        /\ far' = "greeting"
     \/ /\ pipe["chanDown"].end # "open"
        /\ pipe' \in FarLetsGo(pipe)
        /\ far' = "done"
  /\ UNCHANGED <<conn, near, todo, copier, sent, faults>>

(* One message of the SOCKS5 negotiation is read: the handler writes the   *)
(* reply, if any, and goes on, or shuts its writer down and returns, or    *)
(* returns an error and drops the stream.                                  *)
Socks5Step(from, reply, to) ==
  /\ far = from /\ pipe["chanUp"].data # <<>>
  /\ LET taken == [pipe EXCEPT !["chanUp"].data = Tail(@)]
     IN  \/ /\ pipe["chanDown"].end = "open"
            /\ pipe' \in IF to # "done" THEN {Put(taken, "chanDown", reply)}
                         ELSE IF reply = <<>> THEN FarLetsGo(taken)
                         ELSE {DropReader(Close(Put(taken, "chanDown", reply),
                                                "chanDown", "fin"), "chanUp")}
            /\ far' = to
         \/ /\ pipe["chanDown"].end # "open"
            /\ pipe' \in FarLetsGo(taken)
            /\ far' = "done"
  /\ UNCHANGED <<conn, near, todo, copier, sent, faults>>

(* Method negotiation. *)
Socks5Greeting ==
  /\ far = "greeting" /\ pipe["chanUp"].data # <<>>
  /\ CASE Head(pipe["chanUp"].data) = "badversion" -> Socks5Step("greeting", <<>>, "done")
       [] Head(pipe["chanUp"].data) = "otherauth" ->
            Socks5Step("greeting", <<"method_none">>, "done")
       [] OTHER -> Socks5Step("greeting", <<"method_ok">>, "request")

(* The request.  The address is read before the command is looked at, so   *)
(* that an address type the handler does not know is never answered.       *)
Socks5Request ==
  /\ far = "request" /\ pipe["chanUp"].data # <<>>
  /\ CASE Head(pipe["chanUp"].data) \in {"badversion", "badatyp"} ->
            Socks5Step("request", <<>>, "done")
       [] Head(pipe["chanUp"].data) = "bind" ->
            Socks5Step("request", <<"unsupported">>, "done")
       [] OTHER -> Socks5Step("request", <<>>, "connect")

Socks5Connects ==
  /\ far = "connect"
  /\ \/ /\ pipe["chanDown"].end = "open"
        /\ pipe' = Put(pipe, "chanDown", <<"granted">>)
        /\ StartFarCopiers
        /\ far' = "relay"
     \/ /\ pipe["chanDown"].end # "open"
        /\ pipe' \in FarLetsGo(pipe)
        /\ far' = "done"
        /\ UNCHANGED copier
  /\ UNCHANGED <<conn, near, todo, sent, faults>>

Socks5ConnectFails ==
  /\ far = "connect"
  /\ pipe' \in IF pipe["chanDown"].end = "open"
       THEN {DropReader(Close(Put(pipe, "chanDown", <<"refused">>), "chanDown", "fin"),
                        "chanUp")}
       ELSE FarLetsGo(pipe)
  /\ far' = "done"
  /\ UNCHANGED <<conn, near, todo, copier, sent, faults>>

FarReturns ==
  /\ far = "relay" /\ \A c \in FarCopiers : Over(c)
  /\ far' = "done"
  /\ UNCHANGED <<conn, near, todo, pipe, copier, sent, faults>>

(* The task of the far handler is cancelled or aborted: its relays, too,   *)
(* were spawned and stay behind.                                           *)
FarDropped ==
  /\ \/ /\ far \in {"decode", "greeting", "request", "connect"}
        /\ pipe' \in FarLetsGo(pipe) /\ Fault("far")
     \/ far = "relay" /\ UNCHANGED <<pipe, faults>>
  /\ far' = "dropped"
  /\ UNCHANGED <<conn, near, todo, copier, sent>>
-----------------------------------------------------------------------------
(* relay(): io::copy until the reader ends, then shutdown of the writer.   *)

Copy(c) ==
  /\ copier[c] = "copy"
  /\ pipe[Src(c)].data # <<>> /\ pipe[Dst(c)].end = "open"
  /\ pipe' = Put([pipe EXCEPT ![Src(c)].data = Tail(@)], Dst(c),
                 <<Head(pipe[Src(c)].data)>>)
  /\ UNCHANGED <<conn, near, far, todo, copier, sent, faults>>

(* The connection accepted for a forwarded channel is shared by the halves *)
(* of tokio::io::split: it is closed when both are gone, and not before.   *)
Split(c) == Forwarded /\ c \in NearCopiers
LastHalf(c) == Split(c) /\ \A d \in NearCopiers \ {c} : Over(d)
SocketAfter(pp, c) == IF LastHalf(c) THEN Close(pp, "localDown", "fin") ELSE pp

(* Mutant: no shutdown behind the copy. *)
CopyEnds_NoShutdown(c) ==
  /\ copier[c] = "copy"
  /\ pipe[Src(c)].data = <<>> /\ pipe[Src(c)].end = "fin" /\ pipe[Dst(c)].end = "open"
  /\ copier' = [copier EXCEPT ![c] = "done"]
  /\ UNCHANGED <<conn, near, far, todo, pipe, sent, faults>>

CopyEnds(c) ==
  /\ copier[c] = "copy"
  /\ pipe[Src(c)].data = <<>> /\ pipe[Src(c)].end = "fin" /\ pipe[Dst(c)].end = "open"
  /\ copier' = [copier EXCEPT ![c] = "done"]
  /\ pipe' = SocketAfter(Close(pipe, Dst(c), "fin"), c)
  /\ UNCHANGED <<conn, near, far, todo, sent, faults>>

(* The reader and the writer of a relay are dropped where it stands. *)
Dropped(c) ==
  LET read == DropReader(pipe, Src(c))
  IN  IF Split(c) /\ Dst(c) = "localDown" THEN {SocketAfter(read, c)}
      ELSE {SocketAfter(pp, c) : pp \in DropWriter(read, Dst(c))}

(* Mutant: a relay that fails takes the other direction down with it. *)
CopyFails_Both(c) ==
  /\ copier[c] = "copy"
  /\ pipe[Src(c)].end = "reset" \/ pipe[Dst(c)].end # "open"
  /\ LET pair == IF c \in NearCopiers THEN NearCopiers ELSE FarCopiers
     IN  /\ copier' = [d \in Copiers |-> IF d \in pair /\ ~Over(d) THEN "failed" ELSE copier[d]]
         /\ pipe' = [p \in Pipes |-> IF \E d \in pair : p = Dst(d)
                                      THEN Close(pipe, p, "fin")[p] ELSE pipe[p]]
  /\ UNCHANGED <<conn, near, far, todo, sent, faults>>

(* The copy or the shutdown fails, and `?` leaves the relay. *)
CopyFails(c) ==
  /\ copier[c] = "copy"
  /\ pipe[Src(c)].end = "reset" \/ pipe[Dst(c)].end # "open"
  /\ copier' = [copier EXCEPT ![c] = "failed"]
  /\ pipe' \in Dropped(c)
  /\ UNCHANGED <<conn, near, far, todo, sent, faults>>

(* Mutant: only the relay from the channel is aborted. *)
CopyAborted_OneWay(c) ==
  /\ c = "near_down" /\ near = "cancelling" /\ copier[c] = "copy"
  /\ copier' = [copier EXCEPT ![c] = "aborted"]
  /\ pipe' \in Dropped(c)
  /\ UNCHANGED <<conn, near, far, todo, sent, faults>>

(* The abort of a cancelled forward takes effect. *)
CopyAborted(c) ==
  /\ c \in NearCopiers /\ near = "cancelling" /\ copier[c] = "copy"
  /\ copier' = [copier EXCEPT ![c] = "aborted"]
  /\ pipe' \in Dropped(c)
  /\ UNCHANGED <<conn, near, far, todo, sent, faults>>
-----------------------------------------------------------------------------
(* The application and the target, and what may break.                     *)

AppSends ==
  /\ sent.app < Len(Script) /\ pipe["localUp"].end = "open"
  /\ sent' = [sent EXCEPT !.app = @ + 1]
  /\ pipe' = Put(pipe, "localUp", <<Script[sent.app + 1]>>)
  /\ UNCHANGED <<conn, near, far, todo, copier, faults>>

TargetSends ==
  /\ copier["far_up"] # "none"
  /\ sent.target < Len(DownBytes) /\ pipe["targetDown"].end = "open"
  /\ sent' = [sent EXCEPT !.target = @ + 1]
  /\ pipe' = Put(pipe, "targetDown", <<DownBytes[sent.target + 1]>>)
  /\ UNCHANGED <<conn, near, far, todo, copier, faults>>

AppFinishes ==
  /\ pipe["localUp"].end = "open"
  /\ pipe' = Close(pipe, "localUp", "fin")
  /\ UNCHANGED <<conn, near, far, todo, copier, sent, faults>>

TargetFinishes ==
  /\ copier["far_up"] # "none" /\ pipe["targetDown"].end = "open"
  /\ pipe' = Close(pipe, "targetDown", "fin")
  /\ UNCHANGED <<conn, near, far, todo, copier, sent, faults>>

(* An application resets its connection, a stream of the channel is reset  *)
(* or stopped, or the connection is lost.  Bytes on the way may be lost.   *)
Break(what, ps) ==
  /\ Fault(what)
  /\ pipe' = [p \in Pipes |-> IF p \in ps THEN Close(pipe, p, "reset")[p] ELSE pipe[p]]
  /\ UNCHANGED <<conn, near, far, todo, copier, sent>>

AppResets == Break("app", {"localUp", "localDown"})
TargetResets == copier["far_up"] # "none" /\ Break("target", {"targetUp", "targetDown"})
StreamBreaks == \E p \in ChannelPipes : Break(p, {p})
ConnectionLost == Break("connection", ChannelPipes)
-----------------------------------------------------------------------------
NearNext == NearOpen \/ NearConfirmed \/ NearRefused \/ NearReturns
FarNext ==
  \/ FarDecode \/ FarReadFails \/ FarPortOverflows \/ FarConnectFails \/ FarConnects
  \/ FarAcceptsSocks5 \/ Socks5Greeting \/ Socks5Request \/ Socks5Connects
  \/ Socks5ConnectFails \/ FarReturns
CopierNext(c) == Copy(c) \/ CopyEnds(c) \/ CopyFails(c)
Drops == NearCancelled \/ NearDropped \/ FarDropped

Next ==
  \/ NearNext \/ FarNext
  \/ \E c \in Copiers : CopierNext(c) \/ CopyAborted(c)
  \/ Drops
  \/ AppSends \/ TargetSends \/ AppFinishes \/ TargetFinishes
  \/ AppResets \/ TargetResets \/ StreamBreaks \/ ConnectionLost

Spec == Init /\ [][Next]_vars

(* The runtime polls every task that can go on, a connect ends one way or  *)
(* the other, and an abort takes effect.  A pipe takes whatever is written *)
(* to it: application and target are presumed to read what they are sent,  *)
(* as a copy that cannot write does not go on.  They need not send, nor    *)
(* end what they send.                                                     *)
Fairness ==
  /\ WF_vars(NearNext) /\ WF_vars(FarNext)
  /\ \A c \in Copiers : WF_vars(CopierNext(c)) /\ WF_vars(CopyAborted(c))

FairSpec == Spec /\ Fairness
-----------------------------------------------------------------------------
(* Every variable has its type; a handler relays only when it has started  *)
(* its two relays (open_channel_and_relay, relay_bidirectional).           *)
TypeOK ==
  /\ near \in {"open", "wait", "relay", "cancelling", "done", "dropped"}
  /\ far \in {"none", "decode", "greeting", "request", "connect", "relay", "done",
              "dropped"}
  /\ copier \in [Copiers -> {"none", "copy", "done", "failed", "aborted"}]
  /\ near \in {"relay", "cancelling"} => \A c \in NearCopiers : copier[c] # "none"
  /\ \A p \in Pipes : pipe[p].end \in {"open", "fin", "reset"}
  /\ sent.app \in 0..Len(Script) /\ sent.target \in 0..Len(DownBytes)

(* What the application may read on a socks5 channel, by what it asked. *)
Socks5Answers ==
  CASE conn.greeting = "badversion" -> {<<>>}
    [] conn.greeting = "otherauth" -> {<<"method_none">>}
    [] conn.request \in {"badversion", "badatyp"} -> {<<"method_ok">>}
    [] conn.request = "bind" -> {<<"method_ok", "unsupported">>}
    [] OTHER -> {<<"method_ok", "refused">>, <<"method_ok", "granted">> \o DownBytes}

(* "After confirmation, the QUIC stream carries raw bytes" (direct.rs):    *)
(* the target is given what the application sent, in order, and nothing of *)
(* the open message or of the negotiation; the application reads what the  *)
(* target sent and nothing of the confirmation, on a socks5 channel behind *)
(* the replies that fit its greeting and its request (handle_socks5).      *)
(* All state is well typed besides.                                        *)
OnlyPayloadArrives ==
  /\ TypeOK
  /\ IsPrefix(pipe["targetUp"].data, UpBytes)
  /\ IF conn.kind = "socks5"
       THEN \E s \in Socks5Answers : IsPrefix(pipe["localDown"].data, s)
       ELSE IsPrefix(pipe["localDown"].data, DownBytes)

(* The faults that concern a direction.  Once both sides relay, a stream   *)
(* of the channel that breaks concerns only its own direction.             *)
Relayed == copier["near_up"] # "none" /\ copier["far_up"] # "none"
UpFaults == IF Relayed THEN faults \ {"chanDown"} ELSE faults
DownFaults == IF Relayed THEN faults \ {"chanUp"} ELSE faults

(* In a direction where nothing broke the end of the data is not invented: *)
(* when the target, or the application, sees a clean end, the other one    *)
(* has ended and everything it sent has arrived - whatever became of the   *)
(* other direction, once both sides relay, and even if the handlers of the *)
(* relays are gone.  This does not hold of a direction that broke: a relay *)
(* that fails or is aborted drops the socket it writes to, which ends it   *)
(* cleanly behind data that was cut short.                                 *)
CleanEndIsComplete ==
  /\ pipe["targetUp"].end = "fin" /\ UpFaults = {} =>
       /\ pipe["localUp"].end = "fin"
       /\ Handshake \o pipe["targetUp"].data = SubSeq(Script, 1, sent.app)
  /\ pipe["localDown"].end = "fin" /\ DownFaults = {} /\ copier["far_up"] # "none" =>
       /\ pipe["targetDown"].end = "fin"
       /\ Len(pipe["localDown"].data) =
            sent.target + IF conn.kind = "socks5" THEN 2 ELSE 0

(* A half-close crosses: the target sees the end of the application's data *)
(* although it goes on sending itself, and the other way round.            *)
HalfCloseCrosses ==
  /\ pipe["localUp"].end = "fin" /\ copier["far_up"] # "none" ~>
       pipe["targetUp"].end = "fin" \/ UpFaults # {}
  /\ pipe["targetDown"].end = "fin" ~>
       pipe["localDown"].end = "fin" \/ DownFaults # {}

(* Every accepted connection gets its channel or is told: near and far     *)
(* never wait for each other.  And a channel of a kind other than socks5   *)
(* is open at the near side only when the target was reached (direct.rs:   *)
(* "connects to the target, sends ChannelOpenConfirmation or               *)
(* ChannelOpenFailure").                                                   *)
OpenIsAnswered ==
  /\ near = "wait" ~> near # "wait"
  /\ [](conn.kind # "socks5" /\ copier["near_up"] # "none" => copier["far_up"] # "none")

(* What ends is seen to end, by sides that read.  When application and     *)
(* target have ended, so do both handlers and all relays; a cancelled      *)
(* forward returns with neither of its relays left; and the application of *)
(* a direct forward whose channel breaks while it is relayed sees an end.  *)
(* (That of a forwarded one need not: local_writer is half of a socket     *)
(* that the other relay keeps open.)                                       *)
EndsMeet ==
  /\ pipe["localUp"].end # "open" /\ pipe["targetDown"].end # "open" ~>
       /\ near \in {"done", "dropped"} /\ far \in {"done", "dropped"}
       /\ \A c \in Copiers : Over(c) \/ copier[c] = "none"
  /\ near = "cancelling" ~> near = "done" /\ \A c \in NearCopiers : Over(c)
  /\ ~Forwarded /\ copier["near_down"] = "copy" /\ pipe["chanDown"].end = "reset" ~>
       pipe["localDown"].end # "open"
=============================================================================
