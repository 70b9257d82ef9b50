--------------------------- MODULE RemoteForwards ---------------------------
(***************************************************************************)
(* Remote forwards from the command line to the local target: the -R       *)
(* arguments (ForwardSpec), RemoteForward::request and                     *)
(* accept_forwarded_channels of src/src/forward/client.rs, and the         *)
(* listeners the server binds for them in src/src/forward/reverse.rs.      *)
(* The order of requests and replies on the control stream is the subject  *)
(* of GlobalRequests, the life of the listener tasks that of               *)
(* ServerSession, what flows through a confirmed channel that of Relay.    *)
(*                                                                         *)
(* The program that holds the library, the sockets of the server's host,   *)
(* its name service and other peers' channels are external.                *)
(***************************************************************************)
EXTENDS ForwardSpec, Functions

CONSTANTS
  Args,           (* places for arguments                                 *)
  CommandLines,   (* what may be given: [opt, fields] for every place     *)
  Conns,          (* connections to the listeners                         *)
  Ephemeral,      (* the ports the host gives out for port 0              *)
  Foreign,        (* sets of <<address, port>> other programs may hold    *)
  Lookup(_),      (* lookup_host: a sequence of addresses, empty on error *)
  MaxStrange      (* other streams of the peer that wait at a time        *)

(* Channels of unknown type, with less payload than a forwarded-tcpip has  *)
(* or with enough, and streams accept_channel fails on.                    *)
Strange == {"short", "full", "bad"}
Addresses == {"any6", "any4", "lo6", "lo4", "lan6", "lan4"}

(* The hosts a listener may be asked for. *)
Hosts == {"", LoopbackHost}
         \cup UNION {UNION {{f.text : f \in Range(c[i].fields)} : i \in Args} : c \in CommandLines}

(* A Unix path begins with a slash in the grammar, and lookup_host yields  *)
(* addresses of the host.                                                  *)
ASSUME ForwardsAssumption ==
  /\ CommandLines \subseteq [Args -> [opt : {"none", "-L", "-R", "-D"}, fields : Seq(FieldValues)]]
  /\ \A c \in CommandLines : \A i \in Args : \A f \in Range(c[i].fields) :
       f.kind = "path" => f.text \notin {"", "*"}
  /\ \A host \in Hosts : Lookup(host) \in Seq(Addresses)
  /\ Ephemeral \subseteq 1..PortLimit - 1
  /\ Conns \cap Strange = {}

VARIABLES
  cmd,         (* the command line                                        *)
  phase,       (* "args", "run" or "usage"                                *)
  spec,        (* the parsed arguments                                    *)
  req,         (* each argument's request and its reply                   *)
  listener,    (* the listener the server has for each argument           *)
  files,       (* the socket files that exist on the server's host        *)
  foreign,     (* the sockets of other programs there                     *)
  leaked,      (* arguments whose answer could not be written             *)
  established, (* the results of request, in order                        *)
  mappings,    (* the ones given to accept_forwarded_channels             *)
  loop,        (* its loop                                                *)
  inbox,       (* channels that wait for accept_channel                   *)
  conn,        (* connections to the listeners and their channels         *)
  up           (* whether the session is up                               *)

client == <<established, mappings, loop, inbox>>
vars == <<cmd, phase, spec, req, listener, files, foreign, leaked, client, conn, up>>

Given == {i \in Args : cmd[i].opt # "none"}
NoForward == [bind |-> NoEndpoint, connect |-> NoEndpoint]
Stopped == [host |-> "", port |-> 0, addrs |-> {}, st |-> "stopped", handle |-> FALSE]

Init ==
  /\ cmd \in CommandLines
  /\ phase = "args"
  /\ spec = [i \in Args |-> NoForward]
  /\ req = [i \in Args |-> [st |-> "idle", port |-> 0]]
  /\ listener = [i \in Args |-> [Stopped EXCEPT !.st = "none"]]
  /\ files = {} /\ leaked = {}
  /\ foreign \in Foreign
  /\ established = <<>> /\ mappings = <<>> /\ loop = "off" /\ inbox = <<>>
  /\ conn = [x \in Conns |-> [to |-> 0, st |-> "none", target |-> NoEndpoint,
                            host |-> "", port |-> 0]]
  /\ up = TRUE

SetReq(i, st, port) == req' = [req EXCEPT ![i] = [st |-> st, port |-> port]]
SetConn(x, st) == conn' = [conn EXCEPT ![x].st = st]
Live(i) == listener[i].st = "live"
IsUnix(i) == spec[i].bind.type = "unix"
-----------------------------------------------------------------------------
(* The client's side of a request. *)

(* The argument parser of the program: every argument, or none. *)
ParseArgs ==
  /\ phase = "args"
  /\ IF \A i \in Given : FromStr(cmd[i].opt, cmd[i].fields) # {}
     THEN /\ phase' = "run"
          /\ spec' = [i \in Args |->
               IF i \notin Given THEN NoForward
               ELSE CHOOSE m \in FromStr(cmd[i].opt, cmd[i].fields) : TRUE]
     ELSE phase' = "usage" /\ UNCHANGED spec
  /\ UNCHANGED <<cmd, req, listener, files, foreign, leaked, client, conn, up>>

CanonicalizeRemoteBindHost(host) == IF host \in {"", "*"} THEN "" ELSE host

(* The request as it is encoded, and the port of the reply cut to 16 bits. *)
TcpipForwardRequest(i) ==
  <<CanonicalizeRemoteBindHost(spec[i].bind.host), spec[i].bind.port>>
StreamlocalForwardRequest(i) == <<spec[i].bind.host>>
AllocatedPort(port) == port % PortLimit

Request(i) ==
  /\ phase = "run" /\ up /\ cmd[i].opt = "-R"
  /\ req[i].st = "idle"
  /\ SetReq(i, "asked", 0)
  /\ UNCHANGED <<cmd, phase, spec, listener, files, foreign, leaked, client, conn, up>>

(* Mutant: the mapping keeps the port that was asked for. *)
RequestAnswered_AskedPort(i) ==
  /\ up /\ req[i].st = "replied"
  /\ SetReq(i, "established", req[i].port)
  /\ established' = Append(established,
       [arg |-> i, connect |-> spec[i].connect,
        bind |-> IF IsUnix(i) THEN spec[i].bind
                 ELSE Tcp(TcpipForwardRequest(i)[1], spec[i].bind.port)])
  /\ UNCHANGED <<cmd, phase, spec, listener, files, foreign, leaked, mappings,
                 loop, inbox, conn, up>>

RequestAnswered(i) ==
  /\ up /\ req[i].st = "replied"
  /\ SetReq(i, "established", req[i].port)
  /\ established' = Append(established,
       [arg |-> i, connect |-> spec[i].connect,
        bind |-> IF IsUnix(i) THEN spec[i].bind
                 ELSE Tcp(TcpipForwardRequest(i)[1], AllocatedPort(req[i].port))])
  /\ UNCHANGED <<cmd, phase, spec, listener, files, foreign, leaked, mappings,
                 loop, inbox, conn, up>>

RequestCancel(i) ==
  /\ up /\ req[i].st = "established"
  /\ SetReq(i, "cancelling", req[i].port)
  /\ UNCHANGED <<cmd, phase, spec, listener, files, foreign, leaked, client, conn, up>>
-----------------------------------------------------------------------------
(* The sockets of the server's host. *)
V6(a) == a \in {"any6", "lo6", "lan6"}
Clash(a, b) == V6(a) = V6(b) /\ (a = b \/ a \in {"any6", "any4"} \/ b \in {"any6", "any4"})
Sockets == foreign \cup UNION {{<<a, listener[i].port>> : a \in listener[i].addrs} : i \in Args}
Free(a, port) == \A s \in Sockets : s[2] # port \/ ~Clash(a, s[1])

(* Where a host is bound, in order. *)
BindCandidates(host) ==
  CASE host = "localhost" -> <<"lo6", "lo4">>   [] host = "" -> <<"any6", "any4">>
    [] host = "0.0.0.0"   -> <<"any4">>         [] host = "::" -> <<"any6">>
    [] host = "127.0.0.1" -> <<"lo4">>          [] host = "::1" -> <<"lo6">>
    [] OTHER -> <<>>

ResolveBindCandidates(host) ==
  IF BindCandidates(host) # <<>> THEN BindCandidates(host) ELSE Lookup(host)

(* The order they are tried in: sort_by_key puts IPv6 first and keeps the  *)
(* order of lookup_host otherwise.  There is no first one of none.         *)
Before(c, m, n) == (V6(c[m]) /\ ~V6(c[n])) \/ (V6(c[m]) = V6(c[n]) /\ m < n)
First(c) == {c[n] : n \in {k \in DOMAIN c : \A m \in DOMAIN c \ {k} : Before(c, k, m)}}

(* bind_tcp_forward_group: the first address decides the port and whether  *)
(* there is a listener at all; on the others a failure is passed over.     *)
BindTcpForwardGroup(host, port) ==
  LET candidates == ResolveBindCandidates(host)
      asked == IF port = 0 THEN Ephemeral ELSE {port}
  IN {[host |-> host, port |-> p, st |-> "live", handle |-> TRUE,
       addrs |-> {a \in Range(candidates) : Free(a, p)}] :
        p \in {q \in asked : \E a \in First(candidates) : Free(a, q)}}

(* tcp_forwards.insert and unix_forwards.insert of the dispatcher: a key   *)
(* has one handle.                                                         *)
WithHandle(i, new) ==
  [j \in Args |-> IF j = i THEN new
                  ELSE [listener[j] EXCEPT !.handle =
                          @ /\ ~(/\ listener[j].host = new.host
                                 /\ listener[j].port = new.port)]]

AcceptTcpForward(i) ==
  /\ up /\ req[i].st = "asked" /\ ~IsUnix(i)
  /\ LET decoded == TcpipForwardRequest(i)
         groups == IF decoded[2] >= PortLimit THEN {}
                   ELSE BindTcpForwardGroup(CanonicalizeRemoteBindHost(decoded[1]), decoded[2])
     IN \/ \E g \in groups : /\ listener' = WithHandle(i, g)
                             /\ SetReq(i, "replied", g.port)
        \/ groups = {} /\ SetReq(i, "refused", 0) /\ UNCHANGED listener
  /\ UNCHANGED <<cmd, phase, spec, files, foreign, leaked, client, conn, up>>

(* Mutant: a socket file in the way is removed. *)
AcceptUnixForward_Unlinks(i) ==
  /\ up /\ req[i].st = "asked" /\ IsUnix(i)
  /\ files' = files \cup {spec[i].bind.host}
  /\ listener' = WithHandle(i, [Stopped EXCEPT !.host = spec[i].bind.host,
                                               !.st = "live", !.handle = TRUE])
  /\ SetReq(i, "replied", 0)
  /\ UNCHANGED <<cmd, phase, spec, foreign, leaked, client, conn, up>>

AcceptUnixForward(i) ==
  /\ up /\ req[i].st = "asked" /\ IsUnix(i)
  /\ LET path == StreamlocalForwardRequest(i)[1] IN
     IF path \in files
     THEN SetReq(i, "refused", 0) /\ UNCHANGED <<listener, files>>
     ELSE /\ files' = files \cup {path}
          /\ listener' = WithHandle(i, [Stopped EXCEPT !.host = path, !.st = "live",
                                                       !.handle = TRUE])
          /\ SetReq(i, "replied", 0)
  /\ UNCHANGED <<cmd, phase, spec, foreign, leaked, client, conn, up>>
-----------------------------------------------------------------------------
(* The listeners' end. *)

(* UnixSocketGuard of the listeners that are dropped. *)
Unlinked(stopping) == files \ {spec[i].bind.host : i \in {j \in stopping : Live(j) /\ IsUnix(j)}}

(* Every listener is dropped with the session. *)
EndSession ==
  /\ up' = FALSE
  /\ files' = Unlinked(Args)
  /\ listener' = [i \in Args |-> IF Live(i) THEN Stopped ELSE listener[i]]

(* respond_success fails on a socket that is bound: the control stream is  *)
(* gone.  The listener is dropped, and what a Unix socket leaves is its    *)
(* file: UnixSocketGuard is only made after the answer.                    *)
RespondFails(i) ==
  /\ up /\ req[i].st = "asked" /\ IsUnix(i) /\ spec[i].bind.host \notin files
  /\ up' = FALSE
  /\ files' = Unlinked(Args) \cup {spec[i].bind.host}
  /\ listener' = [j \in Args |-> IF Live(j) THEN Stopped ELSE listener[j]]
  /\ leaked' = leaked \cup {i}
  /\ SetReq(i, "failed", 0)
  /\ UNCHANGED <<cmd, phase, spec, foreign, client, conn>>

SessionEnds ==
  /\ up /\ phase = "run"
  /\ EndSession
  /\ UNCHANGED <<cmd, phase, spec, req, foreign, leaked, client, conn>>

(* The handle of the key is aborted, whichever argument it stands for. *)
AcceptCancel(i) ==
  /\ up /\ req[i].st = "cancelling"
  /\ LET key == IF IsUnix(i) THEN <<spec[i].bind.host, 0>>
                ELSE <<CanonicalizeRemoteBindHost(TcpipForwardRequest(i)[1]), req[i].port>>
         found == {j \in Args : /\ listener[j].handle
                                /\ <<listener[j].host, listener[j].port>> = key}
     IN /\ files' = Unlinked(found)
        /\ listener' = [j \in Args |-> IF j \in found THEN Stopped ELSE listener[j]]
        /\ SetReq(i, IF found = {} THEN "established" ELSE "cancelled", req[i].port)
  /\ UNCHANGED <<cmd, phase, spec, foreign, leaked, client, conn, up>>

(* accept() fails: that loop ends, and the listener with its last loop.    *)
(* The handle stays in the table of the dispatcher.                        *)
AcceptFails(i, a) ==
  /\ Live(i) /\ a \in listener[i].addrs
  /\ listener' = [listener EXCEPT ![i].addrs = @ \ {a},
                                  ![i].st = IF listener[i].addrs = {a} THEN "stopped" ELSE @]
  /\ UNCHANGED <<cmd, phase, spec, req, files, foreign, leaked, client, conn, up>>

(* Mutant: the guard is let go of before the loop. *)
UnixAcceptFails_NoGuard(i) ==
  /\ Live(i) /\ IsUnix(i)
  /\ listener' = [listener EXCEPT ![i].st = "stopped"]
  /\ UNCHANGED <<cmd, phase, spec, req, files, foreign, leaked, client, conn, up>>

UnixAcceptFails(i) ==
  /\ Live(i) /\ IsUnix(i)
  /\ files' = Unlinked({i})
  /\ listener' = [listener EXCEPT ![i].st = "stopped"]
  /\ UNCHANGED <<cmd, phase, spec, req, foreign, leaked, client, conn, up>>
-----------------------------------------------------------------------------
(* Connections and their channels. *)

(* An application connects and the accept loop spawns its relay task. *)
Accepted(x, i) ==
  /\ Live(i) /\ conn[x].st = "none"
  /\ conn' = [conn EXCEPT ![x] = [to |-> i, st |-> "accepted", target |-> NoEndpoint,
                                  host |-> listener[i].host, port |-> listener[i].port]]
  /\ UNCHANGED <<cmd, phase, spec, req, listener, files, foreign, leaked, client, up>>

OpenChannel(x) ==
  /\ up /\ conn[x].st = "accepted"
  /\ SetConn(x, "opened")
  /\ inbox' = Append(inbox, x)
  /\ UNCHANGED <<cmd, phase, spec, req, listener, files, foreign, leaked,
                 established, mappings, loop, up>>

PeerOpensStrange(kind) ==
  /\ up /\ phase = "run" /\ kind \in Strange
  /\ Cardinality({n \in DOMAIN inbox : inbox[n] \in Strange}) < MaxStrange
  /\ inbox' = Append(inbox, kind)
  /\ UNCHANGED <<cmd, phase, spec, req, listener, files, foreign, leaked,
                 established, mappings, loop, conn, up>>

(* The program starts the loop with the forwards it has by then. *)
AcceptForwardedChannels ==
  /\ loop = "off" /\ established # <<>>
  /\ loop' = "accept" /\ mappings' = established
  /\ UNCHANGED <<cmd, phase, spec, req, listener, files, foreign, leaked,
                 established, inbox, conn, up>>

(* Whether a mapping is for the address or path a channel names; the loop  *)
(* takes the first that is.                                                *)
Fits(m, x) ==
  IF IsUnix(conn[x].to) THEN m.bind.type = "unix" /\ m.bind.host = conn[x].host
  ELSE /\ m.bind.type = "tcp"
       /\ CanonicalizeRemoteBindHost(m.bind.host) = CanonicalizeRemoteBindHost(conn[x].host)
       /\ m.bind.port = AllocatedPort(conn[x].port)
Mapping(x) ==
  {mappings[n] : n \in {k \in DOMAIN mappings :
     Fits(mappings[k], x) /\ \A m \in DOMAIN mappings : Fits(mappings[m], x) => k <= m}}

AtHead(x) == loop = "accept" /\ up /\ inbox # <<>> /\ Head(inbox) = x

(* A channel with a target is left to a task of its own, another one is    *)
(* refused by the loop itself.                                             *)
HandleForwarded(x) ==
  /\ AtHead(x)
  /\ \/ \E m \in Mapping(x) :
          /\ m.connect # NoEndpoint
          /\ conn' = [conn EXCEPT ![x].st = "connecting", ![x].target = m.connect]
     \/ (\A m \in Mapping(x) : m.connect = NoEndpoint) /\ SetConn(x, "unmatched")
  /\ inbox' = Tail(inbox)
  /\ UNCHANGED <<cmd, phase, spec, req, listener, files, foreign, leaked,
                 established, mappings, loop, up>>

(* A channel of another type is decoded as forwarded-tcpip before it is    *)
(* refused: with fewer bytes than that, the loop waits for the rest.  On a *)
(* stream of another kind, or one whose kind or header does not decode,    *)
(* accept_channel fails and the loop is left, though the session is up; it *)
(* waits in accept_channel while the header is withheld.                   *)
LoopAfter(kind) ==
  CASE kind = "short" -> {"stuck"} [] kind = "full" -> {"accept"}
    [] kind = "bad" -> {"held", "left"}

(* The loop's JoinSet is dropped with it.  The channels that were confirmed *)
(* are cut then (Relay has their end).                                     *)
TasksDropped ==
  [x \in Conns |-> IF conn[x].st = "connecting" THEN [conn[x] EXCEPT !.st = "dropped"]
                   ELSE conn[x]]

(* Mutant: a channel of unknown type ends the loop. *)
HandleStrange_Breaks(kind) ==
  /\ AtHead(kind)
  /\ inbox' = Tail(inbox)
  /\ loop' \in IF kind = "full" THEN {"ended"} ELSE LoopAfter(kind)
  /\ conn' = IF loop' \in {"left", "ended"} THEN TasksDropped ELSE conn
  /\ UNCHANGED <<cmd, phase, spec, req, listener, files, foreign, leaked,
                 established, mappings, up>>

HandleStrange(kind) ==
  /\ AtHead(kind)
  /\ inbox' = Tail(inbox)
  /\ loop' \in LoopAfter(kind)
  /\ conn' = IF loop' = "left" THEN TasksDropped ELSE conn
  /\ UNCHANGED <<cmd, phase, spec, req, listener, files, foreign, leaked,
                 established, mappings, up>>

(* The peer gives the stream up and the decode fails: of the payload, which *)
(* is passed over, or of the header.                                       *)
PeerClosesStrange ==
  /\ loop \in {"stuck", "held"} /\ up
  /\ loop' = IF loop = "stuck" THEN "accept" ELSE "left"
  /\ conn' = IF loop' = "left" THEN TasksDropped ELSE conn
  /\ UNCHANGED <<cmd, phase, spec, req, listener, files, foreign, leaked,
                 established, mappings, inbox, up>>

(* handle_forwarded_channel: the target is connected before the channel is *)
(* confirmed.                                                              *)
LocalConnects(x) ==
  /\ up /\ conn[x].st = "connecting"
  /\ SetConn(x, "confirmed")
  /\ UNCHANGED <<cmd, phase, spec, req, listener, files, foreign, leaked, client, up>>

LocalConnectFails(x) ==
  /\ up /\ conn[x].st = "connecting"
  /\ SetConn(x, "rejected")
  /\ UNCHANGED <<cmd, phase, spec, req, listener, files, foreign, leaked, client, up>>

(* accept_channel fails once the session is down: the loop ends, if it was *)
(* not left before, its tasks with it, and all channels with the session.  *)
LoopEnds ==
  /\ loop \in {"accept", "stuck", "held", "left"} /\ ~up
  /\ loop' = "ended" /\ inbox' = <<>>
  /\ conn' = [x \in Conns |-> IF conn[x].st \in {"accepted", "opened", "connecting"}
                               THEN [conn[x] EXCEPT !.st = "dropped"] ELSE conn[x]]
  /\ UNCHANGED <<cmd, phase, spec, req, listener, files, foreign, leaked,
                 established, mappings, up>>
-----------------------------------------------------------------------------
ArgStep(i) ==
  \/ Request(i) \/ RequestAnswered(i) \/ RequestCancel(i)
  \/ AcceptTcpForward(i) \/ AcceptUnixForward(i) \/ RespondFails(i)
  \/ AcceptCancel(i) \/ UnixAcceptFails(i)
  \/ \E a \in Addresses : AcceptFails(i, a)
  \/ \E x \in Conns : Accepted(x, i)

ConnStep(x) ==
  \/ OpenChannel(x) \/ HandleForwarded(x) \/ LocalConnects(x) \/ LocalConnectFails(x)

StrangeStep(kind) == PeerOpensStrange(kind) \/ HandleStrange(kind)

Next ==
  \/ ParseArgs
  \/ \E i \in Args : ArgStep(i)
  \/ \E x \in Conns : ConnStep(x)
  \/ \E kind \in Strange : StrangeStep(kind)
  \/ AcceptForwardedChannels \/ PeerClosesStrange \/ LoopEnds \/ SessionEnds

Spec == Init /\ [][Next]_vars

(* The tasks of the client run. *)
Fairness ==
  /\ WF_vars(LoopEnds)
  /\ \A x \in Conns : WF_vars(HandleForwarded(x))
                     /\ WF_vars(LocalConnects(x) \/ LocalConnectFails(x))
  /\ \A kind \in Strange : WF_vars(HandleStrange(kind))

FairSpec == Spec /\ Fairness
-----------------------------------------------------------------------------
ReqStates == {"idle", "asked", "replied", "refused", "failed", "established",
              "cancelling", "cancelled"}
ConnStates == {"none", "accepted", "opened", "unmatched", "connecting", "rejected",
               "confirmed", "dropped"}

(* The variables have their types, and a TCP listener that is live has a   *)
(* socket some accept loop serves.                                         *)
TypeOK ==
  /\ cmd \in CommandLines
  /\ phase \in {"args", "run", "usage"}
  /\ \A i \in Args :
       /\ req[i].st \in ReqStates /\ req[i].port \in 0..PortLimit - 1
       /\ listener[i].st \in {"none", "live", "stopped"}
       /\ listener[i].addrs \subseteq Addresses
       /\ listener[i].st = "live" /\ ~IsUnix(i) => listener[i].addrs # {}
  /\ loop \in {"off", "accept", "stuck", "held", "left", "ended"}
  /\ \A x \in Conns : conn[x].st \in ConnStates
  /\ up \in BOOLEAN

(* The key by which accept_forwarded_channels finds a forward, once the    *)
(* server has granted it.                                                  *)
Granted(i) == req[i].st \in {"replied", "established", "cancelling", "cancelled"}
Key(i) == <<spec[i].bind.type, CanonicalizeRemoteBindHost(spec[i].bind.host), req[i].port>>
SharesKey(i) == \E j \in Args \ {i} : Granted(j) /\ Key(i) = Key(j)

(* Every -L, -R and -D argument means what the forms listed in the doc     *)
(* comments of spec.rs make of it, and these leave no argument with two    *)
(* meanings: the order of the PEG alternatives decides nothing.            *)
ArgsMeanTheirForms ==
  phase # "args" =>
    \A i \in Given : /\ FromStr(cmd[i].opt, cmd[i].fields) = DocReadings(cmd[i].opt, cmd[i].fields)
                     /\ Cardinality(DocReadings(cmd[i].opt, cmd[i].fields)) <= 1

(* A connection accepted for an -R argument is relayed to the target that  *)
(* this argument names, whatever the other arguments are, the host the     *)
(* listener was bound by and the port the server gave it; and "no matching *)
(* forward" is said only when its forward was not yet in the mappings the  *)
(* loop was started with, or has no target.  Excepted is an argument whose *)
(* key another forward had before or has got since.  All state is well     *)
(* typed besides.                                                          *)
RightTarget ==
  /\ TypeOK
  /\ \A x \in {y \in Conns : conn[y].st # "none" /\ ~SharesKey(conn[y].to)} :
       /\ conn[x].st \in {"connecting", "confirmed"} =>
            \E r \in DocReadings("-R", cmd[conn[x].to].fields) :
              r.connect = conn[x].target /\ r.connect # NoEndpoint
       /\ conn[x].st = "unmatched" =>
            \/ spec[conn[x].to].connect = NoEndpoint
            \/ \A m \in Range(mappings) : m.arg # conn[x].to

(* Two forwards get the same key, of which the loop knows only the first,  *)
(* only after a listener of one of them has lost an accept loop or was     *)
(* stopped: the sockets of the host keep them apart until then.            *)
WholeListener(i) ==
  Live(i) /\ (IsUnix(i) \/ listener[i].addrs =
                {a \in Range(ResolveBindCandidates(listener[i].host)) :
                   \A s \in foreign : s[2] # listener[i].port \/ ~Clash(a, s[1])})
SameKeyMeansOneStopped ==
  \A i, j \in Args : i # j /\ WholeListener(i) /\ WholeListener(j) => Key(i) # Key(j)

(* A socket file on the server's host is that of a live listener, or of a  *)
(* request whose answer could not be written.                              *)
FilesHaveListeners ==
  \A path \in files :
    \E i \in Args : /\ IsUnix(i) /\ spec[i].bind.host = path
                    /\ Live(i) \/ i \in leaked

(* "Runs until the conversation's channel accept stream ends"              *)
(* (accept_forwarded_channels): once the loop runs, every channel opened   *)
(* for a connection is answered or ends with the session.  Excepted is a   *)
(* peer that holds the loop up with a stream whose header or payload never *)
(* comes in full, and one that has opened a stream accept_channel fails on *)
(* ("left"): the loop ends there, on a session that goes on.               *)
ForwardedIsAnswered ==
  \A x \in Conns :
    conn[x].st = "opened" /\ loop # "off" ~>
      conn[x].st \in {"unmatched", "rejected", "confirmed", "dropped"}
        \/ loop \in {"stuck", "held", "left"}
=============================================================================
