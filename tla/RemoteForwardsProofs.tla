------------------------ MODULE RemoteForwardsProofs ------------------------
(***************************************************************************)
(* Proofs about RemoteForwards: the arguments, the sockets and the socket  *)
(* files of the server's host, and the target of every connection, for any *)
(* number of arguments and connections.                                    *)
(***************************************************************************)
EXTENDS RemoteForwards, ForwardSpecProofs, WellFoundedInduction

Names == STRING \cup {""}
Endpoints == [type : {"tcp", "unix", "none"}, host : Names, port : Nat]
Readings == [bind : Endpoints, connect : Endpoints]

LEMMA PortFacts ==
  /\ PortLimit \in Nat /\ PortLimit >= 1
  /\ 0 \in 0..PortLimit - 1
  /\ \A p \in 0..PortLimit - 1 : p \in Nat /\ AllocatedPort(p) = p
<1>1. PortLimit \in Nat \ {0}
  BY SpecAssumption, Zenon
<1>2. PortLimit \in Nat /\ PortLimit >= 1 /\ 0 \in 0..PortLimit - 1
  BY <1>1
<1>3. ASSUME NEW p \in 0..PortLimit - 1
      PROVE  p \in Nat /\ p % PortLimit = p
  BY <1>2
<1> QED BY <1>2, <1>3 DEF AllocatedPort

LEMMA EndpointFacts ==
  /\ NoEndpoint \in Endpoints /\ NoEndpoint.type = "none"
  /\ NoForward \in Readings /\ NoForward.bind = NoEndpoint
  /\ \A h \in Names : \A p \in Nat :
       /\ Tcp(h, p) \in Endpoints /\ Tcp(h, p).type = "tcp"
       /\ Tcp(h, p).host = h /\ Tcp(h, p).port = p
  /\ \A h \in Names : Unix(h) \in Endpoints /\ Unix(h).type = "unix" /\ Unix(h).host = h
  BY DEF Names, NoEndpoint, NoForward, Endpoints, Readings, Tcp, Unix

LEMMA ConnValFacts ==
  ASSUME NEW s \in Seq(FieldValues), NEW k \in Nat \ {0}, ConnAt(s, k)
  PROVE  ConnVal(s, k) \in Endpoints
<1>1. Len(s) \in Nat /\ k \in 1..Len(s)
  BY DEF ConnAt
<1>2. s[k] \in FieldValues
  BY <1>1
<1>3. CASE s[k].kind = "path"
  BY <1>2, <1>3, EndpointFacts DEF ConnVal, FieldValues, Names
<1>4. CASE s[k].kind # "path"
  <2>1. k + 1 \in 1..Len(s)
    BY <1>1, <1>4 DEF ConnAt
  <2>2. s[k + 1] \in FieldValues
    BY <2>1
  <2> QED BY <1>2, <1>4, <2>2, EndpointFacts DEF ConnVal, FieldValues, Names
<1> QED BY <1>3, <1>4

(* What is read from an argument names a host or a path of the argument. *)
LEMMA ReadingFacts ==
  ASSUME NEW s \in Seq(FieldValues), NEW opt \in {"-L", "-R", "-D"}, NEW r \in FromStr(opt, s)
  PROVE  /\ r \in Readings
         /\ r.bind.type \in {"tcp", "unix"}
         /\ r.bind.type = "tcp" =>
              r.bind.host \in {"", DefaultHost(opt)} \cup {f.text : f \in Range(s)}
         /\ r.bind.type = "unix" =>
              \E f \in Range(s) : f.kind = "path" /\ f.text = r.bind.host
<1>1. r \in DocReadings(opt, s)
  BY ArgumentsMeanTheirForms
<1>2. \/ Is1(s) /\ Ends(s, 2) /\ r = [bind |-> Bind1(opt, s), connect |-> ConnVal(s, 2)]
      \/ Is2(s) /\ Ends(s, 3) /\ r = [bind |-> Bind2(s), connect |-> ConnVal(s, 3)]
      \/ Len(s) = 1 /\ IsPort(s[1]) /\ r = [bind |-> Bind1(opt, s), connect |-> NoEndpoint]
      \/ Len(s) = 2 /\ Is2(s) /\ r = [bind |-> Bind2(s), connect |-> NoEndpoint]
  BY <1>1, DocIs
<1>3. \E b, c : /\ r = [bind |-> b, connect |-> c]
                /\ \/ Is1(s) /\ b = Bind1(opt, s)
                   \/ Is2(s) /\ b = Bind2(s)
                /\ \/ c = NoEndpoint
                   \/ ConnAt(s, 2) /\ c = ConnVal(s, 2)
                   \/ ConnAt(s, 3) /\ c = ConnVal(s, 3)
  <2>1. Len(s) = 1 /\ IsPort(s[1]) => Is1(s)
    BY DEF Is1
  <2> QED BY <1>2, <2>1 DEF Ends
<1>4. PICK b, c : /\ r = [bind |-> b, connect |-> c]
                  /\ \/ Is1(s) /\ b = Bind1(opt, s)
                     \/ Is2(s) /\ b = Bind2(s)
                  /\ \/ c = NoEndpoint
                     \/ ConnAt(s, 2) /\ c = ConnVal(s, 2)
                     \/ ConnAt(s, 3) /\ c = ConnVal(s, 3)
  BY <1>3
<1>5. c \in Endpoints
  <2>1. 2 \in Nat \ {0} /\ 3 \in Nat \ {0}
    OBVIOUS
  <2> QED BY <1>4, <2>1, ConnValFacts, EndpointFacts
<1>6. DefaultHost(opt) \in Names
  BY SpecAssumption DEF DefaultHost, Names
<1>7. Len(s) \in Nat /\ DOMAIN s = 1..Len(s)
  OBVIOUS
<1>8. CASE Is1(s) /\ b = Bind1(opt, s)
  <2>1. 1 \in DOMAIN s
    BY <1>7, <1>8 DEF Is1
  <2>2. s[1] \in FieldValues /\ s[1] \in Range(s)
    BY <2>1 DEF Range
  <2>3. s[1].text \in Names /\ s[1].num \in Nat
    BY <2>2 DEF FieldValues, Names
  <2>4. CASE s[1].kind = "path"
    <3>1. b = Unix(s[1].text)
      BY <1>8, <2>4 DEF Bind1
    <3>2. b \in Endpoints /\ b.type = "unix" /\ b.host = s[1].text
      BY <2>3, <3>1, EndpointFacts
    <3> QED BY <1>4, <1>5, <2>2, <2>4, <3>2 DEF Readings
  <2>5. CASE s[1].kind # "path"
    <3>1. b = Tcp(DefaultHost(opt), s[1].num)
      BY <1>8, <2>5 DEF Bind1
    <3>2. b \in Endpoints /\ b.type = "tcp" /\ b.host = DefaultHost(opt)
      BY <1>6, <2>3, <3>1, EndpointFacts
    <3> QED BY <1>4, <1>5, <3>2 DEF Readings
  <2> QED BY <2>4, <2>5
<1>9. CASE Is2(s) /\ b = Bind2(s)
  <2>1. 1 \in DOMAIN s /\ 2 \in DOMAIN s
    BY <1>7, <1>9 DEF Is2
  <2>2. s[1] \in FieldValues /\ s[1] \in Range(s) /\ s[2] \in FieldValues
    BY <2>1 DEF Range
  <2>3. s[1].text \in Names /\ s[2].num \in Nat
    BY <2>2 DEF FieldValues, Names
  <2>4. /\ BindHost(s[1]) \in Names
        /\ BindHost(s[1]) \in {"", DefaultHost(opt)} \cup {f.text : f \in Range(s)}
    BY <2>2, <2>3 DEF BindHost, Names
  <2>5. b \in Endpoints /\ b.type = "tcp" /\ b.host = BindHost(s[1])
    <3>1. b = Tcp(BindHost(s[1]), s[2].num)
      BY <1>9 DEF Bind2
    <3> DEFINE h == BindHost(s[1])
               n == s[2].num
    <3>2. h \in Names /\ n \in Nat
      BY <2>3, <2>4
    <3> HIDE DEF h, n
    <3>3. Tcp(h, n) \in Endpoints /\ Tcp(h, n).type = "tcp" /\ Tcp(h, n).host = h
      BY <3>2, EndpointFacts
    <3> QED BY <3>1, <3>3 DEF h, n
  <2> QED BY <1>4, <1>5, <2>4, <2>5 DEF Readings
<1> QED BY <1>4, <1>8, <1>9
-----------------------------------------------------------------------------
(* The sockets a listener gets. *)
ListenerRecords ==
  [host : Names, port : 0..PortLimit - 1, addrs : SUBSET Addresses,
   st : {"none", "live", "stopped"}, handle : BOOLEAN]

LEMMA CandidatesFacts ==
  ASSUME NEW host
  PROVE  /\ BindCandidates(host) \in Seq(Addresses)
         /\ host \in Hosts => Range(ResolveBindCandidates(host)) \subseteq Addresses
<1>1. BindCandidates(host) \in Seq(Addresses)
  <2>1. \A a, b \in Addresses : <<a, b>> \in Seq(Addresses) /\ <<a>> \in Seq(Addresses)
    OBVIOUS
  <2>2. {"lo6", "lo4", "any6", "any4"} \subseteq Addresses
    BY DEF Addresses
  <2>3. <<>> \in Seq(Addresses)
    OBVIOUS
  <2>4. CASE host = "localhost"
    BY <2>1, <2>2, <2>4 DEF BindCandidates
  <2>5. CASE host = ""
    BY <2>1, <2>2, <2>5 DEF BindCandidates
  <2>6. CASE host = "0.0.0.0"
    BY <2>1, <2>2, <2>6 DEF BindCandidates
  <2>7. CASE host = "::"
    BY <2>1, <2>2, <2>7 DEF BindCandidates
  <2>8. CASE host = "127.0.0.1"
    BY <2>1, <2>2, <2>8 DEF BindCandidates
  <2>9. CASE host = "::1"
    BY <2>1, <2>2, <2>9 DEF BindCandidates
  <2>10. CASE host \notin {"localhost", "", "0.0.0.0", "::", "127.0.0.1", "::1"}
    BY <2>3, <2>10 DEF BindCandidates
  <2> QED BY <2>4, <2>5, <2>6, <2>7, <2>8, <2>9, <2>10
<1>2. ASSUME host \in Hosts
      PROVE  Range(ResolveBindCandidates(host)) \subseteq Addresses
  <2>1. Lookup(host) \in Seq(Addresses)
    BY <1>2, ForwardsAssumption
  <2> DEFINE c == ResolveBindCandidates(host)
  <2>2. c \in Seq(Addresses)
    BY <1>1, <2>1 DEF ResolveBindCandidates
  <2> HIDE DEF c
  <2>3. \A k \in DOMAIN c : c[k] \in Addresses
    BY <2>2
  <2> QED BY <2>3 DEF Range, c
<1> QED BY <1>1, <1>2

LEMMA GroupFacts ==
  ASSUME NEW host \in Names, host \in Hosts, NEW port \in 0..PortLimit - 1,
         NEW g \in BindTcpForwardGroup(host, port)
  PROVE  /\ g \in ListenerRecords /\ g.st = "live" /\ g.host = host
         /\ g.addrs # {} /\ \A a \in g.addrs : Free(a, g.port)
<1> DEFINE c == ResolveBindCandidates(host)
           asked == IF port = 0 THEN Ephemeral ELSE {port}
<1>1. PICK p \in asked :
        /\ \E a \in First(c) : Free(a, p)
        /\ g = [host |-> host, port |-> p, st |-> "live", handle |-> TRUE,
                addrs |-> {a \in Range(c) : Free(a, p)}]
  BY Zenon DEF BindTcpForwardGroup
<1>2. Range(c) \subseteq Addresses
  BY CandidatesFacts
<1>3. First(c) \subseteq Range(c)
  BY DEF First, Range
<1>4. p \in 0..PortLimit - 1
  <2>1. Ephemeral \subseteq 1..PortLimit - 1
    BY ForwardsAssumption
  <2>2. \A n \in 1..PortLimit - 1 : n \in 0..PortLimit - 1
    BY PortFacts
  <2> QED BY <1>1, <2>1, <2>2
<1> HIDE DEF c
<1>5. {a \in Range(c) : Free(a, p)} # {}
  BY <1>1, <1>3
<1>6. g \in ListenerRecords
  BY <1>1, <1>2, <1>4 DEF ListenerRecords
<1> QED BY <1>1, <1>5, <1>6

LEMMA WithHandleFacts ==
  ASSUME listener \in [Args -> ListenerRecords], NEW i \in Args, NEW new \in ListenerRecords
  PROVE  /\ WithHandle(i, new) \in [Args -> ListenerRecords]
         /\ WithHandle(i, new)[i] = new
         /\ \A j \in Args \ {i} : /\ WithHandle(i, new)[j].host = listener[j].host
                                 /\ WithHandle(i, new)[j].port = listener[j].port
                                 /\ WithHandle(i, new)[j].addrs = listener[j].addrs
                                 /\ WithHandle(i, new)[j].st = listener[j].st
<1>1. ASSUME NEW j \in Args, NEW c \in BOOLEAN
      PROVE  /\ [listener[j] EXCEPT !.handle = c] \in ListenerRecords
             /\ [listener[j] EXCEPT !.handle = c].host = listener[j].host
             /\ [listener[j] EXCEPT !.handle = c].port = listener[j].port
             /\ [listener[j] EXCEPT !.handle = c].addrs = listener[j].addrs
             /\ [listener[j] EXCEPT !.handle = c].st = listener[j].st
  BY DEF ListenerRecords
<1> DEFINE c(j) == listener[j].handle /\ ~(/\ listener[j].host = new.host
                                          /\ listener[j].port = new.port)
<1>2. \A j \in Args : c(j) \in BOOLEAN
  OBVIOUS
<1>3. WithHandle(i, new) = [j \in Args |-> IF j = i THEN new ELSE [listener[j] EXCEPT !.handle = c(j)]]
  BY DEF WithHandle
<1>4. WithHandle(i, new)[i] = new
  BY <1>3
<1>5. \A j \in Args \ {i} : WithHandle(i, new)[j] = [listener[j] EXCEPT !.handle = c(j)]
  BY <1>3
<1> HIDE DEF c
<1>6. ASSUME NEW j \in Args \ {i}
      PROVE  /\ WithHandle(i, new)[j] \in ListenerRecords
             /\ WithHandle(i, new)[j].host = listener[j].host
             /\ WithHandle(i, new)[j].port = listener[j].port
             /\ WithHandle(i, new)[j].addrs = listener[j].addrs
             /\ WithHandle(i, new)[j].st = listener[j].st
  <2>1. WithHandle(i, new)[j] = [listener[j] EXCEPT !.handle = c(j)] /\ c(j) \in BOOLEAN
    BY <1>2, <1>5
  <2> QED BY <1>1, <2>1, ZenonT(60)
<1>7. DOMAIN WithHandle(i, new) = Args
  BY <1>3
<1>8. \E f : WithHandle(i, new) = [j \in Args |-> f[j]]
  BY <1>3
<1>9. WithHandle(i, new) \in [Args -> ListenerRecords]
  BY <1>4, <1>6, <1>7, <1>8
<1> QED BY <1>4, <1>6, <1>9
-----------------------------------------------------------------------------
(* Types, and what the arguments have to do with the requests. *)
ConnRecords ==
  [to : Args \cup {0}, st : ConnStates, target : Endpoints, host : Names, port : 0..PortLimit - 1]
Forwards == [arg : Args, connect : Endpoints, bind : Endpoints]

TypeInv ==
  /\ cmd \in CommandLines /\ phase \in {"args", "run", "usage"}
  /\ spec \in [Args -> Readings]
  /\ req \in [Args -> [st : ReqStates, port : 0..PortLimit - 1]]
  /\ listener \in [Args -> ListenerRecords]
  /\ conn \in [Conns -> ConnRecords]
  /\ established \in Seq(Forwards) /\ mappings \in Seq(Forwards)
  /\ inbox \in Seq(Conns \cup Strange)
  /\ loop \in {"off", "accept", "stuck", "held", "left", "ended"} /\ up \in BOOLEAN

(* Nothing is asked of the server before the arguments are read, and what  *)
(* is asked for was read from its argument.                                *)
ArgInv ==
  /\ \A i \in Args : req[i].st # "idle" => phase = "run" /\ cmd[i].opt = "-R"
  /\ phase # "run" =>
       files = {} /\ \A i \in Args : listener[i].addrs = {} /\ listener[i].st = "none"
  /\ phase = "run" =>
       \A i \in Args : cmd[i].opt = "-R" => spec[i] \in FromStr("-R", cmd[i].fields)

LEMMA CmdFacts ==
  ASSUME cmd \in CommandLines, NEW i \in Args
  PROVE  /\ cmd[i].opt \in {"none", "-L", "-R", "-D"}
         /\ cmd[i].fields \in Seq(FieldValues)
         /\ \A f \in Range(cmd[i].fields) :
              f.text \in Hosts /\ (f.kind = "path" => f.text \notin {"", "*"})
<1>1. cmd[i] \in [opt : {"none", "-L", "-R", "-D"}, fields : Seq(FieldValues)]
  BY ForwardsAssumption
<1>2. \A f \in Range(cmd[i].fields) : f.kind = "path" => f.text \notin {"", "*"}
  BY ForwardsAssumption
<1>3. ASSUME NEW f \in Range(cmd[i].fields)
      PROVE  f.text \in Hosts
  <2> DEFINE T(c, j) == {g.text : g \in Range(c[j].fields)}
             U(c) == UNION {T(c, j) : j \in Args}
  <2>1. f.text \in T(cmd, i)
    OBVIOUS
  <2> HIDE DEF T
  <2>2. f.text \in U(cmd)
    BY <2>1
  <2> HIDE DEF U
  <2>3. f.text \in UNION {U(c) : c \in CommandLines}
    BY <2>2
  <2> QED BY <2>3 DEF Hosts, U, T
<1> QED BY <1>1, <1>2, <1>3

LEMMA SpecFacts ==
  ASSUME TypeInv, ArgInv, NEW i \in Args, req[i].st # "idle"
  PROVE  /\ spec[i] \in FromStr("-R", cmd[i].fields) /\ phase = "run" /\ cmd[i].opt = "-R"
         /\ spec[i].bind.host \in Names /\ spec[i].bind.port \in Nat
         /\ ~IsUnix(i) => spec[i].bind.type = "tcp" /\ spec[i].bind.host \in Hosts
         /\ IsUnix(i) => spec[i].bind.host \notin {"", "*"}
<1>1. spec[i] \in FromStr("-R", cmd[i].fields) /\ phase = "run" /\ cmd[i].opt = "-R"
  BY DEF ArgInv
<1>2. /\ cmd[i].fields \in Seq(FieldValues)
      /\ \A f \in Range(cmd[i].fields) :
           f.text \in Hosts /\ (f.kind = "path" => f.text \notin {"", "*"})
  BY CmdFacts DEF TypeInv
<1>3. "-R" \in {"-L", "-R", "-D"} /\ DefaultHost("-R") = LoopbackHost
  BY DEF DefaultHost
<1>4. /\ spec[i] \in Readings
      /\ spec[i].bind.type \in {"tcp", "unix"}
      /\ spec[i].bind.type = "tcp" =>
           spec[i].bind.host \in {"", DefaultHost("-R")} \cup {f.text : f \in Range(cmd[i].fields)}
      /\ spec[i].bind.type = "unix" =>
           \E f \in Range(cmd[i].fields) : f.kind = "path" /\ f.text = spec[i].bind.host
  BY <1>1, <1>2, <1>3, ReadingFacts, Zenon
<1>5. spec[i].bind.host \in Names /\ spec[i].bind.port \in Nat
  BY <1>4 DEF Readings, Endpoints
<1>6. ASSUME ~IsUnix(i)
      PROVE  spec[i].bind.type = "tcp" /\ spec[i].bind.host \in Hosts
  <2>1. spec[i].bind.type = "tcp"
    BY <1>4, <1>6 DEF IsUnix
  <2>2. "" \in Hosts /\ LoopbackHost \in Hosts
    BY DEF Hosts
  <2> QED BY <1>2, <1>3, <1>4, <2>1, <2>2
<1>7. ASSUME IsUnix(i)
      PROVE  spec[i].bind.host \notin {"", "*"}
  BY <1>2, <1>4, <1>7 DEF IsUnix
<1> QED BY <1>1, <1>5, <1>6, <1>7

LEMMA CanonFacts ==
  ASSUME NEW h
  PROVE  /\ CanonicalizeRemoteBindHost(CanonicalizeRemoteBindHost(h)) = CanonicalizeRemoteBindHost(h)
         /\ h \in Names => CanonicalizeRemoteBindHost(h) \in Names
         /\ h \in Hosts => CanonicalizeRemoteBindHost(h) \in Hosts
         /\ h \notin {"", "*"} => CanonicalizeRemoteBindHost(h) = h
  BY DEF CanonicalizeRemoteBindHost, Names, Hosts

(* What accepting a TCP forward does. *)
LEMMA TcpStep ==
  ASSUME TypeInv, ArgInv, NEW i \in Args, AcceptTcpForward(i)
  PROVE  \/ \E g \in ListenerRecords :
              /\ g.st = "live" /\ g.host = CanonicalizeRemoteBindHost(spec[i].bind.host)
              /\ g.addrs # {} /\ \A a \in g.addrs : Free(a, g.port)
              /\ listener' = WithHandle(i, g) /\ SetReq(i, "replied", g.port)
         \/ SetReq(i, "refused", 0) /\ UNCHANGED listener
<1> DEFINE h == CanonicalizeRemoteBindHost(spec[i].bind.host)
           n == spec[i].bind.port
<1>1. /\ TcpipForwardRequest(i)[1] = h /\ TcpipForwardRequest(i)[2] = n
      /\ CanonicalizeRemoteBindHost(h) = h
  BY CanonFacts DEF TcpipForwardRequest
<1>2. req[i].st = "asked" /\ ~IsUnix(i)
  BY DEF AcceptTcpForward
<1>3. n \in Nat /\ h \in Names /\ h \in Hosts
  BY <1>2, SpecFacts, CanonFacts
<1> DEFINE groups == IF n >= PortLimit THEN {} ELSE BindTcpForwardGroup(h, n)
<1>4. \/ \E g \in groups : /\ listener' = WithHandle(i, g)
                           /\ SetReq(i, "replied", g.port)
      \/ groups = {} /\ SetReq(i, "refused", 0) /\ UNCHANGED listener
  BY <1>1 DEF AcceptTcpForward
<1> HIDE DEF h, n
<1>5. ASSUME NEW g \in groups
      PROVE  /\ g \in ListenerRecords /\ g.st = "live" /\ g.host = h
             /\ g.addrs # {} /\ \A a \in g.addrs : Free(a, g.port)
  <2>1. ~(n >= PortLimit) /\ g \in BindTcpForwardGroup(h, n)
    BY <1>5
  <2>2. n \in 0..PortLimit - 1
    BY <1>3, <2>1, PortFacts
  <2> QED BY <1>3, <2>1, <2>2, GroupFacts
<1> HIDE DEF groups
<1> QED BY <1>4, <1>5 DEF h

UnixListener(path) == [Stopped EXCEPT !.host = path, !.st = "live", !.handle = TRUE]

LEMMA StoppedFacts ==
  /\ Stopped \in ListenerRecords /\ Stopped.st = "stopped" /\ Stopped.addrs = {}
  /\ \A path \in Names : /\ UnixListener(path) \in ListenerRecords
                          /\ UnixListener(path).st = "live" /\ UnixListener(path).host = path
                          /\ UnixListener(path).addrs = {} /\ UnixListener(path).port = 0
<1>1. 0 \in 0..PortLimit - 1
  BY PortFacts
<1> QED BY <1>1 DEF Stopped, UnixListener, ListenerRecords, Names

(* What accepting a Unix forward does. *)
LEMMA UnixStep ==
  ASSUME NEW i, AcceptUnixForward(i)
  PROVE  \/ SetReq(i, "refused", 0) /\ UNCHANGED <<listener, files>>
         \/ /\ spec[i].bind.host \notin files
            /\ files' = files \cup {spec[i].bind.host}
            /\ listener' = WithHandle(i, UnixListener(spec[i].bind.host))
            /\ SetReq(i, "replied", 0)
  BY DEF AcceptUnixForward, UnixListener, StreamlocalForwardRequest
-----------------------------------------------------------------------------
LEMMA TypeInit == Init => TypeInv /\ ArgInv
<1> SUFFICES ASSUME Init PROVE TypeInv /\ ArgInv
  OBVIOUS
<1>0. 0 \in 0..PortLimit - 1 /\ "" \in Names
  BY PortFacts DEF Names
<1>1. spec \in [Args -> Readings]
  BY EndpointFacts DEF Init
<1>2. /\ req \in [Args -> [st : ReqStates, port : 0..PortLimit - 1]]
      /\ \A i \in Args : req[i].st = "idle"
  BY <1>0 DEF Init, ReqStates
<1>3. /\ listener \in [Args -> ListenerRecords]
      /\ \A i \in Args : listener[i].addrs = {} /\ listener[i].st = "none"
  BY <1>0 DEF Init, Stopped, ListenerRecords
<1>4. conn \in [Conns -> ConnRecords]
  BY <1>0, EndpointFacts DEF Init, ConnRecords, ConnStates
<1>5. TypeInv
  <2>1. /\ established \in Seq(Forwards) /\ mappings \in Seq(Forwards)
        /\ inbox \in Seq(Conns \cup Strange)
    <3>1. established = <<>> /\ mappings = <<>> /\ inbox = <<>>
      BY DEF Init
    <3> QED BY <3>1
  <2>2. /\ cmd \in CommandLines /\ phase \in {"args", "run", "usage"}
        /\ loop \in {"off", "accept", "stuck", "held", "left", "ended"} /\ up \in BOOLEAN
    BY DEF Init
  <2> QED BY <1>1, <1>2, <1>3, <1>4, <2>1, <2>2 DEF TypeInv
<1>6. ArgInv
  <2>1. phase = "args" /\ files = {}
    BY DEF Init
  <2> QED BY <1>2, <1>3, <2>1 DEF ArgInv
<1> QED BY <1>5, <1>6

(* The steps that change the requests, each for one argument. *)
LEMMA ReqFacts ==
  ASSUME TypeInv, NEW i \in Args, NEW st \in ReqStates, NEW port \in 0..PortLimit - 1,
         SetReq(i, st, port)
  PROVE  /\ req' \in [Args -> [st : ReqStates, port : 0..PortLimit - 1]]
         /\ req'[i].st = st /\ req'[i].port = port
         /\ \A j \in Args \ {i} : req'[j] = req[j]
  BY DEF TypeInv, SetReq

LEMMA ConnFacts ==
  ASSUME TypeInv, NEW x \in Conns, NEW st \in ConnStates, SetConn(x, st)
  PROVE  /\ conn' \in [Conns -> ConnRecords]
         /\ conn'[x].st = st /\ conn'[x].to = conn[x].to /\ conn'[x].target = conn[x].target
         /\ conn'[x].host = conn[x].host /\ conn'[x].port = conn[x].port
         /\ \A y \in Conns \ {x} : conn'[y] = conn[y]
  BY DEF TypeInv, SetConn, ConnRecords
LEMMA TargetFacts ==
  ASSUME TypeInv, NEW x \in Conns, NEW e \in Endpoints,
         conn' = [conn EXCEPT ![x].st = "connecting", ![x].target = e]
  PROVE  /\ conn' \in [Conns -> ConnRecords]
         /\ conn'[x].st = "connecting" /\ conn'[x].to = conn[x].to /\ conn'[x].target = e
         /\ conn'[x].host = conn[x].host /\ conn'[x].port = conn[x].port
         /\ \A y \in Conns \ {x} : conn'[y] = conn[y]
<1> DEFINE c == [conn[x] EXCEPT !.st = "connecting"]
           d == [c EXCEPT !.target = e]
<1>1. conn[x] \in ConnRecords /\ conn \in [Conns -> ConnRecords]
  BY DEF TypeInv
<1>2. /\ c \in ConnRecords /\ c.st = "connecting" /\ c.to = conn[x].to
      /\ c.host = conn[x].host /\ c.port = conn[x].port
  BY <1>1 DEF ConnRecords, ConnStates
<1>3. conn' = [[conn EXCEPT ![x] = c] EXCEPT ![x] = d]
  BY <1>1
<1> HIDE DEF c
<1>4. /\ d \in ConnRecords /\ d.st = c.st /\ d.to = c.to /\ d.target = e
      /\ d.host = c.host /\ d.port = c.port
  BY <1>2 DEF ConnRecords
<1> HIDE DEF d
<1>5. /\ conn' \in [Conns -> ConnRecords] /\ conn'[x] = d
      /\ \A y \in Conns \ {x} : conn'[y] = conn[y]
  BY <1>1, <1>2, <1>3, <1>4
<1> QED BY <1>2, <1>4, <1>5

(* A channel whose task is dropped with the loop is dropped.               *)
LEMMA DroppedType ==
  ASSUME conn \in [Conns -> ConnRecords]
  PROVE  TasksDropped \in [Conns -> ConnRecords]
<1>1. ASSUME NEW x \in Conns
      PROVE  conn[x] \in ConnRecords /\ [conn[x] EXCEPT !.st = "dropped"] \in ConnRecords
  BY DEF ConnRecords, ConnStates
<1> QED BY <1>1 DEF TasksDropped

LEMMA InboxFacts ==
  ASSUME TypeInv, inbox # <<>>
  PROVE  /\ Tail(inbox) \in Seq(Conns \cup Strange) /\ Head(inbox) = inbox[1] /\ 1 \in DOMAIN inbox
         /\ \A n \in DOMAIN Tail(inbox) : n + 1 \in DOMAIN inbox /\ Tail(inbox)[n] = inbox[n + 1]
  BY TailFacts DEF TypeInv

LEMMA MappingFacts ==
  ASSUME TypeInv, NEW x, NEW m \in Mapping(x)
  PROVE  m \in Forwards /\ Fits(m, x) /\ \E n \in DOMAIN mappings : m = mappings[n]
<1>1. PICK n \in DOMAIN mappings : m = mappings[n] /\ Fits(mappings[n], x)
  BY DEF Mapping
<1>2. mappings[n] \in Forwards
  BY DEF TypeInv
<1> QED BY <1>1, <1>2

LEMMA TypeStep ==
  ASSUME TypeInv, ArgInv, [Next]_vars
  PROVE  TypeInv'
<1> USE DEF vars, client
<1>0. 0 \in 0..PortLimit - 1
  BY PortFacts
<1>1. ASSUME ParseArgs PROVE TypeInv'
  <2>1. CASE \A i \in Given : FromStr(cmd[i].opt, cmd[i].fields) # {}
    <3> DEFINE read(i) == CHOOSE m \in FromStr(cmd[i].opt, cmd[i].fields) : TRUE
    <3>1. /\ phase' = "run"
          /\ spec' = [i \in Args |-> IF i \notin Given THEN NoForward ELSE read(i)]
      BY <1>1, <2>1 DEF ParseArgs
    <3>2. ASSUME NEW i \in Args, i \in Given
          PROVE  read(i) \in Readings
      <4>1. cmd[i].opt \in {"-L", "-R", "-D"} /\ cmd[i].fields \in Seq(FieldValues)
        BY <3>2, CmdFacts DEF Given, TypeInv
      <4>2. read(i) \in FromStr(cmd[i].opt, cmd[i].fields)
        BY <2>1, <3>2
      <4> HIDE DEF read
      <4> QED BY <4>1, <4>2, ReadingFacts, Zenon
    <3> HIDE DEF read
    <3>3. spec' \in [Args -> Readings]
      BY <3>1, <3>2, EndpointFacts
    <3> QED BY <1>1, <3>1, <3>3 DEF ParseArgs, TypeInv
  <2>2. CASE ~\A i \in Given : FromStr(cmd[i].opt, cmd[i].fields) # {}
    BY <1>1, <2>2 DEF ParseArgs, TypeInv
  <2> QED BY <2>1, <2>2
<1>2. ASSUME NEW i \in Args, Request(i) PROVE TypeInv'
  <2>1. req' \in [Args -> [st : ReqStates, port : 0..PortLimit - 1]]
    BY <1>0, <1>2, ReqFacts DEF Request, ReqStates
  <2> QED BY <1>2, <2>1 DEF Request, TypeInv
<1>3. ASSUME NEW i \in Args, RequestAnswered(i) PROVE TypeInv'
  <2>0. req[i].port \in 0..PortLimit - 1 /\ req[i].st # "idle"
    BY <1>3 DEF TypeInv, RequestAnswered
  <2>1. req' \in [Args -> [st : ReqStates, port : 0..PortLimit - 1]]
    BY <1>3, <2>0, ReqFacts DEF RequestAnswered, ReqStates
  <2> DEFINE b == IF IsUnix(i) THEN spec[i].bind
                  ELSE Tcp(TcpipForwardRequest(i)[1], AllocatedPort(req[i].port))
             m == [arg |-> i, connect |-> spec[i].connect, bind |-> b]
  <2>2. spec[i].bind \in Endpoints /\ spec[i].connect \in Endpoints
    BY DEF TypeInv, Readings
  <2>3. TcpipForwardRequest(i)[1] \in Names
    BY <2>0, SpecFacts, CanonFacts DEF TcpipForwardRequest
  <2>4. AllocatedPort(req[i].port) \in Nat
    BY <2>0, PortFacts
  <2>5. b \in Endpoints
    BY <2>2, <2>3, <2>4, EndpointFacts
  <2>6. established' = Append(established, m)
    BY <1>3 DEF RequestAnswered
  <2> HIDE DEF b
  <2>7. m \in Forwards
    BY <2>2, <2>5 DEF Forwards
  <2> HIDE DEF m
  <2>8. established' \in Seq(Forwards)
    BY <2>6, <2>7 DEF TypeInv
  <2> QED BY <1>3, <2>1, <2>8 DEF RequestAnswered, TypeInv
<1>4. ASSUME NEW i \in Args, RequestCancel(i) PROVE TypeInv'
  <2>0. req[i].port \in 0..PortLimit - 1
    BY DEF TypeInv
  <2>1. req' \in [Args -> [st : ReqStates, port : 0..PortLimit - 1]]
    BY <1>4, <2>0, ReqFacts DEF RequestCancel, ReqStates
  <2> QED BY <1>4, <2>1 DEF RequestCancel, TypeInv
<1>5. ASSUME NEW i \in Args, AcceptTcpForward(i) PROVE TypeInv'
  <2>1. CASE \E g \in ListenerRecords : listener' = WithHandle(i, g) /\ SetReq(i, "replied", g.port)
    <3>1. PICK g \in ListenerRecords : listener' = WithHandle(i, g) /\ SetReq(i, "replied", g.port)
      BY <2>1
    <3>2. g.port \in 0..PortLimit - 1 /\ "replied" \in ReqStates
      BY DEF ListenerRecords, ReqStates
    <3>3. req' \in [Args -> [st : ReqStates, port : 0..PortLimit - 1]]
      BY <3>1, <3>2, ReqFacts
    <3>4. listener' \in [Args -> ListenerRecords]
      BY <3>1, WithHandleFacts DEF TypeInv
    <3> QED BY <1>5, <3>3, <3>4 DEF AcceptTcpForward, TypeInv
  <2>2. CASE SetReq(i, "refused", 0) /\ UNCHANGED listener
    <3>1. req' \in [Args -> [st : ReqStates, port : 0..PortLimit - 1]]
      BY <1>0, <2>2, ReqFacts DEF ReqStates
    <3> QED BY <1>5, <2>2, <3>1 DEF AcceptTcpForward, TypeInv
  <2> QED BY <1>5, <2>1, <2>2, TcpStep
<1>6. ASSUME NEW i \in Args, AcceptUnixForward(i) PROVE TypeInv'
  <2>0. spec[i].bind.host \in Names
    BY DEF TypeInv, Readings, Endpoints
  <2>1. req' \in [Args -> [st : ReqStates, port : 0..PortLimit - 1]]
    BY <1>0, <1>6, UnixStep, ReqFacts DEF ReqStates
  <2>2. listener' \in [Args -> ListenerRecords]
    BY <1>6, <2>0, UnixStep, StoppedFacts, WithHandleFacts DEF TypeInv
  <2> QED BY <1>6, <2>1, <2>2 DEF AcceptUnixForward, TypeInv
<1>7. ASSUME NEW i \in Args, RespondFails(i) PROVE TypeInv'
  <2>1. req' \in [Args -> [st : ReqStates, port : 0..PortLimit - 1]]
    BY <1>0, <1>7, ReqFacts DEF ReqStates, RespondFails
  <2>2. listener' \in [Args -> ListenerRecords]
    BY <1>7, StoppedFacts DEF TypeInv, RespondFails
  <2> QED BY <1>7, <2>1, <2>2 DEF RespondFails, TypeInv
<1>8. ASSUME NEW i \in Args, AcceptCancel(i) PROVE TypeInv'
  <2>0. req[i].port \in 0..PortLimit - 1
    BY DEF TypeInv
  <2>1. \E st \in {"established", "cancelled"} : SetReq(i, st, req[i].port)
    BY <1>8 DEF AcceptCancel
  <2>2. req' \in [Args -> [st : ReqStates, port : 0..PortLimit - 1]]
    BY <2>0, <2>1, ReqFacts DEF ReqStates
  <2>3. \E S : listener' = [j \in Args |-> IF j \in S THEN Stopped ELSE listener[j]]
    BY <1>8, Zenon DEF AcceptCancel
  <2>4. listener' \in [Args -> ListenerRecords]
    BY <2>3, StoppedFacts DEF TypeInv
  <2> QED BY <1>8, <2>2, <2>4 DEF AcceptCancel, TypeInv
<1>9. ASSUME NEW i \in Args, UnixAcceptFails(i) PROVE TypeInv'
  <2>1. listener' \in [Args -> ListenerRecords]
    BY <1>9 DEF UnixAcceptFails, TypeInv, ListenerRecords
  <2> QED BY <1>9, <2>1 DEF UnixAcceptFails, TypeInv
<1>10. ASSUME NEW i \in Args, NEW a \in Addresses, AcceptFails(i, a) PROVE TypeInv'
  <2>1. listener' \in [Args -> ListenerRecords]
    <3> DEFINE st == IF listener[i].addrs = {a} THEN "stopped" ELSE listener[i].st
               new == [listener[i] EXCEPT !.addrs = @ \ {a}, !.st = st]
    <3>1. listener[i] \in ListenerRecords /\ st \in {"none", "live", "stopped"}
      BY DEF TypeInv, ListenerRecords
    <3>2. new \in ListenerRecords
      <4> HIDE DEF st
      <4> QED BY <3>1 DEF ListenerRecords
    <3>3. listener' = [listener EXCEPT ![i] = new]
      BY <1>10 DEF AcceptFails, TypeInv
    <3> HIDE DEF new
    <3> QED BY <3>2, <3>3 DEF TypeInv
  <2> QED BY <1>10, <2>1 DEF AcceptFails, TypeInv
<1>11. ASSUME NEW i \in Args, NEW x \in Conns, Accepted(x, i) PROVE TypeInv'
  <2>1. listener[i].host \in Names /\ listener[i].port \in 0..PortLimit - 1
    BY DEF TypeInv, ListenerRecords
  <2>2. conn' \in [Conns -> ConnRecords]
    BY <1>11, <2>1, EndpointFacts DEF Accepted, TypeInv, ConnRecords, ConnStates
  <2> QED BY <1>11, <2>2 DEF Accepted, TypeInv
<1>12. ASSUME NEW x \in Conns, OpenChannel(x) PROVE TypeInv'
  <2>1. conn' \in [Conns -> ConnRecords]
    BY <1>12, ConnFacts DEF OpenChannel, ConnStates
  <2>2. inbox' \in Seq(Conns \cup Strange)
    BY <1>12 DEF OpenChannel, TypeInv
  <2> QED BY <1>12, <2>1, <2>2 DEF OpenChannel, TypeInv
<1>13. ASSUME NEW x \in Conns, HandleForwarded(x) PROVE TypeInv'
  <2>1. inbox' \in Seq(Conns \cup Strange)
    BY <1>13, InboxFacts DEF HandleForwarded, AtHead
  <2>2. conn' \in [Conns -> ConnRecords]
    <3>1. CASE \E m \in Mapping(x) :
                 conn' = [conn EXCEPT ![x].st = "connecting", ![x].target = m.connect]
      <4>1. PICK m \in Mapping(x) :
              conn' = [conn EXCEPT ![x].st = "connecting", ![x].target = m.connect]
        BY <3>1
      <4>2. m.connect \in Endpoints
        BY MappingFacts DEF Forwards
      <4> QED BY <4>1, <4>2, TargetFacts
    <3>2. CASE SetConn(x, "unmatched")
      BY <3>2, ConnFacts DEF ConnStates
    <3> QED BY <1>13, <3>1, <3>2 DEF HandleForwarded
  <2> QED BY <1>13, <2>1, <2>2 DEF HandleForwarded, TypeInv
<1>14. ASSUME NEW x \in Conns, LocalConnects(x) \/ LocalConnectFails(x) PROVE TypeInv'
  <2>1. conn' \in [Conns -> ConnRecords]
    BY <1>14, ConnFacts DEF LocalConnects, LocalConnectFails, ConnStates
  <2> QED BY <1>14, <2>1 DEF LocalConnects, LocalConnectFails, TypeInv
<1>15. ASSUME NEW kind \in Strange, PeerOpensStrange(kind) PROVE TypeInv'
  <2>1. inbox' \in Seq(Conns \cup Strange)
    BY <1>15 DEF PeerOpensStrange, TypeInv
  <2> QED BY <1>15, <2>1 DEF PeerOpensStrange, TypeInv
<1>16. ASSUME NEW kind \in Strange, HandleStrange(kind) PROVE TypeInv'
  <2>1. inbox' \in Seq(Conns \cup Strange)
    BY <1>16, InboxFacts DEF HandleStrange, AtHead
  <2>2. loop' \in {"stuck", "accept", "held", "left"}
    BY <1>16 DEF HandleStrange, LoopAfter, Strange
  <2>3. conn' \in [Conns -> ConnRecords]
    BY <1>16, DroppedType DEF HandleStrange, TypeInv
  <2> QED BY <1>16, <2>1, <2>2, <2>3 DEF HandleStrange, TypeInv
<1>17. ASSUME AcceptForwardedChannels PROVE TypeInv'
  BY <1>17 DEF AcceptForwardedChannels, TypeInv
<1>21. ASSUME PeerClosesStrange PROVE TypeInv'
  <2>1. conn' \in [Conns -> ConnRecords]
    BY <1>21, DroppedType DEF PeerClosesStrange, TypeInv
  <2> QED BY <1>21, <2>1 DEF PeerClosesStrange, TypeInv
<1>18. ASSUME LoopEnds PROVE TypeInv'
  <2>1. inbox' \in Seq(Conns \cup Strange)
    BY <1>18 DEF LoopEnds
  <2>2. conn' \in [Conns -> ConnRecords]
    <3>1. ASSUME NEW x \in Conns
          PROVE  conn[x] \in ConnRecords /\ [conn[x] EXCEPT !.st = "dropped"] \in ConnRecords
      BY DEF TypeInv, ConnRecords, ConnStates
    <3> QED BY <1>18, <3>1 DEF LoopEnds
  <2> QED BY <1>18, <2>1, <2>2 DEF LoopEnds, TypeInv
<1>19. ASSUME SessionEnds PROVE TypeInv'
  <2>1. listener' \in [Args -> ListenerRecords]
    BY <1>19, StoppedFacts DEF TypeInv, SessionEnds, EndSession
  <2> QED BY <1>19, <2>1 DEF SessionEnds, EndSession, TypeInv
<1>20. ASSUME UNCHANGED vars PROVE TypeInv'
  BY <1>20 DEF TypeInv
<1> QED BY <1>1, <1>2, <1>3, <1>4, <1>5, <1>6, <1>7, <1>8, <1>9, <1>10, <1>11, <1>12, <1>13,
           <1>14, <1>15, <1>16, <1>17, <1>18, <1>19, <1>20, <1>21
        DEF Next, ArgStep, ConnStep, StrangeStep
-----------------------------------------------------------------------------
(* The steps on the server's host and on the requests. *)
LEMMA HostSteps ==
  ASSUME [Next]_vars
  PROVE  \/ ParseArgs \/ SessionEnds
         \/ \E i \in Args :
              \/ Request(i) \/ RequestAnswered(i) \/ RequestCancel(i)
              \/ AcceptTcpForward(i) \/ AcceptUnixForward(i) \/ RespondFails(i)
              \/ AcceptCancel(i) \/ UnixAcceptFails(i)
              \/ \E a \in Addresses : AcceptFails(i, a)
         \/ UNCHANGED <<cmd, phase, spec, req, listener, files, leaked>>
<1> USE DEF vars
<1>1. ASSUME NEW x \in Conns, ConnStep(x)
      PROVE  UNCHANGED <<cmd, phase, spec, req, listener, files, leaked>>
  BY <1>1 DEF ConnStep, OpenChannel, HandleForwarded, LocalConnects, LocalConnectFails
<1>2. ASSUME NEW kind \in Strange, StrangeStep(kind)
      PROVE  UNCHANGED <<cmd, phase, spec, req, listener, files, leaked>>
  BY <1>2 DEF StrangeStep, PeerOpensStrange, HandleStrange
<1>3. ASSUME AcceptForwardedChannels \/ PeerClosesStrange \/ LoopEnds
      PROVE  UNCHANGED <<cmd, phase, spec, req, listener, files, leaked>>
  BY <1>3 DEF AcceptForwardedChannels, PeerClosesStrange, LoopEnds
<1>4. ASSUME NEW x \in Conns, NEW i \in Args, Accepted(x, i)
      PROVE  UNCHANGED <<cmd, phase, spec, req, listener, files, leaked>>
  BY <1>4 DEF Accepted
<1>5. ASSUME UNCHANGED vars
      PROVE  UNCHANGED <<cmd, phase, spec, req, listener, files, leaked>>
  BY <1>5
<1>6. Next \/ UNCHANGED vars
  OBVIOUS
<1> QED BY <1>1, <1>2, <1>3, <1>4, <1>5, <1>6 DEF Next, ArgStep

(* What a step does to the requests: they are read from the arguments once *)
(* and change only when the arguments have been read; a forward that is    *)
(* granted stays granted, with its port, and that of a Unix one is 0.      *)
ReqSteps(i) ==
  /\ req'[i].st # "idle" => phase' = "run" /\ cmd[i].opt = "-R"
  /\ Granted(i) => Granted(i)' /\ req'[i].port = req[i].port /\ spec'[i] = spec[i]
  /\ ~Granted(i) /\ Granted(i)' /\ IsUnix(i) => req'[i].port = 0

LEMMA ReqStep ==
  ASSUME TypeInv, ArgInv, [Next]_vars
  PROVE  /\ \A i \in Args : ReqSteps(i)
         /\ cmd' = cmd /\ (ParseArgs \/ UNCHANGED <<phase, spec>>)
<1>0. /\ 0 \in 0..PortLimit - 1
      /\ {"asked", "established", "cancelling", "replied", "refused", "failed", "cancelled"}
            \subseteq ReqStates
      /\ \A j \in Args : req[j].port \in 0..PortLimit - 1
      /\ \A j \in Args : req[j].st # "idle" => phase = "run" /\ cmd[j].opt = "-R"
  BY PortFacts DEF ReqStates, TypeInv, ArgInv
<1>1. ASSUME ParseArgs
      PROVE  cmd' = cmd /\ \A i \in Args : ReqSteps(i)
  <2>1. cmd' = cmd /\ req' = req /\ phase = "args"
    BY <1>1 DEF ParseArgs
  <2>2. \A i \in Args : req[i].st = "idle"
    BY <1>0, <2>1
  <2> QED BY <2>1, <2>2 DEF ReqSteps, Granted
<1> DEFINE Only(i, old, new, port) ==
             /\ UNCHANGED <<cmd, phase, spec>> /\ SetReq(i, new, port) /\ req[i].st \in old
             /\ phase = "run" /\ cmd[i].opt = "-R"
<1>2. ASSUME NEW i \in Args, NEW old, NEW new \in ReqStates, NEW port \in 0..PortLimit - 1,
             Only(i, old, new, port),
             \/ old = {"idle", "asked"} /\ (IsUnix(i) => port = 0)
             \/ (/\ port = req[i].port
                 /\ req[i].st \in {"replied", "established", "cancelling"}
                 /\ new \in {"replied", "established", "cancelling", "cancelled"})
      PROVE  UNCHANGED <<cmd, phase, spec>> /\ \A j \in Args : ReqSteps(j)
  <2>1. /\ req'[i].st = new /\ req'[i].port = port /\ \A j \in Args \ {i} : req'[j] = req[j]
    BY <1>2, ReqFacts
  <2>2. UNCHANGED <<cmd, phase, spec>> /\ req[i].st \in old /\ phase = "run" /\ cmd[i].opt = "-R"
    BY <1>2
  <2>3. ReqSteps(i)
    BY <1>2, <2>1, <2>2 DEF ReqSteps, Granted
  <2>4. \A j \in Args \ {i} : ReqSteps(j)
    BY <1>0, <2>1, <2>2 DEF ReqSteps, Granted
  <2> QED BY <2>2, <2>3, <2>4
<1>3. ASSUME NEW i \in Args, Request(i)
      PROVE  UNCHANGED <<cmd, phase, spec>> /\ \A j \in Args : ReqSteps(j)
  <2>1. Only(i, {"idle", "asked"}, "asked", 0)
    BY <1>3 DEF Request
  <2> HIDE DEF Only
  <2> QED BY <1>0, <1>2, <2>1
<1>4. ASSUME NEW i \in Args, RequestAnswered(i)
      PROVE  UNCHANGED <<cmd, phase, spec>> /\ \A j \in Args : ReqSteps(j)
  <2>1. Only(i, {"replied"}, "established", req[i].port) /\ req[i].st = "replied"
    BY <1>0, <1>4 DEF RequestAnswered
  <2> HIDE DEF Only
  <2> QED BY <1>0, <1>2, <2>1
<1>5. ASSUME NEW i \in Args, RequestCancel(i)
      PROVE  UNCHANGED <<cmd, phase, spec>> /\ \A j \in Args : ReqSteps(j)
  <2>1. Only(i, {"established"}, "cancelling", req[i].port) /\ req[i].st = "established"
    BY <1>0, <1>5 DEF RequestCancel
  <2> HIDE DEF Only
  <2> QED BY <1>0, <1>2, <2>1
<1>6. ASSUME NEW i \in Args, AcceptTcpForward(i)
      PROVE  UNCHANGED <<cmd, phase, spec>> /\ \A j \in Args : ReqSteps(j)
  <2>1. UNCHANGED <<cmd, phase, spec>> /\ req[i].st = "asked" /\ ~IsUnix(i)
    BY <1>6 DEF AcceptTcpForward
  <2>2. PICK new \in {"replied", "refused"}, port \in 0..PortLimit - 1 : SetReq(i, new, port)
    BY <1>0, <1>6, TcpStep DEF ListenerRecords
  <2>3. Only(i, {"idle", "asked"}, new, port)
    BY <1>0, <2>1, <2>2
  <2> HIDE DEF Only
  <2> QED BY <1>0, <1>2, <2>1, <2>2, <2>3
<1>7. ASSUME NEW i \in Args, AcceptUnixForward(i)
      PROVE  UNCHANGED <<cmd, phase, spec>> /\ \A j \in Args : ReqSteps(j)
  <2>1. UNCHANGED <<cmd, phase, spec>> /\ req[i].st = "asked"
    BY <1>7 DEF AcceptUnixForward
  <2>2. PICK new \in {"replied", "refused"} : SetReq(i, new, 0)
    BY <1>7, UnixStep
  <2>3. Only(i, {"idle", "asked"}, new, 0)
    BY <1>0, <2>1, <2>2
  <2> HIDE DEF Only
  <2> QED BY <1>0, <1>2, <2>1, <2>2, <2>3
<1>8. ASSUME NEW i \in Args, RespondFails(i)
      PROVE  UNCHANGED <<cmd, phase, spec>> /\ \A j \in Args : ReqSteps(j)
  <2>1. Only(i, {"idle", "asked"}, "failed", 0)
    BY <1>0, <1>8 DEF RespondFails
  <2> HIDE DEF Only
  <2> QED BY <1>0, <1>2, <2>1
<1>9. ASSUME NEW i \in Args, AcceptCancel(i)
      PROVE  UNCHANGED <<cmd, phase, spec>> /\ \A j \in Args : ReqSteps(j)
  <2>1. UNCHANGED <<cmd, phase, spec>> /\ req[i].st = "cancelling"
    BY <1>9 DEF AcceptCancel
  <2>2. PICK new \in {"established", "cancelled"} : SetReq(i, new, req[i].port)
    BY <1>9 DEF AcceptCancel
  <2>3. Only(i, {"cancelling"}, new, req[i].port)
    BY <1>0, <2>1, <2>2
  <2> HIDE DEF Only
  <2> QED BY <1>0, <1>2, <2>1, <2>2, <2>3
<1>10. ASSUME UNCHANGED <<cmd, phase, spec, req>>
       PROVE  UNCHANGED <<cmd, phase, spec>> /\ \A j \in Args : ReqSteps(j)
  BY <1>0, <1>10 DEF ReqSteps, Granted
<1>11. ASSUME NEW i \in Args, UnixAcceptFails(i) \/ \E a \in Addresses : AcceptFails(i, a)
       PROVE  UNCHANGED <<cmd, phase, spec, req>>
  BY <1>11 DEF UnixAcceptFails, AcceptFails
<1>12. ASSUME SessionEnds
       PROVE  UNCHANGED <<cmd, phase, spec, req>>
  BY <1>12 DEF SessionEnds
<1> HIDE DEF Only
<1> QED BY <1>1, <1>3, <1>4, <1>5, <1>6, <1>7, <1>8, <1>9, <1>10, <1>11, <1>12, HostSteps
-----------------------------------------------------------------------------
(* The listeners.  A live one is that of a granted forward, bound by its   *)
(* host and with its port; a Unix one has no TCP sockets; and no two hold  *)
(* sockets that clash.                                                     *)
BoundHost(i) ==
  IF IsUnix(i) THEN spec[i].bind.host ELSE CanonicalizeRemoteBindHost(spec[i].bind.host)
Own(i) ==
  /\ IsUnix(i) => listener[i].addrs = {}
  /\ Granted(i) /\ IsUnix(i) => req[i].port = 0
  /\ Live(i) => /\ Granted(i) /\ listener[i].port = req[i].port /\ listener[i].host = BoundHost(i)
                /\ ~IsUnix(i) => listener[i].addrs # {}
Apart ==
  \A i, j \in Args : i # j =>
    \A a \in listener[i].addrs, b \in listener[j].addrs :
      listener[i].port = listener[j].port => ~Clash(a, b)
ListenInv == (\A i \in Args : Own(i)) /\ Apart

(* Steps that only take listeners or their sockets away. *)
Shrinks ==
  \A j \in Args :
    /\ listener'[j].addrs \subseteq listener[j].addrs
    /\ listener'[j].addrs # {} => listener'[j].port = listener[j].port
    /\ listener'[j].st = "live" =>
         /\ listener[j].st = "live" /\ listener'[j].host = listener[j].host
         /\ listener'[j].port = listener[j].port
         /\ listener[j].addrs # {} => listener'[j].addrs # {}

LEMMA StopShrinks ==
  ASSUME TypeInv, NEW S, listener' = [j \in Args |-> IF j \in S THEN Stopped ELSE listener[j]]
  PROVE  Shrinks
<1>1. ASSUME NEW j \in Args, j \in S
      PROVE  listener'[j].addrs = {} /\ listener'[j].st # "live"
  BY <1>1, StoppedFacts
<1>2. ASSUME NEW j \in Args, j \notin S
      PROVE  listener'[j] = listener[j]
  BY <1>2
<1> QED BY <1>1, <1>2 DEF Shrinks

LEMMA ShrinkSteps ==
  ASSUME TypeInv, ArgInv, [Next]_vars
  PROVE  \/ Shrinks
         \/ \E i \in Args : AcceptTcpForward(i) \/ AcceptUnixForward(i)
<1>1. ASSUME UNCHANGED listener PROVE Shrinks
  BY <1>1 DEF Shrinks
<1>2. ASSUME NEW i \in Args, UnixAcceptFails(i) PROVE Shrinks
  <2>1. /\ listener'[i].addrs = listener[i].addrs /\ listener'[i].port = listener[i].port
        /\ listener'[i].st = "stopped"
        /\ \A j \in Args \ {i} : listener'[j] = listener[j]
    BY <1>2 DEF UnixAcceptFails, TypeInv, ListenerRecords
  <2> QED BY <2>1 DEF Shrinks
<1>3. ASSUME NEW i \in Args, NEW a \in Addresses, AcceptFails(i, a) PROVE Shrinks
  <2> DEFINE r == [listener[i] EXCEPT !.addrs = @ \ {a}]
             q == [r EXCEPT !.st = IF listener[i].addrs = {a} THEN "stopped" ELSE @]
  <2>1. listener[i] \in ListenerRecords /\ listener \in [Args -> ListenerRecords]
    BY DEF TypeInv
  <2>2. /\ r \in ListenerRecords /\ r.addrs = listener[i].addrs \ {a}
        /\ r.host = listener[i].host /\ r.port = listener[i].port /\ r.st = listener[i].st
    BY <2>1 DEF ListenerRecords
  <2>3. listener' = [listener EXCEPT ![i] = q]
    BY <1>3, <2>1 DEF AcceptFails
  <2> HIDE DEF r
  <2>4. /\ q.addrs = r.addrs /\ q.host = r.host /\ q.port = r.port
        /\ q.st = "live" => r.st = "live" /\ listener[i].addrs # {a}
    BY <2>2 DEF ListenerRecords
  <2> HIDE DEF q
  <2>5. listener'[i] = q /\ \A j \in Args \ {i} : listener'[j] = listener[j]
    BY <2>1, <2>3
  <2> QED BY <2>2, <2>4, <2>5 DEF Shrinks
<1>4. ASSUME NEW i \in Args, RespondFails(i) PROVE Shrinks
  <2>1. listener' = [j \in Args |-> IF j \in {k \in Args : Live(k)} THEN Stopped ELSE listener[j]]
    BY <1>4 DEF RespondFails
  <2> QED BY <2>1, StopShrinks
<1>5. ASSUME SessionEnds PROVE Shrinks
  <2>1. listener' = [j \in Args |-> IF j \in {k \in Args : Live(k)} THEN Stopped ELSE listener[j]]
    BY <1>5 DEF SessionEnds, EndSession
  <2> QED BY <2>1, StopShrinks
<1>6. ASSUME NEW i \in Args, AcceptCancel(i) PROVE Shrinks
  <2>1. \E S : listener' = [j \in Args |-> IF j \in S THEN Stopped ELSE listener[j]]
    BY <1>6, Zenon DEF AcceptCancel
  <2> QED BY <2>1, StopShrinks
<1>7. ASSUME NEW i \in Args, Request(i) \/ RequestAnswered(i) \/ RequestCancel(i)
      PROVE  UNCHANGED listener
  BY <1>7 DEF Request, RequestAnswered, RequestCancel
<1>8. ASSUME ParseArgs PROVE UNCHANGED listener
  BY <1>8 DEF ParseArgs
<1> QED BY <1>1, <1>2, <1>3, <1>4, <1>5, <1>6, <1>7, <1>8, HostSteps

(* A new group of sockets clashes with none of the others'. *)
LEMMA FreeMeansApart ==
  ASSUME NEW j \in Args, NEW a, NEW port, Free(a, port),
         NEW b \in listener[j].addrs, listener[j].port = port
  PROVE  ~Clash(a, b) /\ ~Clash(b, a)
<1> DEFINE T(k) == {<<c, listener[k].port>> : c \in listener[k].addrs}
<1>1. <<b, listener[j].port>> \in T(j)
  OBVIOUS
<1> HIDE DEF T
<1>2. <<b, listener[j].port>> \in UNION {T(k) : k \in Args}
  BY <1>1
<1>3. <<b, listener[j].port>> \in Sockets
  BY <1>2 DEF Sockets, T
<1>4. ~Clash(a, b)
  BY <1>3 DEF Free
<1>5. Clash(b, a) => Clash(a, b)
  BY DEF Clash, V6
<1> QED BY <1>4, <1>5

LEMMA ListenStep ==
  ASSUME TypeInv, ArgInv, ListenInv, [Next]_vars
  PROVE  ListenInv'
<1>r. /\ \A i \in Args : ReqSteps(i)
      /\ cmd' = cmd /\ (ParseArgs \/ UNCHANGED <<phase, spec>>)
  BY ReqStep
<1>1. ASSUME ParseArgs
      PROVE  ListenInv'
  <2>1. /\ req' = req /\ listener' = listener
        /\ \A i \in Args : req[i].st = "idle" /\ listener[i].addrs = {} /\ listener[i].st = "none"
    BY <1>1 DEF ParseArgs, ArgInv
  <2> QED BY <2>1 DEF ListenInv, Own, Apart, Live, Granted
<1>2. ASSUME Shrinks, UNCHANGED <<phase, spec>>
      PROVE  ListenInv'
  <2>1. ASSUME NEW i \in Args
        PROVE  Own(i)'
    <3>1. /\ IsUnix(i)' <=> IsUnix(i)
          /\ BoundHost(i)' = BoundHost(i) /\ Own(i) /\ ReqSteps(i)
      BY <1>2, <1>r DEF IsUnix, BoundHost, ListenInv
    <3>2. IsUnix(i) => listener'[i].addrs = {}
      BY <1>2, <3>1 DEF Shrinks, Own
    <3>3. Granted(i)' /\ IsUnix(i) => req'[i].port = 0
      BY <3>1 DEF Own, ReqSteps
    <3>4. listener'[i].st = "live" =>
            /\ Granted(i)' /\ listener'[i].port = req'[i].port /\ listener'[i].host = BoundHost(i)
            /\ ~IsUnix(i) => listener'[i].addrs # {}
      BY <1>2, <3>1 DEF Shrinks, Own, ReqSteps, Live
    <3> QED BY <3>1, <3>2, <3>3, <3>4 DEF Own, Live
  <2>2. Apart'
    BY <1>2 DEF Shrinks, Apart, ListenInv
  <2> QED BY <2>1, <2>2 DEF ListenInv
<1>3. ASSUME NEW i \in Args, NEW g \in ListenerRecords, UNCHANGED <<phase, spec>>,
             g.host = BoundHost(i), IsUnix(i) => g.addrs = {}, ~IsUnix(i) => g.addrs # {},
             \A a \in g.addrs : Free(a, g.port),
             listener' = WithHandle(i, g), SetReq(i, "replied", g.port)
      PROVE  ListenInv'
  <2>1. /\ listener'[i] = g
        /\ \A j \in Args \ {i} : /\ listener'[j].host = listener[j].host
                                /\ listener'[j].port = listener[j].port
                                /\ listener'[j].addrs = listener[j].addrs
                                /\ listener'[j].st = listener[j].st
    BY <1>3, WithHandleFacts DEF TypeInv
  <2>2. g.port \in 0..PortLimit - 1 /\ "replied" \in ReqStates
    BY DEF ListenerRecords, ReqStates
  <2>3. /\ req'[i].st = "replied" /\ req'[i].port = g.port
        /\ \A j \in Args \ {i} : req'[j] = req[j]
    BY <1>3, <2>2, ReqFacts
  <2>4. ASSUME NEW j \in Args
        PROVE  /\ IsUnix(j)' <=> IsUnix(j)
               /\ BoundHost(j)' = BoundHost(j) /\ Own(j) /\ ReqSteps(j)
    BY <1>3, <1>r DEF IsUnix, BoundHost, ListenInv
  <2>5. Own(i)'
    <3>1. Granted(i)'
      BY <2>3 DEF Granted
    <3>2. IsUnix(i) => req'[i].port = 0
      BY <2>4, <3>1 DEF ReqSteps, Own
    <3> QED BY <1>3, <2>1, <2>3, <2>4, <3>1, <3>2 DEF Own
  <2>6. ASSUME NEW j \in Args \ {i}
        PROVE  Own(j)'
    <3>1. Granted(j)' <=> Granted(j)
      BY <2>3 DEF Granted
    <3>2. Live(j)' <=> Live(j)
      BY <2>1 DEF Live
    <3> QED BY <2>1, <2>3, <2>4, <3>1, <3>2 DEF Own
  <2>7. Apart'
    <3>1. ASSUME NEW j \in Args \ {i}, NEW a \in g.addrs, NEW b \in listener[j].addrs,
                 listener[j].port = g.port
          PROVE  ~Clash(a, b) /\ ~Clash(b, a)
      BY <1>3, <3>1, FreeMeansApart
    <3>2. ASSUME NEW j \in Args, NEW k \in Args, j # k,
                 NEW a \in listener'[j].addrs, NEW b \in listener'[k].addrs,
                 listener'[j].port = listener'[k].port
          PROVE  ~Clash(a, b)
      <4>1. CASE j = i
        BY <2>1, <3>1, <3>2, <4>1
      <4>2. CASE k = i
        BY <2>1, <3>1, <3>2, <4>2
      <4>3. CASE j # i /\ k # i
        BY <2>1, <3>2, <4>3 DEF ListenInv, Apart
      <4> QED BY <4>1, <4>2, <4>3
    <3> QED BY <3>2 DEF Apart, Clash, V6
  <2> QED BY <2>5, <2>6, <2>7 DEF ListenInv
<1>4. ASSUME UNCHANGED <<phase, spec, listener>>
      PROVE  ListenInv'
  <2>1. Shrinks
    BY <1>4 DEF Shrinks
  <2> QED BY <1>2, <1>4, <2>1
<1>5. ASSUME NEW i \in Args, AcceptTcpForward(i)
      PROVE  ListenInv'
  <2>1. UNCHANGED <<phase, spec>> /\ ~IsUnix(i)
    BY <1>5 DEF AcceptTcpForward
  <2>2. BoundHost(i) = CanonicalizeRemoteBindHost(spec[i].bind.host)
    BY <2>1 DEF BoundHost
  <2> QED BY <1>3, <1>4, <1>5, <2>1, <2>2, TcpStep
<1>6. ASSUME NEW i \in Args, AcceptUnixForward(i)
      PROVE  ListenInv'
  <2> DEFINE g == UnixListener(spec[i].bind.host)
  <2>1. UNCHANGED <<phase, spec>> /\ IsUnix(i)
    BY <1>6 DEF AcceptUnixForward
  <2>2. spec[i].bind.host \in Names
    BY DEF TypeInv, Readings, Endpoints
  <2>3. g \in ListenerRecords /\ g.host = BoundHost(i) /\ g.addrs = {} /\ g.port = 0
    BY <2>1, <2>2, StoppedFacts DEF BoundHost
  <2>4. \/ UNCHANGED listener
        \/ listener' = WithHandle(i, g) /\ SetReq(i, "replied", g.port)
    BY <1>6, <2>3, UnixStep
  <2> HIDE DEF g
  <2> QED BY <1>3, <1>4, <2>1, <2>3, <2>4
<1> QED BY <1>1, <1>2, <1>5, <1>6, <1>r, ShrinkSteps
-----------------------------------------------------------------------------
LEMMA ArgStepHolds ==
  ASSUME TypeInv, ArgInv, [Next]_vars
  PROVE  ArgInv'
<1>r. /\ \A i \in Args : ReqSteps(i)
      /\ cmd' = cmd /\ (ParseArgs \/ UNCHANGED <<phase, spec>>)
  BY ReqStep
<1>1. \A i \in Args : req'[i].st # "idle" => phase' = "run" /\ cmd'[i].opt = "-R"
  BY <1>r DEF ReqSteps
<1>2. ASSUME phase' # "run"
      PROVE  files' = {} /\ \A i \in Args : listener'[i].addrs = {} /\ listener'[i].st = "none"
  <2>1. CASE ParseArgs
    BY <2>1 DEF ParseArgs, ArgInv
  <2>2. CASE phase # "run"
    <3>1. /\ files = {}
          /\ \A i \in Args : /\ listener[i].addrs = {} /\ listener[i].st = "none"
                            /\ req[i].st = "idle"
      BY <2>2 DEF ArgInv
    <3>2. ASSUME NEW i \in Args
          PROVE  /\ ~Request(i) /\ ~RequestAnswered(i) /\ ~RequestCancel(i)
                 /\ ~AcceptTcpForward(i) /\ ~AcceptUnixForward(i) /\ ~RespondFails(i)
                 /\ ~AcceptCancel(i) /\ ~UnixAcceptFails(i)
                 /\ \A a \in Addresses : ~AcceptFails(i, a)
      BY <2>2, <3>1 DEF Request, RequestAnswered, RequestCancel, AcceptTcpForward,
           AcceptUnixForward, RespondFails, AcceptCancel, UnixAcceptFails, AcceptFails, Live
    <3>3. ~SessionEnds
      BY <2>2 DEF SessionEnds
    <3>4. ParseArgs \/ UNCHANGED <<listener, files>>
      BY <3>2, <3>3, HostSteps
    <3> QED BY <2>1, <3>1, <3>4
  <2> QED BY <1>2, <1>r, <2>1, <2>2
<1>3. ASSUME phase' = "run", NEW i \in Args, cmd'[i].opt = "-R"
      PROVE  spec'[i] \in FromStr("-R", cmd'[i].fields)
  <2>1. CASE ParseArgs
    <3>1. phase = "args" /\ i \in Given /\ cmd[i].opt = "-R"
      BY <1>3, <1>r, <2>1 DEF ParseArgs, Given
    <3>2. /\ FromStr(cmd[i].opt, cmd[i].fields) # {}
          /\ spec'[i] = CHOOSE m \in FromStr(cmd[i].opt, cmd[i].fields) : TRUE
      BY <1>3, <2>1, <3>1 DEF ParseArgs
    <3> DEFINE S == FromStr(cmd[i].opt, cmd[i].fields)
    <3>3. S # {} /\ spec'[i] = CHOOSE m \in S : TRUE
      BY <3>2
    <3> HIDE DEF S
    <3>4. spec'[i] \in S
      BY <3>3
    <3> QED BY <1>r, <3>1, <3>4 DEF S
  <2>2. CASE UNCHANGED <<phase, spec>>
    BY <1>3, <1>r, <2>2 DEF ArgInv
  <2> QED BY <1>r, <2>1, <2>2
<1> QED BY <1>1, <1>2, <1>3 DEF ArgInv
-----------------------------------------------------------------------------
(* The socket files.  That of a live listener exists, and no two have the  *)
(* same: what a stopping listener unlinks is its own.                      *)
FileInv ==
  /\ FilesHaveListeners
  /\ \A i \in Args : Live(i) /\ IsUnix(i) => spec[i].bind.host \in files
  /\ \A i, j \in Args :
       i # j /\ Live(i) /\ IsUnix(i) /\ Live(j) /\ IsUnix(j) =>
         spec[i].bind.host # spec[j].bind.host

(* Listeners stop and unlink their files, all others stay. *)
Unlinks(S, more) ==
  /\ UNCHANGED spec /\ files' = Unlinked(S) \cup more /\ leaked \subseteq leaked'
  /\ \A i \in Args : Live(i)' <=> Live(i) /\ i \notin S
  /\ \A path \in more : \E i \in leaked' : i \in Args /\ IsUnix(i) /\ spec[i].bind.host = path

LEMMA UnlinkStep ==
  ASSUME FileInv, NEW S \in SUBSET Args, NEW more, Unlinks(S, more)
  PROVE  FileInv'
<1> USE DEF Unlinks
<1>0. \A i \in Args : IsUnix(i)' <=> IsUnix(i)
  BY DEF IsUnix
<1> DEFINE gone == {spec[i].bind.host : i \in {j \in S : Live(j) /\ IsUnix(j)}}
<1>1. files' = (files \ gone) \cup more
  BY DEF Unlinked
<1>2. ASSUME NEW path \in files'
      PROVE  \E i \in Args : /\ IsUnix(i)' /\ spec'[i].bind.host = path
                             /\ Live(i)' \/ i \in leaked'
  <2>1. CASE path \in more
    BY <1>0, <2>1
  <2>2. CASE path \in files \ gone
    <3>1. PICK i \in Args : IsUnix(i) /\ spec[i].bind.host = path /\ (Live(i) \/ i \in leaked)
      BY <2>2 DEF FileInv, FilesHaveListeners
    <3>2. i \in S /\ Live(i) => FALSE
      BY <2>2, <3>1
    <3> QED BY <1>0, <3>1, <3>2
  <2> QED BY <1>1, <1>2, <2>1, <2>2
<1>3. ASSUME NEW i \in Args, Live(i)', IsUnix(i)'
      PROVE  spec'[i].bind.host \in files'
  <2>1. Live(i) /\ i \notin S /\ IsUnix(i) /\ spec[i].bind.host \in files
    BY <1>0, <1>3 DEF FileInv
  <2>2. spec[i].bind.host \notin gone
    BY <2>1 DEF FileInv
  <2> QED BY <1>1, <2>1, <2>2
<1>4. ASSUME NEW i \in Args, NEW j \in Args, i # j, Live(i)', IsUnix(i)', Live(j)', IsUnix(j)'
      PROVE  spec'[i].bind.host # spec'[j].bind.host
  BY <1>0, <1>4 DEF FileInv
<1> QED BY <1>2, <1>3, <1>4 DEF FileInv, FilesHaveListeners
LEMMA FileStep ==
  ASSUME TypeInv, ArgInv, ListenInv, FileInv, [Next]_vars
  PROVE  FileInv'
<1>1. ASSUME ParseArgs PROVE FileInv'
  <2>1. /\ files' = {} /\ \A i \in Args : listener'[i].st = "none"
    BY <1>1 DEF ParseArgs, ArgInv
  <2> QED BY <2>1 DEF FileInv, FilesHaveListeners, Live
<1>2. ASSUME UNCHANGED <<spec, listener, files, leaked>> PROVE FileInv'
  BY <1>2 DEF FileInv, FilesHaveListeners, Live, IsUnix
<1>3. ASSUME NEW i \in Args, Request(i) \/ RequestAnswered(i) \/ RequestCancel(i) PROVE FileInv'
  BY <1>2, <1>3 DEF Request, RequestAnswered, RequestCancel
<1>4. ASSUME NEW i \in Args, AcceptTcpForward(i) PROVE FileInv'
  <2>1. UNCHANGED <<spec, files, leaked>> /\ ~IsUnix(i)
    BY <1>4 DEF AcceptTcpForward
  <2>2. ASSUME NEW j \in Args \ {i} PROVE Live(j)' <=> Live(j)
    <3>1. CASE UNCHANGED listener
      BY <3>1 DEF Live
    <3>2. CASE \E g \in ListenerRecords : listener' = WithHandle(i, g)
      BY <3>2, WithHandleFacts DEF Live, TypeInv
    <3> QED BY <1>4, <3>1, <3>2, TcpStep
  <2>3. \A j \in Args : IsUnix(j)' <=> IsUnix(j)
    BY <2>1 DEF IsUnix
  <2> QED BY <2>1, <2>2, <2>3 DEF FileInv, FilesHaveListeners
<1>5. ASSUME NEW i \in Args, AcceptUnixForward(i) PROVE FileInv'
  <2>1. UNCHANGED <<spec, leaked>> /\ IsUnix(i)
    BY <1>5 DEF AcceptUnixForward
  <2>2. CASE UNCHANGED <<listener, files>>
    BY <1>2, <2>1, <2>2
  <2>3. CASE /\ spec[i].bind.host \notin files
             /\ files' = files \cup {spec[i].bind.host}
             /\ listener' = WithHandle(i, UnixListener(spec[i].bind.host))
    <3>1. spec[i].bind.host \in Names
      BY DEF TypeInv, Readings, Endpoints
    <3>2. Live(i)' /\ \A j \in Args \ {i} : Live(j)' <=> Live(j)
      <4>1. /\ UnixListener(spec[i].bind.host) \in ListenerRecords
            /\ UnixListener(spec[i].bind.host).st = "live"
        BY <3>1, StoppedFacts
      <4> DEFINE new == UnixListener(spec[i].bind.host)
      <4>2. listener' = WithHandle(i, new) /\ listener \in [Args -> ListenerRecords]
        BY <2>3 DEF TypeInv
      <4> HIDE DEF new
      <4>3. /\ listener'[i] = new
            /\ \A j \in Args \ {i} : listener'[j].st = listener[j].st
        BY <4>1, <4>2, WithHandleFacts DEF new
      <4> QED BY <4>1, <4>3 DEF Live, new
    <3>3. \A j \in Args : IsUnix(j)' <=> IsUnix(j)
      BY <2>1 DEF IsUnix
    <3>4. \A j \in Args \ {i} : Live(j) /\ IsUnix(j) => spec[j].bind.host # spec[i].bind.host
      BY <2>3 DEF FileInv
    <3>5. FilesHaveListeners'
      <4>1. ASSUME NEW path \in files'
            PROVE  \E j \in Args : /\ IsUnix(j)' /\ spec'[j].bind.host = path
                                   /\ Live(j)' \/ j \in leaked'
        <5>1. CASE path = spec[i].bind.host
          BY <2>1, <3>2, <3>3, <5>1
        <5>2. CASE path \in files
          BY <2>1, <3>2, <3>3, <5>2 DEF FileInv, FilesHaveListeners
        <5> QED BY <2>3, <4>1, <5>1, <5>2
      <4> QED BY <4>1 DEF FilesHaveListeners
    <3>6. \A j \in Args : Live(j)' /\ IsUnix(j)' => spec'[j].bind.host \in files'
      BY <2>1, <2>3, <3>2, <3>3 DEF FileInv
    <3>7. ASSUME NEW j \in Args, NEW k \in Args, j # k, Live(j)', IsUnix(j)', Live(k)', IsUnix(k)'
          PROVE  spec'[j].bind.host # spec'[k].bind.host
      BY <2>1, <3>2, <3>3, <3>4, <3>7 DEF FileInv
    <3> QED BY <3>5, <3>6, <3>7 DEF FileInv
  <2> QED BY <1>5, <2>2, <2>3, UnixStep
<1>6. ASSUME NEW i \in Args, RespondFails(i) PROVE FileInv'
  <2>1. /\ UNCHANGED spec /\ files' = Unlinked(Args) \cup {spec[i].bind.host}
        /\ leaked' = leaked \cup {i} /\ IsUnix(i)
        /\ \A j \in Args : listener'[j] = IF Live(j) THEN Stopped ELSE listener[j]
    BY <1>6 DEF RespondFails
  <2>2. \A j \in Args : ~Live(j)'
    BY <2>1, StoppedFacts DEF Live
  <2>3. Unlinks(Args, {spec[i].bind.host})
    BY <2>1, <2>2 DEF Unlinks
  <2> QED BY <2>3, UnlinkStep
<1>7. ASSUME SessionEnds PROVE FileInv'
  <2>1. /\ UNCHANGED <<spec, leaked>> /\ files' = Unlinked(Args) \cup {}
        /\ \A j \in Args : listener'[j] = IF Live(j) THEN Stopped ELSE listener[j]
    BY <1>7 DEF SessionEnds, EndSession
  <2>2. \A j \in Args : ~Live(j)'
    BY <2>1, StoppedFacts DEF Live
  <2>3. Unlinks(Args, {})
    BY <2>1, <2>2 DEF Unlinks
  <2> QED BY <2>3, UnlinkStep
<1>8. ASSUME NEW i \in Args, AcceptCancel(i) PROVE FileInv'
  <2>1. PICK S \in SUBSET Args :
          /\ files' = Unlinked(S)
          /\ listener' = [j \in Args |-> IF j \in S THEN Stopped ELSE listener[j]]
    BY <1>8 DEF AcceptCancel
  <2>2. UNCHANGED <<spec, leaked>> /\ files' = Unlinked(S) \cup {}
    BY <1>8, <2>1 DEF AcceptCancel
  <2>3. \A j \in Args : Live(j)' <=> Live(j) /\ j \notin S
    BY <2>1, StoppedFacts DEF Live
  <2>4. Unlinks(S, {})
    BY <2>2, <2>3 DEF Unlinks
  <2> QED BY <2>4, UnlinkStep
<1>9. ASSUME NEW i \in Args, UnixAcceptFails(i) PROVE FileInv'
  <2>1. UNCHANGED <<spec, leaked>> /\ files' = Unlinked({i}) \cup {} /\ {i} \in SUBSET Args
    BY <1>9 DEF UnixAcceptFails
  <2>2. \A j \in Args : Live(j)' <=> Live(j) /\ j \notin {i}
    BY <1>9 DEF UnixAcceptFails, Live, TypeInv, ListenerRecords
  <2>3. Unlinks({i}, {})
    BY <2>1, <2>2 DEF Unlinks
  <2> QED BY <2>1, <2>3, UnlinkStep
<1>10. ASSUME NEW i \in Args, NEW a \in Addresses, AcceptFails(i, a) PROVE FileInv'
  <2>1. UNCHANGED <<spec, files, leaked>> /\ a \in listener[i].addrs
    BY <1>10 DEF AcceptFails
  <2>2. ~IsUnix(i)
    BY <2>1 DEF ListenInv, Own
  <2>3. \A j \in Args \ {i} : Live(j)' <=> Live(j)
    BY <1>10 DEF AcceptFails, Live, TypeInv
  <2>4. \A j \in Args : IsUnix(j)' <=> IsUnix(j)
    BY <2>1 DEF IsUnix
  <2> QED BY <2>1, <2>2, <2>3, <2>4 DEF FileInv, FilesHaveListeners
<1> QED BY <1>1, <1>2, <1>3, <1>4, <1>5, <1>6, <1>7, <1>8, <1>9, <1>10, HostSteps
-----------------------------------------------------------------------------
(* The mappings and the connections.  Both stand for a granted forward,    *)
(* and a mapping fits a connection iff their forwards have the same key.   *)
BindOf(i) ==
  IF IsUnix(i) THEN spec[i].bind
  ELSE Tcp(CanonicalizeRemoteBindHost(spec[i].bind.host), req[i].port)
MapOf(m) == Granted(m.arg) /\ m.connect = spec[m.arg].connect /\ m.bind = BindOf(m.arg)
MapInv ==
  /\ \A n \in DOMAIN established : MapOf(established[n])
  /\ \A n \in DOMAIN mappings : MapOf(mappings[n])

ConnOf(x) ==
  /\ conn[x].to \in Args /\ Granted(conn[x].to)
  /\ conn[x].host = BoundHost(conn[x].to) /\ conn[x].port = req[conn[x].to].port
HasTarget(x) ==
  \E j \in Args : /\ Granted(j) /\ Key(j) = Key(conn[x].to)
                  /\ conn[x].target = spec[j].connect /\ conn[x].target # NoEndpoint
HasNone(x) ==
  /\ loop # "off"
  /\ \/ \E j \in Args : Granted(j) /\ Key(j) = Key(conn[x].to) /\ spec[j].connect = NoEndpoint
     \/ \A n \in DOMAIN mappings : mappings[n].arg # conn[x].to
ConnInv ==
  /\ \A x \in Conns : conn[x].st # "none" =>
       /\ ConnOf(x)
       /\ conn[x].st \in {"connecting", "confirmed"} => HasTarget(x)
       /\ conn[x].st = "unmatched" => HasNone(x)
  /\ \A n \in DOMAIN inbox : inbox[n] \in Conns => conn[inbox[n]].st # "none"

LEMMA Least ==
  ASSUME NEW S \in SUBSET Nat, S # {}
  PROVE  \E n \in S : \A m \in S : n <= m
<1>1. PICK n \in S : \A m \in S : ~(<<m, n>> \in OpToRel(<, Nat))
  BY NatLessThanWellFounded, WFMin, Zenon
<1>2. \A m \in S : ~(m < n)
  BY <1>1, Zenon DEF OpToRel
<1>3. \A m \in S : n <= m
  BY <1>2
<1> QED BY <1>3

LEMMA FitsKey ==
  ASSUME TypeInv, ArgInv, ListenInv, NEW x \in Conns, ConnOf(x), NEW m \in Forwards, MapOf(m)
  PROVE  Fits(m, x) <=> Key(m.arg) = Key(conn[x].to)
<1> DEFINE i == conn[x].to
           j == m.arg
           C(h) == CanonicalizeRemoteBindHost(h)
<1>1. /\ i \in Args /\ Granted(i) /\ conn[x].host = BoundHost(i) /\ conn[x].port = req[i].port
      /\ j \in Args /\ Granted(j) /\ m.bind = BindOf(j)
  BY DEF ConnOf, MapOf, Forwards
<1>2. req[i].st # "idle" /\ req[j].st # "idle"
  BY <1>1 DEF Granted
<1>3. /\ req[i].port \in 0..PortLimit - 1 /\ req[j].port \in 0..PortLimit - 1
      /\ AllocatedPort(req[i].port) = req[i].port /\ req[i].port \in Nat /\ req[j].port \in Nat
  BY <1>1, PortFacts DEF TypeInv
<1> HIDE DEF i, j
<1>4. ASSUME NEW k \in {i, j}
      PROVE  /\ spec[k].bind.host \in Names
             /\ ~IsUnix(k) => spec[k].bind.type = "tcp"
             /\ IsUnix(k) => /\ spec[k].bind.type = "unix" /\ C(spec[k].bind.host) = spec[k].bind.host
                             /\ req[k].port = 0
             /\ C(C(spec[k].bind.host)) = C(spec[k].bind.host) /\ C(spec[k].bind.host) \in Names
  <2>1. /\ k \in Args /\ req[k].st # "idle" /\ Granted(k)
    BY <1>1, <1>2
  <2>2. /\ spec[k].bind.host \in Names
        /\ ~IsUnix(k) => spec[k].bind.type = "tcp"
        /\ IsUnix(k) => spec[k].bind.host \notin {"", "*"}
    BY <2>1, SpecFacts
  <2>3. IsUnix(k) => spec[k].bind.type = "unix" /\ req[k].port = 0
    BY <2>1 DEF ListenInv, Own, IsUnix
  <2> QED BY <2>2, <2>3, CanonFacts
<1>5. Key(i) = <<spec[i].bind.type, C(spec[i].bind.host), req[i].port>>
  BY DEF Key
<1>6. Key(j) = <<spec[j].bind.type, C(spec[j].bind.host), req[j].port>>
  BY DEF Key
<1>7. Key(i) = Key(j) <=> /\ spec[i].bind.type = spec[j].bind.type
                         /\ C(spec[i].bind.host) = C(spec[j].bind.host)
                         /\ req[i].port = req[j].port
  BY <1>5, <1>6
<1>8. ~IsUnix(j) => /\ BindOf(j).type = "tcp" /\ BindOf(j).host = C(spec[j].bind.host)
                    /\ BindOf(j).port = req[j].port
  BY <1>3, <1>4, EndpointFacts DEF BindOf
<1>9. IsUnix(j) => BindOf(j) = spec[j].bind
  BY DEF BindOf
<1>10. CASE IsUnix(i)
  <2>1. Fits(m, x) <=> BindOf(j).type = "unix" /\ BindOf(j).host = spec[i].bind.host
    BY <1>1, <1>10 DEF Fits, BoundHost, i
  <2>2. CASE IsUnix(j)
    BY <1>4, <1>7, <1>9, <1>10, <2>1, <2>2 DEF i, j
  <2>3. CASE ~IsUnix(j)
    <3>1. BindOf(j).type = "tcp" /\ spec[i].bind.type = "unix" /\ spec[j].bind.type = "tcp"
      BY <1>4, <1>8, <1>10, <2>3
    <3> QED BY <1>7, <2>1, <3>1 DEF i, j
  <2> QED BY <2>2, <2>3
<1>11. CASE ~IsUnix(i)
  <2>1. Fits(m, x) <=> /\ BindOf(j).type = "tcp"
                       /\ C(BindOf(j).host) = C(C(spec[i].bind.host))
                       /\ BindOf(j).port = req[i].port
    BY <1>1, <1>3, <1>11 DEF Fits, BoundHost, i
  <2>2. CASE IsUnix(j)
    <3>1. BindOf(j).type = "unix" /\ spec[i].bind.type = "tcp" /\ spec[j].bind.type = "unix"
      BY <1>4, <1>9, <1>11, <2>2
    <3> QED BY <1>7, <2>1, <3>1 DEF i, j
  <2>3. CASE ~IsUnix(j)
    <3>1. spec[i].bind.type = "tcp" /\ spec[j].bind.type = "tcp"
      BY <1>4, <1>11, <2>3
    <3>2. /\ C(C(spec[i].bind.host)) = C(spec[i].bind.host)
          /\ C(C(spec[j].bind.host)) = C(spec[j].bind.host)
      BY <1>4
    <3> HIDE DEF C
    <3>3. Fits(m, x) <=> /\ C(spec[j].bind.host) = C(spec[i].bind.host)
                         /\ req[j].port = req[i].port
      BY <1>8, <2>1, <2>3, <3>2
    <3> QED BY <1>7, <3>1, <3>3 DEF i, j
  <2> QED BY <2>2, <2>3
<1> QED BY <1>10, <1>11

(* What is granted keeps its key. *)
LEMMA Kept ==
  ASSUME NEW i, ReqSteps(i), Granted(i)
  PROVE  /\ Granted(i)' /\ Key(i)' = Key(i) /\ BoundHost(i)' = BoundHost(i)
         /\ BindOf(i)' = BindOf(i) /\ spec'[i] = spec[i] /\ req'[i].port = req[i].port
<1>1. Granted(i)' /\ spec'[i] = spec[i] /\ req'[i].port = req[i].port
  BY DEF ReqSteps
<1> QED BY <1>1 DEF Key, BoundHost, BindOf, IsUnix
(* The steps on the client and on the connections. *)
LEMMA ClientSteps ==
  ASSUME [Next]_vars
  PROVE  \/ UNCHANGED <<client, conn>>
         \/ \E i \in Args : RequestAnswered(i) \/ \E x \in Conns : Accepted(x, i)
         \/ \E x \in Conns : ConnStep(x)
         \/ \E kind \in Strange : StrangeStep(kind)
         \/ AcceptForwardedChannels \/ PeerClosesStrange \/ LoopEnds
<1>1. ASSUME NEW i \in Args,
             \/ Request(i) \/ RequestCancel(i) \/ AcceptTcpForward(i) \/ AcceptUnixForward(i)
             \/ RespondFails(i) \/ AcceptCancel(i) \/ UnixAcceptFails(i)
             \/ \E a \in Addresses : AcceptFails(i, a)
      PROVE  UNCHANGED <<client, conn>>
  BY <1>1 DEF Request, RequestCancel, AcceptTcpForward, AcceptUnixForward, RespondFails,
       AcceptCancel, UnixAcceptFails, AcceptFails
<1>2. ASSUME ParseArgs \/ SessionEnds \/ UNCHANGED vars
      PROVE  UNCHANGED <<client, conn>>
  BY <1>2 DEF ParseArgs, SessionEnds, vars
<1>3. Next \/ UNCHANGED vars
  OBVIOUS
<1> QED BY <1>1, <1>2, <1>3 DEF Next, ArgStep

LEMMA LoopStep ==
  ASSUME [Next]_vars, loop # "off"
  PROVE  loop' # "off" /\ mappings' = mappings
<1>1. ASSUME NEW x \in Conns, ConnStep(x) PROVE UNCHANGED <<loop, mappings>>
  BY <1>1 DEF ConnStep, OpenChannel, HandleForwarded, LocalConnects, LocalConnectFails, client
<1>2. ASSUME NEW kind \in Strange, StrangeStep(kind) PROVE loop' # "off" /\ mappings' = mappings
  BY <1>2 DEF StrangeStep, PeerOpensStrange, HandleStrange, LoopAfter, Strange
<1>3. ASSUME AcceptForwardedChannels \/ PeerClosesStrange \/ LoopEnds
      PROVE  loop' # "off" /\ mappings' = mappings
  BY <1>3 DEF AcceptForwardedChannels, PeerClosesStrange, LoopEnds
<1>4. ASSUME NEW i \in Args, RequestAnswered(i) \/ \E x \in Conns : Accepted(x, i)
      PROVE  UNCHANGED <<loop, mappings>>
  BY <1>4 DEF RequestAnswered, Accepted, client
<1>5. ASSUME UNCHANGED <<client, conn>> PROVE UNCHANGED <<loop, mappings>>
  BY <1>5 DEF client
<1> QED BY <1>1, <1>2, <1>3, <1>4, <1>5, ClientSteps

LEMMA MapStep ==
  ASSUME TypeInv, ArgInv, MapInv, [Next]_vars
  PROVE  MapInv'
<1>r. \A i \in Args : ReqSteps(i)
  BY ReqStep
<1>1. ASSUME NEW m \in Forwards, MapOf(m)
      PROVE  MapOf(m)'
  <2>1. m.arg \in Args
    BY DEF Forwards
  <2> QED BY <1>1, <1>r, <2>1, Kept DEF MapOf
<1>2. /\ established \in Seq(Forwards) /\ mappings \in Seq(Forwards)
  BY DEF TypeInv
<1>3. /\ \A n \in DOMAIN established : established[n] \in Forwards
      /\ \A n \in DOMAIN mappings : mappings[n] \in Forwards
  BY <1>2
<1>o. /\ \A m : (\E n \in DOMAIN established : m = established[n]) => MapOf(m)'
      /\ \A m : (\E n \in DOMAIN mappings : m = mappings[n]) => MapOf(m)'
  BY <1>1, <1>3 DEF MapInv
<1>g. ASSUME /\ \A m : (\E n \in DOMAIN established' : m = established'[n]) => MapOf(m)'
             /\ \A m : (\E n \in DOMAIN mappings' : m = mappings'[n]) => MapOf(m)'
      PROVE  MapInv'
  <2>1. ASSUME NEW n \in DOMAIN established' PROVE MapOf(established[n])'
    <3>1. PICK m : m = established'[n]
      OBVIOUS
    <3>2. MapOf(m)'
      BY <1>g, <2>1, <3>1
    <3> QED BY <3>1, <3>2 DEF MapOf
  <2>2. ASSUME NEW n \in DOMAIN mappings' PROVE MapOf(mappings[n])'
    <3>1. PICK m : m = mappings'[n]
      OBVIOUS
    <3>2. MapOf(m)'
      BY <1>g, <2>2, <3>1
    <3> QED BY <3>1, <3>2 DEF MapOf
  <2> QED BY <2>1, <2>2 DEF MapInv
<1>4. CASE UNCHANGED <<established, mappings>>
  BY <1>g, <1>o, <1>4
<1>5. ASSUME NEW i \in Args, RequestAnswered(i) PROVE MapInv'
  <2> DEFINE b == IF IsUnix(i) THEN spec[i].bind
                  ELSE Tcp(TcpipForwardRequest(i)[1], AllocatedPort(req[i].port))
             r == [arg |-> i, connect |-> spec[i].connect, bind |-> b]
  <2>1. established' = Append(established, r) /\ UNCHANGED mappings /\ req[i].st = "replied"
    BY <1>5 DEF RequestAnswered
  <2>2. b = BindOf(i)
    <3>1. AllocatedPort(req[i].port) = req[i].port
      BY PortFacts DEF TypeInv
    <3> QED BY <3>1 DEF BindOf, TcpipForwardRequest
  <2>3. Granted(i) /\ r.arg = i /\ r.connect = spec[i].connect /\ r.bind = b
    BY <2>1 DEF Granted
  <2> HIDE DEF r, b
  <2>4. PICK m : m = r
    OBVIOUS
  <2>5. m.arg = i /\ Granted(i)' /\ m.connect = spec'[i].connect /\ m.bind = BindOf(i)'
    BY <1>r, <2>2, <2>3, <2>4, Kept
  <2>6. MapOf(m)'
    BY <2>5 DEF MapOf
  <2>7. ASSUME NEW n \in DOMAIN established'
        PROVE  established'[n] = m \/ (n \in DOMAIN established /\ established'[n] = established[n])
    BY <1>2, <2>1, <2>4, <2>7
  <2> QED BY <1>g, <1>o, <2>1, <2>6, <2>7
<1>6. ASSUME AcceptForwardedChannels PROVE MapInv'
  <2>1. established' = established /\ mappings' = established
    BY <1>6 DEF AcceptForwardedChannels
  <2> QED BY <1>g, <1>o, <2>1
<1>7. ASSUME NEW x \in Conns, ConnStep(x) PROVE UNCHANGED <<established, mappings>>
  BY <1>7 DEF ConnStep, OpenChannel, HandleForwarded, LocalConnects, LocalConnectFails, client
<1>8. ASSUME NEW kind \in Strange, StrangeStep(kind) PROVE UNCHANGED <<established, mappings>>
  BY <1>8 DEF StrangeStep, PeerOpensStrange, HandleStrange
<1>9. ASSUME PeerClosesStrange \/ LoopEnds PROVE UNCHANGED <<established, mappings>>
  BY <1>9 DEF PeerClosesStrange, LoopEnds
<1>10. ASSUME NEW i \in Args, NEW x \in Conns, Accepted(x, i) PROVE UNCHANGED <<established, mappings>>
  BY <1>10 DEF Accepted, client
<1>11. ASSUME UNCHANGED <<client, conn>> PROVE UNCHANGED <<established, mappings>>
  BY <1>11 DEF client
<1> QED BY <1>4, <1>5, <1>6, <1>7, <1>8, <1>9, <1>10, <1>11, ClientSteps

(* A connection that is left as it is keeps what was found for it. *)
LEMMA ConnKept ==
  ASSUME TypeInv, ArgInv, [Next]_vars, NEW x \in Conns, ConnOf(x),
         conn'[x].to = conn[x].to, conn'[x].host = conn[x].host, conn'[x].port = conn[x].port
  PROVE  /\ ConnOf(x)'
         /\ HasTarget(x) /\ conn'[x].target = conn[x].target => HasTarget(x)'
         /\ HasNone(x) => HasNone(x)'
<1>r. \A i \in Args : ReqSteps(i)
  BY ReqStep
<1>0. PICK i : i = conn[x].to
  OBVIOUS
<1>1. i \in Args /\ Granted(i) /\ conn[x].host = BoundHost(i) /\ conn[x].port = req[i].port
  BY <1>0 DEF ConnOf
<1>2. ASSUME NEW j \in Args, Granted(j)
      PROVE  /\ Granted(j)' /\ Key(j)' = Key(j) /\ BoundHost(j)' = BoundHost(j)
             /\ spec'[j] = spec[j] /\ req'[j].port = req[j].port
  BY <1>2, <1>r, Kept
<1>3. /\ conn'[x].to = i /\ Granted(i)' /\ conn'[x].host = BoundHost(i)'
      /\ conn'[x].port = req'[i].port /\ Key(i)' = Key(i)
  BY <1>0, <1>1, <1>2
<1>4. ConnOf(x)'
  BY <1>1, <1>3 DEF ConnOf, BoundHost, IsUnix, Granted
<1>5. ASSUME HasTarget(x), conn'[x].target = conn[x].target
      PROVE  HasTarget(x)'
  <2>1. PICK j \in Args : /\ Granted(j) /\ Key(j) = Key(i)
                          /\ conn[x].target = spec[j].connect /\ conn[x].target # NoEndpoint
    BY <1>0, <1>5 DEF HasTarget
  <2>2. /\ Granted(j)' /\ Key(j)' = Key(i)'
        /\ conn'[x].target = spec'[j].connect /\ conn'[x].target # NoEndpoint
    BY <1>2, <1>3, <1>5, <2>1
  <2> QED BY <1>3, <2>2 DEF HasTarget, Key
<1>6. ASSUME HasNone(x)
      PROVE  HasNone(x)'
  <2>1. loop' # "off" /\ mappings' = mappings
    BY <1>6, LoopStep DEF HasNone
  <2>2. CASE \A n \in DOMAIN mappings : mappings[n].arg # i
    BY <1>3, <2>1, <2>2 DEF HasNone
  <2>3. CASE \E j \in Args : Granted(j) /\ Key(j) = Key(i) /\ spec[j].connect = NoEndpoint
    <3>1. PICK j \in Args : Granted(j) /\ Key(j) = Key(i) /\ spec[j].connect = NoEndpoint
      BY <2>3
    <3>2. Granted(j)' /\ Key(j)' = Key(i)' /\ spec'[j].connect = NoEndpoint
      BY <1>2, <1>3, <3>1
    <3> QED BY <1>3, <2>1, <3>2 DEF HasNone, Key
  <2> QED BY <1>0, <1>6, <2>2, <2>3 DEF HasNone
<1> QED BY <1>4, <1>5, <1>6
(* The loop's choice for the channel at the head of its queue. *)
LEMMA ChoiceFacts ==
  ASSUME TypeInv, ArgInv, ListenInv, MapInv, NEW x \in Conns, ConnOf(x)
  PROVE  /\ \A m \in Mapping(x) : /\ m.arg \in Args /\ Granted(m.arg)
                                   /\ Key(m.arg) = Key(conn[x].to) /\ m.connect = spec[m.arg].connect
         /\ (\E n \in DOMAIN mappings : mappings[n].arg = conn[x].to) => Mapping(x) # {}
<1>1. \A n \in DOMAIN mappings : mappings[n] \in Forwards /\ MapOf(mappings[n])
  BY DEF TypeInv, MapInv
<1>2. ASSUME NEW m \in Mapping(x)
      PROVE  /\ m.arg \in Args /\ Granted(m.arg)
             /\ Key(m.arg) = Key(conn[x].to) /\ m.connect = spec[m.arg].connect
  <2>1. m \in Forwards /\ Fits(m, x) /\ MapOf(m)
    BY <1>1, MappingFacts
  <2>2. Key(m.arg) = Key(conn[x].to)
    BY <2>1, FitsKey
  <2> QED BY <2>1, <2>2 DEF MapOf, Forwards
<1>3. ASSUME NEW n \in DOMAIN mappings, mappings[n].arg = conn[x].to
      PROVE  Mapping(x) # {}
  <2> DEFINE S == {k \in DOMAIN mappings : Fits(mappings[k], x)}
  <2>1. Fits(mappings[n], x)
    BY <1>1, <1>3, FitsKey
  <2>2. DOMAIN mappings \subseteq Nat
    <3>1. DOMAIN mappings = 1..Len(mappings)
      BY DEF TypeInv
    <3> QED BY <3>1
  <2>3. S \in SUBSET Nat /\ S # {}
    BY <2>1, <2>2
  <2>4. PICK k \in S : \A m \in S : k <= m
    BY <2>3, Least
  <2>5. mappings[k] \in Mapping(x)
    BY <2>4 DEF Mapping
  <2> QED BY <2>5
<1> QED BY <1>2, <1>3

LEMMA ConnInvStep ==
  ASSUME TypeInv, ArgInv, ListenInv, MapInv, ConnInv, [Next]_vars
  PROVE  ConnInv'
<1>t. TypeInv'
  BY TypeStep
<1>r. \A i \in Args : ReqSteps(i)
  BY ReqStep
<1>a. \A x \in Conns : conn[x].st # "none" =>
        /\ ConnOf(x)
        /\ conn[x].st \in {"connecting", "confirmed"} => HasTarget(x)
        /\ conn[x].st = "unmatched" => HasNone(x)
  BY DEF ConnInv
<1>k. ASSUME NEW x \in Conns, conn[x].st # "none", conn'[x].to = conn[x].to,
             conn'[x].host = conn[x].host, conn'[x].port = conn[x].port
      PROVE  /\ ConnOf(x)'
             /\ HasTarget(x) /\ conn'[x].target = conn[x].target => HasTarget(x)'
             /\ HasNone(x) => HasNone(x)'
  BY <1>a, <1>k, ConnKept
<1>g. ASSUME NEW x \in Conns, conn'[x] = conn[x], conn'[x].st # "none"
      PROVE  /\ ConnOf(x)'
             /\ conn'[x].st \in {"connecting", "confirmed"} => HasTarget(x)'
             /\ conn'[x].st = "unmatched" => HasNone(x)'
  BY <1>a, <1>g, <1>k
<1>d. ASSUME /\ \A x \in Conns : conn'[x].st # "none" =>
                  \/ conn'[x] = conn[x]
                  \/ /\ ConnOf(x)'
                     /\ conn'[x].st \in {"connecting", "confirmed"} => HasTarget(x)'
                     /\ conn'[x].st = "unmatched" => HasNone(x)',
             \A n \in DOMAIN inbox' : inbox'[n] \in Conns => conn'[inbox'[n]].st # "none"
      PROVE  ConnInv'
  BY <1>d, <1>g DEF ConnInv
<1>s. \A n \in DOMAIN inbox : inbox[n] \in Conns => conn[inbox[n]].st # "none"
  BY DEF ConnInv
<1>h. inbox \in Seq(Conns \cup Strange) /\ conn \in [Conns -> ConnRecords]
  BY DEF TypeInv
<1>1. ASSUME UNCHANGED <<conn, inbox>> PROVE ConnInv'
  BY <1>1, <1>d, <1>s
<1>2. ASSUME NEW i \in Args, NEW x \in Conns, Accepted(x, i) PROVE ConnInv'
  <2>1. /\ conn' = [conn EXCEPT ![x] = [to |-> i, st |-> "accepted", target |-> NoEndpoint,
                                       host |-> listener[i].host, port |-> listener[i].port]]
        /\ Live(i) /\ UNCHANGED <<inbox, spec, req>>
    BY <1>2 DEF Accepted, client
  <2>2. /\ conn'[x].to = i /\ conn'[x].st = "accepted" /\ conn'[x].host = listener[i].host
        /\ conn'[x].port = listener[i].port /\ \A y \in Conns \ {x} : conn'[y] = conn[y]
    BY <1>h, <2>1
  <2>3. /\ Granted(i) /\ listener[i].port = req[i].port /\ listener[i].host = BoundHost(i)
    BY <2>1 DEF ListenInv, Own
  <2>4. ConnOf(x)'
    BY <2>1, <2>2, <2>3 DEF ConnOf, BoundHost, IsUnix, Granted
  <2> QED BY <1>d, <1>s, <2>1, <2>2, <2>4
<1>3. ASSUME NEW x \in Conns, OpenChannel(x) PROVE ConnInv'
  <2>1. SetConn(x, "opened") /\ inbox' = Append(inbox, x) /\ conn[x].st = "accepted"
    BY <1>3 DEF OpenChannel
  <2>2. /\ conn'[x].st = "opened" /\ conn'[x].to = conn[x].to
        /\ conn'[x].host = conn[x].host /\ conn'[x].port = conn[x].port
        /\ \A y \in Conns \ {x} : conn'[y] = conn[y]
    BY <2>1, ConnFacts DEF ConnStates
  <2>3. ConnOf(x)'
    BY <1>k, <2>1, <2>2
  <2>4. ASSUME NEW n \in DOMAIN inbox'
        PROVE  inbox'[n] = x \/ (n \in DOMAIN inbox /\ inbox'[n] = inbox[n])
    BY <1>h, <2>1, <2>4
  <2>5. \A n \in DOMAIN inbox' : inbox'[n] \in Conns => conn'[inbox'[n]].st # "none"
    BY <1>s, <2>2, <2>4
  <2> QED BY <1>d, <2>2, <2>3, <2>5
<1>t2. ASSUME inbox # <<>>, inbox' = Tail(inbox),
              \A y \in Conns : conn[y].st # "none" => conn'[y].st # "none"
       PROVE  \A n \in DOMAIN inbox' : inbox'[n] \in Conns => conn'[inbox'[n]].st # "none"
  BY <1>s, <1>t2, InboxFacts
<1>4. ASSUME NEW x \in Conns, HandleForwarded(x) PROVE ConnInv'
  <2>1. /\ inbox # <<>> /\ Head(inbox) = x /\ inbox' = Tail(inbox)
        /\ loop = "accept" /\ UNCHANGED <<loop, mappings, spec, req>>
    BY <1>4 DEF HandleForwarded, AtHead
  <2>2. conn[x].st # "none"
    BY <1>s, <2>1, InboxFacts
  <2>3. ConnOf(x) /\ conn[x].to \in Args
    BY <1>a, <2>2 DEF ConnOf
  <2>4. CASE \E m \in Mapping(x) :
               /\ m.connect # NoEndpoint
               /\ conn' = [conn EXCEPT ![x].st = "connecting", ![x].target = m.connect]
    <3>1. PICK m \in Mapping(x) :
            /\ m.connect # NoEndpoint
            /\ conn' = [conn EXCEPT ![x].st = "connecting", ![x].target = m.connect]
      BY <2>4
    <3>2. m.connect \in Endpoints
      BY MappingFacts DEF Forwards
    <3>3. /\ conn'[x].st = "connecting" /\ conn'[x].to = conn[x].to /\ conn'[x].target = m.connect
          /\ conn'[x].host = conn[x].host /\ conn'[x].port = conn[x].port
          /\ \A y \in Conns \ {x} : conn'[y] = conn[y]
      BY <3>1, <3>2, TargetFacts
    <3>4. /\ m.arg \in Args /\ Granted(m.arg)
          /\ Key(m.arg) = Key(conn[x].to) /\ m.connect = spec[m.arg].connect
      BY <2>3, ChoiceFacts
    <3>5. ConnOf(x)'
      BY <1>k, <2>2, <3>3
    <3>6. HasTarget(x)'
      BY <2>1, <3>1, <3>3, <3>4 DEF HasTarget, Granted, Key
    <3>7. \A y \in Conns : conn[y].st # "none" => conn'[y].st # "none"
      BY <3>3
    <3> QED BY <1>d, <1>t2, <2>1, <3>3, <3>5, <3>6, <3>7
  <2>5. CASE (\A m \in Mapping(x) : m.connect = NoEndpoint) /\ SetConn(x, "unmatched")
    <3>1. /\ conn'[x].st = "unmatched" /\ conn'[x].to = conn[x].to
          /\ conn'[x].host = conn[x].host /\ conn'[x].port = conn[x].port
          /\ \A y \in Conns \ {x} : conn'[y] = conn[y]
      BY <2>5, ConnFacts DEF ConnStates
    <3>2. ConnOf(x)'
      BY <1>k, <2>2, <3>1
    <3>3. \/ \E j \in Args : Granted(j) /\ Key(j) = Key(conn[x].to) /\ spec[j].connect = NoEndpoint
          \/ \A n \in DOMAIN mappings : mappings[n].arg # conn[x].to
      <4>1. CASE \E n \in DOMAIN mappings : mappings[n].arg = conn[x].to
        <5>1. PICK m \in Mapping(x) : TRUE
          BY <2>3, <4>1, ChoiceFacts
        <5>2. /\ m.arg \in Args /\ Granted(m.arg)
              /\ Key(m.arg) = Key(conn[x].to) /\ m.connect = spec[m.arg].connect
          BY <2>3, ChoiceFacts
        <5> QED BY <2>5, <5>2
      <4> QED BY <4>1
    <3>4. HasNone(x)'
      <4>1. CASE \A n \in DOMAIN mappings : mappings[n].arg # conn[x].to
        BY <2>1, <3>1, <4>1 DEF HasNone
      <4>2. CASE \E j \in Args : Granted(j) /\ Key(j) = Key(conn[x].to) /\ spec[j].connect = NoEndpoint
        BY <2>1, <3>1, <4>2 DEF HasNone, Granted, Key
      <4> QED BY <3>3, <4>1, <4>2
    <3>5. \A y \in Conns : conn[y].st # "none" => conn'[y].st # "none"
      BY <3>1
    <3> QED BY <1>d, <1>t2, <2>1, <3>1, <3>2, <3>4, <3>5
  <2> QED BY <1>4, <2>4, <2>5 DEF HandleForwarded
<1>5. ASSUME NEW x \in Conns, LocalConnects(x) \/ LocalConnectFails(x) PROVE ConnInv'
  <2>1. PICK st \in {"confirmed", "rejected"} : SetConn(x, st)
    BY <1>5 DEF LocalConnects, LocalConnectFails
  <2>2. conn[x].st = "connecting" /\ inbox' = inbox
    BY <1>5 DEF LocalConnects, LocalConnectFails, client
  <2>3. /\ conn'[x].st = st /\ conn'[x].to = conn[x].to /\ conn'[x].target = conn[x].target
        /\ conn'[x].host = conn[x].host /\ conn'[x].port = conn[x].port
        /\ \A y \in Conns \ {x} : conn'[y] = conn[y]
    BY <2>1, ConnFacts DEF ConnStates
  <2>4. ConnOf(x)' /\ HasTarget(x)'
    BY <1>a, <1>k, <2>2, <2>3
  <2>5. \A n \in DOMAIN inbox' : inbox'[n] \in Conns => conn'[inbox'[n]].st # "none"
    BY <1>s, <2>1, <2>2, <2>3
  <2> QED BY <1>d, <2>1, <2>3, <2>4, <2>5
<1>6. ASSUME NEW kind \in Strange, PeerOpensStrange(kind) PROVE ConnInv'
  <2>1. inbox' = Append(inbox, kind) /\ conn' = conn
    BY <1>6 DEF PeerOpensStrange
  <2>2. kind \notin Conns
    BY ForwardsAssumption
  <2>3. ASSUME NEW n \in DOMAIN inbox'
        PROVE  inbox'[n] = kind \/ (n \in DOMAIN inbox /\ inbox'[n] = inbox[n])
    BY <1>h, <2>1, <2>3
  <2> QED BY <1>d, <1>s, <2>1, <2>2, <2>3
<1>j. ASSUME conn' = IF loop' = "left" THEN TasksDropped ELSE conn,
             \A n \in DOMAIN inbox' : inbox'[n] \in Conns => conn'[inbox'[n]].st # "none"
      PROVE  ConnInv'
  <2>1. CASE conn' = conn
    BY <1>d, <1>j, <2>1
  <2>2. CASE conn' = TasksDropped
    <3>1. ASSUME NEW x \in Conns
          PROVE  \/ conn'[x] = conn[x]
                 \/ /\ conn[x].st = "connecting" /\ conn'[x].st = "dropped"
                    /\ conn'[x].to = conn[x].to /\ conn'[x].host = conn[x].host
                    /\ conn'[x].port = conn[x].port
      BY <1>h, <2>2, <3>1 DEF TasksDropped, ConnRecords
    <3>2. ASSUME NEW x \in Conns, conn'[x] # conn[x]
          PROVE  ConnOf(x)' /\ conn'[x].st = "dropped"
      BY <1>k, <3>1, <3>2
    <3>3. ASSUME NEW x \in Conns, conn'[x].st # "none"
          PROVE  \/ conn'[x] = conn[x]
                 \/ /\ ConnOf(x)'
                    /\ conn'[x].st \in {"connecting", "confirmed"} => HasTarget(x)'
                    /\ conn'[x].st = "unmatched" => HasNone(x)'
      BY <3>2
    <3> QED BY <1>d, <1>j, <3>3
  <2> QED BY <1>j, <2>1, <2>2
<1>7. ASSUME NEW kind \in Strange, HandleStrange(kind) PROVE ConnInv'
  <2>1. /\ inbox # <<>> /\ inbox' = Tail(inbox)
        /\ conn' = IF loop' = "left" THEN TasksDropped ELSE conn
    BY <1>7 DEF HandleStrange, AtHead
  <2>2. \A y \in Conns : conn[y].st # "none" => conn'[y].st # "none"
    BY <1>h, <2>1 DEF TasksDropped, ConnRecords
  <2> QED BY <1>j, <1>t2, <2>1, <2>2
<1>8. ASSUME AcceptForwardedChannels PROVE ConnInv'
  BY <1>1, <1>8 DEF AcceptForwardedChannels
<1>12. ASSUME PeerClosesStrange PROVE ConnInv'
  <2>1. /\ inbox' = inbox /\ conn' = IF loop' = "left" THEN TasksDropped ELSE conn
    BY <1>12 DEF PeerClosesStrange
  <2>2. \A y \in Conns : conn[y].st # "none" => conn'[y].st # "none"
    BY <1>h, <2>1 DEF TasksDropped, ConnRecords
  <2> QED BY <1>j, <1>s, <2>1, <2>2
<1>9. ASSUME LoopEnds PROVE ConnInv'
  <2>1. inbox' = <<>> /\ \A x \in Conns :
          conn'[x] = IF conn[x].st \in {"accepted", "opened", "connecting"}
                     THEN [conn[x] EXCEPT !.st = "dropped"] ELSE conn[x]
    BY <1>9 DEF LoopEnds
  <2>2. ASSUME NEW x \in Conns, conn[x].st \in {"accepted", "opened", "connecting"}
        PROVE  /\ conn'[x].st = "dropped" /\ conn'[x].to = conn[x].to
               /\ conn'[x].host = conn[x].host /\ conn'[x].port = conn[x].port
    BY <1>h, <2>1, <2>2 DEF ConnRecords
  <2>3. ASSUME NEW x \in Conns, conn[x].st \in {"accepted", "opened", "connecting"}
        PROVE  ConnOf(x)' /\ conn'[x].st = "dropped"
    BY <1>k, <2>2, <2>3
  <2>4. \A n \in DOMAIN inbox' : inbox'[n] \in Conns => conn'[inbox'[n]].st # "none"
    BY <2>1
  <2>5. ASSUME NEW x \in Conns, conn'[x].st # "none"
        PROVE  \/ conn'[x] = conn[x]
               \/ /\ ConnOf(x)'
                  /\ conn'[x].st \in {"connecting", "confirmed"} => HasTarget(x)'
                  /\ conn'[x].st = "unmatched" => HasNone(x)'
    BY <2>1, <2>3
  <2> QED BY <1>d, <2>4, <2>5
<1>10. ASSUME NEW i \in Args, RequestAnswered(i) PROVE ConnInv'
  BY <1>1, <1>10 DEF RequestAnswered
<1>11. ASSUME UNCHANGED <<client, conn>> PROVE ConnInv'
  BY <1>1, <1>11 DEF client
<1> QED BY <1>2, <1>3, <1>4, <1>5, <1>6, <1>7, <1>8, <1>9, <1>10, <1>11, <1>12, ClientSteps
        DEF ConnStep, StrangeStep
-----------------------------------------------------------------------------
IInv == TypeInv /\ ArgInv /\ ListenInv /\ FileInv /\ MapInv /\ ConnInv

(* The six parts hold in every state; each step of the arguments, the      *)
(* requests, the listeners and the accept loop preserves them together.    *)
THEOREM Invariance == Spec => []IInv
<1>1. Init => IInv
  <2> SUFFICES ASSUME Init PROVE IInv
    OBVIOUS
  <2>1. TypeInv /\ ArgInv
    BY TypeInit
  <2>2. /\ files = {} /\ established = <<>> /\ mappings = <<>> /\ inbox = <<>>
        /\ phase = "args"
    BY DEF Init
  <2>3. \A i \in Args : listener[i].addrs = {} /\ listener[i].st = "none" /\ req[i].st = "idle"
    BY <2>1, <2>2 DEF ArgInv
  <2>4. \A x \in Conns : conn[x].st = "none"
    BY DEF Init
  <2>5. ListenInv
    BY <2>3 DEF ListenInv, Own, Apart, Live, Granted
  <2>6. FileInv
    <3>1. \A i \in Args : ~Live(i)
      BY <2>3 DEF Live
    <3>2. FilesHaveListeners
      BY <2>2 DEF FilesHaveListeners
    <3> QED BY <3>1, <3>2 DEF FileInv, Live, IsUnix
  <2>7. MapInv
    BY <2>2 DEF MapInv
  <2>8. ConnInv
    BY <2>2, <2>4 DEF ConnInv
  <2> QED BY <2>1, <2>5, <2>6, <2>7, <2>8 DEF IInv
<1>2. IInv /\ [Next]_vars => IInv'
  BY TypeStep, ArgStepHolds, ListenStep, FileStep, MapStep, ConnInvStep DEF IInv
<1> QED BY <1>1, <1>2, PTL DEF Spec

(* Whatever the arguments are, those that the program accepts mean what    *)
(* the doc comments of spec.rs say of their form, and only that.           *)
THEOREM ArgumentsAreReadAsDocumented == Spec => []ArgsMeanTheirForms
<1>1. IInv => ArgsMeanTheirForms
  <2> SUFFICES ASSUME IInv, NEW i \in Given
               PROVE  /\ FromStr(cmd[i].opt, cmd[i].fields) = DocReadings(cmd[i].opt, cmd[i].fields)
                      /\ Cardinality(DocReadings(cmd[i].opt, cmd[i].fields)) <= 1
    BY DEF ArgsMeanTheirForms
  <2>1. cmd[i].opt \in {"-L", "-R", "-D"} /\ cmd[i].fields \in Seq(FieldValues)
    BY CmdFacts DEF IInv, TypeInv, Given
  <2> QED BY <2>1, ArgumentsMeanTheirForms, Zenon
<1> QED BY <1>1, Invariance, PTL

(* UnixSocketGuard leaves no socket file behind a listener that stopped:   *)
(* what remains is the file of a request whose answer was lost.            *)
THEOREM FilesBelongToListeners == Spec => []FilesHaveListeners
<1>1. IInv => FilesHaveListeners
  BY DEF IInv, FileInv
<1> QED BY <1>1, Invariance, PTL

(* Forwards with whole listeners have different keys, for any number of    *)
(* them: the key by which accept_forwarded_channels looks its target up    *)
(* then names one forward.                                                 *)
THEOREM WholeListenersHaveTheirOwnKeys == Spec => []SameKeyMeansOneStopped
<1>1. IInv => SameKeyMeansOneStopped
  <2> SUFFICES ASSUME IInv, NEW i \in Args, NEW j \in Args, i # j,
                      WholeListener(i), WholeListener(j), Key(i) = Key(j)
               PROVE  FALSE
    BY DEF SameKeyMeansOneStopped
  <2>0. TypeInv /\ ArgInv /\ ListenInv /\ FileInv
    BY DEF IInv
  <2>1. Live(i) /\ Live(j)
    BY DEF WholeListener
  <2>2. /\ Granted(i) /\ listener[i].port = req[i].port /\ listener[i].host = BoundHost(i)
        /\ Granted(j) /\ listener[j].port = req[j].port /\ listener[j].host = BoundHost(j)
        /\ ~IsUnix(i) => listener[i].addrs # {}
    BY <2>0, <2>1 DEF ListenInv, Own
  <2>3. /\ spec[i].bind.type = spec[j].bind.type /\ req[i].port = req[j].port
        /\ CanonicalizeRemoteBindHost(spec[i].bind.host) = CanonicalizeRemoteBindHost(spec[j].bind.host)
    BY DEF Key
  <2>4. req[i].st # "idle" /\ req[j].st # "idle"
    BY <2>2 DEF Granted
  <2>5. CASE IsUnix(i)
    <3>1. IsUnix(j)
      BY <2>3, <2>5 DEF IsUnix
    <3>2. spec[i].bind.host \notin {"", "*"} /\ spec[j].bind.host \notin {"", "*"}
      BY <2>0, <2>4, <2>5, <3>1, SpecFacts
    <3>3. spec[i].bind.host = spec[j].bind.host
      BY <2>3, <3>2, CanonFacts
    <3> QED BY <2>0, <2>1, <2>5, <3>1, <3>3 DEF FileInv
  <2>6. CASE ~IsUnix(i)
    <3>1. ~IsUnix(j)
      BY <2>3, <2>6 DEF IsUnix
    <3>2. listener[i].host = listener[j].host /\ listener[i].port = listener[j].port
      BY <2>2, <2>3, <2>6, <3>1 DEF BoundHost
    <3>3. listener[i].addrs = listener[j].addrs
      BY <2>6, <3>1, <3>2 DEF WholeListener
    <3>4. PICK a \in listener[i].addrs : TRUE
      BY <2>2, <2>6
    <3>5. ~Clash(a, a)
      BY <2>0, <3>2, <3>3, <3>4 DEF ListenInv, Apart
    <3> QED BY <3>5 DEF Clash
  <2> QED BY <2>5, <2>6
<1> QED BY <1>1, Invariance, PTL

(* A connection to a remote listener reaches the target of the argument    *)
(* the listener is for, or is refused for want of a mapping or of a        *)
(* target, unless another forward has the same key.                        *)
THEOREM ConnectionsReachTheirTargets == Spec => []RightTarget
<1>1. IInv => RightTarget
  <2> SUFFICES ASSUME IInv PROVE RightTarget
    OBVIOUS
  <2>0. TypeInv /\ ArgInv /\ ListenInv /\ ConnInv
    BY DEF IInv
  <2>1. TypeOK
    <3>1. ASSUME NEW i \in Args
          PROVE  /\ req[i].st \in ReqStates /\ req[i].port \in 0..PortLimit - 1
                 /\ listener[i].st \in {"none", "live", "stopped"}
                 /\ listener[i].addrs \subseteq Addresses
                 /\ listener[i].st = "live" /\ ~IsUnix(i) => listener[i].addrs # {}
      BY <2>0 DEF TypeInv, ListenerRecords, ListenInv, Own, Live
    <3>2. \A x \in Conns : conn[x].st \in ConnStates
      BY <2>0 DEF TypeInv, ConnRecords
    <3> QED BY <2>0, <3>1, <3>2 DEF TypeOK, TypeInv
  <2>2. ASSUME NEW x \in Conns, conn[x].st # "none", ~SharesKey(conn[x].to)
        PROVE  /\ conn[x].st \in {"connecting", "confirmed"} =>
                    \E r \in DocReadings("-R", cmd[conn[x].to].fields) :
                      r.connect = conn[x].target /\ r.connect # NoEndpoint
               /\ conn[x].st = "unmatched" =>
                    \/ spec[conn[x].to].connect = NoEndpoint
                    \/ \A m \in Range(mappings) : m.arg # conn[x].to
    <3>1. PICK i : i = conn[x].to
      OBVIOUS
    <3>2. i \in Args /\ Granted(i)
      BY <2>0, <2>2, <3>1 DEF ConnInv, ConnOf
    <3>3. \A j \in Args : Granted(j) /\ Key(j) = Key(i) => j = i
      BY <2>2, <3>1 DEF SharesKey
    <3>4. ASSUME conn[x].st \in {"connecting", "confirmed"}
          PROVE  \E r \in DocReadings("-R", cmd[i].fields) :
                   r.connect = conn[x].target /\ r.connect # NoEndpoint
      <4>1. conn[x].target = spec[i].connect /\ conn[x].target # NoEndpoint
        BY <2>0, <2>2, <3>1, <3>3, <3>4 DEF ConnInv, HasTarget
      <4>2. req[i].st # "idle"
        BY <3>2 DEF Granted
      <4>3. spec[i] \in FromStr("-R", cmd[i].fields)
        BY <2>0, <3>2, <4>2, SpecFacts
      <4>4. cmd[i].fields \in Seq(FieldValues)
        BY <2>0, <3>2, CmdFacts DEF TypeInv
      <4>5. FromStr("-R", cmd[i].fields) = DocReadings("-R", cmd[i].fields)
        BY <4>4, ArgumentsMeanTheirForms
      <4> QED BY <4>1, <4>3, <4>5
    <3>5. ASSUME conn[x].st = "unmatched"
          PROVE  \/ spec[i].connect = NoEndpoint
                 \/ \A m \in Range(mappings) : m.arg # i
      <4>1. HasNone(x)
        BY <2>0, <2>2, <3>5 DEF ConnInv
      <4>2. CASE \A n \in DOMAIN mappings : mappings[n].arg # i
        BY <4>2 DEF Range
      <4>3. CASE \E j \in Args : Granted(j) /\ Key(j) = Key(i) /\ spec[j].connect = NoEndpoint
        BY <3>3, <4>3
      <4> QED BY <3>1, <4>1, <4>2, <4>3 DEF HasNone
    <3> QED BY <3>1, <3>4, <3>5
  <2> QED BY <2>1, <2>2 DEF RightTarget
<1> QED BY <1>1, Invariance, PTL
=============================================================================
