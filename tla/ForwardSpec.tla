----------------------------- MODULE ForwardSpec -----------------------------
(***************************************************************************)
(* The -L, -R and -D arguments of src/src/forward/spec.rs: the PEG rules   *)
(* that read them, and the forms their doc comments promise.               *)
(*                                                                         *)
(* An argument is the sequence of its fields, cut at the colons outside    *)
(* brackets.  A field keeps what the rules can tell apart: its kind, its   *)
(* text and, for digits, its value.  A rule maps the fields still to be    *)
(* read to the set of its matches, which is empty or a singleton, as a PEG *)
(* rule matches in one way at most.                                        *)
(***************************************************************************)
EXTENDS Naturals, Sequences, FiniteSets

CONSTANTS
  PortLimit,      (* 2^16: the first number that is no port               *)
  LoopbackHost,   (* CANONICAL_REMOTE_LOOPBACK_HOST                       *)
  LocalHost       (* the default bind address of -L and -D                *)

ASSUME SpecAssumption ==
  PortLimit \in Nat \ {0} /\ LoopbackHost \in STRING \ {""} /\ LocalHost \in STRING \ {""}

FieldKinds == {"digits", "name", "star", "path", "bracketed", "empty"}
FieldValues == [kind : FieldKinds, text : STRING, num : Nat]

Tcp(host, port) == [type |-> "tcp", host |-> host, port |-> port]
Unix(path) == [type |-> "unix", host |-> path, port |-> 0]
NoEndpoint == [type |-> "none", host |-> "", port |-> 0]

(* The ordered choice of PEG: the first alternative that matches. *)
FirstOf(alternatives) ==
  LET matching == {i \in DOMAIN alternatives : alternatives[i] # {}}
  IN IF matching = {} THEN {}
     ELSE alternatives[CHOOSE i \in matching : \A j \in matching : i <= j]

(* A rule that takes one field, and what is made of it. *)
Field(s, kinds) ==
  IF s # <<>> /\ Head(s).kind \in kinds THEN {[val |-> Head(s), rest |-> Tail(s)]} ELSE {}
Text(matches) == {[val |-> m.val.text, rest |-> m.rest] : m \in matches}

UnixPath(s) == {[val |-> Unix(m.val.text), rest |-> m.rest] : m \in Field(s, {"path"})}
Port(s) == {[val |-> m.val.num, rest |-> m.rest] :
              m \in {d \in Field(s, {"digits"}) : d.val.num < PortLimit}}
Hostname(s) == Text(Field(s, {"digits", "name", "star"}))
BracketedIpv6(s) == Text(Field(s, {"bracketed"}))
Star(s) == {[val |-> "", rest |-> m.rest] : m \in Field(s, {"star"})}

(* A host read by one rule, and a port. *)
HostPort(hosts) ==
  UNION {{[val |-> Tcp(h.val, p.val), rest |-> p.rest] : p \in Port(h.rest)} : h \in hosts}
PortAlone(default, s) ==
  {[val |-> Tcp(default, p.val), rest |-> p.rest] : p \in Port(s)}

ConnectEndpoint(s) ==
  FirstOf(<<UnixPath(s), HostPort(BracketedIpv6(s)), HostPort(Hostname(s))>>)

To(binds) ==
  UNION {{[val |-> [bind |-> b.val, connect |-> c.val], rest |-> c.rest] :
            c \in ConnectEndpoint(b.rest)} : b \in binds}
ListenOnly(binds) ==
  {[val |-> [bind |-> b.val, connect |-> NoEndpoint], rest |-> b.rest] : b \in binds}

LocalForward(s) ==
  FirstOf(<<To(UnixPath(s)), To(HostPort(BracketedIpv6(s))), To(HostPort(Star(s))),
            To(HostPort(Hostname(s))), To(PortAlone(LocalHost, s))>>)

(* Mutant: the listen-only forms are tried first. *)
RemoteForward_ListenOnlyFirst(s) ==
  FirstOf(<<ListenOnly(HostPort(BracketedIpv6(s))), ListenOnly(HostPort(Star(s))),
            ListenOnly(HostPort(Hostname(s))), ListenOnly(PortAlone(LoopbackHost, s)),
            To(UnixPath(s)), To(HostPort(BracketedIpv6(s))), To(HostPort(Star(s))),
            To(HostPort(Hostname(s))), To(PortAlone(LoopbackHost, s))>>)

RemoteForward(s) ==
  FirstOf(<<To(UnixPath(s)), To(HostPort(BracketedIpv6(s))), To(HostPort(Star(s))),
            To(HostPort(Hostname(s))), To(PortAlone(LoopbackHost, s)),
            ListenOnly(HostPort(BracketedIpv6(s))), ListenOnly(HostPort(Star(s))),
            ListenOnly(HostPort(Hostname(s))), ListenOnly(PortAlone(LoopbackHost, s))>>)

DynamicForward(s) ==
  ListenOnly(FirstOf(<<HostPort(BracketedIpv6(s)), HostPort(Star(s)), HostPort(Hostname(s)),
                       PortAlone(LocalHost, s)>>))

(* from_str: the rule must have read the whole argument. *)
FromStr(opt, s) ==
  {m.val : m \in {r \in (CASE opt = "-L" -> LocalForward(s)
                           [] opt = "-R" -> RemoteForward(s)
                           [] opt = "-D" -> DynamicForward(s)) : r.rest = <<>>}}
-----------------------------------------------------------------------------
(* The forms of the doc comments, each on its own and in no order: what an *)
(* argument can mean.  A form is a way to split the fields into a bind     *)
(* part and a connect part.                                                *)
IsPort(f) == f.kind = "digits" /\ f.num < PortLimit
IsHost(f) == f.kind \in {"digits", "name", "star", "bracketed"}
BindHost(f) == IF f.kind = "star" THEN "" ELSE f.text

DocBind(opt, s) ==
  CASE Len(s) = 1 /\ IsPort(s[1]) ->
         {Tcp(IF opt = "-R" THEN LoopbackHost ELSE LocalHost, s[1].num)}
    [] Len(s) = 1 /\ s[1].kind = "path" -> {Unix(s[1].text)}
    [] Len(s) = 2 /\ IsHost(s[1]) /\ IsPort(s[2]) -> {Tcp(BindHost(s[1]), s[2].num)}
    [] OTHER -> {}

DocConnect(s) ==
  CASE Len(s) = 1 /\ s[1].kind = "path" -> {Unix(s[1].text)}
    [] Len(s) = 2 /\ IsHost(s[1]) /\ IsPort(s[2]) -> {Tcp(s[1].text, s[2].num)}
    [] OTHER -> {}

(* [bind_address:]port alone is a form of -R and -D, the others of -L and  *)
(* of -R.                                                                  *)
DocReadings(opt, s) ==
  (IF opt = "-D" THEN {} ELSE
     UNION {{[bind |-> b, connect |-> c] : b \in DocBind(opt, SubSeq(s, 1, n)),
                                           c \in DocConnect(SubSeq(s, n + 1, Len(s)))} :
              n \in 1..Len(s)})
  \cup (IF opt = "-L" THEN {} ELSE
          {[bind |-> b, connect |-> NoEndpoint] : b \in {e \in DocBind(opt, s) : e.type = "tcp"}})
=============================================================================
