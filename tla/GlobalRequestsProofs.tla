------------------------- MODULE GlobalRequestsProofs -------------------------
(***************************************************************************)
(* Proofs about GlobalRequests used one way, as dssh does: the calls are   *)
(* made at the client and accepted at the server.  Any number of requests, *)
(* notices and acceptors; calls that are dropped or do not decode while    *)
(* they have the reader, requests that are dropped, poison and loss.       *)
(***************************************************************************)
EXTENDS GlobalRequests, Integers, TLAPS

OneWay ==
  /\ \A c \in Calls : Home[c] = "client"
  /\ \A a \in Acceptors : Home[a] = "server"

(* The two ends and the two directions of the stream. *)
C == conv["client"]
S == conv["server"]
Asks == stream["client"]
Answers == stream["server"]
Pc(t) == task[t].pc
W(t) == task[t].writeTicket
T(t) == task[t].readTicket
Call(t) == task[t].call

Ask(q)    == [kind |-> "request", call |-> q]
Note(n)   == [kind |-> "notice", call |-> n]
Reply(v)  == [kind |-> v, call |-> None]
AskAt(n, q)   == n \in 1..Len(Asks) /\ Asks[n] = Ask(q)
ReplyAt(n, v) == n \in 1..Len(Answers) /\ Answers[n] = Reply(v)

HasTicket(q) == Pc(q) \notin {"idle", "pair"}
Sent(q)      == Pc(q) \notin {"idle", "pair", "to_write"}

(* What may be where: nobody but a request waits for an answer, and nobody *)
(* but an acceptor reads the stream of the client.                         *)
PcInv ==
  /\ \A q \in Requests :
       Pc(q) \in {"idle", "pair", "to_write", "to_read", "looking", "reading"} \cup Ended
  /\ \A n \in Notices : Pc(n) \in {"idle", "to_write", "sent", "broken", "poisoned"}
  /\ \A a \in Acceptors :
       /\ Pc(a) \in {"idle", "to_read", "looking", "reading", "header", "decoded",
                     "to_write", "failed"}
       /\ Pc(a) = "header" => Call(a) \in Calls
       /\ Pc(a) \in {"decoded", "to_write"} => Call(a) \in Requests
AsksInv ==
  \A n \in 1..Len(Asks) :
       \/ \E q \in Requests : Asks[n] = Ask(q)
       \/ \E c \in Notices : Asks[n] = Note(c)
       \/ Asks[n] = Reply("residue")
RepliesInv ==
  \A n \in 1..Len(Answers) :
    \E v \in {"success", "failure", "residue"} : Answers[n] = Reply(v)
PlaceInv == PcInv /\ AsksInv /\ RepliesInv

(* ticket_pair_lock gives the two tickets of a request in one order.       *)
TicketInv ==
  /\ \A c \in Calls : Pc(c) # "idle" => W(c) < C.writeNext
  /\ \A c, d \in Calls : Pc(c) # "idle" /\ Pc(d) # "idle" /\ W(c) = W(d) => c = d
  /\ \A q \in Requests : Pc(q) = "pair" <=> C.pairLock = q
  /\ \A q, r \in Requests : Pc(q) = "pair" /\ HasTicket(r) => W(r) < W(q)
  /\ \A q, r \in Requests : HasTicket(q) /\ HasTicket(r) /\ T(q) = T(r) => q = r
  /\ \A q, r \in Requests : HasTicket(q) /\ HasTicket(r) /\ T(q) < T(r) => W(q) < W(r)
  /\ \A q \in Requests : HasTicket(q) => T(q) < C.readNext
  /\ \A k \in Nat : k < C.readNext => \E q \in Requests : HasTicket(q) /\ T(q) = k

(* The calls have the client's writer in the order of their tickets, and   *)
(* until the connection is lost each of them sends its message.            *)
SendInv ==
  /\ C.autoFailures = {}
  /\ C.poisoned => down
  /\ \A c \in Calls : Pc(c) \in {"pair", "to_write"} => C.writeServing <= W(c)
  /\ C.writeServing <= C.writeNext
  /\ ~down => \A q \in Requests : Sent(q) => W(q) < C.writeServing

(* The requests under way are those with the read tickets from the number  *)
(* of requests the server has accepted, in that order and none left out.   *)
AskInv ==
  /\ \A n \in Nat, q \in Requests :
       AskAt(n, q) => HasTicket(q) /\ S.writeNext <= T(q) /\ (~down => Sent(q))
  /\ \A n, m \in Nat, q, r \in Requests : AskAt(n, q) /\ AskAt(m, r) /\ n < m => T(q) < T(r)
  /\ \A n \in Nat, q \in Requests : AskAt(n, q) =>
       \A k \in Nat : S.writeNext <= k /\ k < T(q) =>
         \E m \in Nat, r \in Requests : m < n /\ AskAt(m, r) /\ T(r) = k
  /\ ~down => \A q \in Requests : HasTicket(q) /\ T(q) < S.writeNext => Sent(q)
  /\ ~down => \A q \in Requests : Sent(q) /\ S.writeNext <= T(q) => \E m \in Nat : AskAt(m, q)
  /\ S.writeNext <= C.readNext

(* The server's write ticket of a request it has accepted is the client's  *)
(* read ticket; it is in the hands of one acceptor, or an auto-failure.    *)
Owes(a) == Pc(a) \in {"header", "decoded", "to_write"} /\ Call(a) \in Requests
OweInv ==
  /\ \A a \in Acceptors : Owes(a) =>
       /\ HasTicket(Call(a)) /\ W(a) = T(Call(a))
       /\ S.writeServing <= W(a) /\ W(a) < S.writeNext
       /\ Pc(a) = "to_write" => verdict[Call(a)] \in {"success", "failure"}
  /\ \A a, b \in Acceptors : Owes(a) /\ Owes(b) /\ W(a) = W(b) => a = b
  /\ \A k \in S.autoFailures :
       /\ S.writeServing <= k /\ k < S.writeNext
       /\ \A a \in Acceptors : Owes(a) => W(a) # k
       /\ \A q \in Requests : HasTicket(q) /\ T(q) = k => verdict[q] = "failure"
  /\ S.writeServing <= S.writeNext

(* The answers under way are those to the requests from the one whose turn *)
(* it is to read, as long as no call gave the reader back with its answer  *)
(* unread.  When it is the turn of a call that has none of those before    *)
(* it, there are none: they all had their turn.                            *)
Whole == \A q \in Requests : Pc(q) \notin GaveUp
FlowInv ==
  /\ \A n \in 1..Len(Answers) :
       C.readServing + n - 1 < S.writeServing /\ Answers[n] # Reply("residue")
  /\ \A n \in 1..Len(Answers), q \in Requests :
       HasTicket(q) /\ T(q) = C.readServing + n - 1 => Answers[n] = Reply(verdict[q])
  /\ ~down => C.readServing + Len(Answers) = S.writeServing
AnswerInv ==
  /\ Whole => FlowInv
  /\ \A q \in Requests : Pc(q) = "reading" => T(q) = C.readServing
  /\ \A q \in Requests : Pc(q) \in GaveUp => T(q) < C.readServing
  /\ \A q \in Requests :
       InOrder(q) /\ Pc(q) \in {"ok", "rejected"} => T(q) < S.writeServing
  /\ OutcomeIsVerdict

Inv == TypeOK /\ PlaceInv /\ TicketInv /\ SendInv /\ AskInv /\ OweInv /\ AnswerInv

(* With one acceptor, what is left of a message is read by nobody. *)
OneAcceptor == \A a, b \in Acceptors : a = b
ResidueInv ==
  \A n \in 1..Len(Asks) : Asks[n] = Reply("residue") => \A a \in Acceptors : Pc(a) = "failed"
-----------------------------------------------------------------------------
(* What each action does, seen from the two ends. *)
ConvRecord == [writeNext : Nat, writeServing : Nat, readNext : Nat,
               readServing : Nat, pairLock : Requests \cup {None},
               autoFailures : SUBSET Nat, poisoned : BOOLEAN]
TaskRecord == [pc : Steps, writeTicket : Nat, readTicket : Nat, call : Calls \cup {None}]

LEMMA Ends ==
  /\ Peer("client") = "server" /\ Peer("server") = "client"
  /\ "client" \in Endpoints /\ "server" \in Endpoints
<1>1. \A f \in Endpoints : f # "client" <=> f = "server"
  BY DEF Endpoints
<1>2. \A f \in Endpoints : f # "server" <=> f = "client"
  BY DEF Endpoints
<1> QED BY <1>1, <1>2 DEF Peer, Endpoints

LEMMA Roles ==
  ASSUME OneWay
  PROVE  /\ \A c \in Calls : c \in Tasks /\ c \notin Acceptors /\ Home[c] = "client"
         /\ \A a \in Acceptors : a \in Tasks /\ a \notin Calls /\ a \notin Requests
                                 /\ Home[a] = "server"
         /\ \A q \in Requests : q \in Calls /\ q \notin Notices
         /\ \A t \in Tasks : t \in Calls \/ t \in Acceptors
         /\ \A c \in Calls : c \in Requests \/ c \in Notices
         /\ \A c \in Notices : c \in Calls /\ c \notin Requests
         /\ \A t \in Tasks : t # None
BY GlobalAssumption DEF OneWay, Tasks, Calls

(* What the types say of the parts. *)
LEMMA Types ==
  ASSUME TypeOK
  PROVE  /\ C \in ConvRecord /\ S \in ConvRecord
         /\ Asks \in Seq(Message) /\ Answers \in Seq(Message)
         /\ \A t \in Tasks : /\ Pc(t) \in Steps /\ W(t) \in Nat /\ T(t) \in Nat
                             /\ Call(t) \in Calls \cup {None}
BY Ends DEF TypeOK, C, S, Asks, Answers, Pc, W, T, Call, ConvRecord

SameTask(u) == Pc(u)' = Pc(u) /\ W(u)' = W(u) /\ T(u)' = T(u) /\ Call(u)' = Call(u)
Others(t) == \A u \in Tasks : u # t => SameTask(u)
Becomes(t, pc, w, r, call) ==
  /\ Pc(t)' = pc /\ W(t)' = w /\ T(t)' = r /\ Call(t)' = call /\ Others(t)
  /\ task' \in [Tasks -> TaskRecord]

ClientIs(wn, ws, rn, rs, lock, auto, pois) ==
  /\ C'.writeNext = wn /\ C'.writeServing = ws /\ C'.readNext = rn /\ C'.readServing = rs
  /\ C'.pairLock = lock /\ C'.autoFailures = auto /\ C'.poisoned = pois
SameClient ==
  ClientIs(C.writeNext, C.writeServing, C.readNext, C.readServing, C.pairLock, C.autoFailures,
           C.poisoned)
ServerIs(wn, ws, auto) ==
  S'.writeNext = wn /\ S'.writeServing = ws /\ S'.autoFailures = auto
SameServer == ServerIs(S.writeNext, S.writeServing, S.autoFailures)

LEMMA Becoming ==
  ASSUME TypeOK, NEW t \in Tasks, NEW r \in TaskRecord, task' = [task EXCEPT ![t] = r]
  PROVE  Becomes(t, r.pc, r.writeTicket, r.readTicket, r.call)
BY DEF TypeOK, Becomes, Others, SameTask, Pc, W, T, Call, TaskRecord

LEMMA Going ==
  ASSUME TypeOK, NEW t \in Tasks, NEW step \in Steps, Goto(t, step)
  PROVE  Becomes(t, step, W(t), T(t), Call(t))
<1> DEFINE r == [task[t] EXCEPT !.pc = step]
<1>1. task[t] \in TaskRecord
  BY DEF TypeOK, TaskRecord
<1>2. r \in TaskRecord /\ r.pc = step /\ r.writeTicket = task[t].writeTicket
      /\ r.readTicket = task[t].readTicket /\ r.call = task[t].call
  BY <1>1 DEF TaskRecord
<1>3. task' = [task EXCEPT ![t] = r]
  BY DEF Goto
<1> HIDE DEF r
<1> QED BY <1>2, <1>3, Becoming DEF W, T, Call

LEMMA ClientSet ==
  ASSUME TypeOK, NEW t, Home[t] = "client", NEW c, SetConv(t, c)
  PROVE  C' = c /\ SameServer
BY Ends DEF TypeOK, SetConv, C, S, SameServer, ServerIs

LEMMA ServerSet ==
  ASSUME TypeOK, NEW t, Home[t] = "server", NEW c, SetConv(t, c)
  PROVE  S' = c /\ SameClient
BY Ends DEF TypeOK, SetConv, C, S, SameClient, ClientIs

LEMMA SameEnds ==
  ASSUME TypeOK, UNCHANGED conv
  PROVE  SameClient /\ SameServer
BY DEF SameClient, SameServer, ClientIs, ServerIs, C, S

LEMMA Streams ==
  ASSUME TypeOK, NEW t
  PROVE  /\ Home[t] = "client" =>
              /\ Inbox(t) = Answers
              /\ \A k, c : Put(t, k, c) =>
                   Asks' = Append(Asks, [kind |-> k, call |-> c]) /\ Answers' = Answers
              /\ Take(t) => Asks' = Asks /\ Answers' = Tail(Answers)
              /\ \A rest : Leave(t, rest) =>
                   Asks' = Asks /\ Answers' = <<Reply("residue")>> \o rest
         /\ Home[t] = "server" =>
              /\ Inbox(t) = Asks
              /\ \A k, c : Put(t, k, c) =>
                   Asks' = Asks /\ Answers' = Append(Answers, [kind |-> k, call |-> c])
              /\ Take(t) => Asks' = Tail(Asks) /\ Answers' = Answers
              /\ \A rest : Leave(t, rest) =>
                   Asks' = <<Reply("residue")>> \o rest /\ Answers' = Answers
BY Ends DEF TypeOK, Inbox, Put, Take, Leave, Asks, Answers, Reply

LEMMA SameStreams ==
  ASSUME UNCHANGED stream
  PROVE  Asks' = Asks /\ Answers' = Answers
BY DEF Asks, Answers
-----------------------------------------------------------------------------
Same == UNCHANGED <<down, verdict>> /\ Asks' = Asks /\ Answers' = Answers

LEMMA TakeWriteTicketDoes ==
  ASSUME OneWay, TypeOK, NEW q \in Tasks, TakeWriteTicket(q)
  PROVE  /\ q \in Requests /\ Pc(q) = "idle" /\ C.pairLock = None
         /\ Becomes(q, "pair", C.writeNext, T(q), Call(q))
         /\ ClientIs(C.writeNext + 1, C.writeServing, C.readNext, C.readServing, q,
                     C.autoFailures, C.poisoned)
         /\ SameServer /\ Same
<1>0. q \in Requests /\ Home[q] = "client" /\ Here(q) = C /\ C \in ConvRecord
  BY Roles, Types DEF TakeWriteTicket, Here, C
<1> DEFINE r == [task[q] EXCEPT !.pc = "pair", !.writeTicket = C.writeNext]
           c == [C EXCEPT !.writeNext = @ + 1, !.pairLock = q]
<1>1. task[q] \in TaskRecord
  BY DEF TypeOK, TaskRecord
<1>2. r \in TaskRecord /\ r.pc = "pair" /\ r.writeTicket = C.writeNext
      /\ r.readTicket = task[q].readTicket /\ r.call = task[q].call
  BY <1>0, <1>1 DEF TaskRecord, ConvRecord, Steps
<1>3. task' = [task EXCEPT ![q] = r] /\ SetConv(q, c) /\ C.pairLock = None
  BY <1>0 DEF TakeWriteTicket
<1>4. /\ c.writeNext = C.writeNext + 1 /\ c.writeServing = C.writeServing
      /\ c.readNext = C.readNext /\ c.readServing = C.readServing /\ c.pairLock = q
      /\ c.autoFailures = C.autoFailures /\ c.poisoned = C.poisoned
  BY <1>0 DEF ConvRecord
<1> HIDE DEF r, c
<1>5. Becomes(q, "pair", C.writeNext, T(q), Call(q))
  BY <1>2, <1>3, Becoming DEF T, Call
<1>6. C' = c /\ SameServer
  BY <1>0, <1>3, ClientSet
<1>7. Same /\ Pc(q) = "idle"
  BY SameStreams DEF TakeWriteTicket, Same, At, Pc
<1> QED BY <1>0, <1>3, <1>4, <1>5, <1>6, <1>7 DEF ClientIs

LEMMA TakeReadTicketDoes ==
  ASSUME OneWay, TypeOK, PlaceInv, NEW q \in Tasks, TakeReadTicket(q)
  PROVE  /\ q \in Requests /\ Pc(q) = "pair"
         /\ Becomes(q, "to_write", W(q), C.readNext, Call(q))
         /\ ClientIs(C.writeNext, C.writeServing, C.readNext + 1, C.readServing, None,
                     C.autoFailures, C.poisoned)
         /\ SameServer /\ Same
<1>p. Pc(q) = "pair"
  BY DEF TakeReadTicket, At, Pc
<1>0. q \in Requests /\ Home[q] = "client" /\ Here(q) = C /\ C \in ConvRecord
  BY <1>p, Roles, Types DEF PlaceInv, PcInv, AsksInv, RepliesInv, Here, C
<1> DEFINE r == [task[q] EXCEPT !.pc = "to_write", !.readTicket = C.readNext]
           c == [C EXCEPT !.readNext = @ + 1, !.pairLock = None]
<1>1. task[q] \in TaskRecord
  BY DEF TypeOK, TaskRecord
<1>2. r \in TaskRecord /\ r.pc = "to_write" /\ r.writeTicket = task[q].writeTicket
      /\ r.readTicket = C.readNext /\ r.call = task[q].call
  BY <1>0, <1>1 DEF TaskRecord, ConvRecord, Steps
<1>3. task' = [task EXCEPT ![q] = r] /\ SetConv(q, c)
  BY <1>0 DEF TakeReadTicket
<1>4. /\ c.writeNext = C.writeNext /\ c.writeServing = C.writeServing
      /\ c.readNext = C.readNext + 1 /\ c.readServing = C.readServing /\ c.pairLock = None
      /\ c.autoFailures = C.autoFailures /\ c.poisoned = C.poisoned
  BY <1>0 DEF ConvRecord
<1> HIDE DEF r, c
<1>5. Becomes(q, "to_write", W(q), C.readNext, Call(q))
  BY <1>2, <1>3, Becoming DEF W, Call
<1>6. C' = c /\ SameServer
  BY <1>0, <1>3, ClientSet
<1>7. Same
  BY SameStreams DEF TakeReadTicket, Same
<1> QED BY <1>p, <1>0, <1>4, <1>5, <1>6, <1>7 DEF ClientIs

LEMMA TakeNoticeTicketDoes ==
  ASSUME OneWay, TypeOK, NEW n \in Tasks, TakeNoticeTicket(n)
  PROVE  /\ n \in Notices /\ Pc(n) = "idle"
         /\ Becomes(n, "to_write", C.writeNext, T(n), Call(n))
         /\ ClientIs(C.writeNext + 1, C.writeServing, C.readNext, C.readServing, C.pairLock,
                     C.autoFailures, C.poisoned)
         /\ SameServer /\ Same
<1>0. n \in Notices /\ Home[n] = "client" /\ Here(n) = C /\ C \in ConvRecord
  BY Roles, Types DEF TakeNoticeTicket, Here, C
<1> DEFINE r == [task[n] EXCEPT !.pc = "to_write", !.writeTicket = C.writeNext]
           c == [C EXCEPT !.writeNext = @ + 1]
<1>1. task[n] \in TaskRecord
  BY DEF TypeOK, TaskRecord
<1>2. r \in TaskRecord /\ r.pc = "to_write" /\ r.writeTicket = C.writeNext
      /\ r.readTicket = task[n].readTicket /\ r.call = task[n].call
  BY <1>0, <1>1 DEF TaskRecord, ConvRecord, Steps
<1>3. task' = [task EXCEPT ![n] = r] /\ SetConv(n, c)
  BY <1>0 DEF TakeNoticeTicket
<1>4. /\ c.writeNext = C.writeNext + 1 /\ c.writeServing = C.writeServing
      /\ c.readNext = C.readNext /\ c.readServing = C.readServing /\ c.pairLock = C.pairLock
      /\ c.autoFailures = C.autoFailures /\ c.poisoned = C.poisoned
  BY <1>0 DEF ConvRecord
<1> HIDE DEF r, c
<1>5. Becomes(n, "to_write", C.writeNext, T(n), Call(n))
  BY <1>2, <1>3, Becoming DEF T, Call
<1>6. C' = c /\ SameServer
  BY <1>0, <1>3, ClientSet
<1>7. Same /\ Pc(n) = "idle"
  BY SameStreams DEF TakeNoticeTicket, Same, At, Pc
<1> QED BY <1>0, <1>4, <1>5, <1>6, <1>7 DEF ClientIs

LEMMA TakeAcceptTicketDoes ==
  ASSUME OneWay, TypeOK, NEW a \in Tasks, TakeAcceptTicket(a)
  PROVE  /\ a \in Acceptors /\ Pc(a) = "idle"
         /\ Becomes(a, "to_read", W(a), S.readNext, Call(a))
         /\ SameClient /\ SameServer /\ Same
<1>0. a \in Acceptors /\ Home[a] = "server" /\ Here(a) = S /\ S \in ConvRecord
  BY Roles, Types DEF TakeAcceptTicket, Here, S
<1> DEFINE r == [task[a] EXCEPT !.pc = "to_read", !.readTicket = S.readNext]
           c == [S EXCEPT !.readNext = @ + 1]
<1>1. task[a] \in TaskRecord
  BY DEF TypeOK, TaskRecord
<1>2. r \in TaskRecord /\ r.pc = "to_read" /\ r.writeTicket = task[a].writeTicket
      /\ r.readTicket = S.readNext /\ r.call = task[a].call
  BY <1>0, <1>1 DEF TaskRecord, ConvRecord, Steps
<1>3. task' = [task EXCEPT ![a] = r] /\ SetConv(a, c)
  BY <1>0 DEF TakeAcceptTicket
<1>4. /\ c.writeNext = S.writeNext /\ c.writeServing = S.writeServing
      /\ c.autoFailures = S.autoFailures
  BY <1>0 DEF ConvRecord
<1> HIDE DEF r, c
<1>5. Becomes(a, "to_read", W(a), S.readNext, Call(a))
  BY <1>2, <1>3, Becoming DEF W, Call
<1>6. S' = c /\ SameClient
  BY <1>0, <1>3, ServerSet
<1>7. Same /\ Pc(a) = "idle"
  BY SameStreams DEF TakeAcceptTicket, Same, At, Pc
<1> QED BY <1>0, <1>4, <1>5, <1>6, <1>7 DEF ServerIs, SameServer

(* A step at one end that changes no counter of its writer. *)
LEMMA ServerReads ==
  ASSUME OneWay, TypeOK, NEW a \in Acceptors,
         SetConv(a, ReaderReleased(Here(a))) \/ SetConv(a, ReaderReleased(Poison(Here(a))))
  PROVE  SameClient /\ SameServer
<1>0. Home[a] = "server" /\ Here(a) = S /\ S \in ConvRecord
  BY Roles, Types DEF Here, S
<1>1. PICK c \in {ReaderReleased(S), ReaderReleased(Poison(S))} : SetConv(a, c)
  BY <1>0
<1>2. /\ c.writeNext = S.writeNext /\ c.writeServing = S.writeServing
      /\ c.autoFailures = S.autoFailures
  BY <1>0, <1>1 DEF ConvRecord, ReaderReleased, Poison
<1>3. S' = c /\ SameClient
  BY <1>0, <1>1, ServerSet
<1> QED BY <1>2, <1>3 DEF SameServer, ServerIs

LEMMA DrainAutoFailureDoes ==
  ASSUME OneWay, TypeOK, SendInv, NEW t \in Tasks, DrainAutoFailure(t)
  PROVE  /\ t \in Acceptors /\ Pc(t) = "to_write" /\ S.writeServing \in S.autoFailures
         /\ ServerIs(S.writeNext, S.writeServing + 1, S.autoFailures \ {S.writeServing})
         /\ SameClient /\ UNCHANGED <<down, verdict>> /\ Asks' = Asks
         /\ \/ /\ ~down /\ Answers' = Append(Answers, Reply("failure"))
               /\ \A u \in Tasks : SameTask(u)
            \/ /\ down /\ Answers' = Answers
               /\ Becomes(t, "failed", W(t), T(t), Call(t))
<1>1. t \in Acceptors
  <2>1. t \in Calls => Here(t) = C
    BY Roles DEF Here, C
  <2> QED BY <2>1, Roles DEF DrainAutoFailure, SendInv
<1>2. Home[t] = "server" /\ Here(t) = S /\ S \in ConvRecord
  BY <1>1, Roles, Types DEF Here, S
<1> DEFINE d == WriterReleased([S EXCEPT !.autoFailures = @ \ {S.writeServing}])
<1>3. /\ d.writeNext = S.writeNext /\ d.writeServing = S.writeServing + 1
      /\ d.autoFailures = S.autoFailures \ {S.writeServing}
      /\ Poison(d).writeNext = S.writeNext /\ Poison(d).writeServing = S.writeServing + 1
      /\ Poison(d).autoFailures = S.autoFailures \ {S.writeServing}
  BY <1>2 DEF ConvRecord, WriterReleased, Poison
<1>4. /\ Pc(t) = "to_write" /\ S.writeServing \in S.autoFailures /\ UNCHANGED <<down, verdict>>
      /\ \/ ~down /\ SetConv(t, d) /\ Put(t, "failure", None) /\ UNCHANGED task
         \/ down /\ SetConv(t, Poison(d)) /\ Goto(t, "failed") /\ UNCHANGED stream
  BY <1>1, <1>2 DEF DrainAutoFailure, At, Pc
<1> HIDE DEF d
<1>5. /\ ServerIs(S.writeNext, S.writeServing + 1, S.autoFailures \ {S.writeServing})
      /\ SameClient
  BY <1>2, <1>3, <1>4, ServerSet DEF ServerIs
<1>6. CASE ~down /\ Put(t, "failure", None) /\ UNCHANGED task
  <2>1. Asks' = Asks /\ Answers' = Append(Answers, Reply("failure"))
    BY <1>2, <1>6, Streams DEF Reply
  <2>2. \A u \in Tasks : SameTask(u)
    BY <1>6 DEF SameTask, Pc, W, T, Call
  <2> QED BY <1>1, <1>4, <1>5, <1>6, <2>1, <2>2
<1>7. CASE down /\ Goto(t, "failed") /\ UNCHANGED stream
  <2>1. Becomes(t, "failed", W(t), T(t), Call(t))
    BY <1>7, Going DEF Steps
  <2> QED BY <1>1, <1>4, <1>5, <1>7, <2>1, SameStreams
<1> QED BY <1>4, <1>6, <1>7

LEMMA SendCallDoes ==
  ASSUME OneWay, TypeOK, NEW c \in Tasks, SendCall(c)
  PROVE  /\ c \in Calls /\ Pc(c) = "to_write" /\ C.writeServing = W(c) /\ ~down
         /\ ClientIs(C.writeNext, C.writeServing + 1, C.readNext, C.readServing, C.pairLock,
                     C.autoFailures, C.poisoned)
         /\ SameServer /\ UNCHANGED <<down, verdict>> /\ Answers' = Answers
         /\ \/ /\ c \in Requests /\ Asks' = Append(Asks, Ask(c))
               /\ Becomes(c, "to_read", W(c), T(c), Call(c))
            \/ /\ c \in Notices /\ Asks' = Append(Asks, Note(c))
               /\ Becomes(c, "sent", W(c), T(c), Call(c))
<1>1. c \in Calls /\ Home[c] = "client" /\ Here(c) = C /\ C \in ConvRecord
  BY Roles, Types DEF SendCall, Here, C
<1>2. Pc(c) = "to_write" /\ C.writeServing = W(c) /\ ~down /\ UNCHANGED <<down, verdict>>
  BY <1>1 DEF SendCall, MayWrite, WriteTurn, At, Pc, W
<1>3. C' = WriterReleased(C) /\ SameServer
  BY <1>1, ClientSet DEF SendCall
<1>4. ClientIs(C.writeNext, C.writeServing + 1, C.readNext, C.readServing, C.pairLock,
               C.autoFailures, C.poisoned)
  BY <1>1, <1>3 DEF ClientIs, ConvRecord, WriterReleased
<1>5. CASE c \in Requests
  <2>1. Put(c, "request", c) /\ Goto(c, "to_read")
    BY <1>5 DEF SendCall
  <2>2. Asks' = Append(Asks, Ask(c)) /\ Answers' = Answers
    BY <1>1, <2>1, Streams DEF Ask
  <2>3. Becomes(c, "to_read", W(c), T(c), Call(c))
    BY <2>1, Going DEF Steps
  <2> QED BY <1>1, <1>2, <1>3, <1>4, <1>5, <2>2, <2>3
<1>6. CASE c \notin Requests
  <2>1. Put(c, "notice", c) /\ Goto(c, "sent")
    BY <1>6 DEF SendCall
  <2>2. Asks' = Append(Asks, Note(c)) /\ Answers' = Answers
    BY <1>1, <2>1, Streams DEF Note
  <2>3. Becomes(c, "sent", W(c), T(c), Call(c))
    BY <2>1, Going DEF Steps, Ended
  <2> QED BY <1>1, <1>2, <1>3, <1>4, <1>6, <2>2, <2>3, Roles
<1> QED BY <1>5, <1>6

LEMMA SendAnswerDoes ==
  ASSUME OneWay, TypeOK, NEW a \in Tasks, SendAnswer(a)
  PROVE  /\ a \in Acceptors /\ Pc(a) = "to_write" /\ S.writeServing = W(a) /\ ~down
         /\ ServerIs(S.writeNext, S.writeServing + 1, S.autoFailures)
         /\ SameClient /\ UNCHANGED <<down, verdict>> /\ Asks' = Asks
         /\ Answers' = Append(Answers, Reply(verdict[Call(a)]))
         /\ Becomes(a, "idle", W(a), T(a), None)
<1>1. a \in Acceptors /\ Home[a] = "server" /\ Here(a) = S /\ S \in ConvRecord
  BY Roles, Types DEF SendAnswer, Here, S
<1>2. Pc(a) = "to_write" /\ S.writeServing = W(a) /\ ~down /\ UNCHANGED <<down, verdict>>
  BY <1>1 DEF SendAnswer, MayWrite, WriteTurn, At, Pc, W
<1>3. S' = WriterReleased(S) /\ SameClient
  BY <1>1, ServerSet DEF SendAnswer
<1>4. ServerIs(S.writeNext, S.writeServing + 1, S.autoFailures)
  BY <1>1, <1>3 DEF ServerIs, ConvRecord, WriterReleased
<1>5. Put(a, verdict[Call(a)], None)
  BY DEF SendAnswer, Call
<1>6. Asks' = Asks /\ Answers' = Append(Answers, Reply(verdict[Call(a)]))
  BY <1>1, <1>5, Streams DEF Reply
<1> DEFINE r == [task[a] EXCEPT !.pc = "idle", !.call = None]
<1>7. task[a] \in TaskRecord
  BY DEF TypeOK, TaskRecord
<1>8. r \in TaskRecord /\ r.pc = "idle" /\ r.writeTicket = task[a].writeTicket
      /\ r.readTicket = task[a].readTicket /\ r.call = None
  BY <1>7 DEF TaskRecord, Steps
<1>9. task' = [task EXCEPT ![a] = r]
  BY DEF SendAnswer
<1> HIDE DEF r
<1>10. Becomes(a, "idle", W(a), T(a), None)
  BY <1>8, <1>9, Becoming DEF W, T
<1> QED BY <1>1, <1>2, <1>3, <1>4, <1>6, <1>10

LEMMA WriteFailsDoes ==
  ASSUME OneWay, TypeOK, NEW t \in Tasks, WriteFails(t)
  PROVE  /\ Pc(t) = "to_write" /\ down /\ Same
         /\ \/ /\ t \in Calls /\ C.writeServing = W(t)
               /\ ClientIs(C.writeNext, C.writeServing + 1, C.readNext, C.readServing, C.pairLock,
                           C.autoFailures, TRUE)
               /\ SameServer /\ Becomes(t, "broken", W(t), T(t), Call(t))
            \/ /\ t \in Acceptors /\ S.writeServing = W(t)
               /\ ServerIs(S.writeNext, S.writeServing + 1, S.autoFailures)
               /\ SameClient /\ Becomes(t, "failed", W(t), T(t), Call(t))
<1>1. Pc(t) = "to_write" /\ down /\ Same /\ Here(t).writeServing = W(t)
  BY SameStreams DEF WriteFails, MayWrite, WriteTurn, At, Pc, W, Same
<1>2. CASE t \in Calls
  <2>1. t \notin Acceptors /\ Home[t] = "client" /\ Here(t) = C /\ C \in ConvRecord
    BY <1>2, Roles, Types DEF Here, C
  <2>2. C' = WriterReleased(Poison(C)) /\ SameServer
    BY <2>1, ClientSet DEF WriteFails
  <2>3. ClientIs(C.writeNext, C.writeServing + 1, C.readNext, C.readServing, C.pairLock,
                 C.autoFailures, TRUE)
    BY <2>1, <2>2 DEF ClientIs, ConvRecord, WriterReleased, Poison
  <2>4. Becomes(t, "broken", W(t), T(t), Call(t))
    BY <2>1, Going DEF WriteFails, Steps, Ended
  <2> QED BY <1>1, <1>2, <2>1, <2>2, <2>3, <2>4
<1>3. CASE t \in Acceptors
  <2>1. Home[t] = "server" /\ Here(t) = S /\ S \in ConvRecord
    BY <1>3, Roles, Types DEF Here, S
  <2>2. S' = WriterReleased(Poison(S)) /\ SameClient
    BY <2>1, ServerSet DEF WriteFails
  <2>3. ServerIs(S.writeNext, S.writeServing + 1, S.autoFailures)
    BY <2>1, <2>2 DEF ServerIs, ConvRecord, WriterReleased, Poison
  <2>4. Becomes(t, "failed", W(t), T(t), Call(t))
    BY <1>3, Going DEF WriteFails, Steps
  <2> QED BY <1>1, <1>3, <2>1, <2>2, <2>3, <2>4
<1> QED BY <1>2, <1>3, Roles

(* Steps of the loops of acquire and acquire_writer. *)
LEMMA LoopDoes ==
  ASSUME OneWay, TypeOK, NEW t \in Tasks, FindPoisoned(t) \/ ReadLook(t) \/ ReadGrant(t)
  PROVE  /\ SameClient /\ SameServer /\ Same
         /\ \/ /\ Pc(t) \in {"to_write", "to_read"} /\ t \in Calls /\ C.poisoned
               /\ Becomes(t, "poisoned", W(t), T(t), Call(t))
            \/ /\ Pc(t) \in {"to_write", "to_read"} /\ t \in Acceptors
               /\ Becomes(t, "failed", W(t), T(t), Call(t))
            \/ Pc(t) = "to_read" /\ Becomes(t, "looking", W(t), T(t), Call(t))
            \/ Pc(t) = "looking" /\ Becomes(t, "to_read", W(t), T(t), Call(t))
            \/ /\ Pc(t) = "looking" /\ Becomes(t, "reading", W(t), T(t), Call(t))
               /\ t \in Calls => T(t) = C.readServing
<1>1. SameClient /\ SameServer /\ Same
  BY SameEnds, SameStreams DEF FindPoisoned, ReadLook, ReadGrant, Same
<1>2. t \in Calls => Here(t) = C /\ t \notin Acceptors
  BY Roles DEF Here, C
<1>3. CASE FindPoisoned(t)
  <2>1. Goto(t, IF t \in Acceptors THEN "failed" ELSE "poisoned") /\ Pc(t) \in {"to_write", "to_read"}
    BY <1>3 DEF FindPoisoned, Pc
  <2>2. CASE t \in Acceptors
    BY <1>1, <2>1, <2>2, Going DEF Steps
  <2>3. CASE t \notin Acceptors
    <3>1. t \in Calls /\ C.poisoned
      BY <1>2, <1>3, <2>3, Roles DEF FindPoisoned
    <3> QED BY <1>1, <2>1, <2>3, <3>1, Going DEF Steps, Ended
  <2> QED BY <2>2, <2>3
<1>4. CASE ReadLook(t)
  BY <1>1, <1>4, Going DEF ReadLook, Steps, At, Pc
<1>5. CASE ReadGrant(t)
  <2>1. CASE ReadTurn(t)
    BY <1>1, <1>2, <1>5, <2>1, Going DEF ReadGrant, Steps, At, Pc, ReadTurn, T
  <2>2. CASE ~ReadTurn(t)
    BY <1>1, <1>5, <2>2, Going DEF ReadGrant, Steps, At, Pc
  <2> QED BY <2>1, <2>2
<1> QED BY <1>3, <1>4, <1>5

(* A call has the reader and gives it back: what it does to the answers,   *)
(* and how it ends.                                                        *)
Reads(q) == ReadAnswer(q) \/ DropReading(q) \/ DecodeSuccessFails(q)
LeavesHead == Answers' = <<Reply("residue")>> \o Tail(Answers)
ReadsOwn(pc) ==
  \/ /\ Answers # <<>> /\ Answers' = Tail(Answers)
     /\ \/ Answers[1] = Reply("success") /\ pc = "ok"
        \/ Answers[1] = Reply("failure") /\ pc = "rejected"
  \/ Answers = <<>> /\ down /\ Answers' = Answers /\ pc = "broken"

LEMMA ReadsDoes ==
  ASSUME OneWay, TypeOK, PlaceInv, NEW q \in Tasks, Reads(q)
  PROVE  /\ q \in Requests /\ Pc(q) = "reading"
         /\ ClientIs(C.writeNext, C.writeServing, C.readNext, C.readServing + 1, C.pairLock,
                     C.autoFailures, C.poisoned)
         /\ SameServer /\ UNCHANGED <<down, verdict>> /\ Asks' = Asks
         /\ \/ Answers' = Answers
            \/ Answers # <<>> /\ (Answers' = Tail(Answers) \/ LeavesHead)
         /\ \E pc \in Ended :
              /\ Becomes(q, pc, W(q), T(q), Call(q))
              /\ \/ pc \in GaveUp
                 \/ Answers # <<>> /\ Answers[1] = Reply("residue")
                 \/ ReadsOwn(pc)
<1>1. q \in Requests /\ Home[q] = "client" /\ Here(q) = C /\ C \in ConvRecord
  BY Roles, Types DEF Reads, ReadAnswer, DropReading, DecodeSuccessFails, Here, C
<1>2. Pc(q) = "reading" /\ UNCHANGED <<down, verdict>> /\ Inbox(q) = Answers
  BY <1>1, Streams DEF Reads, ReadAnswer, DropReading, DecodeSuccessFails, At, Pc
<1>3. C' = ReaderReleased(C) /\ SameServer
  BY <1>1, ClientSet DEF Reads, ReadAnswer, DropReading, DecodeSuccessFails
<1>4. ClientIs(C.writeNext, C.writeServing, C.readNext, C.readServing + 1, C.pairLock,
               C.autoFailures, C.poisoned)
  BY <1>1, <1>3 DEF ClientIs, ConvRecord, ReaderReleased
<1>t. Take(q) => Asks' = Asks /\ Answers' = Tail(Answers)
  BY <1>1, Streams
<1>l. Leave(q, Tail(Answers)) => Asks' = Asks /\ LeavesHead
  BY <1>1, Streams DEF LeavesHead
<1>u. UNCHANGED stream => Asks' = Asks /\ Answers' = Answers
  BY SameStreams
<1>e. \A pc \in Ended : Goto(q, pc) => Becomes(q, pc, W(q), T(q), Call(q))
  BY <1>1, Going DEF Steps
<1>h. ASSUME Answers # <<>>
      PROVE  /\ Head(Answers) = Answers[1]
             /\ Head(Answers).kind \in {"success", "failure", "residue"}
             /\ Answers[1] = Reply(Head(Answers).kind)
  <2>1. Answers \in Seq(Message) /\ 1 \in 1..Len(Answers) /\ Head(Answers) = Answers[1]
    BY <1>h, Types
  <2>2. PICK v \in {"success", "failure", "residue"} : Answers[1] = Reply(v)
    BY <2>1 DEF PlaceInv, RepliesInv
  <2>3. Reply(v).kind = v
    BY DEF Reply
  <2> QED BY <2>1, <2>2, <2>3
<1>5. CASE ReadAnswer(q) /\ Answers # <<>>
  <2>1. \/ Head(Answers).kind = "success" /\ Take(q) /\ Goto(q, "ok")
        \/ Head(Answers).kind = "failure" /\ Take(q) /\ Goto(q, "rejected")
        \/ /\ Head(Answers).kind = "residue" /\ (Take(q) \/ UNCHANGED stream)
           /\ \E end \in {"ok", "rejected", "unexpected"} : Goto(q, end)
    BY <1>2, <1>5, <1>h DEF ReadAnswer
  <2>2. {"ok", "rejected", "unexpected"} \subseteq Ended
    BY DEF Ended
  <2>3. CASE Head(Answers).kind = "success" /\ Take(q) /\ Goto(q, "ok")
    BY <1>1, <1>2, <1>3, <1>4, <1>5, <1>e, <1>h, <1>t, <2>2, <2>3 DEF ReadsOwn
  <2>4. CASE Head(Answers).kind = "failure" /\ Take(q) /\ Goto(q, "rejected")
    BY <1>1, <1>2, <1>3, <1>4, <1>5, <1>e, <1>h, <1>t, <2>2, <2>4 DEF ReadsOwn
  <2>5. CASE /\ Head(Answers).kind = "residue" /\ (Take(q) \/ UNCHANGED stream)
             /\ \E end \in {"ok", "rejected", "unexpected"} : Goto(q, end)
    BY <1>1, <1>2, <1>3, <1>4, <1>5, <1>e, <1>h, <1>t, <1>u, <2>2, <2>5
  <2> QED BY <2>1, <2>3, <2>4, <2>5
<1>6. CASE ReadAnswer(q) /\ Answers = <<>>
  <2>1. down /\ Goto(q, "broken") /\ UNCHANGED stream
    BY <1>2, <1>6 DEF ReadAnswer
  <2>2. "broken" \in Ended
    BY DEF Ended
  <2> QED BY <1>1, <1>2, <1>3, <1>4, <1>6, <1>e, <1>u, <2>1, <2>2 DEF ReadsOwn
<1>g. "dropped" \in GaveUp /\ "undecoded" \in GaveUp /\ GaveUp \subseteq Ended
  BY DEF GaveUp, Ended
<1>7. CASE DropReading(q)
  <2>1. Goto(q, "dropped") /\ (UNCHANGED stream \/ (Answers # <<>> /\ Leave(q, Tail(Answers))))
    BY <1>2, <1>7 DEF DropReading
  <2> QED BY <1>1, <1>2, <1>3, <1>4, <1>e, <1>g, <1>l, <1>u, <2>1
<1>8. CASE DecodeSuccessFails(q)
  <2>1. Goto(q, "undecoded") /\ Answers # <<>> /\ (Take(q) \/ Leave(q, Tail(Answers)))
    BY <1>2, <1>8 DEF DecodeSuccessFails
  <2> QED BY <1>1, <1>2, <1>3, <1>4, <1>e, <1>g, <1>l, <1>t, <2>1
<1> QED BY <1>5, <1>6, <1>7, <1>8 DEF Reads

(* The first message on the client's stream says what it is. *)
LEMMA HeadOf ==
  ASSUME TypeOK, PlaceInv, Asks # <<>>
  PROVE  /\ 1 \in 1..Len(Asks) /\ Head(Asks) = Asks[1]
         /\ Head(Asks).kind \in {"request", "notice", "residue"}
         /\ Head(Asks).kind = "request" =>
              Head(Asks).call \in Requests /\ Asks[1] = Ask(Head(Asks).call)
         /\ Head(Asks).kind = "notice" =>
              Head(Asks).call \in Notices /\ Asks[1] = Note(Head(Asks).call)
         /\ Head(Asks).kind = "residue" => Asks[1] = Reply("residue")
<1>1. 1 \in 1..Len(Asks) /\ Head(Asks) = Asks[1]
  BY Types
<1>2. \/ \E q \in Requests : Asks[1] = Ask(q)
      \/ \E c \in Notices : Asks[1] = Note(c)
      \/ Asks[1] = Reply("residue")
  BY <1>1 DEF PlaceInv, PcInv, AsksInv, RepliesInv
<1>3. \A q : Ask(q).kind = "request" /\ Ask(q).call = q
  BY DEF Ask
<1>4. \A c : Note(c).kind = "notice" /\ Note(c).call = c
  BY DEF Note
<1>5. Reply("residue").kind = "residue"
  BY DEF Reply
<1>6. CASE \E q \in Requests : Asks[1] = Ask(q)
  BY <1>1, <1>3, <1>6
<1>7. CASE \E c \in Notices : Asks[1] = Note(c)
  BY <1>1, <1>4, <1>7
<1>8. CASE Asks[1] = Reply("residue")
  BY <1>1, <1>5, <1>8
<1> QED BY <1>2, <1>6, <1>7, <1>8

LEMMA AcceptHeaderDoes ==
  ASSUME OneWay, TypeOK, PlaceInv, NEW a \in Tasks, AcceptHeader(a)
  PROVE  /\ a \in Acceptors /\ Pc(a) = "reading" /\ Asks # <<>>
         /\ SameClient /\ UNCHANGED <<down, verdict>> /\ Asks' = Tail(Asks) /\ Answers' = Answers
         /\ \/ \E q \in Requests :
                 /\ Asks[1] = Ask(q) /\ Becomes(a, "header", S.writeNext, T(a), q)
                 /\ ServerIs(S.writeNext + 1, S.writeServing, S.autoFailures)
            \/ \E n \in Notices :
                 /\ Asks[1] = Note(n) /\ Becomes(a, "header", W(a), T(a), n)
                 /\ SameServer
<1>1. a \in Acceptors /\ Home[a] = "server" /\ Here(a) = S /\ S \in ConvRecord
  BY Roles, Types DEF AcceptHeader, Here, S
<1>2. /\ Pc(a) = "reading" /\ UNCHANGED <<down, verdict>> /\ Inbox(a) = Asks /\ Asks # <<>>
      /\ Asks' = Tail(Asks) /\ Answers' = Answers
  BY <1>1, Streams DEF AcceptHeader, At, Pc
<1>3. task[a] \in TaskRecord
  BY DEF TypeOK, TaskRecord
<1> DEFINE q == Head(Asks).call
<1>4. CASE Head(Asks).kind = "request"
  <2> DEFINE r == [task[a] EXCEPT !.pc = "header", !.call = q, !.writeTicket = S.writeNext]
             c == [S EXCEPT !.writeNext = @ + 1]
  <2>1. q \in Requests /\ Asks[1] = Ask(q) /\ q \in Calls
    BY <1>2, <1>4, HeadOf, Roles
  <2>2. task' = [task EXCEPT ![a] = r] /\ SetConv(a, c)
    BY <1>1, <1>2, <1>4 DEF AcceptHeader
  <2> HIDE DEF q
  <2>3. r \in TaskRecord /\ r.pc = "header" /\ r.writeTicket = S.writeNext
        /\ r.readTicket = task[a].readTicket /\ r.call = q
    BY <1>1, <1>3, <2>1 DEF TaskRecord, Steps, ConvRecord
  <2>4. c.writeNext = S.writeNext + 1 /\ c.writeServing = S.writeServing
        /\ c.autoFailures = S.autoFailures
    BY <1>1 DEF ConvRecord
  <2> HIDE DEF r, c
  <2>5. Becomes(a, "header", S.writeNext, T(a), q)
    BY <2>2, <2>3, Becoming DEF T
  <2>6. ServerIs(S.writeNext + 1, S.writeServing, S.autoFailures) /\ SameClient
    BY <1>1, <2>2, <2>4, ServerSet DEF ServerIs
  <2> QED BY <1>1, <1>2, <2>1, <2>5, <2>6
<1>5. CASE Head(Asks).kind = "notice"
  <2> DEFINE r == [task[a] EXCEPT !.pc = "header", !.call = q]
  <2>1. q \in Notices /\ Asks[1] = Note(q) /\ q \in Calls
    BY <1>2, <1>5, HeadOf, Roles
  <2>2. task' = [task EXCEPT ![a] = r] /\ UNCHANGED conv
    BY <1>1, <1>2, <1>5 DEF AcceptHeader
  <2> HIDE DEF q
  <2>3. r \in TaskRecord /\ r.pc = "header" /\ r.writeTicket = task[a].writeTicket
        /\ r.readTicket = task[a].readTicket /\ r.call = q
    BY <1>1, <1>3, <2>1 DEF TaskRecord, Steps
  <2> HIDE DEF r
  <2>5. Becomes(a, "header", W(a), T(a), q)
    BY <2>2, <2>3, Becoming DEF T, W
  <2>6. SameServer /\ SameClient
    BY <2>2, SameEnds
  <2> QED BY <1>1, <1>2, <2>1, <2>5, <2>6
<1> QED BY <1>2, <1>4, <1>5 DEF AcceptHeader

LEMMA AcceptFailsDoes ==
  ASSUME OneWay, TypeOK, PlaceInv, NEW a \in Tasks, AcceptFails(a)
  PROVE  /\ a \in Acceptors /\ Pc(a) = "reading"
         /\ SameClient /\ SameServer /\ Same /\ Becomes(a, "failed", W(a), T(a), Call(a))
<1>1. a \in Acceptors /\ Home[a] = "server"
  BY Roles DEF AcceptFails
<1>2. Pc(a) = "reading" /\ UNCHANGED <<down, verdict>> /\ Inbox(a) = Asks
  BY <1>1, Streams DEF AcceptFails, At, Pc
<1>3. SameClient /\ SameServer
  BY <1>1, ServerReads DEF AcceptFails
<1>4. Becomes(a, "failed", W(a), T(a), Call(a))
  BY Going DEF AcceptFails, Steps
<1>5. CASE Asks # <<>>
  <2>1. Asks[1] = Reply("residue") /\ Head(Asks).kind = "residue" /\ Asks \in Seq(Message)
    BY <1>2, <1>5, HeadOf, Types DEF AcceptFails
  <2>2. Leave(a, Tail(Asks))
    BY <1>2, <1>5, <2>1 DEF AcceptFails, Misread
  <2>3. Asks' = <<Reply("residue")>> \o Tail(Asks) /\ Answers' = Answers
    BY <1>1, <2>2, Streams
  <2>4. <<Asks[1]>> \o Tail(Asks) = Asks
    BY <1>5, <2>1
  <2> QED BY <1>1, <1>2, <1>3, <1>4, <2>1, <2>3, <2>4 DEF Same
<1>6. CASE Asks = <<>>
  BY <1>1, <1>2, <1>3, <1>4, <1>6, SameStreams DEF AcceptFails, Same
<1> QED BY <1>5, <1>6

LEMMA DecodePayloadDoes ==
  ASSUME OneWay, TypeOK, PlaceInv, NEW a \in Tasks, DecodePayload(a)
  PROVE  /\ a \in Acceptors /\ Pc(a) = "header" /\ SameClient /\ SameServer /\ Same
         /\ \/ Call(a) \in Requests /\ Becomes(a, "decoded", W(a), T(a), Call(a))
            \/ Call(a) \notin Requests /\ Becomes(a, "idle", W(a), T(a), None)
<1>1. Pc(a) = "header"
  BY DEF DecodePayload, At, Pc
<1>2. a \in Acceptors
  BY <1>1, Roles DEF PlaceInv, PcInv, AsksInv, RepliesInv, Ended, GaveUp
<1>3. SameClient /\ SameServer /\ Same
  BY <1>2, ServerReads, SameStreams DEF DecodePayload, Same
<1>4. CASE Call(a) \in Requests
  BY <1>1, <1>2, <1>3, <1>4, Going DEF DecodePayload, Call, Steps
<1>5. CASE Call(a) \notin Requests
  <2> DEFINE r == [task[a] EXCEPT !.pc = "idle", !.call = None]
  <2>1. task[a] \in TaskRecord
    BY DEF TypeOK, TaskRecord
  <2>2. r \in TaskRecord /\ r.pc = "idle" /\ r.writeTicket = task[a].writeTicket
        /\ r.readTicket = task[a].readTicket /\ r.call = None
    BY <2>1 DEF TaskRecord, Steps
  <2>3. task' = [task EXCEPT ![a] = r]
    BY <1>5 DEF DecodePayload, Call
  <2> HIDE DEF r
  <2>4. Becomes(a, "idle", W(a), T(a), None)
    BY <2>2, <2>3, Becoming DEF W, T
  <2> QED BY <1>1, <1>2, <1>3, <1>5, <2>4
<1> QED BY <1>4, <1>5

LEMMA DropUndecodedDoes ==
  ASSUME OneWay, TypeOK, PlaceInv, NEW a \in Tasks, DropUndecoded(a)
  PROVE  /\ a \in Acceptors /\ Pc(a) = "header" /\ SameClient /\ SameServer
         /\ UNCHANGED <<down, verdict>> /\ Answers' = Answers
         /\ Asks' = <<Reply("residue")>> \o Asks
         /\ Becomes(a, "failed", W(a), T(a), Call(a))
<1>1. Pc(a) = "header"
  BY DEF DropUndecoded, At, Pc
<1>2. a \in Acceptors /\ Home[a] = "server"
  BY <1>1, Roles DEF PlaceInv, PcInv, AsksInv, RepliesInv, Ended, GaveUp
<1>3. SameClient /\ SameServer
  BY <1>2, ServerReads DEF DropUndecoded
<1>4. Inbox(a) = Asks /\ Asks' = <<Reply("residue")>> \o Asks /\ Answers' = Answers
  BY <1>2, Streams DEF DropUndecoded
<1>5. Becomes(a, "failed", W(a), T(a), Call(a))
  BY Going DEF DropUndecoded, Steps
<1> QED BY <1>1, <1>2, <1>3, <1>4, <1>5 DEF DropUndecoded

LEMMA RespondDoes ==
  ASSUME OneWay, TypeOK, PlaceInv, NEW a \in Tasks, Respond(a)
  PROVE  /\ a \in Acceptors /\ Pc(a) = "decoded" /\ Call(a) \in Requests
         /\ SameClient /\ SameServer /\ UNCHANGED down /\ Asks' = Asks /\ Answers' = Answers
         /\ Becomes(a, "to_write", W(a), T(a), Call(a))
         /\ \E v \in {"success", "failure"} : verdict' = [verdict EXCEPT ![Call(a)] = v]
<1>1. Pc(a) = "decoded"
  BY DEF Respond, At, Pc
<1>2. a \in Acceptors
  BY <1>1, Roles DEF PlaceInv, PcInv, AsksInv, RepliesInv, Ended, GaveUp
<1>3. Becomes(a, "to_write", W(a), T(a), Call(a))
  BY Going DEF Respond, Steps
<1> QED BY <1>1, <1>2, <1>3, SameEnds, SameStreams DEF Respond, Decide, Call, PlaceInv, PcInv, AsksInv, RepliesInv

LEMMA DropDecodedDoes ==
  ASSUME OneWay, TypeOK, PlaceInv, NEW a \in Tasks, DropDecoded(a)
  PROVE  /\ a \in Acceptors /\ Pc(a) = "decoded" /\ Call(a) \in Requests
         /\ SameClient /\ ServerIs(S.writeNext, S.writeServing, S.autoFailures \cup {W(a)})
         /\ UNCHANGED down /\ Asks' = Asks /\ Answers' = Answers
         /\ Becomes(a, "idle", W(a), T(a), None)
         /\ verdict' = [verdict EXCEPT ![Call(a)] = "failure"]
<1>1. Pc(a) = "decoded"
  BY DEF DropDecoded, At, Pc
<1>2. a \in Acceptors /\ Call(a) \in Requests
  BY <1>1, Roles DEF PlaceInv, PcInv, AsksInv, RepliesInv, Ended, GaveUp
<1>3. Home[a] = "server" /\ Here(a) = S /\ S \in ConvRecord
  BY <1>2, Roles, Types DEF Here, S
<1> DEFINE r == [task[a] EXCEPT !.pc = "idle", !.call = None]
           c == [S EXCEPT !.autoFailures = @ \cup {W(a)}]
<1>4. task[a] \in TaskRecord
  BY DEF TypeOK, TaskRecord
<1>5. r \in TaskRecord /\ r.pc = "idle" /\ r.writeTicket = task[a].writeTicket
      /\ r.readTicket = task[a].readTicket /\ r.call = None
  BY <1>4 DEF TaskRecord, Steps
<1>6. task' = [task EXCEPT ![a] = r] /\ SetConv(a, c)
  BY <1>3 DEF DropDecoded, W
<1>7. c.writeNext = S.writeNext /\ c.writeServing = S.writeServing
      /\ c.autoFailures = S.autoFailures \cup {W(a)}
  BY <1>3 DEF ConvRecord
<1> HIDE DEF r, c
<1>8. Becomes(a, "idle", W(a), T(a), None)
  BY <1>5, <1>6, Becoming DEF W, T
<1>9. ServerIs(S.writeNext, S.writeServing, S.autoFailures \cup {W(a)}) /\ SameClient
  BY <1>3, <1>6, <1>7, ServerSet DEF ServerIs
<1> QED BY <1>1, <1>2, <1>8, <1>9, SameStreams DEF DropDecoded, Decide, Call

LEMMA LoseConnectionDoes ==
  ASSUME TypeOK, LoseConnection
  PROVE  /\ ~down /\ down' /\ UNCHANGED verdict /\ SameClient /\ SameServer
         /\ \A u \in Tasks : SameTask(u)
         /\ \E i \in 0..Len(Asks), j \in 0..Len(Answers) :
              Asks' = SubSeq(Asks, 1, i) /\ Answers' = SubSeq(Answers, 1, j)
<1>1. \A u \in Tasks : SameTask(u)
  BY DEF LoseConnection, SameTask, Pc, W, T, Call
<1>2. \E i \in 0..Len(Asks), j \in 0..Len(Answers) :
              Asks' = SubSeq(Asks, 1, i) /\ Answers' = SubSeq(Answers, 1, j)
  <2>1. PICK i \in 0..Len(Asks), j \in 0..Len(Answers) :
          stream' = [stream EXCEPT !["client"] = SubSeq(@, 1, i), !["server"] = SubSeq(@, 1, j)]
    BY DEF LoseConnection, Asks, Answers
  <2> QED BY <2>1, Ends DEF TypeOK, Asks, Answers
<1> QED BY <1>1, <1>2, SameEnds DEF LoseConnection
-----------------------------------------------------------------------------
(* The types. *)
LEMMA TypeParts ==
  ASSUME conv' \in [Endpoints -> ConvRecord], stream' \in [Endpoints -> Seq(Message)],
         down' \in BOOLEAN, task' \in [Tasks -> TaskRecord],
         verdict' \in [Requests -> {None, "success", "failure"}]
  PROVE  TypeOK'
BY DEF TypeOK, ConvRecord, TaskRecord

LEMMA ConvType ==
  ASSUME OneWay, TypeOK, NEW t \in Tasks, NEW c \in ConvRecord, SetConv(t, c)
  PROVE  conv' \in [Endpoints -> ConvRecord]
BY DEF TypeOK, SetConv, ConvRecord

LEMMA HereType ==
  ASSUME OneWay, TypeOK, NEW t \in Tasks
  PROVE  Here(t) \in ConvRecord /\ task[t] \in TaskRecord /\ Inbox(t) \in Seq(Message)
<1>1. Home[t] \in Endpoints /\ Peer(Home[t]) \in Endpoints
  BY Roles, Ends
<1> QED BY <1>1 DEF TypeOK, Here, ConvRecord, TaskRecord, Inbox

LEMMA Releases ==
  ASSUME NEW c \in ConvRecord
  PROVE  /\ ReaderReleased(c) \in ConvRecord /\ WriterReleased(c) \in ConvRecord
         /\ Poison(c) \in ConvRecord
<1>1. ReaderReleased(c) \in ConvRecord
  BY DEF ConvRecord, ReaderReleased
<1>2. WriterReleased(c) \in ConvRecord
  BY DEF ConvRecord, WriterReleased
<1>3. Poison(c) \in ConvRecord
  BY DEF ConvRecord, Poison
<1> QED BY <1>1, <1>2, <1>3

LEMMA Locks ==
  ASSUME NEW c \in ConvRecord, NEW q \in Requests \cup {None}
  PROVE  /\ [c EXCEPT !.writeNext = @ + 1, !.pairLock = q] \in ConvRecord
         /\ [c EXCEPT !.readNext = @ + 1, !.pairLock = q] \in ConvRecord
<1>1. ASSUME NEW n \in Nat
      PROVE  /\ [c EXCEPT !.writeNext = n, !.pairLock = q] \in ConvRecord
             /\ [c EXCEPT !.readNext = n, !.pairLock = q] \in ConvRecord
  BY DEF ConvRecord
<1>2. c.writeNext + 1 \in Nat /\ c.readNext + 1 \in Nat
  BY DEF ConvRecord
<1> QED BY <1>1, <1>2

LEMMA Counts ==
  ASSUME NEW c \in ConvRecord
  PROVE  /\ [c EXCEPT !.writeNext = @ + 1] \in ConvRecord
         /\ [c EXCEPT !.readNext = @ + 1] \in ConvRecord
<1>1. [c EXCEPT !.writeNext = @ + 1] \in ConvRecord
  BY DEF ConvRecord
<1>2. [c EXCEPT !.readNext = @ + 1] \in ConvRecord
  BY DEF ConvRecord
<1> QED BY <1>1, <1>2

LEMMA PutType ==
  ASSUME OneWay, TypeOK, NEW t \in Tasks, NEW k, NEW c,
         [kind |-> k, call |-> c] \in Message, Put(t, k, c)
  PROVE  stream' \in [Endpoints -> Seq(Message)]
<1>1. Home[t] \in Endpoints
  BY Roles, Ends
<1>2. Append(stream[Home[t]], [kind |-> k, call |-> c]) \in Seq(Message)
  BY <1>1 DEF TypeOK
<1> QED BY <1>1, <1>2 DEF TypeOK, Put

LEMMA LeaveType ==
  ASSUME OneWay, TypeOK, NEW t \in Tasks, NEW rest \in Seq(Message), Leave(t, rest)
  PROVE  stream' \in [Endpoints -> Seq(Message)]
<1>1. [kind |-> "residue", call |-> None] \in Message
  BY DEF Message
<1>2. <<[kind |-> "residue", call |-> None]>> \o rest \in Seq(Message)
  BY <1>1
<1> QED BY <1>2 DEF TypeOK, Leave

LEMMA TakeType ==
  ASSUME OneWay, TypeOK, NEW t \in Tasks, Inbox(t) # <<>>, Take(t)
  PROVE  stream' \in [Endpoints -> Seq(Message)]
<1>1. Tail(Inbox(t)) \in Seq(Message)
  BY HereType
<1> QED BY <1>1 DEF TypeOK, Take, Inbox

LEMMA MisreadType ==
  ASSUME OneWay, TypeOK, NEW t \in Tasks, Inbox(t) # <<>>, Misread(t)
  PROVE  stream' \in [Endpoints -> Seq(Message)]
<1>1. Tail(Inbox(t)) \in Seq(Message)
  BY HereType
<1> QED BY <1>1, TakeType, LeaveType DEF Misread

LEMMA UnchangedType ==
  ASSUME TypeOK
  PROVE  /\ UNCHANGED conv => conv' \in [Endpoints -> ConvRecord]
         /\ UNCHANGED stream => stream' \in [Endpoints -> Seq(Message)]
         /\ UNCHANGED task => task' \in [Tasks -> TaskRecord]
         /\ UNCHANGED down => down' \in BOOLEAN
         /\ UNCHANGED verdict => verdict' \in [Requests -> {None, "success", "failure"}]
BY DEF TypeOK, ConvRecord, TaskRecord

LEMMA TypeStep ==
  ASSUME OneWay, TypeOK, PlaceInv, OweInv, [Next]_vars
  PROVE  TypeOK'
<1> USE UnchangedType
<1>1. ASSUME NEW t \in Tasks, TakeWriteTicket(t) PROVE TypeOK'
  <2>2. [Here(t) EXCEPT !.writeNext = @ + 1, !.pairLock = t] \in ConvRecord
    BY <1>1, HereType, Locks DEF TakeWriteTicket
  <2>3. task' \in [Tasks -> TaskRecord]
    BY <1>1, TakeWriteTicketDoes DEF Becomes
  <2>4. conv' \in [Endpoints -> ConvRecord]
    BY <1>1, <2>2, ConvType DEF TakeWriteTicket
  <2> QED BY <1>1, <2>3, <2>4, TypeParts DEF TakeWriteTicket
<1>2. ASSUME NEW t \in Tasks, TakeReadTicket(t) PROVE TypeOK'
  <2>2. [Here(t) EXCEPT !.readNext = @ + 1, !.pairLock = None] \in ConvRecord
    BY HereType, Locks
  <2>3. task' \in [Tasks -> TaskRecord]
    BY <1>2, TakeReadTicketDoes DEF Becomes
  <2>4. conv' \in [Endpoints -> ConvRecord]
    BY <1>2, <2>2, ConvType DEF TakeReadTicket
  <2> QED BY <1>2, <2>3, <2>4, TypeParts DEF TakeReadTicket
<1>3. ASSUME NEW t \in Tasks, TakeNoticeTicket(t) PROVE TypeOK'
  <2>2. [Here(t) EXCEPT !.writeNext = @ + 1] \in ConvRecord
    BY HereType, Counts
  <2>3. task' \in [Tasks -> TaskRecord]
    BY <1>3, TakeNoticeTicketDoes DEF Becomes
  <2>4. conv' \in [Endpoints -> ConvRecord]
    BY <1>3, <2>2, ConvType DEF TakeNoticeTicket
  <2> QED BY <1>3, <2>3, <2>4, TypeParts DEF TakeNoticeTicket
<1>4. ASSUME NEW t \in Tasks, TakeAcceptTicket(t) PROVE TypeOK'
  <2>2. [Here(t) EXCEPT !.readNext = @ + 1] \in ConvRecord
    BY HereType, Counts
  <2>3. task' \in [Tasks -> TaskRecord]
    BY <1>4, TakeAcceptTicketDoes DEF Becomes
  <2>4. conv' \in [Endpoints -> ConvRecord]
    BY <1>4, <2>2, ConvType DEF TakeAcceptTicket
  <2> QED BY <1>4, <2>3, <2>4, TypeParts DEF TakeAcceptTicket
<1>5. ASSUME NEW t \in Tasks, DrainAutoFailure(t) PROVE TypeOK'
  <2> DEFINE c == [Here(t) EXCEPT !.autoFailures = @ \ {Here(t).writeServing}]
  <2>1. c \in ConvRecord
    BY HereType DEF ConvRecord
  <2>2. \/ ~down /\ SetConv(t, WriterReleased(c)) /\ Put(t, "failure", None) /\ UNCHANGED task
        \/ /\ down /\ SetConv(t, Poison(WriterReleased(c))) /\ UNCHANGED stream
           /\ Goto(t, IF t \in Acceptors THEN "failed" ELSE "poisoned")
    BY <1>5 DEF DrainAutoFailure
  <2> HIDE DEF c
  <2>3. WriterReleased(c) \in ConvRecord /\ Poison(WriterReleased(c)) \in ConvRecord
    BY <2>1, Releases
  <2>4. conv' \in [Endpoints -> ConvRecord]
    BY <2>2, <2>3, ConvType
  <2>5. [kind |-> "failure", call |-> None] \in Message
    BY DEF Message
  <2>6. stream' \in [Endpoints -> Seq(Message)]
    BY <2>2, <2>5, PutType
  <2>7. (IF t \in Acceptors THEN "failed" ELSE "poisoned") \in Steps
    BY DEF Steps, Ended
  <2>8. task' \in [Tasks -> TaskRecord]
    BY <2>2, <2>7, Going DEF Becomes
  <2> QED BY <1>5, <2>4, <2>6, <2>8, TypeParts DEF DrainAutoFailure
<1>6. ASSUME NEW t \in Tasks, SendCall(t) PROVE TypeOK'
  <2>1. t \in Calls /\ SetConv(t, WriterReleased(Here(t))) /\ UNCHANGED <<down, verdict>>
    BY <1>6 DEF SendCall
  <2>2. conv' \in [Endpoints -> ConvRecord]
    BY <2>1, HereType, Releases, ConvType
  <2>3. PICK k \in {"request", "notice"} : Put(t, k, t)
    BY <1>6 DEF SendCall
  <2>4. [kind |-> k, call |-> t] \in Message
    BY <2>1 DEF Message
  <2>5. stream' \in [Endpoints -> Seq(Message)]
    BY <2>3, <2>4, PutType
  <2>6. PICK step \in {"to_read", "sent"} : Goto(t, step)
    BY <1>6 DEF SendCall
  <2>7. step \in Steps
    BY DEF Steps, Ended
  <2>8. task' \in [Tasks -> TaskRecord]
    BY <2>6, <2>7, Going DEF Becomes
  <2> QED BY <2>1, <2>2, <2>5, <2>8, TypeParts
<1>7. ASSUME NEW t \in Tasks, SendAnswer(t) PROVE TypeOK'
  <2>1. SetConv(t, WriterReleased(Here(t))) /\ UNCHANGED <<down, verdict>> /\ t \in Acceptors
    BY <1>7 DEF SendAnswer
  <2>2. conv' \in [Endpoints -> ConvRecord]
    BY <2>1, HereType, Releases, ConvType
  <2>3. Pc(t) = "to_write" /\ Owes(t) /\ verdict[Call(t)] \in {"success", "failure"}
    BY <1>7, <2>1, SendAnswerDoes DEF PlaceInv, PcInv, AsksInv, RepliesInv, Owes, OweInv
  <2>4. [kind |-> verdict[Call(t)], call |-> None] \in Message
    BY <2>3 DEF Message
  <2>5. stream' \in [Endpoints -> Seq(Message)]
    BY <1>7, <2>4, PutType DEF SendAnswer, Call
  <2>7. task' \in [Tasks -> TaskRecord]
    BY <1>7, SendAnswerDoes DEF Becomes
  <2> QED BY <2>1, <2>2, <2>5, <2>7, TypeParts
<1>8. ASSUME NEW t \in Tasks, WriteFails(t) PROVE TypeOK'
  <2>1. WriterReleased(Poison(Here(t))) \in ConvRecord
    BY HereType, Releases
  <2>2. conv' \in [Endpoints -> ConvRecord]
    BY <1>8, <2>1, ConvType DEF WriteFails
  <2>3. PICK step \in {"failed", "broken"} : Goto(t, step)
    BY <1>8 DEF WriteFails
  <2>4. step \in Steps
    BY DEF Steps, Ended
  <2>5. task' \in [Tasks -> TaskRecord]
    BY <2>3, <2>4, Going DEF Becomes
  <2> QED BY <1>8, <2>2, <2>5, TypeParts DEF WriteFails
<1>9. ASSUME NEW t \in Tasks, FindPoisoned(t) \/ ReadLook(t) \/ ReadGrant(t) PROVE TypeOK'
  <2>1. PICK step \in {"failed", "poisoned", "looking", "reading", "to_read"} : Goto(t, step)
    BY <1>9 DEF FindPoisoned, ReadLook, ReadGrant
  <2>2. step \in Steps
    BY DEF Steps, Ended
  <2>3. task' \in [Tasks -> TaskRecord]
    BY <2>1, <2>2, Going DEF Becomes
  <2> QED BY <1>9, <2>3, TypeParts DEF FindPoisoned, ReadLook, ReadGrant
<1>10. ASSUME NEW t \in Tasks, Reads(t) PROVE TypeOK'
  <2>1. conv' \in [Endpoints -> ConvRecord]
    BY <1>10, HereType, Releases, ConvType DEF Reads, ReadAnswer, DropReading, DecodeSuccessFails
  <2>2. UNCHANGED stream => stream' \in [Endpoints -> Seq(Message)]
    BY DEF TypeOK
  <2>3. Inbox(t) # <<>> => Tail(Inbox(t)) \in Seq(Message)
    BY HereType
  <2>4. stream' \in [Endpoints -> Seq(Message)]
    BY <1>10, <2>2, <2>3, TakeType, MisreadType, LeaveType
       DEF Reads, ReadAnswer, DropReading, DecodeSuccessFails
  <2>5. task' \in [Tasks -> TaskRecord]
    BY <1>10, ReadsDoes DEF Becomes
  <2>6. UNCHANGED <<down, verdict>>
    BY <1>10, ReadsDoes
  <2> QED BY <2>1, <2>4, <2>5, <2>6, TypeParts
<1>11. ASSUME NEW t \in Tasks, AcceptHeader(t) PROVE TypeOK'
  <2>1. Head(Inbox(t)) \in Message /\ Inbox(t) # <<>>
    BY <1>11, HereType DEF AcceptHeader
  <2>4. [Here(t) EXCEPT !.writeNext = @ + 1] \in ConvRecord
    BY HereType DEF ConvRecord
  <2>5. task' \in [Tasks -> TaskRecord]
    BY <1>11, AcceptHeaderDoes DEF Becomes
  <2>6. conv' \in [Endpoints -> ConvRecord]
    BY <1>11, <2>4, ConvType DEF AcceptHeader
  <2>7. stream' \in [Endpoints -> Seq(Message)]
    BY <1>11, <2>1, TakeType DEF AcceptHeader
  <2> QED BY <1>11, <2>5, <2>6, <2>7, TypeParts DEF AcceptHeader
<1>12. ASSUME NEW t \in Tasks, AcceptFails(t) PROVE TypeOK'
  <2>1. conv' \in [Endpoints -> ConvRecord]
    BY <1>12, HereType, Releases, ConvType DEF AcceptFails
  <2>2. stream' \in [Endpoints -> Seq(Message)]
    BY <1>12, MisreadType DEF AcceptFails
  <2>3. task' \in [Tasks -> TaskRecord]
    BY <1>12, Going DEF AcceptFails, Steps, Becomes
  <2> QED BY <1>12, <2>1, <2>2, <2>3, TypeParts DEF AcceptFails
<1>13. ASSUME NEW t \in Tasks, DecodePayload(t) PROVE TypeOK'
  <2>1. conv' \in [Endpoints -> ConvRecord]
    BY <1>13, HereType, Releases, ConvType DEF DecodePayload
  <2>3. task' \in [Tasks -> TaskRecord]
    BY <1>13, DecodePayloadDoes DEF Becomes
  <2> QED BY <1>13, <2>1, <2>3, TypeParts DEF DecodePayload
<1>14. ASSUME NEW t \in Tasks, DropUndecoded(t) PROVE TypeOK'
  <2>1. conv' \in [Endpoints -> ConvRecord]
    BY <1>14, HereType, Releases, ConvType DEF DropUndecoded
  <2>2. stream' \in [Endpoints -> Seq(Message)]
    BY <1>14, HereType, LeaveType DEF DropUndecoded
  <2>3. task' \in [Tasks -> TaskRecord]
    BY <1>14, Going DEF DropUndecoded, Steps, Becomes
  <2> QED BY <1>14, <2>1, <2>2, <2>3, TypeParts DEF DropUndecoded
<1>15. ASSUME NEW t \in Tasks, Respond(t) PROVE TypeOK'
  <2>1. task' \in [Tasks -> TaskRecord]
    BY <1>15, Going DEF Respond, Steps, Becomes
  <2>2. verdict' \in [Requests -> {None, "success", "failure"}]
    BY <1>15 DEF Respond, Decide, TypeOK
  <2> QED BY <1>15, <2>1, <2>2, TypeParts DEF Respond
<1>16. ASSUME NEW t \in Tasks, DropDecoded(t) PROVE TypeOK'
  <2>1. [Here(t) EXCEPT !.autoFailures = @ \cup {task[t].writeTicket}] \in ConvRecord
    BY HereType DEF ConvRecord, TaskRecord
  <2>2. conv' \in [Endpoints -> ConvRecord]
    BY <1>16, <2>1, ConvType DEF DropDecoded
  <2>4. task' \in [Tasks -> TaskRecord]
    BY <1>16, DropDecodedDoes DEF Becomes
  <2>5. verdict' \in [Requests -> {None, "success", "failure"}]
    BY <1>16 DEF DropDecoded, Decide, TypeOK
  <2> QED BY <1>16, <2>2, <2>4, <2>5, TypeParts DEF DropDecoded
<1>17. ASSUME LoseConnection PROVE TypeOK'
  <2>1. PICK i \in 0..Len(stream["client"]), j \in 0..Len(stream["server"]) :
          stream' = [stream EXCEPT !["client"] = SubSeq(@, 1, i), !["server"] = SubSeq(@, 1, j)]
    BY <1>17 DEF LoseConnection
  <2>2. stream["client"] \in Seq(Message) /\ stream["server"] \in Seq(Message)
    BY Ends DEF TypeOK
  <2>3. SubSeq(stream["client"], 1, i) \in Seq(Message)
    BY <2>2
  <2>4. SubSeq(stream["server"], 1, j) \in Seq(Message)
    BY <2>2
  <2>5. stream' \in [Endpoints -> Seq(Message)]
    BY <2>1, <2>3, <2>4 DEF TypeOK
  <2> QED BY <1>17, <2>5, TypeParts DEF LoseConnection
<1>18. CASE UNCHANGED vars
  BY <1>18, TypeParts DEF vars
<1> QED BY <1>1, <1>2, <1>3, <1>4, <1>5, <1>6, <1>7, <1>8, <1>9, <1>10, <1>11, <1>12, <1>13,
           <1>14, <1>15, <1>16, <1>17, <1>18 DEF Next, Start, Step, Reads
-----------------------------------------------------------------------------
(* Who is where. *)
LEMMA PcStep ==
  ASSUME OneWay, TypeOK, PlaceInv, SendInv, [Next]_vars
  PROVE  PcInv'
<1>0. /\ PcInv
      /\ \A c \in Calls : c \in Tasks /\ c \notin Acceptors
      /\ \A a \in Acceptors : a \in Tasks /\ a \notin Requests /\ a \notin Notices
      /\ \A q \in Requests : q \in Tasks /\ q \notin Notices /\ q \notin Acceptors /\ q \in Calls
      /\ \A c \in Notices : c \in Tasks /\ c \notin Requests /\ c \notin Acceptors /\ c \in Calls
      /\ \A t \in Tasks : t \in Requests \/ t \in Notices \/ t \in Acceptors
  BY Roles DEF PlaceInv
<1>s. ASSUME \A u \in Tasks : SameTask(u) PROVE PcInv'
  BY <1>s, <1>0 DEF PcInv, SameTask
<1>m. ASSUME NEW t \in Tasks, NEW pc, NEW w, NEW r, NEW call, Becomes(t, pc, w, r, call),
             t \in Requests => pc \in {"pair", "to_write", "to_read", "looking", "reading"} \cup Ended,
             t \in Notices => pc \in {"to_write", "sent", "broken", "poisoned"},
             t \in Acceptors =>
               /\ pc \in {"idle", "to_read", "looking", "reading", "header", "decoded", "to_write",
                          "failed"}
               /\ pc = "header" => call \in Calls
               /\ pc \in {"decoded", "to_write"} => call \in Requests
      PROVE  PcInv'
  BY <1>m, <1>0 DEF PcInv, Becomes, Others, SameTask
<1>p. \A c \in Notices : Pc(c) \notin {"to_read", "looking"}
  BY <1>0 DEF PcInv
<1>1. ASSUME NEW t \in Tasks, TakeWriteTicket(t) PROVE PcInv'
  BY <1>1, <1>0, <1>m, TakeWriteTicketDoes DEF Ended
<1>2. ASSUME NEW t \in Tasks, TakeReadTicket(t) PROVE PcInv'
  BY <1>2, <1>0, <1>m, TakeReadTicketDoes DEF Ended
<1>3. ASSUME NEW t \in Tasks, TakeNoticeTicket(t) PROVE PcInv'
  BY <1>3, <1>0, <1>m, TakeNoticeTicketDoes DEF Ended
<1>4. ASSUME NEW t \in Tasks, TakeAcceptTicket(t) PROVE PcInv'
  BY <1>4, <1>0, <1>m, TakeAcceptTicketDoes DEF Ended
<1>5. ASSUME NEW t \in Tasks, DrainAutoFailure(t) PROVE PcInv'
  BY <1>5, <1>0, <1>s, <1>m, DrainAutoFailureDoes
<1>6. ASSUME NEW t \in Tasks, SendCall(t) PROVE PcInv'
  BY <1>6, <1>0, <1>m, SendCallDoes DEF Ended
<1>7. ASSUME NEW t \in Tasks, SendAnswer(t) PROVE PcInv'
  BY <1>7, <1>0, <1>m, SendAnswerDoes DEF Ended
<1>8. ASSUME NEW t \in Tasks, WriteFails(t) PROVE PcInv'
  BY <1>8, <1>0, <1>m, WriteFailsDoes DEF Ended
<1>9. ASSUME NEW t \in Tasks, FindPoisoned(t) \/ ReadLook(t) \/ ReadGrant(t) PROVE PcInv'
  BY <1>9, <1>0, <1>m, <1>p, LoopDoes DEF Ended
<1>10. ASSUME NEW t \in Tasks, Reads(t) PROVE PcInv'
  BY <1>10, <1>0, <1>m, ReadsDoes
<1>11. ASSUME NEW t \in Tasks, AcceptHeader(t) PROVE PcInv'
  BY <1>11, <1>0, <1>m, AcceptHeaderDoes DEF Ended
<1>12. ASSUME NEW t \in Tasks, AcceptFails(t) PROVE PcInv'
  BY <1>12, <1>0, <1>m, AcceptFailsDoes DEF Ended
<1>13. ASSUME NEW t \in Tasks, DecodePayload(t) PROVE PcInv'
  BY <1>13, <1>0, <1>m, DecodePayloadDoes
<1>14. ASSUME NEW t \in Tasks, DropUndecoded(t) PROVE PcInv'
  BY <1>14, <1>0, <1>m, DropUndecodedDoes DEF Ended
<1>15. ASSUME NEW t \in Tasks, Respond(t) PROVE PcInv'
  BY <1>15, <1>0, <1>m, RespondDoes
<1>16. ASSUME NEW t \in Tasks, DropDecoded(t) PROVE PcInv'
  BY <1>16, <1>0, <1>m, DropDecodedDoes DEF Ended
<1>17. ASSUME LoseConnection PROVE PcInv'
  BY <1>17, <1>s, LoseConnectionDoes
<1>18. CASE UNCHANGED vars
  BY <1>18, <1>s DEF vars, SameTask, Pc, W, T, Call
<1> QED BY <1>1, <1>2, <1>3, <1>4, <1>5, <1>6, <1>7, <1>8, <1>9, <1>10, <1>11, <1>12, <1>13,
           <1>14, <1>15, <1>16, <1>17, <1>18 DEF Next, Start, Step, Reads

(* What the ways a stream changes do to the places of its messages. *)
LEMMA SeqChanges ==
  ASSUME NEW s \in Seq(Message), NEW m
  PROVE  /\ Len(s) \in Nat
         /\ Len(Append(s, m)) = Len(s) + 1 /\ Append(s, m)[Len(s) + 1] = m
         /\ \A n \in 1..Len(s) : Append(s, m)[n] = s[n]
         /\ s # <<>> => /\ Len(s) > 0 /\ Len(Tail(s)) = Len(s) - 1
                        /\ \A n \in 1..(Len(s) - 1) : Tail(s)[n] = s[n + 1]
         /\ Len(<<m>> \o s) = Len(s) + 1 /\ (<<m>> \o s)[1] = m
         /\ \A n \in 2..(Len(s) + 1) : (<<m>> \o s)[n] = s[n - 1]
         /\ \A i \in 0..Len(s) : /\ Len(SubSeq(s, 1, i)) = i
                                 /\ \A n \in 1..i : SubSeq(s, 1, i)[n] = s[n]
<1>1. /\ Len(s) \in Nat
      /\ Len(Append(s, m)) = Len(s) + 1 /\ Append(s, m)[Len(s) + 1] = m
      /\ \A n \in 1..Len(s) : Append(s, m)[n] = s[n]
  OBVIOUS
<1>2. s # <<>> => /\ Len(s) > 0 /\ Len(Tail(s)) = Len(s) - 1
                  /\ \A n \in 1..(Len(s) - 1) : Tail(s)[n] = s[n + 1]
  OBVIOUS
<1>3. /\ Len(<<m>> \o s) = Len(s) + 1 /\ (<<m>> \o s)[1] = m
      /\ \A n \in 2..(Len(s) + 1) : (<<m>> \o s)[n] = s[n - 1]
  OBVIOUS
<1>4. \A i \in 0..Len(s) : /\ Len(SubSeq(s, 1, i)) = i
                           /\ \A n \in 1..i : SubSeq(s, 1, i)[n] = s[n]
  OBVIOUS
<1> QED BY <1>1, <1>2, <1>3, <1>4

LEMMA StreamsStep ==
  ASSUME OneWay, TypeOK, PlaceInv, SendInv, OweInv, [Next]_vars
  PROVE  AsksInv' /\ RepliesInv'
<1>0. AsksInv /\ RepliesInv /\ Asks \in Seq(Message) /\ Answers \in Seq(Message)
  BY Types DEF PlaceInv
<1>a. /\ Asks' = Asks => AsksInv'
      /\ \A q \in Requests : Asks' = Append(Asks, Ask(q)) => AsksInv'
      /\ \A c \in Notices : Asks' = Append(Asks, Note(c)) => AsksInv'
      /\ Asks # <<>> /\ Asks' = Tail(Asks) => AsksInv'
      /\ Asks' = <<Reply("residue")>> \o Asks => AsksInv'
      /\ \A i \in 0..Len(Asks) : Asks' = SubSeq(Asks, 1, i) => AsksInv'
  <2>1. Asks' = Asks => AsksInv'
    BY <1>0 DEF AsksInv
  <2>2. ASSUME NEW m, \/ \E q \in Requests : m = Ask(q)
                      \/ \E c \in Notices : m = Note(c),
               Asks' = Append(Asks, m)
        PROVE  AsksInv'
    <3>1. /\ Len(Asks') = Len(Asks) + 1 /\ Asks'[Len(Asks) + 1] = m /\ Len(Asks) \in Nat
          /\ \A n \in 1..Len(Asks) : Asks'[n] = Asks[n]
      BY <1>0, <2>2, SeqChanges
    <3>2. ASSUME NEW n \in 1..(Len(Asks) + 1)
          PROVE  \/ \E q \in Requests : Asks'[n] = Ask(q)
                 \/ \E c \in Notices : Asks'[n] = Note(c)
                 \/ Asks'[n] = Reply("residue")
      <4>1. n \in 1..Len(Asks) \/ n = Len(Asks) + 1
        BY <3>1
      <4> QED BY <1>0, <2>2, <3>1, <4>1 DEF AsksInv
    <3> QED BY <3>1, <3>2 DEF AsksInv
  <2>3. Asks # <<>> /\ Asks' = Tail(Asks) => AsksInv'
    <3> SUFFICES ASSUME Asks # <<>>, Asks' = Tail(Asks), NEW n \in 1..Len(Asks')
                 PROVE  \/ \E q \in Requests : Asks'[n] = Ask(q)
                        \/ \E c \in Notices : Asks'[n] = Note(c)
                        \/ Asks'[n] = Reply("residue")
      BY DEF AsksInv
    <3>1. n + 1 \in 1..Len(Asks) /\ Asks'[n] = Asks[n + 1]
      BY <1>0, SeqChanges
    <3> QED BY <1>0, <3>1 DEF AsksInv
  <2>4. Asks' = <<Reply("residue")>> \o Asks => AsksInv'
    <3> SUFFICES ASSUME Asks' = <<Reply("residue")>> \o Asks, NEW n \in 1..Len(Asks')
                 PROVE  \/ \E q \in Requests : Asks'[n] = Ask(q)
                        \/ \E c \in Notices : Asks'[n] = Note(c)
                        \/ Asks'[n] = Reply("residue")
      BY DEF AsksInv
    <3>1. \/ n = 1 /\ Asks'[n] = Reply("residue")
          \/ n - 1 \in 1..Len(Asks) /\ Asks'[n] = Asks[n - 1]
      BY <1>0, SeqChanges
    <3> QED BY <1>0, <3>1 DEF AsksInv
  <2>5. ASSUME NEW i \in 0..Len(Asks), Asks' = SubSeq(Asks, 1, i) PROVE AsksInv'
    <3>1. Len(Asks') = i /\ Len(Asks) \in Nat /\ \A n \in 1..i : Asks'[n] = Asks[n] /\ n \in 1..Len(Asks)
      BY <1>0, <2>5, SeqChanges
    <3> QED BY <1>0, <3>1 DEF AsksInv
  <2> QED BY <2>1, <2>2, <2>3, <2>4, <2>5
<1>b. /\ Answers' = Answers => RepliesInv'
      /\ \A v \in {"success", "failure"} : Answers' = Append(Answers, Reply(v)) => RepliesInv'
      /\ Answers # <<>> /\ Answers' = Tail(Answers) => RepliesInv'
      /\ \A i \in 0..Len(Answers) : Answers' = SubSeq(Answers, 1, i) => RepliesInv'
      /\ Answers # <<>> /\ LeavesHead => RepliesInv'
  <2>1. Answers' = Answers => RepliesInv'
    BY <1>0 DEF RepliesInv
  <2>2. ASSUME NEW v \in {"success", "failure"}, Answers' = Append(Answers, Reply(v))
        PROVE  RepliesInv'
    <3>1. /\ Len(Answers') = Len(Answers) + 1 /\ Answers'[Len(Answers) + 1] = Reply(v)
          /\ Len(Answers) \in Nat /\ \A n \in 1..Len(Answers) : Answers'[n] = Answers[n]
      BY <1>0, <2>2, SeqChanges
    <3>2. ASSUME NEW n \in 1..(Len(Answers) + 1)
          PROVE  \E w \in {"success", "failure", "residue"} : Answers'[n] = Reply(w)
      <4>1. n \in 1..Len(Answers) \/ n = Len(Answers) + 1
        BY <3>1
      <4> QED BY <1>0, <3>1, <4>1 DEF RepliesInv
    <3> QED BY <3>1, <3>2 DEF RepliesInv
  <2>3. Answers # <<>> /\ Answers' = Tail(Answers) => RepliesInv'
    <3> SUFFICES ASSUME Answers # <<>>, Answers' = Tail(Answers), NEW n \in 1..Len(Answers')
                 PROVE  \E w \in {"success", "failure", "residue"} : Answers'[n] = Reply(w)
      BY DEF RepliesInv
    <3>1. n + 1 \in 1..Len(Answers) /\ Answers'[n] = Answers[n + 1]
      BY <1>0, SeqChanges
    <3> QED BY <1>0, <3>1 DEF RepliesInv
  <2>4. ASSUME NEW i \in 0..Len(Answers), Answers' = SubSeq(Answers, 1, i) PROVE RepliesInv'
    <3>1. /\ Len(Answers') = i /\ Len(Answers) \in Nat
          /\ \A n \in 1..i : Answers'[n] = Answers[n] /\ n \in 1..Len(Answers)
      BY <1>0, <2>4, SeqChanges
    <3> QED BY <1>0, <3>1 DEF RepliesInv
  <2>5. Answers # <<>> /\ LeavesHead => RepliesInv'
    <3> SUFFICES ASSUME Answers # <<>>, Answers' = <<Reply("residue")>> \o Tail(Answers),
                        NEW n \in 1..Len(Answers')
                 PROVE  \E w \in {"success", "failure", "residue"} : Answers'[n] = Reply(w)
      BY DEF RepliesInv, LeavesHead
    <3>1. Tail(Answers) \in Seq(Message) /\ Len(Tail(Answers)) = Len(Answers) - 1
      BY <1>0
    <3>2. \/ n = 1 /\ Answers'[n] = Reply("residue")
          \/ n - 1 \in 1..(Len(Answers) - 1) /\ Answers'[n] = Tail(Answers)[n - 1]
      BY <1>0, <3>1, SeqChanges
    <3>3. \A m \in 1..(Len(Answers) - 1) : Tail(Answers)[m] = Answers[m + 1] /\ m + 1 \in 1..Len(Answers)
      BY <1>0, SeqChanges
    <3>4. \A m \in 1..Len(Answers) :
            \E w \in {"success", "failure", "residue"} : Answers[m] = Reply(w)
      BY <1>0 DEF RepliesInv
    <3> QED BY <3>2, <3>3, <3>4
  <2> QED BY <2>1, <2>2, <2>3, <2>4, <2>5
<1> HIDE DEF AsksInv, RepliesInv
<1>1. ASSUME NEW t \in Tasks, TakeWriteTicket(t) PROVE AsksInv' /\ RepliesInv'
  BY <1>1, <1>a, <1>b, TakeWriteTicketDoes DEF Same
<1>2. ASSUME NEW t \in Tasks, TakeReadTicket(t) PROVE AsksInv' /\ RepliesInv'
  BY <1>2, <1>a, <1>b, TakeReadTicketDoes DEF Same
<1>3. ASSUME NEW t \in Tasks, TakeNoticeTicket(t) PROVE AsksInv' /\ RepliesInv'
  BY <1>3, <1>a, <1>b, TakeNoticeTicketDoes DEF Same
<1>4. ASSUME NEW t \in Tasks, TakeAcceptTicket(t) PROVE AsksInv' /\ RepliesInv'
  BY <1>4, <1>a, <1>b, TakeAcceptTicketDoes DEF Same
<1>5. ASSUME NEW t \in Tasks, DrainAutoFailure(t) PROVE AsksInv' /\ RepliesInv'
  BY <1>5, <1>a, <1>b, DrainAutoFailureDoes DEF Same
<1>6. ASSUME NEW t \in Tasks, SendCall(t) PROVE AsksInv' /\ RepliesInv'
  BY <1>6, <1>a, <1>b, SendCallDoes DEF Same
<1>7. ASSUME NEW t \in Tasks, SendAnswer(t) PROVE AsksInv' /\ RepliesInv'
  <2>1. /\ t \in Acceptors /\ Pc(t) = "to_write" /\ Asks' = Asks
        /\ Answers' = Append(Answers, Reply(verdict[Call(t)]))
    BY <1>7, SendAnswerDoes
  <2>2. verdict[Call(t)] \in {"success", "failure"}
    BY <2>1 DEF PlaceInv, PcInv, Owes, OweInv
  <2> QED BY <1>a, <1>b, <2>1, <2>2
<1>8. ASSUME NEW t \in Tasks, WriteFails(t) PROVE AsksInv' /\ RepliesInv'
  BY <1>8, <1>a, <1>b, WriteFailsDoes DEF Same
<1>9. ASSUME NEW t \in Tasks, FindPoisoned(t) \/ ReadLook(t) \/ ReadGrant(t) PROVE AsksInv' /\ RepliesInv'
  BY <1>9, <1>a, <1>b, LoopDoes DEF Same
<1>10. ASSUME NEW t \in Tasks, Reads(t) PROVE AsksInv' /\ RepliesInv'
  BY <1>10, <1>a, <1>b, ReadsDoes
<1>11. ASSUME NEW t \in Tasks, AcceptHeader(t) PROVE AsksInv' /\ RepliesInv'
  BY <1>11, <1>a, <1>b, AcceptHeaderDoes DEF Same
<1>12. ASSUME NEW t \in Tasks, AcceptFails(t) PROVE AsksInv' /\ RepliesInv'
  BY <1>12, <1>a, <1>b, AcceptFailsDoes DEF Same
<1>13. ASSUME NEW t \in Tasks, DecodePayload(t) PROVE AsksInv' /\ RepliesInv'
  BY <1>13, <1>a, <1>b, DecodePayloadDoes DEF Same
<1>14. ASSUME NEW t \in Tasks, DropUndecoded(t) PROVE AsksInv' /\ RepliesInv'
  BY <1>14, <1>a, <1>b, DropUndecodedDoes DEF Same
<1>15. ASSUME NEW t \in Tasks, Respond(t) PROVE AsksInv' /\ RepliesInv'
  BY <1>15, <1>a, <1>b, RespondDoes DEF Same
<1>16. ASSUME NEW t \in Tasks, DropDecoded(t) PROVE AsksInv' /\ RepliesInv'
  BY <1>16, <1>a, <1>b, DropDecodedDoes DEF Same
<1>17. ASSUME LoseConnection PROVE AsksInv' /\ RepliesInv'
  BY <1>17, <1>a, <1>b, LoseConnectionDoes
<1>18. CASE UNCHANGED vars
  BY <1>18, <1>a, <1>b DEF vars, Asks, Answers
<1> QED BY <1>1, <1>2, <1>3, <1>4, <1>5, <1>6, <1>7, <1>8, <1>9, <1>10, <1>11, <1>12, <1>13,
           <1>14, <1>15, <1>16, <1>17, <1>18 DEF Next, Start, Step, Reads

-----------------------------------------------------------------------------
(* The tickets.  A step takes one, moves a call that has its tickets, or   *)
(* leaves the client alone.                                                *)
Quiet == SameClient /\ \A c \in Calls : SameTask(c)
WriterMoves(c) ==
  /\ C'.autoFailures = C.autoFailures
  /\ C'.poisoned => C.poisoned \/ down
  /\ \/ C'.writeServing = C.writeServing /\ (Pc(c) = "to_write" => C.poisoned)
     \/ /\ C'.writeServing = C.writeServing + 1 /\ C.writeServing = W(c)
        /\ Pc(c) = "to_write"
Advances(c) ==
  /\ HasTicket(c) /\ HasTicket(c)' /\ Sent(c)' /\ W(c)' = W(c) /\ T(c)' = T(c)
  /\ WriterMoves(c)
  /\ Pc(c) \in {"to_write", "to_read", "looking", "reading"} /\ Others(c)
  /\ C'.writeNext = C.writeNext /\ C'.readNext = C.readNext /\ C'.pairLock = C.pairLock
TakesTicket(t) == TakeWriteTicket(t) \/ TakeReadTicket(t) \/ TakeNoticeTicket(t)

LEMMA Becoming2 ==
  ASSUME OneWay, NEW t \in Tasks, NEW pc, NEW w, NEW r, NEW call, Becomes(t, pc, w, r, call)
  PROVE  t \in Acceptors => \A c \in Calls : SameTask(c)
BY Roles DEF Becomes, Others

LEMMA CallCases ==
  ASSUME OneWay, TypeOK, PlaceInv, SendInv, [Next]_vars
  PROVE  \/ \E t \in Tasks : TakesTicket(t)
         \/ Quiet
         \/ \E c \in Calls : Advances(c)
<1>0. /\ \A c \in Calls : c \in Tasks /\ c \notin Acceptors
      /\ \A q \in Requests : q \in Calls
      /\ \A t \in Tasks : t \in Calls \/ t \in Acceptors
  BY Roles
<1> DEFINE Goal == \/ \E t \in Tasks : TakesTicket(t)
                   \/ Quiet
                   \/ \E c \in Calls : Advances(c)
<1>1. ASSUME NEW t \in Tasks, TakesTicket(t) PROVE Goal
  BY <1>1
<1>c. ASSUME NEW c \in Calls, NEW pc, Becomes(c, pc, W(c), T(c), Call(c)),
             pc \notin {"idle", "pair", "to_write"},
             Pc(c) \in {"to_write", "to_read", "looking", "reading"}, WriterMoves(c),
             C'.writeNext = C.writeNext, C'.readNext = C.readNext, C'.pairLock = C.pairLock
      PROVE  Goal
  <2>1. Advances(c)
    BY <1>c DEF Advances, Becomes, HasTicket, Sent
  <2> QED BY <2>1
<1>a. ASSUME NEW a \in Acceptors, SameClient, NEW pc, NEW w, NEW r, NEW call,
             Becomes(a, pc, w, r, call)
      PROVE  Goal
  <2>1. a \in Tasks
    BY Roles
  <2>2. Quiet
    BY <1>a, <2>1, Becoming2 DEF Quiet
  <2> QED BY <2>2
<1>s. ASSUME SameClient, \A u \in Tasks : SameTask(u) PROVE Goal
  BY <1>s, <1>0 DEF Quiet
<1> HIDE DEF Goal
<1>2. ASSUME NEW t \in Tasks, TakeAcceptTicket(t) PROVE Goal
  BY <1>2, <1>a, TakeAcceptTicketDoes
<1>3. ASSUME NEW t \in Tasks, DrainAutoFailure(t) PROVE Goal
  BY <1>3, <1>a, <1>s, DrainAutoFailureDoes
<1>4. ASSUME NEW t \in Tasks, SendCall(t) PROVE Goal
  <2>1. WriterMoves(t) /\ t \in Calls
    BY <1>4, SendCallDoes DEF ClientIs, WriterMoves
  <2> QED BY <1>4, <1>0, <1>c, <2>1, SendCallDoes DEF ClientIs
<1>5. ASSUME NEW t \in Tasks, SendAnswer(t) PROVE Goal
  BY <1>5, <1>a, SendAnswerDoes
<1>6. ASSUME NEW t \in Tasks, WriteFails(t) PROVE Goal
  <2>1. CASE t \in Acceptors
    BY <1>0, <1>6, <1>a, <2>1, WriteFailsDoes
  <2>2. CASE t \in Calls
    <3>1. /\ Pc(t) = "to_write" /\ Becomes(t, "broken", W(t), T(t), Call(t))
          /\ ClientIs(C.writeNext, C.writeServing + 1, C.readNext, C.readServing, C.pairLock,
                      C.autoFailures, TRUE)
      BY <1>0, <1>6, <2>2, WriteFailsDoes
    <3>2. C'.writeNext = C.writeNext /\ C'.readNext = C.readNext /\ C'.pairLock = C.pairLock
      BY <3>1 DEF ClientIs
    <3>3. down /\ C.writeServing = W(t)
      BY <1>0, <1>6, <2>2, WriteFailsDoes
    <3>4. C'.autoFailures = C.autoFailures /\ C'.writeServing = C.writeServing + 1
      BY <3>1 DEF ClientIs
    <3>5. WriterMoves(t)
      BY <3>1, <3>3, <3>4 DEF WriterMoves
    <3> QED BY <1>c, <2>2, <3>1, <3>2, <3>5
  <2> QED BY <1>0, <2>1, <2>2
<1>7. ASSUME NEW t \in Tasks, FindPoisoned(t) \/ ReadLook(t) \/ ReadGrant(t) PROVE Goal
  <2>1. CASE t \in Acceptors
    BY <1>7, <2>1, <1>a, LoopDoes
  <2>2. CASE t \in Calls
    <3>1. WriterMoves(t)
      BY <1>7, <2>2, <1>0, LoopDoes DEF SameClient, ClientIs, WriterMoves
    <3> QED BY <1>7, <2>2, <3>1, <1>0, <1>c, LoopDoes DEF SameClient, ClientIs
  <2> QED BY <1>0, <2>1, <2>2
<1>8. ASSUME NEW t \in Tasks, Reads(t) PROVE Goal
  <2>1. WriterMoves(t) /\ t \in Calls
    BY <1>8, <1>0, ReadsDoes DEF ClientIs, WriterMoves
  <2>2. \A pc \in Ended : pc \notin {"idle", "pair", "to_write"}
    BY DEF Ended, GaveUp
  <2> QED BY <1>8, <1>c, <2>1, <2>2, ReadsDoes DEF ClientIs
<1>9. ASSUME NEW t \in Tasks, AcceptHeader(t) PROVE Goal
  BY <1>9, <1>a, AcceptHeaderDoes
<1>10. ASSUME NEW t \in Tasks, AcceptFails(t) PROVE Goal
  BY <1>10, <1>a, AcceptFailsDoes
<1>11. ASSUME NEW t \in Tasks, DecodePayload(t) PROVE Goal
  BY <1>11, <1>a, DecodePayloadDoes
<1>12. ASSUME NEW t \in Tasks, DropUndecoded(t) PROVE Goal
  BY <1>12, <1>a, DropUndecodedDoes
<1>13. ASSUME NEW t \in Tasks, Respond(t) PROVE Goal
  BY <1>13, <1>a, RespondDoes
<1>14. ASSUME NEW t \in Tasks, DropDecoded(t) PROVE Goal
  BY <1>14, <1>a, DropDecodedDoes
<1>15. ASSUME LoseConnection PROVE Goal
  BY <1>15, <1>s, LoseConnectionDoes
<1>16. ASSUME UNCHANGED vars PROVE Goal
  <2>1. \A u \in Tasks : SameTask(u)
    BY <1>16 DEF vars, SameTask, Pc, W, T, Call
  <2>2. SameClient
    BY <1>16, SameEnds DEF vars
  <2> QED BY <1>s, <2>1, <2>2
<1>17. Goal
  BY <1>1, <1>2, <1>3, <1>4, <1>5, <1>6, <1>7, <1>8, <1>9, <1>10, <1>11, <1>12, <1>13, <1>14,
     <1>15, <1>16 DEF Next, Start, Step, TakesTicket, Reads
<1> QED BY <1>17 DEF Goal

LEMMA TicketStep ==
  ASSUME OneWay, TypeOK, PlaceInv, SendInv, TicketInv, [Next]_vars
  PROVE  TicketInv'
<1>0. /\ \A c \in Calls : c \in Tasks /\ W(c) \in Nat /\ T(c) \in Nat /\ c # None
      /\ \A q \in Requests : q \in Calls
      /\ \A n \in Notices : n \in Calls /\ n \notin Requests
      /\ C.writeNext \in Nat /\ C.readNext \in Nat
  BY Types, Roles DEF ConvRecord
<1>1. ASSUME Quiet PROVE TicketInv'
  BY <1>0, <1>1 DEF TicketInv, Quiet, SameClient, ClientIs, SameTask, HasTicket
<1>2. ASSUME NEW c \in Calls, Advances(c) PROVE TicketInv'
  <2>1. /\ \A d \in Calls : W(d)' = W(d) /\ T(d)' = T(d) /\ (HasTicket(d)' <=> HasTicket(d))
                            /\ (Pc(d)' = "idle" <=> Pc(d) = "idle")
                            /\ (Pc(d)' = "pair" <=> Pc(d) = "pair")
      /\ C'.writeNext = C.writeNext /\ C'.readNext = C.readNext /\ C'.pairLock = C.pairLock
    BY <1>0, <1>2 DEF Advances, Others, SameTask, HasTicket
  <2> QED BY <1>0, <2>1 DEF TicketInv
<1>3. ASSUME NEW t \in Tasks, TakeNoticeTicket(t) PROVE TicketInv'
  <2>1. /\ t \in Notices /\ t \in Calls /\ t \notin Requests /\ Pc(t) = "idle"
        /\ W(t)' = C.writeNext /\ Pc(t)' = "to_write"
        /\ \A d \in Calls : d # t => SameTask(d)
        /\ C'.writeNext = C.writeNext + 1 /\ C'.readNext = C.readNext /\ C'.pairLock = C.pairLock
    BY <1>0, <1>3, TakeNoticeTicketDoes DEF Becomes, Others, ClientIs
  <2> QED BY <1>0, <2>1 DEF TicketInv, SameTask, HasTicket
<1>4. ASSUME NEW t \in Tasks, TakeWriteTicket(t) PROVE TicketInv'
  <2>1. /\ t \in Requests /\ t \in Calls /\ Pc(t) = "idle" /\ C.pairLock = None
        /\ W(t)' = C.writeNext /\ Pc(t)' = "pair" /\ T(t)' = T(t)
        /\ \A d \in Calls : d # t => SameTask(d)
        /\ C'.writeNext = C.writeNext + 1 /\ C'.readNext = C.readNext /\ C'.pairLock = t
    BY <1>0, <1>4, TakeWriteTicketDoes DEF Becomes, Others, ClientIs
  <2>2. \A q \in Requests : HasTicket(q)' <=> HasTicket(q)
    BY <1>0, <2>1 DEF HasTicket, SameTask
  <2>3. \A q \in Requests : Pc(q) # "pair"
    BY <1>0, <2>1 DEF TicketInv
  <2>4. /\ \A c \in Calls : Pc(c)' # "idle" => W(c)' < C'.writeNext
        /\ \A c, d \in Calls : Pc(c)' # "idle" /\ Pc(d)' # "idle" /\ W(c)' = W(d)' => c = d
    BY <1>0, <2>1 DEF TicketInv, SameTask
  <2>5. \A q \in Requests : Pc(q)' = "pair" <=> C'.pairLock = q
    BY <1>0, <2>1, <2>3 DEF SameTask
  <2>6. \A q, r \in Requests : Pc(q)' = "pair" /\ HasTicket(r)' => W(r)' < W(q)'
    BY <1>0, <2>1, <2>2, <2>3 DEF TicketInv, SameTask, HasTicket
  <2>7. \A q \in Requests : HasTicket(q)' => W(q)' = W(q) /\ T(q)' = T(q)
    BY <1>0, <2>1 DEF SameTask, HasTicket
  <2>8. \A k \in Nat : k < C'.readNext => \E q \in Requests : HasTicket(q)' /\ T(q)' = k
    BY <2>1, <2>2, <2>7 DEF TicketInv
  <2> QED BY <2>1, <2>2, <2>4, <2>5, <2>6, <2>7, <2>8 DEF TicketInv
<1>5. ASSUME NEW t \in Tasks, TakeReadTicket(t) PROVE TicketInv'
  <2>1. /\ t \in Requests /\ t \in Calls /\ Pc(t) = "pair"
        /\ W(t)' = W(t) /\ Pc(t)' = "to_write" /\ T(t)' = C.readNext
        /\ \A d \in Calls : d # t => SameTask(d)
        /\ C'.writeNext = C.writeNext /\ C'.readNext = C.readNext + 1 /\ C'.pairLock = None
    BY <1>0, <1>5, TakeReadTicketDoes DEF Becomes, Others, ClientIs
  <2>2. \A q \in Requests : HasTicket(q)' <=> HasTicket(q) \/ q = t
    BY <1>0, <2>1 DEF HasTicket, SameTask
  <2>3. \A q \in Requests : Pc(q)' # "pair" /\ W(q)' = W(q) /\ (q # t => T(q)' = T(q))
    BY <1>0, <2>1 DEF TicketInv, SameTask
  <2>4. /\ \A c \in Calls : Pc(c)' # "idle" => W(c)' < C'.writeNext
        /\ \A c, d \in Calls : Pc(c)' # "idle" /\ Pc(d)' # "idle" /\ W(c)' = W(d)' => c = d
    BY <1>0, <2>1 DEF TicketInv, SameTask
  <2>5. \A q \in Requests : Pc(q)' = "pair" <=> C'.pairLock = q
    BY <1>0, <2>1, <2>3
  <2>6. \A q \in Requests : HasTicket(q) => T(q) < C.readNext /\ W(q) < W(t) /\ q # t
    BY <2>1 DEF TicketInv, HasTicket
  <2>7. /\ \A q, r \in Requests : HasTicket(q)' /\ HasTicket(r)' /\ T(q)' = T(r)' => q = r
        /\ \A q, r \in Requests : HasTicket(q)' /\ HasTicket(r)' /\ T(q)' < T(r)' => W(q)' < W(r)'
        /\ \A q \in Requests : HasTicket(q)' => T(q)' < C'.readNext
    BY <1>0, <2>1, <2>2, <2>3, <2>6 DEF TicketInv
  <2>8. ASSUME NEW k \in Nat, k < C'.readNext
        PROVE  \E q \in Requests : HasTicket(q)' /\ T(q)' = k
    <3>1. CASE k < C.readNext
      BY <2>2, <2>3, <2>6, <3>1 DEF TicketInv
    <3>2. CASE k = C.readNext
      BY <2>1, <2>2, <3>2
    <3> QED BY <1>0, <2>1, <2>8, <3>1, <3>2
  <2> QED BY <2>3, <2>4, <2>5, <2>7, <2>8 DEF TicketInv
<1> QED BY <1>1, <1>2, <1>3, <1>4, <1>5, CallCases DEF TakesTicket

(* A lost connection stays lost. *)
LEMMA DownStays ==
  ASSUME [Next]_vars, down
  PROVE  down'
<1>1. ASSUME NEW t \in Tasks, Start(t) PROVE down' = down
  BY <1>1 DEF Start, TakeWriteTicket, TakeNoticeTicket
<1>2. ASSUME NEW t \in Tasks,
             \/ TakeReadTicket(t) \/ TakeAcceptTicket(t) \/ DrainAutoFailure(t)
             \/ SendCall(t) \/ SendAnswer(t) \/ WriteFails(t) \/ FindPoisoned(t)
      PROVE  down' = down
  BY <1>2 DEF TakeReadTicket, TakeAcceptTicket, DrainAutoFailure, SendCall, SendAnswer,
     WriteFails, FindPoisoned
<1>3. ASSUME NEW t \in Tasks,
             \/ ReadLook(t) \/ ReadGrant(t) \/ Reads(t) \/ AcceptHeader(t)
             \/ AcceptFails(t) \/ DecodePayload(t) \/ Respond(t)
             \/ DropUndecoded(t) \/ DropDecoded(t)
      PROVE  down' = down
  BY <1>3 DEF Reads, ReadLook, ReadGrant, ReadAnswer, DropReading, DecodeSuccessFails,
     AcceptHeader, AcceptFails, DecodePayload,
     Respond, DropUndecoded, DropDecoded
<1>4. ASSUME LoseConnection PROVE down'
  BY <1>4 DEF LoseConnection
<1>5. ASSUME UNCHANGED vars PROVE down' = down
  BY <1>5 DEF vars
<1> QED BY <1>1, <1>2, <1>3, <1>4, <1>5 DEF Next, Step, Reads

(* The client's writer is served in the order of the tickets. *)
LEMMA SendStep ==
  ASSUME OneWay, TypeOK, PlaceInv, SendInv, TicketInv, [Next]_vars
  PROVE  SendInv'
<1>0. /\ \A c \in Calls : c \in Tasks /\ W(c) \in Nat /\ T(c) \in Nat
      /\ \A q \in Requests : q \in Calls
      /\ \A n \in Notices : n \in Calls /\ n \notin Requests
      /\ C.writeNext \in Nat /\ C.writeServing \in Nat
      /\ down => down'
  BY Types, Roles, DownStays DEF ConvRecord
<1>1. ASSUME Quiet PROVE SendInv'
  <2>1. /\ C'.autoFailures = C.autoFailures /\ C'.writeServing = C.writeServing
        /\ C'.writeNext = C.writeNext /\ (C'.poisoned => C.poisoned)
        /\ \A c \in Calls : W(c)' = W(c) /\ Pc(c)' = Pc(c)
    BY <1>1 DEF Quiet, SameClient, ClientIs, SameTask
  <2> QED BY <1>0, <2>1 DEF SendInv, Sent
<1>2. ASSUME NEW c \in Calls, Advances(c) PROVE SendInv'
  <2>1. /\ C'.autoFailures = C.autoFailures /\ C'.writeNext = C.writeNext
        /\ C'.poisoned => C.poisoned \/ down
        /\ Sent(c)' /\ HasTicket(c) /\ W(c)' = W(c) /\ \A d \in Calls : d # c => SameTask(d)
        /\ W(c) < C.writeNext
    BY <1>0, <1>2 DEF Advances, WriterMoves, Others, TicketInv, HasTicket
  <2>2. CASE C'.writeServing = C.writeServing /\ (Pc(c) = "to_write" => C.poisoned)
    <3>1. ~down' => Sent(c) \/ c \notin Requests
      BY <1>0, <2>1, <2>2 DEF SendInv, Sent, HasTicket
    <3>2. Pc(c)' \notin {"pair", "to_write"}
      BY <2>1 DEF Sent
    <3> QED BY <1>0, <2>1, <2>2, <3>1, <3>2 DEF SendInv, SameTask, Sent
  <2>3. CASE /\ C'.writeServing = C.writeServing + 1 /\ C.writeServing = W(c)
             /\ Pc(c) = "to_write"
    <3>1. Pc(c)' \notin {"pair", "to_write"}
      BY <2>1 DEF Sent
    <3>2. ASSUME NEW d \in Calls, d # c, Pc(d) \in {"pair", "to_write"}
          PROVE  C.writeServing + 1 <= W(d)
      <4>1. W(d) # W(c) /\ C.writeServing <= W(d)
        BY <2>3, <3>2 DEF TicketInv, SendInv
      <4> QED BY <1>0, <2>3, <4>1
    <3>3. \A d \in Calls : Pc(d)' \in {"pair", "to_write"} => C'.writeServing <= W(d)'
      BY <2>1, <2>3, <3>1, <3>2 DEF SameTask
    <3>4. ~down' => \A q \in Requests : Sent(q)' => W(q)' < C'.writeServing
      BY <1>0, <2>1, <2>3 DEF SendInv, SameTask, Sent
    <3>5. C'.writeServing <= C'.writeNext
      BY <1>0, <2>1, <2>3
    <3> QED BY <1>0, <2>1, <3>3, <3>4, <3>5 DEF SendInv
  <2> QED BY <1>2, <2>2, <2>3 DEF Advances, WriterMoves
<1>3. ASSUME NEW t \in Tasks, TakesTicket(t) PROVE SendInv'
  <2>1. /\ t \in Calls /\ Pc(t)' \in {"pair", "to_write"}
        /\ \/ Pc(t) = "idle" /\ W(t)' = C.writeNext /\ C'.writeNext = C.writeNext + 1
           \/ Pc(t) = "pair" /\ W(t)' = W(t) /\ C'.writeNext = C.writeNext
        /\ \A d \in Calls : d # t => SameTask(d)
        /\ C'.writeServing = C.writeServing /\ C'.autoFailures = C.autoFailures
        /\ C'.poisoned => C.poisoned
    BY <1>0, <1>3, TakeWriteTicketDoes, TakeReadTicketDoes, TakeNoticeTicketDoes
       DEF TakesTicket, Becomes, Others, ClientIs
  <2>2. \A c \in Calls : Pc(c)' \in {"pair", "to_write"} => C'.writeServing <= W(c)'
    BY <1>0, <2>1 DEF SendInv, SameTask
  <2>3. ~down' => \A q \in Requests : Sent(q)' => W(q)' < C'.writeServing
    BY <1>0, <2>1 DEF SendInv, SameTask, Sent
  <2>4. C'.writeServing <= C'.writeNext
    BY <1>0, <2>1 DEF SendInv
  <2> QED BY <1>0, <2>1, <2>2, <2>3, <2>4 DEF SendInv
<1> QED BY <1>1, <1>2, <1>3, CallCases
-----------------------------------------------------------------------------
(* The requests under way. *)
LEMMA AskAtChanges ==
  ASSUME TypeOK
  PROVE  /\ \A c \in Requests : Asks' = Append(Asks, Ask(c)) =>
              \A n \in Nat, r \in Requests :
                AskAt(n, r)' <=> AskAt(n, r) \/ (n = Len(Asks) + 1 /\ r = c)
         /\ \A c \in Notices : Asks' = Append(Asks, Note(c)) =>
              \A n \in Nat, r \in Requests : AskAt(n, r)' <=> AskAt(n, r)
         /\ Asks # <<>> /\ Asks' = Tail(Asks) =>
              \A n \in Nat, r \in Requests : AskAt(n, r)' <=> n # 0 /\ AskAt(n + 1, r)
         /\ Asks' = <<Reply("residue")>> \o Asks =>
              \A n \in Nat, r \in Requests : AskAt(n, r)' <=> n # 0 /\ AskAt(n - 1, r)
         /\ \A i \in 0..Len(Asks) : Asks' = SubSeq(Asks, 1, i) =>
              \A n \in Nat, r \in Requests : AskAt(n, r)' <=> n <= i /\ AskAt(n, r)
<1>0. Asks \in Seq(Message) /\ Len(Asks) \in Nat
  BY Types
<1>1. \A q, r : Ask(q) = Ask(r) => q = r
  <2>1. \A q : Ask(q).call = q
    BY DEF Ask
  <2> QED BY <2>1
<1>2. \A q, r : Ask(q) # Note(r) /\ Ask(q) # Reply("residue")
  <2>1. \A q : Ask(q).kind = "request"
    BY DEF Ask
  <2>2. \A q : Note(q).kind = "notice"
    BY DEF Note
  <2>3. Reply("residue").kind = "residue"
    BY DEF Reply
  <2> QED BY <2>1, <2>2, <2>3
<1>3. ASSUME NEW c \in Requests, Asks' = Append(Asks, Ask(c)), NEW n \in Nat, NEW r \in Requests
      PROVE  AskAt(n, r)' <=> AskAt(n, r) \/ (n = Len(Asks) + 1 /\ r = c)
  <2>1. /\ Len(Asks') = Len(Asks) + 1 /\ Asks'[Len(Asks) + 1] = Ask(c)
        /\ \A k \in 1..Len(Asks) : Asks'[k] = Asks[k]
    BY <1>0, <1>3, SeqChanges
  <2> QED BY <1>0, <1>1, <2>1 DEF AskAt
<1>4. ASSUME NEW c \in Notices, Asks' = Append(Asks, Note(c)), NEW n \in Nat, NEW r \in Requests
      PROVE  AskAt(n, r)' <=> AskAt(n, r)
  <2>1. /\ Len(Asks') = Len(Asks) + 1 /\ Asks'[Len(Asks) + 1] = Note(c)
        /\ \A k \in 1..Len(Asks) : Asks'[k] = Asks[k]
    BY <1>0, <1>4, SeqChanges
  <2> QED BY <1>0, <1>2, <2>1 DEF AskAt
<1>5. ASSUME Asks # <<>>, Asks' = Tail(Asks), NEW n \in Nat, NEW r \in Requests
      PROVE  AskAt(n, r)' <=> n # 0 /\ AskAt(n + 1, r)
  <2>1. /\ Len(Asks') = Len(Asks) - 1 /\ Len(Asks) > 0
        /\ \A k \in 1..(Len(Asks) - 1) : Asks'[k] = Asks[k + 1]
    BY <1>0, <1>5, SeqChanges
  <2> QED BY <1>0, <2>1 DEF AskAt
<1>6. ASSUME Asks' = <<Reply("residue")>> \o Asks, NEW n \in Nat, NEW r \in Requests
      PROVE  AskAt(n, r)' <=> n # 0 /\ AskAt(n - 1, r)
  <2>1. /\ Len(Asks') = Len(Asks) + 1 /\ Asks'[1] = Reply("residue")
        /\ \A k \in 2..(Len(Asks) + 1) : Asks'[k] = Asks[k - 1]
    BY <1>0, <1>6, SeqChanges
  <2> QED BY <1>0, <1>2, <2>1 DEF AskAt
<1>7. ASSUME NEW i \in 0..Len(Asks), Asks' = SubSeq(Asks, 1, i), NEW n \in Nat, NEW r \in Requests
      PROVE  AskAt(n, r)' <=> n <= i /\ AskAt(n, r)
  <2>1. Len(Asks') = i /\ \A k \in 1..i : Asks'[k] = Asks[k]
    BY <1>0, <1>7, SeqChanges
  <2> QED BY <1>0, <2>1 DEF AskAt
<1> QED BY <1>3, <1>4, <1>5, <1>6, <1>7

(* The tickets of the requests stay, and so does what they have sent. *)
TicketsKept ==
  /\ C'.readNext = C.readNext
  /\ \A q \in Requests : /\ HasTicket(q)' <=> HasTicket(q)
                         /\ HasTicket(q) => T(q)' = T(q)
SentKept == ~down' => \A q \in Requests : Sent(q)' <=> Sent(q)

LEMMA QuietKeeps ==
  ASSUME OneWay, TypeOK, Quiet
  PROVE  TicketsKept /\ SentKept
BY Roles DEF Quiet, SameClient, ClientIs, SameTask, TicketsKept, SentKept, HasTicket, Sent

LEMMA AdvanceKeeps ==
  ASSUME OneWay, TypeOK, SendInv, NEW c \in Calls, Advances(c), down => down'
  PROVE  /\ TicketsKept
         /\ down \/ C'.writeServing = C.writeServing \/ c \notin Requests => SentKept
<1>0. \A q \in Requests : q \in Calls /\ q \in Tasks
  BY Roles
<1>1. TicketsKept
  BY <1>0 DEF Advances, Others, SameTask, TicketsKept, HasTicket
<1>2. ASSUME c \notin Requests PROVE SentKept
  BY <1>0, <1>2 DEF Advances, Others, SameTask, SentKept, Sent
<1>3. ASSUME C'.writeServing = C.writeServing PROVE SentKept
  <2>1. C.writeServing \in Nat
    BY Types DEF ConvRecord
  <2>2. Pc(c) = "to_write" => C.poisoned
    BY <1>3, <2>1 DEF Advances, WriterMoves
  <2>3. ~down' => Sent(c)
    BY <2>2 DEF SendInv, Sent, Advances
  <2> QED BY <1>0, <2>3 DEF Advances, Others, SameTask, SentKept, Sent
<1> QED BY <1>1, <1>2, <1>3 DEF SentKept

LEMMA AskKept ==
  ASSUME AskInv, TicketsKept, SentKept, down => down', S'.writeNext = S.writeNext,
         \A n \in Nat, r \in Requests : AskAt(n, r)' <=> AskAt(n, r)
  PROVE  AskInv'
<1>1. ASSUME NEW n \in Nat, NEW q \in Requests, AskAt(n, q)
      PROVE  HasTicket(q)' /\ S'.writeNext <= T(q)' /\ (~down' => Sent(q)') /\ T(q)' = T(q)
  BY <1>1 DEF AskInv, TicketsKept, SentKept
<1>2. \A n, m \in Nat, q, r \in Requests :
        AskAt(n, q)' /\ AskAt(m, r)' /\ n < m => T(q)' < T(r)'
  BY <1>1 DEF AskInv
<1>3. ASSUME NEW n \in Nat, NEW q \in Requests, AskAt(n, q)',
             NEW k \in Nat, S'.writeNext <= k, k < T(q)'
      PROVE  \E m \in Nat, r \in Requests : m < n /\ AskAt(m, r)' /\ T(r)' = k
  <2>1. PICK m \in Nat, r \in Requests : m < n /\ AskAt(m, r) /\ T(r) = k
    BY <1>1, <1>3 DEF AskInv
  <2> QED BY <1>1, <2>1
<1>4. ~down' => \A q \in Requests : HasTicket(q)' /\ T(q)' < S'.writeNext => Sent(q)'
  BY DEF AskInv, TicketsKept, SentKept
<1>5. ASSUME ~down', NEW q \in Requests, Sent(q)', S'.writeNext <= T(q)'
      PROVE  \E m \in Nat : AskAt(m, q)'
  <2>1. Sent(q) /\ T(q)' = T(q)
    BY <1>5 DEF SentKept, TicketsKept, Sent, HasTicket
  <2> QED BY <1>5, <2>1 DEF AskInv
<1>6. S'.writeNext <= C'.readNext
  BY DEF AskInv, TicketsKept
<1> QED BY <1>1, <1>2, <1>3, <1>4, <1>5, <1>6 DEF AskInv

(* A request is sent behind those with smaller tickets. *)
LEMMA AskSend ==
  ASSUME OneWay, TypeOK, TicketInv, SendInv, AskInv, NEW c \in Requests,
         TicketsKept, ~down, UNCHANGED down, S'.writeNext = S.writeNext,
         Pc(c) = "to_write", C.writeServing = W(c), Sent(c)',
         \A q \in Requests : q # c => (Sent(q)' <=> Sent(q)),
         \A n \in Nat, r \in Requests :
           AskAt(n, r)' <=> AskAt(n, r) \/ (n = Len(Asks) + 1 /\ r = c)
  PROVE  AskInv'
<1>0. /\ \A q \in Requests : q \in Calls /\ W(q) \in Nat /\ T(q) \in Nat
      /\ S.writeNext \in Nat /\ C.readNext \in Nat /\ C.writeServing \in Nat
      /\ Len(Asks) \in Nat
  BY Types, Roles DEF ConvRecord
<1>c. HasTicket(c) /\ ~Sent(c) /\ T(c)' = T(c) /\ HasTicket(c)' /\ S.writeNext <= T(c)
  <2>1. HasTicket(c) /\ ~Sent(c)
    BY DEF HasTicket, Sent
  <2>2. ~(T(c) < S.writeNext)
    BY <2>1 DEF AskInv
  <2> QED BY <1>0, <2>1, <2>2 DEF TicketsKept
<1>a. \A n \in Nat, q \in Requests : AskAt(n, q) => n <= Len(Asks)
  BY <1>0 DEF AskAt
<1>b. ASSUME NEW n \in Nat, NEW q \in Requests, AskAt(n, q)
      PROVE  /\ HasTicket(q) /\ HasTicket(q)' /\ T(q)' = T(q) /\ S.writeNext <= T(q)
             /\ Sent(q) /\ Sent(q)' /\ T(q) < T(c)
  <2>1. HasTicket(q) /\ HasTicket(q)' /\ T(q)' = T(q) /\ S.writeNext <= T(q) /\ Sent(q)
    BY <1>b DEF AskInv, TicketsKept
  <2>2. q # c /\ Sent(q)'
    BY <1>c, <2>1
  <2>3. W(q) < W(c)
    BY <2>1 DEF SendInv
  <2>4. T(q) # T(c) /\ ~(T(c) < T(q))
    BY <1>0, <1>c, <2>1, <2>2, <2>3 DEF TicketInv
  <2> QED BY <1>0, <2>1, <2>2, <2>4
<1>1. ASSUME NEW n \in Nat, NEW q \in Requests, AskAt(n, q)'
      PROVE  HasTicket(q)' /\ S'.writeNext <= T(q)' /\ (~down' => Sent(q)')
  BY <1>1, <1>b, <1>c
<1>2. ASSUME NEW n \in Nat, NEW m \in Nat, NEW q \in Requests, NEW r \in Requests,
             AskAt(n, q)', AskAt(m, r)', n < m
      PROVE  T(q)' < T(r)'
  <2>1. AskAt(n, q)
    <3>1. m <= Len(Asks) + 1
      BY <1>0, <1>2, <1>a
    <3> QED BY <1>0, <1>2, <3>1
  <2>2. CASE AskAt(m, r)
    BY <1>2, <1>b, <2>1, <2>2 DEF AskInv
  <2>3. CASE r = c
    BY <1>b, <1>c, <2>1, <2>3
  <2> QED BY <1>2, <2>2, <2>3
<1>3. ASSUME NEW n \in Nat, NEW q \in Requests, AskAt(n, q)',
             NEW k \in Nat, S'.writeNext <= k, k < T(q)'
      PROVE  \E m \in Nat, r \in Requests : m < n /\ AskAt(m, r)' /\ T(r)' = k
  <2>1. CASE AskAt(n, q)
    <3>1. PICK m \in Nat, r \in Requests : m < n /\ AskAt(m, r) /\ T(r) = k
      BY <1>3, <1>b, <2>1 DEF AskInv
    <3> QED BY <1>b, <3>1
  <2>2. CASE n = Len(Asks) + 1 /\ q = c
    <3>1. k < T(c) /\ S.writeNext <= k
      BY <1>3, <1>c, <2>2
    <3>2. k < C.readNext
      BY <1>0, <1>c, <3>1 DEF TicketInv
    <3>3. PICK r \in Requests : HasTicket(r) /\ T(r) = k
      BY <3>2 DEF TicketInv
    <3>4. W(r) < C.writeServing
      BY <1>c, <3>1, <3>3 DEF TicketInv
    <3>5. Pc(r) # "to_write"
      BY <1>0, <3>4 DEF SendInv
    <3>6. Sent(r)
      BY <3>3, <3>5 DEF HasTicket, Sent
    <3>7. PICK m \in Nat : AskAt(m, r)
      BY <3>1, <3>3, <3>6 DEF AskInv
    <3>8. m < n
      BY <1>0, <1>a, <2>2, <3>7
    <3> QED BY <1>b, <3>3, <3>7, <3>8
  <2> QED BY <1>3, <2>1, <2>2
<1>4. \A q \in Requests : HasTicket(q)' /\ T(q)' < S'.writeNext => Sent(q)'
  BY DEF AskInv, TicketsKept
<1>5. ASSUME NEW q \in Requests, Sent(q)', S'.writeNext <= T(q)'
      PROVE  \E m \in Nat : AskAt(m, q)'
  <2>1. CASE q = c
    <3>2. PICK n \in Nat : n = Len(Asks) + 1
      BY <1>0
    <3>3. AskAt(n, c)'
      BY <3>2
    <3> QED BY <2>1, <3>3
  <2>2. CASE q # c
    <3>1. Sent(q) /\ HasTicket(q)
      BY <1>5, <2>2 DEF Sent, HasTicket
    <3>2. T(q)' = T(q)
      BY <3>1 DEF TicketsKept
    <3> QED BY <1>5, <3>1, <3>2 DEF AskInv
  <2> QED BY <2>1, <2>2
<1>6. S'.writeNext <= C'.readNext
  BY DEF AskInv, TicketsKept
<1> QED BY <1>1, <1>2, <1>3, <1>4, <1>5, <1>6 DEF AskInv

(* The next request the server accepts is the one whose read ticket is the *)
(* number of those accepted before it.                                     *)
LEMMA NextAsk ==
  ASSUME OneWay, TypeOK, TicketInv, AskInv, NEW q \in Requests, AskAt(1, q)
  PROVE  HasTicket(q) /\ T(q) = S.writeNext
<1>0. T(q) \in Nat /\ S.writeNext \in Nat
  BY Types, Roles DEF ConvRecord
<1>1. HasTicket(q) /\ S.writeNext <= T(q)
  BY DEF AskInv
<1>2. ASSUME S.writeNext < T(q) PROVE FALSE
  <2>1. PICK m \in Nat, r \in Requests : m < 1 /\ AskAt(m, r)
    BY <1>0, <1>2 DEF AskInv
  <2> QED BY <2>1 DEF AskAt
<1> QED BY <1>0, <1>1, <1>2

LEMMA AskAccept ==
  ASSUME OneWay, TypeOK, TicketInv, AskInv, NEW c \in Requests, AskAt(1, c),
         TicketsKept, SentKept, UNCHANGED down, S'.writeNext = S.writeNext + 1,
         \A n \in Nat, r \in Requests : AskAt(n, r)' <=> n # 0 /\ AskAt(n + 1, r)
  PROVE  AskInv'
<1>0. /\ \A q \in Requests : q \in Calls /\ T(q) \in Nat
      /\ S.writeNext \in Nat /\ C.readNext \in Nat
  BY Types, Roles DEF ConvRecord
<1>c. HasTicket(c) /\ T(c) = S.writeNext /\ (~down => Sent(c))
  BY NextAsk DEF AskInv
<1>b. ASSUME NEW n \in Nat, NEW q \in Requests, AskAt(n, q)'
      PROVE  /\ AskAt(n + 1, q) /\ n + 1 \in Nat /\ n # 0
             /\ HasTicket(q)' /\ T(q)' = T(q) /\ S.writeNext < T(q) /\ (~down' => Sent(q)')
  <2>1. AskAt(n + 1, q) /\ n + 1 \in Nat /\ 1 < n + 1 /\ n # 0
    BY <1>b
  <2>2. HasTicket(q) /\ (~down => Sent(q))
    BY <2>1 DEF AskInv
  <2>3. T(c) < T(q)
    BY <2>1 DEF AskInv
  <2> QED BY <1>c, <2>1, <2>2, <2>3 DEF TicketsKept, SentKept
<1>1. ASSUME NEW n \in Nat, NEW q \in Requests, AskAt(n, q)'
      PROVE  HasTicket(q)' /\ S'.writeNext <= T(q)' /\ (~down' => Sent(q)')
  BY <1>0, <1>1, <1>b
<1>2. ASSUME NEW n \in Nat, NEW m \in Nat, NEW q \in Requests, NEW r \in Requests,
             AskAt(n, q)', AskAt(m, r)', n < m
      PROVE  T(q)' < T(r)'
  <2>1. n + 1 < m + 1
    BY <1>2
  <2> QED BY <1>2, <1>b, <2>1 DEF AskInv
<1>3. ASSUME NEW n \in Nat, NEW q \in Requests, AskAt(n, q)',
             NEW k \in Nat, S'.writeNext <= k, k < T(q)'
      PROVE  \E m \in Nat, r \in Requests : m < n /\ AskAt(m, r)' /\ T(r)' = k
  <2>1. S.writeNext < k /\ S.writeNext <= k /\ k < T(q) /\ AskAt(n + 1, q) /\ n + 1 \in Nat
    BY <1>0, <1>3, <1>b
  <2>2. PICK m \in Nat, r \in Requests : m < n + 1 /\ AskAt(m, r) /\ T(r) = k
    BY <2>1 DEF AskInv
  <2>3. m # 1
    <3>1. ASSUME m = 1 PROVE FALSE
      <4>1. T(r) = S.writeNext
        BY <2>2, <3>1, NextAsk
      <4> QED BY <1>0, <2>1, <2>2, <4>1
    <3> QED BY <3>1
  <2>4. m # 0
    BY <2>2 DEF AskAt
  <2>5. m - 1 \in Nat /\ m - 1 # 0 /\ (m - 1) + 1 = m /\ m - 1 < n
    BY <2>2, <2>3, <2>4
  <2>6. PICK p \in Nat : p = m - 1
    BY <2>5
  <2>7. AskAt(p, r)' /\ p < n
    BY <2>2, <2>5, <2>6
  <2> QED BY <1>b, <2>2, <2>7
<1>4. ASSUME ~down', NEW q \in Requests, HasTicket(q)', T(q)' < S'.writeNext
      PROVE  Sent(q)'
  <2>1. HasTicket(q) /\ T(q)' = T(q)
    BY <1>4 DEF TicketsKept
  <2>2. T(q) < S.writeNext \/ T(q) = T(c)
    BY <1>0, <1>4, <1>c, <2>1
  <2>3. Sent(q)
    BY <1>4, <1>c, <2>1, <2>2 DEF AskInv, TicketInv
  <2> QED BY <1>4, <2>3 DEF SentKept
<1>5. ASSUME ~down', NEW q \in Requests, Sent(q)', S'.writeNext <= T(q)'
      PROVE  \E m \in Nat : AskAt(m, q)'
  <2>1. Sent(q) /\ HasTicket(q) /\ T(q)' = T(q)
    BY <1>5 DEF SentKept, TicketsKept, Sent, HasTicket
  <2>2. PICK m \in Nat : AskAt(m, q)
    BY <1>0, <1>5, <2>1 DEF AskInv
  <2>3. m # 1
    <3>1. ASSUME m = 1 PROVE FALSE
      <4>1. T(q) = S.writeNext
        BY <2>2, <3>1, NextAsk
      <4> QED BY <1>0, <1>5, <2>1, <4>1
    <3> QED BY <3>1
  <2>4. m # 0
    BY <2>2 DEF AskAt
  <2>5. PICK p \in Nat : p = m - 1
    BY <2>3, <2>4
  <2>6. p # 0 /\ p + 1 = m
    BY <2>3, <2>4, <2>5
  <2>7. AskAt(p, q)'
    BY <2>2, <2>6
  <2> QED BY <2>7
<1>6. S'.writeNext <= C'.readNext
  BY <1>0, <1>c DEF TicketInv, TicketsKept
<1> QED BY <1>1, <1>2, <1>3, <1>4, <1>5, <1>6 DEF AskInv

(* A notice is accepted, or the rest of a message left in front. *)
LEMMA AskShift ==
  ASSUME AskInv, TicketsKept, SentKept, UNCHANGED down, S'.writeNext = S.writeNext,
         NEW d \in {-1, 1},
         \A r \in Requests : ~AskAt(0, r) /\ (d = 1 => ~AskAt(1, r)),
         \A n \in Nat, r \in Requests : AskAt(n, r)' <=> n # 0 /\ AskAt(n + d, r)
  PROVE  AskInv'
<1>b. ASSUME NEW n \in Nat, NEW q \in Requests, AskAt(n, q)'
      PROVE  /\ n # 0 /\ n + d \in Nat /\ AskAt(n + d, q)
             /\ HasTicket(q)' /\ T(q)' = T(q) /\ S.writeNext <= T(q) /\ (~down' => Sent(q)')
  <2>1. n # 0 /\ n + d \in Nat /\ AskAt(n + d, q)
    BY <1>b
  <2> QED BY <2>1 DEF AskInv, TicketsKept, SentKept
<1>a. ASSUME NEW m \in Nat, NEW q \in Requests, AskAt(m, q)
      PROVE  m - d \in Nat /\ \E p \in Nat : p = m - d /\ AskAt(p, q)' /\ p + d = m
  <2>1. m # 0 /\ (d = 1 => m # 1)
    BY <1>a
  <2>2. PICK p \in Nat : p = m - d
    BY <2>1
  <2>3. p # 0 /\ p + d = m
    BY <2>1, <2>2
  <2>4. AskAt(p, q)'
    BY <1>a, <2>3
  <2> QED BY <2>2, <2>3, <2>4
<1>1. ASSUME NEW n \in Nat, NEW q \in Requests, AskAt(n, q)'
      PROVE  HasTicket(q)' /\ S'.writeNext <= T(q)' /\ (~down' => Sent(q)')
  BY <1>1, <1>b
<1>2. ASSUME NEW n \in Nat, NEW m \in Nat, NEW q \in Requests, NEW r \in Requests,
             AskAt(n, q)', AskAt(m, r)', n < m
      PROVE  T(q)' < T(r)'
  <2>1. n + d < m + d
    BY <1>2
  <2> QED BY <1>2, <1>b, <2>1 DEF AskInv
<1>3. ASSUME NEW n \in Nat, NEW q \in Requests, AskAt(n, q)',
             NEW k \in Nat, S'.writeNext <= k, k < T(q)'
      PROVE  \E m \in Nat, r \in Requests : m < n /\ AskAt(m, r)' /\ T(r)' = k
  <2>1. S.writeNext <= k /\ k < T(q) /\ AskAt(n + d, q) /\ n + d \in Nat
    BY <1>3, <1>b
  <2>2. PICK m \in Nat, r \in Requests : m < n + d /\ AskAt(m, r) /\ T(r) = k
    BY <2>1 DEF AskInv
  <2>3. PICK p \in Nat : p = m - d /\ AskAt(p, r)' /\ p + d = m
    BY <1>a, <2>2
  <2>4. p < n
    BY <2>2, <2>3
  <2> QED BY <1>b, <2>2, <2>3, <2>4
<1>4. ~down' => \A q \in Requests : HasTicket(q)' /\ T(q)' < S'.writeNext => Sent(q)'
  BY DEF AskInv, TicketsKept, SentKept
<1>5. ASSUME ~down', NEW q \in Requests, Sent(q)', S'.writeNext <= T(q)'
      PROVE  \E m \in Nat : AskAt(m, q)'
  <2>1. Sent(q) /\ T(q)' = T(q)
    BY <1>5 DEF SentKept, TicketsKept, Sent, HasTicket
  <2>2. PICK m \in Nat : AskAt(m, q)
    BY <1>5, <2>1 DEF AskInv
  <2> QED BY <1>a, <2>2
<1>6. S'.writeNext <= C'.readNext
  BY DEF AskInv, TicketsKept
<1> QED BY <1>1, <1>2, <1>3, <1>4, <1>5, <1>6 DEF AskInv

(* The end of the stream is lost. *)
LEMMA AskCut ==
  ASSUME AskInv, TicketsKept, down', S'.writeNext = S.writeNext, NEW i \in Nat,
         \A n \in Nat, r \in Requests : AskAt(n, r)' <=> n <= i /\ AskAt(n, r)
  PROVE  AskInv'
<1>1. ASSUME NEW n \in Nat, NEW q \in Requests, AskAt(n, q)'
      PROVE  HasTicket(q)' /\ S'.writeNext <= T(q)' /\ T(q)' = T(q) /\ AskAt(n, q) /\ n <= i
  BY <1>1 DEF AskInv, TicketsKept
<1>2. ASSUME NEW n \in Nat, NEW m \in Nat, NEW q \in Requests, NEW r \in Requests,
             AskAt(n, q)', AskAt(m, r)', n < m
      PROVE  T(q)' < T(r)'
  BY <1>1, <1>2 DEF AskInv
<1>3. ASSUME NEW n \in Nat, NEW q \in Requests, AskAt(n, q)',
             NEW k \in Nat, S'.writeNext <= k, k < T(q)'
      PROVE  \E m \in Nat, r \in Requests : m < n /\ AskAt(m, r)' /\ T(r)' = k
  <2>1. PICK m \in Nat, r \in Requests : m < n /\ AskAt(m, r) /\ T(r) = k
    BY <1>1, <1>3 DEF AskInv
  <2>2. AskAt(m, r)'
    BY <1>1, <1>3, <2>1
  <2> QED BY <1>1, <2>1, <2>2
<1>6. S'.writeNext <= C'.readNext
  BY DEF AskInv, TicketsKept
<1> QED BY <1>1, <1>2, <1>3, <1>6 DEF AskInv

(* A request takes its read ticket. *)
LEMMA AskTicket ==
  ASSUME OneWay, TypeOK, PlaceInv, TicketInv, AskInv, NEW t \in Tasks, TakeReadTicket(t)
  PROVE  AskInv'
<1>0. /\ \A q \in Requests : q \in Tasks /\ T(q) \in Nat
      /\ S.writeNext \in Nat /\ C.readNext \in Nat
  BY Types, Roles DEF ConvRecord
<1>c. /\ t \in Requests /\ Pc(t) = "pair" /\ Pc(t)' = "to_write" /\ T(t)' = C.readNext
      /\ \A q \in Requests : q # t => T(q)' = T(q) /\ Pc(q)' = Pc(q)
      /\ C'.readNext = C.readNext + 1 /\ S'.writeNext = S.writeNext /\ UNCHANGED down
      /\ Asks' = Asks
  BY <1>0, TakeReadTicketDoes
     DEF Becomes, Others, SameTask, ClientIs, SameServer, ServerIs, Same
<1>1. ASSUME NEW n \in Nat, NEW q \in Requests, AskAt(n, q)'
      PROVE  /\ AskAt(n, q) /\ q # t /\ T(q)' = T(q) /\ S.writeNext <= T(q) /\ HasTicket(q)'
             /\ ~down' => Sent(q)'
  <2>1. AskAt(n, q)
    BY <1>1, <1>c DEF AskAt
  <2>2. HasTicket(q) /\ q # t /\ S.writeNext <= T(q) /\ (~down => Sent(q))
    BY <1>c, <2>1 DEF AskInv, HasTicket
  <2> QED BY <1>c, <2>1, <2>2 DEF HasTicket, Sent
<1>a. \A n \in Nat, q \in Requests : AskAt(n, q) => AskAt(n, q)'
  BY <1>c DEF AskAt
<1>2. ASSUME NEW n \in Nat, NEW m \in Nat, NEW q \in Requests, NEW r \in Requests,
             AskAt(n, q)', AskAt(m, r)', n < m
      PROVE  T(q)' < T(r)'
  BY <1>1, <1>2 DEF AskInv
<1>3. ASSUME NEW n \in Nat, NEW q \in Requests, AskAt(n, q)',
             NEW k \in Nat, S'.writeNext <= k, k < T(q)'
      PROVE  \E m \in Nat, r \in Requests : m < n /\ AskAt(m, r)' /\ T(r)' = k
  <2>1. PICK m \in Nat, r \in Requests : m < n /\ AskAt(m, r) /\ T(r) = k
    BY <1>1, <1>3, <1>c DEF AskInv
  <2> QED BY <1>1, <1>a, <2>1
<1>4. ASSUME ~down', NEW q \in Requests, HasTicket(q)', T(q)' < S'.writeNext
      PROVE  Sent(q)'
  <2>1. q # t
    BY <1>0, <1>4, <1>c DEF AskInv
  <2> QED BY <1>4, <1>c, <2>1 DEF AskInv, HasTicket, Sent
<1>5. ASSUME ~down', NEW q \in Requests, Sent(q)', S'.writeNext <= T(q)'
      PROVE  \E m \in Nat : AskAt(m, q)'
  <2>1. q # t
    BY <1>5, <1>c DEF Sent
  <2> QED BY <1>5, <1>a, <1>c, <2>1 DEF AskInv, Sent
<1>6. S'.writeNext <= C'.readNext
  BY <1>0, <1>c DEF AskInv
<1> QED BY <1>1, <1>2, <1>3, <1>4, <1>5, <1>6, <1>c DEF AskInv
LEMMA AskStep ==
  ASSUME OneWay, TypeOK, PlaceInv, TicketInv, SendInv, AskInv, [Next]_vars
  PROVE  AskInv'
<1>0. /\ \A c \in Calls : c \in Tasks /\ c \notin Acceptors
      /\ \A q \in Requests : q \in Calls /\ q \notin Notices
      /\ \A t \in Tasks : t \in Calls \/ t \in Acceptors
      /\ \A c \in Notices : c \in Calls /\ c \notin Requests
      /\ C.writeServing \in Nat /\ Len(Asks) \in Nat /\ S.writeNext \in Nat
  BY Roles, Types DEF ConvRecord
<1>d. down => down'
  BY DownStays
<1>s. Asks' = Asks => \A n \in Nat, r \in Requests : AskAt(n, r)' <=> AskAt(n, r)
  BY DEF AskAt
<1>a. ASSUME NEW a \in Tasks, a \in Acceptors, SameClient, NEW pc, NEW w, NEW r, NEW call,
             Becomes(a, pc, w, r, call)
      PROVE  TicketsKept /\ SentKept
  <2>1. Quiet
    BY <1>a, Becoming2 DEF Quiet
  <2> QED BY <2>1, QuietKeeps
<1>b. ASSUME SameClient, \A u \in Tasks : SameTask(u) PROVE TicketsKept /\ SentKept
  BY <1>0, <1>b, QuietKeeps DEF Quiet
<1>k. ASSUME TicketsKept, SentKept, Asks' = Asks, SameServer PROVE AskInv'
  BY <1>d, <1>k, <1>s, AskKept DEF SameServer, ServerIs
<1>1. ASSUME NEW t \in Tasks, TakeWriteTicket(t) \/ TakeNoticeTicket(t) PROVE AskInv'
  <2>1. TicketsKept /\ SentKept /\ Asks' = Asks /\ SameServer
    BY <1>1, <1>0, TakeWriteTicketDoes, TakeNoticeTicketDoes
       DEF Becomes, Others, SameTask, ClientIs, TicketsKept, SentKept, HasTicket, Sent, Same
  <2> QED BY <1>k, <2>1
<1>2. ASSUME NEW t \in Tasks, TakeReadTicket(t) PROVE AskInv'
  BY <1>2, AskTicket
<1>c. ASSUME NEW c \in Tasks, c \in Calls, NEW pc, Becomes(c, pc, W(c), T(c), Call(c)),
             pc \notin {"idle", "pair", "to_write"},
             Pc(c) \in {"to_write", "to_read", "looking", "reading"},
             C'.readNext = C.readNext
      PROVE  /\ TicketsKept
             /\ Pc(c) # "to_write" \/ down' \/ c \in Notices => SentKept
  BY <1>0, <1>c DEF Becomes, Others, SameTask, TicketsKept, SentKept, HasTicket, Sent
<1>4. ASSUME NEW t \in Tasks, TakeAcceptTicket(t) PROVE AskInv'
  BY <1>4, <1>a, <1>k, TakeAcceptTicketDoes DEF Same
<1>5. ASSUME NEW t \in Tasks, DrainAutoFailure(t) PROVE AskInv'
  <2>1. TicketsKept /\ SentKept /\ Asks' = Asks /\ S'.writeNext = S.writeNext
    BY <1>5, <1>a, <1>b, DrainAutoFailureDoes DEF ServerIs
  <2> QED BY <1>d, <1>s, <2>1, AskKept
<1>6. ASSUME NEW t \in Tasks, SendCall(t) PROVE AskInv'
  <2>1. /\ Pc(t) = "to_write" /\ C.writeServing = W(t) /\ ~down /\ UNCHANGED down
        /\ C'.readNext = C.readNext /\ S'.writeNext = S.writeNext
    BY <1>6, SendCallDoes DEF ClientIs, SameServer, ServerIs
  <2>2. CASE /\ t \in Requests /\ Asks' = Append(Asks, Ask(t))
             /\ Becomes(t, "to_read", W(t), T(t), Call(t))
    <3>1. TicketsKept
      BY <1>0, <1>c, <2>1, <2>2
    <3>2. Sent(t)' /\ \A q \in Requests : q # t => (Sent(q)' <=> Sent(q))
      BY <1>0, <2>2 DEF Becomes, Others, SameTask, Sent
    <3>3. \A n \in Nat, r \in Requests :
            AskAt(n, r)' <=> AskAt(n, r) \/ (n = Len(Asks) + 1 /\ r = t)
      BY <2>2, AskAtChanges
    <3> QED BY <2>1, <2>2, <3>1, <3>2, <3>3, AskSend
  <2>3. CASE /\ t \in Notices /\ Asks' = Append(Asks, Note(t))
             /\ Becomes(t, "sent", W(t), T(t), Call(t))
    <3>1. TicketsKept /\ SentKept
      BY <1>0, <1>c, <2>1, <2>3
    <3>3. \A n \in Nat, r \in Requests : AskAt(n, r)' <=> AskAt(n, r)
      BY <2>3, AskAtChanges
    <3> QED BY <1>d, <2>1, <3>1, <3>3, AskKept
  <2> QED BY <1>6, <2>2, <2>3, SendCallDoes
<1>7. ASSUME NEW t \in Tasks, SendAnswer(t) PROVE AskInv'
  <2>1. TicketsKept /\ SentKept /\ Asks' = Asks /\ S'.writeNext = S.writeNext
    BY <1>7, <1>a, SendAnswerDoes DEF ServerIs
  <2> QED BY <1>d, <1>s, <2>1, AskKept
<1>8. ASSUME NEW t \in Tasks, WriteFails(t) PROVE AskInv'
  <2>a. Pc(t) = "to_write" /\ down /\ Same
    BY <1>8, WriteFailsDoes
  <2>0. Pc(t) = "to_write" /\ down' /\ Asks' = Asks
    BY <1>d, <2>a DEF Same
  <2>1. TicketsKept /\ SentKept /\ S'.writeNext = S.writeNext
    <3>1. CASE t \in Acceptors
      BY <1>8, <1>0, <1>a, <3>1, WriteFailsDoes DEF ServerIs
    <3>2. CASE t \in Calls
      <4>1. /\ SameServer /\ Becomes(t, "broken", W(t), T(t), Call(t))
            /\ ClientIs(C.writeNext, C.writeServing + 1, C.readNext, C.readServing, C.pairLock,
                        C.autoFailures, TRUE)
        BY <1>8, <1>0, <3>2, WriteFailsDoes
      <4>2. C'.readNext = C.readNext
        BY <4>1 DEF ClientIs
      <4> QED BY <1>c, <2>0, <3>2, <4>1, <4>2 DEF SameServer, ServerIs
    <3> QED BY <1>0, <3>1, <3>2
  <2> QED BY <1>d, <1>s, <2>0, <2>1, AskKept
<1>9. ASSUME NEW t \in Tasks, FindPoisoned(t) \/ ReadLook(t) \/ ReadGrant(t) PROVE AskInv'
  <2>0. Asks' = Asks /\ SameServer /\ SameClient /\ C'.readNext = C.readNext
    BY <1>9, LoopDoes DEF Same, SameClient, ClientIs
  <2>1. CASE t \in Acceptors
    BY <1>9, <1>a, <1>k, <2>0, <2>1, LoopDoes
  <2>2. CASE t \in Calls
    <3>1. PICK pc : /\ Becomes(t, pc, W(t), T(t), Call(t))
                    /\ pc \notin {"idle", "pair", "to_write"}
                    /\ Pc(t) \in {"to_write", "to_read", "looking", "reading"}
                    /\ Pc(t) = "to_write" => C.poisoned
      BY <1>9, <1>0, <2>2, LoopDoes
    <3>2. Pc(t) = "to_write" => down'
      BY <3>1, <1>d DEF SendInv
    <3>3. TicketsKept /\ SentKept
      BY <1>c, <2>0, <2>2, <3>1, <3>2
    <3> QED BY <1>k, <2>0, <3>3
  <2> QED BY <1>0, <2>1, <2>2
<1>10. ASSUME NEW t \in Tasks, Reads(t) PROVE AskInv'
  <2>1. t \in Requests /\ Pc(t) = "reading" /\ SameServer /\ Asks' = Asks
        /\ C'.readNext = C.readNext
    BY <1>10, ReadsDoes DEF ClientIs
  <2>2. TicketsKept /\ SentKept
    <3>1. \A pc \in Ended : pc \notin {"idle", "pair", "to_write"}
      BY DEF Ended, GaveUp
    <3> QED BY <1>10, <1>0, <1>c, <2>1, <3>1, ReadsDoes
  <2> QED BY <1>k, <2>1, <2>2
<1>11. ASSUME NEW t \in Tasks, AcceptHeader(t) PROVE AskInv'
  <2>1. TicketsKept /\ SentKept /\ UNCHANGED down /\ Asks # <<>> /\ Asks' = Tail(Asks)
    BY <1>11, <1>a, AcceptHeaderDoes
  <2>2. \A n \in Nat, r \in Requests : AskAt(n, r)' <=> n # 0 /\ AskAt(n + 1, r)
    BY <2>1, AskAtChanges
  <2>3. 1 \in 1..Len(Asks)
    BY <2>1, SeqChanges, Types
  <2>4. CASE \E q \in Requests :
               Asks[1] = Ask(q) /\ ServerIs(S.writeNext + 1, S.writeServing, S.autoFailures)
    <3>1. PICK q \in Requests : Asks[1] = Ask(q) /\ S'.writeNext = S.writeNext + 1
      BY <2>4 DEF ServerIs
    <3>2. AskAt(1, q)
      BY <2>3, <3>1 DEF AskAt
    <3> QED BY <2>1, <2>2, <3>1, <3>2, AskAccept
  <2>5. CASE \E c \in Notices : Asks[1] = Note(c) /\ SameServer
    <3>1. PICK c \in Notices : Asks[1] = Note(c) /\ S'.writeNext = S.writeNext
      BY <2>5 DEF SameServer, ServerIs
    <3>2. \A r \in Requests : ~AskAt(1, r) /\ ~AskAt(0, r)
      <4>1. \A r : Ask(r).kind = "request" /\ Note(c).kind = "notice"
        BY DEF Ask, Note
      <4> QED BY <3>1, <4>1 DEF AskAt
    <3> QED BY <2>1, <2>2, <3>1, <3>2, AskShift
  <2> QED BY <1>11, <2>4, <2>5, AcceptHeaderDoes
<1>12. ASSUME NEW t \in Tasks, AcceptFails(t) PROVE AskInv'
  BY <1>12, <1>a, <1>k, AcceptFailsDoes DEF Same
<1>13. ASSUME NEW t \in Tasks, DecodePayload(t) PROVE AskInv'
  BY <1>13, <1>a, <1>k, DecodePayloadDoes DEF Same
<1>14. ASSUME NEW t \in Tasks, DropUndecoded(t) PROVE AskInv'
  <2>1. /\ TicketsKept /\ SentKept /\ UNCHANGED down /\ S'.writeNext = S.writeNext
        /\ Asks' = <<Reply("residue")>> \o Asks
    BY <1>14, <1>a, DropUndecodedDoes DEF SameServer, ServerIs
  <2>2. \A n \in Nat, r \in Requests : AskAt(n, r)' <=> n # 0 /\ AskAt(n - 1, r)
    BY <2>1, AskAtChanges
  <2>3. \A r \in Requests : ~AskAt(0, r)
    BY DEF AskAt
  <2>4. \A n \in Nat, r \in Requests : AskAt(n, r)' <=> n # 0 /\ AskAt(n + (-1), r)
    <3>1. \A n \in Nat : n - 1 = n + (-1)
      OBVIOUS
    <3> QED BY <2>2, <3>1
  <2> QED BY <2>1, <2>3, <2>4, AskShift
<1>15. ASSUME NEW t \in Tasks, Respond(t) PROVE AskInv'
  BY <1>15, <1>a, <1>k, RespondDoes
<1>16. ASSUME NEW t \in Tasks, DropDecoded(t) PROVE AskInv'
  <2>1. TicketsKept /\ SentKept /\ Asks' = Asks /\ S'.writeNext = S.writeNext
    BY <1>16, <1>a, DropDecodedDoes DEF ServerIs
  <2> QED BY <1>d, <1>s, <2>1, AskKept
<1>17. ASSUME LoseConnection PROVE AskInv'
  <2>1. TicketsKept /\ down' /\ S'.writeNext = S.writeNext
    BY <1>17, <1>b, LoseConnectionDoes DEF SameServer, ServerIs
  <2>2. PICK i \in 0..Len(Asks) : Asks' = SubSeq(Asks, 1, i)
    BY <1>17, LoseConnectionDoes
  <2>3. \A n \in Nat, r \in Requests : AskAt(n, r)' <=> n <= i /\ AskAt(n, r)
    BY <2>2, AskAtChanges
  <2>4. i \in Nat
    BY <1>0, <2>2
  <2> QED BY <2>1, <2>3, <2>4, AskCut
<1>18. CASE UNCHANGED vars
  <2>1. (\A u \in Tasks : SameTask(u)) /\ Asks' = Asks
    BY <1>18 DEF vars, SameTask, Pc, W, T, Call, Asks
  <2>2. SameClient /\ SameServer
    BY <1>18, SameEnds DEF vars
  <2> QED BY <1>b, <1>k, <2>1, <2>2
<1> QED BY <1>1, <1>2, <1>4, <1>5, <1>6, <1>7, <1>8, <1>9, <1>10, <1>11, <1>12, <1>13,
           <1>14, <1>15, <1>16, <1>17, <1>18 DEF Next, Start, Step, Reads
-----------------------------------------------------------------------------
(* The answers owed.  Nobody loses a read ticket, and a new one is not the *)
(* server's ticket of a request it has accepted.                           *)
TicketsGrow ==
  \A q \in Requests : /\ HasTicket(q) => HasTicket(q)' /\ T(q)' = T(q)
                      /\ HasTicket(q)' => HasTicket(q) \/ S.writeNext <= T(q)'

LEMMA TicketsGrowStep ==
  ASSUME OneWay, TypeOK, PlaceInv, SendInv, AskInv, [Next]_vars
  PROVE  TicketsGrow
<1>0. \A q \in Requests : q \in Tasks /\ q \in Calls /\ q \notin Notices
  BY Roles
<1>1. ASSUME NEW t \in Tasks, TakeWriteTicket(t) \/ TakeNoticeTicket(t) PROVE TicketsGrow
  BY <1>0, <1>1, TakeWriteTicketDoes, TakeNoticeTicketDoes
     DEF Becomes, Others, SameTask, HasTicket, TicketsGrow
<1>2. ASSUME NEW t \in Tasks, TakeReadTicket(t) PROVE TicketsGrow
  <2>1. S.writeNext <= C.readNext
    BY DEF AskInv
  <2> QED BY <1>0, <1>2, <2>1, TakeReadTicketDoes
          DEF Becomes, Others, SameTask, HasTicket, TicketsGrow
<1>3. ASSUME Quiet PROVE TicketsGrow
  BY <1>0, <1>3 DEF Quiet, SameTask, HasTicket, TicketsGrow
<1>4. ASSUME NEW c \in Calls, Advances(c) PROVE TicketsGrow
  BY <1>0, <1>4 DEF Advances, Others, SameTask, HasTicket, TicketsGrow
<1> QED BY <1>1, <1>2, <1>3, <1>4, CallCases DEF TakesTicket

(* What an acceptor may do without taking an answer upon itself. *)
OweSame(a) ==
  Owes(a)' => /\ Owes(a) /\ W(a)' = W(a) /\ Call(a)' = Call(a)
              /\ Pc(a)' = "to_write" => Pc(a) = "to_write"

LEMMA OweKept ==
  ASSUME TypeOK, OweInv, TicketsGrow, UNCHANGED verdict,
         S'.writeNext = S.writeNext, S'.writeServing <= S.writeNext,
         S'.autoFailures \subseteq S.autoFailures,
         \A k \in S'.autoFailures : S'.writeServing <= k,
         \A a \in Acceptors : OweSame(a) /\ (Owes(a)' => S'.writeServing <= W(a))
  PROVE  OweInv'
<1>0. S.writeNext \in Nat /\ S.autoFailures \subseteq Nat
  BY Types DEF ConvRecord
<1>1. ASSUME NEW a \in Acceptors, Owes(a)'
      PROVE  /\ HasTicket(Call(a))' /\ W(a)' = T(Call(a))'
             /\ S'.writeServing <= W(a)' /\ W(a)' < S'.writeNext
             /\ Pc(a)' = "to_write" => verdict'[Call(a)'] \in {"success", "failure"}
  <2>1. Owes(a) /\ W(a)' = W(a) /\ Call(a)' = Call(a) /\ (Pc(a)' = "to_write" => Pc(a) = "to_write")
    BY <1>1 DEF OweSame
  <2>2. PICK q \in Requests : q = Call(a)
    BY <2>1 DEF Owes
  <2>3. HasTicket(q) /\ W(a) = T(q) /\ W(a) < S.writeNext
        /\ (Pc(a) = "to_write" => verdict[q] \in {"success", "failure"})
    BY <2>1, <2>2 DEF OweInv
  <2>4. HasTicket(q)' /\ T(q)' = T(q)
    BY <2>3 DEF TicketsGrow
  <2> QED BY <1>1, <2>1, <2>2, <2>3, <2>4 DEF HasTicket, T, Pc
<1>2. ASSUME NEW a \in Acceptors, NEW b \in Acceptors, Owes(a)', Owes(b)', W(a)' = W(b)'
      PROVE  a = b
  BY <1>2 DEF OweInv, OweSame
<1>3. ASSUME NEW k \in S'.autoFailures
      PROVE  /\ S'.writeServing <= k /\ k < S'.writeNext
             /\ \A a \in Acceptors : Owes(a)' => W(a)' # k
             /\ \A q \in Requests : HasTicket(q)' /\ T(q)' = k => verdict'[q] = "failure"
  <2>1. k \in S.autoFailures /\ k < S.writeNext /\ k \in Nat
    BY <1>0 DEF OweInv
  <2>2. \A a \in Acceptors : Owes(a)' => W(a)' # k
    BY <2>1 DEF OweInv, OweSame
  <2>3. ASSUME NEW q \in Requests, HasTicket(q)', T(q)' = k PROVE verdict'[q] = "failure"
    <3>1. ~(S.writeNext <= T(q)')
      BY <1>0, <2>1, <2>3
    <3>2. HasTicket(q) /\ T(q) = k
      BY <2>3, <3>1 DEF TicketsGrow
    <3> QED BY <2>1, <3>2 DEF OweInv
  <2> QED BY <2>1, <2>2, <2>3
<1>4. S'.writeServing <= S'.writeNext
  OBVIOUS
<1> QED BY <1>1, <1>2, <1>3, <1>4 DEF OweInv

(* The server accepts a request: its ticket is the request's.  *)
LEMMA OweAccept ==
  ASSUME OneWay, TypeOK, TicketInv, AskInv, OweInv, TicketsGrow, UNCHANGED verdict,
         NEW c \in Acceptors, NEW q \in Requests, AskAt(1, q),
         Becomes(c, "header", S.writeNext, T(c), q),
         ServerIs(S.writeNext + 1, S.writeServing, S.autoFailures),
         \A u \in Requests : T(u)' = T(u) /\ Pc(u)' = Pc(u)
  PROVE  OweInv'
<1>0. /\ S.writeNext \in Nat /\ S.writeServing \in Nat /\ S.autoFailures \subseteq Nat
      /\ S'.writeNext = S.writeNext + 1 /\ S'.writeServing = S.writeServing
      /\ S'.autoFailures = S.autoFailures
      /\ \A a \in Acceptors : W(a) \in Nat /\ a \in Tasks
  BY Types, Roles DEF ConvRecord, ServerIs
<1>q. HasTicket(q) /\ T(q) = S.writeNext
  BY NextAsk
<1>c. Pc(c)' = "header" /\ W(c)' = S.writeNext /\ Call(c)' = q
  BY DEF Becomes
<1>o. ASSUME NEW a \in Acceptors, a # c, Owes(a)'
      PROVE  Owes(a) /\ Pc(a)' = Pc(a) /\ W(a)' = W(a) /\ Call(a)' = Call(a) /\ W(a) < S.writeNext
  <2>1. SameTask(a)
    BY <1>0, <1>o DEF Becomes, Others
  <2> QED BY <1>o, <2>1 DEF SameTask, Owes, OweInv
<1>1. ASSUME NEW a \in Acceptors, Owes(a)'
      PROVE  /\ HasTicket(Call(a))' /\ W(a)' = T(Call(a))'
             /\ S'.writeServing <= W(a)' /\ W(a)' < S'.writeNext
             /\ Pc(a)' = "to_write" => verdict'[Call(a)'] \in {"success", "failure"}
  <2>1. CASE a = c
    <3>1. HasTicket(q)' /\ T(q)' = S.writeNext
      BY <1>q DEF TicketsGrow
    <3>2. HasTicket(Call(a))' /\ T(Call(a))' = S.writeNext
      BY <1>c, <2>1, <3>1 DEF HasTicket, T, Pc
    <3>3. S.writeServing <= S.writeNext
      BY DEF OweInv
    <3> QED BY <1>0, <1>c, <2>1, <3>2, <3>3
  <2>2. CASE a # c
    <3>1. Owes(a) /\ Pc(a)' = Pc(a) /\ W(a)' = W(a) /\ Call(a)' = Call(a)
      BY <1>1, <1>o, <2>2
    <3>2. PICK r \in Requests : r = Call(a)
      BY <3>1 DEF Owes
    <3>3. HasTicket(r) /\ W(a) = T(r) /\ W(a) < S.writeNext /\ S.writeServing <= W(a)
          /\ (Pc(a) = "to_write" => verdict[r] \in {"success", "failure"})
      BY <3>1, <3>2 DEF OweInv
    <3>4. HasTicket(r)' /\ T(r)' = T(r)
      BY <3>3 DEF TicketsGrow
    <3>5. HasTicket(Call(a))' /\ W(a)' = T(Call(a))'
      BY <3>1, <3>2, <3>3, <3>4 DEF HasTicket, T, Pc
    <3>6. W(a)' < S'.writeNext
      BY <1>0, <3>1, <3>3
    <3> QED BY <1>0, <3>1, <3>2, <3>3, <3>5, <3>6
  <2> QED BY <2>1, <2>2
<1>2. ASSUME NEW a \in Acceptors, NEW b \in Acceptors, Owes(a)', Owes(b)', W(a)' = W(b)'
      PROVE  a = b
  <2>1. CASE a # c /\ b # c
    BY <1>2, <1>o, <2>1 DEF OweInv
  <2>2. CASE a = c /\ b # c
    BY <1>0, <1>2, <1>o, <1>c, <2>2
  <2>3. CASE b = c /\ a # c
    BY <1>0, <1>2, <1>o, <1>c, <2>3
  <2> QED BY <2>1, <2>2, <2>3
<1>3. ASSUME NEW k \in S'.autoFailures
      PROVE  /\ S'.writeServing <= k /\ k < S'.writeNext
             /\ \A a \in Acceptors : Owes(a)' => W(a)' # k
             /\ \A r \in Requests : HasTicket(r)' /\ T(r)' = k => verdict'[r] = "failure"
  <2>1. k \in S.autoFailures /\ S.writeServing <= k /\ k < S.writeNext /\ k \in Nat
    BY <1>0, <1>3 DEF OweInv
  <2>2. ASSUME NEW a \in Acceptors, Owes(a)' PROVE W(a)' # k
    <3>1. CASE a = c
      BY <1>0, <1>c, <2>1, <3>1
    <3>2. CASE a # c
      BY <1>o, <2>1, <2>2, <3>2 DEF OweInv
    <3> QED BY <3>1, <3>2
  <2>3. ASSUME NEW r \in Requests, HasTicket(r)', T(r)' = k PROVE verdict'[r] = "failure"
    <3>1. HasTicket(r) /\ T(r) = k
      BY <2>3 DEF HasTicket
    <3> QED BY <2>1, <3>1 DEF OweInv
  <2> QED BY <1>0, <2>1, <2>2, <2>3
<1>4. S'.writeServing <= S'.writeNext
  BY <1>0 DEF OweInv
<1> QED BY <1>1, <1>2, <1>3, <1>4 DEF OweInv
(* An acceptor decides: it keeps the ticket, or leaves it to an automatic  *)
(* failure.                                                                *)
LEMMA OweDecide ==
  ASSUME OneWay, TypeOK, TicketInv, OweInv, NEW c \in Acceptors, NEW q \in Requests,
         Pc(c) = "decoded", Call(c) = q, W(c)' = W(c), Others(c),
         NEW v \in {"success", "failure"}, verdict' = [verdict EXCEPT ![q] = v],
         S'.writeNext = S.writeNext, S'.writeServing = S.writeServing,
         \/ Call(c)' = q /\ Pc(c)' = "to_write" /\ S'.autoFailures = S.autoFailures
         \/ /\ Pc(c)' = "idle" /\ v = "failure"
            /\ S'.autoFailures = S.autoFailures \cup {W(c)}
  PROVE  OweInv'
<1>0. /\ S.writeNext \in Nat /\ S.writeServing \in Nat /\ S.autoFailures \subseteq Nat
      /\ \A a \in Acceptors : W(a) \in Nat /\ a \in Tasks /\ a \notin Requests
      /\ \A r \in Requests : r \in Tasks /\ T(r) \in Nat
  BY Types, Roles DEF ConvRecord
<1>v. verdict'[q] = v /\ \A r \in Requests : r # q => verdict'[r] = verdict[r]
  BY DEF TypeOK
<1>c. /\ Owes(c) /\ HasTicket(q) /\ W(c) = T(q)
      /\ S.writeServing <= W(c) /\ W(c) < S.writeNext
  <2>1. Owes(c)
    BY DEF Owes
  <2> QED BY <2>1 DEF OweInv
<1>u. \A r \in Requests : T(r)' = T(r) /\ (HasTicket(r)' <=> HasTicket(r))
  BY <1>0 DEF Others, SameTask, HasTicket
<1>o. ASSUME NEW a \in Acceptors, a # c, Owes(a)'
      PROVE  /\ Owes(a) /\ Pc(a)' = Pc(a) /\ W(a)' = W(a) /\ Call(a)' = Call(a)
             /\ Call(a) \in Requests /\ Call(a) # q
  <2>1. SameTask(a)
    BY <1>0, <1>o DEF Others
  <2>2. /\ Owes(a) /\ Pc(a)' = Pc(a) /\ W(a)' = W(a) /\ Call(a)' = Call(a)
        /\ Call(a) \in Requests
    BY <1>o, <2>1 DEF SameTask, Owes
  <2>3. W(a) = T(Call(a)) /\ W(a) # W(c)
    BY <1>c, <1>o, <2>2 DEF OweInv
  <2> QED BY <1>c, <2>2, <2>3
<1>w. Owes(c)' => Call(c)' = q /\ S'.autoFailures = S.autoFailures
  BY DEF Owes
<1>1. ASSUME NEW a \in Acceptors, Owes(a)'
      PROVE  /\ HasTicket(Call(a))' /\ W(a)' = T(Call(a))'
             /\ S'.writeServing <= W(a)' /\ W(a)' < S'.writeNext
             /\ Pc(a)' = "to_write" => verdict'[Call(a)'] \in {"success", "failure"}
  <2>1. CASE a = c
    <3>1. HasTicket(q)' /\ T(q)' = W(c)
      BY <1>c, <1>u
    <3>2. HasTicket(Call(a))' /\ T(Call(a))' = W(c) /\ Call(a)' = q
      BY <1>1, <1>w, <2>1, <3>1 DEF HasTicket, T, Pc
    <3> QED BY <1>0, <1>c, <1>v, <2>1, <3>2
  <2>2. CASE a # c
    <3>1. /\ Owes(a) /\ Pc(a)' = Pc(a) /\ W(a)' = W(a) /\ Call(a)' = Call(a)
          /\ Call(a) \in Requests /\ Call(a) # q
      BY <1>1, <1>o, <2>2
    <3>2. PICK r \in Requests : r = Call(a)
      BY <3>1 DEF Owes
    <3>3. HasTicket(r) /\ W(a) = T(r) /\ W(a) < S.writeNext /\ S.writeServing <= W(a)
          /\ (Pc(a) = "to_write" => verdict[r] \in {"success", "failure"})
      BY <3>1, <3>2 DEF OweInv
    <3>4. HasTicket(r)' /\ T(r)' = T(r)
      BY <3>3, <1>u
    <3>5. HasTicket(Call(a))' /\ W(a)' = T(Call(a))'
      BY <3>1, <3>2, <3>3, <3>4 DEF HasTicket, T, Pc
    <3> QED BY <1>0, <1>v, <3>1, <3>2, <3>3, <3>5
  <2> QED BY <2>1, <2>2
<1>2. ASSUME NEW a \in Acceptors, NEW b \in Acceptors, Owes(a)', Owes(b)', W(a)' = W(b)'
      PROVE  a = b
  <2>1. Owes(a) /\ Owes(b) /\ W(a) = W(b)
    BY <1>2, <1>o, <1>c
  <2> QED BY <2>1 DEF OweInv
<1>3. ASSUME NEW k \in S'.autoFailures
      PROVE  /\ S'.writeServing <= k /\ k < S'.writeNext
             /\ \A a \in Acceptors : Owes(a)' => W(a)' # k
             /\ \A r \in Requests : HasTicket(r)' /\ T(r)' = k => verdict'[r] = "failure"
  <2>1. CASE k \in S.autoFailures
    <3>1. k \in Nat /\ S.writeServing <= k /\ k < S.writeNext /\ k # W(c)
      BY <1>0, <1>c, <2>1 DEF OweInv
    <3>2. ASSUME NEW a \in Acceptors, Owes(a)' PROVE W(a)' # k
      BY <1>o, <2>1, <3>1, <3>2 DEF OweInv
    <3>3. ASSUME NEW r \in Requests, HasTicket(r)', T(r)' = k PROVE verdict'[r] = "failure"
      <4>1. HasTicket(r) /\ T(r) = k /\ r # q
        BY <1>c, <1>u, <3>1, <3>3
      <4> QED BY <1>v, <2>1, <4>1 DEF OweInv
    <3> QED BY <1>0, <3>1, <3>2, <3>3
  <2>2. CASE k \notin S.autoFailures
    <3>1. k = W(c) /\ v = "failure" /\ Pc(c)' = "idle"
      BY <1>3, <2>2
    <3>2. ASSUME NEW a \in Acceptors, Owes(a)' PROVE W(a)' # k
      <4>1. a # c
        BY <3>1, <3>2 DEF Owes
      <4> QED BY <1>c, <1>o, <3>1, <3>2, <4>1 DEF OweInv
    <3>3. ASSUME NEW r \in Requests, HasTicket(r)', T(r)' = k PROVE verdict'[r] = "failure"
      <4>1. HasTicket(r) /\ T(r) = T(q)
        BY <1>c, <1>u, <3>1, <3>3
      <4>2. r = q
        BY <1>c, <4>1 DEF TicketInv
      <4> QED BY <1>v, <3>1, <4>2
    <3> QED BY <1>0, <1>c, <3>1, <3>2, <3>3
  <2> QED BY <2>1, <2>2
<1>4. S'.writeServing <= S'.writeNext
  BY DEF OweInv
<1> QED BY <1>1, <1>2, <1>3, <1>4 DEF OweInv

(* The answers owed stay those that will be given. *)
LEMMA OweStep ==
  ASSUME OneWay, TypeOK, PlaceInv, TicketInv, SendInv, AskInv, OweInv, [Next]_vars
  PROVE  OweInv'
<1>0. /\ \A c \in Calls : c \in Tasks /\ c \notin Acceptors
      /\ \A q \in Requests : q \in Calls /\ q \in Tasks
      /\ \A a \in Acceptors : a \in Tasks /\ W(a) \in Nat
      /\ \A t \in Tasks : t \in Calls \/ t \in Acceptors
      /\ S.writeNext \in Nat /\ S.writeServing \in Nat /\ S.autoFailures \subseteq Nat
  BY Roles, Types DEF ConvRecord
<1>g. TicketsGrow
  BY TicketsGrowStep
<1>k. ASSUME SameServer, UNCHANGED verdict, \A a \in Acceptors : OweSame(a) PROVE OweInv'
  <2>1. /\ S'.writeNext = S.writeNext /\ S'.writeServing = S.writeServing
        /\ S'.autoFailures = S.autoFailures
    BY <1>k DEF SameServer, ServerIs
  <2>2. S'.writeServing <= S.writeNext /\ \A k \in S'.autoFailures : S'.writeServing <= k
    BY <2>1 DEF OweInv
  <2>3. \A a \in Acceptors : Owes(a)' => S'.writeServing <= W(a)
    BY <1>k, <2>1 DEF OweSame, OweInv
  <2> QED BY <1>g, <1>k, <2>1, <2>2, <2>3, OweKept
<1>c. ASSUME NEW c \in Tasks, c \in Calls, NEW pc, NEW w, NEW r, NEW call,
             Becomes(c, pc, w, r, call)
      PROVE  \A a \in Acceptors : OweSame(a)
  BY <1>0, <1>c DEF Becomes, Others, SameTask, OweSame, Owes
<1>a. ASSUME NEW c \in Tasks, c \in Acceptors, NEW pc, NEW call, NEW r,
             Becomes(c, pc, W(c), r, call),
             \/ pc \in {"idle", "to_read", "looking", "reading", "failed"}
             \/ pc \in {"header", "decoded"} /\ call \notin Requests
             \/ pc = "decoded" /\ Owes(c) /\ call = Call(c)
      PROVE  \A a \in Acceptors : OweSame(a)
  BY <1>0, <1>a DEF Becomes, Others, SameTask, OweSame, Owes
<1>s. ASSUME \A u \in Tasks : SameTask(u) PROVE \A a \in Acceptors : OweSame(a)
  BY <1>0, <1>s DEF SameTask, OweSame, Owes
(* The writer is released by whoever has the ticket served. *)
<1>w. ASSUME ServerIs(S.writeNext, S.writeServing + 1, S.autoFailures \ {S.writeServing}),
             UNCHANGED verdict, S.writeServing < S.writeNext,
             \A a \in Acceptors : OweSame(a) /\ (Owes(a)' => W(a) # S.writeServing)
      PROVE  OweInv'
  <2>1. /\ S'.writeNext = S.writeNext /\ S'.writeServing = S.writeServing + 1
        /\ S'.autoFailures = S.autoFailures \ {S.writeServing}
    BY <1>w DEF ServerIs
  <2>2. S'.writeServing <= S.writeNext /\ S'.autoFailures \subseteq S.autoFailures
    BY <1>0, <1>w, <2>1
  <2>3. \A k \in S'.autoFailures : S'.writeServing <= k
    <3>1. \A k \in S'.autoFailures : k \in Nat /\ S.writeServing <= k /\ k # S.writeServing
      BY <1>0, <2>1 DEF OweInv
    <3> QED BY <1>0, <2>1, <3>1
  <2>4. ASSUME NEW a \in Acceptors, Owes(a)' PROVE S'.writeServing <= W(a)
    <3>1. S.writeServing <= W(a) /\ W(a) # S.writeServing /\ W(a) \in Nat
      BY <1>0, <1>w, <2>4 DEF OweSame, OweInv
    <3> QED BY <1>0, <2>1, <3>1
  <2> QED BY <1>g, <1>w, <2>1, <2>2, <2>3, <2>4, OweKept
(* An acceptor that has the writer leaves with its answer, given or not. *)
<1>e. ASSUME NEW c \in Tasks, c \in Acceptors, Pc(c) = "to_write", S.writeServing = W(c),
             ServerIs(S.writeNext, S.writeServing + 1, S.autoFailures), UNCHANGED verdict,
             NEW pc \in {"idle", "failed"}, NEW call, NEW r, Becomes(c, pc, W(c), r, call)
      PROVE  OweInv'
  <2>1. Owes(c)
    BY <1>e DEF PlaceInv, PcInv, Owes
  <2>2. S.writeServing < S.writeNext /\ S.writeServing \notin S.autoFailures
    BY <1>e, <2>1 DEF OweInv
  <2>3. S.autoFailures \ {S.writeServing} = S.autoFailures
    BY <2>2
  <2>4. \A a \in Acceptors : OweSame(a)
    BY <1>e, <1>a
  <2>5. ASSUME NEW a \in Acceptors, Owes(a)' PROVE W(a) # S.writeServing
    <3>1. Owes(a)
      BY <2>4, <2>5 DEF OweSame
    <3>2. a # c
      BY <1>e, <2>5 DEF Becomes, Owes
    <3> QED BY <1>e, <2>1, <3>1, <3>2 DEF OweInv
  <2> QED BY <1>e, <1>w, <2>2, <2>3, <2>4, <2>5
<1>1. ASSUME NEW t \in Tasks, TakeWriteTicket(t) PROVE OweInv'
  BY <1>0, <1>1, <1>c, <1>k, TakeWriteTicketDoes DEF Same
<1>2. ASSUME NEW t \in Tasks, TakeReadTicket(t) PROVE OweInv'
  BY <1>0, <1>2, <1>c, <1>k, TakeReadTicketDoes DEF Same
<1>3. ASSUME NEW t \in Tasks, TakeNoticeTicket(t) PROVE OweInv'
  <2>1. t \in Calls
    BY <1>3, Roles, TakeNoticeTicketDoes
  <2> QED BY <1>3, <1>c, <1>k, <2>1, TakeNoticeTicketDoes DEF Same
<1>4. ASSUME NEW t \in Tasks, TakeAcceptTicket(t) PROVE OweInv'
  BY <1>4, <1>a, <1>k, TakeAcceptTicketDoes DEF Same
<1>5. ASSUME NEW t \in Tasks, DrainAutoFailure(t) PROVE OweInv'
  <2>1. /\ t \in Acceptors /\ S.writeServing \in S.autoFailures /\ UNCHANGED verdict
        /\ ServerIs(S.writeNext, S.writeServing + 1, S.autoFailures \ {S.writeServing})
    BY <1>5, DrainAutoFailureDoes
  <2>2. \A a \in Acceptors : OweSame(a)
    BY <1>5, <1>a, <1>s, DrainAutoFailureDoes
  <2>3. S.writeServing < S.writeNext /\ \A a \in Acceptors : Owes(a) => W(a) # S.writeServing
    BY <2>1 DEF OweInv
  <2>4. \A a \in Acceptors : Owes(a)' => W(a) # S.writeServing
    BY <2>2, <2>3 DEF OweSame
  <2> QED BY <1>w, <2>1, <2>2, <2>3, <2>4
<1>6. ASSUME NEW t \in Tasks, SendCall(t) PROVE OweInv'
  <2>1. t \in Calls /\ SameServer /\ UNCHANGED verdict
    BY <1>0, <1>6, Roles, SendCallDoes
  <2> QED BY <1>6, <1>c, <1>k, <2>1, SendCallDoes
<1>7. ASSUME NEW t \in Tasks, SendAnswer(t) PROVE OweInv'
  BY <1>7, <1>e, SendAnswerDoes
<1>8. ASSUME NEW t \in Tasks, WriteFails(t) PROVE OweInv'
  <2>0. UNCHANGED verdict /\ Pc(t) = "to_write"
    BY <1>8, WriteFailsDoes DEF Same
  <2>1. CASE t \in Acceptors
    <3>1. /\ S.writeServing = W(t) /\ Becomes(t, "failed", W(t), T(t), Call(t))
          /\ ServerIs(S.writeNext, S.writeServing + 1, S.autoFailures)
      BY <1>0, <1>8, <2>1, WriteFailsDoes
    <3> QED BY <1>e, <2>0, <2>1, <3>1
  <2>2. CASE t \in Calls
    <3>1. SameServer /\ Becomes(t, "broken", W(t), T(t), Call(t))
      BY <1>0, <1>8, <2>2, WriteFailsDoes
    <3> QED BY <1>c, <1>k, <2>0, <2>2, <3>1
  <2> QED BY <1>0, <2>1, <2>2
<1>9. ASSUME NEW t \in Tasks, FindPoisoned(t) \/ ReadLook(t) \/ ReadGrant(t) PROVE OweInv'
  <2>0. SameServer /\ UNCHANGED verdict
    BY <1>9, LoopDoes DEF Same
  <2>1. CASE t \in Acceptors
    BY <1>0, <1>9, <1>a, <1>k, <2>0, <2>1, LoopDoes
  <2>2. CASE t \in Calls
    BY <1>9, <1>c, <1>k, <2>0, <2>2, LoopDoes
  <2> QED BY <1>0, <2>1, <2>2
<1>10. ASSUME NEW t \in Tasks, Reads(t) PROVE OweInv'
  <2>1. \A pc \in Ended : pc \notin {"idle", "pair", "to_write"}
    BY DEF Ended, GaveUp
  <2> QED BY <1>0, <1>10, <1>c, <1>k, <2>1, ReadsDoes
<1>11. ASSUME NEW t \in Tasks, AcceptHeader(t) PROVE OweInv'
  <2>1. t \in Acceptors /\ Asks # <<>> /\ UNCHANGED verdict
    BY <1>11, AcceptHeaderDoes
  <2>2. ASSUME NEW q \in Requests, Asks[1] = Ask(q), Becomes(t, "header", S.writeNext, T(t), q),
               ServerIs(S.writeNext + 1, S.writeServing, S.autoFailures)
        PROVE  OweInv'
    <3>1. AskAt(1, q)
      BY <2>1, <2>2, SeqChanges, Types DEF AskAt
    <3>2. \A u \in Requests : T(u)' = T(u) /\ Pc(u)' = Pc(u)
      BY <1>0, <2>1, <2>2 DEF Becomes, Others, SameTask
    <3> QED BY <1>g, <2>1, <2>2, <3>1, <3>2, OweAccept
  <2>3. ASSUME NEW n \in Notices, Becomes(t, "header", W(t), T(t), n), SameServer PROVE OweInv'
    <3>1. n \notin Requests
      BY Roles
    <3> QED BY <1>a, <1>k, <2>1, <2>3, <3>1
  <2> QED BY <1>11, <2>2, <2>3, AcceptHeaderDoes
<1>12. ASSUME NEW t \in Tasks, AcceptFails(t) PROVE OweInv'
  BY <1>12, <1>a, <1>k, AcceptFailsDoes DEF Same
<1>13. ASSUME NEW t \in Tasks, DecodePayload(t) PROVE OweInv'
  <2>1. t \in Acceptors /\ Pc(t) = "header" /\ SameServer /\ UNCHANGED verdict
    BY <1>13, DecodePayloadDoes DEF Same
  <2>2. Call(t) \in Requests => Owes(t)
    BY <2>1 DEF Owes
  <2>3. \A a \in Acceptors : OweSame(a)
    BY <1>13, <1>a, <2>1, <2>2, DecodePayloadDoes
  <2> QED BY <1>k, <2>1, <2>3
<1>14. ASSUME NEW t \in Tasks, DropUndecoded(t) PROVE OweInv'
  BY <1>14, <1>a, <1>k, DropUndecodedDoes
<1>15. ASSUME NEW t \in Tasks, Respond(t) PROVE OweInv'
  <2>1. /\ t \in Acceptors /\ Pc(t) = "decoded" /\ Call(t) \in Requests
        /\ SameServer /\ Becomes(t, "to_write", W(t), T(t), Call(t))
    BY <1>15, RespondDoes
  <2>2. PICK v \in {"success", "failure"} : verdict' = [verdict EXCEPT ![Call(t)] = v]
    BY <1>15, RespondDoes
  <2>3. /\ S'.writeNext = S.writeNext /\ S'.writeServing = S.writeServing
        /\ S'.autoFailures = S.autoFailures
        /\ Call(t)' = Call(t) /\ Pc(t)' = "to_write" /\ W(t)' = W(t) /\ Others(t)
    BY <2>1 DEF SameServer, ServerIs, Becomes
  <2> QED BY <2>1, <2>2, <2>3, OweDecide
<1>16. ASSUME NEW t \in Tasks, DropDecoded(t) PROVE OweInv'
  <2>1. /\ t \in Acceptors /\ Pc(t) = "decoded" /\ Call(t) \in Requests
        /\ ServerIs(S.writeNext, S.writeServing, S.autoFailures \cup {W(t)})
        /\ Becomes(t, "idle", W(t), T(t), None)
        /\ verdict' = [verdict EXCEPT ![Call(t)] = "failure"]
    BY <1>16, DropDecodedDoes
  <2>3. /\ S'.writeNext = S.writeNext /\ S'.writeServing = S.writeServing
        /\ S'.autoFailures = S.autoFailures \cup {W(t)}
        /\ Pc(t)' = "idle" /\ W(t)' = W(t) /\ Others(t)
    BY <2>1 DEF ServerIs, Becomes
  <2> QED BY <2>1, <2>3, OweDecide
<1>17. ASSUME LoseConnection PROVE OweInv'
  BY <1>17, <1>s, <1>k, LoseConnectionDoes
<1>18. CASE UNCHANGED vars
  <2>1. (\A u \in Tasks : SameTask(u)) /\ UNCHANGED verdict
    BY <1>18 DEF vars, SameTask, Pc, W, T, Call
  <2>2. SameServer
    BY <1>18, SameEnds DEF vars
  <2> QED BY <1>s, <1>k, <2>1, <2>2
<1> QED BY <1>1, <1>2, <1>3, <1>4, <1>5, <1>6, <1>7, <1>8, <1>9, <1>10, <1>11, <1>12, <1>13,
           <1>14, <1>15, <1>16, <1>17, <1>18 DEF Next, Start, Step, Reads
-----------------------------------------------------------------------------
(* The answers given.  What was decided of a request whose answer has had  *)
(* its turn to be written stays; a call has its answer by reading alone.   *)
VerdictKept ==
  \A q \in Requests : HasTicket(q) /\ T(q) < S.writeServing => verdict'[q] = verdict[q]
ReaderSame(q) ==
  /\ Pc(q)' = "reading" => HasTicket(q) /\ T(q) = C.readServing
  /\ Pc(q)' \in {"ok", "rejected"} \cup GaveUp => Pc(q)' = Pc(q)
  /\ Pc(q) \in GaveUp => Pc(q)' = Pc(q)

(* A ticket that had its turn at the server is an old one. *)
LEMMA OldTicket ==
  ASSUME OneWay, TypeOK, OweInv, TicketsGrow, NEW q \in Requests, HasTicket(q)', T(q)' \in Nat,
         T(q)' < S.writeServing
  PROVE  HasTicket(q) /\ T(q)' = T(q)
<1>1. S.writeServing \in Nat /\ S.writeNext \in Nat /\ S.writeServing <= S.writeNext
  BY Types DEF ConvRecord, OweInv
<1>2. ~(S.writeNext <= T(q)')
  BY <1>1
<1> QED BY <1>2 DEF TicketsGrow

(* A call that has none before it that gave the reader back unread had     *)
(* none before the step either.                                            *)
LEMMA OrderKept ==
  ASSUME OneWay, TicketsGrow, \A q \in Requests : ReaderSame(q)
  PROVE  /\ Whole' => Whole
         /\ \A q \in Requests : HasTicket(q) /\ InOrder(q)' => InOrder(q)
<1>1. \A r \in Requests : Pc(r) \in GaveUp => HasTicket(r) /\ Pc(r)' \in GaveUp
  BY DEF ReaderSame, GaveUp, HasTicket
<1>2. \A r \in Requests : HasTicket(r) => T(r)' = T(r)
  BY DEF TicketsGrow
<1>3. ASSUME NEW q \in Requests, HasTicket(q), InOrder(q)' PROVE InOrder(q)
  <2>1. \A r \in Requests : T(r)' < T(q)' => Pc(r)' \notin GaveUp
    BY <1>3, Roles DEF InOrder, T, Pc, OneWay
  <2>2. \A r \in Requests : T(r) < T(q) => Pc(r) \notin GaveUp
    BY <1>1, <1>2, <1>3, <2>1
  <2> QED BY <2>2 DEF InOrder, T, Pc
<1> QED BY <1>1, <1>3 DEF Whole

LEMMA AnswerKept ==
  ASSUME OneWay, TypeOK, TypeOK', OweInv, AnswerInv, TicketsGrow, VerdictKept,
         C'.readServing = C.readServing, down => down',
         S'.writeServing = S.writeServing \/ (down' /\ S'.writeServing = S.writeServing + 1),
         NEW i \in 0..Len(Answers), Len(Answers') = i, ~down' => i = Len(Answers),
         \A n \in 1..i : Answers'[n] = Answers[n],
         \A q \in Requests : ReaderSame(q)
  PROVE  AnswerInv'
<1>0. /\ C.readServing \in Nat /\ S.writeServing \in Nat /\ Len(Answers) \in Nat
      /\ \A q \in Requests : T(q) \in Nat /\ T(q)' \in Nat /\ q \in Tasks
      /\ S.writeServing <= S'.writeServing /\ S'.writeServing \in Nat
  <2>1. C.readServing \in Nat /\ S.writeServing \in Nat /\ Answers \in Seq(Message)
    BY Types DEF ConvRecord
  <2>2. \A q \in Requests : T(q) \in Nat /\ q \in Tasks
    BY Types, Roles
  <2>3. \A q \in Requests : T(q)' \in Nat
    BY <2>2 DEF TypeOK, T
  <2> QED BY <2>1, <2>2, <2>3
<1>w. Whole' => Whole /\ FlowInv
  BY OrderKept DEF AnswerInv
<1>1. ASSUME FlowInv, NEW n \in 1..Len(Answers')
      PROVE  C'.readServing + n - 1 < S'.writeServing /\ Answers'[n] # Reply("residue")
  <2>1. n \in 1..Len(Answers) /\ n \in Nat
    BY <1>0, <1>1
  <2>2. C.readServing + n - 1 < S.writeServing /\ Answers[n] # Reply("residue")
    BY <1>1, <2>1 DEF FlowInv
  <2> QED BY <1>0, <1>1, <2>1, <2>2
<1>2. ASSUME FlowInv, NEW n \in 1..Len(Answers'), NEW q \in Requests,
             HasTicket(q)', T(q)' = C'.readServing + n - 1
      PROVE  Answers'[n] = Reply(verdict'[q])
  <2>1. n \in 1..Len(Answers) /\ n \in 1..i /\ n \in Nat
    BY <1>0, <1>2
  <2>2. T(q)' < S.writeServing /\ T(q)' = C.readServing + n - 1
    BY <1>2, <2>1 DEF FlowInv
  <2>3. HasTicket(q) /\ T(q)' = T(q)
    BY <1>0, <1>2, <2>2, OldTicket
  <2>4. Answers[n] = Reply(verdict[q])
    BY <1>2, <2>1, <2>2, <2>3 DEF FlowInv
  <2>5. verdict'[q] = verdict[q]
    BY <2>2, <2>3 DEF VerdictKept
  <2> QED BY <2>1, <2>4, <2>5
<1>3. FlowInv /\ ~down' => C'.readServing + Len(Answers') = S'.writeServing
  BY DEF FlowInv
<1>f. Whole' => FlowInv'
  BY <1>w, <1>1, <1>2, <1>3 DEF FlowInv
<1>4. ASSUME NEW q \in Requests, Pc(q)' = "reading" PROVE T(q)' = C'.readServing
  BY <1>4 DEF ReaderSame, TicketsGrow
<1>u. ASSUME NEW q \in Requests, Pc(q)' \in GaveUp PROVE T(q)' < C'.readServing
  <2>1. Pc(q) = Pc(q)'
    BY <1>u DEF ReaderSame
  <2>2. T(q) < C.readServing /\ HasTicket(q)
    BY <1>u, <2>1 DEF AnswerInv, GaveUp, HasTicket
  <2> QED BY <2>2 DEF TicketsGrow
<1>5. ASSUME NEW q \in Requests, InOrder(q)', Pc(q)' \in {"ok", "rejected"}
      PROVE  /\ T(q)' < S'.writeServing
             /\ Pc(q)' = "ok" => verdict'[q] = "success"
             /\ Pc(q)' = "rejected" => verdict'[q] = "failure"
  <2>1. Pc(q) = Pc(q)' /\ HasTicket(q)
    BY <1>5 DEF ReaderSame, HasTicket
  <2>2. InOrder(q)
    BY <1>5, <2>1, OrderKept
  <2>3. T(q) < S.writeServing
    BY <1>5, <2>1, <2>2 DEF AnswerInv
  <2>4. verdict'[q] = verdict[q] /\ T(q)' = T(q)
    BY <2>1, <2>3 DEF TicketsGrow, VerdictKept
  <2>5. /\ Pc(q) = "ok" => verdict[q] = "success"
        /\ Pc(q) = "rejected" => verdict[q] = "failure"
    BY <2>2 DEF AnswerInv, OutcomeIsVerdict, At, Pc
  <2> QED BY <1>0, <2>1, <2>3, <2>4, <2>5
<1>6. OutcomeIsVerdict'
  BY <1>5 DEF OutcomeIsVerdict, At, Pc
<1> QED BY <1>f, <1>4, <1>u, <1>5, <1>6 DEF AnswerInv

(* The next answer is written. *)
LEMMA AnswerSent ==
  ASSUME OneWay, TypeOK, TypeOK', OweInv, AnswerInv, TicketsGrow, UNCHANGED verdict,
         C'.readServing = C.readServing, ~down, ~down',
         S'.writeServing = S.writeServing + 1, S.writeServing < S.writeNext,
         NEW v, v # "residue", Answers' = Append(Answers, Reply(v)),
         \A q \in Requests : HasTicket(q) /\ T(q) = S.writeServing => verdict[q] = v,
         \A q \in Requests : ReaderSame(q)
  PROVE  AnswerInv'
<1>0. /\ C.readServing \in Nat /\ S.writeServing \in Nat /\ Answers \in Seq(Message)
      /\ Len(Answers) \in Nat /\ S.writeNext \in Nat
      /\ \A q \in Requests : T(q) \in Nat /\ T(q)' \in Nat /\ q \in Tasks
  <2>1. C.readServing \in Nat /\ S.writeServing \in Nat /\ Answers \in Seq(Message)
        /\ S.writeNext \in Nat
    BY Types DEF ConvRecord
  <2>2. \A q \in Requests : T(q) \in Nat /\ q \in Tasks
    BY Types, Roles
  <2>3. \A q \in Requests : T(q)' \in Nat
    BY <2>2 DEF TypeOK, T
  <2> QED BY <2>1, <2>2, <2>3
<1>a. /\ Len(Answers') = Len(Answers) + 1 /\ Answers'[Len(Answers) + 1] = Reply(v)
      /\ \A n \in 1..Len(Answers) : Answers'[n] = Answers[n]
      /\ FlowInv => C.readServing + Len(Answers) = S.writeServing
  BY <1>0, SeqChanges DEF FlowInv
<1>w. Whole' => Whole /\ FlowInv
  BY OrderKept DEF AnswerInv
<1>n. Reply(v) # Reply("residue")
  <2>1. Reply(v).kind = v /\ Reply("residue").kind = "residue"
    BY DEF Reply
  <2> QED BY <2>1
<1>1. ASSUME FlowInv, NEW n \in 1..Len(Answers')
      PROVE  C'.readServing + n - 1 < S'.writeServing /\ Answers'[n] # Reply("residue")
  <2>1. n \in 1..Len(Answers) \/ n = Len(Answers) + 1
    BY <1>0, <1>a, <1>1
  <2>2. Answers'[n] # Reply("residue")
    BY <1>1, <1>a, <1>n, <2>1 DEF FlowInv
  <2> QED BY <1>0, <1>1, <1>a, <2>2
<1>2. ASSUME FlowInv, NEW n \in 1..Len(Answers'), NEW q \in Requests,
             HasTicket(q)', T(q)' = C'.readServing + n - 1
      PROVE  Answers'[n] = Reply(verdict'[q])
  <2>1. CASE n \in 1..Len(Answers)
    <3>1. T(q)' < S.writeServing /\ T(q)' = C.readServing + n - 1
      BY <1>2, <2>1 DEF FlowInv
    <3>2. HasTicket(q) /\ T(q)' = T(q)
      BY <1>0, <1>2, <3>1, OldTicket
    <3>3. Answers[n] = Reply(verdict[q])
      BY <1>2, <2>1, <3>1, <3>2 DEF FlowInv
    <3> QED BY <1>a, <2>1, <3>3
  <2>2. CASE n = Len(Answers) + 1
    <3>1. T(q)' = S.writeServing
      BY <1>0, <1>2, <1>a, <2>2
    <3>2. ~(S.writeNext <= T(q)')
      BY <1>0, <3>1
    <3>3. HasTicket(q) /\ T(q) = S.writeServing
      BY <1>2, <3>1, <3>2 DEF TicketsGrow
    <3> QED BY <1>a, <2>2, <3>3
  <2> QED BY <1>0, <1>a, <1>2, <2>1, <2>2
<1>3. ASSUME FlowInv PROVE C'.readServing + Len(Answers') = S'.writeServing
  <2>1. \A x, y, z \in Nat : x + y = z => x + (y + 1) = z + 1
    OBVIOUS
  <2>2. C.readServing + (Len(Answers) + 1) = S.writeServing + 1
    BY <1>0, <1>3, <1>a, <2>1
  <2> QED BY <1>a, <2>2
<1>f. Whole' => FlowInv'
  BY <1>w, <1>1, <1>2, <1>3 DEF FlowInv
<1>4. ASSUME NEW q \in Requests, Pc(q)' = "reading" PROVE T(q)' = C'.readServing
  BY <1>4 DEF ReaderSame, TicketsGrow
<1>u. ASSUME NEW q \in Requests, Pc(q)' \in GaveUp PROVE T(q)' < C'.readServing
  <2>1. Pc(q) = Pc(q)'
    BY <1>u DEF ReaderSame
  <2>2. T(q) < C.readServing /\ HasTicket(q)
    BY <1>u, <2>1 DEF AnswerInv, GaveUp, HasTicket
  <2> QED BY <2>2 DEF TicketsGrow
<1>5. ASSUME NEW q \in Requests, InOrder(q)', Pc(q)' \in {"ok", "rejected"}
      PROVE  /\ T(q)' < S'.writeServing
             /\ Pc(q)' = "ok" => verdict'[q] = "success"
             /\ Pc(q)' = "rejected" => verdict'[q] = "failure"
  <2>1. Pc(q) = Pc(q)' /\ HasTicket(q)
    BY <1>5 DEF ReaderSame, HasTicket
  <2>2. InOrder(q)
    BY <1>5, <2>1, OrderKept
  <2>3. T(q) < S.writeServing
    BY <1>5, <2>1, <2>2 DEF AnswerInv
  <2>4. verdict'[q] = verdict[q] /\ T(q)' = T(q)
    BY <2>1, <2>3 DEF TicketsGrow
  <2>5. /\ Pc(q) = "ok" => verdict[q] = "success"
        /\ Pc(q) = "rejected" => verdict[q] = "failure"
    BY <2>2 DEF AnswerInv, OutcomeIsVerdict, At, Pc
  <2> QED BY <1>0, <2>1, <2>3, <2>4, <2>5
<1>6. OutcomeIsVerdict'
  BY <1>5 DEF OutcomeIsVerdict, At, Pc
<1> QED BY <1>f, <1>4, <1>u, <1>5, <1>6 DEF AnswerInv

(* A call has the reader when it is its turn, and finds its own answer     *)
(* unless a call before it left one unread.                                *)
LEMMA AnswerRead ==
  ASSUME OneWay, TypeOK, PlaceInv, TicketInv, AnswerInv, NEW c \in Tasks, Reads(c)
  PROVE  AnswerInv'
<1>0. /\ C.readServing \in Nat /\ S.writeServing \in Nat /\ Answers \in Seq(Message)
      /\ Len(Answers) \in Nat
      /\ \A q \in Requests : T(q) \in Nat /\ q \in Tasks
  <2>1. C.readServing \in Nat /\ S.writeServing \in Nat /\ Answers \in Seq(Message)
    BY Types DEF ConvRecord
  <2>2. \A q \in Requests : T(q) \in Nat /\ q \in Tasks
    BY Types, Roles
  <2> QED BY <2>1, <2>2
<1>c. /\ c \in Requests /\ Pc(c) = "reading" /\ C'.readServing = C.readServing + 1
      /\ S'.writeServing = S.writeServing /\ UNCHANGED <<down, verdict>>
      /\ T(c) = C.readServing /\ HasTicket(c) /\ Pc(c) \notin GaveUp
  <2>1. /\ c \in Requests /\ Pc(c) = "reading" /\ C'.readServing = C.readServing + 1
        /\ S'.writeServing = S.writeServing /\ UNCHANGED <<down, verdict>>
    BY ReadsDoes DEF ClientIs, SameServer, ServerIs
  <2> QED BY <2>1 DEF AnswerInv, HasTicket, GaveUp
<1>o. PICK pc \in Ended : /\ Becomes(c, pc, W(c), T(c), Call(c))
                         /\ \/ pc \in GaveUp
                            \/ Answers # <<>> /\ Answers[1] = Reply("residue")
                            \/ ReadsOwn(pc)
  BY ReadsDoes
<1>q. /\ \A q \in Requests : T(q)' = T(q) /\ (q # c => Pc(q)' = Pc(q))
      /\ Pc(c)' = pc /\ pc \notin {"idle", "pair", "reading"}
  BY <1>0, <1>o DEF Becomes, Others, SameTask, Ended, GaveUp
<1>h. \A q \in Requests : HasTicket(q)' <=> HasTicket(q)
  BY <1>c, <1>q DEF HasTicket
<1>i. \A q \in Requests : InOrder(q)' => InOrder(q)
  <2>1. \A q, r \in Requests : InOrder(q)' /\ T(r)' < T(q)' => Pc(r)' \notin GaveUp
    BY Roles DEF InOrder, T, Pc, OneWay
  <2>2. \A q, r \in Requests : InOrder(q)' /\ T(r) < T(q) => Pc(r) \notin GaveUp
    BY <1>c, <1>q, <2>1
  <2> QED BY <2>2 DEF InOrder, T, Pc
(* Whoever gave the reader back unread had its turn before c.              *)
<1>w. InOrder(c) => Whole
  <2>1. \A r \in Requests : Pc(r) \in GaveUp => T(r) < T(c)
    BY <1>c DEF AnswerInv
  <2>2. \A r \in Requests : InOrder(c) /\ T(r) < T(c) => Pc(r) \notin GaveUp
    BY <1>c, Roles DEF InOrder, T, Pc, OneWay
  <2> QED BY <2>1, <2>2 DEF Whole
<1>v. Whole' => Whole /\ pc \notin GaveUp
  BY <1>c, <1>q DEF Whole
<1>g. ASSUME Whole PROVE FlowInv /\ (pc \in GaveUp \/ ReadsOwn(pc))
  <2>1. FlowInv
    BY <1>g DEF AnswerInv
  <2>2. Answers # <<>> => 1 \in 1..Len(Answers)
    BY <1>0
  <2> QED BY <1>o, <2>1, <2>2 DEF FlowInv
<1>1. ASSUME Whole', NEW n \in 1..Len(Answers')
      PROVE  /\ n + 1 \in 1..Len(Answers) /\ Answers'[n] = Answers[n + 1] /\ n \in Nat
             /\ C'.readServing + n - 1 < S'.writeServing
             /\ C'.readServing + n - 1 = C.readServing + (n + 1) - 1
             /\ Answers'[n] # Reply("residue")
  <2>0. FlowInv /\ ReadsOwn(pc)
    BY <1>1, <1>v, <1>g
  <2>1. Answers # <<>> /\ Answers' = Tail(Answers)
    <3>1. Answers = <<>> => Len(Answers) = 0
      BY <1>0
    <3> QED BY <1>1, <2>0, <3>1 DEF ReadsOwn
  <2>2. n + 1 \in 1..Len(Answers) /\ Answers'[n] = Answers[n + 1] /\ n \in Nat
    BY <1>0, <1>1, <2>1, SeqChanges
  <2>3. PICK m \in 1..Len(Answers) : m = n + 1
    BY <2>2
  <2>4. C.readServing + m - 1 < S.writeServing /\ Answers[m] # Reply("residue")
    BY <2>0 DEF FlowInv
  <2> QED BY <1>0, <1>c, <2>2, <2>3, <2>4
<1>2. ASSUME Whole', NEW n \in 1..Len(Answers'), NEW q \in Requests,
             HasTicket(q)', T(q)' = C'.readServing + n - 1
      PROVE  Answers'[n] = Reply(verdict'[q])
  <2>1. HasTicket(q) /\ T(q) = C.readServing + (n + 1) - 1
    BY <1>1, <1>2, <1>h, <1>q
  <2>2. PICK m \in 1..Len(Answers) : m = n + 1
    BY <1>1, <1>2
  <2>3. Answers[m] = Reply(verdict[q])
    BY <1>2, <1>v, <1>g, <2>1, <2>2 DEF FlowInv
  <2> QED BY <1>1, <1>2, <1>c, <2>2, <2>3
<1>3. ASSUME Whole', ~down' PROVE C'.readServing + Len(Answers') = S'.writeServing
  <2>1. Answers # <<>> /\ Answers' = Tail(Answers) /\ ~down /\ FlowInv
    BY <1>3, <1>c, <1>v, <1>g DEF ReadsOwn
  <2>2. Len(Answers') = Len(Answers) - 1
    BY <1>0, <2>1, SeqChanges
  <2> QED BY <1>0, <1>c, <2>1, <2>2 DEF FlowInv
<1>f. Whole' => FlowInv'
  BY <1>1, <1>2, <1>3 DEF FlowInv
<1>4. ASSUME NEW q \in Requests, Pc(q)' = "reading" PROVE T(q)' = C'.readServing
  <2>1. q # c /\ Pc(q) = "reading"
    BY <1>4, <1>q
  <2>2. T(q) = T(c) /\ HasTicket(q)
    BY <1>c, <2>1 DEF AnswerInv, HasTicket
  <2> QED BY <1>c, <2>1, <2>2 DEF TicketInv
<1>u. ASSUME NEW q \in Requests, Pc(q)' \in GaveUp PROVE T(q)' < C'.readServing
  <2>1. CASE q = c
    BY <1>0, <1>c, <1>q, <2>1
  <2>2. CASE q # c
    BY <1>0, <1>c, <1>q, <1>u, <2>2 DEF AnswerInv
  <2> QED BY <2>1, <2>2
<1>a. ASSUME InOrder(c), pc \in {"ok", "rejected"}
      PROVE  /\ T(c) < S.writeServing
             /\ \/ pc = "ok" /\ verdict[c] = "success"
                \/ pc = "rejected" /\ verdict[c] = "failure"
  <2>0. FlowInv /\ ReadsOwn(pc)
    BY <1>a, <1>w, <1>g DEF GaveUp
  <2>1. /\ Answers # <<>>
        /\ \/ Answers[1] = Reply("success") /\ pc = "ok"
           \/ Answers[1] = Reply("failure") /\ pc = "rejected"
    BY <1>a, <2>0 DEF ReadsOwn
  <2>2. 1 \in 1..Len(Answers) /\ C.readServing + 1 - 1 = C.readServing
    BY <1>0, <2>1, SeqChanges
  <2>3. C.readServing < S.writeServing /\ Answers[1] = Reply(verdict[c])
    BY <1>0, <1>c, <2>0, <2>2 DEF FlowInv
  <2>4. \A v, w : Reply(v) = Reply(w) => v = w
    <3>1. \A v : Reply(v).kind = v
      BY DEF Reply
    <3> QED BY <3>1
  <2> QED BY <1>c, <2>1, <2>3, <2>4
<1>5. ASSUME NEW q \in Requests, InOrder(q)', Pc(q)' \in {"ok", "rejected"}
      PROVE  /\ T(q)' < S'.writeServing
             /\ Pc(q)' = "ok" => verdict'[q] = "success"
             /\ Pc(q)' = "rejected" => verdict'[q] = "failure"
  <2>0. InOrder(q)
    BY <1>5, <1>i
  <2>1. CASE q # c
    BY <1>5, <1>c, <1>q, <2>0, <2>1 DEF AnswerInv, OutcomeIsVerdict, At, Pc
  <2>2. CASE q = c
    BY <1>5, <1>a, <1>c, <1>q, <2>0, <2>2
  <2> QED BY <2>1, <2>2
<1>7. OutcomeIsVerdict'
  BY <1>5 DEF OutcomeIsVerdict, At, Pc
<1> QED BY <1>f, <1>4, <1>u, <1>5, <1>7 DEF AnswerInv

LEMMA AnswerStep ==
  ASSUME OneWay, TypeOK, TypeOK', PlaceInv, TicketInv, SendInv, AskInv, OweInv, AnswerInv,
         [Next]_vars
  PROVE  AnswerInv'
<1>0. /\ \A c \in Calls : c \in Tasks /\ c \notin Acceptors
      /\ \A q \in Requests : q \in Calls /\ q \in Tasks /\ q \notin Notices
      /\ \A a \in Acceptors : a \in Tasks /\ a \notin Requests
      /\ \A t \in Tasks : t \in Calls \/ t \in Acceptors
      /\ \A c \in Notices : c \in Calls /\ c \notin Requests
      /\ Answers \in Seq(Message) /\ Len(Answers) \in Nat
      /\ \A q \in Requests : T(q) \in Nat
      /\ S.writeServing \in Nat
  BY Roles, Types DEF ConvRecord
<1>g. TicketsGrow
  BY TicketsGrowStep
<1>d. down => down'
  BY DownStays
<1>v. UNCHANGED verdict => VerdictKept
  BY DEF VerdictKept
<1>s. ASSUME NEW q \in Requests, SameTask(q) PROVE ReaderSame(q)
  BY <1>s DEF SameTask, ReaderSame, AnswerInv, HasTicket
<1>t. ASSUME \A u \in Tasks : SameTask(u) PROVE \A q \in Requests : ReaderSame(q)
  BY <1>0, <1>s, <1>t
<1>a. ASSUME NEW c \in Tasks, c \notin Requests, NEW pc, NEW w, NEW r, NEW call,
             Becomes(c, pc, w, r, call)
      PROVE  \A q \in Requests : ReaderSame(q)
  BY <1>0, <1>s, <1>a DEF Becomes, Others
<1>c. ASSUME NEW c \in Tasks, NEW pc, NEW w, NEW r, NEW call, Becomes(c, pc, w, r, call),
             Pc(c) \notin GaveUp,
             \/ pc \notin {"reading", "ok", "rejected"} \cup GaveUp
             \/ pc = "reading" /\ HasTicket(c) /\ T(c) = C.readServing
      PROVE  \A q \in Requests : ReaderSame(q)
  <2> SUFFICES ASSUME NEW q \in Requests PROVE ReaderSame(q)
    OBVIOUS
  <2>1. CASE q # c
    BY <1>0, <1>s, <1>c, <2>1 DEF Becomes, Others
  <2>2. CASE q = c
    BY <1>c, <2>2 DEF Becomes, ReaderSame, GaveUp
  <2> QED BY <2>1, <2>2
(* The stream of answers is left alone. *)
<1>k. ASSUME C'.readServing = C.readServing, SameServer, VerdictKept, Answers' = Answers,
             \A q \in Requests : ReaderSame(q)
      PROVE  AnswerInv'
  <2>1. S'.writeServing = S.writeServing
    BY <1>k DEF SameServer, ServerIs
  <2>2. PICK i \in 0..Len(Answers) : i = Len(Answers)
    BY <1>0
  <2> QED BY <1>d, <1>g, <1>k, <2>1, <2>2, AnswerKept
(* A write at the server fails. *)
<1>f. ASSUME SameClient, NEW auto, ServerIs(S.writeNext, S.writeServing + 1, auto), down',
             UNCHANGED verdict, Answers' = Answers, \A q \in Requests : ReaderSame(q)
      PROVE  AnswerInv'
  <2>1. C'.readServing = C.readServing /\ S'.writeServing = S.writeServing + 1
    BY <1>f DEF SameClient, ClientIs, ServerIs
  <2>2. PICK i \in 0..Len(Answers) : i = Len(Answers)
    BY <1>0
  <2> QED BY <1>d, <1>f, <1>g, <1>v, <2>1, <2>2, AnswerKept
<1>r. SameClient => C'.readServing = C.readServing
  BY DEF SameClient, ClientIs
<1>1. ASSUME NEW t \in Tasks, TakeWriteTicket(t) \/ TakeNoticeTicket(t) \/ TakeReadTicket(t)
      PROVE  AnswerInv'
  <2>1. C'.readServing = C.readServing /\ SameServer /\ UNCHANGED verdict /\ Answers' = Answers
    BY <1>1, TakeWriteTicketDoes, TakeNoticeTicketDoes, TakeReadTicketDoes DEF ClientIs, Same
  <2>2. \A q \in Requests : ReaderSame(q)
    BY <1>1, <1>c, TakeWriteTicketDoes, TakeNoticeTicketDoes, TakeReadTicketDoes DEF GaveUp
  <2> QED BY <1>k, <1>v, <2>1, <2>2
<1>4. ASSUME NEW t \in Tasks, TakeAcceptTicket(t) PROVE AnswerInv'
  BY <1>0, <1>4, <1>a, <1>k, <1>r, <1>v, TakeAcceptTicketDoes DEF Same
<1>5. ASSUME NEW t \in Tasks, DrainAutoFailure(t) PROVE AnswerInv'
  <2>1. /\ t \in Acceptors /\ S.writeServing \in S.autoFailures /\ SameClient
        /\ ServerIs(S.writeNext, S.writeServing + 1, S.autoFailures \ {S.writeServing})
        /\ UNCHANGED <<down, verdict>>
    BY <1>5, DrainAutoFailureDoes
  <2>2. CASE /\ ~down /\ Answers' = Append(Answers, Reply("failure"))
             /\ \A u \in Tasks : SameTask(u)
    <3>1. \A q \in Requests : ReaderSame(q)
      BY <1>t, <2>2
    <3>2. C'.readServing = C.readServing /\ S'.writeServing = S.writeServing + 1
      BY <1>r, <2>1 DEF ServerIs
    <3>3. /\ S.writeServing < S.writeNext
          /\ \A q \in Requests : HasTicket(q) /\ T(q) = S.writeServing => verdict[q] = "failure"
      BY <2>1 DEF OweInv
    <3>4. ~down' /\ UNCHANGED verdict
      BY <2>1, <2>2
    <3> QED BY <1>g, <2>2, <3>1, <3>2, <3>3, <3>4, AnswerSent
  <2>3. CASE down /\ Answers' = Answers /\ Becomes(t, "failed", W(t), T(t), Call(t))
    <3>1. \A q \in Requests : ReaderSame(q)
      BY <1>0, <1>a, <2>1, <2>3
    <3>2. down' /\ Answers' = Answers
      BY <1>d, <2>3
    <3> QED BY <1>f, <2>1, <3>1, <3>2
  <2> QED BY <1>5, <2>2, <2>3, DrainAutoFailureDoes
<1>6. ASSUME NEW t \in Tasks, SendCall(t) PROVE AnswerInv'
  <2>1. C'.readServing = C.readServing /\ SameServer /\ UNCHANGED verdict /\ Answers' = Answers
    BY <1>6, SendCallDoes DEF ClientIs
  <2>2. \A q \in Requests : ReaderSame(q)
    BY <1>6, <1>c, SendCallDoes DEF GaveUp
  <2> QED BY <1>k, <1>v, <2>1, <2>2
<1>7. ASSUME NEW t \in Tasks, SendAnswer(t) PROVE AnswerInv'
  <2>1. /\ t \in Acceptors /\ Pc(t) = "to_write" /\ S.writeServing = W(t) /\ SameClient
        /\ ServerIs(S.writeNext, S.writeServing + 1, S.autoFailures)
        /\ Answers' = Append(Answers, Reply(verdict[Call(t)]))
        /\ Becomes(t, "idle", W(t), T(t), None)
    BY <1>7, SendAnswerDoes
  <2>2. ~down /\ ~down' /\ UNCHANGED verdict
    BY <1>7, SendAnswerDoes
  <2>3. \A q \in Requests : ReaderSame(q)
    BY <1>0, <1>a, <2>1
  <2>4. C'.readServing = C.readServing /\ S'.writeServing = S.writeServing + 1
    BY <1>r, <2>1 DEF ServerIs
  <2>5. Owes(t) /\ Call(t) \in Requests
    BY <2>1 DEF PlaceInv, PcInv, Owes
  <2>6. HasTicket(Call(t)) /\ T(Call(t)) = S.writeServing /\ S.writeServing < S.writeNext
    BY <2>1, <2>5 DEF OweInv
  <2>7. \A q \in Requests : HasTicket(q) /\ T(q) = S.writeServing => q = Call(t)
    BY <2>5, <2>6 DEF TicketInv
  <2>8. \A q \in Requests :
          HasTicket(q) /\ T(q) = S.writeServing => verdict[q] = verdict[Call(t)]
    BY <2>7
  <2>9. verdict[Call(t)] # "residue"
    BY <2>1, <2>5 DEF OweInv
  <2> QED BY <1>g, <2>1, <2>2, <2>3, <2>4, <2>6, <2>8, <2>9, AnswerSent
<1>8. ASSUME NEW t \in Tasks, WriteFails(t) PROVE AnswerInv'
  <2>0. down /\ Same /\ Pc(t) = "to_write"
    BY <1>8, WriteFailsDoes
  <2>a. down' /\ UNCHANGED verdict /\ Answers' = Answers
    BY <1>d, <2>0 DEF Same
  <2>1. CASE t \in Acceptors
    <3>1. /\ SameClient /\ Becomes(t, "failed", W(t), T(t), Call(t))
          /\ ServerIs(S.writeNext, S.writeServing + 1, S.autoFailures)
      BY <1>0, <1>8, <2>1, WriteFailsDoes
    <3>2. \A q \in Requests : ReaderSame(q)
      BY <1>c, <2>0, <3>1 DEF GaveUp
    <3> QED BY <1>f, <2>a, <3>1, <3>2
  <2>2. CASE t \in Calls
    <3>1. /\ SameServer /\ Becomes(t, "broken", W(t), T(t), Call(t))
          /\ ClientIs(C.writeNext, C.writeServing + 1, C.readNext, C.readServing, C.pairLock,
                      C.autoFailures, TRUE)
      BY <1>0, <1>8, <2>2, WriteFailsDoes
    <3>2. C'.readServing = C.readServing
      BY <3>1 DEF ClientIs
    <3>3. \A q \in Requests : ReaderSame(q)
      BY <1>c, <2>0, <3>1 DEF GaveUp
    <3> QED BY <1>k, <1>v, <2>a, <3>1, <3>2, <3>3
  <2> QED BY <1>0, <2>1, <2>2
<1>9. ASSUME NEW t \in Tasks, FindPoisoned(t) \/ ReadLook(t) \/ ReadGrant(t) PROVE AnswerInv'
  <2>0. C'.readServing = C.readServing /\ SameServer /\ UNCHANGED verdict /\ Answers' = Answers
    BY <1>9, <1>r, LoopDoes DEF Same
  <2>1. CASE t \in Acceptors
    <3>1. \A q \in Requests : ReaderSame(q)
      BY <1>0, <1>9, <1>a, <2>1, LoopDoes
    <3> QED BY <1>k, <1>v, <2>0, <3>1
  <2>2. CASE t \in Calls
    <3>1. Pc(t) = "looking" => HasTicket(t)
      BY DEF HasTicket
    <3>2. \A q \in Requests : ReaderSame(q)
      BY <1>0, <1>9, <1>c, <2>2, <3>1, LoopDoes DEF GaveUp
    <3> QED BY <1>k, <1>v, <2>0, <3>2
  <2> QED BY <1>0, <2>1, <2>2
<1>10. ASSUME NEW t \in Tasks, Reads(t) PROVE AnswerInv'
  BY <1>10, AnswerRead
<1>11. ASSUME NEW t \in Tasks, AcceptHeader(t) PROVE AnswerInv'
  <2>1. /\ t \in Acceptors /\ C'.readServing = C.readServing /\ UNCHANGED verdict
        /\ Answers' = Answers /\ S'.writeServing = S.writeServing
    BY <1>11, <1>r, AcceptHeaderDoes DEF ServerIs, SameServer
  <2>2. \A q \in Requests : ReaderSame(q)
    BY <1>0, <1>11, <1>a, <2>1, AcceptHeaderDoes
  <2>3. PICK i \in 0..Len(Answers) : i = Len(Answers)
    BY <1>0
  <2> QED BY <1>d, <1>g, <1>v, <2>1, <2>2, <2>3, AnswerKept
<1>12. ASSUME NEW t \in Tasks, AcceptFails(t) PROVE AnswerInv'
  BY <1>0, <1>12, <1>a, <1>k, <1>r, <1>v, AcceptFailsDoes DEF Same
<1>13. ASSUME NEW t \in Tasks, DecodePayload(t) PROVE AnswerInv'
  BY <1>0, <1>13, <1>a, <1>k, <1>r, <1>v, DecodePayloadDoes DEF Same
<1>14. ASSUME NEW t \in Tasks, DropUndecoded(t) PROVE AnswerInv'
  BY <1>0, <1>14, <1>a, <1>k, <1>r, <1>v, DropUndecodedDoes
(* A verdict is given to a request whose answer has not been written. *)
<1>e. ASSUME NEW c \in Acceptors, Pc(c) = "decoded", Call(c) \in Requests, NEW v,
             verdict' = [verdict EXCEPT ![Call(c)] = v]
      PROVE  VerdictKept
  <2>1. Owes(c)
    BY <1>e DEF Owes
  <2>2. S.writeServing <= T(Call(c))
    BY <1>e, <2>1 DEF OweInv
  <2>3. \A q \in Requests : T(q) < S.writeServing => q # Call(c)
    BY <1>0, <2>2
  <2> QED BY <1>e, <2>3 DEF VerdictKept, TypeOK
<1>15. ASSUME NEW t \in Tasks, Respond(t) PROVE AnswerInv'
  <2>1. VerdictKept
    BY <1>15, <1>e, RespondDoes
  <2> QED BY <1>0, <1>15, <1>a, <1>k, <1>r, <2>1, RespondDoes
<1>16. ASSUME NEW t \in Tasks, DropDecoded(t) PROVE AnswerInv'
  <2>1. VerdictKept
    BY <1>16, <1>e, DropDecodedDoes
  <2>2. /\ C'.readServing = C.readServing /\ Answers' = Answers
        /\ S'.writeServing = S.writeServing
    BY <1>16, <1>r, DropDecodedDoes DEF ServerIs
  <2>3. \A q \in Requests : ReaderSame(q)
    BY <1>0, <1>16, <1>a, DropDecodedDoes
  <2>4. PICK i \in 0..Len(Answers) : i = Len(Answers)
    BY <1>0
  <2> QED BY <1>d, <1>g, <2>1, <2>2, <2>3, <2>4, AnswerKept
<1>17. ASSUME LoseConnection PROVE AnswerInv'
  <2>1. /\ down' /\ UNCHANGED verdict /\ SameClient /\ S'.writeServing = S.writeServing
        /\ \A u \in Tasks : SameTask(u)
    BY <1>17, LoseConnectionDoes DEF SameServer, ServerIs
  <2>2. PICK i \in 0..Len(Answers) : Answers' = SubSeq(Answers, 1, i)
    BY <1>17, LoseConnectionDoes
  <2>3. Len(Answers') = i /\ \A n \in 1..i : Answers'[n] = Answers[n]
    BY <1>0, <2>2, SeqChanges
  <2> QED BY <1>d, <1>g, <1>r, <1>t, <1>v, <2>1, <2>3, AnswerKept
<1>18. CASE UNCHANGED vars
  <2>1. (\A u \in Tasks : SameTask(u)) /\ UNCHANGED verdict /\ Answers' = Answers
    BY <1>18 DEF vars, SameTask, Pc, W, T, Call, Answers
  <2>2. SameClient /\ SameServer
    BY <1>18, SameEnds DEF vars
  <2> QED BY <1>k, <1>r, <1>t, <1>v, <2>1, <2>2
<1> QED BY <1>1, <1>4, <1>5, <1>6, <1>7, <1>8, <1>9, <1>10, <1>11, <1>12, <1>13,
           <1>14, <1>15, <1>16, <1>17, <1>18 DEF Next, Start, Step, Reads
-----------------------------------------------------------------------------
(* The residues.  An acceptor that failed is done, and the only step that  *)
(* leaves part of a message is one by which the acceptor fails.            *)
LEMMA ResidueStep ==
  ASSUME OneWay, OneAcceptor, TypeOK, PlaceInv, SendInv, ResidueInv, [Next]_vars
  PROVE  ResidueInv'
<1>0. /\ \A c \in Calls : c \in Tasks /\ c \notin Acceptors
      /\ \A q \in Requests : q \in Calls
      /\ \A n \in Notices : n \in Calls
      /\ \A a \in Acceptors : a \in Tasks
      /\ \A t \in Tasks : t \in Calls \/ t \in Acceptors
      /\ Asks \in Seq(Message) /\ Len(Asks) \in Nat
  BY Roles, Types
<1> DEFINE Stays == \A a \in Acceptors : Pc(a) = "failed" => Pc(a)' = "failed"
<1>k. ASSUME Stays, \A n \in 1..Len(Asks') : Asks'[n] = Reply("residue") =>
                       \E m \in 1..Len(Asks) : Asks[m] = Reply("residue")
      PROVE  ResidueInv'
  BY <1>k DEF ResidueInv
<1>c. ASSUME NEW t \in Tasks, t \in Calls \/ Pc(t) # "failed", NEW pc, NEW w, NEW r, NEW call,
             Becomes(t, pc, w, r, call)
      PROVE  Stays
  BY <1>0, <1>c DEF Becomes, Others, SameTask
<1>t. ASSUME \A u \in Tasks : SameTask(u) PROVE Stays
  BY <1>0, <1>t DEF SameTask
<1>s. ASSUME Stays, Asks' = Asks PROVE ResidueInv'
  BY <1>k, <1>s
<1>p. ASSUME Stays, NEW m, m # Reply("residue"), Asks' = Append(Asks, m) PROVE ResidueInv'
  <2>1. /\ Len(Asks') = Len(Asks) + 1 /\ Asks'[Len(Asks) + 1] = m
        /\ \A n \in 1..Len(Asks) : Asks'[n] = Asks[n]
    BY <1>0, <1>p, SeqChanges
  <2>2. ASSUME NEW n \in 1..Len(Asks'), Asks'[n] = Reply("residue")
        PROVE  \E k \in 1..Len(Asks) : Asks[k] = Reply("residue")
    <3>1. n \in 1..Len(Asks)
      BY <1>0, <1>p, <2>1, <2>2
    <3> QED BY <2>1, <2>2, <3>1
  <2> QED BY <1>k, <1>p, <2>2
<1> HIDE DEF Stays
<1>1. ASSUME NEW t \in Tasks, TakeWriteTicket(t) \/ TakeNoticeTicket(t) PROVE ResidueInv'
  BY <1>1, <1>c, <1>s, TakeWriteTicketDoes, TakeNoticeTicketDoes DEF Same
<1>2. ASSUME NEW t \in Tasks, TakeReadTicket(t) PROVE ResidueInv'
  BY <1>2, <1>c, <1>s, TakeReadTicketDoes DEF Same
<1>4. ASSUME NEW t \in Tasks, TakeAcceptTicket(t) PROVE ResidueInv'
  BY <1>4, <1>c, <1>s, TakeAcceptTicketDoes DEF Same
<1>5. ASSUME NEW t \in Tasks, DrainAutoFailure(t) PROVE ResidueInv'
  BY <1>5, <1>c, <1>s, <1>t, DrainAutoFailureDoes
<1>6. ASSUME NEW t \in Tasks, SendCall(t) PROVE ResidueInv'
  <2>1. Stays
    BY <1>0, <1>6, <1>c, SendCallDoes
  <2>2. Ask(t) # Reply("residue") /\ Note(t) # Reply("residue")
    <3>1. Ask(t).kind = "request" /\ Note(t).kind = "notice" /\ Reply("residue").kind = "residue"
      BY DEF Ask, Note, Reply
    <3> QED BY <3>1
  <2> QED BY <1>6, <1>p, <2>1, <2>2, SendCallDoes
<1>7. ASSUME NEW t \in Tasks, SendAnswer(t) PROVE ResidueInv'
  BY <1>7, <1>c, <1>s, SendAnswerDoes
<1>8. ASSUME NEW t \in Tasks, WriteFails(t) PROVE ResidueInv'
  <2>1. Pc(t) # "failed" /\ Asks' = Asks
    BY <1>8, WriteFailsDoes DEF Same
  <2>2. PICK pc : Becomes(t, pc, W(t), T(t), Call(t))
    BY <1>8, WriteFailsDoes
  <2> QED BY <1>c, <1>s, <2>1, <2>2
<1>9. ASSUME NEW t \in Tasks, FindPoisoned(t) \/ ReadLook(t) \/ ReadGrant(t) PROVE ResidueInv'
  BY <1>9, <1>c, <1>s, LoopDoes DEF Same
<1>10. ASSUME NEW t \in Tasks, Reads(t) PROVE ResidueInv'
  <2>1. Stays
    BY <1>0, <1>10, <1>c, ReadsDoes
  <2> QED BY <1>10, <1>s, <2>1, ReadsDoes
<1>11. ASSUME NEW t \in Tasks, AcceptHeader(t) PROVE ResidueInv'
  <2>1. Stays /\ Asks # <<>> /\ Asks' = Tail(Asks)
    BY <1>11, <1>c, AcceptHeaderDoes
  <2>2. ASSUME NEW n \in 1..Len(Asks'), Asks'[n] = Reply("residue")
        PROVE  \E k \in 1..Len(Asks) : Asks[k] = Reply("residue")
    <3>1. n + 1 \in 1..Len(Asks) /\ Asks'[n] = Asks[n + 1]
      BY <1>0, <2>1, SeqChanges
    <3> QED BY <2>2, <3>1
  <2> QED BY <1>k, <2>1, <2>2
<1>12. ASSUME NEW t \in Tasks, AcceptFails(t) PROVE ResidueInv'
  BY <1>12, <1>c, <1>s, AcceptFailsDoes DEF Same
<1>13. ASSUME NEW t \in Tasks, DecodePayload(t) PROVE ResidueInv'
  BY <1>13, <1>c, <1>s, DecodePayloadDoes DEF Same
<1>14. ASSUME NEW t \in Tasks, DropUndecoded(t) PROVE ResidueInv'
  <2>1. \A a \in Acceptors : Pc(a)' = "failed"
    BY <1>14, DropUndecodedDoes DEF OneAcceptor, Becomes
  <2> QED BY <2>1 DEF ResidueInv
<1>15. ASSUME NEW t \in Tasks, Respond(t) PROVE ResidueInv'
  BY <1>15, <1>c, <1>s, RespondDoes
<1>16. ASSUME NEW t \in Tasks, DropDecoded(t) PROVE ResidueInv'
  BY <1>16, <1>c, <1>s, DropDecodedDoes
<1>17. ASSUME LoseConnection PROVE ResidueInv'
  <2>1. Stays
    BY <1>17, <1>t, LoseConnectionDoes
  <2>2. PICK i \in 0..Len(Asks) : Asks' = SubSeq(Asks, 1, i)
    BY <1>17, LoseConnectionDoes
  <2>3. Len(Asks') = i /\ \A n \in 1..i : Asks'[n] = Asks[n] /\ n \in 1..Len(Asks)
    BY <1>0, <2>2, SeqChanges
  <2> QED BY <1>k, <2>1, <2>3
<1>18. CASE UNCHANGED vars
  <2>1. (\A u \in Tasks : SameTask(u)) /\ Asks' = Asks
    BY <1>18 DEF vars, SameTask, Pc, W, T, Call, Asks
  <2> QED BY <1>s, <1>t, <2>1
<1> QED BY <1>1, <1>2, <1>4, <1>5, <1>6, <1>7, <1>8, <1>9, <1>10, <1>11, <1>12, <1>13,
           <1>14, <1>15, <1>16, <1>17, <1>18 DEF Next, Start, Step, Reads
-----------------------------------------------------------------------------
LEMMA InvInit ==
  ASSUME OneWay, Init
  PROVE  Inv /\ ResidueInv
<1>0. /\ \A c \in Calls : c \in Tasks /\ c # None
      /\ \A q \in Requests : q \in Tasks /\ q # None
      /\ \A a \in Acceptors : a \in Tasks
      /\ \A n \in Notices : n \in Tasks
  BY Roles
<1>1. TypeOK
  <2>1. conv \in [Endpoints -> ConvRecord]
    BY DEF Init, ConvRecord
  <2>2. task \in [Tasks -> TaskRecord]
    BY DEF Init, TaskRecord, Steps
  <2>3. stream \in [Endpoints -> Seq(Message)]
    BY DEF Init
  <2> QED BY <2>1, <2>2, <2>3 DEF Init, TypeOK, ConvRecord, TaskRecord
<1>2. \A t \in Tasks : Pc(t) = "idle"
  BY DEF Init, Pc
<1>3. /\ C.writeNext = 0 /\ C.writeServing = 0 /\ C.readNext = 0 /\ C.readServing = 0
      /\ C.pairLock = None /\ C.autoFailures = {} /\ ~C.poisoned
      /\ S.writeNext = 0 /\ S.writeServing = 0 /\ S.autoFailures = {}
  BY Ends DEF Init, C, S
<1>4. Asks = <<>> /\ Answers = <<>> /\ Len(Asks) = 0 /\ Len(Answers) = 0
  BY Ends DEF Init, Asks, Answers
<1>5. PlaceInv
  BY <1>0, <1>2, <1>4 DEF PlaceInv, PcInv, AsksInv, RepliesInv
<1>6. TicketInv
  BY <1>0, <1>2, <1>3 DEF TicketInv, HasTicket
<1>7. SendInv
  BY <1>0, <1>2, <1>3 DEF SendInv, Sent
<1>8. AskInv
  BY <1>0, <1>2, <1>3, <1>4 DEF AskInv, AskAt, HasTicket, Sent
<1>9. OweInv
  BY <1>0, <1>2, <1>3 DEF OweInv, Owes
<1>10. AnswerInv
  <2>1. OutcomeIsVerdict
    BY <1>0, <1>2 DEF OutcomeIsVerdict, At, Pc
  <2> QED BY <1>0, <1>2, <1>3, <1>4, <2>1 DEF AnswerInv, FlowInv, HasTicket, GaveUp
<1>11. ResidueInv
  BY <1>4 DEF ResidueInv
<1> QED BY <1>1, <1>5, <1>6, <1>7, <1>8, <1>9, <1>10, <1>11 DEF Inv

LEMMA InvStep ==
  ASSUME OneWay, Inv, [Next]_vars
  PROVE  Inv'
<1>1. TypeOK /\ PlaceInv /\ TicketInv /\ SendInv /\ AskInv /\ OweInv /\ AnswerInv
  BY DEF Inv
<1>2. TypeOK'
  BY <1>1, TypeStep
<1>3. PcInv' /\ AsksInv' /\ RepliesInv'
  BY <1>1, PcStep, StreamsStep
<1>4. PlaceInv'
  BY <1>3 DEF PlaceInv
<1>5. TicketInv' /\ SendInv'
  BY <1>1, TicketStep, SendStep
<1>6. AskInv'
  BY <1>1, AskStep
<1>7. OweInv'
  BY <1>1, OweStep
<1>8. AnswerInv'
  BY <1>1, <1>2, AnswerStep
<1> QED BY <1>2, <1>4, <1>5, <1>6, <1>7, <1>8 DEF Inv

(* One request after another: the read ticket a call takes under           *)
(* ticket_pair_lock and the write ticket the server takes for its answer   *)
(* are the same number, and so is the place of the answer on the stream    *)
(* until a call gives the reader back with its answer unread (dropped, or  *)
(* failing in DecodeSuccess).  The invariant of the whole exchange.        *)
THEOREM TicketsAgree ==
  ASSUME OneWay
  PROVE  Spec => []Inv
<1>1. Init => Inv
  BY InvInit
<1>2. Inv /\ [Next]_vars => Inv'
  BY InvStep
<1> QED BY <1>1, <1>2, PTL DEF Spec

(* send_global_request returns the answer the peer gave to that very       *)
(* request: however many calls and notifications are made, acceptors       *)
(* answer, requests are dropped, and whenever the connection is lost.      *)
(* Calls may be dropped or fail while they read as well: those before them *)
(* keep their answers, and only those behind them are excepted.            *)
THEOREM AnswersReachTheirCalls ==
  ASSUME OneWay
  PROVE  Spec => []OutcomeIsVerdict
<1>1. Inv => OutcomeIsVerdict
  BY DEF Inv, AnswerInv
<1> QED BY <1>1, TicketsAgree, PTL

(* With one acceptor, as the accept loop of dssh is, whoever reads finds a *)
(* message meant for it: the acceptor whatever happens, for what           *)
(* accept_global_request or the drop of an undecoded request leaves behind *)
(* is read by nobody; a call unless one before it gave the reader back     *)
(* with its answer unread.                                                 *)
THEOREM NothingIsMisread ==
  ASSUME OneWay, OneAcceptor
  PROVE  Spec => []NoMisread
<1>1. Init => ResidueInv
  BY InvInit
<1>2. Inv /\ ResidueInv /\ [Next]_vars => ResidueInv'
  BY ResidueStep DEF Inv
<1>3. ASSUME Inv, ResidueInv PROVE NoMisread
  <2>0. TypeOK /\ PcInv /\ AsksInv /\ RepliesInv
    BY <1>3 DEF Inv, PlaceInv
  <2>1. ASSUME NEW t \in Tasks, At(t, "reading"), Inbox(t) # <<>>, InOrder(t)
        PROVE  Head(Inbox(t)).kind \in IF t \in Requests THEN {"success", "failure"}
                                                          ELSE {"request", "notice"}
    <3>0. Asks \in Seq(Message) /\ Answers \in Seq(Message) /\ Pc(t) = "reading"
      BY <2>0, <2>1, Types DEF At, Pc
    <3>1. CASE t \in Calls
      <4>1. t \in Requests /\ Inbox(t) = Answers
        BY <2>0, <3>0, <3>1, Roles, Streams DEF PcInv
      <4>2. Head(Answers) = Answers[1] /\ 1 \in 1..Len(Answers)
        BY <2>1, <3>0, <4>1
      <4>3. PICK v \in {"success", "failure", "residue"} : Answers[1] = Reply(v)
        BY <2>0, <4>2 DEF RepliesInv
      <4>4. Head(Inbox(t)).kind = v
        BY <4>1, <4>2, <4>3 DEF Reply
      <4>5. \A r \in Requests : Pc(r) \in GaveUp => T(r) < T(t)
        BY <1>3, <3>0, <4>1 DEF Inv, AnswerInv
      <4>6. \A r \in Requests : T(r) < T(t) => Pc(r) \notin GaveUp
        BY <2>1, <4>1, Roles DEF InOrder, T, Pc, OneWay
      <4>7. Answers[1] # Reply("residue")
        BY <1>3, <4>2, <4>5, <4>6 DEF Inv, AnswerInv, Whole, FlowInv
      <4> QED BY <4>1, <4>3, <4>4, <4>7
    <3>2. CASE t \in Acceptors
      <4>1. t \notin Requests /\ Inbox(t) = Asks
        BY <2>0, <3>2, Roles, Streams
      <4>2. Head(Asks) = Asks[1] /\ 1 \in 1..Len(Asks)
        BY <2>1, <3>0, <4>1
      <4>3. Asks[1] # Reply("residue")
        BY <1>3, <3>0, <3>2, <4>2 DEF ResidueInv
      <4>4. (\E q \in Requests : Asks[1] = Ask(q)) \/ (\E n \in Notices : Asks[1] = Note(n))
        BY <2>0, <4>2, <4>3 DEF AsksInv
      <4>5. Head(Inbox(t)).kind \in {"request", "notice"}
        <5>1. \A q : Ask(q).kind = "request" /\ Note(q).kind = "notice"
          BY DEF Ask, Note
        <5> QED BY <4>1, <4>2, <4>4, <5>1
      <4> QED BY <4>1, <4>5
    <3> QED BY <3>1, <3>2, Roles
  <2> QED BY <2>0, <2>1 DEF NoMisread
<1> QED BY <1>1, <1>2, <1>3, TicketsAgree, PTL DEF Spec
=============================================================================
