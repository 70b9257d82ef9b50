---------------------------- MODULE GlobalRequests ----------------------------
(***************************************************************************)
(* Global requests between the two endpoints of a conversation             *)
(* (src/src/conversation.rs, src/src/conversation/global.rs): calls that   *)
(* send a request and read its answer, calls that send a notification,     *)
(* and acceptors that read, decode and answer.  Requests and answers are   *)
(* paired by their order on the control stream alone.                      *)
(*                                                                         *)
(* A call may be dropped, or fail to decode, while it reads its answer,    *)
(* which poisons nothing; one that is dropped while it waits or writes is  *)
(* the subject of OrderedAccess.                                           *)
(*                                                                         *)
(* The two ticket counters of an endpoint are used as OrderedIO promises:  *)
(* a task has its half of the stream when its ticket is the one served.    *)
(* The look at the poison flag that precedes the look at the counter is    *)
(* kept as a step of its own on the reader, where the two can disagree.    *)
(***************************************************************************)
EXTENDS Naturals, Sequences

CONSTANTS
  Requests,        (* send_global_request calls, one each                 *)
  Notices,         (* send_global_notification calls, one each            *)
  Acceptors,       (* tasks that accept, decode and answer, in a loop     *)
  Home,            (* the endpoint each of them runs at                   *)
  DropsDecoded,    (* whether an acceptor may drop a decoded request      *)
  DropsUndecoded,  (* whether it may drop a message it did not decode     *)
  MayLose          (* whether the connection may be lost                  *)

Endpoints == {"client", "server"}
Calls == Requests \cup Notices
Tasks == Calls \cup Acceptors
None  == "none"

ASSUME GlobalAssumption ==
  /\ Requests \cap Notices = {}
  /\ Calls \cap Acceptors = {}
  /\ None \notin Tasks
  /\ Home \in [Tasks -> Endpoints]
  /\ {DropsDecoded, DropsUndecoded, MayLose} \subseteq BOOLEAN

VARIABLES
  conv,      (* ConversationShared of each endpoint                       *)
  stream,    (* what each endpoint wrote and its peer has not read        *)
  down,      (* whether the connection is gone                            *)
  task,      (* where each task is, its tickets, the call it serves       *)
  verdict    (* what the peer decided about each request                  *)

vars == <<conv, stream, down, task, verdict>>

(* How a call can have ended: by an answer, by an error, or because its    *)
(* future was dropped, or its answer not decoded, with the reader held.    *)
GaveUp == {"dropped", "undecoded"}
Ended == {"ok", "rejected", "sent", "unexpected", "broken", "poisoned"} \cup GaveUp
Steps == {"idle", "pair", "to_write", "to_read", "looking", "reading",
          "header", "decoded", "failed"} \cup Ended

(* A message, or what is left of one whose head alone was consumed.  Only  *)
(* requests and notices say which call they come from.                     *)
Message == [kind : {"request", "notice", "success", "failure", "residue"},
            call : Calls \cup {None}]

Init ==
  /\ conv = [e \in Endpoints |->
               [writeNext |-> 0, writeServing |-> 0,
                readNext |-> 0, readServing |-> 0,
                pairLock |-> None, autoFailures |-> {}, poisoned |-> FALSE]]
  /\ stream = [e \in Endpoints |-> <<>>]
  /\ down = FALSE
  /\ task = [t \in Tasks |->
               [pc |-> "idle", writeTicket |-> 0, readTicket |-> 0, call |-> None]]
  /\ verdict = [q \in Requests |-> None]
-----------------------------------------------------------------------------
Peer(e) == CHOOSE f \in Endpoints : f # e

At(t, step)   == task[t].pc = step
Here(t)       == conv[Home[t]]
Inbox(t)      == stream[Peer(Home[t])]
Goto(t, step) == task' = [task EXCEPT ![t].pc = step]

ReadTurn(t)  == Here(t).readServing = task[t].readTicket
WriteTurn(t) == Here(t).writeServing = task[t].writeTicket

(* The state of an endpoint once its reader or its writer is given back,   *)
(* or the endpoint is poisoned.                                            *)
ReaderReleased(c) == [c EXCEPT !.readServing = @ + 1]
WriterReleased(c) == [c EXCEPT !.writeServing = @ + 1]
Poison(c)         == [c EXCEPT !.poisoned = TRUE]

SetConv(t, c)      == conv' = [conv EXCEPT ![Home[t]] = c]
Put(t, kind, call) == stream' = [stream EXCEPT ![Home[t]] =
                                   Append(@, [kind |-> kind, call |-> call])]
Take(t)            == stream' = [stream EXCEPT ![Peer(Home[t])] = Tail(@)]

(* What remains once the head of a message alone has been consumed; a      *)
(* failure consists of nothing else.                                       *)
Leave(t, rest) == stream' = [stream EXCEPT ![Peer(Home[t])] =
                               <<[kind |-> "residue", call |-> None]>> \o rest]
Misread(t) == IF Head(Inbox(t)).kind = "failure" THEN Take(t)
                                                 ELSE Leave(t, Tail(Inbox(t)))
-----------------------------------------------------------------------------
(* Tickets. *)

(* Mutant: the pair is allocated without ticket_pair_lock. *)
TakeWriteTicket_NoLock(q) ==
  /\ q \in Requests
  /\ At(q, "idle")
  /\ task' = [task EXCEPT ![q].pc = "pair", ![q].writeTicket = Here(q).writeNext]
  /\ SetConv(q, [Here(q) EXCEPT !.writeNext = @ + 1])
  /\ UNCHANGED <<stream, down, verdict>>

(* allocate_request_ticket_pair, the two tickets under ticket_pair_lock.   *)
TakeWriteTicket(q) ==
  /\ q \in Requests
  /\ At(q, "idle")
  /\ Here(q).pairLock = None
  /\ task' = [task EXCEPT ![q].pc = "pair", ![q].writeTicket = Here(q).writeNext]
  /\ SetConv(q, [Here(q) EXCEPT !.writeNext = @ + 1, !.pairLock = q])
  /\ UNCHANGED <<stream, down, verdict>>

TakeReadTicket(q) ==
  /\ At(q, "pair")
  /\ task' = [task EXCEPT ![q].pc = "to_write", ![q].readTicket = Here(q).readNext]
  /\ SetConv(q, [Here(q) EXCEPT !.readNext = @ + 1, !.pairLock = None])
  /\ UNCHANGED <<stream, down, verdict>>

TakeNoticeTicket(n) ==
  /\ n \in Notices
  /\ At(n, "idle")
  /\ task' = [task EXCEPT ![n].pc = "to_write", ![n].writeTicket = Here(n).writeNext]
  /\ SetConv(n, [Here(n) EXCEPT !.writeNext = @ + 1])
  /\ UNCHANGED <<stream, down, verdict>>

TakeAcceptTicket(a) ==
  /\ a \in Acceptors
  /\ At(a, "idle")
  /\ task' = [task EXCEPT ![a].pc = "to_read", ![a].readTicket = Here(a).readNext]
  /\ SetConv(a, [Here(a) EXCEPT !.readNext = @ + 1])
  /\ UNCHANGED <<stream, down, verdict>>
-----------------------------------------------------------------------------
(* The writer. *)

(* acquire_writer drains the auto-failure whose turn it is, whoever's turn *)
(* the caller is waiting for.  A failed drain poisons and ends the call.   *)
DrainAutoFailure(t) ==
  /\ At(t, "to_write")
  /\ ~Here(t).poisoned
  /\ Here(t).writeServing \in Here(t).autoFailures
  /\ LET drained == WriterReleased([Here(t) EXCEPT !.autoFailures =
                                      @ \ {Here(t).writeServing}])
     IN \/ /\ ~down
           /\ SetConv(t, drained)
           /\ Put(t, "failure", None)
           /\ UNCHANGED task
        \/ /\ down
           /\ SetConv(t, Poison(drained))
           /\ Goto(t, IF t \in Acceptors THEN "failed" ELSE "poisoned")
           /\ UNCHANGED stream
  /\ UNCHANGED <<down, verdict>>

MayWrite(t) == At(t, "to_write") /\ ~Here(t).poisoned /\ WriteTurn(t)

(* The call's message is written and flushed; a request goes on to wait    *)
(* for its answer.                                                         *)
SendCall(c) ==
  /\ c \in Calls
  /\ MayWrite(c)
  /\ ~down
  /\ Put(c, IF c \in Requests THEN "request" ELSE "notice", c)
  /\ SetConv(c, WriterReleased(Here(c)))
  /\ Goto(c, IF c \in Requests THEN "to_read" ELSE "sent")
  /\ UNCHANGED <<down, verdict>>

(* respond_success or respond_failure in its turn. *)
SendAnswer(a) ==
  /\ a \in Acceptors
  /\ MayWrite(a)
  /\ ~down
  /\ Put(a, verdict[task[a].call], None)
  /\ SetConv(a, WriterReleased(Here(a)))
  /\ task' = [task EXCEPT ![a].pc = "idle", ![a].call = None]
  /\ UNCHANGED <<down, verdict>>

(* A write that fails poisons the session before the guard is dropped. *)
WriteFails(t) ==
  /\ MayWrite(t)
  /\ down
  /\ SetConv(t, WriterReleased(Poison(Here(t))))
  /\ Goto(t, IF t \in Acceptors THEN "failed" ELSE "broken")
  /\ UNCHANGED <<stream, down, verdict>>

(* acquire and acquire_writer report the poison to whoever still waits. *)
FindPoisoned(t) ==
  /\ task[t].pc \in {"to_write", "to_read"}
  /\ Here(t).poisoned
  /\ Goto(t, IF t \in Acceptors THEN "failed" ELSE "poisoned")
  /\ UNCHANGED <<conv, stream, down, verdict>>
-----------------------------------------------------------------------------
(* The reader. *)

(* One turn of the loop of acquire: the poison flag, then the counter. *)
ReadLook(t) ==
  /\ At(t, "to_read")
  /\ ~Here(t).poisoned
  /\ Goto(t, "looking")
  /\ UNCHANGED <<conv, stream, down, verdict>>

ReadGrant(t) ==
  /\ At(t, "looking")
  /\ Goto(t, IF ReadTurn(t) THEN "reading" ELSE "to_read")
  /\ UNCHANGED <<conv, stream, down, verdict>>

(* The answer is read; whatever is found, the reader is given back and the *)
(* session is not poisoned.  What an earlier call left of its own answer   *)
(* may look like anything.                                                 *)
ReadAnswer(q) ==
  /\ q \in Requests
  /\ At(q, "reading")
  /\ \/ /\ Inbox(q) # <<>>
        /\ \/ Head(Inbox(q)).kind = "success" /\ Take(q) /\ Goto(q, "ok")
           \/ Head(Inbox(q)).kind = "failure" /\ Take(q) /\ Goto(q, "rejected")
           \/ /\ Head(Inbox(q)).kind \in {"request", "notice"}
              /\ Misread(q)
              /\ Goto(q, "unexpected")
           \/ /\ Head(Inbox(q)).kind = "residue"
              /\ Take(q) \/ UNCHANGED stream
              /\ \E end \in {"ok", "rejected", "unexpected"} : Goto(q, end)
     \/ Inbox(q) = <<>> /\ down /\ Goto(q, "broken") /\ UNCHANGED stream
  /\ SetConv(q, ReaderReleased(Here(q)))
  /\ UNCHANGED <<down, verdict>>

(* The call's future is dropped while it has the reader, before it has     *)
(* read anything or behind the message type: unlike the write of the       *)
(* request, this is under no PoisonOnDrop.                                 *)
DropReading(q) ==
  /\ q \in Requests
  /\ At(q, "reading")
  /\ \/ UNCHANGED stream
     \/ Inbox(q) # <<>> /\ Leave(q, Tail(Inbox(q)))
  /\ SetConv(q, ReaderReleased(Here(q)))
  /\ Goto(q, "dropped")
  /\ UNCHANGED <<down, verdict>>

(* A success whose body does not decode (DecodeSuccess), read to its end   *)
(* or not: an error of the call, and nothing is poisoned either.           *)
DecodeSuccessFails(q) ==
  /\ q \in Requests
  /\ At(q, "reading")
  /\ Inbox(q) # <<>>
  /\ Head(Inbox(q)).kind \in {"success", "residue"}
  /\ Take(q) \/ Leave(q, Tail(Inbox(q)))
  /\ SetConv(q, ReaderReleased(Here(q)))
  /\ Goto(q, "undecoded")
  /\ UNCHANGED <<down, verdict>>

(* Mutant: a notice takes the ticket of an answer it will never get. *)
AcceptHeader_TicketForNotice(a) ==
  /\ a \in Acceptors
  /\ At(a, "reading")
  /\ Inbox(a) # <<>>
  /\ LET m == Head(Inbox(a))
     IN /\ m.kind \in {"request", "notice"}
        /\ task' = [task EXCEPT ![a].pc = "header", ![a].call = m.call,
                                ![a].writeTicket = Here(a).writeNext]
  /\ SetConv(a, [Here(a) EXCEPT !.writeNext = @ + 1])
  /\ Take(a)
  /\ UNCHANGED <<down, verdict>>

(* accept_global_request: the header is read and the reader kept.  The     *)
(* ticket of the answer is taken before anyone else can read.              *)
AcceptHeader(a) ==
  /\ a \in Acceptors
  /\ At(a, "reading")
  /\ Inbox(a) # <<>>
  /\ LET m == Head(Inbox(a))
     IN \/ /\ m.kind = "request"
           /\ task' = [task EXCEPT ![a].pc = "header", ![a].call = m.call,
                                   ![a].writeTicket = Here(a).writeNext]
           /\ SetConv(a, [Here(a) EXCEPT !.writeNext = @ + 1])
        \/ /\ m.kind = "notice"
           /\ task' = [task EXCEPT ![a].pc = "header", ![a].call = m.call]
           /\ UNCHANGED conv
  /\ Take(a)
  /\ UNCHANGED <<down, verdict>>

(* Another message type, or no message any more: poisoned, then released. *)
AcceptFails(a) ==
  /\ a \in Acceptors
  /\ At(a, "reading")
  /\ \/ /\ Inbox(a) # <<>>
        /\ Head(Inbox(a)).kind \in {"success", "failure", "residue"}
        /\ Misread(a)
     \/ Inbox(a) = <<>> /\ down /\ UNCHANGED stream
  /\ SetConv(a, ReaderReleased(Poison(Here(a))))
  /\ Goto(a, "failed")
  /\ UNCHANGED <<down, verdict>>

(* Mutant: the reader is given back before the body has been read. *)
DecodePayload_EarlyRelease(a) ==
  /\ At(a, "header")
  /\ IF task[a].call \in Requests
       THEN Goto(a, "decoded")
       ELSE task' = [task EXCEPT ![a].pc = "idle", ![a].call = None]
  /\ Leave(a, Inbox(a))
  /\ SetConv(a, ReaderReleased(Here(a)))
  /\ UNCHANGED <<down, verdict>>

(* decode_payload: the body is read and the reader given back; a notice    *)
(* needs nothing more.                                                     *)
DecodePayload(a) ==
  /\ At(a, "header")
  /\ IF task[a].call \in Requests
       THEN Goto(a, "decoded")
       ELSE task' = [task EXCEPT ![a].pc = "idle", ![a].call = None]
  /\ SetConv(a, ReaderReleased(Here(a)))
  /\ UNCHANGED <<stream, down, verdict>>

(* Drop of an IncomingGlobalRequest or IncomingGlobalNotice with its body  *)
(* still on the stream: poisoned, then released.                           *)
DropUndecoded(a) ==
  /\ DropsUndecoded \/ down
  /\ At(a, "header")
  /\ Leave(a, Inbox(a))
  /\ SetConv(a, ReaderReleased(Poison(Here(a))))
  /\ Goto(a, "failed")
  /\ UNCHANGED <<down, verdict>>

Decide(a, v) == verdict' = [verdict EXCEPT ![task[a].call] = v]

Respond(a) ==
  /\ At(a, "decoded")
  /\ \E v \in {"success", "failure"} : Decide(a, v)
  /\ Goto(a, "to_write")
  /\ UNCHANGED <<conv, stream, down>>

(* Drop of a DecodedGlobalRequest without an answer. *)
DropDecoded(a) ==
  /\ DropsDecoded
  /\ At(a, "decoded")
  /\ Decide(a, "failure")
  /\ SetConv(a, [Here(a) EXCEPT !.autoFailures = @ \cup {task[a].writeTicket}])
  /\ task' = [task EXCEPT ![a].pc = "idle", ![a].call = None]
  /\ UNCHANGED <<stream, down>>
-----------------------------------------------------------------------------
(* The connection is lost, and with it the end of what was under way. *)
LoseConnection ==
  /\ MayLose
  /\ ~down
  /\ down' = TRUE
  /\ \E i \in 0..Len(stream["client"]), j \in 0..Len(stream["server"]) :
       stream' = [stream EXCEPT !["client"] = SubSeq(@, 1, i),
                                !["server"] = SubSeq(@, 1, j)]
  /\ UNCHANGED <<conv, task, verdict>>

Start(t) == TakeWriteTicket(t) \/ TakeNoticeTicket(t)

Step(t) ==
  \/ TakeReadTicket(t) \/ TakeAcceptTicket(t)
  \/ DrainAutoFailure(t) \/ SendCall(t) \/ SendAnswer(t) \/ WriteFails(t)
  \/ FindPoisoned(t)
  \/ ReadLook(t) \/ ReadGrant(t) \/ ReadAnswer(t) \/ DecodeSuccessFails(t)
  \/ AcceptHeader(t) \/ AcceptFails(t)
  \/ DecodePayload(t) \/ Respond(t)

Next ==
  \/ \E t \in Tasks : \/ Start(t) \/ Step(t)
                      \/ DropReading(t) \/ DropUndecoded(t) \/ DropDecoded(t)
  \/ LoseConnection

Spec == Init /\ [][Next]_vars

(* Tasks run to their next await and are polled again when woken; acceptors *)
(* loop.  Nothing makes a call start, a call or a request be dropped or    *)
(* the connection fail.                                                    *)
FairSpec == Spec /\ \A t \in Tasks : WF_vars(Step(t))
-----------------------------------------------------------------------------
(* Every variable holds a value the code's types allow. *)
TypeOK ==
  /\ conv \in [Endpoints ->
               [writeNext : Nat, writeServing : Nat, readNext : Nat,
                readServing : Nat, pairLock : Requests \cup {None},
                autoFailures : SUBSET Nat, poisoned : BOOLEAN]]
  /\ stream \in [Endpoints -> Seq(Message)]
  /\ down \in BOOLEAN
  /\ task \in [Tasks -> [pc : Steps, writeTicket : Nat, readTicket : Nat,
                         call : Calls \cup {None}]]
  /\ verdict \in [Requests -> {None, "success", "failure"}]

(* No call of t's endpoint that had the reader before t gave it back with  *)
(* its own answer unread, or read in part.                                 *)
InOrder(t) ==
  \A q \in Requests :
    Home[q] = Home[t] /\ task[q].readTicket < task[t].readTicket => task[q].pc \notin GaveUp

(* "Responses to outgoing requests are read in the same order" and         *)
(* "responses to incoming requests are sent in the order the requests      *)
(* arrived": together, a call of send_global_request returns the answer    *)
(* the peer gave to that very request, whoever else sends, answers, drops  *)
(* a request or loses the connection meanwhile, and whatever becomes of    *)
(* the calls behind it.  Excepted are the calls behind one that gave the   *)
(* reader back with its answer unread: they are given the answers of       *)
(* others, or what is left of them.                                        *)
OutcomeIsVerdict ==
  \A q \in Requests : InOrder(q) =>
    /\ At(q, "ok") => verdict[q] = "success"
    /\ At(q, "rejected") => verdict[q] = "failure"

(* Whoever has the reader finds a message that is meant for it: a call its *)
(* answer, an acceptor a request or a notice; again unless a call before   *)
(* it gave the reader back with its answer unread.  "Multiple concurrent   *)
(* calls are safe; the ticket mechanism ensures requests are sent and      *)
(* responses are read in a consistent order" (send_global_request).  All   *)
(* state is well typed besides.                                            *)
NoMisread ==
  /\ TypeOK
  /\ \A t \in Tasks :
       At(t, "reading") /\ Inbox(t) # <<>> /\ InOrder(t) =>
         Head(Inbox(t)).kind \in IF t \in Requests THEN {"success", "failure"}
                                                    ELSE {"request", "notice"}

(* An endpoint that says nothing more by itself: it owes failures for the  *)
(* requests it dropped, which only its next writer sends, or it poisoned   *)
(* its own end, which the peer learns when the connection is closed.       *)
Silent(e) == conv[e].autoFailures # {} \/ conv[e].poisoned

(* A call of send_global_request comes back, if it is not dropped: with    *)
(* the answer, or with an error once the connection is lost or the session *)
(* poisoned.  Only a peer that dropped a request may keep it waiting       *)
(* (DecodedGlobalRequest::drop leaves the answer to a later                *)
(* acquire_writer, IncomingGlobalRequest::drop poisons), or a residue that *)
(* a call before it left.                                                  *)
EveryRequestReturns ==
  \A q \in Requests :
    ~At(q, "idle") ~> (task[q].pc \in Ended \/ Silent(Peer(Home[q])) \/ ~InOrder(q))
=============================================================================
