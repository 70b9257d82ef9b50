----------------------------- MODULE ByteChannel -----------------------------
(***************************************************************************)
(* ChannelWriter and ChannelReader of src/src/byte_channel.rs: a byte      *)
(* stream made of the chunks of a bounded mpsc channel.  The SinkWriter    *)
(* and StreamReader they wrap, the unfold sink and the mpsc channel are    *)
(* external: a write that SinkWriter reports as ready has been taken by    *)
(* its sink, whose one chunk is passed on when the channel has room.       *)
(*                                                                         *)
(* A task writes one piece after the other with write_all, that is, it     *)
(* polls again with the same piece after Pending.                          *)
(***************************************************************************)
EXTENDS Naturals, Sequences

CONSTANTS
  Pieces,     (* what the task writes, in order                           *)
  Capacity    (* of the mpsc channel, at least 1                          *)

VARIABLES
  next,      (* the piece write_all is at                                 *)
  sink,      (* the chunk the unfold sink is sending                      *)
  queue,     (* the chunks in the channel                                 *)
  received,  (* what the reader has given out                             *)
  open       (* whether the writer is still there                         *)

vars == <<next, sink, queue, received, open>>

Init == next = 1 /\ sink = <<>> /\ queue = <<>> /\ received = <<>> /\ open = TRUE

(* poll_flush of the inner writer: the chunk goes out if there is room. *)
Flushed(chunk, q) ==
  IF Len(q) < Capacity THEN [sink |-> <<>>, queue |-> q \o chunk]
                       ELSE [sink |-> chunk, queue |-> q]

(* Ready: a sink that still holds a chunk is driven first. *)
Drive == Flushed(sink, queue)

(* poll_write: Pending from the inner poll_write when the sink cannot take *)
(* the piece; otherwise the piece is in the sink, and the answer is that   *)
(* of poll_flush.                                                          *)
PollWrite ==
  /\ open /\ next <= Len(Pieces)
  /\ LET driven == Drive
         after == Flushed(<<Pieces[next]>>, driven.queue)
     IN IF driven.sink # <<>>
        THEN sink' = driven.sink /\ queue' = driven.queue /\ UNCHANGED next
        ELSE /\ sink' = after.sink /\ queue' = after.queue
             /\ next' = IF after.sink = <<>> THEN next + 1 ELSE next
  /\ UNCHANGED <<received, open>>

(* poll_shutdown: what is in the sink is sent, then the sender is dropped. *)
PollShutdown ==
  /\ open /\ next > Len(Pieces)
  /\ LET driven == Drive IN
     /\ sink' = driven.sink /\ queue' = driven.queue
     /\ open' = (driven.sink # <<>>)
  /\ UNCHANGED <<next, received>>

PollRead ==
  /\ queue # <<>>
  /\ received' = Append(received, Head(queue))
  /\ queue' = Tail(queue)
  /\ UNCHANGED <<next, sink, open>>

Next == PollWrite \/ PollShutdown \/ PollRead

Spec == Init /\ [][Next]_vars
-----------------------------------------------------------------------------
(* What the reader gives out is what was written, each piece once and in   *)
(* order, as far as it has come.  A full channel breaks it: the piece is   *)
(* in the sink when poll_write answers Pending, and is written again.      *)
ReadsWhatWasWritten ==
  \E n \in 0..Len(Pieces) : received = SubSeq(Pieces, 1, n)
=============================================================================
