\* Both halves of the control stream.  The writer has two requests of the peer
\* that may be answered or dropped and one outgoing call whose future may be
\* dropped; the reader has three calls.  Any of them may fail.
SPECIFICATION FairSpec
CONSTANTS
  Tasks = {d1, d2, s1}
  Responders = {d1, d2}
  Cancellable = {s1}
  IoMayFail = TRUE
INVARIANTS TypeOK MutualExclusion WireFollowsTickets NothingAfterBroken
PROPERTIES ImplementsOrderedIO PoisonIsFinal OnlyDroppedTicketsBlock
CHECK_DEADLOCK FALSE
