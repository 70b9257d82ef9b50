\* The way dssh is used: the client sends, the one acceptor of the server
\* answers or drops, the connection may be lost.
SPECIFICATION FairSpec
CONSTANTS
  Requests = {q1, q2}
  Notices = {n1}
  Acceptors = {a1}
  ClientTasks = {q1, q2, n1}
  Home <- MCHome
  DropsDecoded = TRUE
  DropsUndecoded = TRUE
  MayLose = TRUE
INVARIANTS OutcomeIsVerdict NoMisread
PROPERTIES EveryRequestReturns
CHECK_DEADLOCK FALSE
