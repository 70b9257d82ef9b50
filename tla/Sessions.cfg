\* Channels and reverse forwards, requested, cancelled and requested again, with
\* connections to them; the session ends in every way.  A direct channel is left
\* out: it is handled as a socks5 one that has been confirmed.
SPECIFICATION FairSpec
CONSTANTS
  Channels = {c1, c2}
  Kinds = {"session", "socks5", "unknown"}
  Listeners = {l1, l2}
  Keys = {tcp1, unix1}
  TcpKeys = {tcp1}
  Conns = {x1}
  Globals = {"forward", "cancel", "unknown", "undecodable"}
  MaxAsked = 3
  BadStreams = TRUE
INVARIANTS ListenerHasHandle FinishedMeansDone
PROPERTIES ReturnBecomesQuiet SessionReturns
CHECK_DEADLOCK FALSE
