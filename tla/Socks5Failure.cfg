\* A socks5 channel whose confirmation cannot be sent.
SPECIFICATION Spec
CONSTANTS
  Channels = {c1}
  Kinds = {"socks5"}
  Listeners = {}
  Keys = {}
  TcpKeys = {}
  Conns = {}
  Globals = {}
  MaxAsked = 1
  BadStreams = FALSE
INVARIANTS FuturesAreFresh
CHECK_DEADLOCK FALSE
