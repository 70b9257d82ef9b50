\* One connection of every kind, one byte each way, and at most one fault.
SPECIFICATION FairSpec
CONSTANTS
  Kinds = {"direct-tcpip", "direct-streamlocal", "socks5", "forwarded-tcpip", "forwarded-streamlocal"}
  UpBytes <- MCUp
  DownBytes <- MCDown
  MaxFaults = 1
INVARIANTS OnlyPayloadArrives CleanEndIsComplete
PROPERTIES HalfCloseCrosses OpenIsAnswered EndsMeet
CHECK_DEADLOCK FALSE
