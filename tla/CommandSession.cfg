\* Both modes, a command that reads its input, and every way to end.
SPECIFICATION FairSpec
CONSTANTS
  Modes = {"piped", "pty"}
  MaxOutput = 1
  MaxInput = 2
  StdinMayFill = FALSE
  MayAbort = TRUE
INVARIANTS CompletionOrder OutputComplete ChildAccountedFor NoStrayUse
PROPERTIES ExitIsReported ShutdownEnds
CHECK_DEADLOCK FALSE
