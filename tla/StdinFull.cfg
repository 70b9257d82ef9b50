\* A command that may stop reading its standard input.
SPECIFICATION FairSpec
CONSTANTS
  Modes = {"piped"}
  MaxOutput = 0
  MaxInput = 1
  StdinMayFill = TRUE
  MayAbort = FALSE
PROPERTIES ShutdownEnds
CHECK_DEADLOCK FALSE
