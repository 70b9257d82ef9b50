\* Three pieces through a channel with room for one.
SPECIFICATION Spec
CONSTANTS
  Pieces <- MCPieces
  Capacity = 1
INVARIANT ReadsWhatWasWritten
CHECK_DEADLOCK FALSE
