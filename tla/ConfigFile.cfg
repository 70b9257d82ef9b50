\* Every file of up to four characters, alone and behind a keyword, a quote or a line;
\* every pattern and text of three, every Match of four tokens.
SPECIFICATION Spec
CONSTANTS
  FileChars <- MCFileChars
  Beginnings <- MCBeginnings
  MaxTyped = 4
  GlobChars <- MCGlobChars
  MaxGlob = 3
  MatchTokens <- MCMatchTokens
  MaxMatch = 4
INVARIANTS EntriesFollowLines ArgumentsAreWords GlobMatchesCuts MatchIsCutOnce
CHECK_DEADLOCK FALSE
