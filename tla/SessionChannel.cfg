\* A session channel from open to return: a command, a terminal, and
\* optional set-up requests, with every way either side can end.
CONSTANTS
  Plans <- MCPlans
  MaxStdin = 1
  MaxResize = 1
  MaxOutput = 2
SPECIFICATION FairSpec
INVARIANTS ReadersKeepPlace RepliesFitRequests RunReturnsTheResult InputIsFed
PROPERTIES InputEndIsSeen CallsReturn
CHECK_DEADLOCK FALSE
