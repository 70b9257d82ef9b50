SPECIFICATION FairSpec
CONSTANTS
  Tasks = {d1, s1}
  Responders = {d1}
  Cancellable = {}
  IoMayFail = FALSE
PROPERTIES EveryCallReturns
CHECK_DEADLOCK FALSE
