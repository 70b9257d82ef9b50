\* Every -L, -R and -D argument alone, and pairs of -R arguments with one connection.
SPECIFICATION FairSpec
CONSTANTS
  PortLimit = 4
  LoopbackHost = "localhost"
  LocalHost = "127.0.0.1"
  Args = {1, 2}
  CommandLines <- MCCommandLines
  Conns = {x1}
  Ephemeral = {2, 3}
  Foreign <- MCForeign
  Lookup <- MCLookup
  MaxStrange = 1
INVARIANTS ArgsMeanTheirForms RightTarget SameKeyMeansOneStopped FilesHaveListeners
PROPERTIES ForwardedIsAnswered
CHECK_DEADLOCK FALSE
