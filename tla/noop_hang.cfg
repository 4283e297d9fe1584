CONSTANTS
  Tid = {root, t1}
  Root = root
  NoTid = NoTid
  Calls = {"thread", "time", "exit_group"}
  Signals = {}
  MaxCalls = 3
SPECIFICATION FairSpec
PROPERTIES
  NoopReturns
CHECK_DEADLOCK FALSE
