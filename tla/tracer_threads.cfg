CONSTANTS
  Tid = {root, t1, t2}
  Root = root
  NoTid = NoTid
  Calls = {"fork", "thread", "time", "urandom", "exit"}
  Signals = {}
  MaxCalls = 4
SPECIFICATION FairSpec
INVARIANTS
  ReturnAtExit
  QuietInv
PROPERTIES
  EachAnsweredOnce
  StopServed
  QuestionsAnswered
  TerminationDetected
