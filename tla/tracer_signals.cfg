CONSTANTS
  Tid = {root, t1, t2}
  Root = root
  NoTid = NoTid
  Calls = {"execve", "fork", "time", "getrandom", "openat", "other", "exit_group"}
  Signals = {"OTHER"}
  MaxCalls = 5
SPECIFICATION Spec
SYMMETRY Symmetry
INVARIANTS
  ReturnAtExit
  ChildHasEntry
  NoVdsoTime
  NoEarlyEnd
  NoCrash
  QuietInv
PROPERTIES
  EachAnsweredOnce
  FailsOnEarlyChild
