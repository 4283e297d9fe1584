CONSTANTS
  Tid = {root, t1}
  Root = root
  NoTid = NoTid
  Calls = {"fork", "exit_group"}
  Signals = {"KILL"}
  MaxCalls = 2
SPECIFICATION Spec
SYMMETRY Symmetry
INVARIANTS
  NoEarlyEnd
CHECK_DEADLOCK FALSE
