CONSTANTS
  Tid = {root, t1}
  Root = root
  NoTid = NoTid
  Calls = {"thread", "execve", "exit_group"}
  Signals = {}
  MaxCalls = 3
SPECIFICATION Spec
SYMMETRY Symmetry
INVARIANTS
  NoVdsoTime
CHECK_DEADLOCK FALSE
