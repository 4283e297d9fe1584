CONSTANTS
  Tid = {root, t1}
  Root = root
  NoTid = NoTid
  Calls = {"time", "exit_group"}
  Signals = {"KILL"}
  MaxCalls = 2
SPECIFICATION Spec
SYMMETRY Symmetry
INVARIANTS
  ChildHasEntry
CHECK_DEADLOCK FALSE
