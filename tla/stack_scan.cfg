CONSTANTS
  Tid = {root, t1}
  Root = root
  NoTid = NoTid
  Calls = {"fork", "exit_group"}
  Signals = {}
  MaxCalls = 2
SPECIFICATION Spec
SYMMETRY Symmetry
INVARIANTS
  VdsoAtExecOnly
