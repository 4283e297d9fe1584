CONSTANTS
  Tid = {root, t1, t2}
  Root = root
  NoTid = NoTid
  Calls = {"execve", "fork", "thread", "time", "getrandom", "badaddr", "urandom", "openat", "open", "other", "exit", "exit_group"}
  Signals = {"KILL", "OTHER"}
  MaxCalls = 4
SPECIFICATION Spec
SYMMETRY Symmetry
INVARIANTS
  TypeOK
  CountsEntries
  NoRealAnswer
  Tracked
  HookAtEntry
  NoLostStop
  IInv
PROPERTIES
  EntryOutlivesTask
CHECK_DEADLOCK FALSE
