---------------------------- MODULE TracerProofs ----------------------------
(* Proofs about Tracer: its safety properties hold for any number of tasks, *)
(* any calls and signals, and any MaxCalls.                                *)
EXTENDS TracerInvariant, FiniteSetTheorems, TLAPS

(* What a resumed task goes on to, by the stop it was in.                  *)
LEMMA NextPhaseFacts ==
  /\ \A p \in Stops : NextPhase[p] \in {"user", "kernel", "leaving"}
  /\ \A p \in Stops : NextPhase[p] = "kernel" => p = "entry"
  /\ NextPhase["start"] = "user" /\ NextPhase["exec"] = "leaving" /\ NextPhase["exit"] = "user"
  /\ \A p \in Stops : p \notin {"exec", "fork"} => NextPhase[p] # "leaving"
BY DEF NextPhase, Stops

(* Whatever the kernel does, a stopped or dead task stays as it is, dies,  *)
(* or is taken over by an execve.                                          *)
Keeps(u) ==
  \/ phase'[u] = phase[u] /\ msg'[u] = msg[u] /\ nr'[u] \in {nr[u], "urandom"}
  \/ phase'[u] = "zombie" /\ nr'[u] = "none"
  \/ phase'[u] = "exec" /\ nr'[u] = "execve" /\ msg'[u] \in Tid \ {u}

(* A hooked number comes with an entry stop; a reported stop does not come *)
(* by itself; a task that has not run makes no call; an event names        *)
(* another task.                                                           *)
Announces(u) ==
  /\ nr'[u] \in Hooked =>
       \/ phase'[u] = "entry"
       \/ nr[u] \in Hooked /\ phase[u] \in {"entry", "free"} /\ phase'[u] = phase[u]
  /\ seen'[u] => seen[u] /\ phase'[u] = phase[u]
  /\ Untracked(u) => Untracked(u)'
  /\ phase'[u] \in {"spawned", "fork"} =>
       \/ msg'[u] \in Tid \ {u}
       \/ phase[u] \in {"spawned", "fork"} /\ msg'[u] = msg[u]

(* What a step of the kernel does to each task.                            *)
LEMMA KernelEffect ==
  ASSUME KernelTypeOK, NEW t \in Tid, NEW u \in Tid, KernelStep(t),
         \A v \in Tid : seen[v] => Stopped(v),
         \A v \in Tid : nr[v] \in Hooked => phase[v] \in {"entry", "free"}
  PROVE  /\ KernelTypeOK'
         /\ phase[u] \in Stops \cup {"zombie"} => Keeps(u)
         /\ Announces(u)
<1>. USE PtraceAssumption, TasksAssumption
     DEF KernelTypeOK, Stops, Phases, CallNrs, Hooked, Stopped, Untracked, Keeps, Announces
<1>1. CASE Start(t)
  BY <1>1 DEF Start, Move
<1>2. CASE Return(t)
  BY <1>2 DEF Return, Move, ExitCalls
<1>3. CASE Spawn(t)
  BY <1>3 DEF Spawn
<1>4. CASE ForkEvent(t)
  BY <1>4 DEF ForkEvent, Move
<1>5. CASE Leave(t)
  BY <1>5 DEF Leave, Move
<1>6. CASE ExecBegin(t)
  BY <1>6 DEF ExecBegin
<1>7. CASE ExecEnd(t)
  BY <1>7 DEF ExecEnd
<1>8. CASE ExitThread(t)
  BY <1>8 DEF ExitThread, Die
<1>9. CASE ExitGroup(t)
  BY <1>9 DEF ExitGroup, Die
<1>10. CASE Enter(t)
  BY <1>10 DEF Enter, ExitCalls
<1>11. CASE Kill(t)
  BY <1>11 DEF Kill, Die
<1>12. CASE Signal(t) \/ Fault(t)
  BY <1>12 DEF Signal, Fault, Move
<1>13. CASE RewritePath(t)
  BY <1>13 DEF RewritePath
<1>. QED BY <1>1, <1>2, <1>3, <1>4, <1>5, <1>6, <1>7, <1>8, <1>9, <1>10, <1>11, <1>12, <1>13
         DEF KernelStep, KernelProgress

-----------------------------------------------------------------------------
LEMMA InitIInv == Init => IInv
<1>. SUFFICES ASSUME Init PROVE IInv
  OBVIOUS
<1>. USE TasksAssumption, PtraceAssumption DEF Init, KernelInit, TableInit
<1>1. TypeOK /\ pc \in MainPcs
  BY DEF TypeOK, KernelTypeOK, TableTypeOK, Phases, Stops, Pcs, MainPcs
<1>2. CountsEntries
  BY FS_EmptySet DEF CountsEntries
<1>3. Tracked /\ EarlyOK
  BY DEF Tracked, Untracked, EarlyOK, InitPcs
<1>4. LocalsOK /\ EventsOK /\ HookedAtEntry /\ Held /\ Cancelled /\ EntryKept /\ SeenHeld
  BY DEF LocalsOK, EventsOK, HookedAtEntry, Held, Cancelled, EntryKept, SeenHeld, Hooked,
         BusyPcs, MainPcs, InitPcs, ForkPcs, SyscallPcs, CancelPcs, PathPcs
<1>. QED BY <1>1, <1>2, <1>3, <1>4 DEF IInv, ControlOK

LEMMA KernelIInv ==
  ASSUME IInv, NEW t \in Tid, Kernel(t)
  PROVE  IInv'
<1>1. /\ KernelTypeOK'
      /\ \A u \in Tid : phase[u] \in Stops \cup {"zombie"} => Keeps(u)
      /\ \A u \in Tid : Announces(u)
  BY KernelEffect DEF IInv, ControlOK, TypeOK, Kernel, SeenHeld, HookedAtEntry
<1>2. UNCHANGED <<process_table, clock, entry_count, pc, cur, new, regs>> /\ pc \notin Ended
  BY DEF Kernel, tableVars, locals
<1>3. TypeOK' /\ CountsEntries' /\ LocalsOK'
  BY <1>1, <1>2 DEF IInv, ControlOK, TypeOK, TableTypeOK, CountsEntries, LocalsOK
<1>4. EventsOK'
  BY <1>1, <1>2 DEF IInv, ControlOK, EventsOK, Keeps, Announces, Stops, LocalsOK, BusyPcs, ForkPcs
<1>5. HookedAtEntry' /\ Tracked'
  BY <1>1, <1>2 DEF IInv, ControlOK, HookedAtEntry, Tracked, Announces, find_process
<1>6. Held'
  BY <1>1, <1>2 DEF IInv, ControlOK, Held, Keeps, Stops, LocalsOK
<1>7. Cancelled'
  BY <1>1, <1>2 DEF IInv, ControlOK, Cancelled, Held, Keeps, Hooked, LocalsOK, BusyPcs,
                    WaitPcs, SyscallPcs, CancelPcs, PathPcs
<1>8. EarlyOK' /\ EntryKept'
  BY <1>1, <1>2, TasksAssumption
     DEF IInv, ControlOK, EarlyOK, EntryKept, find_process, Untracked, Announces, Keeps, Held,
         LocalsOK, BusyPcs, WaitPcs, MainPcs, InitPcs, ForkPcs, SyscallPcs, CancelPcs, PathPcs, Stops
<1>9. SeenHeld'
  BY <1>1, <1>2 DEF IInv, ControlOK, SeenHeld, Announces, Stopped
<1>. QED BY <1>3, <1>4, <1>5, <1>6, <1>7, <1>8, <1>9 DEF IInv, ControlOK

-----------------------------------------------------------------------------
(* The table's operations keep the counter equal to the number of entries. *)
LEMMA InsertEffect ==
  ASSUME TableTypeOK, CountsEntries, NEW t \in Tid, insert_process(t)
  PROVE  TableTypeOK' /\ CountsEntries' /\ process_table' = process_table \cup {t}
<1>1. IsFiniteSet(process_table)
  BY FS_Subset, TasksAssumption DEF TableTypeOK
<1>. QED BY <1>1, FS_AddElement, FS_CardinalityType
         DEF insert_process, find_process, tableVars, TableTypeOK, CountsEntries

LEMMA DeleteEffect ==
  ASSUME TableTypeOK, CountsEntries, NEW t \in Tid, delete_process(t)
  PROVE  TableTypeOK' /\ CountsEntries' /\ process_table' = process_table \ {t}
<1>1. IsFiniteSet(process_table)
  BY FS_Subset, TasksAssumption DEF TableTypeOK
<1>2. CASE find_process(t)
  <2>1. /\ process_table' = process_table \ {t}
        /\ clock' = [clock EXCEPT ![t] = 0]
        /\ entry_count' = entry_count - 1
    BY <1>2 DEF delete_process
  <2>2. IsFiniteSet(process_table') /\ Cardinality(process_table') = Cardinality(process_table) - 1
    BY <1>1, <1>2, <2>1, FS_RemoveElement DEF find_process
  <2>3. Cardinality(process_table') \in Nat
    BY <2>2, FS_CardinalityType
  <2>4. entry_count' = Cardinality(process_table')
    BY <2>1, <2>2 DEF CountsEntries
  <2>5. TableTypeOK'
    BY <2>1, <2>3, <2>4 DEF TableTypeOK
  <2>. QED BY <2>1, <2>4, <2>5 DEF CountsEntries
<1>3. CASE ~find_process(t)
  BY <1>3 DEF delete_process, find_process, tableVars, TableTypeOK, CountsEntries
<1>. QED BY <1>2, <1>3

(* PTRACE_SYSCALL moves one task, which forgets its stop.                  *)
LEMMA ResumeEffect ==
  ASSUME KernelTypeOK, NEW c \in Tid, Resume(c)
  PROVE  /\ KernelTypeOK'
         /\ phase'[c] \in {"user", "kernel", "leaving"}
         /\ phase'[c] = "kernel" => phase[c] = "entry"
         /\ phase[c] = "exec" => phase'[c] = "leaving"
         /\ seen'[c] = FALSE
         /\ \A u \in Tid \ {c} : phase'[u] = phase[u] /\ seen'[u] = seen[u]
         /\ nr' = nr /\ msg' = msg
BY NextPhaseFacts DEF Resume, KernelTypeOK, Stopped, Stops, Phases

(* The reports of waitpid.                                                 *)
LEMMA ReportStopEffect ==
  ASSUME KernelTypeOK, NEW c \in Tid, ReportStop(c)
  PROVE  /\ KernelTypeOK'
         /\ Stopped(c)
         /\ \A u \in Tid \ {c} : seen'[u] = seen[u]
         /\ phase' = phase /\ nr' = nr /\ msg' = msg
BY DEF ReportStop, KernelTypeOK

LEMMA ReportExitEffect ==
  ASSUME KernelTypeOK, NEW c \in Tid, ReportExit(c)
  PROVE  /\ KernelTypeOK'
         /\ phase[c] = "zombie" /\ phase'[c] = "free"
         /\ \A u \in Tid \ {c} : phase'[u] = phase[u]
         /\ nr' = nr /\ msg' = msg /\ seen' = seen
BY DEF ReportExit, Reapable, KernelTypeOK, Phases

(* PTRACE_SETREGS.                                                         *)
LEMMA SetRegsEffect ==
  ASSUME KernelTypeOK, NEW c \in Tid, NEW n \in CallNrs \cup {"none"}, SetRegs(c, n)
  PROVE  /\ KernelTypeOK'
         /\ Stopped(c)
         /\ nr'[c] = n /\ \A u \in Tid \ {c} : nr'[u] = nr[u]
         /\ phase' = phase /\ seen' = seen /\ msg' = msg
BY DEF SetRegs, KernelTypeOK
-----------------------------------------------------------------------------
(* A step of the tracer keeps the types and the count of the entries.      *)
LEMMA TypesStep ==
  ASSUME IInv, TracerStep
  PROVE  TypeOK' /\ CountsEntries'
<1>. USE DEF IInv, TypeOK, KernelTypeOK, TableTypeOK, CountsEntries, Pcs,
             InitPcs, ForkPcs, CancelPcs, PathPcs, SyscallPcs, BusyPcs, Ended
<1>1. pc \in BusyPcs => cur \in Tid
  BY DEF ControlOK, LocalsOK
<1>2. pc = "event_msg" /\ Stopped(cur) => msg[cur] \in Tid
  BY <1>1 DEF ControlOK, EventsOK, Stopped, Stops
<1>3. pc \in {"wait_new", "resume_new"} => new \in Tid
  BY DEF ControlOK, LocalsOK
<1>4. CASE MainWait
  BY <1>4, TasksAssumption, ReportStopEffect, ReportExitEffect DEF MainWait, Goto, tableVars, locals
<1>5. CASE MainOptions
  BY <1>5, TasksAssumption, InsertEffect DEF MainOptions, Goto, kernelVars, tableVars, locals
<1>6. CASE MainResume
  BY <1>6, TasksAssumption, ResumeEffect DEF MainResume, NoSuchProcess, Goto, kernelVars, tableVars, locals
<1>7. CASE LoopEnd
  BY <1>7 DEF LoopEnd, Goto, kernelVars, tableVars, locals
<1>8. CASE LoopNoChild
  BY <1>8 DEF LoopNoChild, Goto, kernelVars, tableVars, locals
<1>9. CASE RemoveVdso
  BY <1>9, <1>1 DEF RemoveVdso, VdsoDone, Goto, tableVars, locals
<1>10. CASE ScanStack
  BY <1>10 DEF ScanStack, VdsoDone, Goto, kernelVars, tableVars, locals
<1>11. CASE VdsoGone
  BY <1>11 DEF VdsoGone, VdsoDone, Goto, kernelVars, tableVars, locals
<1>12. CASE ProcResume
  BY <1>12, <1>1, ResumeEffect, InsertEffect DEF ProcResume, BackToLoop, kernelVars, tableVars
<1>13. CASE GetEventMsg
  BY <1>13, <1>2, InsertEffect DEF GetEventMsg, kernelVars
<1>14. CASE EventMsgGone
  BY <1>14 DEF EventMsgGone, Goto, kernelVars, tableVars, locals
<1>15. CASE WaitNew
  BY <1>15, <1>3, ReportStopEffect, ReportExitEffect DEF WaitNew, Goto, kernelVars, tableVars, locals
<1>16. CASE ResumeNew
  BY <1>16, <1>3, ResumeEffect DEF ResumeNew, Goto, kernelVars, tableVars, locals
<1>17. CASE HookUnknown
  BY <1>17 DEF HookUnknown, Goto, kernelVars, tableVars, locals
<1>18. CASE HookRead
  BY <1>18, <1>1 DEF HookRead, kernelVars, tableVars
<1>19. CASE HookGone
  BY <1>19, <1>1, DeleteEffect DEF HookGone, Goto, kernelVars, locals
<1>20. CASE HookFreed
  BY <1>20 DEF HookFreed, Goto, kernelVars, tableVars, locals
<1>21. CASE Cancel
  BY <1>21, <1>1, SetRegsEffect DEF Cancel, Goto, kernelVars, tableVars, locals
<1>22. CASE CancelResume
  BY <1>22, <1>1, ResumeEffect DEF CancelResume, NoSuchProcess, Goto, kernelVars, tableVars, locals
<1>23. CASE CancelWait
  BY <1>23, <1>1, ReportStopEffect, ReportExitEffect DEF CancelWait, AwaitStop, Goto, kernelVars, tableVars, locals
<1>24. CASE Poke
  BY <1>24 DEF Poke, Tick, Goto, kernelVars, tableVars, locals
<1>25. CASE PokeFails
  BY <1>25 DEF PokeFails, Goto, kernelVars, tableVars, locals
<1>26. CASE SetReturn
  BY <1>26, <1>1, SetRegsEffect DEF SetReturn, Goto, kernelVars, tableVars, locals
<1>27. CASE ReadPath
  BY <1>27, <1>1 DEF ReadPath, kernelVars, tableVars
<1>28. CASE ReadPathFails
  BY <1>28 DEF ReadPathFails, Goto, kernelVars, tableVars, locals
<1>29. CASE ReadPathGone
  BY <1>29 DEF ReadPathGone, Goto, kernelVars, tableVars, locals
<1>30. CASE ContResume
  BY <1>30, <1>1, ResumeEffect DEF ContResume, NoSuchProcess, Goto, kernelVars, tableVars, locals
<1>31. CASE ContWait
  BY <1>31, <1>1, ReportStopEffect, ReportExitEffect DEF ContWait, AwaitStop, Goto, kernelVars, tableVars, locals
<1>32. CASE LoopResume
  BY <1>32, <1>1, ResumeEffect, DeleteEffect DEF LoopResume, NoSuchProcess, BackToLoop, kernelVars, tableVars
<1>33. ASSUME NEW t \in Tid, LoopExit(t) PROVE TypeOK' /\ CountsEntries'
  BY <1>33, ReportExitEffect, DeleteEffect DEF LoopExit, locals
<1>34. ASSUME NEW t \in Tid, LoopStop(t) PROVE TypeOK' /\ CountsEntries'
  BY <1>34, ReportStopEffect DEF LoopStop, tableVars
<1>. QED
  BY <1>4, <1>5, <1>6, <1>7, <1>8, <1>9, <1>10, <1>11, <1>12, <1>13, <1>14, <1>15, <1>16, <1>17, <1>18, <1>19,
     <1>20, <1>21, <1>22, <1>23, <1>24, <1>25, <1>26, <1>27, <1>28, <1>29, <1>30, <1>31, <1>32, <1>33, <1>34 DEF TracerStep
-----------------------------------------------------------------------------
(* To resume a task that has been looked at breaks nothing.                *)
LEMMA ResumeKeeps ==
  ASSUME IInv, NEW c \in Tid, Resume(c), nr[c] \notin Hooked,
         process_table \subseteq process_table',
         \/ c \in process_table'
         \/ phase[c] = "exec" /\ nr[c] = "execve"
  PROVE  /\ HookedAtEntry'
         /\ Tracked'
         /\ \A t \in Tid : phase'[t] \in {"spawned", "fork"} => msg'[t] \in Tid \ {t}
         /\ \A t \in Tid \ {c} : phase'[t] = phase[t] /\ seen'[t] = seen[t]
         /\ seen'[c] = FALSE
         /\ nr' = nr /\ msg' = msg
<1>1. /\ phase'[c] \in {"user", "kernel", "leaving"}
      /\ phase[c] = "exec" => phase'[c] = "leaving"
      /\ seen'[c] = FALSE
      /\ \A t \in Tid \ {c} : phase'[t] = phase[t] /\ seen'[t] = seen[t]
      /\ nr' = nr /\ msg' = msg
  BY ResumeEffect DEF IInv, TypeOK
<1>2. HookedAtEntry'
  BY <1>1 DEF IInv, ControlOK, HookedAtEntry
<1>3. Tracked'
  <2>1. ASSUME NEW t \in Tid PROVE t \in process_table' \/ Untracked(t)'
    <3>1. CASE t = c
      BY <1>1, <3>1 DEF Untracked
    <3>2. CASE t # c
      BY <1>1, <3>2 DEF IInv, ControlOK, Tracked, find_process, Untracked
    <3>. QED BY <3>1, <3>2
  <2>. QED BY <2>1 DEF Tracked, find_process
<1>4. \A t \in Tid : phase'[t] \in {"spawned", "fork"} => msg'[t] \in Tid \ {t}
  BY <1>1 DEF IInv, ControlOK, EventsOK
<1>. QED BY <1>1, <1>2, <1>3, <1>4

(* ...and neither does to go on in the loop, where nothing is held.        *)
LEMMA ResumeAndLoop ==
  ASSUME IInv, NEW c \in Tid, Resume(c), nr[c] \notin Hooked,
         process_table \subseteq process_table',
         \/ c \in process_table'
         \/ phase[c] = "exec" /\ nr[c] = "execve",
         pc' = "loop", cur' = NoTid,
         \A t \in Tid \ {c} : ~seen[t]
  PROVE  ControlOK'
<1>1. HookedAtEntry' /\ Tracked' /\ LocalsOK' /\ EventsOK'
  BY ResumeKeeps DEF LocalsOK, EventsOK, BusyPcs, InitPcs, ForkPcs, SyscallPcs, CancelPcs, PathPcs
<1>2. Held' /\ Cancelled' /\ EarlyOK' /\ EntryKept'
  BY DEF Held, Cancelled, EarlyOK, EntryKept, MainPcs, BusyPcs, InitPcs, ForkPcs, SyscallPcs,
         CancelPcs, PathPcs
<1>3. SeenHeld'
  BY ResumeKeeps DEF SeenHeld
<1>. QED BY <1>1, <1>2, <1>3 DEF ControlOK

LEMMA MainResumeControl ==
  ASSUME IInv, MainResume, Resume(Root)
  PROVE  ControlOK'
<1>1. /\ pc = "main_resume" /\ pc' = "loop"
      /\ UNCHANGED <<process_table, cur>>
  <2>1. Stopped(Root)
    BY DEF Resume
  <2>. QED BY <2>1 DEF MainResume, NoSuchProcess, Goto, tableVars, locals
<1>2. cur = NoTid /\ \A t \in Tid \ {Root} : ~seen[t]
  BY <1>1, TasksAssumption DEF IInv, ControlOK, LocalsOK, SeenHeld, MainPcs, Ended
<1>3. Root \in process_table /\ nr[Root] \notin Hooked
  BY <1>1, TasksAssumption
     DEF IInv, ControlOK, EntryKept, find_process, EarlyOK, MainPcs, Untracked, HookedAtEntry,
         Hooked, Resume, Stopped, Stops
<1>. QED BY <1>1, <1>2, <1>3, ResumeAndLoop, TasksAssumption

LEMMA ProcResumeControl ==
  ASSUME IInv, ProcResume, Resume(cur)
  PROVE  ControlOK'
<1>1. /\ pc \in {"init", "init_new"} /\ cur \in Tid
      /\ pc' = "loop" /\ cur' = NoTid
  BY DEF IInv, ControlOK, LocalsOK, BusyPcs, InitPcs, ProcResume, BackToLoop
<1>2. /\ process_table \subseteq process_table'
      /\ pc = "init_new" => cur \in process_table'
  BY <1>1, InsertEffect DEF IInv, TypeOK, ProcResume, tableVars
<1>3. /\ pc = "init_new" => phase[cur] \notin {"entry", "free"}
      /\ pc = "init" => phase[cur] = "exec"
  BY <1>1 DEF IInv, ControlOK, EarlyOK, Untracked, Resume, Stopped, Stops
<1>4. nr[cur] \notin Hooked
  BY <1>1, <1>3 DEF IInv, ControlOK, HookedAtEntry
<1>5. cur \in process_table' \/ (phase[cur] = "exec" /\ nr[cur] = "execve")
  BY <1>1, <1>2, <1>3 DEF IInv, ControlOK, Tracked, find_process, Untracked
<1>6. \A t \in Tid \ {cur} : ~seen[t]
  BY <1>1 DEF IInv, ControlOK, SeenHeld, Ended
<1>. QED BY <1>1, <1>2, <1>4, <1>5, <1>6, ResumeAndLoop

LEMMA LoopResumeControl ==
  ASSUME IInv, LoopResume, Resume(cur)
  PROVE  ControlOK'
<1>1. /\ pc = "resume" /\ cur \in Tid
      /\ pc' = "loop" /\ cur' = NoTid
  BY DEF IInv, ControlOK, LocalsOK, BusyPcs, LoopResume, BackToLoop
<1>2. Stopped(cur) /\ process_table' = process_table
  BY DEF LoopResume, Resume, NoSuchProcess, tableVars
<1>3. nr[cur] \notin Hooked
  BY <1>1 DEF IInv, ControlOK, Cancelled
<1>4. cur \in process_table' \/ (phase[cur] = "exec" /\ nr[cur] = "execve")
  BY <1>1, <1>2 DEF IInv, ControlOK, EntryKept, find_process, Stopped, Stops
<1>5. \A t \in Tid \ {cur} : ~seen[t]
  BY <1>1 DEF IInv, ControlOK, SeenHeld, Ended
<1>. QED BY <1>1, <1>2, <1>3, <1>4, <1>5, ResumeAndLoop

LEMMA ResumeNewControl ==
  ASSUME IInv, ResumeNew, Resume(new)
  PROVE  ControlOK'
<1>1. /\ pc = "resume_new" /\ pc' = "hook"
      /\ UNCHANGED <<process_table, cur, new>>
  BY DEF ResumeNew, Goto, tableVars, locals
<1>2. cur \in Tid /\ new \in Tid /\ new # cur /\ phase[cur] \in Stops \cup {"zombie"}
  BY <1>1 DEF IInv, ControlOK, LocalsOK, Held, BusyPcs, ForkPcs, WaitPcs
<1>3. new \in process_table /\ nr[new] \notin Hooked
  BY <1>1, <1>2 DEF IInv, ControlOK, EntryKept, find_process, EarlyOK, Untracked, HookedAtEntry,
                    Resume, Stopped, Stops
<1>4. /\ HookedAtEntry' /\ Tracked'
      /\ \A t \in Tid : phase'[t] \in {"spawned", "fork"} => msg'[t] \in Tid \ {t}
      /\ \A t \in Tid \ {new} : phase'[t] = phase[t] /\ seen'[t] = seen[t]
      /\ seen'[new] = FALSE
  BY <1>1, <1>2, <1>3, ResumeKeeps
<1>5. LocalsOK' /\ EventsOK' /\ Held'
  BY <1>1, <1>2, <1>4 DEF LocalsOK, EventsOK, Held, MainPcs, BusyPcs
<1>6. Cancelled' /\ EarlyOK' /\ EntryKept'
  BY <1>1 DEF Cancelled, EarlyOK, EntryKept, MainPcs, InitPcs, SyscallPcs, CancelPcs, PathPcs
<1>7. SeenHeld'
  BY <1>1, <1>2, <1>4 DEF IInv, ControlOK, SeenHeld, Stopped, Ended
<1>. QED BY <1>4, <1>5, <1>6, <1>7 DEF ControlOK

(* Inside handle_syscall cur is resumed to be waited for.                  *)
LEMMA NestedResumeControl ==
  ASSUME IInv, CancelResume \/ ContResume, Resume(cur)
  PROVE  ControlOK'
<1>1. /\ pc \in {"cancel_resume", "cont_resume"} /\ pc' \in WaitPcs
      /\ UNCHANGED <<process_table, cur, new>>
  <2>1. Stopped(cur)
    BY DEF Resume
  <2>. QED BY <2>1 DEF CancelResume, ContResume, NoSuchProcess, Goto, tableVars, locals, WaitPcs
<1>2. cur \in Tid /\ cur \in process_table /\ nr[cur] \notin Hooked
  BY <1>1 DEF IInv, ControlOK, LocalsOK, EntryKept, find_process, Cancelled, BusyPcs, SyscallPcs,
              CancelPcs, PathPcs
<1>3. /\ HookedAtEntry' /\ Tracked'
      /\ \A t \in Tid : phase'[t] \in {"spawned", "fork"} => msg'[t] \in Tid \ {t}
      /\ \A t \in Tid \ {cur} : phase'[t] = phase[t] /\ seen'[t] = seen[t]
      /\ seen'[cur] = FALSE
  BY <1>1, <1>2, ResumeKeeps
<1>4. LocalsOK' /\ EventsOK' /\ Held'
  BY <1>1, <1>2, <1>3 DEF LocalsOK, EventsOK, Held, MainPcs, WaitPcs, BusyPcs
<1>5. Cancelled' /\ EarlyOK' /\ EntryKept'
  BY <1>1, <1>2 DEF Cancelled, EarlyOK, EntryKept, find_process, MainPcs, InitPcs, WaitPcs
<1>6. SeenHeld'
  BY <1>1, <1>3 DEF IInv, ControlOK, SeenHeld, Ended
<1>. QED BY <1>3, <1>4, <1>5, <1>6 DEF ControlOK

-----------------------------------------------------------------------------
(* A step of the tracer keeps what it knows of the tasks it holds.         *)
LEMMA ControlStep ==
  ASSUME IInv, TracerStep
  PROVE  ControlOK'
<1>. USE TasksAssumption
     DEF IInv, TypeOK, TableTypeOK, ControlOK, LocalsOK, EventsOK, HookedAtEntry, Tracked, Held,
         Cancelled, EarlyOK, EntryKept, SeenHeld, Untracked, Stopped, Stops, Hooked, find_process,
         MainPcs, WaitPcs, InitPcs, ForkPcs, CancelPcs, PathPcs, SyscallPcs, BusyPcs, Ended
<1>1. CASE MainWait
  BY <1>1, ReportStopEffect, ReportExitEffect DEF MainWait, Goto, tableVars, locals
<1>2. CASE MainOptions
  BY <1>2, InsertEffect DEF MainOptions, Goto, kernelVars, tableVars, locals
<1>3. CASE MainResume
  <2>1. CASE Resume(Root)
    BY <1>3, <2>1, MainResumeControl
  <2>2. CASE NoSuchProcess(Root) /\ UNCHANGED kernelVars
    BY <1>3, <2>2 DEF MainResume, Goto, kernelVars, tableVars, locals
  <2>. QED BY <1>3, <2>1, <2>2 DEF MainResume
<1>4. CASE LoopEnd
  BY <1>4 DEF LoopEnd, Goto, kernelVars, tableVars, locals
<1>5. CASE LoopNoChild
  BY <1>5 DEF LoopNoChild, Goto, kernelVars, tableVars, locals
<1>6. CASE RemoveVdso
  BY <1>6 DEF RemoveVdso, VdsoDone, Goto, tableVars, locals
<1>7. CASE ScanStack
  BY <1>7 DEF ScanStack, VdsoDone, Goto, kernelVars, tableVars, locals
<1>8. CASE VdsoGone
  BY <1>8 DEF VdsoGone, VdsoDone, Goto, kernelVars, tableVars, locals, NoSuchProcess
<1>9. CASE ProcResume
  <2>1. CASE Resume(cur)
    BY <1>9, <2>1, ProcResumeControl
  <2>2. CASE NoSuchProcess(cur) /\ UNCHANGED kernelVars
    BY <1>9, <2>2, InsertEffect DEF ProcResume, NoSuchProcess, BackToLoop, kernelVars, tableVars
  <2>. QED BY <1>9, <2>1, <2>2 DEF ProcResume
<1>10. CASE GetEventMsg
  BY <1>10, InsertEffect DEF GetEventMsg, kernelVars
<1>11. CASE EventMsgGone
  BY <1>11 DEF EventMsgGone, Goto, kernelVars, tableVars, locals, NoSuchProcess
<1>12. CASE WaitNew
  BY <1>12, ReportStopEffect, ReportExitEffect DEF WaitNew, Goto, kernelVars, tableVars, locals
<1>13. CASE ResumeNew
  <2>1. CASE Resume(new)
    BY <1>13, <2>1, ResumeNewControl
  <2>2. CASE NoSuchProcess(new) /\ UNCHANGED kernelVars
    BY <1>13, <2>2 DEF ResumeNew, NoSuchProcess, Goto, kernelVars, tableVars, locals
  <2>. QED BY <1>13, <2>1, <2>2 DEF ResumeNew
<1>14. CASE HookUnknown
  BY <1>14 DEF HookUnknown, Goto, kernelVars, tableVars, locals
<1>15. CASE HookRead
  BY <1>15 DEF HookRead, kernelVars, tableVars
<1>16. CASE HookGone
  BY <1>16, DeleteEffect DEF HookGone, Goto, kernelVars, locals, NoSuchProcess
<1>17. CASE HookFreed
  BY <1>17 DEF HookFreed, Goto, kernelVars, tableVars, locals
<1>18. CASE Cancel
  BY <1>18, SetRegsEffect DEF Cancel, Goto, kernelVars, tableVars, locals, NoSuchProcess
<1>19. CASE CancelResume
  <2>1. CASE Resume(cur)
    BY <1>19, <2>1, NestedResumeControl
  <2>2. CASE NoSuchProcess(cur) /\ UNCHANGED kernelVars
    BY <1>19, <2>2 DEF CancelResume, Goto, kernelVars, tableVars, locals
  <2>. QED BY <1>19, <2>1, <2>2 DEF CancelResume
<1>20. CASE CancelWait
  BY <1>20, ReportStopEffect, ReportExitEffect DEF CancelWait, AwaitStop, Goto, kernelVars, tableVars, locals
<1>21. CASE Poke
  BY <1>21 DEF Poke, Tick, Goto, kernelVars, tableVars, locals
<1>22. CASE PokeFails
  BY <1>22 DEF PokeFails, Goto, kernelVars, tableVars, locals
<1>23. CASE SetReturn
  BY <1>23, SetRegsEffect DEF SetReturn, Goto, kernelVars, tableVars, locals, NoSuchProcess
<1>24. CASE ReadPath
  BY <1>24 DEF ReadPath, kernelVars, tableVars
<1>25. CASE ReadPathFails
  BY <1>25 DEF ReadPathFails, Goto, kernelVars, tableVars, locals
<1>26. CASE ReadPathGone
  BY <1>26 DEF ReadPathGone, Goto, kernelVars, tableVars, locals, NoSuchProcess
<1>27. CASE ContResume
  <2>1. CASE Resume(cur)
    BY <1>27, <2>1, NestedResumeControl
  <2>2. CASE NoSuchProcess(cur) /\ UNCHANGED kernelVars
    BY <1>27, <2>2 DEF ContResume, Goto, kernelVars, tableVars, locals
  <2>. QED BY <1>27, <2>1, <2>2 DEF ContResume
<1>28. CASE ContWait
  BY <1>28, ReportStopEffect, ReportExitEffect DEF ContWait, AwaitStop, Goto, kernelVars, tableVars, locals
<1>29. CASE LoopResume
  <2>1. CASE Resume(cur)
    BY <1>29, <2>1, LoopResumeControl
  <2>2. CASE NoSuchProcess(cur) /\ delete_process(cur) /\ UNCHANGED kernelVars
    BY <1>29, <2>2, DeleteEffect DEF LoopResume, NoSuchProcess, BackToLoop, kernelVars
  <2>. QED BY <1>29, <2>1, <2>2 DEF LoopResume
<1>30. ASSUME NEW t \in Tid, LoopExit(t) PROVE ControlOK'
  BY <1>30, ReportExitEffect, DeleteEffect DEF LoopExit, locals
<1>31. ASSUME NEW t \in Tid, LoopStop(t) PROVE ControlOK'
  BY <1>31, ReportStopEffect DEF LoopStop, tableVars
<1>. QED
  BY <1>1, <1>2, <1>3, <1>4, <1>5, <1>6, <1>7, <1>8, <1>9, <1>10, <1>11, <1>12, <1>13, <1>14, <1>15, <1>16,
     <1>17, <1>18, <1>19, <1>20, <1>21, <1>22, <1>23, <1>24, <1>25, <1>26, <1>27, <1>28, <1>29, <1>30, <1>31 DEF TracerStep

-----------------------------------------------------------------------------
LEMMA ChildGivesUpIInv ==
  ASSUME IInv, ChildGivesUp
  PROVE  IInv'
<1>1. /\ pc = "main_wait" /\ UNCHANGED <<process_table, clock, entry_count, pc, cur, new, regs>>
      /\ phase' = [phase EXCEPT ![Root] = "zombie"]
      /\ seen' = [seen EXCEPT ![Root] = FALSE]
      /\ nr' = [nr EXCEPT ![Root] = "none"]
      /\ msg' = [msg EXCEPT ![Root] = NoTid]
  BY TasksAssumption DEF ChildGivesUp, Die, IInv, TypeOK, KernelTypeOK, tableVars, locals
<1>2. KernelTypeOK'
  BY DEF ChildGivesUp, Die, IInv, TypeOK, KernelTypeOK, Phases
<1>3. TypeOK' /\ CountsEntries'
  BY <1>1, <1>2 DEF IInv, TypeOK, TableTypeOK, CountsEntries
<1>4. LocalsOK' /\ EventsOK' /\ HookedAtEntry' /\ Tracked'
  BY <1>1, TasksAssumption
     DEF IInv, TypeOK, KernelTypeOK, ControlOK, LocalsOK, EventsOK, HookedAtEntry, Tracked,
         Untracked, find_process, BusyPcs, InitPcs, ForkPcs, SyscallPcs, CancelPcs, PathPcs, Hooked
<1>5. Held' /\ Cancelled' /\ EarlyOK' /\ EntryKept'
  BY <1>1, TasksAssumption
     DEF IInv, TypeOK, KernelTypeOK, Held, Cancelled, EarlyOK, EntryKept, Untracked,
         BusyPcs, InitPcs, ForkPcs, SyscallPcs, CancelPcs, PathPcs
<1>6. SeenHeld'
  BY <1>1, TasksAssumption DEF IInv, TypeOK, KernelTypeOK, ControlOK, SeenHeld, Stopped, Ended
<1>. QED BY <1>3, <1>4, <1>5, <1>6 DEF IInv, ControlOK

LEMMA ExitKillIInv ==
  ASSUME IInv, ExitKill
  PROVE  IInv'
<1>1. /\ pc \in Ended /\ UNCHANGED <<process_table, clock, entry_count, pc, cur, new, regs>>
      /\ phase' = [t \in Tid |-> "free"] /\ tgid' = [t \in Tid |-> t]
      /\ UNCHANGED <<seen, nr, image, msg, budget>>
  BY DEF ExitKill, tableVars, locals
<1>2. TypeOK' /\ CountsEntries'
  BY <1>1 DEF IInv, TypeOK, KernelTypeOK, Phases, TableTypeOK, CountsEntries
<1>3. ControlOK'
  BY <1>1
     DEF IInv, ControlOK, LocalsOK, EventsOK, HookedAtEntry, Tracked, Untracked, Held, Cancelled,
         EarlyOK, EntryKept, SeenHeld, MainPcs, BusyPcs, InitPcs, ForkPcs, SyscallPcs, CancelPcs,
         PathPcs, Ended
<1>. QED BY <1>2, <1>3 DEF IInv

LEMMA NextIInv == IInv /\ [Next]_vars => IInv'
<1>. SUFFICES ASSUME IInv, [Next]_vars PROVE IInv'
  OBVIOUS
<1>1. CASE TracerStep
  BY <1>1, TypesStep, ControlStep DEF IInv
<1>2. CASE ChildGivesUp
  BY <1>2, ChildGivesUpIInv
<1>3. ASSUME NEW t \in Tid, Kernel(t) PROVE IInv'
  BY <1>3, KernelIInv
<1>4. CASE ExitKill
  BY <1>4, ExitKillIInv
<1>5. CASE UNCHANGED vars
  BY <1>5
     DEF vars, kernelVars, tableVars, locals, IInv, TypeOK, KernelTypeOK, TableTypeOK,
         CountsEntries, ControlOK, LocalsOK, EventsOK, HookedAtEntry, Tracked, Untracked,
         find_process, Held, Cancelled, EarlyOK, EntryKept, SeenHeld, Stopped
<1>. QED BY <1>1, <1>2, <1>3, <1>4, <1>5 DEF Next, Terminated

THEOREM Invariance == Spec => []IInv
BY InitIInv, NextIInv, PTL DEF Spec

-----------------------------------------------------------------------------
(* The variables keep their types; in particular entry_count never goes    *)
(* below zero, where the code's unsigned counter would wrap.               *)
THEOREM TypeCorrect == Spec => []TypeOK
<1>1. IInv => TypeOK
  BY DEF IInv
<1>. QED BY <1>1, Invariance, PTL

(* The counter the event loop tests is the number of entries.              *)
THEOREM EntriesCounted == Spec => []CountsEntries
<1>1. IInv => CountsEntries
  BY DEF IInv
<1>. QED BY <1>1, Invariance, PTL

(* No getrandom, gettimeofday, time or clock_gettime is carried out.       *)
THEOREM NothingRealAnswered == Spec => []NoRealAnswer
<1>1. IInv => NoRealAnswer
  BY DEF IInv, ControlOK, HookedAtEntry, NoRealAnswer
<1>. QED BY <1>1, Invariance, PTL

(* A hooked number shows at an entry stop and at no other.                 *)
THEOREM HookedOnlyAtEntry == Spec => []HookAtEntry
<1>1. IInv => HookAtEntry
  BY DEF IInv, ControlOK, HookedAtEntry, HookAtEntry, Stopped, Stops
<1>. QED BY <1>1, Invariance, PTL

(* No task that has run is without an entry.                               *)
THEOREM EveryTaskTracked == Spec => []Tracked
<1>1. IInv => Tracked
  BY DEF IInv, ControlOK
<1>. QED BY <1>1, Invariance, PTL

(* The loop never waits while a task stands in a stop already reported.    *)
THEOREM NoStopLost == Spec => []NoLostStop
<1>1. IInv => NoLostStop
  BY TasksAssumption DEF IInv, ControlOK, SeenHeld, LocalsOK, MainPcs, NoLostStop, Ended
<1>. QED BY <1>1, Invariance, PTL

(* delete_process drops the entries of dead tasks only, although the code  *)
(* calls it whenever a request fails.                                      *)
THEOREM EntriesOutliveTasks == Spec => EntryOutlivesTask
<1>1. ASSUME IInv, Next PROVE \A t \in process_table \ process_table' : ~Live(t)
  <2>. USE DEF IInv, TypeOK, TableTypeOK
  <2>1. ASSUME NEW t \in Tid, LoopExit(t) PROVE \A u \in process_table \ process_table' : ~Live(u)
    BY <1>1, <2>1, DeleteEffect DEF LoopExit, ReportExit, Reapable, Live
  <2>2. CASE HookGone
    <3>1. phase[cur] = "zombie" /\ cur \in Tid
      BY <1>1, <2>2 DEF HookGone, NoSuchProcess, Stopped, ControlOK, Held, LocalsOK, BusyPcs, WaitPcs
    <3>. QED BY <1>1, <2>2, <3>1, DeleteEffect DEF HookGone, Live
  <2>3. CASE LoopResume
    <3>1. phase[cur] \in Stops \cup {"zombie"} /\ cur \in Tid
      BY <1>1, <2>3 DEF LoopResume, ControlOK, Held, LocalsOK, BusyPcs, WaitPcs
    <3>. QED BY <1>1, <2>3, <3>1, DeleteEffect
             DEF LoopResume, NoSuchProcess, Stopped, Live, tableVars
  <2>4. ASSUME NEW t \in Tid, insert_process(t) PROVE process_table \subseteq process_table'
    BY <1>1, <2>4, InsertEffect
  <2>5. ASSUME \/ MainOptions \/ ProcResume \/ GetEventMsg
        PROVE  process_table \subseteq process_table'
    <3>1. pc = "event_msg" /\ Stopped(cur) => msg[cur] \in Tid
      BY <1>1 DEF ControlOK, LocalsOK, EventsOK, BusyPcs, ForkPcs, Stopped, Stops
    <3>2. pc = "init_new" => cur \in Tid
      BY <1>1 DEF ControlOK, LocalsOK, BusyPcs, InitPcs
    <3>. QED BY <2>4, <2>5, <3>1, <3>2, TasksAssumption
             DEF MainOptions, ProcResume, GetEventMsg, tableVars
  <2>6. ASSUME NEW t \in Tid, \/ LoopStop(t) \/ Kernel(t) PROVE process_table' = process_table
    BY <2>6 DEF LoopStop, Kernel, tableVars
  <2>7. CASE \/ MainWait \/ MainResume \/ LoopEnd \/ LoopNoChild
             \/ RemoveVdso \/ ScanStack \/ VdsoGone \/ EventMsgGone \/ WaitNew \/ ResumeNew
             \/ HookUnknown \/ HookRead \/ HookFreed
    BY <2>7 DEF MainWait, MainResume, LoopEnd, LoopNoChild, RemoveVdso, ScanStack, VdsoGone,
                EventMsgGone, WaitNew, ResumeNew, HookUnknown, HookRead, HookFreed, tableVars
  <2>8. CASE \/ Cancel \/ CancelResume \/ CancelWait \/ Poke \/ PokeFails \/ SetReturn
             \/ ReadPath \/ ReadPathFails \/ ReadPathGone \/ ContResume \/ ContWait
             \/ ChildGivesUp \/ ExitKill \/ Terminated
    BY <2>8 DEF Cancel, CancelResume, CancelWait, Poke, Tick, PokeFails, SetReturn, ReadPath,
                ReadPathFails, ReadPathGone, ContResume, ContWait, AwaitStop,
                ChildGivesUp, ExitKill, Terminated, vars, tableVars
  <2>. QED BY <1>1, <2>1, <2>2, <2>3, <2>5, <2>6, <2>7, <2>8 DEF Next, TracerStep
<1>2. IInv /\ [Next]_vars => [\A t \in process_table \ process_table' : ~Live(t)]_vars
  BY <1>1
<1>. QED BY <1>2, Invariance, PTL DEF Spec, EntryOutlivesTask
=============================================================================
