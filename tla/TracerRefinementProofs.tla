----------------------- MODULE TracerRefinementProofs -----------------------
(* Proof that the tracer implements VirtualTime.                           *)
EXTENDS TracerQuietProofs, TracerRefinement

(* The steps of VirtualTime, said of Tracer.                               *)
LEMMA NothingAnswered ==
  ASSUME \A u \in Tid : Live(u)' => Live(u) /\ (Asking(u)' <=> Asking(u)) /\ clock'[u] = clock[u]
  PROVE  Time!Next
<1>1. PICK dead \in SUBSET {u \in Tid : Live(u)} :
        \A u \in Tid : u \in dead <=> Live(u) /\ phase'[u] \in {"free", "zombie"}
  <2>. WITNESS {u \in Tid : Live(u) /\ phase'[u] \in {"free", "zombie"}} \in SUBSET {u \in Tid : Live(u)}
  <2>. QED OBVIOUS
<1>2. {u \in Tid : Live(u)}' = {u \in Tid : Live(u)} \ dead
  BY <1>1 DEF Live
<1>3. {u \in Tid : Asking(u)}' = {u \in Tid : Asking(u)} \ dead
  BY <1>1 DEF Asking, Live
<1>4. [u \in Tid |-> IF Live(u) THEN clock[u] ELSE 0]'
        = [u \in Tid |-> IF u \in dead THEN 0 ELSE [v \in Tid |-> IF Live(v) THEN clock[v] ELSE 0][u]]
  BY <1>1 DEF Live
<1>5. Time!Die(dead)
  BY <1>2, <1>3, <1>4 DEF Time!Die
<1>. QED BY <1>1, <1>5 DEF Time!Next

LEMMA OneBorn ==
  ASSUME NEW c \in Tid, ~Live(c), Live(c)', clock'[c] = 0, ~Asking(c)',
         \A u \in Tid \ {c} : (Live(u)' <=> Live(u)) /\ (Asking(u)' <=> Asking(u)) /\ clock'[u] = clock[u]
  PROVE  Time!Next
<1>1. {u \in Tid : Live(u)}' = {u \in Tid : Live(u)} \cup {c}
  OBVIOUS
<1>2. {u \in Tid : Asking(u)}' = {u \in Tid : Asking(u)}
  BY DEF Asking
<1>3. [u \in Tid |-> IF Live(u) THEN clock[u] ELSE 0]' = [u \in Tid |-> IF Live(u) THEN clock[u] ELSE 0]
  OBVIOUS
<1>4. Time!Born(c)
  BY <1>1, <1>2, <1>3 DEF Time!Born
<1>. QED BY <1>4 DEF Time!Next

LEMMA OneAsks ==
  ASSUME NEW t \in Tid, Live(t), ~Asking(t), Asking(t)',
         \A u \in Tid : (Live(u)' <=> Live(u)) /\ clock'[u] = clock[u],
         \A u \in Tid \ {t} : Asking(u)' <=> Asking(u)
  PROVE  Time!Next
<1>1. {u \in Tid : Asking(u)}' = {u \in Tid : Asking(u)} \cup {t}
  OBVIOUS
<1>2. /\ {u \in Tid : Live(u)}' = {u \in Tid : Live(u)}
      /\ [u \in Tid |-> IF Live(u) THEN clock[u] ELSE 0]' = [u \in Tid |-> IF Live(u) THEN clock[u] ELSE 0]
  OBVIOUS
<1>3. Time!Ask(t)
  BY <1>1, <1>2 DEF Time!Ask
<1>. QED BY <1>3 DEF Time!Next

LEMMA OneAnswered ==
  ASSUME NEW t \in Tid, Live(t), Asking(t), ~Asking(t)', clock'[t] = clock[t] + 1,
         \A u \in Tid : Live(u)' <=> Live(u),
         \A u \in Tid \ {t} : (Asking(u)' <=> Asking(u)) /\ clock'[u] = clock[u]
  PROVE  Time!Next
<1>1. {u \in Tid : Asking(u)}' = {u \in Tid : Asking(u)} \ {t}
  OBVIOUS
<1>2. {u \in Tid : Live(u)}' = {u \in Tid : Live(u)}
  OBVIOUS
<1>3. [u \in Tid |-> IF Live(u) THEN clock[u] ELSE 0]'
        = [[u \in Tid |-> IF Live(u) THEN clock[u] ELSE 0] EXCEPT ![t] = @ + 1]
  OBVIOUS
<1>4. Time!Answer(t)
  BY <1>1, <1>2, <1>3 DEF Time!Answer
<1>. QED BY <1>4 DEF Time!Next

-----------------------------------------------------------------------------
(* What a task asks is settled by where it is, its number, and whether the *)
(* tracer is about to answer it.                                           *)
LEMMA AskingKept ==
  ASSUME NEW u \in Tid, Live(u)' <=> Live(u),
         Live(u) => (nr'[u] = "time" <=> nr[u] = "time"),
         cur = u /\ pc \in CancelPcs <=> cur' = u /\ pc' \in CancelPcs,
         cur = u /\ pc \in CancelPcs => regs' = regs
  PROVE  Asking(u)' <=> Asking(u)
BY DEF Asking

(* The steps of the programs.                                              *)
LEMMA KernelRefines ==
  ASSUME IInv, ProgramsOK, NoTakeover, ClocksOK, NEW t \in Tid, Kernel(t)
  PROVE  Time!Next
<1>. USE DEF KernelTypeOK
<1>1. /\ KernelStep(t) /\ pc \notin Ended /\ UNCHANGED <<clock, pc, cur, regs>>
      /\ KernelTypeOK /\ LeadersOK /\ TracerAlone /\ CallsOK
  BY DEF Kernel, tableVars, locals, IInv, TypeOK, ProgramsOK
<1>2. \A u \in Tid : nr[u] \in Hooked => phase[u] \in {"entry", "free"}
  BY DEF IInv, ControlOK, HookedAtEntry
<1>3. pc \in CancelPcs => phase[cur] # "free"
  BY DEF IInv, ControlOK, Held, ProgramsOK, NestedOK, BusyPcs, WaitPcs, SyscallPcs, CancelPcs, Stops
<1>4. CASE Enter(t)
  <2>1. /\ phase[t] = "user" /\ phase'[t] = "entry" /\ Live(t)
        /\ \A u \in Tid : Live(u)' <=> Live(u)
        /\ \A u \in Tid \ {t} : nr'[u] = nr[u]
    BY <1>1, <1>4 DEF Enter, Live
  <2>2. \A u \in Tid \ {t} : Asking(u)' <=> Asking(u)
    BY <1>1, <2>1, AskingKept
  <2>3. nr[t] # "time"
    BY <1>2, <2>1 DEF Hooked
  <2>4. CASE nr'[t] = "time" /\ ~Asking(t)
    <3>1. Asking(t)'
      BY <1>1, <2>1, <2>4 DEF Asking
    <3>. QED BY <1>1, <2>1, <2>2, <2>4, <3>1, OneAsks
  <2>5. CASE nr'[t] # "time" \/ Asking(t)
    <3>1. Asking(t)' <=> Asking(t)
      BY <1>1, <2>1, <2>3, <2>5 DEF Asking
    <3>. QED BY <1>1, <2>1, <2>2, <3>1, NothingAnswered
  <2>. QED BY <2>4, <2>5
<1>5. CASE Spawn(t)
  <2>1. PICK c \in Tid :
          /\ phase[t] = "kernel" /\ nr[t] \in {"fork", "thread"}
          /\ phase[c] = "free"
          /\ phase' = [phase EXCEPT ![t] = "spawned", ![c] = "birth"]
          /\ nr' = [nr EXCEPT ![c] = nr[t]]
    BY <1>5 DEF Spawn
  <2>2. /\ ~Live(c) /\ Live(c)' /\ clock'[c] = 0 /\ nr'[c] # "time"
        /\ ~(cur = c /\ pc \in CancelPcs)
        /\ \A u \in Tid \ {c} : (Live(u)' <=> Live(u)) /\ nr'[u] = nr[u]
    BY <1>1, <1>3, <2>1 DEF Live, ClocksOK
  <2>3. ~Asking(c)'
    BY <1>1, <2>2 DEF Asking
  <2>4. \A u \in Tid \ {c} : Asking(u)' <=> Asking(u)
    BY <1>1, <2>2, AskingKept
  <2>. QED BY <1>1, <2>2, <2>3, <2>4, OneBorn
<1>6. CASE ~Enter(t) /\ ~Spawn(t)
  <2>1. ASSUME NEW u \in Tid, Live(u)'
        PROVE  Live(u) /\ (nr'[u] = "time" <=> nr[u] = "time")
    <3>. USE <2>1 DEF Live
    <3>1. CASE Start(t) \/ Return(t) \/ ForkEvent(t) \/ Leave(t)
      BY <1>1, <3>1 DEF Start, Return, ForkEvent, Leave, Move
    <3>2. CASE ExecBegin(t)
      BY <1>1, <3>2 DEF ExecBegin
    <3>3. CASE ExecEnd(t)
      <4>1. tgid[t] = t
        BY <1>1, <3>3, NoTakeoverExec
      <4>. QED BY <1>1, <3>3, <4>1 DEF ExecEnd, CallsOK
    <3>4. CASE \E S \in SUBSET Tid : Die(S)
      BY <1>1, <3>4 DEF Die
    <3>5. CASE Signal(t) \/ Fault(t)
      BY <1>1, <1>2, <3>5 DEF Signal, Fault, Move, Hooked
    <3>6. CASE RewritePath(t)
      BY <1>1, <3>6 DEF RewritePath
    <3>7. ExitThread(t) \/ ExitGroup(t) \/ Kill(t) => \E S \in SUBSET Tid : Die(S)
      BY DEF ExitThread, ExitGroup, Kill, Group
    <3>. QED BY <1>1, <1>6, <3>1, <3>2, <3>3, <3>4, <3>5, <3>6, <3>7 DEF KernelStep, KernelProgress
  <2>2. \A u \in Tid : Live(u)' => (Asking(u)' <=> Asking(u))
    BY <1>1, <2>1 DEF Asking
  <2>. QED BY <1>1, <2>1, <2>2, NothingAnswered
<1>. QED BY <1>4, <1>5, <1>6

-----------------------------------------------------------------------------
(* The steps of the tracer: nobody is born or dies in one,                 *)
LEMMA LiveKept ==
  ASSUME IInv, TracerStep, NEW u \in Tid
  PROVE  Live(u)' <=> Live(u)
<1>1. KernelTypeOK
  BY DEF IInv, TypeOK
<1>2. ASSUME NEW c \in Tid, Resume(c) PROVE Live(u)' <=> Live(u)
  BY <1>1, <1>2, ResumeEffect DEF Resume, Stopped, Stops, Live
<1>3. ASSUME NEW c \in Tid, ReportExit(c) PROVE Live(u)' <=> Live(u)
  BY <1>1, <1>3, ReportExitEffect DEF Live
<1>4. CASE phase' = phase
  BY <1>4 DEF Live
<1>. QED BY <1>2, <1>3, <1>4, TracerEffect DEF ReportStop, SetRegs, RemoveVdso, kernelVars

(* ...no clock moves but in an answer: a new entry starts where the clock  *)
(* of its task stands, and only the dead lose theirs.                      *)
LEMMA ClockKept ==
  ASSUME IInv, ClocksOK, TracerStep, ~Poke, NEW u \in Tid, Live(u)
  PROVE  clock'[u] = clock[u]
<1>1. /\ TableTypeOK /\ KernelTypeOK
      /\ pc \in BusyPcs => cur \in Tid
      /\ pc \in BusyPcs \ WaitPcs => phase[cur] \in Stops \cup {"zombie"}
      /\ pc = "event_msg" /\ Stopped(cur) => msg[cur] \in Tid
  BY DEF IInv, TypeOK, ControlOK, LocalsOK, Held, EventsOK, Stopped, Stops, BusyPcs, ForkPcs
<1>2. ASSUME NEW c \in Tid, pc \notin Ended, insert_process(c) PROVE clock'[u] = clock[u]
  BY <1>1, <1>2 DEF insert_process, ClocksOK, TableTypeOK, tableVars
<1>3. ASSUME NEW c \in Tid, ~Live(c), delete_process(c) PROVE clock'[u] = clock[u]
  BY <1>1, <1>3 DEF delete_process, TableTypeOK, tableVars
<1>4. CASE UNCHANGED tableVars
  BY <1>4 DEF tableVars
<1>5. CASE MainOptions \/ ProcResume \/ GetEventMsg
  BY <1>1, <1>2, <1>4, <1>5, TasksAssumption
     DEF MainOptions, ProcResume, GetEventMsg, Ended, BusyPcs, InitPcs, ForkPcs
<1>6. CASE HookGone \/ LoopResume
  BY <1>1, <1>3, <1>4, <1>6
     DEF HookGone, LoopResume, NoSuchProcess, Stopped, Live, BusyPcs, WaitPcs
<1>7. ASSUME NEW t \in Tid, LoopExit(t) \/ LoopStop(t) PROVE clock'[u] = clock[u]
  BY <1>3, <1>4, <1>7 DEF LoopExit, LoopStop, ReportExit, Reapable, Live
<1>8. CASE MainWait \/ MainResume \/ LoopEnd \/ LoopNoChild \/ RemoveVdso \/ ScanStack \/ VdsoGone
        \/ EventMsgGone \/ WaitNew \/ ResumeNew \/ HookUnknown \/ HookRead \/ HookFreed
  BY <1>4, <1>8 DEF MainWait, MainResume, LoopEnd, LoopNoChild, RemoveVdso, ScanStack, VdsoGone,
                    EventMsgGone, WaitNew, ResumeNew, HookUnknown, HookRead, HookFreed
<1>9. CASE Cancel \/ CancelResume \/ CancelWait \/ PokeFails \/ SetReturn \/ ReadPath \/ ReadPathFails
        \/ ReadPathGone \/ ContResume \/ ContWait
  BY <1>4, <1>9 DEF Cancel, CancelResume, CancelWait, AwaitStop, PokeFails, SetReturn, ReadPath, ReadPathFails,
                    ReadPathGone, ContResume, ContWait
<1>. QED BY <1>5, <1>6, <1>7, <1>8, <1>9 DEF TracerStep

(* ...and nobody begins or stops asking but in an answer.                  *)
LEMMA AskersKept ==
  ASSUME IInv, ProgramsOK, NotTakenOver, CallStopsOK, TracerStep, ~Poke, NEW u \in Tid
  PROVE  Asking(u)' <=> Asking(u)
<1>. USE DEF InitPcs, ForkPcs, SyscallPcs, CancelPcs, PathPcs, BusyPcs, WaitPcs
<1>1. /\ KernelTypeOK
      /\ pc \in BusyPcs => cur \in Tid
      /\ pc \in BusyPcs \ WaitPcs => phase[cur] \in Stops \cup {"zombie"}
      /\ \A t \in Tid : nr[t] \in Hooked => phase[t] \in {"entry", "free"}
      /\ Live(u)' <=> Live(u)
  BY LiveKept DEF IInv, TypeOK, ControlOK, LocalsOK, Held, HookedAtEntry
<1>2. ASSUME nr' = nr, pc \notin CancelPcs, pc' \notin CancelPcs
      PROVE  Asking(u)' <=> Asking(u)
  BY <1>1, <1>2, AskingKept
<1>3. ASSUME nr' = nr, cur' = cur, regs' = regs, pc \in CancelPcs,
             pc' \in CancelPcs \/ ~Live(cur) \/ (regs # "time" /\ nr[cur] # "time")
      PROVE  Asking(u)' <=> Asking(u)
  BY <1>1, <1>3 DEF Asking
<1>4. CASE MainWait \/ MainOptions \/ MainResume \/ LoopEnd \/ LoopNoChild
  BY <1>2, <1>4 DEF MainWait, MainOptions, MainResume, LoopEnd, LoopNoChild, Goto, ReportStop, ReportExit, Resume, kernelVars
<1>5. CASE RemoveVdso \/ ScanStack \/ VdsoGone \/ ProcResume
  BY <1>2, <1>5 DEF RemoveVdso, ScanStack, VdsoGone, VdsoDone, ProcResume, BackToLoop, Goto, Resume, kernelVars
<1>6. CASE GetEventMsg \/ EventMsgGone \/ WaitNew \/ ResumeNew
  BY <1>2, <1>6 DEF GetEventMsg, EventMsgGone, WaitNew, ResumeNew, Goto, ReportStop, ReportExit, Resume, kernelVars
<1>7. CASE HookUnknown \/ HookGone \/ HookFreed
  BY <1>2, <1>7 DEF HookUnknown, HookGone, HookFreed, Goto, kernelVars
<1>8. CASE HookRead
  BY <1>1, <1>8 DEF HookRead, Asking, kernelVars, Hooked
<1>9. CASE Cancel
  <2>1. CASE Stopped(cur)
    BY <1>1, <1>9, <2>1 DEF Cancel, CallStopsOK, SetRegs, NoSuchProcess, Goto, locals, Asking, KernelTypeOK, Hooked, Live, Stopped, Stops
  <2>2. CASE ~Stopped(cur)
    BY <1>1, <1>3, <1>9, <2>2 DEF Cancel, NoSuchProcess, Goto, locals, kernelVars
  <2>. QED BY <2>1, <2>2
<1>10. CASE CancelResume
  BY <1>3, <1>10 DEF CancelResume, Goto, locals, Resume, kernelVars
<1>11. CASE CancelWait
  BY <1>1, <1>3, <1>11 DEF CancelWait, AwaitStop, Goto, locals, ReportStop, ReportExit, Reapable, kernelVars, Live
<1>12. CASE PokeFails
  <2>1. regs = "badaddr" /\ phase[cur] \in {"exit", "zombie"} /\ cur \in Tid
    BY <1>1, <1>12
       DEF PokeFails, Replaced, Stopped, Stops, NotTakenOver, ProgramKept, CallStopsOK, SyscallPcs, CancelPcs
  <2>. QED BY <1>1, <1>3, <1>12, <2>1 DEF PokeFails, Goto, locals, kernelVars, Hooked
<1>13. CASE SetReturn
  <2>1. CASE Stopped(cur)
    <3>1. /\ phase[cur] = "exit" /\ nr[cur] # "time" /\ cur \in Tid
          /\ nr' = [nr EXCEPT ![cur] = IF regs \in Hooked THEN "none" ELSE regs]
      BY <1>1, <1>13, <2>1 DEF SetReturn, CallStopsOK, SetRegs, NoSuchProcess, Stopped, Stops, Hooked
    <3>. QED BY <1>1, <1>13, <3>1 DEF SetReturn, Goto, locals, Asking, KernelTypeOK, Hooked
  <2>2. CASE ~Stopped(cur)
    BY <1>2, <1>13, <2>2 DEF SetReturn, NoSuchProcess, Goto, kernelVars
  <2>. QED BY <2>1, <2>2
<1>14. CASE ReadPath \/ ReadPathFails \/ ReadPathGone
  BY <1>2, <1>14 DEF ReadPath, ReadPathFails, ReadPathGone, Goto, kernelVars
<1>15. CASE ContResume \/ ContWait \/ LoopResume
  BY <1>2, <1>15 DEF ContResume, ContWait, AwaitStop, LoopResume, BackToLoop, Goto, Resume, ReportStop, ReportExit, kernelVars
<1>16. ASSUME NEW t \in Tid, LoopExit(t) \/ LoopStop(t) PROVE Asking(u)' <=> Asking(u)
  BY <1>2, <1>16 DEF LoopExit, LoopStop, ReportExit, ReportStop
<1>. QED
  BY <1>4, <1>5, <1>6, <1>7, <1>8, <1>9, <1>10, <1>11, <1>12, <1>13, <1>14, <1>15, <1>16 DEF TracerStep

LEMMA TracerRefines ==
  ASSUME IInv, ProgramsOK, NotTakenOver, ClocksOK, CallStopsOK, TracerStep
  PROVE  Time!Next
<1>1. \A u \in Tid : Live(u)' <=> Live(u)
  BY LiveKept
<1>2. CASE ~Poke
  BY <1>1, <1>2, ClockKept, AskersKept, NothingAnswered
<1>3. CASE Poke
  <2>. USE <1>3
  <2>1. /\ pc = "poke" /\ cur \in Tid /\ regs \in Hooked
        /\ phase[cur] \in {"exit", "zombie"}
        /\ nr[cur] # "time" /\ nr' = nr
        /\ pc' = "set_return" /\ cur' = cur /\ regs' = regs
        /\ clock \in [Tid -> Nat]
    BY DEF Poke, CallStopsOK, CancelPcs, BusyPcs, SyscallPcs, IInv, TypeOK, TableTypeOK, ControlOK, LocalsOK,
           HookedAtEntry, Hooked, Goto, locals, kernelVars
  <2>2. \A u \in Tid \ {cur} : Asking(u)' <=> Asking(u)
    BY <1>1, <2>1 DEF Asking
  <2>3. CASE regs = "time" /\ Live(cur)
    <3>1. Asking(cur) /\ ~Asking(cur)'
      BY <2>1, <2>3 DEF Asking, CancelPcs
    <3>2. clock' = [clock EXCEPT ![cur] = @ + 1]
      BY <2>3 DEF Poke, Tick
    <3>. QED BY <1>1, <2>1, <2>2, <2>3, <3>1, <3>2, OneAnswered
  <2>4. CASE ~(regs = "time" /\ Live(cur))
    <3>1. Asking(cur)' <=> Asking(cur)
      BY <1>1, <2>1, <2>4 DEF Asking
    <3>2. \A u \in Tid : Live(u) => clock'[u] = clock[u]
      BY <2>1, <2>4 DEF Poke, Tick, tableVars, Hooked, Stopped, Stops, Live
    <3>3. \A u \in Tid : Asking(u)' <=> Asking(u)
      BY <2>1, <2>2, <3>1
    <3>. QED BY <1>1, <3>2, <3>3, NothingAnswered
  <2>. QED BY <2>3, <2>4
<1>. QED BY <1>2, <1>3

(* Where no program and no path is replaced under the tracer's eyes, it    *)
(* implements VirtualTime: every question about the time is answered once, *)
(* from the task's own clock, and nothing else moves that clock.           *)
THEOREM Refines == ASSUME NoTakeover, PathsKept PROVE Spec => EachAnsweredOnce
<1>1. ASSUME Init PROVE Time!Init
  <2>1. \A u \in Tid : (Live(u) <=> u = Root) /\ ~Asking(u) /\ clock[u] = 0
    BY <1>1, TasksAssumption DEF Init, KernelInit, TableInit, Live, Asking, CancelPcs
  <2>. QED BY <2>1, TasksAssumption DEF Time!Init
<1>2. ASSUME IInv, ProgramsOK, NotTakenOver, ClocksOK, CallStopsOK, [Next]_vars
      PROVE  [Time!Next]_Time!vars
  <2>. USE <1>2
  <2>1. CASE TracerStep
    BY <2>1, TracerRefines
  <2>2. ASSUME NEW t \in Tid, Kernel(t) PROVE Time!Next
    BY <2>2, KernelRefines
  <2>3. CASE ChildGivesUp
    <3>1. \A u \in Tid : Live(u)' => Live(u) /\ nr'[u] = nr[u] /\ clock'[u] = clock[u]
      BY <2>3 DEF ChildGivesUp, Die, Live, tableVars
    <3>. QED BY <2>3, <3>1, NothingAnswered DEF ChildGivesUp, Asking, locals
  <2>4. CASE ExitKill
    BY <2>4, NothingAnswered DEF ExitKill, Live
  <2>5. CASE UNCHANGED vars
    BY <2>5 DEF vars, kernelVars, tableVars, locals, Time!vars, Live, Asking
  <2>. QED BY <2>1, <2>2, <2>3, <2>4, <2>5 DEF Next, Terminated
<1>. QED
  BY <1>1, <1>2, Invariance, ProgramsInit, ProgramsStep, NotTakenOverStep, CallStopsStep, PTL
     DEF Spec, EachAnsweredOnce, Time!Spec
=============================================================================
