-------------------------- MODULE TracerQuietProofs --------------------------
(* Proofs about Tracer: what holds where the things TracerQuiet names do   *)
(* not happen.                                                             *)
EXTENDS TracerQuiet, TracerProofs

(* How the kernel and the programs can move a task: on by itself, into     *)
(* life, to death, or, in an execve, into the place of its leader.         *)
StaysPut(u) == phase'[u] = phase[u] /\ msg'[u] = msg[u] /\ image'[u] = image[u]

RunsOn(u) ==
  /\ msg'[u] = msg[u] /\ image'[u] = image[u] /\ tgid'[u] = tgid[u]
  /\ \/ nr'[u] = nr[u] /\ <<phase[u], phase'[u]>> \in {<<"birth", "start">>, <<"spawned", "fork">>, <<"leaving", "exit">>}
     \/ nr'[u] = nr[u] /\ nr[u] \notin ExitCalls /\ phase[u] = "kernel" /\ phase'[u] = "exit"
     \/ nr'[u] = nr[u] /\ nr[u] = "execve" /\ phase[u] = "kernel" /\ phase'[u] = "dethread"
     \/ /\ phase[u] = "user" /\ phase'[u] = "entry"
        /\ nr'[u] \in IF image[u] = "tracer" THEN {"execve", "exit_group"} ELSE Calls
     \/ /\ "OTHER" \in Signals \/ image[u] = "broken"
        /\ phase[u] = "user" /\ phase'[u] = "signal"
        /\ nr'[u] \in {nr[u], "none"}

Rewritten(u) ==
  /\ StaysPut(u) /\ tgid'[u] = tgid[u]
  /\ nr[u] = "openat" /\ nr'[u] = "urandom" /\ phase[u] \in {"entry", "kernel", "exit"}
  /\ {"openat", "thread"} \subseteq Calls

Spawns(u) ==
  /\ phase[u] = "kernel" /\ nr[u] \in {"fork", "thread"} /\ phase'[u] = "spawned"
  /\ nr'[u] = nr[u] /\ image'[u] = image[u] /\ tgid'[u] = tgid[u]
  /\ msg'[u] \in Tid \ {u} /\ phase[msg'[u]] = "free" /\ phase'[msg'[u]] = "birth"

Begins(u) ==
  /\ phase[u] = "free" /\ phase'[u] = "birth" /\ image'[u] # "tracer"
  /\ \E p \in Tid \ {u} : /\ Spawns(p) /\ nr'[u] = nr[p] /\ msg'[p] = u
                          /\ tgid'[u] = IF nr[p] = "thread" THEN tgid[p] ELSE u
                          /\ image'[u] = image[p]

Dies(u) == phase'[u] = "zombie" /\ nr'[u] = "none" /\ image'[u] = "clean" /\ tgid'[u] = tgid[u]

(* What is free does not become a zombie.                                  *)
LEMMA FreeNotDead ==
  ASSUME KernelTypeOK, NEW t \in Tid, KernelStep(t), NEW u \in Tid, phase[u] = "free"
  PROVE  phase'[u] # "zombie"
<1>. USE DEF KernelTypeOK
<1>1. CASE Start(t) \/ Return(t) \/ ForkEvent(t) \/ Leave(t) \/ Signal(t) \/ Fault(t)
  BY <1>1 DEF Start, Return, ForkEvent, Leave, Signal, Fault, Move
<1>2. CASE Enter(t) \/ RewritePath(t)
  BY <1>2 DEF Enter, RewritePath
<1>3. CASE Spawn(t)
  <2>1. PICK c \in Tid : phase' = [phase EXCEPT ![t] = "spawned", ![c] = "birth"]
    BY <1>3 DEF Spawn
  <2>. QED BY <2>1
<1>4. CASE ExecBegin(t)
  BY <1>4 DEF ExecBegin, Group
<1>5. CASE ExecEnd(t)
  BY <1>5 DEF ExecEnd
<1>6. CASE ExitThread(t)
  BY <1>6 DEF ExitThread, Die
<1>7. CASE ExitGroup(t) \/ Kill(t)
  <2>1. Die(Group(t))
    BY <1>7 DEF ExitGroup, Kill
  <2>2. u \notin Group(t)
    BY DEF Group
  <2>. QED BY <2>1, <2>2 DEF Die
<1>. QED BY <1>1, <1>2, <1>3, <1>4, <1>5, <1>6, <1>7 DEF KernelStep, KernelProgress

LEMMA KernelMoves ==
  ASSUME KernelTypeOK, LeadersOK, TracerAlone, CallsOK, NEW t \in Tid, KernelStep(t), NEW u \in Tid
  PROVE  \/ StaysPut(u) /\ nr'[u] = nr[u] /\ tgid'[u] = tgid[u]
         \/ RunsOn(u)
         \/ Rewritten(u)
         \/ Spawns(u)
         \/ Begins(u)
         \/ Dies(u)
         \/ ExecEnd(t) /\ u \in {t, tgid[t]}
<1>. USE DEF KernelTypeOK, StaysPut
<1>1. CASE Start(t)
  BY <1>1 DEF Start, Move, RunsOn
<1>2. CASE Return(t)
  BY <1>2 DEF Return, Move, RunsOn
<1>3. CASE Spawn(t)
  <2>1. PICK c \in Tid :
          /\ phase[t] = "kernel" /\ nr[t] \in {"fork", "thread"}
          /\ phase[c] = "free"
          /\ phase' = [phase EXCEPT ![t] = "spawned", ![c] = "birth"]
          /\ nr' = [nr EXCEPT ![c] = nr[t]]
          /\ tgid' = [tgid EXCEPT ![c] = IF nr[t] = "thread" THEN tgid[t] ELSE c]
          /\ image' = [image EXCEPT ![c] = image[t]]
          /\ msg' = [msg EXCEPT ![t] = c]
    BY <1>3 DEF Spawn
  <2>2. Spawns(t) /\ c # t
    BY <2>1 DEF Spawns
  <2>3. Begins(c)
    BY <2>1, <2>2 DEF Begins, TracerAlone
  <2>4. CASE u \notin {t, c}
    BY <2>1, <2>4
  <2>. QED BY <2>2, <2>3, <2>4
<1>4. CASE ForkEvent(t)
  BY <1>4 DEF ForkEvent, Move, RunsOn
<1>5. CASE Leave(t)
  BY <1>5 DEF Leave, Move, RunsOn
<1>6. CASE ExecBegin(t)
  BY <1>6 DEF ExecBegin, Dies, RunsOn
<1>7. CASE ExecEnd(t)
  BY <1>7 DEF ExecEnd
<1>8. CASE ExitThread(t)
  BY <1>8 DEF ExitThread, Die, Dies
<1>9. CASE ExitGroup(t)
  BY <1>9 DEF ExitGroup, Die, Dies
<1>10. CASE Enter(t)
  BY <1>10 DEF Enter, RunsOn
<1>11. CASE Kill(t)
  BY <1>11 DEF Kill, Die, Dies
<1>12. CASE Signal(t) \/ Fault(t)
  BY <1>12 DEF Signal, Fault, Move, RunsOn
<1>13. CASE RewritePath(t)
  <2>1. {"openat", "thread"} \subseteq Calls
    BY <1>13 DEF RewritePath, CallsOK, Group
  <2>. QED BY <1>13, <2>1 DEF RewritePath, Rewritten
<1>. QED BY <1>1, <1>2, <1>3, <1>4, <1>5, <1>6, <1>7, <1>8, <1>9, <1>10, <1>11, <1>12, <1>13
         DEF KernelStep, KernelProgress

(* An execve that nothing is shared with stays where it is.                *)
LEMMA NoTakeoverExec ==
  ASSUME KernelTypeOK, LeadersOK, TracerAlone, CallsOK, NoTakeover, NEW t \in Tid, ExecEnd(t)
  PROVE  tgid[t] = t
<1>1. phase[t] = "dethread" /\ nr[t] = "execve"
  BY DEF ExecEnd, CallsOK
<1>2. CASE "thread" \notin Calls
  BY <1>2 DEF CallsOK
<1>3. CASE "execve" \notin Calls
  <2>1. Group(t) \subseteq {t}
    BY <1>1, <1>3 DEF CallsOK, TracerAlone
  <2>2. tgid[t] \in Group(t)
    BY <1>1 DEF LeadersOK, Group, KernelTypeOK
  <2>. QED BY <2>1, <2>2
<1>. QED BY <1>2, <1>3 DEF NoTakeover

(* The groups of the tasks stay in order.                                  *)
LEMMA GroupStep ==
  ASSUME KernelTypeOK, LeadersOK, TracerAlone, CallsOK, NEW t \in Tid, KernelStep(t)
  PROVE  LeadersOK' /\ TracerAlone'
<1>. USE DEF KernelTypeOK, LeadersOK, TracerAlone, Group
<1>1. CASE Start(t)
  BY <1>1 DEF Start, Move
<1>2. CASE Return(t)
  BY <1>2 DEF Return, Move
<1>3. CASE Spawn(t)
  <2>1. PICK c \in Tid :
          /\ phase[t] = "kernel" /\ nr[t] \in {"fork", "thread"}
          /\ phase[c] = "free"
          /\ phase' = [phase EXCEPT ![t] = "spawned", ![c] = "birth"]
          /\ nr' = [nr EXCEPT ![c] = nr[t]]
          /\ tgid' = [tgid EXCEPT ![c] = IF nr[t] = "thread" THEN tgid[t] ELSE c]
          /\ image' = [image EXCEPT ![c] = image[t]]
    BY <1>3 DEF Spawn
  <2>. QED BY <2>1
<1>4. CASE ForkEvent(t)
  BY <1>4 DEF ForkEvent, Move
<1>5. CASE Leave(t)
  BY <1>5 DEF Leave, Move
<1>6. CASE ExecBegin(t)
  BY <1>6 DEF ExecBegin
<1>7. CASE ExecEnd(t)
  BY <1>7 DEF ExecEnd
<1>8. CASE ExitThread(t)
  BY <1>8 DEF ExitThread, Die
<1>9. CASE ExitGroup(t)
  BY <1>9 DEF ExitGroup, Die
<1>10. CASE Enter(t)
  BY <1>10 DEF Enter
<1>11. CASE Kill(t)
  BY <1>11 DEF Kill, Die
<1>12. CASE Signal(t) \/ Fault(t)
  BY <1>12 DEF Signal, Fault, Move
<1>13. CASE RewritePath(t)
  BY <1>13 DEF RewritePath
<1>. QED BY <1>1, <1>2, <1>3, <1>4, <1>5, <1>6, <1>7, <1>8, <1>9, <1>10, <1>11, <1>12, <1>13
         DEF KernelStep, KernelProgress

-----------------------------------------------------------------------------
LEMMA ProgramsInit == Init => ProgramsOK
BY TasksAssumption
   DEF Init, KernelInit, ProgramsOK, LeadersOK, TracerAlone, CallsOK, NestedOK, MainOnly, Group,
       MainPcs, SyscallPcs, CancelPcs, PathPcs, Hooked

LEMMA ProgramsKernel ==
  ASSUME IInv, ProgramsOK, NEW t \in Tid, Kernel(t)
  PROVE  ProgramsOK'
<1>. USE DEF ProgramsOK
<1>1. KernelTypeOK /\ KernelStep(t) /\ pc \notin Ended /\ UNCHANGED <<pc, cur, new, regs>>
  BY DEF IInv, TypeOK, Kernel, locals
<1>2. LeadersOK' /\ TracerAlone'
  BY <1>1, GroupStep
<1>3. CallsOK'
  <2>1. ASSUME NEW u \in Tid, ExecEnd(t), u \in {t, tgid[t]}
        PROVE  /\ nr'[u] \in {"none", "execve"} /\ phase'[u] \in {"free", "exec"}
               /\ tgid'[u] \in {u, tgid[u]}
    BY <1>1, <2>1 DEF ExecEnd, KernelTypeOK, LeadersOK
  <2>2. ASSUME NEW u \in Tid, Begins(u)
        PROVE  "thread" \notin Calls => nr'[u] # "thread" /\ tgid'[u] = u
    BY <2>2 DEF Begins, CallsOK
  <2>. SUFFICES ASSUME NEW u \in Tid
                PROVE  /\ "thread" \notin Calls => nr'[u] # "thread" /\ tgid'[u] = u
                       /\ nr'[u] \in {"execve", "exit_group"} /\ phase'[u] \in {"entry", "kernel", "dethread"}
                             => nr'[u] \in Calls \/ image'[u] = "tracer"
                       /\ phase'[u] = "dethread" => nr'[u] = "execve"
                       /\ nr'[u] \in {"openat", "open", "badaddr"} => nr'[u] \in Calls
                       /\ nr'[u] = "urandom" => UrandomPossible
    BY DEF CallsOK
  <2>3. CASE ExecEnd(t) /\ u \in {t, tgid[t]}
    BY <2>1, <2>3 DEF CallsOK
  <2>4. CASE StaysPut(u) /\ nr'[u] = nr[u] /\ tgid'[u] = tgid[u]
    BY <2>4 DEF CallsOK, StaysPut
  <2>5. CASE RunsOn(u)
    BY <2>5 DEF CallsOK, RunsOn, UrandomPossible
  <2>6. CASE Rewritten(u)
    BY <2>6 DEF CallsOK, Rewritten, StaysPut, UrandomPossible
  <2>7. CASE Spawns(u)
    BY <2>7 DEF CallsOK, Spawns
  <2>8. CASE Begins(u)
    BY <2>2, <2>8 DEF CallsOK, Begins, Spawns
  <2>9. CASE Dies(u)
    BY <2>9 DEF CallsOK, Dies
  <2>. QED BY <1>1, <2>3, <2>4, <2>5, <2>6, <2>7, <2>8, <2>9, KernelMoves
<1>4. NestedOK'
  <2>. SUFFICES ASSUME pc \in BusyPcs
                PROVE  NestedOK'
    BY <1>1 DEF NestedOK, BusyPcs, SyscallPcs, CancelPcs, PathPcs
  <2>1. cur \in Tid /\ (pc \in BusyPcs \ WaitPcs => phase[cur] \in Stops \cup {"zombie"})
    BY DEF IInv, ControlOK, LocalsOK, Held
  <2>2. CASE ExecEnd(t) /\ cur \in {t, tgid[t]}
    BY <1>1, <2>1, <2>2 DEF ExecEnd, NestedOK, Stops, WaitPcs, KernelTypeOK
  <2>3. CASE StaysPut(cur) /\ nr'[cur] = nr[cur]
    BY <1>1, <2>3 DEF NestedOK, StaysPut
  <2>4. CASE RunsOn(cur)
    BY <1>1, <2>1, <2>4 DEF NestedOK, RunsOn, WaitPcs, BusyPcs, SyscallPcs, CancelPcs, PathPcs, Stops
  <2>5. CASE Rewritten(cur)
    BY <1>1, <2>5 DEF NestedOK, Rewritten, StaysPut
  <2>6. CASE Spawns(cur) \/ Begins(cur)
    BY <1>1, <2>1, <2>6 DEF NestedOK, Spawns, Begins, WaitPcs, BusyPcs, SyscallPcs, CancelPcs, PathPcs, Stops
  <2>7. CASE Dies(cur)
    BY <1>1, <2>7 DEF NestedOK, Dies
  <2>. QED BY <1>1, <2>1, <2>2, <2>3, <2>4, <2>5, <2>6, <2>7, KernelMoves
<1>5. MainOnly'
  <2>. SUFFICES ASSUME pc \in MainPcs
                PROVE  MainOnly'
    BY <1>1 DEF MainOnly
  <2>1. phase[Root] \in {"birth", "start", "zombie"} /\ \A u \in Tid \ {Root} : phase[u] = "free"
    BY DEF MainOnly
  <2>2. \A u \in Tid : ~Spawns(u) /\ ~Begins(u) /\ ~ExecEnd(t)
    BY <2>1, TasksAssumption DEF Spawns, Begins, ExecEnd
  <2>3. ASSUME NEW u \in Tid
        PROVE  \/ phase'[u] = phase[u]
               \/ phase[u] # "free" /\ phase'[u] \in {"start", "zombie"}
    <3>1. phase[u] = "free" => phase'[u] # "zombie"
      BY <1>1, FreeNotDead
    <3>. QED BY <1>1, <2>1, <2>2, <3>1, KernelMoves DEF StaysPut, RunsOn, Rewritten, Dies
  <2>. QED BY <1>1, <2>1, <2>3, TasksAssumption DEF MainOnly
<1>. QED BY <1>2, <1>3, <1>4, <1>5

-----------------------------------------------------------------------------
(* What a step of the tracer does to the tasks: nothing, or one request or *)
(* one report.                                                             *)
LEMMA TracerEffect ==
  ASSUME IInv, TracerStep
  PROVE  \/ UNCHANGED kernelVars
         \/ \E c \in Tid : Resume(c) \/ ReportStop(c) \/ ReportExit(c)
         \/ cur \in Tid /\ pc = "cancel" /\ SetRegs(cur, "none")
         \/ cur \in Tid /\ pc = "set_return" /\ SetRegs(cur, IF regs \in Hooked THEN "none" ELSE regs)
         \/ cur \in Tid /\ RemoveVdso
<1>1. /\ pc \in BusyPcs => cur \in Tid
      /\ pc \in {"wait_new", "resume_new"} => new \in Tid
  BY DEF IInv, ControlOK, LocalsOK
<1>2. CASE MainWait \/ MainOptions \/ MainResume
  BY <1>2, TasksAssumption DEF MainWait, MainOptions, MainResume
<1>3. CASE LoopEnd \/ LoopNoChild \/ ScanStack \/ VdsoGone \/ GetEventMsg \/ EventMsgGone
        \/ HookUnknown \/ HookRead \/ HookGone \/ HookFreed \/ Poke \/ PokeFails
        \/ ReadPath \/ ReadPathFails \/ ReadPathGone
  BY <1>3 DEF LoopEnd, LoopNoChild, ScanStack, VdsoGone, GetEventMsg, EventMsgGone, HookUnknown,
              HookRead, HookGone, HookFreed, Poke, PokeFails, ReadPath, ReadPathFails, ReadPathGone
<1>4. ASSUME NEW t \in Tid, LoopExit(t) \/ LoopStop(t)
      PROVE  \E c \in Tid : Resume(c) \/ ReportStop(c) \/ ReportExit(c)
  BY <1>4 DEF LoopExit, LoopStop
<1>5. CASE ProcResume \/ ResumeNew \/ CancelResume \/ ContResume \/ LoopResume
  BY <1>1, <1>5 DEF ProcResume, ResumeNew, CancelResume, ContResume, LoopResume, BusyPcs, InitPcs,
                    SyscallPcs, CancelPcs, PathPcs
<1>6. CASE WaitNew \/ CancelWait \/ ContWait
  BY <1>1, <1>6 DEF WaitNew, CancelWait, ContWait, AwaitStop, BusyPcs, SyscallPcs, CancelPcs, PathPcs
<1>7. CASE Cancel \/ SetReturn \/ RemoveVdso
  BY <1>1, <1>7 DEF Cancel, SetReturn, RemoveVdso, BusyPcs, InitPcs, SyscallPcs, CancelPcs, PathPcs
<1>. QED BY <1>2, <1>3, <1>4, <1>5, <1>6, <1>7 DEF TracerStep

LEMMA ProgramsTracer ==
  ASSUME IInv, ProgramsOK, TracerStep
  PROVE  LeadersOK' /\ TracerAlone' /\ CallsOK'
<1>. USE DEF ProgramsOK, LeadersOK, TracerAlone, CallsOK, Group
<1>1. KernelTypeOK
  BY DEF IInv, TypeOK
<1>2. CASE UNCHANGED kernelVars
  BY <1>2 DEF kernelVars
<1>3. ASSUME NEW c \in Tid, Resume(c) PROVE LeadersOK' /\ TracerAlone' /\ CallsOK'
  <2>1. /\ phase' = [phase EXCEPT ![c] = NextPhase[@]]
        /\ NextPhase[phase[c]] \in {"user", "kernel", "leaving"}
        /\ NextPhase[phase[c]] = "kernel" => phase[c] = "entry"
        /\ phase[c] # "free"
        /\ UNCHANGED <<nr, tgid, image>>
    BY <1>1, <1>3, NextPhaseFacts DEF Resume, Stopped, Stops
  <2>2. \A u \in Tid : phase'[u] = "free" <=> phase[u] = "free"
    BY <1>1, <2>1 DEF KernelTypeOK
  <2>3. LeadersOK' /\ TracerAlone'
    BY <1>1, <2>1, <2>2 DEF KernelTypeOK
  <2>. QED BY <1>1, <2>1, <2>3 DEF KernelTypeOK
<1>4. ASSUME NEW c \in Tid, ReportStop(c) PROVE LeadersOK' /\ TracerAlone' /\ CallsOK'
  BY <1>4 DEF ReportStop
<1>5. ASSUME NEW c \in Tid, ReportExit(c) PROVE LeadersOK' /\ TracerAlone' /\ CallsOK'
  BY <1>1, <1>5 DEF ReportExit, Reapable, KernelTypeOK
<1>6. ASSUME cur \in Tid, pc = "cancel", SetRegs(cur, "none") PROVE LeadersOK' /\ TracerAlone' /\ CallsOK'
  <2>1. image[cur] # "tracer"
    BY <1>6 DEF NestedOK, SyscallPcs, CancelPcs
  <2>. QED BY <1>1, <1>6, <2>1 DEF SetRegs, KernelTypeOK, Stopped, Stops
<1>7. ASSUME cur \in Tid, pc = "set_return", SetRegs(cur, IF regs \in Hooked THEN "none" ELSE regs)
      PROVE  LeadersOK' /\ TracerAlone' /\ CallsOK'
  <2>1. \/ SetRegs(cur, "none")
        \/ SetRegs(cur, "urandom") /\ UrandomPossible
    BY <1>7 DEF NestedOK
  <2>2. image[cur] # "tracer"
    BY <1>7 DEF NestedOK, SyscallPcs
  <2>. QED BY <1>1, <1>7, <2>1, <2>2 DEF SetRegs, KernelTypeOK, Stopped, Stops
<1>8. ASSUME cur \in Tid, RemoveVdso PROVE LeadersOK' /\ TracerAlone' /\ CallsOK'
  <2>1. /\ image' = [image EXCEPT ![cur] = "clean"]
        /\ phase[cur] = "exec"
        /\ UNCHANGED <<phase, nr, tgid>>
    BY <1>8 DEF RemoveVdso
  <2>. QED BY <1>1, <1>8, <2>1 DEF KernelTypeOK
<1>. QED BY <1>2, <1>3, <1>4, <1>5, <1>6, <1>7, <1>8, TracerEffect

(* Where a step of the tracer leads, and what it leaves in its locals.     *)
LEMMA NestedTracer ==
  ASSUME IInv, ProgramsOK, TracerStep
  PROVE  NestedOK' /\ MainOnly'
<1>. USE DEF ProgramsOK, NestedOK, MainOnly, MainPcs, InitPcs, ForkPcs, SyscallPcs, CancelPcs, PathPcs, Ended
<1>1. /\ pc \in BusyPcs => cur \in Tid
      /\ pc \in {"wait_new", "resume_new"} => new \in Tid /\ new # cur
      /\ KernelTypeOK
      /\ pc \in BusyPcs \ WaitPcs => phase[cur] \in Stops \cup {"zombie"}
  BY DEF IInv, TypeOK, ControlOK, LocalsOK, Held
<1>2. CASE MainWait
  BY <1>1, <1>2, TasksAssumption, ReportExitEffect DEF MainWait, ReportStop, Stopped, Stops, Goto, locals
<1>3. CASE MainOptions
  BY <1>3 DEF MainOptions, Goto, kernelVars, locals
<1>4. CASE MainResume
  BY <1>4 DEF MainResume, Goto, locals
<1>5. CASE LoopEnd \/ LoopNoChild
  BY <1>5 DEF LoopEnd, LoopNoChild, Goto, kernelVars, locals
<1>6. CASE RemoveVdso \/ ScanStack \/ VdsoGone
  BY <1>6 DEF RemoveVdso, ScanStack, VdsoGone, VdsoDone, Goto, locals
<1>7. CASE ProcResume \/ LoopResume
  BY <1>7 DEF ProcResume, LoopResume, BackToLoop
<1>8. CASE GetEventMsg \/ EventMsgGone
  BY <1>8 DEF GetEventMsg, EventMsgGone, Goto, kernelVars, locals
<1>9. CASE WaitNew \/ ResumeNew
  BY <1>9 DEF WaitNew, ResumeNew, Goto, locals
<1>10. CASE HookUnknown \/ HookGone \/ HookFreed
  BY <1>10 DEF HookUnknown, HookGone, HookFreed, Goto, locals
<1>11. CASE HookRead
  BY <1>1, <1>11 DEF HookRead, kernelVars, BusyPcs, CallsOK, TracerAlone, Hooked
<1>12. CASE Cancel
  BY <1>1, <1>12 DEF Cancel, SetRegs, Goto, kernelVars, locals, BusyPcs, KernelTypeOK, NoSuchProcess, Stopped, Stops
<1>13. ASSUME CancelResume \/ ContResume, NoSuchProcess(cur), UNCHANGED kernelVars
       PROVE  NestedOK' /\ MainOnly'
  BY <1>13 DEF CancelResume, ContResume, Goto, kernelVars, locals, Hooked
<1>14. ASSUME CancelResume \/ ContResume, Resume(cur)
       PROVE  NestedOK' /\ MainOnly'
  <2>1. cur \in Tid /\ Stopped(cur)
    BY <1>1, <1>14 DEF CancelResume, ContResume, BusyPcs, Resume
  <2>2. /\ phase'[cur] \in {"user", "kernel", "leaving"}
        /\ phase'[cur] = "kernel" => phase[cur] = "entry"
        /\ nr' = nr /\ image' = image
    BY <1>1, <1>14, <2>1, ResumeEffect DEF Resume
  <2>3. pc' \in {"cancel_wait", "cont_wait"} /\ cur' = cur /\ regs' = regs
    BY <1>14, <2>1 DEF CancelResume, ContResume, NoSuchProcess, Goto, locals
  <2>. QED BY <1>1, <1>14, <2>2, <2>3 DEF CancelResume, ContResume
<1>15. CASE CancelWait \/ ContWait
  BY <1>1, <1>15, ReportExitEffect DEF CancelWait, ContWait, AwaitStop, ReportStop, ReportExit, Goto, kernelVars, locals,
                      BusyPcs
<1>16. CASE Poke \/ PokeFails
  BY <1>16 DEF Poke, PokeFails, Goto, kernelVars, locals
<1>17. CASE SetReturn
  BY <1>17 DEF SetReturn, Goto, locals
<1>18. CASE ReadPath
  BY <1>1, <1>18 DEF ReadPath, kernelVars, BusyPcs, CallsOK
<1>19. CASE ReadPathFails \/ ReadPathGone
  BY <1>19 DEF ReadPathFails, ReadPathGone, Goto, kernelVars, locals
<1>20. ASSUME NEW t \in Tid, LoopExit(t) \/ LoopStop(t)
       PROVE  NestedOK' /\ MainOnly'
  BY <1>20 DEF LoopExit, LoopStop, locals
<1>. QED
  BY <1>2, <1>3, <1>4, <1>5, <1>6, <1>7, <1>8, <1>9, <1>10, <1>11, <1>12, <1>13, <1>14, <1>15, <1>16,
     <1>17, <1>18, <1>19, <1>20 DEF TracerStep, CancelResume, ContResume

LEMMA ProgramsStep == IInv /\ ProgramsOK /\ [Next]_vars => ProgramsOK'
<1>. SUFFICES ASSUME IInv, ProgramsOK, [Next]_vars PROVE ProgramsOK'
  OBVIOUS
<1>1. CASE TracerStep
  BY <1>1, ProgramsTracer, NestedTracer DEF ProgramsOK
<1>2. CASE ChildGivesUp
  BY <1>2, TasksAssumption
     DEF ChildGivesUp, Die, locals, IInv, TypeOK, KernelTypeOK, ProgramsOK, LeadersOK, TracerAlone, CallsOK,
         NestedOK, MainOnly, Group, MainPcs, SyscallPcs, CancelPcs, PathPcs
<1>3. ASSUME NEW t \in Tid, Kernel(t) PROVE ProgramsOK'
  BY <1>3, ProgramsKernel
<1>4. CASE ExitKill
  BY <1>4
     DEF ExitKill, locals, IInv, TypeOK, KernelTypeOK, ProgramsOK, LeadersOK, TracerAlone, CallsOK,
         NestedOK, MainOnly, Group, MainPcs, SyscallPcs, CancelPcs, PathPcs, Ended
<1>5. CASE UNCHANGED vars
  BY <1>5
     DEF vars, kernelVars, locals, ProgramsOK, LeadersOK, TracerAlone, CallsOK, NestedOK, MainOnly, Group
<1>. QED BY <1>1, <1>2, <1>3, <1>4, <1>5 DEF Next, Terminated

-----------------------------------------------------------------------------
(* The moves that are left when no execve takes over another task.         *)
Execs(u) == phase[u] = "dethread" /\ phase'[u] = "exec" /\ nr'[u] = "execve" /\ tgid'[u] = tgid[u]

LEMMA AloneMoves ==
  ASSUME IInv, ProgramsOK, NoTakeover, NEW t \in Tid, KernelStep(t), NEW u \in Tid
  PROVE  \/ StaysPut(u) /\ nr'[u] = nr[u]
         \/ RunsOn(u)
         \/ Rewritten(u)
         \/ Spawns(u)
         \/ Begins(u)
         \/ Dies(u) /\ phase[u] # "free"
         \/ Execs(u)
<1>1. KernelTypeOK /\ LeadersOK /\ TracerAlone /\ CallsOK
  BY DEF IInv, TypeOK, ProgramsOK
<1>2. CASE ExecEnd(t) /\ u \in {t, tgid[t]}
  <2>1. tgid[t] = t
    BY <1>1, <1>2, NoTakeoverExec
  <2>. QED BY <1>1, <1>2, <2>1 DEF ExecEnd, Execs, KernelTypeOK
<1>3. phase[u] = "free" => phase'[u] # "zombie"
  BY <1>1, FreeNotDead
<1>4. Dies(u) => phase'[u] = "zombie"
  BY DEF Dies
<1>. QED BY <1>1, <1>2, <1>3, <1>4, KernelMoves

(* An execve brings in a program that shows the vDSO.                      *)
LEMMA ExecImages ==
  ASSUME IInv, ProgramsOK, NoTakeover, NEW t \in Tid, KernelStep(t), NEW u \in Tid, Execs(u)
  PROVE  image'[u] = "fresh"
<1>. USE DEF IInv, TypeOK, KernelTypeOK, Execs, ProgramsOK
<1>1. CASE ExecEnd(t)
  <2>1. tgid[t] = t
    BY <1>1, NoTakeoverExec
  <2>. QED BY <1>1, <2>1 DEF ExecEnd
<1>2. CASE Start(t) \/ Return(t) \/ ForkEvent(t) \/ Leave(t) \/ Signal(t) \/ Fault(t) \/ Enter(t) \/ RewritePath(t)
  BY <1>2 DEF Start, Return, ForkEvent, Leave, Signal, Fault, Enter, RewritePath, Move
<1>3. CASE Spawn(t)
  BY <1>3 DEF Spawn
<1>4. CASE ExecBegin(t)
  BY <1>4 DEF ExecBegin
<1>5. CASE ExitThread(t) \/ ExitGroup(t) \/ Kill(t)
  <2>1. PICK S : Die(S)
    BY <1>5 DEF ExitThread, ExitGroup, Kill
  <2>2. phase'[u] \in {"zombie", phase[u]}
    BY <2>1 DEF Die
  <2>. QED BY <2>2
<1>. QED BY <1>1, <1>2, <1>3, <1>4, <1>5 DEF KernelStep, KernelProgress

(* A task that the tracer answers makes no execve before it is heard of    *)
(* again.                                                                  *)
LEMMA ProgramKeptKernel ==
  ASSUME IInv, ProgramsOK, NoTakeover, NotTakenOver, NEW t \in Tid, Kernel(t)
  PROVE  ProgramKept'
<1>. USE DEF NotTakenOver, ProgramKept
<1>1. KernelStep(t) /\ UNCHANGED <<pc, cur, regs>>
  BY DEF Kernel, locals
<1>2. /\ pc \in SyscallPcs => cur \in Tid /\ phase[cur] # "exec"
      /\ pc \in SyscallPcs \ WaitPcs => phase[cur] \in Stops \cup {"zombie"}
      /\ pc \in WaitPcs => phase[cur] \in Stops \cup {"user", "kernel", "leaving", "zombie"}
      /\ pc \in WaitPcs /\ phase[cur] = "kernel" => nr[cur] \in {"none", "urandom"}
  BY DEF IInv, ControlOK, LocalsOK, Held, ProgramsOK, NestedOK, BusyPcs, WaitPcs
<1>3. ASSUME NEW u \in Tid
      PROVE  image'[u] # "broken"
  <2>1. CASE Begins(u)
    BY <2>1 DEF Begins
  <2>2. CASE Execs(u)
    BY <1>1, <2>2, ExecImages
  <2>3. CASE StaysPut(u) \/ RunsOn(u) \/ Rewritten(u) \/ Spawns(u) \/ Dies(u)
    BY <2>3 DEF StaysPut, RunsOn, Rewritten, Spawns, Dies
  <2>. QED BY <1>1, <2>1, <2>2, <2>3, AloneMoves
<1>4. ASSUME pc \in SyscallPcs, nr'[cur] = "execve"
      PROVE  phase'[cur] \in {"entry", "user", "signal", "zombie"}
  <2>1. /\ cur \in Tid
        /\ phase[cur] \in Stops \cup {"user", "kernel", "leaving", "zombie"}
        /\ phase[cur] # "exec"
        /\ phase[cur] = "kernel" => nr[cur] \in {"none", "urandom"}
        /\ nr[cur] = "execve" => phase[cur] \in {"entry", "user", "signal", "zombie"}
    BY <1>2, <1>4 DEF Stops
  <2>2. ~Spawns(cur) /\ ~Begins(cur) /\ ~Execs(cur) /\ ~Rewritten(cur)
    BY <1>4, <2>1 DEF Spawns, Begins, Execs, Rewritten, Stops
  <2>3. CASE StaysPut(cur) /\ nr'[cur] = nr[cur]
    BY <1>4, <2>1, <2>3 DEF StaysPut
  <2>4. CASE RunsOn(cur)
    BY <1>4, <2>1, <2>4 DEF RunsOn
  <2>5. CASE Dies(cur)
    BY <2>5 DEF Dies
  <2>. QED BY <1>1, <2>1, <2>2, <2>3, <2>4, <2>5, AloneMoves
<1>. QED BY <1>1, <1>3, <1>4

LEMMA NotTakenOverKernel ==
  ASSUME IInv, ProgramsOK, NoTakeover, NotTakenOver, NoVdsoTime, ClocksOK, NEW t \in Tid, Kernel(t)
  PROVE  NotTakenOver' /\ NoVdsoTime' /\ ClocksOK'
<1>0. ProgramKept'
  BY ProgramKeptKernel
<1>1. KernelStep(t) /\ pc \notin Ended /\ UNCHANGED <<process_table, clock, pc, cur, new, regs>>
  BY DEF Kernel, tableVars, locals
<1>2. NoVdsoTime'
  <2>. SUFFICES ASSUME NEW u \in Tid, image'[u] = "fresh"
                PROVE  phase'[u] \in {"exec", "zombie", "free"}
    BY DEF NoVdsoTime
  <2>1. \A p \in Tid : Spawns(p) => image[p] # "fresh"
    BY DEF NoVdsoTime, Spawns
  <2>2. ~Begins(u)
    BY <2>1 DEF Begins
  <2>. QED BY <1>1, <2>1, <2>2, AloneMoves DEF NoVdsoTime, StaysPut, RunsOn, Rewritten, Spawns, Dies, Execs
<1>3. ClocksOK'
  <2>1. \A u \in Tid : phase'[u] = "free" => phase[u] = "free"
    BY <1>1, AloneMoves DEF StaysPut, RunsOn, Rewritten, Spawns, Begins, Dies, Execs
  <2>. QED BY <1>1, <2>1 DEF ClocksOK, find_process
<1>4. \A u \in Tid : Unborn(u) => Unborn(u)'
  BY <1>1, AloneMoves DEF Unborn, StaysPut, RunsOn, Rewritten, Spawns, Begins, Dies, Execs
<1>5. /\ pc \in BusyPcs => cur \in Tid
      /\ pc \in {"wait_new", "resume_new"} => new \in Tid
      /\ pc \in BusyPcs \ WaitPcs => phase[cur] \in Stops \cup {"zombie"}
      /\ pc \in WaitPcs => phase[cur] \in Stops \cup {"user", "kernel", "leaving", "zombie"}
  BY DEF IInv, ControlOK, LocalsOK, Held, ProgramsOK, NestedOK, WaitPcs
<1>6. pc \in BusyPcs /\ phase'[cur] = "exec" => phase[cur] = "exec" /\ image'[cur] = image[cur]
  BY <1>1, <1>5, AloneMoves DEF StaysPut, RunsOn, Rewritten, Spawns, Begins, Dies, Execs, Stops
<1>7. NotTakenOver'
  BY <1>0, <1>1, <1>4, <1>5, <1>6 DEF NotTakenOver, find_process, BusyPcs, InitPcs
<1>. QED BY <1>2, <1>3, <1>7

(* A resumed task has an entry or gets one, and stands at no exec stop     *)
(* that still shows the vDSO.                                              *)
LEMMA ResumeAlone ==
  ASSUME IInv, NotTakenOver, NoVdsoTime, NEW c \in Tid, Resume(c),
         process_table \subseteq process_table', c \in process_table',
         phase[c] = "exec" => image[c] # "fresh"
  PROVE  NoVdsoTime' /\ \A t \in Tid : t \in process_table' \/ Unborn(t)'
<1>1. /\ \A u \in Tid \ {c} : phase'[u] = phase[u]
      /\ image' = image
      /\ Stopped(c)
  BY ResumeEffect DEF IInv, TypeOK, Resume
<1>. QED BY <1>1 DEF NoVdsoTime, NotTakenOver, Unborn, find_process, Stopped, Stops

(* The tracer writes no registers to a program they were not read from.    *)
LEMMA ProgramKeptTracer ==
  ASSUME IInv, ProgramsOK, NotTakenOver, TracerStep
  PROVE  ProgramKept'
<1>. USE DEF NotTakenOver, ProgramKept, SyscallPcs, CancelPcs, PathPcs
<1>1. /\ pc \in SyscallPcs => cur \in Tid
      /\ KernelTypeOK
  BY DEF IInv, TypeOK, ControlOK, LocalsOK, BusyPcs
<1>2. \A t \in Tid : image'[t] # "broken"
  <2>1. ASSUME NEW n, cur \in Tid, pc \in {"cancel", "set_return"}, SetRegs(cur, n)
        PROVE  image' = image
    BY <2>1 DEF SetRegs, Replaced, Stopped, Stops
  <2>2. ASSUME NEW c \in Tid, Resume(c) \/ ReportStop(c) \/ ReportExit(c)
        PROVE  image' = image
    BY <2>2 DEF Resume, ReportStop, ReportExit
  <2>3. ASSUME cur \in Tid, RemoveVdso
        PROVE  image' = [image EXCEPT ![cur] = "clean"]
    BY <2>3 DEF RemoveVdso
  <2>. QED BY <1>1, <2>1, <2>2, <2>3, TracerEffect DEF kernelVars, KernelTypeOK
<1>3. ASSUME pc' \in SyscallPcs, nr'[cur'] = "execve"
      PROVE  phase'[cur'] \in {"entry", "user", "signal", "zombie"}
  <2>1. CASE HookRead \/ ReadPath
    BY <1>3, <2>1 DEF HookRead, ReadPath, kernelVars, Hooked
  <2>2. CASE Cancel \/ SetReturn
    <3>1. /\ cur' = cur
          /\ \/ NoSuchProcess(cur) /\ UNCHANGED kernelVars
             \/ nr'[cur] # "execve"
      BY <1>1, <1>3, <2>2 DEF Cancel, SetReturn, SetRegs, Goto, locals, KernelTypeOK
    <3>. QED BY <1>1, <1>3, <2>2, <3>1 DEF Cancel, SetReturn, Goto, kernelVars
  <2>3. CASE CancelResume \/ ContResume
    <3>1. /\ cur' = cur /\ cur \in Tid /\ nr' = nr
          /\ phase[cur] \in {"entry", "user", "signal", "zombie"}
          /\ phase[cur] # "entry"
      BY <1>1, <1>3, <2>3
         DEF CancelResume, ContResume, Resume, Goto, locals, kernelVars, ProgramsOK, NestedOK
    <3>2. \/ phase'[cur] = phase[cur]
          \/ phase[cur] = "signal" /\ phase'[cur] = "user"
      BY <1>1, <2>3, <3>1, NextPhaseFacts
         DEF CancelResume, ContResume, Resume, Stopped, Stops, kernelVars, KernelTypeOK, NextPhase
    <3>. QED BY <3>1, <3>2
  <2>4. CASE CancelWait \/ ContWait
    <3>1. /\ cur' = cur /\ cur \in Tid /\ nr' = nr
          /\ phase' = phase
      BY <1>1, <1>3, <2>4
         DEF CancelWait, ContWait, AwaitStop, ReportStop, Goto, locals, kernelVars
    <3>. QED BY <1>3, <2>4, <3>1 DEF CancelWait, ContWait
  <2>5. CASE Poke
    BY <1>3, <2>5 DEF Poke, Goto, locals, kernelVars
  <2>6. CASE \/ MainWait \/ MainOptions \/ MainResume \/ LoopEnd \/ LoopNoChild
             \/ RemoveVdso \/ ScanStack \/ VdsoGone \/ ProcResume
             \/ GetEventMsg \/ EventMsgGone \/ WaitNew \/ ResumeNew
             \/ HookUnknown \/ HookGone \/ HookFreed \/ PokeFails
             \/ ReadPathFails \/ ReadPathGone \/ LoopResume
    BY <1>3, <2>6
       DEF MainWait, MainOptions, MainResume, LoopEnd, LoopNoChild, RemoveVdso, ScanStack, VdsoGone,
           VdsoDone, ProcResume, GetEventMsg, EventMsgGone, WaitNew, ResumeNew, HookUnknown, HookGone,
           HookFreed, PokeFails, ReadPathFails, ReadPathGone, LoopResume, BackToLoop, Goto
  <2>7. ASSUME NEW t \in Tid, LoopExit(t) \/ LoopStop(t)
        PROVE  FALSE
    BY <1>3, <2>7 DEF LoopExit, LoopStop
  <2>. QED BY <2>1, <2>2, <2>3, <2>4, <2>5, <2>6, <2>7 DEF TracerStep
<1>. QED BY <1>2, <1>3

LEMMA NotTakenOverTracer ==
  ASSUME IInv, ProgramsOK, NotTakenOver, NoVdsoTime, TracerStep
  PROVE  NotTakenOver' /\ NoVdsoTime'
<1>0. ProgramKept'
  BY ProgramKeptTracer
<1>. USE <1>0 DEF NotTakenOver, find_process, MainPcs, InitPcs, ForkPcs, SyscallPcs, CancelPcs, PathPcs, BusyPcs, Ended
<1>1. /\ pc \in BusyPcs => cur \in Tid
      /\ pc \in {"wait_new", "resume_new"} => new \in Tid /\ new # cur
      /\ KernelTypeOK
      /\ pc \in BusyPcs \ WaitPcs => phase[cur] \in Stops \cup {"zombie"}
      /\ TableTypeOK /\ CountsEntries
      /\ pc = "event_msg" /\ Stopped(cur) => msg[cur] \in Tid
  BY DEF IInv, TypeOK, ControlOK, LocalsOK, Held, EventsOK, Stopped, Stops
<1>2. CASE MainWait
  BY <1>1, <1>2, TasksAssumption, ReportStopEffect, ReportExitEffect
     DEF MainWait, ReportStop, ReportExit, Stopped, Goto, locals, tableVars, NoVdsoTime, Unborn
<1>3. CASE MainOptions
  BY <1>1, <1>3, TasksAssumption, InsertEffect DEF MainOptions, Goto, kernelVars, tableVars, locals, NoVdsoTime, Unborn
<1>4. CASE MainResume
  <2>1. ASSUME Resume(Root) PROVE NoVdsoTime' /\ \A t \in Tid : t \in process_table' \/ Unborn(t)'
    <3>1. phase[Root] \in {"birth", "start", "zombie"} /\ Root \in process_table /\ process_table' = process_table
      BY <1>4 DEF MainResume, ProgramsOK, MainOnly, IInv, ControlOK, EntryKept, tableVars
    <3>. QED BY <2>1, <3>1, ResumeAlone, TasksAssumption
  <2>2. ASSUME UNCHANGED kernelVars PROVE NoVdsoTime' /\ \A t \in Tid : t \in process_table' \/ Unborn(t)'
    BY <1>4, <2>2 DEF MainResume, kernelVars, tableVars, NoVdsoTime, Unborn
  <2>. QED BY <1>4, <2>1, <2>2 DEF MainResume, Goto, locals
<1>5. CASE LoopEnd \/ LoopNoChild
  BY <1>5 DEF LoopEnd, LoopNoChild, Goto, kernelVars, tableVars, locals, NoVdsoTime, Unborn
<1>6. CASE RemoveVdso
  BY <1>1, <1>6 DEF RemoveVdso, VdsoDone, Goto, tableVars, locals, NoVdsoTime, Unborn, KernelTypeOK
<1>7. CASE ScanStack \/ VdsoGone
  BY <1>7 DEF ScanStack, VdsoGone, NoSuchProcess, Stopped, Stops, VdsoDone, Goto, kernelVars, tableVars, locals, NoVdsoTime, Unborn
<1>8. CASE ProcResume
  <2>1. ASSUME Resume(cur) PROVE NoVdsoTime' /\ \A t \in Tid : t \in process_table' \/ Unborn(t)'
    <3>1. cur \in Tid /\ process_table \subseteq process_table' /\ Stopped(cur)
      BY <1>1, <1>8, <2>1, InsertEffect DEF ProcResume, tableVars, Resume
    <3>2. cur \in process_table'
      BY <1>1, <1>8, <2>1, <3>1, InsertEffect
         DEF ProcResume, tableVars, IInv, ControlOK, EarlyOK, Unborn, Stopped, Stops
    <3>3. phase[cur] = "exec" => image[cur] # "fresh"
      BY <1>8 DEF ProcResume, Unborn
    <3>. QED BY <2>1, <3>1, <3>2, <3>3, ResumeAlone
  <2>2. ASSUME UNCHANGED kernelVars PROVE NoVdsoTime' /\ \A t \in Tid : t \in process_table' \/ Unborn(t)'
    BY <1>1, <1>8, <2>2, InsertEffect DEF ProcResume, kernelVars, tableVars, NoVdsoTime, Unborn
  <2>. QED BY <1>8, <2>1, <2>2 DEF ProcResume, BackToLoop
<1>9. CASE GetEventMsg
  BY <1>1, <1>9, InsertEffect DEF GetEventMsg, kernelVars, NoVdsoTime, Unborn
<1>10. CASE EventMsgGone
  BY <1>10 DEF EventMsgGone, Goto, kernelVars, tableVars, locals, NoVdsoTime, Unborn
<1>11. CASE WaitNew
  BY <1>1, <1>11, ReportStopEffect, ReportExitEffect
     DEF WaitNew, ReportStop, ReportExit, Goto, kernelVars, locals, tableVars, NoVdsoTime, Unborn
<1>12. CASE ResumeNew
  <2>1. ASSUME Resume(new) PROVE NoVdsoTime' /\ \A t \in Tid : t \in process_table' \/ Unborn(t)'
    <3>1. new \in Tid /\ process_table' = process_table /\ new \in process_table
      BY <1>1, <1>12 DEF ResumeNew, tableVars, IInv, ControlOK, EntryKept
    <3>2. phase[new] # "exec"
      BY <1>12 DEF ResumeNew, Unborn
    <3>. QED BY <2>1, <3>1, <3>2, ResumeAlone
  <2>2. ASSUME UNCHANGED kernelVars PROVE NoVdsoTime' /\ \A t \in Tid : t \in process_table' \/ Unborn(t)'
    BY <1>12, <2>2 DEF ResumeNew, kernelVars, tableVars, NoVdsoTime, Unborn
  <2>3. cur' = cur /\ phase'[cur] = phase[cur] /\ pc' = "hook" /\ pc = "resume_new"
    BY <1>1, <1>12, ResumeEffect DEF ResumeNew, Goto, locals, kernelVars
  <2>. QED BY <1>12, <2>1, <2>2, <2>3 DEF ResumeNew
<1>13. CASE HookUnknown
  BY <1>1, <1>13 DEF HookUnknown, Goto, kernelVars, tableVars, locals, NoVdsoTime, Unborn
<1>14. CASE HookRead \/ ReadPath
  BY <1>14 DEF HookRead, ReadPath, kernelVars, tableVars, NoVdsoTime, Unborn
<1>15. CASE HookGone
  BY <1>1, <1>15, DeleteEffect DEF HookGone, NoSuchProcess, Stopped, Goto, kernelVars, locals, WaitPcs, NoVdsoTime, Unborn
<1>16. CASE HookFreed \/ Poke \/ PokeFails \/ ReadPathFails \/ ReadPathGone
  BY <1>16 DEF HookFreed, Poke, Tick, PokeFails, ReadPathFails, ReadPathGone, Goto, kernelVars, tableVars, locals, NoVdsoTime, Unborn
<1>17. CASE Cancel \/ SetReturn
  <2>1. /\ UNCHANGED <<phase, process_table, cur, new>>
        /\ pc' \in {"poke", "cancel_resume", "resume"} /\ pc \in {"cancel", "set_return"}
        /\ image' = image \/ image' = [image EXCEPT ![cur] = "broken"]
    BY <1>17 DEF Cancel, SetReturn, SetRegs, Goto, kernelVars, tableVars, locals
  <2>2. \A u \in Tid : image'[u] = "fresh" => image[u] = "fresh"
    BY <1>1, <2>1 DEF KernelTypeOK
  <2>. QED BY <2>1, <2>2 DEF NoVdsoTime, Unborn
<1>18. ASSUME CancelResume \/ ContResume, NoSuchProcess(cur), UNCHANGED kernelVars
       PROVE  NotTakenOver' /\ NoVdsoTime'
  BY <1>18 DEF CancelResume, ContResume, Goto, kernelVars, tableVars, locals, NoVdsoTime, Unborn
<1>19. ASSUME CancelResume \/ ContResume, Resume(cur)
       PROVE  NotTakenOver' /\ NoVdsoTime'
  <2>1. cur \in Tid /\ cur \in process_table /\ process_table' = process_table /\ phase[cur] # "exec"
    BY <1>1, <1>19 DEF CancelResume, ContResume, IInv, ControlOK, EntryKept, tableVars
  <2>2. NoVdsoTime' /\ \A t \in Tid : t \in process_table' \/ Unborn(t)'
    BY <1>19, <2>1, ResumeAlone
  <2>3. phase'[cur] # "exec" /\ Stopped(cur)
    BY <1>1, <1>19, <2>1, ResumeEffect DEF Resume
  <2>4. pc' \in WaitPcs /\ cur' = cur
    BY <1>19, <2>3 DEF CancelResume, ContResume, NoSuchProcess, Goto, locals, WaitPcs
  <2>. QED BY <2>2, <2>3, <2>4 DEF WaitPcs
<1>20. CASE CancelWait \/ ContWait
  BY <1>1, <1>20, ReportStopEffect, ReportExitEffect
     DEF CancelWait, ContWait, AwaitStop, ReportStop, ReportExit, Goto, kernelVars, tableVars, locals, NoVdsoTime, Unborn
<1>21. CASE LoopResume
  <2>1. ASSUME Resume(cur), tableVars' = tableVars
        PROVE  NoVdsoTime' /\ \A t \in Tid : t \in process_table' \/ Unborn(t)'
    <3>1. cur \in Tid /\ process_table' = process_table /\ phase[cur] # "exec" /\ phase[cur] # "zombie"
      BY <1>1, <1>21, <2>1 DEF LoopResume, tableVars, Resume, Stopped, Stops
    <3>2. cur \in process_table
      BY <1>21, <3>1 DEF LoopResume, IInv, ControlOK, EntryKept
    <3>. QED BY <2>1, <3>1, <3>2, ResumeAlone
  <2>2. ASSUME delete_process(cur), ~Stopped(cur), UNCHANGED kernelVars
        PROVE  NoVdsoTime' /\ \A t \in Tid : t \in process_table' \/ Unborn(t)'
    BY <1>1, <1>21, <2>2, DeleteEffect DEF LoopResume, kernelVars, NoVdsoTime, Unborn, Stopped, WaitPcs
  <2>. QED BY <1>21, <2>1, <2>2 DEF LoopResume, NoSuchProcess, BackToLoop
<1>22. ASSUME NEW t \in Tid, LoopExit(t)
       PROVE  NotTakenOver' /\ NoVdsoTime'
  <2>1. /\ process_table' = process_table \ {t} /\ UNCHANGED <<pc, cur, new>>
        /\ pc = "loop"
    BY <1>1, <1>22, DeleteEffect DEF LoopExit, locals
  <2>2. /\ phase[t] = "zombie" /\ phase'[t] = "free" /\ nr' = nr
        /\ \A u \in Tid \ {t} : phase'[u] = phase[u]
    BY <1>1, <1>22, ReportExitEffect DEF LoopExit
  <2>3. image'[t] = "clean" \/ image'[t] = image[t]
    BY <1>22 DEF LoopExit, ReportExit
  <2>4. \A u \in Tid \ {t} : image'[u] = image[u]
    BY <1>22 DEF LoopExit, ReportExit
  <2>. QED BY <2>1, <2>2, <2>3, <2>4 DEF NoVdsoTime, Unborn
<1>23. ASSUME NEW t \in Tid, LoopStop(t)
       PROVE  NotTakenOver' /\ NoVdsoTime'
  BY <1>1, <1>23 DEF LoopStop, ReportStop, tableVars, NoVdsoTime, Unborn
<1>. QED
  BY <1>2, <1>3, <1>4, <1>5, <1>6, <1>7, <1>8, <1>9, <1>10, <1>11, <1>12, <1>13, <1>14, <1>15, <1>16,
     <1>17, <1>18, <1>19, <1>20, <1>21, <1>22, <1>23 DEF TracerStep, CancelResume, ContResume

(* An id without a task or without an entry has no clock running.          *)
LEMMA ClocksTracer ==
  ASSUME IInv, ClocksOK, TracerStep
  PROVE  ClocksOK'
<1>. USE DEF ClocksOK, find_process, Ended, InitPcs, ForkPcs, SyscallPcs, CancelPcs, PathPcs, BusyPcs
<1>1. /\ pc \in BusyPcs => cur \in Tid
      /\ pc \in {"wait_new", "resume_new"} => new \in Tid
      /\ pc \in BusyPcs \ WaitPcs => phase[cur] \in Stops \cup {"zombie"}
      /\ pc = "poke" => cur \in process_table
      /\ KernelTypeOK /\ TableTypeOK
      /\ pc = "event_msg" /\ Stopped(cur) => msg[cur] \in Tid
  BY DEF IInv, TypeOK, ControlOK, LocalsOK, Held, EntryKept, EventsOK, Stopped, Stops
<1>2. CASE MainWait
  BY <1>1, <1>2, TasksAssumption, ReportExitEffect DEF MainWait, ReportStop, Goto, tableVars, locals
<1>3. CASE MainOptions
  BY <1>1, <1>3, TasksAssumption DEF MainOptions, insert_process, Goto, kernelVars, tableVars, TableTypeOK
<1>4. ASSUME MainResume \/ ResumeNew \/ CancelResume \/ ContResume
      PROVE  ClocksOK'
  <2>1. /\ UNCHANGED tableVars /\ pc' # "wait_new" /\ pc \notin Ended
        /\ \/ UNCHANGED kernelVars
           \/ \E c \in Tid : Resume(c)
    BY <1>1, <1>4, TasksAssumption DEF MainResume, ResumeNew, CancelResume, ContResume, Goto
  <2>2. \A t \in Tid : phase'[t] = "free" => phase[t] = "free"
    BY <1>1, <2>1, ResumeEffect DEF kernelVars
  <2>. QED BY <2>1, <2>2 DEF tableVars
<1>5. CASE LoopEnd \/ LoopNoChild
  BY <1>5 DEF LoopEnd, LoopNoChild, Goto
<1>6. CASE RemoveVdso \/ ScanStack \/ VdsoGone \/ EventMsgGone \/ HookUnknown \/ HookFreed \/ PokeFails
        \/ ReadPathFails \/ ReadPathGone
  BY <1>6 DEF RemoveVdso, ScanStack, VdsoGone, VdsoDone, EventMsgGone, HookUnknown, HookFreed, PokeFails,
              ReadPathFails, ReadPathGone, Goto, kernelVars, tableVars
<1>7. CASE ProcResume
  <2>1. \A t \in Tid : phase'[t] = "free" => phase[t] = "free"
    BY <1>1, <1>7, ResumeEffect DEF ProcResume, kernelVars
  <2>2. /\ cur \in Tid /\ pc \notin Ended /\ pc' = "loop"
        /\ insert_process(cur) \/ UNCHANGED tableVars
    BY <1>1, <1>7 DEF ProcResume, BackToLoop
  <2>. QED BY <1>1, <2>1, <2>2 DEF insert_process, tableVars, TableTypeOK
<1>8. CASE GetEventMsg
  <2>1. /\ msg[cur] \in Tid /\ UNCHANGED phase /\ pc \notin Ended
        /\ insert_process(msg[cur]) /\ new' = msg[cur]
        /\ pc' = "wait_new" => ~find_process(msg[cur])
    BY <1>1, <1>8 DEF GetEventMsg, kernelVars
  <2>. QED BY <1>1, <2>1 DEF insert_process, tableVars, TableTypeOK
<1>9. CASE WaitNew
  <2>1. \A t \in Tid : phase'[t] = "free" => phase[t] = "free" \/ t = new
    BY <1>1, <1>9, ReportExitEffect DEF WaitNew, ReportStop, kernelVars
  <2>2. pc = "wait_new" /\ pc' # "wait_new" /\ UNCHANGED <<process_table, clock>>
    BY <1>9 DEF WaitNew, Goto, tableVars
  <2>. QED BY <2>1, <2>2
<1>10. CASE HookRead \/ ReadPath
  BY <1>10 DEF HookRead, ReadPath, kernelVars, tableVars
<1>11. CASE HookGone
  BY <1>1, <1>11 DEF HookGone, delete_process, Goto, kernelVars, tableVars, TableTypeOK
<1>12. CASE Cancel \/ SetReturn
  BY <1>12 DEF Cancel, SetReturn, SetRegs, Goto, kernelVars, tableVars
<1>13. CASE CancelWait \/ ContWait
  BY <1>13 DEF CancelWait, ContWait, AwaitStop, ReportStop, Goto, tableVars
<1>14. CASE Poke
  <2>1. cur \in Tid /\ cur \in process_table /\ phase[cur] # "free"
    BY <1>1, <1>14 DEF Poke, WaitPcs, Stops
  <2>. QED BY <1>1, <1>14, <2>1 DEF Poke, Tick, Goto, kernelVars, tableVars, TableTypeOK
<1>15. CASE LoopResume
  <2>1. \A t \in Tid : phase'[t] = "free" => phase[t] = "free"
    BY <1>1, <1>15, ResumeEffect DEF LoopResume, kernelVars
  <2>2. /\ cur \in Tid /\ pc \notin Ended /\ pc' = "loop"
        /\ delete_process(cur) \/ UNCHANGED tableVars
    BY <1>1, <1>15 DEF LoopResume, BackToLoop
  <2>. QED BY <1>1, <2>1, <2>2 DEF delete_process, tableVars, TableTypeOK
<1>16. ASSUME NEW t \in Tid, LoopExit(t)
       PROVE  ClocksOK'
  <2>1. /\ \A u \in Tid \ {t} : phase'[u] = phase[u]
        /\ pc = "loop" /\ pc' = "loop"
        /\ delete_process(t)
    BY <1>1, <1>16, ReportExitEffect DEF LoopExit
  <2>. QED BY <1>1, <2>1 DEF delete_process, tableVars, TableTypeOK
<1>17. ASSUME NEW t \in Tid, LoopStop(t)
       PROVE  ClocksOK'
  BY <1>17 DEF LoopStop, ReportStop, tableVars
<1>. QED
  BY <1>2, <1>3, <1>4, <1>5, <1>6, <1>7, <1>8, <1>9, <1>10, <1>11, <1>12, <1>13, <1>14, <1>15, <1>16,
     <1>17 DEF TracerStep

LEMMA NotTakenOverStep ==
  ASSUME NoTakeover
  PROVE  /\ Init => NotTakenOver /\ NoVdsoTime /\ ClocksOK
         /\ IInv /\ ProgramsOK /\ NotTakenOver /\ NoVdsoTime /\ ClocksOK /\ [Next]_vars
              => NotTakenOver' /\ NoVdsoTime' /\ ClocksOK'
<1>1. ASSUME Init PROVE NotTakenOver /\ NoVdsoTime /\ ClocksOK
  BY <1>1, TasksAssumption
     DEF Init, KernelInit, TableInit, NotTakenOver, ProgramKept, NoVdsoTime, ClocksOK, Unborn, InitPcs, ForkPcs, SyscallPcs, CancelPcs, PathPcs
<1>2. ASSUME IInv, ProgramsOK, NotTakenOver, NoVdsoTime, ClocksOK, [Next]_vars
      PROVE  NotTakenOver' /\ NoVdsoTime' /\ ClocksOK'
  <2>. USE <1>2
  <2>1. CASE TracerStep
    BY <2>1, NotTakenOverTracer, ClocksTracer
  <2>2. CASE ChildGivesUp
    BY <2>2, TasksAssumption
       DEF ChildGivesUp, Die, tableVars, locals, NotTakenOver, ProgramKept, NoVdsoTime, ClocksOK, Unborn, find_process, Ended,
           InitPcs, ForkPcs, SyscallPcs, CancelPcs, PathPcs
  <2>3. ASSUME NEW t \in Tid, Kernel(t) PROVE NotTakenOver' /\ NoVdsoTime' /\ ClocksOK'
    BY <2>3, NotTakenOverKernel
  <2>4. CASE ExitKill
    BY <2>4
       DEF ExitKill, tableVars, locals, NotTakenOver, ProgramKept, NoVdsoTime, ClocksOK, Unborn, find_process, Ended,
           InitPcs, ForkPcs, SyscallPcs, CancelPcs, PathPcs
  <2>5. CASE UNCHANGED vars
    BY <2>5
       DEF vars, kernelVars, tableVars, locals, NotTakenOver, ProgramKept, NoVdsoTime, ClocksOK, Unborn, find_process
  <2>. QED BY <2>1, <2>2, <2>3, <2>4, <2>5 DEF Next, Terminated
<1>. QED BY <1>1, <1>2

(* Unless an execve takes the place of another thread, no program runs     *)
(* before proc_init has taken the vDSO from it.                            *)
THEOREM VdsoNeverUsed == ASSUME NoTakeover PROVE Spec => []NoVdsoTime
BY Invariance, ProgramsInit, ProgramsStep, NotTakenOverStep, PTL DEF Spec

-----------------------------------------------------------------------------
LEMMA CallStopsKernel ==
  ASSUME IInv, ProgramsOK, NotTakenOver, NoTakeover, PathsKept, CallStopsOK, NEW t \in Tid, Kernel(t)
  PROVE  CallStopsOK'
<1>1. KernelStep(t) /\ UNCHANGED <<pc, cur, regs>>
  BY DEF Kernel, locals
<1>2. /\ pc \in BusyPcs => cur \in Tid
      /\ pc \in BusyPcs \ WaitPcs => phase[cur] \in Stops \cup {"zombie"}
      /\ CallsOK
      /\ pc \in WaitPcs /\ phase[cur] = "kernel" => nr[cur] \in {"none", "urandom"}
  BY DEF IInv, ControlOK, LocalsOK, Held, ProgramsOK, NestedOK, WaitPcs
<1>3. \A u \in Tid : ~Rewritten(u)
  BY DEF Rewritten, PathsKept
<1>4. \A u \in Tid : nr[u] = "urandom" => "OTHER" \notin Signals /\ image[u] # "broken"
  BY <1>2 DEF CallsOK, UrandomPossible, PathsKept, NotTakenOver, ProgramKept
<1>5. ASSUME pc \in BusyPcs
      PROVE  /\ phase[cur] \in Stops \cup {"zombie"} =>
                  phase'[cur] \in {phase[cur], "zombie"} /\ nr'[cur] \in {nr[cur], "none"}
             /\ pc \in WaitPcs /\ phase[cur] = "kernel" => phase'[cur] \in {"kernel", "exit", "zombie"}
  BY <1>1, <1>2, <1>3, <1>5, AloneMoves
     DEF StaysPut, RunsOn, Spawns, Begins, Dies, Execs, Stops
<1>6. ASSUME NEW u \in Tid, nr'[u] = "urandom"
      PROVE  \/ phase'[u] \in {"entry", "user", "free"}
             \/ cur = u /\ pc = "cont_wait"
             \/ cur = u /\ pc \in {"set_return", "resume"} /\ phase'[u] = "exit"
  BY <1>1, <1>3, <1>4, <1>6, AloneMoves
     DEF CallStopsOK, StaysPut, RunsOn, Spawns, Begins, Dies, Execs
<1>. QED BY <1>1, <1>2, <1>5, <1>6 DEF CallStopsOK, BusyPcs, WaitPcs, SyscallPcs, CancelPcs, PathPcs, Stops

LEMMA CallStopsTracer ==
  ASSUME IInv, ProgramsOK, NotTakenOver, PathsKept, CallStopsOK, TracerStep
  PROVE  CallStopsOK'
<1>. USE DEF CallStopsOK, InitPcs, ForkPcs, SyscallPcs, CancelPcs, PathPcs, BusyPcs, WaitPcs, MainPcs, Ended
<1>1. /\ pc \in BusyPcs => cur \in Tid
      /\ pc \in BusyPcs \ WaitPcs => phase[cur] \in Stops \cup {"zombie"}
      /\ pc \in MainPcs \cup {"loop"} => cur = NoTid
      /\ pc \in {"wait_new", "resume_new"} => new \in Tid /\ new # cur
      /\ KernelTypeOK
      /\ \A t \in Tid : nr[t] \in Hooked => phase[t] \in {"entry", "free"}
  BY DEF IInv, TypeOK, ControlOK, LocalsOK, Held, HookedAtEntry
<1>2. ASSUME NEW c \in Tid, Resume(c), nr[c] = "urandom" => phase[c] # "entry",
             c = cur \/ pc \notin {"cont_wait", "set_return", "resume"}
      PROVE  \A t \in Tid : nr'[t] = "urandom" => phase'[t] \in {"entry", "user", "free"}
  <2>1. /\ nr' = nr
        /\ \A u \in Tid \ {c} : phase'[u] = phase[u]
        /\ phase'[c] = NextPhase[phase[c]]
        /\ Stopped(c)
    BY <1>1, <1>2, ResumeEffect DEF Resume, KernelTypeOK
  <2>2. nr[c] = "urandom" => phase[c] = "exit"
    BY <1>2, <2>1 DEF Stopped, Stops
  <2>3. nr[c] = "urandom" => phase'[c] = "user"
    BY <2>1, <2>2, NextPhaseFacts
  <2>. QED BY <1>2, <2>1, <2>3
<1>3. CASE MainWait
  BY <1>1, <1>3, TasksAssumption DEF MainWait, ReportStop, ReportExit, Goto, locals, KernelTypeOK
<1>4. CASE MainOptions \/ LoopEnd \/ LoopNoChild
  BY <1>1, <1>4, TasksAssumption DEF MainOptions, LoopEnd, LoopNoChild, Goto, kernelVars, locals
<1>5. CASE MainResume
  <2>1. phase[Root] # "entry" /\ pc = "main_resume"
    BY <1>5 DEF MainResume, ProgramsOK, MainOnly
  <2>. QED BY <1>2, <1>5, <2>1, TasksAssumption DEF MainResume, Goto, kernelVars, locals
<1>6. CASE RemoveVdso \/ ScanStack \/ VdsoGone \/ EventMsgGone \/ HookUnknown
  BY <1>6 DEF RemoveVdso, ScanStack, VdsoGone, VdsoDone, EventMsgGone, HookUnknown, Goto, kernelVars, locals
<1>7. CASE ProcResume
  <2>1. cur \in Tid /\ phase[cur] # "entry" /\ pc \in {"init", "init_new"}
    BY <1>1, <1>7 DEF ProcResume, NotTakenOver, Unborn, IInv, ControlOK, EarlyOK
  <2>. QED BY <1>2, <1>7, <2>1 DEF ProcResume, BackToLoop, kernelVars
<1>8. CASE GetEventMsg
  BY <1>8 DEF GetEventMsg, kernelVars
<1>9. CASE WaitNew
  BY <1>1, <1>9 DEF WaitNew, ReportStop, ReportExit, Goto, kernelVars, locals, KernelTypeOK
<1>10. CASE ResumeNew
  <2>1. new \in Tid /\ phase[new] # "entry" /\ pc = "resume_new"
    BY <1>1, <1>10 DEF ResumeNew, NotTakenOver, Unborn
  <2>. QED BY <1>2, <1>10, <2>1 DEF ResumeNew, Goto, kernelVars, locals
<1>11. CASE HookRead
  BY <1>1, <1>11 DEF HookRead, kernelVars, Stopped, Stops, Hooked
<1>12. CASE HookGone \/ HookFreed
  BY <1>12 DEF HookGone, HookFreed, NoSuchProcess, Stopped, Stops, Goto, kernelVars, locals
<1>13. CASE Cancel
  BY <1>1, <1>13 DEF Cancel, SetRegs, Goto, kernelVars, locals, KernelTypeOK, NoSuchProcess, Stopped, Stops
<1>14. CASE CancelResume
  <2>1. cur \in Tid /\ pc = "cancel_resume" /\ (nr[cur] = "urandom" => phase[cur] # "entry")
    BY <1>1, <1>14 DEF CancelResume, ProgramsOK, NestedOK
  <2>2. CASE Resume(cur)
    BY <1>1, <1>2, <1>14, <2>1, <2>2, ResumeEffect
       DEF CancelResume, NoSuchProcess, Goto, locals, Resume, Stopped, Stops, NextPhase, KernelTypeOK
  <2>3. CASE NoSuchProcess(cur) /\ UNCHANGED kernelVars
    BY <1>1, <1>14, <2>1, <2>3 DEF CancelResume, NoSuchProcess, Goto, kernelVars, locals, Stopped
  <2>. QED BY <1>14, <2>2, <2>3 DEF CancelResume
<1>15. CASE ContResume
  <2>1. cur \in Tid /\ pc = "cont_resume" /\ cur' = cur /\ regs' = regs
    BY <1>1, <1>15 DEF ContResume, Goto, locals
  <2>2. CASE Resume(cur)
    <3>1. pc' = "cont_wait" /\ nr' = nr /\ phase[cur] = "entry"
      BY <1>15, <2>1, <2>2 DEF ContResume, NoSuchProcess, Goto, Resume, Stopped, Stops
    <3>2. phase' = [phase EXCEPT ![cur] = "kernel"]
      BY <2>2, <3>1 DEF Resume, NextPhase
    <3>. QED BY <1>1, <2>1, <3>1, <3>2 DEF KernelTypeOK
  <2>3. CASE NoSuchProcess(cur) /\ UNCHANGED kernelVars
    BY <1>1, <1>15, <2>1, <2>3 DEF ContResume, NoSuchProcess, Goto, kernelVars, locals, Stopped
  <2>. QED BY <1>15, <2>2, <2>3 DEF ContResume
<1>16. CASE CancelWait \/ ContWait
  BY <1>1, <1>16 DEF CancelWait, ContWait, AwaitStop, ReportStop, ReportExit, Reapable, Stopped, Stops, Goto,
                     kernelVars, locals, KernelTypeOK
<1>17. CASE Poke \/ PokeFails
  BY <1>17 DEF Poke, PokeFails, Goto, kernelVars, locals
<1>18. CASE SetReturn
  BY <1>1, <1>18 DEF SetReturn, SetRegs, Goto, kernelVars, locals, KernelTypeOK, ProgramsOK, NestedOK,
                     NoSuchProcess, Stopped, Stops
<1>19. CASE ReadPath
  BY <1>1, <1>19 DEF ReadPath, kernelVars, Stopped, Stops
<1>20. CASE ReadPathFails \/ ReadPathGone
  BY <1>20 DEF ReadPathFails, ReadPathGone, Goto, kernelVars, locals
<1>21. CASE LoopResume
  <2>1. cur \in Tid /\ (nr[cur] = "urandom" => phase[cur] # "entry") /\ pc = "resume"
    BY <1>1, <1>21 DEF LoopResume
  <2>2. CASE Resume(cur)
    BY <1>2, <1>21, <2>1, <2>2 DEF LoopResume, BackToLoop
  <2>3. CASE NoSuchProcess(cur) /\ UNCHANGED kernelVars
    BY <1>1, <1>21, <2>1, <2>3 DEF LoopResume, BackToLoop, NoSuchProcess, kernelVars, Stopped, Stops
  <2>. QED BY <1>21, <2>2, <2>3 DEF LoopResume
<1>22. ASSUME NEW t \in Tid, LoopExit(t) \/ LoopStop(t)
       PROVE  CallStopsOK'
  BY <1>1, <1>22, TasksAssumption DEF LoopExit, LoopStop, ReportExit, ReportStop, locals, KernelTypeOK
<1>. QED
  BY <1>3, <1>4, <1>5, <1>6, <1>7, <1>8, <1>9, <1>10, <1>11, <1>12, <1>13, <1>14, <1>15, <1>16,
     <1>17, <1>18, <1>19, <1>20, <1>21, <1>22 DEF TracerStep

LEMMA CallStopsStep ==
  ASSUME NoTakeover, PathsKept
  PROVE  /\ Init => CallStopsOK
         /\ IInv /\ ProgramsOK /\ NotTakenOver /\ CallStopsOK /\ [Next]_vars => CallStopsOK'
<1>1. ASSUME Init PROVE CallStopsOK
  BY <1>1 DEF Init, KernelInit, CallStopsOK, WaitPcs, CancelPcs
<1>2. ASSUME IInv, ProgramsOK, NotTakenOver, CallStopsOK, [Next]_vars
      PROVE  CallStopsOK'
  <2>. USE <1>2
  <2>1. CASE TracerStep
    BY <2>1, CallStopsTracer
  <2>2. CASE ChildGivesUp
    BY <2>2, TasksAssumption
       DEF ChildGivesUp, Die, locals, IInv, TypeOK, KernelTypeOK, CallStopsOK, WaitPcs, CancelPcs
  <2>3. ASSUME NEW t \in Tid, Kernel(t) PROVE CallStopsOK'
    BY <2>3, CallStopsKernel
  <2>4. CASE ExitKill
    BY <2>4 DEF ExitKill, locals, CallStopsOK, WaitPcs, CancelPcs, Ended
  <2>5. CASE UNCHANGED vars
    BY <2>5 DEF vars, kernelVars, locals, CallStopsOK
  <2>. QED BY <2>1, <2>2, <2>3, <2>4, <2>5 DEF Next, Terminated
<1>. QED BY <1>1, <1>2

(* Unless a path or a program is replaced under the tracer's eyes, it puts *)
(* the answer of a call in at the end of that call.                        *)
THEOREM AnswersAtExit == ASSUME NoTakeover, PathsKept PROVE Spec => []ReturnAtExit
<1>1. CallStopsOK => ReturnAtExit
  BY DEF CallStopsOK, ReturnAtExit, Stopped, Stops
<1>. QED BY <1>1, Invariance, ProgramsInit, ProgramsStep, NotTakenOverStep, CallStopsStep, PTL DEF Spec

-----------------------------------------------------------------------------
LEMMA QuietTakeover == NothingKilled => NoTakeover
BY DEF NothingKilled, NoTakeover

(* A task dies in the call by which it ends.                               *)
LEMMA DiesOfItself ==
  ASSUME IInv, ProgramsOK, NothingKilled, NEW t \in Tid, KernelStep(t), NEW u \in Tid,
         phase'[u] = "zombie", phase[u] # "zombie"
  PROVE  phase[u] = "kernel" /\ nr[u] \in ExitCalls
<1>. USE DEF IInv, TypeOK, KernelTypeOK
<1>1. nr[t] \in {"execve", "exit_group"} /\ phase[t] = "kernel" => Group(t) \subseteq {t}
  <2>1. CASE "thread" \notin Calls
    BY <2>1 DEF ProgramsOK, CallsOK, Group
  <2>2. CASE Calls \cap {"execve", "exit_group"} = {}
    BY <2>2 DEF ProgramsOK, CallsOK, TracerAlone
  <2>. QED BY <2>1, <2>2 DEF NothingKilled
<1>2. CASE Start(t) \/ Return(t) \/ ForkEvent(t) \/ Leave(t) \/ Signal(t) \/ Fault(t)
  BY <1>2 DEF Start, Return, ForkEvent, Leave, Signal, Fault, Move
<1>3. CASE Spawn(t) \/ ExecEnd(t) \/ Enter(t) \/ RewritePath(t)
  BY <1>3 DEF Spawn, ExecEnd, Enter, RewritePath
<1>4. CASE ExecBegin(t)
  BY <1>1, <1>4 DEF ExecBegin
<1>5. CASE ExitThread(t)
  BY <1>5 DEF ExitThread, Die, ExitCalls
<1>6. CASE ExitGroup(t)
  BY <1>1, <1>6 DEF ExitGroup, Die, ExitCalls
<1>7. ~Kill(t)
  BY DEF Kill, NothingKilled
<1>. QED BY <1>2, <1>3, <1>4, <1>5, <1>6, <1>7 DEF KernelStep, KernelProgress

LEMMA NotKilledKernel ==
  ASSUME IInv, ProgramsOK, NothingKilled, NotTakenOver, NotKilled, NEW t \in Tid, Kernel(t)
  PROVE  NotKilled'
<1>1. /\ KernelStep(t) /\ pc \notin Ended /\ UNCHANGED <<process_table, pc, cur>>
      /\ NoTakeover
  BY QuietTakeover DEF Kernel, tableVars, locals
<1>2. /\ pc \in BusyPcs => cur \in Tid
      /\ pc \in WaitPcs => phase[cur] \in Stops \cup {"user", "kernel", "leaving", "zombie"}
      /\ pc \in WaitPcs /\ phase[cur] = "kernel" => nr[cur] \in {"none", "urandom"}
      /\ pc = "loop" => cur = NoTid
  BY DEF IInv, ControlOK, LocalsOK, ProgramsOK, NestedOK, WaitPcs
<1>3. \A u \in Tid : Stopped(u) => Stopped(u)'
  BY <1>1, AloneMoves, DiesOfItself DEF Stopped, StaysPut, RunsOn, Rewritten, Spawns, Begins, Dies, Execs, Stops
<1>4. pc \in WaitPcs => phase'[cur] # "zombie"
  BY <1>1, <1>2, DiesOfItself DEF NotKilled, ExitCalls, BusyPcs, WaitPcs, SyscallPcs, CancelPcs, PathPcs
<1>5. ASSUME pc \notin MainPcs, NEW u \in Tid, Live(u)'
      PROVE  find_process(u)' \/ Announced(u)'
  <2>1. \A p \in Tid : phase[p] \in {"spawned", "fork"} => phase'[p] \in {"spawned", "fork"} /\ msg'[p] = msg[p]
    BY <1>1, AloneMoves, DiesOfItself DEF StaysPut, RunsOn, Rewritten, Spawns, Begins, Dies, Execs, Stops
  <2>2. CASE Live(u)
    BY <1>1, <1>5, <2>1, <2>2 DEF NotKilled, Announced, find_process
  <2>3. CASE ~Live(u)
    <3>1. Begins(u)
      BY <1>1, <1>5, <2>3, AloneMoves DEF Live, StaysPut, RunsOn, Rewritten, Spawns, Begins, Dies, Execs
    <3>2. PICK p \in Tid \ {u} : Spawns(p) /\ msg'[p] = u
      BY <3>1 DEF Begins
    <3>3. p # cur
      <4>1. phase[p] = "kernel" /\ nr[p] \notin {"none", "urandom"}
        BY <3>2 DEF Spawns
      <4>. QED BY <1>1, <1>2, <1>5, <4>1, TasksAssumption
               DEF NotKilled, Stopped, Stops, IInv, TypeOK, Pcs, MainPcs, BusyPcs, InitPcs, ForkPcs, SyscallPcs, CancelPcs, PathPcs
    <3>. QED BY <1>1, <3>2, <3>3 DEF Announced, Spawns
  <2>. QED BY <2>2, <2>3
<1>6. NoEarlyEnd'
  BY <1>1 DEF NoEarlyEnd, Ended
<1>. QED BY <1>1, <1>2, <1>3, <1>4, <1>5, <1>6, TasksAssumption DEF NotKilled, MainPcs

(* A task stays announced while its parent has not been heard.             *)
LEMMA AnnouncedKept ==
  ASSUME NotKilled, pc \notin MainPcs \cup Ended,
         process_table \subseteq process_table',
         \A u \in Tid : Live(u)' => Live(u),
         \A p \in Tid : phase[p] \in {"spawned", "fork"} /\ (p = cur => pc = "event_msg") =>
           /\ phase'[p] = phase[p] /\ msg'[p] = msg[p]
           /\ (p = cur' => pc' = "event_msg") \/ msg[p] \in process_table'
  PROVE  \A u \in Tid : Live(u)' => find_process(u)' \/ Announced(u)'
<1>. SUFFICES ASSUME NEW u \in Tid, Live(u)', u \notin process_table' PROVE Announced(u)'
  BY DEF find_process
<1>1. Announced(u)
  BY DEF NotKilled, find_process
<1>. QED BY <1>1 DEF Announced

LEMMA NotKilledTracer ==
  ASSUME IInv, ProgramsOK, NotTakenOver, NotKilled, TracerStep
  PROVE  NotKilled'
<1>. USE DEF MainPcs, InitPcs, ForkPcs, SyscallPcs, CancelPcs, PathPcs, BusyPcs, WaitPcs, Ended, NoEarlyEnd
<1>1. /\ pc \in BusyPcs => cur \in Tid
      /\ pc \in {"wait_new", "resume_new"} => new \in Tid /\ new # cur
      /\ pc = "loop" => cur = NoTid
      /\ KernelTypeOK /\ TableTypeOK /\ CountsEntries
      /\ pc = "event_msg" => msg[cur] \in Tid
      /\ pc \in BusyPcs \ WaitPcs => Stopped(cur)
      /\ pc \notin {"freed", "crashed"}
  <2>1. pc = "event_msg" => msg[cur] \in Tid
    BY DEF IInv, ControlOK, EventsOK, LocalsOK, NotKilled, Stopped, Stops
  <2>. QED BY <2>1 DEF IInv, TypeOK, ControlOK, LocalsOK, NotKilled
<1>2. ASSUME UNCHANGED kernelVars, process_table \subseteq process_table',
             pc \in BusyPcs \ {"event_msg"}, pc' \notin MainPcs, cur' \in {cur, NoTid}
      PROVE  \A u \in Tid : Live(u)' => find_process(u)' \/ Announced(u)'
  BY <1>2, AnnouncedKept, TasksAssumption DEF kernelVars, Live
<1>3. ASSUME NEW c \in Tid, Resume(c), process_table \subseteq process_table',
             pc \in BusyPcs \ {"event_msg"}, c = cur \/ phase[c] # "fork",
             pc' \notin MainPcs, cur' \in {cur, NoTid}
      PROVE  \A u \in Tid : Live(u)' => find_process(u)' \/ Announced(u)'
  <2>1. /\ \A u \in Tid \ {c} : phase'[u] = phase[u]
        /\ msg' = msg /\ Stopped(c)
    BY <1>1, <1>3, ResumeEffect DEF Resume
  <2>2. \A u \in Tid : Live(u)' => Live(u)
    BY <2>1 DEF Live, Stopped, Stops
  <2>. QED BY <1>3, <2>1, <2>2, AnnouncedKept, TasksAssumption DEF Stopped, Stops
<1>4. CASE MainWait
  <2>1. pc = "main_wait" /\ (\/ ReportStop(Root) /\ pc' = "main_options"
                             \/ ReportExit(Root) /\ pc' = "returned")
    BY <1>4 DEF MainWait, Goto
  <2>2. \A u \in Tid \ {Root} : phase[u] = "free"
    BY <2>1 DEF ProgramsOK, MainOnly
  <2>. QED BY <1>1, <2>1, <2>2, TasksAssumption, ReportExitEffect DEF NotKilled, ReportStop, Stopped, Live
<1>5. CASE MainOptions \/ MainResume
  <2>1. /\ pc \in {"main_options", "main_resume"} /\ Stopped(Root)
        /\ \A u \in Tid \ {Root} : phase[u] = "free"
    BY <1>5 DEF MainOptions, MainResume, ProgramsOK, MainOnly, NotKilled
  <2>2. CASE MainOptions
    BY <2>1, <2>2 DEF NotKilled, MainOptions, NoSuchProcess, Goto, kernelVars, Stopped
  <2>3. CASE MainResume
    <3>1. Root \in process_table'
      BY <2>3 DEF MainResume, tableVars, IInv, ControlOK, EntryKept, find_process
    <3>2. pc' = "loop" /\ \A u \in Tid \ {Root} : phase'[u] = phase[u]
      BY <1>1, <2>1, <2>3, TasksAssumption, ResumeEffect DEF MainResume, NoSuchProcess, Goto
    <3>. QED BY <2>1, <3>1, <3>2 DEF NotKilled, Live, find_process
  <2>. QED BY <1>5, <2>2, <2>3
<1>6. CASE LoopEnd
  <2>1. process_table = {}
    BY <1>1, <1>6, FS_Subset, FS_EmptySet, TasksAssumption
       DEF LoopEnd, is_hash_table_empty, CountsEntries, TableTypeOK
  <2>2. \A u \in Tid : ~Announced(u)
    BY <2>1 DEF Announced, NotTakenOver, Unborn, find_process
  <2>3. \A u \in Tid : ~Live(u)
    BY <1>6, <2>1, <2>2 DEF NotKilled, LoopEnd, find_process
  <2>. QED BY <1>6, <2>3 DEF NotKilled, LoopEnd, Goto, kernelVars, Live
<1>7. CASE LoopNoChild
  BY <1>7 DEF NotKilled, LoopNoChild, Goto, kernelVars, Live
<1>8. CASE RemoveVdso
  <2>1. /\ pc \in {"vdso", "vdso_new"} /\ pc' \in {"init", "init_new"} /\ cur' = cur
        /\ UNCHANGED <<process_table, phase, msg>>
    BY <1>8 DEF RemoveVdso, VdsoDone, Goto, locals, tableVars
  <2>2. \A u \in Tid : Live(u)' => find_process(u)' \/ Announced(u)'
    BY <2>1, AnnouncedKept DEF Live
  <2>. QED BY <1>1, <2>1, <2>2 DEF NotKilled, Stopped
<1>9. CASE ScanStack \/ VdsoGone \/ HookUnknown
  BY <1>1, <1>2, <1>9 DEF NotKilled, ScanStack, VdsoGone, VdsoDone, HookUnknown, NoSuchProcess, Goto, tableVars, locals, kernelVars, Stopped
<1>10. CASE ProcResume
  <2>1. /\ Resume(cur) /\ cur \in Tid /\ process_table \subseteq process_table'
        /\ pc \in BusyPcs \ {"event_msg"} /\ pc' = "loop" /\ cur' = NoTid
    BY <1>1, <1>10, InsertEffect DEF ProcResume, NoSuchProcess, BackToLoop, tableVars
  <2>. QED BY <1>3, <2>1 DEF NotKilled
<1>11. CASE GetEventMsg
  <2>1. /\ cur \in Tid /\ Stopped(cur) /\ UNCHANGED kernelVars /\ cur' = cur /\ pc = "event_msg"
        /\ pc' \in {"hook", "wait_new"}
        /\ process_table' = process_table \cup {msg[cur]}
    BY <1>1, <1>11, InsertEffect DEF GetEventMsg
  <2>2. \A u \in Tid : Live(u)' => find_process(u)' \/ Announced(u)'
    BY <2>1, AnnouncedKept DEF kernelVars, Live
  <2>. QED BY <2>1, <2>2 DEF NotKilled, kernelVars, Stopped
<1>12. CASE EventMsgGone \/ HookGone \/ HookFreed \/ ReadPathGone
  BY <1>1, <1>12 DEF EventMsgGone, HookGone, HookFreed, ReadPathGone, NoSuchProcess
<1>13. CASE WaitNew
  <2>1. /\ cur \in Tid /\ new \in Tid \ {cur} /\ Stopped(cur) /\ pc = "wait_new" /\ cur' = cur
        /\ process_table' = process_table
        /\ pc' \in {"resume_new", "failed"}
    BY <1>1, <1>13 DEF WaitNew, Goto, tableVars, locals
  <2>2. /\ \A u \in Tid \ {new} : phase'[u] = phase[u]
        /\ phase'[new] = phase[new] \/ (phase[new] = "zombie" /\ phase'[new] = "free")
        /\ msg' = msg
    <3>1. CASE ReportExit(new)
      BY <1>1, <2>1, <3>1, ReportExitEffect
    <3>2. CASE ReportStop(new) \/ UNCHANGED kernelVars
      BY <3>2 DEF ReportStop, kernelVars
    <3>. QED BY <1>13, <3>1, <3>2 DEF WaitNew
  <2>3. \A u \in Tid : Live(u)' => find_process(u)' \/ Announced(u)'
    BY <2>1, <2>2, AnnouncedKept DEF Live
  <2>. QED BY <2>1, <2>2, <2>3 DEF NotKilled, Stopped
<1>14. CASE ResumeNew
  <2>1. /\ cur \in Tid /\ new \in Tid \ {cur} /\ Stopped(cur) /\ pc = "resume_new" /\ cur' = cur
        /\ process_table' = process_table /\ pc' = "hook" /\ phase[new] # "fork"
        /\ UNCHANGED kernelVars \/ Resume(new)
    BY <1>1, <1>14 DEF ResumeNew, Goto, tableVars, locals, NotTakenOver, Unborn
  <2>2. \A u \in Tid : Live(u)' => find_process(u)' \/ Announced(u)'
    BY <1>2, <1>3, <2>1
  <2>3. Stopped(cur)'
    BY <1>1, <2>1, ResumeEffect DEF Stopped, kernelVars
  <2>. QED BY <2>1, <2>2, <2>3 DEF NotKilled
<1>15. CASE HookRead \/ Poke \/ PokeFails \/ ReadPath \/ ReadPathFails
  <2>1. /\ UNCHANGED <<kernelVars, process_table, cur>> /\ pc \in BusyPcs \ {"event_msg"}
        /\ pc' \in {"cancel", "read_path", "resume", "set_return", "cont_resume", "failed"}
    BY <1>15 DEF HookRead, Poke, Tick, PokeFails, ReadPath, ReadPathFails, Goto, tableVars, locals
  <2>. QED BY <1>1, <1>2, <1>15, <2>1 DEF NotKilled, kernelVars, Stopped, Poke, HookRead, PokeFails, ReadPath, ReadPathFails
<1>16. CASE Cancel \/ SetReturn
  <2>1. /\ UNCHANGED <<phase, msg, process_table, cur>> /\ pc \in BusyPcs \ (WaitPcs \cup {"event_msg"})
        /\ pc' \in {"cancel_resume", "resume"}
    BY <1>1, <1>16 DEF Cancel, SetReturn, SetRegs, NoSuchProcess, Goto, tableVars, locals
  <2>2. \A u \in Tid : Live(u)' => find_process(u)' \/ Announced(u)'
    BY <2>1, AnnouncedKept DEF Live
  <2>. QED BY <1>1, <2>1, <2>2 DEF NotKilled, Stopped
<1>17. CASE CancelResume \/ ContResume
  <2>1. /\ Resume(cur) /\ cur \in Tid /\ UNCHANGED <<process_table, cur>>
        /\ pc \in BusyPcs \ {"event_msg"} /\ pc' \in WaitPcs
    BY <1>1, <1>17 DEF CancelResume, ContResume, NoSuchProcess, Goto, tableVars, locals
  <2>2. phase'[cur] # "zombie"
    BY <1>1, <2>1, ResumeEffect
  <2>. QED BY <1>3, <2>1, <2>2 DEF NotKilled
<1>18. CASE CancelWait \/ ContWait
  <2>1. ReportStop(cur)
    <3>1. phase[cur] \notin {"free", "zombie"}
      BY <1>18 DEF CancelWait, ContWait, ProgramsOK, NestedOK, NotKilled, Stops
    <3>. QED BY <1>18, <3>1 DEF CancelWait, ContWait, AwaitStop, ReportExit, Reapable
  <2>2. /\ UNCHANGED <<phase, msg, process_table, cur>> /\ pc \in WaitPcs
        /\ pc' \in {"poke", "set_return"} /\ Stopped(cur)
    BY <1>18, <2>1 DEF CancelWait, ContWait, AwaitStop, ReportStop, ReportExit, Reapable, Stopped, Stops, Goto, tableVars, locals
  <2>3. \A u \in Tid : Live(u)' => find_process(u)' \/ Announced(u)'
    BY <2>2, AnnouncedKept DEF Live
  <2>. QED BY <2>2, <2>3 DEF NotKilled, Stopped
<1>19. CASE LoopResume
  <2>1. /\ Resume(cur) /\ cur \in Tid /\ process_table' = process_table
        /\ pc = "resume" /\ pc' = "loop" /\ cur' = NoTid
    BY <1>1, <1>19 DEF LoopResume, NoSuchProcess, BackToLoop, tableVars
  <2>. QED BY <1>3, <2>1 DEF NotKilled
<1>20. ASSUME NEW t \in Tid, LoopExit(t)
       PROVE  NotKilled'
  <2>1. /\ pc = "loop" /\ pc' = "loop" /\ cur' = NoTid /\ cur = NoTid
        /\ phase[t] = "zombie" /\ phase'[t] = "free"
        /\ \A u \in Tid \ {t} : phase'[u] = phase[u]
        /\ msg' = msg
        /\ process_table' = process_table \ {t}
    BY <1>1, <1>20, ReportExitEffect, DeleteEffect DEF LoopExit, locals
  <2>2. \A u \in Tid : Live(u)' => find_process(u)' \/ Announced(u)'
    <3>. SUFFICES ASSUME NEW u \in Tid, Live(u)', u \notin process_table' PROVE Announced(u)'
      BY DEF find_process
    <3>1. Announced(u)
      BY <2>1 DEF NotKilled, find_process, Live
    <3>. QED BY <2>1, <3>1, TasksAssumption DEF Announced
  <2>. QED BY <2>1, <2>2 DEF NotKilled
<1>21. ASSUME NEW t \in Tid, LoopStop(t)
       PROVE  NotKilled'
  <2>1. /\ pc = "loop" /\ cur' = t /\ cur = NoTid /\ Stopped(t)
        /\ UNCHANGED <<phase, msg, process_table>>
        /\ pc' \in {"vdso", "event_msg", "hook"} /\ (phase[t] = "fork" => pc' = "event_msg")
    BY <1>1, <1>21 DEF LoopStop, ReportStop, tableVars
  <2>2. \A u \in Tid : Live(u)' => find_process(u)' \/ Announced(u)'
    BY <2>1, AnnouncedKept DEF Live, Stopped, Stops
  <2>. QED BY <2>1, <2>2 DEF NotKilled, Stopped
<1>. QED
  BY <1>4, <1>5, <1>6, <1>7, <1>8, <1>9, <1>10, <1>11, <1>12, <1>13, <1>14, <1>15, <1>16,
     <1>17, <1>18, <1>19, <1>20, <1>21 DEF TracerStep

LEMMA NotKilledStep ==
  ASSUME NothingKilled
  PROVE  /\ Init => NotKilled
         /\ IInv /\ ProgramsOK /\ NotTakenOver /\ NotKilled /\ [Next]_vars => NotKilled'
<1>1. ASSUME Init PROVE NotKilled
  BY <1>1
     DEF Init, NotKilled, NoEarlyEnd, BusyPcs, WaitPcs, MainPcs, InitPcs, ForkPcs, SyscallPcs, CancelPcs, PathPcs
<1>2. ASSUME IInv, ProgramsOK, NotTakenOver, NotKilled, [Next]_vars
      PROVE  NotKilled'
  <2>. USE <1>2
  <2>1. CASE TracerStep
    BY <2>1, NotKilledTracer
  <2>2. CASE ChildGivesUp
    BY <2>2
       DEF ChildGivesUp, locals, NotKilled, NoEarlyEnd, BusyPcs, WaitPcs, MainPcs, InitPcs, ForkPcs, SyscallPcs, CancelPcs, PathPcs
  <2>3. ASSUME NEW t \in Tid, Kernel(t) PROVE NotKilled'
    BY <2>3, NotKilledKernel
  <2>4. CASE ExitKill
    BY <2>4
       DEF ExitKill, locals, NotKilled, NoEarlyEnd, Live, BusyPcs, WaitPcs, MainPcs, InitPcs, ForkPcs, SyscallPcs,
           CancelPcs, PathPcs, Ended
  <2>5. CASE UNCHANGED vars
    BY <2>5
       DEF vars, kernelVars, tableVars, locals, NotKilled, NoEarlyEnd, Live, Stopped, Announced, find_process
  <2>. QED BY <2>1, <2>2, <2>3, <2>4, <2>5 DEF Next, Terminated
<1>. QED BY <1>1, <1>2

(* Without a killing: the tracer is never at work on a task that has gone, *)
LEMMA Quiet == ASSUME NothingKilled PROVE Spec => [](IInv /\ ProgramsOK /\ NotTakenOver /\ NotKilled)
BY Invariance, ProgramsInit, ProgramsStep, QuietTakeover, NotTakenOverStep, NotKilledStep, PTL DEF Spec

(* ...so it uses neither a freed entry nor registers it has not read,      *)
THEOREM NeverCrashes == ASSUME NothingKilled PROVE Spec => []NoCrash
<1>1. NotKilled => NoCrash
  BY DEF NotKilled, NoCrash
<1>. QED BY <1>1, Quiet, PTL

(* ...has an entry for every child that it handles a system call of,       *)
THEOREM ChildrenHaveEntries == ASSUME NothingKilled PROVE Spec => []ChildHasEntry
<1>1. IInv /\ NotKilled => ChildHasEntry
  BY DEF IInv, ControlOK, EntryKept, NotKilled, ChildHasEntry
<1>. QED BY <1>1, Quiet, PTL

(* ...ends when the last program has ended, and not before,                *)
THEOREM EndsLast == ASSUME NothingKilled PROVE Spec => []NoEarlyEnd
<1>1. NotKilled => NoEarlyEnd
  BY DEF NotKilled
<1>. QED BY <1>1, Quiet, PTL

(* ...and, where all addresses are good, fails over an early child only.   *)
THEOREM FailsOverChildrenOnly == ASSUME NothingKilled, AddressesGood PROVE Spec => FailsOnEarlyChild
<1>1. ASSUME IInv, ProgramsOK, NotTakenOver, NotKilled, Next, pc # "failed", pc' = "failed"
      PROVE  pc \in {"vdso_new", "wait_new"}
  <2>. USE <1>1 DEF InitPcs, ForkPcs, SyscallPcs, CancelPcs, PathPcs, BusyPcs, WaitPcs
  <2>1. CASE MainOptions \/ MainResume
    BY <2>1 DEF MainOptions, MainResume, NoSuchProcess, Goto, NotKilled
  <2>2. CASE ScanStack
    BY <2>2 DEF ScanStack, Stopped, Stops, IInv, ControlOK, EarlyOK
  <2>3. CASE WaitNew
    BY <2>3 DEF WaitNew
  <2>4. CASE CancelWait \/ ContWait
    <3>1. phase[cur] \notin {"free", "zombie"}
      BY <2>4 DEF CancelWait, ContWait, ProgramsOK, NestedOK, NotKilled, Stops
    <3>. QED BY <2>4, <3>1 DEF CancelWait, ContWait, AwaitStop, ReportExit, Reapable, Goto
  <2>5. CASE PokeFails \/ ReadPathFails
    <3>1. cur \in Tid
      BY <2>5 DEF PokeFails, ReadPathFails, IInv, ControlOK, LocalsOK
    <3>2. regs # "badaddr" /\ regs # "open" /\ phase[cur] # "exec"
      BY <2>5 DEF PokeFails, ReadPathFails, ProgramsOK, NestedOK, NotTakenOver, AddressesGood
    <3>3. CASE PokeFails
      BY <3>1, <3>2, <3>3 DEF PokeFails, Replaced, NotTakenOver, ProgramKept
    <3>. QED BY <2>5, <3>2, <3>3 DEF ReadPathFails
  <2>6. CASE MainWait \/ LoopEnd \/ LoopNoChild \/ RemoveVdso \/ VdsoGone \/ ProcResume \/ GetEventMsg
          \/ EventMsgGone \/ ResumeNew
    BY <2>6 DEF MainWait, LoopEnd, LoopNoChild, RemoveVdso, VdsoGone, VdsoDone, ProcResume, BackToLoop,
                GetEventMsg, EventMsgGone, ResumeNew, Goto
  <2>7. CASE HookUnknown \/ HookRead \/ HookGone \/ HookFreed \/ Cancel \/ CancelResume \/ Poke
          \/ SetReturn \/ ReadPath \/ ReadPathGone \/ ContResume \/ LoopResume
    BY <2>7 DEF HookUnknown, HookRead, HookGone, HookFreed, Cancel, CancelResume, Poke, SetReturn, ReadPath,
                ReadPathGone, ContResume, LoopResume, BackToLoop, Goto
  <2>8. ASSUME NEW t \in Tid, LoopExit(t) \/ LoopStop(t) \/ Kernel(t)
        PROVE  FALSE
    BY <2>8 DEF LoopExit, LoopStop, Kernel, locals
  <2>9. CASE ChildGivesUp \/ ExitKill \/ Terminated
    BY <2>9 DEF ChildGivesUp, ExitKill, Terminated, vars
  <2>. QED BY <2>1, <2>2, <2>3, <2>4, <2>5, <2>6, <2>7, <2>8, <2>9 DEF Next, TracerStep
<1>2. IInv /\ ProgramsOK /\ NotTakenOver /\ NotKilled /\ [Next]_vars
        => [pc # "failed" /\ pc' = "failed" => pc \in {"vdso_new", "wait_new"}]_vars
  BY <1>1
<1>. QED BY <1>2, Quiet, PTL DEF Spec, FailsOnEarlyChild

(* All of it in one: whichever of the hypotheses of TracerQuiet hold.      *)
THEOREM QuietInvariance == Spec => []QuietInv
<1>1. Init => QuietInv
  BY ProgramsInit, NotTakenOverStep, CallStopsStep, NotKilledStep DEF QuietInv
<1>2. ASSUME IInv, QuietInv, [Next]_vars PROVE QuietInv'
  <2>. USE <1>2
  <2>1. ProgramsOK'
    BY ProgramsStep DEF QuietInv
  <2>2. ASSUME NoTakeover PROVE ClocksOK' /\ NoVdsoTime' /\ NotTakenOver'
    BY <2>2, NotTakenOverStep DEF QuietInv
  <2>3. ASSUME NoTakeover, PathsKept PROVE CallStopsOK'
    BY <2>3, CallStopsStep DEF QuietInv
  <2>4. ASSUME NothingKilled PROVE NotKilled'
    BY <2>4, QuietTakeover, NotKilledStep DEF QuietInv
  <2>. QED BY <2>1, <2>2, <2>3, <2>4 DEF QuietInv, NoTakeover, PathsKept, NothingKilled
<1>. QED BY <1>1, <1>2, Invariance, PTL DEF Spec
=============================================================================
