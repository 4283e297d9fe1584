------------------------------- MODULE Tracer -------------------------------
(***************************************************************************)
(* The tracer process: main(), the event loop of events.c, and what the    *)
(* loop calls (proc_init.c, vdso.c, syscalls.c, putils.c).  It is a single *)
(* thread, but every ptrace and waitpid call lets the traced tasks run, so *)
(* each of these calls is an action of its own and the kernel's steps come *)
(* in between.                                                             *)
(*                                                                         *)
(* A ptrace request for a task that is not stopped fails with ESRCH.  The  *)
(* code takes that for "no longer exists" in two ways: PTRACE_RETURN       *)
(* leaves the function it is in, PTRACE_DELETE drops the task's entry and  *)
(* "continues".  Every other error ends the tracer.                        *)
(***************************************************************************)
EXTENDS Ptrace, ProcessTable

VARIABLES
  pc,     \* where the tracer is: the next call it makes
  cur,    \* pid, the task the event loop is busy with
  new,    \* new_child of register_new_child
  regs    \* regs.orig_rax, as read at the last stop the loop looked into

locals == <<cur, new, regs>>
vars == <<kernelVars, tableVars, pc, locals>>

Ended == {"returned",   \* main returned 0
          "failed",     \* exit(EXIT_FAILURE), or main returned 1
          "crashed"}    \* killed by a fault of its own

InitPcs == {"vdso", "vdso_new", "init", "init_new"}
ForkPcs == {"event_msg", "wait_new", "resume_new"}
CancelPcs == {"cancel", "cancel_resume", "cancel_wait", "poke"}
PathPcs == {"read_path", "cont_resume", "cont_wait"}
SyscallPcs == CancelPcs \cup PathPcs \cup {"set_return"}

Pcs == {"main_wait", "main_options", "main_resume", "loop", "hook", "freed", "resume"}
         \cup InitPcs \cup ForkPcs \cup SyscallPcs \cup Ended

TypeOK ==
  /\ KernelTypeOK
  /\ TableTypeOK
  /\ pc \in Pcs
  /\ cur \in Tid \cup {NoTid}
  /\ new \in Tid \cup {NoTid}
  /\ regs \in CallNrs \cup {"none"}

Init ==
  /\ KernelInit
  /\ TableInit
  /\ pc = "main_wait"
  /\ cur = NoTid
  /\ new = NoTid
  /\ regs = "none"

-----------------------------------------------------------------------------
Goto(p) == pc' = p /\ UNCHANGED locals

(* The end of an iteration of the event loop: its locals go out of scope.  *)
BackToLoop ==
  /\ pc' = "loop"
  /\ cur' = NoTid
  /\ new' = NoTid
  /\ regs' = "none"

NoSuchProcess(t) == ~Stopped(t)

(* waitpid on one task, then exit() unless it has stopped.                 *)
AwaitStop(t, next) ==
  /\ \/ ReportStop(t) /\ Goto(next)
     \/ ReportExit(t) /\ Goto("failed")
     \/ phase[t] = "free" /\ Goto("failed") /\ UNCHANGED kernelVars
  /\ UNCHANGED tableVars

-----------------------------------------------------------------------------
(* main()                                                                  *)

(* The child cannot become a tracee and returns from main.                 *)
ChildGivesUp ==
  /\ pc = "main_wait" /\ phase[Root] = "birth"
  /\ Die({Root})
  /\ UNCHANGED <<tableVars, pc, locals>>

(* A variant for FailsOnEarlyChild: main does not wait for the first stop. *)
MainWaitNothing ==
  /\ pc = "main_wait"
  /\ Goto("main_options")
  /\ UNCHANGED <<kernelVars, tableVars>>

MainWait ==
  /\ pc = "main_wait"
  /\ \/ ReportStop(Root) /\ Goto("main_options")
     \/ ReportExit(Root) /\ Goto("returned")
  /\ UNCHANGED tableVars

(* PTRACE_SETOPTIONS; then the first entry of the table.                   *)
MainOptions ==
  /\ pc = "main_options"
  /\ IF NoSuchProcess(Root)
     THEN Goto("failed") /\ UNCHANGED tableVars
     ELSE Goto("main_resume") /\ insert_process(Root)
  /\ UNCHANGED kernelVars

MainResume ==
  /\ pc = "main_resume"
  /\ IF NoSuchProcess(Root)
     THEN Goto("failed") /\ UNCHANGED kernelVars
     ELSE Goto("loop") /\ Resume(Root)
  /\ UNCHANGED tableVars

-----------------------------------------------------------------------------
(* handle_event(): the loop's test and its waitpid(-1)                     *)

LoopEnd ==
  /\ pc = "loop" /\ is_hash_table_empty
  /\ Goto("returned")
  /\ UNCHANGED <<kernelVars, tableVars>>

LoopNoChild ==
  /\ pc = "loop" /\ ~is_hash_table_empty
  /\ \A t \in Tid : phase[t] = "free"
  /\ Goto("returned")
  /\ UNCHANGED <<kernelVars, tableVars>>

(* A variant for TerminationDetected: waitpid only hears of leaders.       *)
LoopExitLeader(t) ==
  /\ pc = "loop" /\ ~is_hash_table_empty
  /\ tgid[t] = t
  /\ ReportExit(t)
  /\ delete_process(t)
  /\ UNCHANGED <<pc, locals>>

LoopExit(t) ==
  /\ pc = "loop" /\ ~is_hash_table_empty
  /\ ReportExit(t)
  /\ delete_process(t)
  /\ UNCHANGED <<pc, locals>>

(* A variant for NoVdsoTime: the exec event is not told from other stops.  *)
LoopStopNoExec(t) ==
  /\ pc = "loop" /\ ~is_hash_table_empty
  /\ ReportStop(t)
  /\ cur' = t
  /\ pc' = IF phase[t] = "fork" THEN "event_msg" ELSE "hook"
  /\ UNCHANGED <<tableVars, new, regs>>

(* A variant for EntryOutlivesTask: a task stopped by a signal is taken    *)
(* for one that a signal has ended.                                        *)
LoopStopAsDeath(t) ==
  /\ pc = "loop" /\ ~is_hash_table_empty
  /\ ReportStop(t)
  /\ cur' = t
  /\ pc' = CASE phase[t] = "exec" -> "vdso"
             [] phase[t] = "fork" -> "event_msg"
             [] OTHER -> "hook"
  /\ IF phase[t] = "signal" THEN delete_process(t) ELSE UNCHANGED tableVars
  /\ UNCHANGED <<new, regs>>

LoopStop(t) ==
  /\ pc = "loop" /\ ~is_hash_table_empty
  /\ ReportStop(t)
  /\ cur' = t
  /\ pc' = CASE phase[t] = "exec" -> "vdso"
             [] phase[t] = "fork" -> "event_msg"
             [] OTHER -> "hook"
  /\ UNCHANGED <<tableVars, new, regs>>

-----------------------------------------------------------------------------
(* proc_init(), for an exec event and for a task without an entry          *)

VdsoDone == [vdso |-> "init", vdso_new |-> "init_new"]

(* At an exec stop the stack is that of a fresh program and the scan finds *)
(* its auxiliary vector.                                                   *)
RemoveVdso ==
  /\ pc \in {"vdso", "vdso_new"} /\ phase[cur] = "exec"
  /\ image' = [image EXCEPT ![cur] = "clean"]
  /\ Goto(VdsoDone[pc])
  /\ UNCHANGED <<tableVars, phase, seen, nr, tgid, msg, budget>>

(* At any other stop it walks up whatever the stack holds: it meets what   *)
(* ends it, or a word of -1 or the end of the stack, which ends the tracer.*)
ScanStack ==
  /\ pc \in {"vdso", "vdso_new"} /\ Stopped(cur) /\ phase[cur] # "exec"
  /\ Goto(VdsoDone[pc]) \/ Goto("failed")
  /\ UNCHANGED <<kernelVars, tableVars>>

VdsoGone ==
  /\ pc \in {"vdso", "vdso_new"} /\ NoSuchProcess(cur)
  /\ Goto(VdsoDone[pc])
  /\ UNCHANGED <<kernelVars, tableVars>>

(* A variant for NoRealAnswer: a task without an entry does not get one.   *)
ProcResumeOnly ==
  /\ pc \in {"init", "init_new"}
  /\ IF NoSuchProcess(cur) THEN UNCHANGED kernelVars ELSE Resume(cur)
  /\ UNCHANGED tableVars
  /\ BackToLoop

(* The last step of proc_init, and the insertion the loop adds to it for a *)
(* task without an entry.                                                  *)
ProcResume ==
  /\ pc \in {"init", "init_new"}
  /\ IF NoSuchProcess(cur) THEN UNCHANGED kernelVars ELSE Resume(cur)
  /\ IF pc = "init_new" THEN insert_process(cur) ELSE UNCHANGED tableVars
  /\ BackToLoop

-----------------------------------------------------------------------------
(* register_new_child()                                                    *)

(* A variant for Tracked and NoEarlyEnd: the child gets no entry.          *)
GetEventMsgOnly ==
  /\ pc = "event_msg" /\ Stopped(cur)
  /\ new' = msg[cur]
  /\ pc' = IF find_process(msg[cur]) THEN "hook" ELSE "wait_new"
  /\ UNCHANGED <<kernelVars, tableVars, cur, regs>>

(* PTRACE_GETEVENTMSG, and the insertion of the child it names.            *)
GetEventMsg ==
  /\ pc = "event_msg" /\ Stopped(cur)
  /\ new' = msg[cur]
  /\ pc' = IF find_process(msg[cur]) THEN "hook" ELSE "wait_new"
  /\ insert_process(msg[cur])
  /\ UNCHANGED <<kernelVars, cur, regs>>

EventMsgGone ==
  /\ pc = "event_msg" /\ NoSuchProcess(cur)
  /\ Goto("hook")
  /\ UNCHANGED <<kernelVars, tableVars>>

(* waitpid(new_child): what it reports is not looked at.                   *)
WaitNew ==
  /\ pc = "wait_new"
  /\ \/ (ReportStop(new) \/ ReportExit(new)) /\ Goto("resume_new")
     \/ phase[new] = "free" /\ Goto("failed") /\ UNCHANGED kernelVars
  /\ UNCHANGED tableVars

(* A variant for NoLostStop and StopServed: the child is left stopped.     *)
ResumeNewForgotten ==
  /\ pc = "resume_new"
  /\ Goto("hook")
  /\ UNCHANGED <<kernelVars, tableVars>>

(* A variant for NoCrash: the parent is resumed for the child.             *)
ResumeNewParent ==
  /\ pc = "resume_new"
  /\ IF NoSuchProcess(cur) THEN UNCHANGED kernelVars ELSE Resume(cur)
  /\ Goto("hook")
  /\ UNCHANGED tableVars

ResumeNew ==
  /\ pc = "resume_new"
  /\ IF NoSuchProcess(new) THEN UNCHANGED kernelVars ELSE Resume(new)
  /\ Goto("hook")
  /\ UNCHANGED tableVars

-----------------------------------------------------------------------------
(* The hook block of the loop and handle_syscall()                         *)

HookUnknown ==
  /\ pc = "hook" /\ ~find_process(cur)
  /\ Goto("vdso_new")
  /\ UNCHANGED <<kernelVars, tableVars>>

(* A variant for ChildHasEntry: the NULL of find_process goes unnoticed.   *)
HookReadAny ==
  /\ pc = "hook" /\ Stopped(cur)
  /\ regs' = nr[cur]
  /\ pc' = CASE nr[cur] \in Hooked -> "cancel"
             [] nr[cur] \in {"openat", "urandom", "open"} -> "read_path"
             [] OTHER -> "resume"
  /\ UNCHANGED <<kernelVars, tableVars, cur, new>>

(* A variant for QuestionsAnswered: the switch has no case for the time    *)
(* calls.                                                                  *)
HookReadNoTime ==
  /\ pc = "hook" /\ find_process(cur) /\ Stopped(cur)
  /\ regs' = nr[cur]
  /\ pc' = CASE nr[cur] \in Hooked \ {"time"} -> "cancel"
             [] nr[cur] \in {"openat", "urandom", "open"} -> "read_path"
             [] OTHER -> "resume"
  /\ UNCHANGED <<kernelVars, tableVars, cur, new>>

(* PTRACE_GETREGS and the switch on the call it shows.                     *)
HookRead ==
  /\ pc = "hook" /\ find_process(cur) /\ Stopped(cur)
  /\ regs' = nr[cur]
  /\ pc' = CASE nr[cur] \in Hooked -> "cancel"
             [] nr[cur] \in {"openat", "urandom", "open"} -> "read_path"
             [] OTHER -> "resume"
  /\ UNCHANGED <<kernelVars, tableVars, cur, new>>

(* The task is gone.  PTRACE_DELETE drops its entry; its "continue" only   *)
(* leaves the macro's own do ... while (0).                                *)
HookGone ==
  /\ pc = "hook" /\ find_process(cur) /\ NoSuchProcess(cur)
  /\ delete_process(cur)
  /\ Goto("freed")
  /\ UNCHANGED kernelVars

(* So handle_syscall runs on the entry just freed and on registers nobody  *)
(* has read.  Whatever it finds there, the pid is no tracee's and every    *)
(* request fails; when it takes the call for an open, it compares the NULL *)
(* of read_child_c_string with a string.                                   *)
HookFreed ==
  /\ pc = "freed"
  /\ Goto("resume") \/ Goto("crashed")
  /\ UNCHANGED <<kernelVars, tableVars>>

(* A variant for ReturnAtExit: the answer is given at the entry stop.      *)
CancelNothing ==
  /\ pc = "cancel"
  /\ Goto("poke")
  /\ UNCHANGED <<kernelVars, tableVars>>

(* child_cancel_syscall: PTRACE_SETREGS with orig_rax = -1...              *)
Cancel ==
  /\ pc = "cancel"
  /\ IF NoSuchProcess(cur)
     THEN Goto("poke") /\ UNCHANGED kernelVars
     ELSE Goto("cancel_resume") /\ SetRegs(cur, "none")
  /\ UNCHANGED tableVars

(* A variant for IInv: nobody waits for the end of the call that is none.  *)
CancelResumeOnly ==
  /\ pc = "cancel_resume"
  /\ IF NoSuchProcess(cur) THEN UNCHANGED kernelVars ELSE Resume(cur)
  /\ Goto("poke")
  /\ UNCHANGED tableVars

(* ...PTRACE_SYSCALL...                                                    *)
CancelResume ==
  /\ pc = "cancel_resume"
  /\ IF NoSuchProcess(cur)
     THEN Goto("poke") /\ UNCHANGED kernelVars
     ELSE Goto("cancel_wait") /\ Resume(cur)
  /\ UNCHANGED tableVars

(* ...and waitpid for the end of the call that is none.                    *)
CancelWait == pc = "cancel_wait" /\ AwaitStop(cur, "poke")

(* A variant for EachAnsweredOnce: one clock for all threads of a process. *)
PokeProcessClock ==
  /\ pc = "poke" /\ ~(Stopped(cur) /\ regs = "badaddr")
  /\ IF regs = "getrandom" THEN UNCHANGED tableVars ELSE Tick(tgid[cur])
  /\ Goto("set_return")
  /\ UNCHANGED kernelVars

(* replace_buf, and for the time calls the step of the clock.              *)
Poke ==
  /\ pc = "poke" /\ ~(Stopped(cur) /\ regs = "badaddr")
  /\ IF regs = "getrandom" THEN UNCHANGED tableVars ELSE Tick(cur)
  /\ Goto("set_return")
  /\ UNCHANGED kernelVars

(* The buffer cannot be written, or belongs to a program that an execve    *)
(* has replaced: EIO.                                                      *)
PokeFails ==
  /\ pc = "poke" /\ Stopped(cur)
  /\ regs = "badaddr" \/ Replaced(cur) \/ image[cur] = "broken"
  /\ Goto("failed")
  /\ UNCHANGED <<kernelVars, tableVars>>

(* A variant for HookAtEntry: orig_rax is set back to what it was.         *)
SetReturnAndNr ==
  /\ pc = "set_return"
  /\ IF NoSuchProcess(cur) THEN UNCHANGED kernelVars ELSE SetRegs(cur, regs)
  /\ Goto("resume")
  /\ UNCHANGED tableVars

(* child_returns: PTRACE_SETREGS with the answer in rax, and the rest as   *)
(* handle_event read it, orig_rax included, which is -1 after a cancelling.*)
SetReturn ==
  /\ pc = "set_return"
  /\ IF NoSuchProcess(cur)
     THEN UNCHANGED kernelVars
     ELSE SetRegs(cur, IF regs \in Hooked THEN "none" ELSE regs)
  /\ Goto("resume")
  /\ UNCHANGED tableVars

(* redirect_dev_random: the second argument, taken for a path.             *)
ReadPath ==
  /\ pc = "read_path" /\ Stopped(cur) /\ regs # "open"
  /\ regs' = nr[cur]
  /\ pc' = IF nr[cur] = "urandom" THEN "cont_resume" ELSE "resume"
  /\ UNCHANGED <<kernelVars, tableVars, cur, new>>

(* That of open(2) is a number, and after an execve no path is where it    *)
(* was: EIO.                                                               *)
ReadPathFails ==
  /\ pc = "read_path" /\ Stopped(cur)
  /\ regs = "open" \/ phase[cur] = "exec"
  /\ Goto("failed")
  /\ UNCHANGED <<kernelVars, tableVars>>

(* read_child_c_string returns NULL, and strcmp is called on it.           *)
ReadPathGone ==
  /\ pc = "read_path" /\ NoSuchProcess(cur)
  /\ Goto("crashed")
  /\ UNCHANGED <<kernelVars, tableVars>>

(* A variant for ReturnAtExit: the open is not continued before its        *)
(* answer is replaced.                                                     *)
ContNothing ==
  /\ pc = "cont_resume"
  /\ Goto("set_return")
  /\ UNCHANGED <<kernelVars, tableVars>>

(* child_continue_syscall: PTRACE_SYSCALL...                               *)
ContResume ==
  /\ pc = "cont_resume"
  /\ IF NoSuchProcess(cur)
     THEN Goto("set_return") /\ UNCHANGED kernelVars
     ELSE Goto("cont_wait") /\ Resume(cur)
  /\ UNCHANGED tableVars

(* ...and waitpid for the next stop.                                       *)
ContWait == pc = "cont_wait" /\ AwaitStop(cur, "set_return")

(* PTRACE_SYSCALL at the end of the loop.                                  *)
LoopResume ==
  /\ pc = "resume"
  /\ IF NoSuchProcess(cur)
     THEN delete_process(cur) /\ UNCHANGED kernelVars
     ELSE Resume(cur) /\ UNCHANGED tableVars
  /\ BackToLoop

-----------------------------------------------------------------------------
(* The end of the tracer takes every task with it (PTRACE_O_EXITKILL).     *)
ExitKill ==
  /\ pc \in Ended
  /\ \E t \in Tid : phase[t] # "free"
  /\ phase' = [t \in Tid |-> "free"]
  /\ tgid' = [t \in Tid |-> t]
  /\ UNCHANGED <<seen, nr, image, msg, budget, tableVars, pc, locals>>

Terminated ==
  /\ pc \in Ended
  /\ \A t \in Tid : phase[t] = "free"
  /\ UNCHANGED vars

Kernel(t) == pc \notin Ended /\ KernelStep(t) /\ UNCHANGED <<tableVars, pc, locals>>

KernelRuns(t) ==
  pc \notin Ended /\ KernelProgress(t) /\ UNCHANGED <<tableVars, pc, locals>>

TracerStep ==
  \/ MainWait \/ MainOptions \/ MainResume
  \/ LoopEnd \/ LoopNoChild \/ (\E t \in Tid : LoopExit(t) \/ LoopStop(t))
  \/ RemoveVdso \/ ScanStack \/ VdsoGone \/ ProcResume
  \/ GetEventMsg \/ EventMsgGone \/ WaitNew \/ ResumeNew
  \/ HookUnknown \/ HookRead \/ HookGone \/ HookFreed
  \/ Cancel \/ CancelResume \/ CancelWait \/ Poke \/ PokeFails \/ SetReturn
  \/ ReadPath \/ ReadPathFails \/ ReadPathGone \/ ContResume \/ ContWait
  \/ LoopResume

Next ==
  \/ TracerStep
  \/ ChildGivesUp
  \/ (\E t \in Tid : Kernel(t))
  \/ ExitKill
  \/ Terminated

Spec == Init /\ [][Next]_vars

(* The tracer is a process that keeps running, and the kernel does not     *)
(* leave a task halfway.  Nothing obliges a program to make another call,  *)
(* nor a signal to arrive.                                                 *)
FairSpec ==
  /\ Spec
  /\ WF_vars(TracerStep)
  /\ WF_vars(ExitKill)
  /\ \A t \in Tid : WF_vars(KernelRuns(t))

-----------------------------------------------------------------------------
(* Safety                                                                  *)

(* No call that would bring in time or randomness is carried out: whatever *)
(* is past its entry stop has been cancelled or was none of them           *)
(* (handle_syscall cancels at the entry stop of every task).               *)
NoRealAnswer == \A t \in Tid : phase[t] = "kernel" => nr[t] \notin Hooked

(* Every task has an entry, or has not run yet and will be given one at    *)
(* its first stop: unborn, dead, before its first instruction, or on its   *)
(* way out of an execve, after which proc_init does not restore an entry   *)
(* lost to the end of the thread that had the id.                          *)
Untracked(t) ==
  \/ phase[t] \in {"free", "zombie", "birth", "start"}
  \/ phase[t] \in {"exec", "leaving", "exit"} /\ nr[t] = "execve"
Tracked == \A t \in Tid : find_process(t) \/ Untracked(t)

(* Whenever the loop waits, no task stands in a stop that waitpid has      *)
(* already reported: it would not be reported again, and the task would    *)
(* stand there for good (every path of handle_event resumes the tasks it   *)
(* has heard of, also those that waitpid calls elsewhere have reported).   *)
NoLostStop == pc = "loop" => \A t \in Tid : Stopped(t) => ~seen[t]

(* An entry is only dropped for a task that is dead; a running one would   *)
(* lose its clock (delete_process and its three callers).                  *)
EntryOutlivesTask ==
  [][\A t \in process_table \ process_table' : ~Live(t)]_vars

(* Of the two stops of a call, only the entry stop ever shows a hooked     *)
(* number: at any other stop handle_syscall would answer a call that has   *)
(* been answered, or was never made (syscalls.c, line 32).                 *)
HookAtEntry ==
  \A t \in Tid : Stopped(t) /\ nr[t] \in Hooked => phase[t] = "entry"

(* The answer of a hooked call is put into rax at the stop on its way out, *)
(* where the program picks it up.                                          *)
ReturnAtExit == pc = "set_return" /\ Stopped(cur) => phase[cur] = "exit"

(* While handle_syscall works on a child, that child has an entry: the     *)
(* clock it advances is not freed memory.                                  *)
ChildHasEntry == pc \in SyscallPcs \cup {"freed"} => find_process(cur)

(* A program only runs once the vDSO is out of its auxiliary vector, or it *)
(* would read the real time without a system call (proc_init on exec).     *)
NoVdsoTime ==
  \A t \in Tid : image[t] = "fresh" => phase[t] \in {"exec", "zombie", "free"}

(* A stack is only scanned for an auxiliary vector where a new program has *)
(* one: at the stop of an execve.                                          *)
VdsoAtExecOnly ==
  pc \in {"vdso", "vdso_new"} /\ Stopped(cur) => phase[cur] = "exec"

(* main returns 0 only when no traced program is left: any left would be   *)
(* killed by PTRACE_O_EXITKILL.                                            *)
NoEarlyEnd == pc = "returned" => \A t \in Tid : ~Live(t)

(* As long as nobody is killed, the tracer never works on a task that does *)
(* not stand in a stop: the registers handle_syscall looks at have been    *)
(* read, and redirect_dev_random has a string to compare.                  *)
NoCrash == pc # "crashed"

(* As long as nobody is killed and no buffer is bad, the tracer only gives *)
(* up over a child it has heard of before the child's parent: in the scan  *)
(* of the child's stack, or in the waitpid of register_new_child when the  *)
(* child has come and gone.  Neither main nor a nested wait of putils.c    *)
(* ever finds the task it has just heard of gone.                          *)
FailsOnEarlyChild ==
  [][pc # "failed" /\ pc' = "failed" => pc \in {"vdso_new", "wait_new"}]_vars

(* register_new_child only waits for a child that can still report.        *)
NewCanStop == pc = "wait_new" => phase[new] # "free"

-----------------------------------------------------------------------------
(* Liveness                                                                *)

(* A stopped task is resumed, unless the tracer ends.                      *)
StopServed ==
  \A t \in Tid : Stopped(t) ~> (~Stopped(t) \/ pc \in Ended)

(* The waitpid that follows a cancelled call returns.                      *)
NoopReturns == pc = "cancel_wait" ~> pc # "cancel_wait"

(* When the last program is dead the tracer ends.                          *)
TerminationDetected == (\A t \in Tid : ~Live(t)) ~> pc \in Ended
=============================================================================
