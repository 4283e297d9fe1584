------------------------------- MODULE Ptrace -------------------------------
(***************************************************************************)
(* The kernel as the tracer sees it through ptrace(2) and waitpid(2), and  *)
(* the traced programs.  None of this is code of the repository: it is     *)
(* modelled from how src/ uses it, and every definition is external.       *)
(*                                                                         *)
(* A task runs until something stops it.  A stopped task stays where it is *)
(* until the tracer resumes it or it is killed; a request for a task that  *)
(* is not stopped fails with ESRCH.  waitpid reports each stop once, and   *)
(* the death of a task once, which frees its id.                           *)
(***************************************************************************)
EXTENDS Naturals, Tasks

CONSTANTS
  Calls,     \* the kinds of system call the traced programs make
  Signals,   \* the kinds of signal that arrive: "KILL", "OTHER"
  MaxCalls   \* bound: system calls of all programs together, exits apart

(* What orig_rax and the arguments say about a call, as far as the code    *)
(* tells calls apart.                                                      *)
(*   time     gettimeofday, time or clock_gettime                          *)
(*   badaddr  one of them with a buffer that cannot be written             *)
(*   urandom  openat or openat2 of /dev/random or /dev/urandom             *)
(*   openat   openat or openat2 of another path                            *)
(*   open     the old open(2), whose second argument is the flags          *)
(*   thread   a clone that adds a thread to the caller's process           *)
(*   none     orig_rax = -1: no call                                       *)
CallNrs == {"getrandom", "time", "badaddr", "urandom", "openat", "open", "other",
            "fork", "thread", "execve", "exit", "exit_group"}

ExitCalls == {"exit", "exit_group"}

(* The calls whose real answer is not reproducible.                        *)
Hooked == {"getrandom", "time", "badaddr"}

ASSUME PtraceAssumption ==
  /\ Calls \subseteq CallNrs
  /\ Signals \subseteq {"KILL", "OTHER"}
  /\ MaxCalls \in Nat

VARIABLES
  phase,    \* where each task is
  seen,     \* its current stop has been reported by waitpid
  nr,       \* orig_rax of its last system call
  tgid,     \* the leader of its thread group
  image,    \* "tracer": the fork of the tracer itself, before its execve
            \* "fresh":  an executed program whose auxiliary vector shows the vDSO
            \* "clean":  a program with the vDSO taken out of it
            \* "broken": a program that has got the registers of another
  msg,      \* PTRACE_GETEVENTMSG of its current event
  budget    \* system calls still to be made

kernelVars == <<phase, seen, nr, tgid, image, msg, budget>>

Stops == {"start", "entry", "exit", "fork", "exec", "signal"}

Phases == Stops \cup
  {"free",       \* no such task
   "birth",      \* created, its first instruction not reached
   "user",       \* in the program
   "kernel",     \* in a system call, past the entry stop
   "spawned",    \* in a fork or clone that has started the child
   "dethread",   \* in an execve that has killed the other threads
   "leaving",    \* in a system call, past its event stop
   "zombie"}     \* dead, not yet reported

KernelTypeOK ==
  /\ phase \in [Tid -> Phases]
  /\ seen \in [Tid -> BOOLEAN]
  /\ nr \in [Tid -> CallNrs \cup {"none"}]
  /\ tgid \in [Tid -> Tid]
  /\ image \in [Tid -> {"tracer", "fresh", "clean", "broken"}]
  /\ msg \in [Tid -> Tid \cup {NoTid}]
  /\ budget \in Nat

KernelInit ==
  /\ phase = [t \in Tid |-> IF t = Root THEN "birth" ELSE "free"]
  /\ seen = [t \in Tid |-> FALSE]
  /\ nr = [t \in Tid |-> "none"]
  /\ tgid = [t \in Tid |-> t]
  /\ image = [t \in Tid |-> IF t = Root THEN "tracer" ELSE "clean"]
  /\ msg = [t \in Tid |-> NoTid]
  /\ budget = MaxCalls

Stopped(t) == phase[t] \in Stops
Live(t) == phase[t] \notin {"free", "zombie"}
Group(t) == {u \in Tid : tgid[u] = tgid[t] /\ phase[u] # "free"}

(* A dead leader is not reported before the last other thread is gone.     *)
Reapable(t) == phase[t] = "zombie" /\ (tgid[t] = t => Group(t) = {t})

-----------------------------------------------------------------------------
(* What the tracer's requests do.                                          *)

NextPhase == [start |-> "user", entry |-> "kernel", exit |-> "user",
              fork |-> "leaving", exec |-> "leaving", signal |-> "user"]

(* PTRACE_SYSCALL with signal 0: run to the next system call boundary; a   *)
(* signal the task stopped for is dropped.                                 *)
Resume(t) ==
  /\ Stopped(t)
  /\ phase' = [phase EXCEPT ![t] = NextPhase[@]]
  /\ seen' = [seen EXCEPT ![t] = FALSE]
  /\ UNCHANGED <<nr, tgid, image, msg, budget>>

(* At the end of an execve: the program is a new one.                      *)
Replaced(t) == phase[t] \in {"exec", "exit"} /\ nr[t] = "execve"

(* PTRACE_SETREGS writes a whole copy of the registers back, with orig_rax *)
(* changed to n.  The tracer never copies those of a task that is Replaced *)
(* to write them back, so this copy is older than the new program, whose   *)
(* instruction and stack pointers are lost to those of the old one.        *)
SetRegs(t, n) ==
  /\ Stopped(t)
  /\ nr' = [nr EXCEPT ![t] = n]
  /\ image' = IF Replaced(t) THEN [image EXCEPT ![t] = "broken"] ELSE image
  /\ UNCHANGED <<phase, seen, tgid, msg, budget>>

(* waitpid reports a stop.                                                 *)
ReportStop(t) ==
  /\ Stopped(t) /\ ~seen[t]
  /\ seen' = [seen EXCEPT ![t] = TRUE]
  /\ UNCHANGED <<phase, nr, tgid, image, msg, budget>>

(* waitpid reports a death.                                                *)
ReportExit(t) ==
  /\ Reapable(t)
  /\ phase' = [phase EXCEPT ![t] = "free"]
  /\ tgid' = [tgid EXCEPT ![t] = t]
  /\ UNCHANGED <<seen, nr, image, msg, budget>>

-----------------------------------------------------------------------------
(* What the kernel and the programs do on their own.                       *)

(* Nothing of a dead task is looked at again, except its group.            *)
Die(S) ==
  /\ phase' = [t \in Tid |-> IF t \in S THEN "zombie" ELSE phase[t]]
  /\ seen' = [t \in Tid |-> IF t \in S THEN FALSE ELSE seen[t]]
  /\ nr' = [t \in Tid |-> IF t \in S THEN "none" ELSE nr[t]]
  /\ image' = [t \in Tid |-> IF t \in S THEN "clean" ELSE image[t]]
  /\ msg' = [t \in Tid |-> IF t \in S THEN NoTid ELSE msg[t]]
  /\ UNCHANGED <<tgid, budget>>

(* The task's own move from one phase to the next.                         *)
Move(t, from, to) ==
  /\ phase[t] = from
  /\ phase' = [phase EXCEPT ![t] = to]
  /\ UNCHANGED <<seen, tgid, image, msg, budget>>

(* A new task stops with SIGSTOP before its first instruction: the first   *)
(* child raises it itself, the others get it for being auto-attached.      *)
Start(t) == Move(t, "birth", "start") /\ UNCHANGED nr

(* A program makes a call.  The fork of the tracer only calls execvp, and  *)
(* returns from main when that fails.                                      *)
Enter(t) == \E c \in IF image[t] = "tracer" THEN {"execve", "exit_group"} ELSE Calls :
  /\ phase[t] = "user"
  /\ c \notin ExitCalls => budget > 0
  /\ phase' = [phase EXCEPT ![t] = "entry"]
  /\ nr' = [nr EXCEPT ![t] = c]
  /\ budget' = IF c \in ExitCalls THEN budget ELSE budget - 1
  /\ UNCHANGED <<seen, tgid, image, msg>>

(* The call returns; a fork, a clone or an execve that fails does so too.  *)
Return(t) ==
  /\ nr[t] \notin ExitCalls
  /\ Move(t, "kernel", "exit")
  /\ UNCHANGED nr

(* fork or clone: the child is made runnable before the parent stops for   *)
(* the event, so the tracer can hear of the child first.                   *)
Spawn(t) == \E c \in Tid :
  /\ phase[t] = "kernel" /\ nr[t] \in {"fork", "thread"}
  /\ phase[c] = "free"
  /\ phase' = [phase EXCEPT ![t] = "spawned", ![c] = "birth"]
  /\ nr' = [nr EXCEPT ![c] = nr[t]]
  /\ tgid' = [tgid EXCEPT ![c] = IF nr[t] = "thread" THEN tgid[t] ELSE c]
  /\ image' = [image EXCEPT ![c] = image[t]]
  /\ msg' = [msg EXCEPT ![t] = c]
  /\ UNCHANGED <<seen, budget>>

ForkEvent(t) == Move(t, "spawned", "fork") /\ UNCHANGED nr

Leave(t) == Move(t, "leaving", "exit") /\ UNCHANGED nr

(* execve kills the other threads of the process...                        *)
ExecBegin(t) ==
  /\ phase[t] = "kernel" /\ nr[t] = "execve"
  /\ LET others == Group(t) \ {t} IN
       /\ phase' = [u \in Tid |-> IF u \in others THEN "zombie" ELSE
                                  IF u = t THEN "dethread" ELSE phase[u]]
       /\ seen' = [u \in Tid |-> IF u \in others THEN FALSE ELSE seen[u]]
       /\ nr' = [u \in Tid |-> IF u \in others THEN "none" ELSE nr[u]]
       /\ image' = [u \in Tid |-> IF u \in others THEN "clean" ELSE image[u]]
       /\ msg' = [u \in Tid |-> IF u \in others THEN NoTid ELSE msg[u]]
  /\ UNCHANGED <<tgid, budget>>

(* ...waits until they are gone, the leader apart, and goes on under the   *)
(* id of the leader: neither the end of the old leader nor that of the     *)
(* caller's own id is ever reported.                                       *)
ExecEnd(t) ==
  LET l == tgid[t] IN
  /\ phase[t] = "dethread"
  /\ Group(t) \subseteq {t, l}
  /\ phase' = [phase EXCEPT ![t] = "free", ![l] = "exec"]
  /\ seen' = [seen EXCEPT ![l] = FALSE]
  /\ nr' = [nr EXCEPT ![t] = "none", ![l] = "execve"]
  /\ tgid' = [tgid EXCEPT ![t] = t]
  /\ image' = [image EXCEPT ![t] = "clean", ![l] = "fresh"]
  /\ msg' = [msg EXCEPT ![t] = NoTid, ![l] = t]
  /\ UNCHANGED budget

ExitThread(t) == phase[t] = "kernel" /\ nr[t] = "exit" /\ Die({t})

ExitGroup(t) == phase[t] = "kernel" /\ nr[t] = "exit_group" /\ Die(Group(t))

(* SIGKILL ends the whole process, stopped or not.                         *)
Kill(t) == "KILL" \in Signals /\ Live(t) /\ Die(Group(t))

(* Another signal stops the task: on its way out of a call, with the       *)
(* number of that call still in orig_rax, or later, when an interrupt has  *)
(* replaced it by a negative number.                                       *)
Signal(t) ==
  /\ "OTHER" \in Signals
  /\ Move(t, "user", "signal")
  /\ nr' \in {nr, [nr EXCEPT ![t] = "none"]}

(* Where a lost instruction pointer leads there may be nothing to execute: *)
(* SIGSEGV, which the tracer drops, so that it comes again.                *)
Fault(t) ==
  /\ image[t] = "broken"
  /\ Move(t, "user", "signal")
  /\ nr' = [nr EXCEPT ![t] = "none"]

(* Another thread rewrites the path a task has passed to openat.           *)
RewritePath(t) ==
  /\ nr[t] = "openat" /\ phase[t] \in {"entry", "kernel", "exit"}
  /\ \E u \in Group(t) \ {t} : phase[u] = "user"
  /\ nr' = [nr EXCEPT ![t] = "urandom"]
  /\ UNCHANGED <<phase, seen, tgid, image, msg, budget>>

(* The part the kernel does by itself: nothing but a kill can hold it up.  *)
KernelProgress(t) ==
  \/ Start(t) \/ Return(t) \/ Spawn(t) \/ ForkEvent(t) \/ Leave(t)
  \/ ExecBegin(t) \/ ExecEnd(t) \/ ExitThread(t) \/ ExitGroup(t)

KernelStep(t) ==
  \/ KernelProgress(t) \/ Enter(t)
  \/ Kill(t) \/ Signal(t) \/ Fault(t) \/ RewritePath(t)
=============================================================================
