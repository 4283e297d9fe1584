---------------------------- MODULE ChildSyscall ----------------------------
(***************************************************************************)
(* child_syscall() of putils.c: the tracer makes a stopped task carry out  *)
(* a system call of the tracer's choice, and returns what it returned.     *)
(* Nothing in the repository calls it; here it is called as                *)
(* child_cancel_syscall is, at the entry stop of some call of the task.    *)
(***************************************************************************)
EXTENDS Memory, Sequences

VARIABLES
  step,    \* where child_exec_syscall is
  given,   \* the arguments of the call, at most six
  regs,    \* the caller's copy of the registers
  task,    \* the registers of the task
  made     \* the call it has made: <<>>, or its number and six arguments

callVars == <<step, given, regs, task, made>>

Registers == {"orig_rax", "rax", "rdi", "rsi", "rdx", "rcx", "r8", "r9", "r10"}

(* The registers of r_arg1, w_arg1 to r_arg6, w_arg6...                    *)
ArgRegister == <<"rdi", "rsi", "rdx", "rcx", "r8", "r9">>

(* ...and where the kernel finds the arguments of a call.                  *)
KernelRegister == <<"rdi", "rsi", "rdx", "r10", "r8", "r9">>

(* Values are numbers: 0 whatever a register held before, 1 to 6 the       *)
(* arguments, SyscallNumber and Answer the call's number and its result.   *)
SyscallNumber == 100
Answer == 200

CallIdle ==
  /\ step = "idle"
  /\ given = <<>>
  /\ regs = [r \in Registers |-> 0] /\ task = regs
  /\ made = <<>>

(* w_syscall and the w_arg of each argument there is.                      *)
Written(args) == [r \in Registers |->
  IF r = "orig_rax" THEN SyscallNumber
  ELSE IF \E k \in DOMAIN args : ArgRegister[k] = r
       THEN args[CHOOSE k \in DOMAIN args : ArgRegister[k] = r]
       ELSE 0]

CallInit ==
  /\ step = "setregs"
  /\ \E num_args \in 0..6 : given = [k \in 1..num_args |-> k]
  /\ regs = Written(given)
  /\ task = [r \in Registers |-> 0]
  /\ made = <<>>

-----------------------------------------------------------------------------
(* PTRACE_RETURN: a task that is gone ends the call, and child_syscall     *)
(* returns what it finds in rax.                                           *)
CallGone ==
  /\ step \in {"setregs", "resume", "getregs"} /\ ~alive
  /\ step' = "returned"
  /\ UNCHANGED <<given, regs, task, made, memoryVars>>

SetRegs ==
  /\ step = "setregs" /\ alive
  /\ step' = "resume"
  /\ task' = regs
  /\ UNCHANGED <<given, regs, made, memoryVars>>

(* The task goes on...                                                     *)
CallResume ==
  /\ step = "resume" /\ alive
  /\ step' = "wait"
  /\ UNCHANGED <<given, regs, task, made, memoryVars>>

(* ...makes the call, and stops on its way out of it.                      *)
CallMade ==
  /\ step = "wait" /\ alive /\ made = <<>>
  /\ made' = <<task.orig_rax>> \o [k \in 1..6 |-> task[KernelRegister[k]]]
  /\ task' = [task EXCEPT !.rax = Answer]
  /\ UNCHANGED <<step, given, regs, memoryVars>>

(* A variant for ResultOfCall: the registers are not read again.           *)
CallWaitOnly ==
  /\ step = "wait"
  /\ \/ alive /\ made # <<>> /\ step' = "returned"
     \/ ~alive /\ step' = "failed"
  /\ UNCHANGED <<given, regs, task, made, memoryVars>>

(* waitpid; the end of the task ends the tracer.                           *)
CallWait ==
  /\ step = "wait"
  /\ \/ alive /\ made # <<>> /\ step' = "getregs"
     \/ ~alive /\ step' = "failed"
  /\ UNCHANGED <<given, regs, task, made, memoryVars>>

GetRegs ==
  /\ step = "getregs" /\ alive
  /\ step' = "returned"
  /\ regs' = task
  /\ UNCHANGED <<given, task, made, memoryVars>>

CallReturned == step \in {"returned", "failed"} /\ UNCHANGED <<callVars, memoryVars>>

CallNext ==
  \/ CallGone \/ SetRegs \/ CallResume \/ CallMade \/ CallWait \/ GetRegs
  \/ CallReturned
  \/ step # "idle" /\ Killed /\ UNCHANGED callVars

CallSpec == CallInit /\ [][CallNext]_<<callVars, memoryVars>>

-----------------------------------------------------------------------------
(* A value that child_syscall returns while the task lives is the result   *)
(* of the call that was asked for, made with the arguments that were given *)
(* to it.  The fourth is not among them: it is written to rcx, and the     *)
(* kernel takes it from r10.                                               *)
ResultOfCall ==
  step = "returned" /\ alive =>
    /\ regs.rax = Answer
    /\ Len(made) = 7 /\ made[1] = SyscallNumber
    /\ \A k \in DOMAIN given \ {4} : made[k + 1] = given[k]
=============================================================================
