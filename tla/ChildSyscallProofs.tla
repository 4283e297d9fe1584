------------------------- MODULE ChildSyscallProofs -------------------------
(***************************************************************************)
(* child_syscall, for any number of arguments: what it returns is the      *)
(* result of the call that was asked for.                                  *)
(***************************************************************************)
EXTENDS ChildSyscall, TLAPS

(* What the registers of the caller and of the task hold on the way.       *)
CallTypeOK ==
  /\ step \in {"setregs", "resume", "wait", "getregs", "returned", "failed"}
  /\ \E num_args \in 0..6 : given = [k \in 1..num_args |-> k]
  /\ regs \in [Registers -> Int] /\ task \in [Registers -> Int]

Asked == <<SyscallNumber>> \o [k \in 1..6 |-> Written(given)[KernelRegister[k]]]

CallInv ==
  /\ CallTypeOK
  /\ step \in {"setregs", "resume"} => regs = Written(given) /\ made = <<>>
  /\ step \in {"resume", "wait"} /\ made = <<>> => task = Written(given)
  /\ made # <<>> => made = Asked /\ task.rax = Answer
  /\ step = "getregs" => made # <<>>
  /\ step = "returned" /\ alive => made # <<>> /\ regs = task

(* The arguments are where the kernel looks for them, the fourth apart.    *)
LEMMA WrittenEffect ==
  ASSUME NEW args, NEW n \in 0..6, args = [k \in 1..n |-> k]
  PROVE  /\ Written(args) \in [Registers -> Int]
         /\ Written(args)["orig_rax"] = SyscallNumber
         /\ \A k \in 1..n \ {4} : Written(args)[KernelRegister[k]] = k
<1>. USE DEF Registers, ArgRegister, KernelRegister, SyscallNumber
<1>1. /\ \A j, k \in 1..6 : ArgRegister[j] = ArgRegister[k] => j = k
      /\ \A k \in 1..6 \ {4} : ArgRegister[k] = KernelRegister[k]
      /\ \A k \in 1..6 : ArgRegister[k] \in Registers \ {"orig_rax", "rax"}
  OBVIOUS
<1>2. DOMAIN args = 1..n /\ \A k \in 1..n : args[k] = k /\ k \in 1..6
  OBVIOUS
<1>3. ASSUME NEW k \in 1..n PROVE Written(args)[ArgRegister[k]] = k
  <2>1. k = CHOOSE j \in DOMAIN args : ArgRegister[j] = ArgRegister[k]
    BY <1>1, <1>2
  <2>. HIDE DEF ArgRegister, KernelRegister
  <2>. QED BY <1>1, <1>2, <2>1 DEF Written
<1>4. ASSUME NEW r \in Registers PROVE Written(args)[r] \in Int
  <2>. HIDE DEF ArgRegister, KernelRegister
  <2>1. CASE \E k \in 1..n : ArgRegister[k] = r
    BY <1>2, <1>3, <2>1
  <2>2. CASE ~\E k \in 1..n : ArgRegister[k] = r
    BY <1>2, <2>2 DEF Written
  <2>. QED BY <2>1, <2>2
<1>5. Written(args) \in [Registers -> Int]
  BY <1>4 DEF Written
<1>6. Written(args)["orig_rax"] = SyscallNumber
  BY DEF Written
<1>. HIDE DEF ArgRegister, KernelRegister
<1>. QED BY <1>1, <1>2, <1>3, <1>5, <1>6

LEMMA CallInitInv == CallInit => CallInv
<1>. SUFFICES ASSUME CallInit PROVE CallInv
  OBVIOUS
<1>1. PICK n \in 0..6 : given = [k \in 1..n |-> k]
  BY DEF CallInit
<1>2. regs = Written(given) /\ regs \in [Registers -> Int]
  BY <1>1, WrittenEffect DEF CallInit
<1>3. task \in [Registers -> Int]
  BY DEF CallInit
<1>4. CallTypeOK
  BY <1>1, <1>2, <1>3 DEF CallInit, CallTypeOK
<1>. QED BY <1>2, <1>4 DEF CallInit, CallInv

(* The call is made with the registers as they were written.               *)
LEMMA CallMadeInv == CallInv /\ CallMade => CallInv'
<1>. SUFFICES ASSUME CallInv, CallMade PROVE CallInv'
  OBVIOUS
<1>1. /\ step = "wait" /\ alive /\ made = <<>> /\ step' = step
      /\ given' = given /\ regs' = regs
      /\ task = Written(given) /\ task \in [Registers -> Int]
  BY DEF CallMade, CallInv, CallTypeOK
<1>2. Asked' = Asked
  BY <1>1 DEF Asked, Written
<1>3. task["orig_rax"] = SyscallNumber
  <2>1. PICK n \in 0..6 : given = [k \in 1..n |-> k]
    BY DEF CallInv, CallTypeOK
  <2>. QED BY <1>1, <2>1, WrittenEffect
<1>4. made' = Asked /\ made' # <<>>
  BY <1>1, <1>3 DEF CallMade, Asked
<1>5. task' \in [Registers -> Int] /\ task'.rax = Answer
  <2>1. task' = [task EXCEPT !["rax"] = Answer]
    BY DEF CallMade
  <2>2. "rax" \in Registers /\ Answer \in Int
    BY DEF Registers, Answer
  <2>. QED BY <1>1, <2>1, <2>2
<1>6. CallTypeOK'
  BY <1>1, <1>5 DEF CallInv, CallTypeOK
<1>. QED BY <1>1, <1>2, <1>4, <1>5, <1>6 DEF CallInv

LEMMA CallNextInv == CallInv /\ [CallNext]_<<callVars, memoryVars>> => CallInv'
<1>. SUFFICES ASSUME CallInv, [CallNext]_<<callVars, memoryVars>> PROVE CallInv'
  OBVIOUS
<1>1. CASE CallMade
  BY <1>1, CallMadeInv
<1>2. ASSUME given' = given
      PROVE  Asked' = Asked /\ Written(given)' = Written(given)
  BY <1>2 DEF Asked, Written
<1>3. CASE CallGone
  BY <1>2, <1>3 DEF CallGone, memoryVars, CallInv, CallTypeOK
<1>4. CASE SetRegs \/ CallResume
  BY <1>2, <1>4 DEF SetRegs, CallResume, memoryVars, CallInv, CallTypeOK
<1>5. CASE CallWait \/ GetRegs
  BY <1>2, <1>5 DEF CallWait, GetRegs, memoryVars, CallInv, CallTypeOK
<1>6. CASE CallReturned \/ UNCHANGED <<callVars, memoryVars>>
  <2>1. UNCHANGED <<step, given, regs, task, made, alive>>
    BY <1>6 DEF CallReturned, callVars, memoryVars
  <2>. QED BY <1>2, <2>1 DEF CallInv, CallTypeOK
<1>7. CASE Killed /\ UNCHANGED callVars
  BY <1>2, <1>7 DEF Killed, callVars, CallInv, CallTypeOK
<1>. QED BY <1>1, <1>3, <1>4, <1>5, <1>6, <1>7 DEF CallNext

(* Whatever child_syscall returns while the task lives is the result of    *)
(* the call, which was made with the arguments it was given.               *)
THEOREM ResultsOfCalls == CallSpec => []ResultOfCall
<1>1. CallInv => ResultOfCall
  <2>. SUFFICES ASSUME CallInv, step = "returned", alive PROVE ResultOfCall
    BY DEF ResultOfCall
  <2>1. PICK n \in 0..6 : given = [k \in 1..n |-> k]
    BY DEF CallInv, CallTypeOK
  <2>2. made = Asked /\ regs.rax = Answer
    BY DEF CallInv
  <2>3. Len(made) = 7 /\ made[1] = SyscallNumber
    BY <2>2 DEF Asked
  <2>4. \A k \in 1..6 : made[k + 1] = Written(given)[KernelRegister[k]]
    BY <2>2 DEF Asked
  <2>5. \A k \in 1..n \ {4} : Written(given)[KernelRegister[k]] = k
    BY <2>1, WrittenEffect
  <2>. QED BY <2>1, <2>2, <2>3, <2>4, <2>5 DEF ResultOfCall
<1>. QED BY <1>1, CallInitInv, CallNextInv, PTL DEF CallSpec
=============================================================================
