----------------------------- MODULE TracerData -----------------------------
(***************************************************************************)
(* The data of the tracer for TLC: its functions that go through the       *)
(* memory or the registers of a task, its table under any sequence of      *)
(* operations, and the table as the test program uses it.  The tracer is   *)
(* one thread and in one of these at a time.                               *)
(***************************************************************************)
EXTENDS ChildMemory, ChildSyscall, PrintRandom, TLC

dataVars == <<vars, callVars, hashVars, printVars>>

TableIdle == hash = [t \in Tid |-> 0] /\ HashEmpty /\ PrintIdle

(* A call of replace_buf, read_child_c_string or remove_vdso.              *)
MemoryMode == Init /\ CallIdle /\ TableIdle

MemoryIdle ==
  /\ ReplaceIdle /\ ReadIdle /\ ScanIdle
  /\ mem = [a \in Addr |-> 0] /\ theirs = {}

(* A call of child_syscall.                                                *)
CallMode == MemoryIdle /\ alive \in BOOLEAN /\ CallInit /\ TableIdle

TableMode == MemoryIdle /\ alive = FALSE /\ CallIdle /\ HashInit /\ PrintIdle

(* With the hashes that differ in their last bit alone.                    *)
ProgramMode ==
  /\ MemoryIdle /\ alive = FALSE /\ CallIdle
  /\ HashInit /\ PrintInit
  /\ \A t \in Tid : hash[t] \in {0, 1}

DataInit == MemoryMode \/ CallMode \/ TableMode \/ ProgramMode

InMemory == at # "idle" \/ where # "idle" \/ stage # "idle"
InCall == step # "idle"
InProgram == \E t \in Tid : line[t] # "none"

DataNext ==
  \/ InMemory /\ Next /\ UNCHANGED <<callVars, hashVars, printVars>>
  \/ InCall /\ CallNext /\ UNCHANGED <<replaceVars, readVars, scanVars, hashVars, printVars>>
  \/ InProgram /\ PrintNext /\ UNCHANGED <<vars, callVars>>
  \/ /\ ~InMemory /\ ~InCall /\ ~InProgram
     /\ HashNext
     /\ UNCHANGED <<vars, callVars, printVars>>

DataSpec == DataInit /\ [][DataNext]_dataVars

(* Two bytes of standard input, which are not the same.                    *)
TwoBytes == <<1, 0>>

(* The ids are interchangeable here: main of the test program can have any.*)
Symmetry == Permutations(Tid)
=============================================================================
