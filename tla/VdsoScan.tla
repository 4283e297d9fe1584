------------------------------ MODULE VdsoScan ------------------------------
(***************************************************************************)
(* remove_vdso() of vdso.c at the exec stop of a fresh program: it walks   *)
(* up the stack, word by word, past argc, argv and envp to the auxiliary   *)
(* vector, and makes the entry that names the vDSO one to be ignored.      *)
(* What it does at another stop is ScanStack of Tracer.                    *)
(***************************************************************************)
EXTENDS Memory, Sequences

CONSTANT MaxEntries   \* bound: strings of argv, of envp, entries of auxv

ASSUME ScanAssumption == MaxEntries \in Nat

VARIABLES
  stage,   \* where remove_vdso is
  stack,   \* the words from the stack pointer up
  fresh,   \* the same as the kernel has laid them out
  pos,     \* the word it stands at
  zeros    \* zeroCount

scanVars == <<stage, stack, fresh, pos, zeros>>

ScanIdle ==
  /\ stage = "idle"
  /\ stack = <<>> /\ fresh = <<>>
  /\ pos = 0 /\ zeros = 0

UpTo(S) == UNION {[1..n -> S] : n \in 0..MaxEntries}

(* Words as the code tells them apart: 0, which is AT_NULL; 33, which is   *)
(* AT_SYSINFO_EHDR; 1, which is AT_IGNORE; another.  A type of the vector  *)
(* is not 0 before its end, a value may be anything.  No word of a fresh   *)
(* stack is -1, which the code would take for an error.                    *)
Entry == {"vdso", "ignore", "other"} \X {"null", "vdso", "other"}

Vectors ==
  {v \in UpTo(Entry) :
     \A j, k \in DOMAIN v : v[j][1] = "vdso" /\ v[k][1] = "vdso" => j = k}

(* The vector as words, types and values in turn, AT_NULL at the end.      *)
Words(v) ==
  [k \in 1..2 * Len(v) + 2 |->
     IF k > 2 * Len(v) THEN "null" ELSE v[(k + 1) \div 2][IF k % 2 = 1 THEN 1 ELSE 2]]

FreshStack(argv, envp, v) ==
  <<"other">> \o argv \o <<"null">> \o envp \o <<"null">> \o Words(v)

ScanInit ==
  /\ mem = [a \in Addr |-> 0]
  /\ theirs = {}
  /\ alive \in BOOLEAN
  /\ stage = "skip"
  /\ \E argv, envp \in UpTo({"other"}), v \in Vectors : fresh = FreshStack(argv, envp, v)
  /\ stack = fresh
  /\ pos = 1
  /\ zeros = 0
-----------------------------------------------------------------------------
(* PTRACE_PEEKDATA at pos += 8, until two words are 0.                     *)
SkipWord ==
  /\ stage = "skip" /\ alive
  /\ pos' = pos + 1
  /\ zeros' = IF stack[pos'] = "null" THEN zeros + 1 ELSE zeros
  /\ stage' = IF zeros' = 2 THEN "vector" ELSE "skip"
  /\ UNCHANGED <<memoryVars, stack, fresh>>

(* What the loop does with the type it has read.                           *)
Look(p) ==
  /\ pos' = p
  /\ stage' = CASE stack[p] = "null" -> "done"
                [] stack[p] = "vdso" -> "overwrite"
                [] OTHER -> "search"
  /\ UNCHANGED <<memoryVars, stack, fresh, zeros>>

FirstType == stage = "vector" /\ alive /\ Look(pos + 1)

(* A variant for VdsoRemoved: values are taken for types.                  *)
NextWord == stage = "search" /\ alive /\ Look(pos + 1)

NextType == stage = "search" /\ alive /\ Look(pos + 2)

(* PTRACE_POKEDATA                                                         *)
Overwrite ==
  /\ stage = "overwrite" /\ alive
  /\ stack' = [stack EXCEPT ![pos] = "ignore"]
  /\ stage' = "done"
  /\ UNCHANGED <<memoryVars, fresh, pos, zeros>>

(* ESRCH                                                                   *)
ScanGone ==
  /\ stage \in {"skip", "vector", "search", "overwrite"} /\ ~alive
  /\ stage' = "gone"
  /\ UNCHANGED <<memoryVars, stack, fresh, pos, zeros>>

ScanStep == SkipWord \/ FirstType \/ NextType \/ Overwrite \/ ScanGone

ScanWorld ==
  /\ stage \in {"skip", "vector", "search", "overwrite"}
  /\ Killed
  /\ UNCHANGED scanVars

ScanNext == ScanStep \/ ScanWorld
-----------------------------------------------------------------------------
(* The types of the vector of this stack.                                  *)
TypePlaces ==
  LET ends == {p \in DOMAIN fresh : fresh[p] = "null"}
      second == CHOOSE p \in ends : \E q \in ends : q < p /\ \A r \in ends : r < p => r = q
  IN {p \in DOMAIN fresh : p > second /\ (p - second) % 2 = 1}

(* When remove_vdso is done, no type of the auxiliary vector names the     *)
(* vDSO, and no other word of the stack has changed.                       *)
VdsoRemoved ==
  stage = "done" =>
    stack = [p \in DOMAIN fresh |->
               IF p \in TypePlaces /\ fresh[p] = "vdso" THEN "ignore" ELSE fresh[p]]
=============================================================================
