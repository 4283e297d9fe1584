------------------------------- MODULE Memory -------------------------------
(***************************************************************************)
(* The memory of a traced program, as the tracer reads and writes it: one  *)
(* word at a time, at any byte address, while the task it holds may be     *)
(* killed and other threads of the program store to their own variables.   *)
(*                                                                         *)
(* The addresses are those of one mapping and of what follows it, which is *)
(* not mapped.  A request that touches a byte outside fails with EIO.      *)
(***************************************************************************)
EXTENDS Integers

CONSTANTS
  Top,       \* the first address that is not mapped
  WordSize   \* sizeof(long), 8 in the code

ASSUME MemoryAssumption ==
  /\ Top \in Nat
  /\ WordSize \in Nat \ {0}

VARIABLES
  mem,     \* the bytes of the mapping
  theirs,  \* the bytes another thread has stored to since the call began
  alive    \* the task the tracer holds has not been killed

memoryVars == <<mem, theirs, alive>>

Addr == 0..Top-1

Word(a) == a .. a + WordSize - 1

Mapped(a) == Word(a) \subseteq Addr

(* PTRACE_PEEKDATA                                                         *)
PeekData(a) == [j \in 0..WordSize-1 |-> mem[a + j]]

(* PTRACE_POKEDATA of the word with these bytes                            *)
PokeData(a, bytes) ==
  /\ mem' = [b \in Addr |-> IF b \in Word(a) THEN bytes[b - a] ELSE mem[b]]
  /\ UNCHANGED <<theirs, alive>>

(* Another thread stores to a byte of its own.                             *)
Store(a, value) ==
  /\ mem' = [mem EXCEPT ![a] = value]
  /\ theirs' = theirs \cup {a}
  /\ UNCHANGED alive

(* SIGKILL                                                                 *)
Killed ==
  /\ alive
  /\ alive' = FALSE
  /\ UNCHANGED <<mem, theirs>>
=============================================================================
