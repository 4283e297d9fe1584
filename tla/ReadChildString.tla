--------------------------- MODULE ReadChildString ---------------------------
(***************************************************************************)
(* read_child_c_string() of putils.c: it copies the string at the address  *)
(* it is given from the task it holds to a buffer of its own, a word at a  *)
(* time.  The string stays as it is meanwhile; what another thread can do  *)
(* to it is RewritePath of Ptrace.                                         *)
(***************************************************************************)
EXTENDS Memory, Sequences

CONSTANT
  MaxBuffer   \* MAX_BUFFER_SIZE, 1024 in the code

ASSUME ReadAssumption == MaxBuffer \in Nat \ {0, 1}

VARIABLES
  where,    \* where read_child_c_string is
  start,    \* the address it was given
  raddr,    \* the next address to read
  buffer    \* what has been read; length is Len(buffer)

readVars == <<where, start, raddr, buffer>>

(* What a byte can be, as far as the code tells bytes apart: the end of a  *)
(* string, a byte of a word that looks like -1, another.                   *)
Byte == {0, 1, 255}

ReadIdle == where = "idle" /\ start = 0 /\ raddr = 0 /\ buffer = <<>>

ReadInit ==
  /\ mem \in [Addr -> Byte]
  /\ theirs = {}
  /\ alive \in BOOLEAN
  /\ where = "loop"
  /\ start \in 0..Top
  /\ raddr = start
  /\ buffer = <<>>

Least(m, n) == IF m <= n THEN m ELSE n

(* strnlen(p, sizeof(long))                                                *)
BytesRead(w) ==
  CHOOSE n \in 0..WordSize :
    /\ \A j \in 0..n-1 : w[j] # 0
    /\ n < WordSize => w[n] = 0

IsMinusOne(w) == \A j \in 0..WordSize-1 : w[j] = 255
-----------------------------------------------------------------------------
(* A variant for StringRead: the last word is not cut to the room left.    *)
ReadWordUncut ==
  /\ where = "loop"
  /\ alive /\ Mapped(raddr) /\ ~IsMinusOne(PeekData(raddr))
  /\ LET w == PeekData(raddr)
         n == BytesRead(w)
     IN /\ buffer' = buffer \o [j \in 1..n |-> w[j - 1]]
        /\ raddr' = raddr + n
        /\ where' = IF n < WordSize \/ Len(buffer) + n >= MaxBuffer - 1
                    THEN "done" ELSE "loop"
  /\ UNCHANGED <<memoryVars, start>>

(* One turn of the loop: a word with a 0 in it is the last, and so is the  *)
(* one that fills the buffer.                                              *)
ReadWord ==
  /\ where = "loop"
  /\ alive /\ Mapped(raddr) /\ ~IsMinusOne(PeekData(raddr))
  /\ LET w == PeekData(raddr)
         room == MaxBuffer - 1 - Len(buffer)
         n == Least(BytesRead(w), room)
     IN /\ buffer' = buffer \o [j \in 1..n |-> w[j - 1]]
        /\ raddr' = raddr + n
        /\ where' = IF BytesRead(w) < WordSize \/ room <= BytesRead(w)
                    THEN "done" ELSE "loop"
  /\ UNCHANGED <<memoryVars, start>>

(* ESRCH: the answer is NULL.                                              *)
ReadGone ==
  /\ where = "loop" /\ ~alive
  /\ where' = "null"
  /\ UNCHANGED <<memoryVars, start, raddr, buffer>>

(* EIO, or a word that is -1, which is taken for an error.                 *)
ReadFails ==
  /\ where = "loop" /\ alive
  /\ Mapped(raddr) => IsMinusOne(PeekData(raddr))
  /\ where' = "failed"
  /\ UNCHANGED <<memoryVars, start, raddr, buffer>>

ReadStep == ReadWord \/ ReadGone \/ ReadFails

ReadWorld == where = "loop" /\ Killed /\ UNCHANGED readVars

ReadNext == ReadStep \/ ReadWorld
-----------------------------------------------------------------------------
(* The string at start: what stands before the first 0.                    *)
StringEnd ==
  CHOOSE e \in start..Top :
    /\ \A a \in start..e-1 : mem[a] # 0
    /\ e < Top => mem[e] = 0

(* What read_child_c_string returns is the string, cut to what its buffer  *)
(* holds, and nothing of what follows the string.                          *)
StringRead ==
  where = "done" =>
    buffer = [j \in 1..Least(StringEnd - start, MaxBuffer - 1) |-> mem[start + j - 1]]
=============================================================================
