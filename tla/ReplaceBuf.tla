----------------------------- MODULE ReplaceBuf -----------------------------
(***************************************************************************)
(* replace_buf() of putils.c: it copies len bytes of the tracer to the     *)
(* buffer at dest of the task it holds.  Whole words are poked; for the    *)
(* last bytes, fewer than a word, the word they begin is read, changed and *)
(* written back.                                                           *)
(***************************************************************************)
EXTENDS Memory

CONSTANT
  Neighbours   \* whether other threads store to the bytes behind the buffer

ASSUME ReplaceAssumption == Neighbours \in BOOLEAN

VARIABLES
  at,     \* where replace_buf is
  dest,   \* the address of the buffer
  len,    \* its length
  i,      \* how many bytes have been replaced
  word    \* the last word, as it was read and changed

replaceVars == <<at, dest, len, i, word>>

(* Values of bytes: src[k] is k; the others are negative.                  *)
Old == -1       \* what the program had there
Stored == -2    \* what another thread has stored

ReplaceIdle ==
  /\ at = "idle"
  /\ dest = 0 /\ len = 0 /\ i = 0
  /\ word = [j \in 0..WordSize-1 |-> Old]

(* The buffer is anywhere, also where nothing is mapped.                   *)
ReplaceInit ==
  /\ mem = [a \in Addr |-> Old]
  /\ theirs = {}
  /\ alive \in BOOLEAN
  /\ at = "words"
  /\ dest \in 0..Top
  /\ len \in 0..Top
  /\ i = 0
  /\ word = [j \in 0..WordSize-1 |-> Old]

Buffer == dest .. dest + len - 1

(* What shares the last word with the end of the buffer.                   *)
Behind == {a \in Addr : dest + len <= a /\ a < dest + len + WordSize}

-----------------------------------------------------------------------------
PokeWord ==
  /\ at = "words" /\ i + WordSize <= len
  /\ alive /\ Mapped(dest + i)
  /\ PokeData(dest + i, [j \in 0..WordSize-1 |-> i + j])
  /\ i' = i + WordSize
  /\ UNCHANGED <<at, dest, len, word>>

(* A variant for RestKept: the bytes behind the buffer are not read.       *)
PeekNothing ==
  /\ at = "words" /\ i < len /\ len < i + WordSize
  /\ alive /\ Mapped(dest + i)
  /\ word' = [j \in 0..WordSize-1 |-> i + j]
  /\ at' = "tail"
  /\ UNCHANGED <<memoryVars, dest, len, i>>

PeekTail ==
  /\ at = "words" /\ i < len /\ len < i + WordSize
  /\ alive /\ Mapped(dest + i)
  /\ word' = [j \in 0..WordSize-1 |-> IF i + j < len THEN i + j
                                      ELSE PeekData(dest + i)[j]]
  /\ at' = "tail"
  /\ UNCHANGED <<memoryVars, dest, len, i>>

PokeTail ==
  /\ at = "tail"
  /\ alive
  /\ PokeData(dest + i, word)
  /\ at' = "done"
  /\ UNCHANGED <<dest, len, i, word>>

(* A variant for BufferReplaced: the last bytes, fewer than a word, are    *)
(* left out.                                                               *)
LessThanWordLeft ==
  /\ at = "words" /\ len < i + WordSize
  /\ at' = "done"
  /\ UNCHANGED <<memoryVars, dest, len, i, word>>

NothingLeft ==
  /\ at = "words" /\ len <= i
  /\ at' = "done"
  /\ UNCHANGED <<memoryVars, dest, len, i, word>>

(* ESRCH: the caller is not told.                                          *)
ReplaceGone ==
  /\ at \in {"words", "tail"} /\ i < len
  /\ ~alive
  /\ at' = "done"
  /\ UNCHANGED <<memoryVars, dest, len, i, word>>

(* EIO ends the tracer.                                                    *)
ReplaceFails ==
  /\ at = "words" /\ i < len
  /\ alive /\ ~Mapped(dest + i)
  /\ at' = "failed"
  /\ UNCHANGED <<memoryVars, dest, len, i, word>>

ReplaceStep ==
  PokeWord \/ PeekTail \/ PokeTail \/ NothingLeft \/ ReplaceGone \/ ReplaceFails

(* While the task stands still, its siblings run.                          *)
ReplaceWorld ==
  /\ at \in {"words", "tail"}
  /\ \/ Killed
     \/ \E a \in Addr : (a \in Behind => Neighbours) /\ Store(a, Stored)
  /\ UNCHANGED replaceVars

ReplaceNext == ReplaceStep \/ ReplaceWorld

ReplaceSpec == ReplaceInit /\ [][ReplaceNext]_<<memoryVars, replaceVars>>

-----------------------------------------------------------------------------
(* When replace_buf has returned and the task has not been killed, each    *)
(* byte of the buffer is that of the source, unless another thread has     *)
(* stored to it meanwhile.                                                 *)
BufferReplaced ==
  at = "done" /\ alive =>
    \A a \in Buffer : a \in Addr /\ (mem[a] = a - dest \/ a \in theirs)

(* At any moment, each byte outside the buffer is what the program last    *)
(* made it, whatever part of it shares a word with the buffer.             *)
RestKept ==
  at # "idle" =>
    \A a \in Addr \ Buffer : mem[a] = IF a \in theirs THEN Stored ELSE Old
=============================================================================
