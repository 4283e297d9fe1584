-------------------------- MODULE ChildMemoryProofs --------------------------
(***************************************************************************)
(* replace_buf, for every size of a word, every buffer and every mapping:  *)
(* the bytes of the buffer are replaced, and if nobody stores to what      *)
(* shares its last word, nothing else changes.                             *)
(***************************************************************************)
EXTENDS ChildMemory, Induction

ReplaceTypeOK ==
  /\ mem \in [Addr -> Int]
  /\ theirs \subseteq Addr
  /\ alive \in BOOLEAN
  /\ at \in {"words", "tail", "done", "failed"}
  /\ dest \in Nat /\ len \in Nat /\ i \in Nat
  /\ word \in [0..WordSize-1 -> Int]

(* The bytes before i have been replaced.                                  *)
Replaced(n) ==
  \A k \in 0..n-1 : dest + k \in Addr /\ (mem[dest + k] = k \/ dest + k \in theirs)

Progress ==
  /\ i <= len
  /\ Replaced(i)
  /\ at = "done" /\ alive => Replaced(len)

(* The last word: what it will put into the buffer, and behind it.         *)
TailWord ==
  at = "tail" =>
    /\ i < len /\ len < i + WordSize
    /\ Mapped(dest + i)
    /\ \A j \in 0..WordSize-1 : i + j < len => word[j] = i + j
    /\ ~Neighbours =>
         \A j \in 0..WordSize-1 : len <= i + j => word[j] = mem[dest + i + j]

Untouched ==
  ~Neighbours =>
    \A a \in Addr \ Buffer : mem[a] = IF a \in theirs THEN Stored ELSE Old

Running ==
  /\ where = "idle" /\ stage = "idle"
  /\ ReplaceTypeOK
  /\ Progress
  /\ TailWord
  /\ Untouched

ReplaceInv == at = "idle" \/ Running
-----------------------------------------------------------------------------
(* Reading and writing a word touches the bytes of that word only.         *)
LEMMA PokeEffect ==
  ASSUME NEW a \in Nat, NEW bytes, mem \in [Addr -> Int],
         bytes \in [0..WordSize-1 -> Int], PokeData(a, bytes)
  PROVE  /\ mem' \in [Addr -> Int]
         /\ \A b \in Addr : b \notin Word(a) => mem'[b] = mem[b]
         /\ \A j \in 0..WordSize-1 : a + j \in Addr => mem'[a + j] = bytes[j]
         /\ theirs' = theirs /\ alive' = alive
<1> USE MemoryAssumption DEF Addr, Word
<1>1. \A b \in Word(a) : b - a \in 0..WordSize-1
  OBVIOUS
<1>2. mem' \in [Addr -> Int]
  BY <1>1 DEF PokeData
<1>3. \A j \in 0..WordSize-1 : a + j \in Word(a) /\ (a + j) - a = j
  OBVIOUS
<1>4. \A j \in 0..WordSize-1 : a + j \in Addr => mem'[a + j] = bytes[j]
  BY <1>3 DEF PokeData
<1>5. QED
  BY <1>2, <1>4 DEF PokeData

(* A store of another thread changes one byte and records it.              *)
LEMMA StoreEffect ==
  ASSUME NEW a \in Addr, mem \in [Addr -> Int], theirs \subseteq Addr, Store(a, Stored)
  PROVE  /\ mem' \in [Addr -> Int]
         /\ mem'[a] = Stored
         /\ \A b \in Addr \ {a} : mem'[b] = mem[b]
         /\ theirs' = theirs \cup {a}
         /\ theirs' \subseteq Addr
         /\ alive' = alive
BY DEF Store, Stored

(* The invariant holds when replace_buf is called.                         *)
LEMMA ReplaceInitInv == Init => ReplaceInv
<1> SUFFICES ASSUME ReplaceInit, ReadIdle, ScanIdle PROVE Running
  BY DEF Init, ReplaceInv, ReplaceIdle
<1> USE MemoryAssumption DEF Addr, Old
<1>1. ReplaceTypeOK
  BY DEF ReplaceInit, ReplaceTypeOK
<1>2. Progress
  BY DEF ReplaceInit, Progress, Replaced
<1>3. TailWord /\ Untouched
  BY DEF ReplaceInit, TailWord, Untouched
<1>4. QED
  BY <1>1, <1>2, <1>3 DEF Running, ReadIdle, ScanIdle

(* Each step of replace_buf, of its task and of the task's siblings keeps  *)
(* the invariant.                                                          *)
LEMMA PokeWordInv ==
  ASSUME Running, PokeWord
  PROVE  ReplaceTypeOK' /\ Progress' /\ TailWord' /\ Untouched'
<1> USE MemoryAssumption
<1> DEFINE bytes == [j \in 0..WordSize-1 |-> i + j]
<1>1. /\ mem \in [Addr -> Int] /\ dest \in Nat /\ len \in Nat /\ i \in Nat
      /\ bytes \in [0..WordSize-1 -> Int]
  BY DEF Running, ReplaceTypeOK
<1>2. PokeData(dest + i, bytes)
  BY DEF PokeWord
<1>3. /\ mem' \in [Addr -> Int]
      /\ \A b \in Addr : b \notin Word(dest + i) => mem'[b] = mem[b]
      /\ \A j \in 0..WordSize-1 : dest + i + j \in Addr => mem'[dest + i + j] = bytes[j]
      /\ theirs' = theirs /\ alive' = alive
  <2> HIDE DEF bytes
  <2> QED BY <1>1, <1>2, PokeEffect
<1>4. /\ at = "words" /\ at' = "words" /\ i' = i + WordSize /\ i' <= len
      /\ dest' = dest /\ len' = len /\ word' = word /\ Word(dest + i) \subseteq Addr
  BY <1>1 DEF PokeWord, Mapped
<1>5. ReplaceTypeOK'
  BY <1>1, <1>3, <1>4 DEF Running, ReplaceTypeOK, Addr
<1>6. Progress'
  <2>1. ASSUME NEW k \in 0..i'-1
        PROVE  dest + k \in Addr /\ (mem'[dest + k] = k \/ dest + k \in theirs)
    <3>1. CASE k < i
      <4>1. dest + k \in Addr /\ dest + k \notin Word(dest + i)
            /\ (mem[dest + k] = k \/ dest + k \in theirs)
        BY <1>1, <1>4, <3>1 DEF Running, Progress, Replaced, Word
      <4>2. QED BY <4>1, <1>3
    <3>2. CASE i <= k
      <4>1. k - i \in 0..WordSize-1 /\ dest + k = dest + i + (k - i)
        BY <1>1, <1>4, <3>2
      <4>2. dest + k \in Addr
        BY <1>1, <1>4, <4>1 DEF Word
      <4>3. mem'[dest + k] = bytes[k - i]
        BY <1>3, <4>1, <4>2
      <4>4. bytes[k - i] = k
        BY <4>1, <1>1
      <4>5. QED BY <4>2, <4>3, <4>4
    <3>3. QED BY <3>1, <3>2, <1>1, <1>4
  <2>2. QED BY <2>1, <1>3, <1>4 DEF Progress, Replaced
<1>7. TailWord'
  BY <1>4 DEF TailWord
<1>8. Untouched'
  <2>1. ASSUME NEW a \in Addr \ Buffer PROVE mem'[a] = mem[a]
    BY <1>1, <1>3, <1>4 DEF Buffer, Word, Addr
  <2>2. QED
    BY <2>1, <1>3, <1>4 DEF Running, Untouched, Buffer
<1>9. QED BY <1>5, <1>6, <1>7, <1>8

LEMMA PeekTailInv ==
  ASSUME Running, PeekTail
  PROVE  ReplaceTypeOK' /\ Progress' /\ TailWord' /\ Untouched'
<1> USE MemoryAssumption
<1>1. /\ ReplaceTypeOK /\ at = "words" /\ at' = "tail"
      /\ i < len /\ len < i + WordSize /\ Mapped(dest + i)
      /\ UNCHANGED <<mem, theirs, alive, dest, len, i>>
      /\ word' = [j \in 0..WordSize-1 |-> IF i + j < len THEN i + j
                                          ELSE PeekData(dest + i)[j]]
  BY DEF Running, PeekTail, memoryVars
<1>2. \A j \in 0..WordSize-1 :
        dest + i + j \in Addr /\ PeekData(dest + i)[j] = mem[dest + i + j]
  BY <1>1 DEF PeekData, Mapped, Word, ReplaceTypeOK
<1>3. word' \in [0..WordSize-1 -> Int]
  BY <1>1, <1>2 DEF ReplaceTypeOK
<1>4. ReplaceTypeOK'
  BY <1>1, <1>3 DEF ReplaceTypeOK, Addr
<1>5. Progress'
  BY <1>1 DEF Running, Progress, Replaced
<1>6. TailWord'
  BY <1>1, <1>2 DEF TailWord, Mapped, Word, Addr, ReplaceTypeOK
<1>7. Untouched'
  BY <1>1 DEF Running, Untouched, Buffer
<1>8. QED BY <1>4, <1>5, <1>6, <1>7

LEMMA PokeTailInv ==
  ASSUME Running, PokeTail
  PROVE  ReplaceTypeOK' /\ Progress' /\ TailWord' /\ Untouched'
<1> USE MemoryAssumption
<1>1. /\ ReplaceTypeOK /\ at = "tail" /\ at' = "done"
      /\ UNCHANGED <<dest, len, i, word>>
      /\ PokeData(dest + i, word)
  BY DEF Running, PokeTail
<1>2. /\ i < len /\ len < i + WordSize /\ Word(dest + i) \subseteq Addr
      /\ \A j \in 0..WordSize-1 : i + j < len => word[j] = i + j
      /\ ~Neighbours =>
           \A j \in 0..WordSize-1 : len <= i + j => word[j] = mem[dest + i + j]
  BY <1>1 DEF Running, TailWord, Mapped
<1>3. /\ mem' \in [Addr -> Int]
      /\ \A b \in Addr : b \notin Word(dest + i) => mem'[b] = mem[b]
      /\ \A j \in 0..WordSize-1 : dest + i + j \in Addr => mem'[dest + i + j] = word[j]
      /\ theirs' = theirs /\ alive' = alive
  BY <1>1, PokeEffect DEF ReplaceTypeOK
<1>4. ReplaceTypeOK'
  BY <1>1, <1>3 DEF ReplaceTypeOK, Addr
<1>5. ASSUME NEW k \in 0..len-1
      PROVE  dest + k \in Addr /\ (mem'[dest + k] = k \/ dest + k \in theirs)
  <2>1. CASE k < i
    <3>1. dest + k \in Addr /\ dest + k \notin Word(dest + i)
          /\ (mem[dest + k] = k \/ dest + k \in theirs)
      BY <1>1, <2>1 DEF Running, Progress, Replaced, Word, ReplaceTypeOK
    <3>2. QED BY <3>1, <1>3
  <2>2. CASE i <= k
    <3>1. k - i \in 0..WordSize-1 /\ dest + k = dest + i + (k - i) /\ i + (k - i) = k
      BY <1>1, <1>2, <2>2 DEF ReplaceTypeOK
    <3>2. dest + k \in Addr
      BY <1>1, <1>2, <3>1 DEF Word, ReplaceTypeOK
    <3>3. PICK j \in 0..WordSize-1 : dest + k = dest + i + j /\ i + j = k
      BY <3>1
    <3>4. mem'[dest + k] = word[j]
      BY <1>3, <3>2, <3>3
    <3>5. word[j] = k
      BY <1>1, <1>2, <3>3 DEF ReplaceTypeOK
    <3>6. QED BY <3>2, <3>4, <3>5
  <2>3. QED BY <2>1, <2>2, <1>1 DEF ReplaceTypeOK
<1>6. Progress'
  BY <1>1, <1>2, <1>3, <1>5 DEF Progress, Replaced, ReplaceTypeOK
<1>7. TailWord'
  BY <1>1 DEF TailWord
<1>8. Untouched'
  <2> SUFFICES ASSUME ~Neighbours, NEW a \in Addr \ Buffer PROVE mem'[a] = mem[a]
    BY <1>1, <1>3 DEF Running, Untouched, Buffer
  <2>1. CASE a \notin Word(dest + i)
    BY <2>1, <1>3
  <2>2. CASE a \in Word(dest + i)
    <3>1. /\ a - dest - i \in 0..WordSize-1 /\ a = dest + i + (a - dest - i)
          /\ len <= i + (a - dest - i)
      BY <2>2, <1>1, <1>2 DEF Word, Buffer, ReplaceTypeOK, Addr
    <3>2. mem'[a] = word[a - dest - i] /\ word[a - dest - i] = mem[a]
      BY <3>1, <1>2, <1>3
    <3>3. QED BY <3>2
  <2>3. QED BY <2>1, <2>2
<1>9. QED BY <1>4, <1>6, <1>7, <1>8

LEMMA ReturnInv ==
  ASSUME Running, NothingLeft \/ ReplaceGone \/ ReplaceFails
  PROVE  ReplaceTypeOK' /\ Progress' /\ TailWord' /\ Untouched'
<1>1. /\ ReplaceTypeOK /\ at \in {"words", "tail"} /\ at' \in {"done", "failed"}
      /\ at' = "done" /\ alive => len <= i
      /\ UNCHANGED <<mem, theirs, alive, dest, len, i, word>>
  BY DEF Running, NothingLeft, ReplaceGone, ReplaceFails, memoryVars
<1>2. ReplaceTypeOK'
  BY <1>1 DEF ReplaceTypeOK, Addr
<1>3. Progress'
  BY <1>1 DEF Running, Progress, Replaced, ReplaceTypeOK
<1>4. TailWord' /\ Untouched'
  BY <1>1 DEF Running, TailWord, Untouched, Buffer
<1>5. QED BY <1>2, <1>3, <1>4

LEMMA WorldInv ==
  ASSUME Running, ReplaceWorld
  PROVE  ReplaceTypeOK' /\ Progress' /\ TailWord' /\ Untouched'
<1> USE MemoryAssumption
<1>1. /\ ReplaceTypeOK /\ at \in {"words", "tail"}
      /\ UNCHANGED <<at, dest, len, i, word>>
  BY DEF Running, ReplaceWorld, replaceVars
<1>2. CASE Killed
  <2>1. alive' = FALSE /\ UNCHANGED <<mem, theirs>>
    BY <1>2 DEF Killed
  <2>2. ReplaceTypeOK'
    BY <1>1, <2>1 DEF ReplaceTypeOK, Addr
  <2>3. Progress' /\ TailWord'
    BY <1>1, <2>1 DEF Running, Progress, Replaced, TailWord, Mapped, Word, Addr
  <2>4. Untouched'
    BY <1>1, <2>1 DEF Running, Untouched, Buffer, Addr
  <2>5. QED BY <2>2, <2>3, <2>4
<1>3. ASSUME NEW a \in Addr, a \in Behind => Neighbours, Store(a, Stored)
      PROVE  ReplaceTypeOK' /\ Progress' /\ TailWord' /\ Untouched'
  <2>1. /\ mem' \in [Addr -> Int]
        /\ mem'[a] = Stored
        /\ \A b \in Addr \ {a} : mem'[b] = mem[b]
        /\ theirs' = theirs \cup {a}
        /\ theirs' \subseteq Addr
        /\ alive' = alive
    BY <1>1, <1>3, StoreEffect DEF ReplaceTypeOK
  <2>2. ReplaceTypeOK'
    BY <1>1, <2>1 DEF ReplaceTypeOK, Addr
  <2>3. Progress'
    <3>1. Replaced(i) => Replaced(i)'
      BY <1>1, <2>1 DEF Replaced, Addr
    <3>2. QED BY <3>1, <1>1 DEF Running, Progress
  <2>4. TailWord'
    <3> SUFFICES ASSUME at = "tail", ~Neighbours,
                        NEW j \in 0..WordSize-1, len <= i + j
                 PROVE  mem'[dest + i + j] = mem[dest + i + j]
      BY <1>1 DEF Running, TailWord, Mapped, Word, Addr
    <3>1. dest + i + j \in Addr /\ dest + i + j \in Behind
      BY <1>1 DEF Running, TailWord, Mapped, Word, Behind, ReplaceTypeOK
    <3>2. QED BY <3>1, <1>3, <2>1
  <2>5. Untouched'
    BY <1>1, <2>1 DEF Running, Untouched, Buffer, Addr
  <2>6. QED BY <2>2, <2>3, <2>4, <2>5
<1>4. QED BY <1>2, <1>3 DEF ReplaceWorld

LEMMA ReplaceNextInv == ReplaceInv /\ [Next]_vars => ReplaceInv'
<1> SUFFICES ASSUME ReplaceInv, [Next]_vars PROVE ReplaceInv'
  OBVIOUS
<1>1. CASE at = "idle"
  BY <1>1 DEF Next, vars, replaceVars, ReplaceNext, ReplaceStep, ReplaceWorld, PokeWord,
     PeekTail, PokeTail, NothingLeft, ReplaceGone, ReplaceFails, ReplaceInv
<1>2. CASE Running
  <2>1. CASE ReplaceNext /\ UNCHANGED <<readVars, scanVars>>
    <3>1. ReplaceTypeOK' /\ Progress' /\ TailWord' /\ Untouched'
      BY <1>2, <2>1, PokeWordInv, PeekTailInv, PokeTailInv, ReturnInv, WorldInv
         DEF ReplaceNext, ReplaceStep
    <3>2. QED BY <1>2, <2>1, <3>1 DEF ReplaceInv, Running, readVars, scanVars
  <2>2. ~ReadNext
    BY <1>2 DEF Running, ReadNext, ReadStep, ReadWorld, ReadWord, ReadGone, ReadFails
  <2>3. ~ScanNext
    BY <1>2 DEF Running, ScanNext, ScanStep, ScanWorld, SkipWord, FirstType, NextType,
       Overwrite, ScanGone
  <2>4. CASE UNCHANGED vars
    BY <1>2, <2>4 DEF vars, memoryVars, replaceVars, readVars, scanVars, ReplaceInv, Running,
       ReplaceTypeOK, Progress, Replaced, TailWord, Untouched, Mapped, Word, Addr, Buffer
  <2>5. QED BY <2>1, <2>2, <2>3, <2>4 DEF Next
<1>3. QED BY <1>1, <1>2 DEF ReplaceInv

LEMMA ReplaceInvariance == Spec => []ReplaceInv
<1>1. QED BY ReplaceInitInv, ReplaceNextInv, PTL DEF Spec

(* replace_buf returns with the whole buffer replaced, whatever the sizes  *)
(* of word and buffer (the two loops of replace_buf).                      *)
THEOREM BuffersReplaced == Spec => []BufferReplaced
<1>1. ReplaceInv => BufferReplaced
  <2> SUFFICES ASSUME Running, at = "done", alive, NEW a \in Buffer
               PROVE  a \in Addr /\ (mem[a] = a - dest \/ a \in theirs)
    BY DEF ReplaceInv, BufferReplaced
  <2>1. a - dest \in 0..len-1 /\ dest + (a - dest) = a
    BY DEF Running, ReplaceTypeOK, Buffer
  <2>2. Replaced(len)
    BY DEF Running, Progress
  <2>3. QED BY <2>1, <2>2 DEF Replaced
<1>2. QED BY <1>1, ReplaceInvariance, PTL

(* Where no other thread stores to what shares the last word of the        *)
(* buffer, nothing outside the buffer is lost (the read of the last word). *)
THEOREM RestIsKept == ASSUME ~Neighbours PROVE Spec => []RestKept
<1>1. ReplaceInv => RestKept
  BY DEF ReplaceInv, RestKept, Running, Untouched
<1>2. QED BY <1>1, ReplaceInvariance, PTL
-----------------------------------------------------------------------------
(* read_child_c_string: what it has read are the bytes from start on, none *)
(* of them 0, and it is done where its buffer is full or the next one is.  *)
HaveRead ==
  /\ at = "idle" /\ stage = "idle"
  /\ where \in {"loop", "done", "null", "failed"}
  /\ mem \in [Addr -> Byte]
  /\ start \in 0..Top
  /\ buffer \in Seq(Byte)
  /\ Len(buffer) <= MaxBuffer - 1 /\ start + Len(buffer) <= Top
  /\ raddr = start + Len(buffer)
  /\ \A k \in 1..Len(buffer) : buffer[k] = mem[start + k - 1] /\ buffer[k] # 0
  /\ where = "done" =>
       Len(buffer) = MaxBuffer - 1 \/ (raddr < Top /\ mem[raddr] = 0)

ReadInv == where = "idle" \/ HaveRead

(* strnlen finds the first 0 of a word, if there is one.                   *)
LEMMA BytesReadEffect ==
  ASSUME NEW w
  PROVE  /\ BytesRead(w) \in 0..WordSize
         /\ \A j \in 0..BytesRead(w)-1 : w[j] # 0
         /\ BytesRead(w) < WordSize => w[BytesRead(w)] = 0
<1>. USE MemoryAssumption
<1>. DEFINE Ends == {n \in 0..WordSize : n < WordSize => w[n] = 0}
<1>1. WordSize \in Ends /\ Ends \in SUBSET Nat
  OBVIOUS
<1>2. PICK n \in Ends : \A m \in Ends : n <= m
  <2>. HIDE DEF Ends
  <2>. QED BY <1>1, LeastNat
<1>3. n \in 0..WordSize /\ (\A j \in 0..n-1 : w[j] # 0) /\ (n < WordSize => w[n] = 0)
  BY <1>2
<1>. QED BY <1>3 DEF BytesRead

(* The string at start ends at its first 0, or with the mapping.           *)
LEMMA StringEndEffect ==
  ASSUME start \in 0..Top
  PROVE  /\ StringEnd \in start..Top
         /\ \A a \in start..StringEnd-1 : mem[a] # 0
         /\ StringEnd < Top => mem[StringEnd] = 0
<1>. USE MemoryAssumption
<1>. DEFINE Ends == {e \in start..Top : e < Top => mem[e] = 0}
<1>1. Top \in Ends /\ Ends \in SUBSET Nat
  OBVIOUS
<1>2. PICK e \in Ends : \A m \in Ends : e <= m
  <2>. HIDE DEF Ends
  <2>. QED BY <1>1, LeastNat
<1>3. e \in start..Top /\ (\A a \in start..e-1 : mem[a] # 0) /\ (e < Top => mem[e] = 0)
  BY <1>2
<1>. QED BY <1>3 DEF StringEnd

LEMMA ReadInitInv == Init => ReadInv
<1>. SUFFICES ASSUME ReplaceIdle, ReadInit, ScanIdle PROVE HaveRead
  BY DEF Init, ReadInv, ReadIdle
<1>1. buffer = <<>> /\ buffer \in Seq(Byte) /\ Len(buffer) = 0
  BY DEF ReadInit
<1>. QED BY <1>1, MemoryAssumption, ReadAssumption
         DEF ReplaceIdle, ScanIdle, ReadInit, HaveRead

(* One sequence behind another.                                            *)
LEMMA Joined ==
  ASSUME NEW S, NEW s \in Seq(S), NEW t \in Seq(S), NEW r, r = s \o t
  PROVE  /\ r \in Seq(S) /\ Len(r) = Len(s) + Len(t)
         /\ \A p \in 1..Len(s) + Len(t) : r[p] = IF p <= Len(s) THEN s[p] ELSE t[p - Len(s)]
OBVIOUS

(* One more word of the string.                                            *)
LEMMA ReadWordInv ==
  ASSUME HaveRead, ReadWord, UNCHANGED <<replaceVars, scanVars>>
  PROVE  HaveRead'
<1>. USE MemoryAssumption, ReadAssumption
<1>. DEFINE w == PeekData(raddr)
            read == BytesRead(w)
            room == MaxBuffer - 1 - Len(buffer)
            n == Least(read, room)
            more == [j \in 1..n |-> w[j - 1]]
<1>1. /\ start \in Nat /\ raddr \in Nat /\ Len(buffer) \in Nat /\ room \in Nat
      /\ raddr = start + Len(buffer)
      /\ mem \in [Addr -> Byte] /\ raddr + WordSize <= Top
  <2>1. /\ start \in Nat /\ Len(buffer) \in Nat /\ Len(buffer) <= MaxBuffer - 1
        /\ raddr = start + Len(buffer) /\ mem \in [Addr -> Byte]
    BY DEF HaveRead
  <2>2. raddr + WordSize - 1 \in Addr
    BY <2>1 DEF ReadWord, Mapped, Word
  <2>. QED BY <2>1, <2>2 DEF Addr
<1>2. /\ read \in 0..WordSize
      /\ \A j \in 0..read-1 : w[j] # 0
      /\ read < WordSize => w[read] = 0
  <2>. HIDE DEF w
  <2>. QED BY BytesReadEffect
<1>3. \A j \in 0..WordSize-1 : w[j] = mem[raddr + j] /\ w[j] \in Byte
  BY <1>1 DEF PeekData, Addr
<1>. HIDE DEF w, read
<1>4. n \in 0..WordSize /\ n <= read /\ n <= room
  BY <1>1, <1>2 DEF Least
<1>5. /\ buffer' = buffer \o more
      /\ raddr' = raddr + n
      /\ where' = IF read < WordSize \/ room <= read THEN "done" ELSE "loop"
      /\ UNCHANGED <<mem, start, at, stage>>
  BY DEF ReadWord, w, read, memoryVars, replaceVars, scanVars
<1>6. more \in Seq(Byte) /\ Len(more) = n /\ (\A j \in 1..n : more[j] = w[j - 1])
  BY <1>3, <1>4
<1>7. /\ buffer' \in Seq(Byte) /\ Len(buffer') = Len(buffer) + n
      /\ \A k \in 1..Len(buffer) : buffer'[k] = buffer[k]
      /\ \A j \in 1..n : buffer'[Len(buffer) + j] = w[j - 1]
  <2>0. buffer \in Seq(Byte)
    BY DEF HaveRead
  <2>. HIDE DEF more, n, room
  <2>1. /\ buffer \in Seq(Byte) /\ more \in Seq(Byte) /\ buffer' = buffer \o more
        /\ Len(more) = n /\ \A j \in 1..n : more[j] = w[j - 1]
    BY <1>5, <1>6, <2>0
  <2>2. /\ buffer' \in Seq(Byte) /\ Len(buffer') = Len(buffer) + Len(more)
        /\ \A p \in 1..Len(buffer) + Len(more) :
             buffer'[p] = IF p <= Len(buffer) THEN buffer[p] ELSE more[p - Len(buffer)]
    <3>1. buffer \in Seq(Byte) /\ more \in Seq(Byte) /\ buffer' = buffer \o more
      BY <2>1
    <3>2. \A r : r = buffer \o more =>
            /\ r \in Seq(Byte) /\ Len(r) = Len(buffer) + Len(more)
            /\ \A p \in 1..Len(buffer) + Len(more) :
                 r[p] = IF p <= Len(buffer) THEN buffer[p] ELSE more[p - Len(buffer)]
      BY <3>1, Joined, ZenonT(40)
    <3>. QED BY <3>1, <3>2, Zenon
  <2>3. Len(buffer) \in Nat /\ n \in Nat
    BY <1>1, <1>4
  <2>4. /\ buffer' \in Seq(Byte) /\ Len(buffer') = Len(buffer) + n
        /\ \A p \in 1..Len(buffer) + n :
             buffer'[p] = IF p <= Len(buffer) THEN buffer[p] ELSE more[p - Len(buffer)]
    BY <2>1, <2>2
  <2>5. ASSUME NEW k \in 1..Len(buffer)
        PROVE  buffer'[k] = buffer[k]
    BY <2>3, <2>4
  <2>6. ASSUME NEW j \in 1..n
        PROVE  buffer'[Len(buffer) + j] = w[j - 1]
    <3>1. /\ Len(buffer) + j \in 1..Len(buffer) + n /\ ~(Len(buffer) + j <= Len(buffer))
          /\ Len(buffer) + j - Len(buffer) = j
      BY <2>3
    <3>2. buffer'[Len(buffer) + j] = more[Len(buffer) + j - Len(buffer)]
      BY <2>4, <3>1
    <3>. QED BY <2>1, <3>1, <3>2
  <2>. QED BY <2>4, <2>5, <2>6
<1>8. ASSUME NEW k \in 1..Len(buffer')
      PROVE  buffer'[k] = mem[start + k - 1] /\ buffer'[k] # 0
  <2>1. CASE k <= Len(buffer)
    <3>. HIDE DEF more, n, room
    <3>1. k \in 1..Len(buffer)
      BY <1>1, <2>1
    <3>2. buffer[k] = mem[start + k - 1] /\ buffer[k] # 0
      BY <3>1 DEF HaveRead
    <3>. QED BY <1>7, <3>1, <3>2
  <2>2. CASE k > Len(buffer)
    <3>1. PICK j \in 1..n : k = Len(buffer) + j
      <4>. HIDE DEF n
      <4>1. k - Len(buffer) \in 1..n /\ k = Len(buffer) + (k - Len(buffer))
        BY <1>1, <1>4, <1>7, <2>2
      <4>. QED BY <4>1
    <3>2. buffer'[k] = w[j - 1] /\ j - 1 \in 0..read-1 /\ j - 1 \in 0..WordSize-1
      BY <1>2, <1>4, <1>7, <3>1
    <3>. QED BY <1>1, <1>2, <1>3, <3>1, <3>2
  <2>. QED BY <1>1, <1>4, <1>7, <2>1, <2>2
<1>9. ASSUME where' = "done"
      PROVE  Len(buffer') = MaxBuffer - 1 \/ (raddr' < Top /\ mem[raddr'] = 0)
  <2>1. CASE room <= read
    BY <1>1, <1>2, <1>7, <2>1 DEF Least
  <2>2. CASE ~(room <= read)
    <3>1. read < WordSize /\ n = read
      BY <1>1, <1>2, <1>5, <1>9, <2>2 DEF Least
    <3>2. read \in 0..WordSize-1 /\ w[read] = 0 /\ raddr' = raddr + read
      BY <1>2, <1>5, <3>1
    <3>. QED BY <1>1, <1>3, <3>2
  <2>. QED BY <2>1, <2>2
<1>. HIDE DEF n, more
<1>10. /\ where' \in {"loop", "done", "null", "failed"}
       /\ Len(buffer') <= MaxBuffer - 1 /\ start + Len(buffer') <= Top
       /\ raddr' = start + Len(buffer')
  BY <1>1, <1>4, <1>5, <1>7 DEF room
<1>11. /\ at' = "idle" /\ stage' = "idle" /\ mem' \in [Addr' -> Byte]
       /\ start' \in 0..Top /\ start' = start /\ mem' = mem
  BY <1>5 DEF HaveRead, Addr
<1>. HIDE DEF w, read, room
<1>. QED BY <1>7, <1>8, <1>9, <1>10, <1>11 DEF HaveRead

LEMMA ReadNextInv == ReadInv /\ [Next]_vars => ReadInv'
<1>. SUFFICES ASSUME ReadInv, [Next]_vars PROVE ReadInv'
  OBVIOUS
<1>1. CASE where = "idle"
  <2>. SUFFICES where' = where
    BY <1>1 DEF ReadInv
  <2>. QED
  BY <1>1 DEF Next, vars, readVars, ReadNext, ReadStep, ReadWorld, ReadWord, ReadGone,
     ReadFails, ReadInv
<1>2. CASE HaveRead
  <2>1. ASSUME where' \in {"loop", "null", "failed", where},
               UNCHANGED <<at, stage, mem, start, raddr, buffer>>
        PROVE  HaveRead'
    <3>1. where' = "done" => where = "done"
      BY <2>1
    <3>. QED BY <1>2, <2>1, <3>1 DEF HaveRead, Addr
  <2>2. CASE ReadNext /\ UNCHANGED <<replaceVars, scanVars>>
    <3>1. CASE ReadWord
      BY <1>2, <2>2, <3>1, ReadWordInv DEF ReadInv
    <3>2. CASE ReadGone \/ ReadFails \/ ReadWorld
      BY <2>1, <2>2, <3>2 DEF ReadGone, ReadFails, ReadWorld, Killed, memoryVars, readVars,
         replaceVars, scanVars, ReadInv
    <3>. QED BY <2>2, <3>1, <3>2 DEF ReadNext, ReadStep
  <2>3. ~ReplaceNext /\ ~ScanNext
    BY <1>2 DEF HaveRead, ReplaceNext, ReplaceStep, ReplaceWorld, PokeWord, PeekTail, PokeTail,
       NothingLeft, ReplaceGone, ReplaceFails, ScanNext, ScanStep, ScanWorld, SkipWord,
       FirstType, NextType, Overwrite, ScanGone
  <2>4. CASE UNCHANGED vars
    BY <2>1, <2>4 DEF vars, memoryVars, replaceVars, readVars, scanVars, ReadInv
  <2>. QED BY <2>2, <2>3, <2>4 DEF Next
<1>. QED BY <1>1, <1>2 DEF ReadInv

(* read_child_c_string returns the string, cut to MAX_BUFFER_SIZE - 1, for *)
(* every size of word and buffer and wherever the string stands (the loop  *)
(* of read_child_c_string).                                                *)
THEOREM StringsRead == Spec => []StringRead
<1>1. ReadInv => StringRead
  <2>. SUFFICES ASSUME HaveRead, where = "done" PROVE StringRead
    BY DEF ReadInv, StringRead
  <2>. USE MemoryAssumption, ReadAssumption
  <2>1. /\ StringEnd \in start..Top
        /\ \A a \in start..StringEnd-1 : mem[a] # 0
        /\ StringEnd < Top => mem[StringEnd] = 0
    BY StringEndEffect DEF HaveRead
  <2>2. start + Len(buffer) <= StringEnd
    <3>. SUFFICES ASSUME StringEnd < start + Len(buffer) PROVE FALSE
      BY <2>1 DEF HaveRead
    <3>1. StringEnd - start + 1 \in 1..Len(buffer) /\ StringEnd < Top
      BY <2>1 DEF HaveRead
    <3>2. mem[start + (StringEnd - start + 1) - 1] # 0
      BY <3>1 DEF HaveRead
    <3>. QED BY <2>1, <3>1, <3>2 DEF HaveRead
  <2>3. Len(buffer) = Least(StringEnd - start, MaxBuffer - 1)
    BY <2>1, <2>2 DEF HaveRead, Least
  <2>. QED BY <2>3 DEF HaveRead, StringRead
<1>. QED BY <1>1, ReadInitInv, ReadNextInv, PTL DEF Spec
-----------------------------------------------------------------------------
(* remove_vdso: where on a fresh stack argv and envp end, and how many     *)
(* entries the vector behind them has.                                     *)
Kind == {"null", "vdso", "ignore", "other"}

Layout(n1, n2, entries) ==
  /\ fresh \in Seq(Kind) /\ Len(fresh) = n2 + 2 * entries + 2
  /\ 1 < n1 /\ n1 < n2
  /\ \A p \in 1..n2 : fresh[p] = "null" <=> p \in {n1, n2}
  /\ \A k \in 1..entries : fresh[n2 + 2 * k - 1] # "null"
  /\ fresh[n2 + 2 * entries + 1] = "null"
  /\ \A j, k \in 1..entries :
       fresh[n2 + 2 * j - 1] = "vdso" /\ fresh[n2 + 2 * k - 1] = "vdso" => j = k

Removed ==
  [p \in DOMAIN fresh |-> IF p \in TypePlaces /\ fresh[p] = "vdso" THEN "ignore" ELSE fresh[p]]

(* It counts the 0s as far as n2, and then looks at one type after another.*)
Scanning(n1, n2, entries) ==
  /\ at = "idle" /\ where = "idle"
  /\ stage \in {"skip", "vector", "search", "overwrite", "done", "gone"}
  /\ pos \in Nat /\ zeros \in Nat
  /\ stage \in {"skip", "vector", "search", "overwrite"} => stack = fresh
  /\ stage = "skip" => 1 <= pos /\ pos < n2 /\ zeros = IF pos < n1 THEN 0 ELSE 1
  /\ stage = "vector" => pos = n2
  /\ stage = "search" =>
       \E k \in 1..entries :
         pos = n2 + 2 * k - 1 /\ \A j \in 1..k : fresh[n2 + 2 * j - 1] # "vdso"
  /\ stage = "overwrite" =>
       \E k \in 1..entries : pos = n2 + 2 * k - 1 /\ fresh[pos] = "vdso"
  /\ stage = "done" => stack = Removed

ScanInv ==
  stage = "idle" \/ \E n1, n2, entries \in Nat : Layout(n1, n2, entries) /\ Scanning(n1, n2, entries)

LEMMA Odd == ASSUME NEW d \in Nat, d % 2 = 1 PROVE \E k \in Nat : d = 2 * k - 1
<1>1. d = 2 * (d \div 2) + 1 /\ d \div 2 \in Nat
  OBVIOUS
<1>2. d \div 2 + 1 \in Nat /\ d = 2 * (d \div 2 + 1) - 1
  BY <1>1
<1>. QED BY <1>2

(* The places of the types are those that follow the second 0.             *)
LEMMA TypePlacesAre ==
  ASSUME NEW n1 \in Nat, NEW n2 \in Nat, NEW entries \in Nat, Layout(n1, n2, entries)
  PROVE  TypePlaces = {n2 + 2 * k - 1 : k \in 1..entries + 1}
<1>. DEFINE ends == {p \in DOMAIN fresh : fresh[p] = "null"}
            IsSecond(p) == \E q \in ends : q < p /\ \A r \in ends : r < p => r = q
<1>1. /\ DOMAIN fresh = 1..n2 + 2 * entries + 2
      /\ n1 \in ends /\ n2 \in ends /\ n1 < n2
      /\ \A p \in ends : p \in Nat /\ (p <= n2 => p \in {n1, n2})
  BY DEF Layout
<1>2. IsSecond(n2)
  <2>. HIDE DEF ends
  <2>. QED BY <1>1
<1>3. ASSUME NEW p \in ends, IsSecond(p) PROVE p = n2
  <2>. HIDE DEF ends
  <2>. QED BY <1>1, <1>3
<1>4. n2 = CHOOSE p \in ends : IsSecond(p)
  <2>. HIDE DEF ends, IsSecond
  <2>. QED BY <1>1, <1>2, <1>3
<1>5. TypePlaces = {p \in DOMAIN fresh : p > n2 /\ (p - n2) % 2 = 1}
  <2>1. TypePlaces = {p \in DOMAIN fresh : p > (CHOOSE p_1 \in ends : IsSecond(p_1))
                        /\ (p - (CHOOSE p_1 \in ends : IsSecond(p_1))) % 2 = 1}
    BY DEF TypePlaces
  <2>. HIDE DEF ends, IsSecond
  <2>. QED BY <1>4, <2>1
<1>6. ASSUME NEW p \in DOMAIN fresh, p > n2, (p - n2) % 2 = 1
      PROVE  \E k \in 1..entries + 1 : p = n2 + 2 * k - 1
  <2>. HIDE DEF ends, IsSecond
  <2>1. p - n2 \in Nat /\ p \in Nat /\ p <= n2 + 2 * entries + 2
    BY <1>1, <1>6
  <2>2. PICK k \in Nat : p - n2 = 2 * k - 1
    BY <1>6, <2>1, Odd
  <2>. QED BY <2>1, <2>2
<1>7. ASSUME NEW k \in 1..entries + 1
      PROVE  /\ n2 + 2 * k - 1 \in DOMAIN fresh /\ n2 + 2 * k - 1 > n2
             /\ ((n2 + 2 * k - 1) - n2) % 2 = 1
  BY <1>1
<1>. HIDE DEF ends
<1>. QED BY <1>5, <1>6, <1>7

LEMMA UpToSeq ==
  ASSUME NEW T, NEW S \in SUBSET T, NEW s \in UpTo(S)
  PROVE  s \in Seq(T) /\ DOMAIN s = 1..Len(s) /\ \A k \in 1..Len(s) : s[k] \in S
<1>1. PICK n \in 0..MaxEntries : s \in [1..n -> S]
  BY DEF UpTo
<1>2. n \in Nat /\ DOMAIN s = 1..n /\ s \in [1..n -> T] /\ \A k \in 1..n : s[k] \in S
  BY <1>1, ScanAssumption
<1>3. s \in Seq(T) /\ Len(s) = n
  BY <1>2
<1>. QED BY <1>2, <1>3

(* Of what the kernel can have laid out, argv, envp and the vector have    *)
(* the places that Layout says.                                            *)
LEMMA FreshLayout ==
  ASSUME NEW argv \in UpTo({"other"}), NEW envp \in UpTo({"other"}), NEW v \in Vectors,
         fresh = FreshStack(argv, envp, v)
  PROVE  \E n1, n2, entries \in Nat : Layout(n1, n2, entries)
<1>. USE ScanAssumption
<1>. DEFINE n1 == Len(argv) + 2
            n2 == Len(argv) + Len(envp) + 3
            s1 == <<"other">> \o argv
            s2 == s1 \o <<"null">>
            s3 == s2 \o envp
            s4 == s3 \o <<"null">>
<1>1. /\ argv \in Seq(Kind) /\ \A k \in 1..Len(argv) : argv[k] = "other"
      /\ envp \in Seq(Kind) /\ \A k \in 1..Len(envp) : envp[k] = "other"
  <2>1. {"other"} \in SUBSET Kind
    BY DEF Kind
  <2>2. argv \in Seq(Kind) /\ \A k \in 1..Len(argv) : argv[k] \in {"other"}
    BY <2>1, UpToSeq
  <2>3. envp \in Seq(Kind) /\ \A k \in 1..Len(envp) : envp[k] \in {"other"}
    BY <2>1, UpToSeq
  <2>. QED BY <2>2, <2>3
<1>2. /\ v \in Seq(Entry)
      /\ \A j, k \in 1..Len(v) : v[j][1] = "vdso" /\ v[k][1] = "vdso" => j = k
  <2>1. v \in UpTo(Entry) /\ Entry \in SUBSET Entry
    BY DEF Vectors
  <2>2. v \in Seq(Entry) /\ DOMAIN v = 1..Len(v)
    BY <2>1, UpToSeq
  <2>3. \A j, k \in DOMAIN v : v[j][1] = "vdso" /\ v[k][1] = "vdso" => j = k
    BY DEF Vectors
  <2>. QED BY <2>2, <2>3
<1>3. ASSUME NEW k \in 1..Len(v)
      PROVE  v[k][1] \in {"vdso", "ignore", "other"} /\ v[k][2] \in Kind
  <2>1. v[k] \in Entry
    BY <1>2
  <2>2. PICK x \in {"vdso", "ignore", "other"}, y \in {"null", "vdso", "other"} : v[k] = <<x, y>>
    BY <2>1 DEF Entry
  <2>. QED BY <2>2 DEF Kind
<1>4. /\ Words(v) \in Seq(Kind) /\ Len(Words(v)) = 2 * Len(v) + 2
      /\ \A k \in 1..Len(v) : Words(v)[2 * k - 1] = v[k][1]
      /\ Words(v)[2 * Len(v) + 1] = "null"
  <2>1. ASSUME NEW k \in 1..2 * Len(v)
        PROVE  (k + 1) \div 2 \in 1..Len(v)
    BY <1>2
  <2>2. ASSUME NEW k \in 1..2 * Len(v) + 2
        PROVE  (IF k > 2 * Len(v) THEN "null"
                ELSE v[(k + 1) \div 2][IF k % 2 = 1 THEN 1 ELSE 2]) \in Kind
    <3>1. CASE k > 2 * Len(v)
      BY <3>1 DEF Kind
    <3>2. CASE ~(k > 2 * Len(v))
      <4>1. PICK j \in 1..Len(v) : j = (k + 1) \div 2
        BY <1>2, <2>1, <3>2
      <4>2. v[j][1] \in Kind /\ v[j][2] \in Kind
        BY <1>3 DEF Kind
      <4>. QED BY <3>2, <4>1, <4>2
    <3>. QED BY <3>1, <3>2
  <2>3. Words(v) \in Seq(Kind) /\ Len(Words(v)) = 2 * Len(v) + 2
    BY <1>2, <2>2 DEF Words
  <2>4. ASSUME NEW k \in 1..Len(v)
        PROVE  /\ 2 * k - 1 \in 1..2 * Len(v) + 2 /\ ~(2 * k - 1 > 2 * Len(v))
               /\ (2 * k - 1 + 1) \div 2 = k /\ (2 * k - 1) % 2 = 1
    BY <1>2
  <2>5. ASSUME NEW k \in 1..Len(v) PROVE Words(v)[2 * k - 1] = v[k][1]
    BY <2>4 DEF Words
  <2>6. Words(v)[2 * Len(v) + 1] = "null"
    BY <1>2 DEF Words
  <2>. QED BY <2>3, <2>5, <2>6
<1>5. \A k \in Kind : <<k>> \in Seq(Kind) /\ Len(<<k>>) = 1 /\ <<k>>[1] = k
  OBVIOUS
<1>6. "null" \in Kind /\ "other" \in Kind
  BY DEF Kind
<1>7. /\ s1 \in Seq(Kind) /\ Len(s1) = Len(argv) + 1
      /\ \A p \in 1..Len(s1) : s1[p] = "other"
  <2>1. s1 = <<"other">> \o argv
    OBVIOUS
  <2>. HIDE DEF s1
  <2>2. /\ s1 \in Seq(Kind) /\ Len(s1) = 1 + Len(argv)
        /\ \A p \in 1..1 + Len(argv) : s1[p] = IF p <= 1 THEN <<"other">>[p] ELSE argv[p - 1]
    BY <1>1, <1>5, <1>6, <2>1, Joined
  <2>. QED BY <1>1, <2>2
<1>8. /\ s2 \in Seq(Kind) /\ Len(s2) = n1
      /\ \A p \in 1..n1 : s2[p] = "null" <=> p = n1
  <2>1. s2 = s1 \o <<"null">>
    OBVIOUS
  <2>. HIDE DEF s1, s2
  <2>2. /\ s2 \in Seq(Kind) /\ Len(s2) = Len(s1) + 1
        /\ \A p \in 1..Len(s1) + 1 :
             s2[p] = IF p <= Len(s1) THEN s1[p] ELSE <<"null">>[p - Len(s1)]
    BY <1>5, <1>6, <1>7, <2>1, Joined
  <2>. QED BY <1>1, <1>7, <2>2
<1>9. /\ s3 \in Seq(Kind) /\ Len(s3) = n2 - 1
      /\ \A p \in 1..n2-1 : s3[p] = "null" <=> p = n1
  <2>1. s3 = s2 \o envp
    OBVIOUS
  <2>. HIDE DEF s2, s3
  <2>2. /\ s3 \in Seq(Kind) /\ Len(s3) = Len(s2) + Len(envp)
        /\ \A p \in 1..Len(s2) + Len(envp) :
             s3[p] = IF p <= Len(s2) THEN s2[p] ELSE envp[p - Len(s2)]
    <3>1. s2 \in Seq(Kind) /\ envp \in Seq(Kind)
      BY <1>1, <1>8
    <3>. QED BY <2>1, <3>1, Joined
  <2>3. Len(argv) \in Nat /\ Len(envp) \in Nat /\ Len(s2) = Len(argv) + 2
    BY <1>1, <1>8
  <2>4. ASSUME NEW p \in 1..n2-1 PROVE s3[p] = "null" <=> p = n1
    <3>1. CASE p <= n1
      BY <1>8, <2>2, <2>3, <3>1
    <3>2. CASE p > n1
      <4>1. p - n1 \in 1..Len(envp) /\ s3[p] = envp[p - n1]
        BY <1>8, <2>2, <2>3, <3>2
      <4>2. s3[p] = "other"
        BY <1>1, <4>1
      <4>. QED BY <3>2, <4>2
    <3>. QED BY <2>3, <3>1, <3>2
  <2>. QED BY <2>2, <2>3, <2>4
<1>10. /\ s4 \in Seq(Kind) /\ Len(s4) = n2
       /\ \A p \in 1..n2 : s4[p] = "null" <=> p \in {n1, n2}
  <2>1. s4 = s3 \o <<"null">>
    OBVIOUS
  <2>. HIDE DEF s3, s4
  <2>2. /\ s4 \in Seq(Kind) /\ Len(s4) = Len(s3) + 1
        /\ \A p \in 1..Len(s3) + 1 :
             s4[p] = IF p <= Len(s3) THEN s3[p] ELSE <<"null">>[p - Len(s3)]
    BY <1>5, <1>6, <1>9, <2>1, Joined
  <2>3. Len(argv) \in Nat /\ Len(envp) \in Nat /\ Len(s3) = n2 - 1
    BY <1>1, <1>9
  <2>4. ASSUME NEW p \in 1..n2 PROVE s4[p] = "null" <=> p \in {n1, n2}
    <3>1. CASE p < n2
      BY <1>9, <2>2, <2>3, <3>1
    <3>2. CASE p = n2
      <4>1. s4[p] = <<"null">>[1]
        BY <2>2, <2>3, <3>2
      <4>. QED BY <3>2, <4>1
    <3>. QED BY <2>3, <3>1, <3>2
  <2>. QED BY <2>2, <2>3, <2>4
<1>11. /\ fresh \in Seq(Kind) /\ Len(fresh) = n2 + 2 * Len(v) + 2
       /\ \A p \in 1..n2 : fresh[p] = s4[p]
       /\ \A k \in 1..2 * Len(v) + 2 : fresh[n2 + k] = Words(v)[k]
  <2>1. fresh = s4 \o Words(v)
    BY DEF FreshStack
  <2>. HIDE DEF s4
  <2>2. /\ fresh \in Seq(Kind) /\ Len(fresh) = Len(s4) + Len(Words(v))
        /\ \A p \in 1..Len(s4) + Len(Words(v)) :
             fresh[p] = IF p <= Len(s4) THEN s4[p] ELSE Words(v)[p - Len(s4)]
    <3>1. s4 \in Seq(Kind) /\ Words(v) \in Seq(Kind)
      BY <1>4, <1>10
    <3>. QED BY <2>1, <3>1, Joined
  <2>3. /\ n2 \in Nat /\ Len(v) \in Nat
        /\ Len(s4) = n2 /\ Len(Words(v)) = 2 * Len(v) + 2
    BY <1>1, <1>2, <1>4, <1>10
  <2>. HIDE DEF n2
  <2>. QED BY <2>2, <2>3
<1>. HIDE DEF s1, s2, s3, s4
<1>12. n1 \in Nat /\ n2 \in Nat /\ Len(v) \in Nat /\ 1 < n1 /\ n1 < n2
  BY <1>1, <1>2
<1>. HIDE DEF n1, n2
<1>13. \A k \in 1..Len(v) : fresh[n2 + 2 * k - 1] = v[k][1]
  <2>1. ASSUME NEW k \in 1..Len(v)
        PROVE  2 * k - 1 \in 1..2 * Len(v) + 2 /\ n2 + 2 * k - 1 = n2 + (2 * k - 1)
    BY <1>12
  <2>. QED BY <1>4, <1>11, <2>1
<1>14. fresh[n2 + 2 * Len(v) + 1] = "null"
  <2>1. 2 * Len(v) + 1 \in 1..2 * Len(v) + 2 /\ n2 + 2 * Len(v) + 1 = n2 + (2 * Len(v) + 1)
    BY <1>12
  <2>. QED BY <1>4, <1>11, <2>1
<1>15. Layout(n1, n2, Len(v))
  BY <1>2, <1>3, <1>10, <1>11, <1>12, <1>13, <1>14 DEF Layout
<1>. QED BY <1>12, <1>15

LEMMA ScanInitInv == Init => ScanInv
<1>. SUFFICES ASSUME ReplaceIdle, ReadIdle, ScanInit PROVE ScanInv
  BY DEF Init, ScanInv, ScanIdle
<1>1. PICK n1, n2, entries \in Nat : Layout(n1, n2, entries)
  BY FreshLayout DEF ScanInit
<1>2. Scanning(n1, n2, entries)
  BY <1>1 DEF ScanInit, ReplaceIdle, ReadIdle, Scanning, Layout
<1>. QED BY <1>1, <1>2 DEF ScanInv

(* What is changed, when the place of the vDSO is known.                   *)
LEMMA RemovedIs ==
  ASSUME NEW n1 \in Nat, NEW n2 \in Nat, NEW entries \in Nat, Layout(n1, n2, entries)
  PROVE  /\ (\A k \in 1..entries : fresh[n2 + 2 * k - 1] # "vdso") => Removed = fresh
         /\ \A k \in 1..entries :
              fresh[n2 + 2 * k - 1] = "vdso" =>
                Removed = [fresh EXCEPT ![n2 + 2 * k - 1] = "ignore"]
<1>1. fresh = [p \in DOMAIN fresh |-> fresh[p]]
  BY DEF Layout
<1>2. /\ \A p \in TypePlaces : \E k \in 1..entries + 1 : p = n2 + 2 * k - 1
      /\ \A k \in 1..entries + 1 : n2 + 2 * k - 1 \in TypePlaces
  <2>1. TypePlaces = {n2 + 2 * k - 1 : k \in 1..entries + 1}
    BY TypePlacesAre
  <2>. QED BY <2>1
<1>3. fresh[n2 + 2 * (entries + 1) - 1] = "null"
  <2>1. n2 + 2 * (entries + 1) - 1 = n2 + 2 * entries + 1
    OBVIOUS
  <2>. QED BY <2>1 DEF Layout
<1>4. ASSUME NEW p \in TypePlaces, fresh[p] = "vdso"
      PROVE  \E k \in 1..entries : p = n2 + 2 * k - 1
  <2>1. PICK k \in 1..entries + 1 : p = n2 + 2 * k - 1
    BY <1>2
  <2>2. k # entries + 1
    BY <1>3, <1>4, <2>1
  <2>. QED BY <2>1, <2>2
<1>5. ASSUME \A k \in 1..entries : fresh[n2 + 2 * k - 1] # "vdso" PROVE Removed = fresh
  <2>1. \A p \in DOMAIN fresh : ~(p \in TypePlaces /\ fresh[p] = "vdso")
    BY <1>4, <1>5
  <2>. QED BY <1>1, <2>1 DEF Removed
<1>6. ASSUME NEW k \in 1..entries, fresh[n2 + 2 * k - 1] = "vdso"
      PROVE  Removed = [fresh EXCEPT ![n2 + 2 * k - 1] = "ignore"]
  <2>1. \A p \in DOMAIN fresh :
          (p \in TypePlaces /\ fresh[p] = "vdso") <=> p = n2 + 2 * k - 1
    <3>1. n2 + 2 * k - 1 \in TypePlaces
      BY <1>2
    <3>2. ASSUME NEW p \in TypePlaces, fresh[p] = "vdso" PROVE p = n2 + 2 * k - 1
      <4>1. PICK j \in 1..entries : p = n2 + 2 * j - 1
        BY <1>4, <3>2
      <4>2. j = k
        BY <1>6, <3>2, <4>1 DEF Layout
      <4>. QED BY <4>1, <4>2
    <3>. QED BY <1>6, <3>1, <3>2
  <2>. QED BY <2>1 DEF Removed
<1>. QED BY <1>5, <1>6

(* One word after another, until two were 0.                               *)
LEMMA SkipWordInv ==
  ASSUME NEW n1 \in Nat, NEW n2 \in Nat, NEW entries \in Nat, Layout(n1, n2, entries),
         Scanning(n1, n2, entries), SkipWord, at' = at, where' = where
  PROVE  Layout(n1, n2, entries)' /\ Scanning(n1, n2, entries)'
<1>1. /\ stage = "skip" /\ stack = fresh /\ pos \in Nat /\ 1 <= pos /\ pos < n2
      /\ zeros = IF pos < n1 THEN 0 ELSE 1
      /\ pos' = pos + 1 /\ stack' = stack /\ fresh' = fresh
      /\ zeros' = IF stack[pos'] = "null" THEN zeros + 1 ELSE zeros
      /\ stage' = IF zeros' = 2 THEN "vector" ELSE "skip"
  BY DEF Scanning, SkipWord
<1>2. n1 < n2 /\ (fresh[pos + 1] = "null" <=> pos + 1 \in {n1, n2})
  BY <1>1 DEF Layout
<1>3. Layout(n1, n2, entries)'
  BY <1>1 DEF Layout
<1>4. CASE pos + 1 = n2
  <2>1. stage' = "vector" /\ zeros' = 2 /\ pos' = n2
    BY <1>1, <1>2, <1>4
  <2>. QED BY <1>1, <1>3, <2>1 DEF Scanning
<1>5. CASE pos + 1 < n2
  <2>1. stage' = "skip" /\ zeros' = IF pos' < n1 THEN 0 ELSE 1
    BY <1>1, <1>2, <1>5
  <2>. QED BY <1>1, <1>3, <1>5, <2>1 DEF Scanning
<1>. QED BY <1>1, <1>4, <1>5

(* The next type, when none of those before it names the vDSO.             *)
LEMMA LookInv ==
  ASSUME NEW n1 \in Nat, NEW n2 \in Nat, NEW entries \in Nat, Layout(n1, n2, entries),
         Scanning(n1, n2, entries), stack = fresh, at' = at, where' = where,
         NEW k \in 1..entries + 1, \A j \in 1..k-1 : fresh[n2 + 2 * j - 1] # "vdso",
         Look(n2 + 2 * k - 1)
  PROVE  Layout(n1, n2, entries)' /\ Scanning(n1, n2, entries)'
<1>. DEFINE p == n2 + 2 * k - 1
<1>1. /\ pos' = p /\ stack' = stack /\ fresh' = fresh /\ zeros' = zeros
      /\ stage' = CASE fresh[p] = "null" -> "done"
                    [] fresh[p] = "vdso" -> "overwrite"
                    [] OTHER -> "search"
  BY DEF Look
<1>2. p \in Nat
  OBVIOUS
<1>3. Layout(n1, n2, entries)' /\ Removed' = Removed
  <2>1. fresh' = fresh
    BY <1>1
  <2>2. TypePlaces' = TypePlaces
    BY <2>1 DEF TypePlaces
  <2>. QED BY <2>1, <2>2 DEF Layout, Removed
<1>4. CASE k = entries + 1
  <2>1. fresh[p] = "null"
    <3>1. p = n2 + 2 * entries + 1
      BY <1>4
    <3>. QED BY <3>1 DEF Layout
  <2>2. \A j \in 1..entries : fresh[n2 + 2 * j - 1] # "vdso"
    BY <1>4
  <2>3. stage' = "done" /\ stack' = Removed
    BY <1>1, <2>1, <2>2, RemovedIs
  <2>. QED BY <1>1, <1>2, <1>3, <2>3 DEF Scanning
<1>5. CASE k \in 1..entries
  <2>1. fresh[p] # "null"
    BY <1>5 DEF Layout
  <2>2. CASE fresh[p] = "vdso"
    <3>1. stage' = "overwrite"
      BY <1>1, <2>2
    <3>. QED BY <1>1, <1>2, <1>3, <1>5, <2>2, <3>1 DEF Scanning
  <2>3. CASE fresh[p] # "vdso"
    <3>1. stage' = "search"
      BY <1>1, <2>1, <2>3
    <3>2. \A j \in 1..k : fresh[n2 + 2 * j - 1] # "vdso"
      BY <2>3
    <3>3. \E i_1 \in 1..entries :
            pos' = n2 + 2 * i_1 - 1 /\ \A j \in 1..i_1 : fresh'[n2 + 2 * j - 1] # "vdso"
      BY <1>1, <1>5, <3>2
    <3>. HIDE DEF p
    <3>. QED BY <1>1, <1>2, <1>3, <3>1, <3>3 DEF Scanning
  <2>. QED BY <2>2, <2>3
<1>. QED BY <1>4, <1>5

LEMMA ScanStepInv ==
  ASSUME NEW n1 \in Nat, NEW n2 \in Nat, NEW entries \in Nat, Layout(n1, n2, entries),
         Scanning(n1, n2, entries), ScanStep, at' = at, where' = where
  PROVE  Layout(n1, n2, entries)' /\ Scanning(n1, n2, entries)'
<1>1. CASE SkipWord
  BY <1>1, SkipWordInv
<1>2. CASE FirstType
  <2>1. stack = fresh /\ Look(n2 + 2 * 1 - 1)
    <3>1. n2 + 1 = n2 + 2 * 1 - 1
      OBVIOUS
    <3>. QED BY <1>2, <3>1 DEF FirstType, Scanning
  <2>2. 1 \in 1..entries + 1 /\ \A j \in 1..1-1 : fresh[n2 + 2 * j - 1] # "vdso"
    OBVIOUS
  <2>. QED BY <2>1, <2>2, LookInv
<1>3. CASE NextType
  <2>1. PICK k \in 1..entries :
          pos = n2 + 2 * k - 1 /\ \A j \in 1..k : fresh[n2 + 2 * j - 1] # "vdso"
    BY <1>3 DEF NextType, Scanning
  <2>2. stack = fresh /\ Look(n2 + 2 * (k + 1) - 1)
    <3>1. pos + 2 = n2 + 2 * (k + 1) - 1
      BY <2>1
    <3>. QED BY <1>3, <3>1 DEF NextType, Scanning
  <2>3. k + 1 \in 1..entries + 1 /\ (k + 1) - 1 = k
    OBVIOUS
  <2>. QED BY <2>1, <2>2, <2>3, LookInv
<1>4. CASE Overwrite
  <2>1. PICK k \in 1..entries : pos = n2 + 2 * k - 1 /\ fresh[pos] = "vdso"
    BY <1>4 DEF Overwrite, Scanning
  <2>2. stack = fresh /\ stack' = [fresh EXCEPT ![n2 + 2 * k - 1] = "ignore"]
    BY <1>4, <2>1 DEF Overwrite, Scanning
  <2>3. stack' = Removed
    BY <2>1, <2>2, RemovedIs
  <2>4. stage' = "done" /\ UNCHANGED <<fresh, pos, zeros>>
    BY <1>4 DEF Overwrite
  <2>5. Layout(n1, n2, entries)' /\ Removed' = Removed
    BY <2>4 DEF Layout, Removed, TypePlaces
  <2>6. at = "idle" /\ where = "idle" /\ pos \in Nat /\ zeros \in Nat
    BY DEF Scanning
  <2>. QED BY <2>3, <2>4, <2>5, <2>6 DEF Scanning
<1>5. CASE ScanGone
  <2>1. stage' = "gone" /\ UNCHANGED <<stack, fresh, pos, zeros>>
    BY <1>5 DEF ScanGone
  <2>2. Layout(n1, n2, entries)'
    BY <2>1 DEF Layout
  <2>. QED BY <2>1, <2>2 DEF Scanning
<1>. QED BY <1>1, <1>2, <1>3, <1>4, <1>5 DEF ScanStep

LEMMA ScanNextInv == ScanInv /\ [Next]_vars => ScanInv'
<1>. SUFFICES ASSUME ScanInv, [Next]_vars PROVE ScanInv'
  OBVIOUS
<1>1. CASE stage = "idle"
  <2>. SUFFICES stage' = stage
    BY <1>1 DEF ScanInv
  <2>. QED
    BY <1>1 DEF Next, vars, scanVars, ScanNext, ScanStep, ScanWorld, SkipWord, FirstType,
       NextType, Overwrite, ScanGone
<1>2. CASE stage # "idle"
  <2>1. PICK n1, n2, entries \in Nat : Layout(n1, n2, entries) /\ Scanning(n1, n2, entries)
    BY <1>2 DEF ScanInv
  <2>2. ASSUME UNCHANGED <<at, where, scanVars>>
        PROVE  Layout(n1, n2, entries)' /\ Scanning(n1, n2, entries)'
    <3>1. UNCHANGED <<at, where, stage, stack, fresh, pos, zeros>>
      BY <2>2 DEF scanVars
    <3>2. Layout(n1, n2, entries)'
      BY <2>1, <3>1 DEF Layout
    <3>3. Removed' = Removed
      BY <3>1 DEF Removed, TypePlaces
    <3>. QED BY <2>1, <3>1, <3>2, <3>3 DEF Scanning
  <2>3. CASE ScanNext /\ UNCHANGED <<replaceVars, readVars>>
    <3>1. at' = at /\ where' = where
      BY <2>3 DEF replaceVars, readVars
    <3>2. CASE ScanStep
      BY <2>1, <3>1, <3>2, ScanStepInv DEF ScanInv
    <3>3. CASE ScanWorld
      BY <2>1, <2>2, <3>1, <3>3 DEF ScanWorld, ScanInv
    <3>. QED BY <2>3, <3>2, <3>3 DEF ScanNext
  <2>4. ~ReplaceNext
    BY <2>1 DEF Scanning, ReplaceNext, ReplaceStep, ReplaceWorld, PokeWord, PeekTail, PokeTail,
       NothingLeft, ReplaceGone, ReplaceFails
  <2>5. ~ReadNext
    BY <2>1 DEF Scanning, ReadNext, ReadStep, ReadWorld, ReadWord, ReadGone, ReadFails
  <2>6. CASE UNCHANGED vars
    <3>1. UNCHANGED <<at, where, scanVars>>
      BY <2>6 DEF vars, replaceVars, readVars
    <3>. QED BY <2>1, <2>2, <3>1 DEF ScanInv
  <2>. QED BY <2>3, <2>4, <2>5, <2>6 DEF Next
<1>. QED BY <1>1, <1>2

(* remove_vdso finds the entry of the vDSO and changes nothing else, for   *)
(* every number of arguments, of variables and of entries (the two loops   *)
(* of remove_vdso).                                                        *)
THEOREM VdsosRemoved == Spec => []VdsoRemoved
<1>1. ScanInv => VdsoRemoved
  BY DEF ScanInv, Scanning, VdsoRemoved, Removed
<1>. QED BY <1>1, ScanInitInv, ScanNextInv, PTL DEF Spec
=============================================================================
