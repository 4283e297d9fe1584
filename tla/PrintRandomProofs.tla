-------------------------- MODULE PrintRandomProofs --------------------------
(***************************************************************************)
(* Proofs about PrintRandom, for every set of ids, every hash function and *)
(* every order of the steps of its four tasks: the test passes, and what   *)
(* main and its child print never differs.                                 *)
(***************************************************************************)
EXTENDS PrintRandom, HashTableProofs, SequenceTheorems

(* What has been printed when a task comes to a line.                      *)
Bytes(n) == <<187>> \o [j \in 1..n |-> 34] \o <<187>>

Printed2 == Bytes(9)
Printed3 == Printed2 \o Bytes(10)
Printed4 == Printed3 \o Timespec(0)
Printed5 == Printed4 \o <<TvSec + 2>>
Printed6 == Printed5 \o Timespec(2)

Has(fd, out) == [fd |-> fd, out |-> out, ret |-> 0]

(* The local variables at a line.                                          *)
Locals(l) ==
  CASE l \in {"read", "fork", "getrandom"} -> Has(0, <<>>)
    [] l = "getrandom2" -> Has(0, Printed2)
    [] l = "gettimeofday" -> Has(0, Printed3)
    [] l = "time" -> Has(0, Printed4)
    [] l = "clock_gettime" -> Has(0, Printed5)
    [] l \in {"return", "returned"} -> Has(0, Printed6)
    [] OTHER -> Unset

(* The clock at a line.                                                    *)
Ticks(l) ==
  CASE l = "time" -> 1 [] l = "clock_gettime" -> 2 [] l = "return" -> 3 [] OTHER -> 0

Lines == {"none", "start", "create", "join", "system", "wait", "date", "open", "read", "fork",
          "getrandom", "getrandom2", "gettimeofday", "time", "clock_gettime", "return",
          "exit", "returned"}

(* The lines of a task that the tracer follows.                            *)
Followed == Lines \ {"none", "start", "returned"}

(* A task is at such a line exactly when it has an entry, and its clock    *)
(* counts the calls that it has made itself.                               *)
TaskOK(t) ==
  /\ line[t] \notin {"none", "exit"} => local[t] = Locals(line[t])
  /\ t \in Members <=> line[t] \in Followed
  /\ line[t] \in Followed \ {"exit"} => gettime_data[t] = Ticks(line[t])

TasksOK ==
  /\ line \in [Tid -> Lines]
  /\ DOMAIN local = Tid
  /\ \A t \in Tid : TaskOK(t)

PrintInv == HashInv /\ TasksOK

-----------------------------------------------------------------------------
LEMMA ConcatInt ==
  ASSUME NEW s \in Seq(Int), NEW t \in Seq(Int)
  PROVE  /\ s \o t \in Seq(Int) /\ Len(s \o t) = Len(s) + Len(t)
         /\ \A j \in 1..Len(s) + Len(t) :
              (s \o t)[j] = IF j <= Len(s) THEN s[j] ELSE t[j - Len(s)]
BY ConcatProperties

LEMMA ConcatThree ==
  ASSUME NEW s \in Seq(Int), NEW t \in Seq(Int), NEW u \in Seq(Int)
  PROVE  (s \o t) \o u = s \o (t \o u)
<1>. DEFINE I == Int
<1>1. s \in Seq(I) /\ t \in Seq(I) /\ u \in Seq(I)
  OBVIOUS
<1>. HIDE DEF I
<1>. QED BY <1>1, ConcatAssociative, SMTT(30)

LEMMA EmptyConcat ==
  ASSUME NEW s \in Seq(Int)
  PROVE  <<>> \o s = s
BY ConcatEmptySeq

LEMMA BytesSeq ==
  ASSUME NEW n \in Nat
  PROVE  Bytes(n) \in Seq(Int)
<1>. DEFINE a == <<187>>
            b == [j \in 1..n |-> 34]
<1>1. a \in Seq(Int) /\ b \in Seq(Int)
  OBVIOUS
<1>. HIDE DEF a, b
<1>2. a \o b \in Seq(Int) /\ (a \o b) \o a \in Seq(Int)
  BY <1>1
<1>. QED BY <1>2 DEF Bytes, a, b

(* The arrays around what getrandom has filled.                            *)
LEMMA FilledBytes ==
  ASSUME NEW k
  PROVE  /\ [j \in 1..11 |-> Filled(9, RandomAnswer(9, k))[j - 1]] = Bytes(9)
         /\ [j \in 1..12 |-> Filled(10, RandomAnswer(10, k))[j - 1]] = Bytes(10)
<1>1. ASSUME NEW n \in {9, 10}
      PROVE  [j \in 1..n+2 |-> Filled(n, RandomAnswer(n, k))[j - 1]] = Bytes(n)
  <2>. DEFINE a == <<187>>
              s == [j \in 1..n |-> 34]
              f == [j \in 1..n+2 |-> IF j \in {1, n + 2} THEN 187 ELSE 34]
  <2>1. ASSUME NEW j \in 1..n+2
        PROVE  Filled(n, RandomAnswer(n, k))[j - 1] = f[j]
    <3>1. j - 1 \in 0..n+1 /\ (j - 1 \in 1..n <=> j \notin {1, n + 2})
          /\ (j - 1 \in {0, n+1} <=> j \in {1, n + 2})
      BY <1>1
    <3>2. DOMAIN RandomAnswer(n, k).poke = 1..n
      BY DEF RandomAnswer
    <3>3. CASE j \in {1, n + 2}
      BY <3>1, <3>2, <3>3 DEF Filled
    <3>4. CASE j \notin {1, n + 2}
      <4>1. RandomAnswer(n, k).poke[j - 1] = 34
        BY <3>1, <3>4 DEF RandomAnswer
      <4>. QED BY <3>1, <3>2, <3>4, <4>1 DEF Filled
    <3>. QED BY <3>3, <3>4
  <2>2. s \in Seq(Int) /\ Len(s) = n /\ a \in Seq(Int) /\ Len(a) = 1 /\ a[1] = 187
    BY <1>1
  <2>. DEFINE u == a \o s
              v == u \o a
  <2>. HIDE DEF a
  <2>8. \A j \in 1..n : s[j] = 34
    BY <1>1
  <2>. HIDE DEF s
  <2>3. u \in Seq(Int) /\ Len(u) = n + 1
        /\ \A j \in 1..n+1 : u[j] = IF j = 1 THEN 187 ELSE 34
    <3>1. u \in Seq(Int) /\ Len(u) = n + 1
      <4>1. a \o s \in Seq(Int) /\ Len(a \o s) = Len(a) + Len(s)
        BY <2>2, ConcatInt
      <4>2. Len(a) + Len(s) = n + 1
        BY <1>1, <2>2
      <4>. QED BY <4>1, <4>2
    <3>2. ASSUME NEW j \in 1..n+1
          PROVE  u[j] = IF j = 1 THEN 187 ELSE 34
      <4>1. u[j] = IF j <= 1 THEN a[j] ELSE s[j - 1]
        BY <1>1, <2>2, <3>1, ConcatInt
      <4>2. CASE j = 1
        BY <2>2, <4>1, <4>2
      <4>3. CASE j # 1
        <5>1. ~(j <= 1) /\ j - 1 \in 1..n
          BY <1>1, <4>3
        <5>. QED BY <2>8, <4>1, <4>3, <5>1
      <4>. QED BY <4>2, <4>3
    <3>. QED BY <3>1, <3>2
  <2>. HIDE DEF u
  <2>4. v \in Seq(Int) /\ Len(v) = n + 2
    <3>1. u \o a \in Seq(Int) /\ Len(u \o a) = Len(u) + Len(a)
      <4>1. u \in Seq(Int) /\ a \in Seq(Int)
        BY <2>2, <2>3
      <4>. QED BY <4>1, ConcatInt
    <3>2. Len(u) + Len(a) = n + 2
      BY <1>1, <2>2, <2>3
    <3>. QED BY <3>1, <3>2
  <2>5. ASSUME NEW j \in 1..n+2
        PROVE  v[j] = f[j]
    <3>1. v[j] = IF j <= n + 1 THEN u[j] ELSE a[j - (n + 1)]
      BY <1>1, <2>2, <2>3, <2>4, ConcatInt
    <3>. HIDE DEF v
    <3>2. CASE j = n + 2
      <4>1. ~(j <= n + 1) /\ j - (n + 1) = 1 /\ f[j] = 187
        BY <1>1, <3>2
      <4>2. v[j] = a[1]
        BY <3>1, <4>1
      <4>. QED BY <2>2, <4>1, <4>2
    <3>3. CASE j # n + 2
      <4>1. j <= n + 1 /\ j \in 1..n+1 /\ f[j] = IF j = 1 THEN 187 ELSE 34
        BY <1>1, <3>3
      <4>2. u[j] = IF j = 1 THEN 187 ELSE 34
        BY <2>3, <4>1
      <4>. QED BY <3>1, <4>1, <4>2
    <3>. QED BY <3>2, <3>3
  <2>6. DOMAIN v = 1..n+2
    BY <2>4
  <2>. HIDE DEF v
  <2>7. v = [j \in 1..n+2 |-> Filled(n, RandomAnswer(n, k))[j - 1]]
    BY <2>1, <2>4, <2>5, <2>6
  <2>. QED BY <2>7 DEF v, u, a, s, Bytes
<1>. QED BY <1>1

(* What an entry is for the calls of its task.                             *)
LEMMA ReplyIs ==
  ASSUME PrintInv, adding = NoTid, NEW t \in Tid, line[t] \in Followed, NEW answer
  PROVE  Reply(t, answer) = answer
<1>1. t \in Members
  BY DEF PrintInv, TasksOK, TaskOK
<1>. QED BY <1>1, FoundMembers DEF PrintInv, Reply

(* Nothing changes for the tasks that a step is not about.                 *)
Keeps(T) ==
  /\ line' \in [Tid -> Lines]
  /\ DOMAIN local' = Tid
  /\ \A u \in Tid \ T : /\ line'[u] = line[u] /\ local'[u] = local[u]
                        /\ gettime_data'[u] = gettime_data[u]
                        /\ u \in Members' <=> u \in Members

LEMMA OthersOK ==
  ASSUME TasksOK, NEW T \in SUBSET Tid, Keeps(T), \A u \in T : TaskOK(u)'
  PROVE  TasksOK'
<1>1. ASSUME NEW u \in Tid \ T
      PROVE  TaskOK(u)'
  BY <1>1 DEF TasksOK, TaskOK, Keeps
<1>. QED BY <1>1 DEF TasksOK, Keeps

LEMMA PrintInitInv == HashInit /\ PrintInit => PrintInv
<1>. SUFFICES ASSUME HashInit, PrintInit PROVE TasksOK
  BY HashInitInv DEF PrintInv
<1>1. PICK main \in Tid : line = [t \in Tid |-> IF t = main THEN "start" ELSE "none"]
  BY DEF PrintInit
<1>2. local = [t \in Tid |-> Unset] /\ Members = {}
  BY DEF PrintInit, HashInit, HashEmpty, Members, NoHandle
<1>. QED BY <1>1, <1>2 DEF TasksOK, TaskOK, Lines, Followed, Locals

(* A call that has been answered.                                          *)
LEMMA CallInv ==
  ASSUME PrintInv, NEW t \in Tid, NEW here \in Followed, NEW reply, NEW next \in Followed,
         NEW locals, Call(t, here, reply, next, locals), reply.ticks \in Nat,
         next # "exit" => locals = Locals(next) /\ reply.ticks = Ticks(next)
  PROVE  PrintInv'
<1>1. t \in Members
  BY DEF Call, PrintInv, TasksOK, TaskOK
<1>2. /\ adding = NoTid /\ line[t] = here
      /\ line' = [line EXCEPT ![t] = next] /\ local' = [local EXCEPT ![t] = locals]
      /\ gettime_data' = [gettime_data EXCEPT ![t] = reply.ticks]
      /\ UNCHANGED <<hash, head, hh, entry_count, tbl, buckets, growVars>>
  BY DEF Call
<1>3. HashInv' /\ Members' = Members
  <2>. DEFINE n == reply.ticks
  <2>1. n \in Nat /\ gettime_data' = [gettime_data EXCEPT ![t] = n]
    BY <1>2
  <2>. HIDE DEF n
  <2>. QED BY <1>1, <1>2, <2>1, ClockInv DEF PrintInv
<1>4. TaskOK(t)'
  <2>1. line'[t] = next /\ local'[t] = locals /\ gettime_data'[t] = reply.ticks
    BY <1>2 DEF PrintInv, TasksOK, HashInv, HashTypeOK
  <2>. QED BY <1>1, <1>3, <2>1 DEF TaskOK, Followed
<1>5. Keeps({t})
  <2>1. line' \in [Tid -> Lines] /\ DOMAIN local' = Tid
    BY <1>2 DEF PrintInv, TasksOK, Followed
  <2>2. \A u \in Tid \ {t} : /\ line'[u] = line[u] /\ local'[u] = local[u]
                             /\ gettime_data'[u] = gettime_data[u]
    BY <1>2 DEF PrintInv, TasksOK, HashInv, HashTypeOK
  <2>. QED BY <2>1, <2>2, <1>3 DEF Keeps
<1>6. TasksOK'
  <2>1. \A u \in {t} : TaskOK(u)'
    BY <1>3, <1>4
  <2>. QED BY <1>5, <2>1, OthersOK DEF PrintInv
<1>. QED BY <1>3, <1>6 DEF PrintInv

(* A line without a call.                                                  *)
LEMMA LineInv ==
  ASSUME PrintInv, NEW t \in Tid, NEW next \in Followed, NEW locals,
         line[t] \in Followed \ {"exit"}, UNCHANGED hashVars,
         line' = [line EXCEPT ![t] = next],
         DOMAIN local' = DOMAIN local, local'[t] = locals,
         \A u \in Tid \ {t} : local'[u] = local[u],
         next # "exit" => locals = Locals(next) /\ Ticks(next) = Ticks(line[t])
  PROVE  PrintInv'
<1>1. HashInv' /\ hh' = hh /\ gettime_data' = gettime_data
  BY HashStutter DEF PrintInv, hashVars
<1>2. Members' = Members
  BY <1>1 DEF Members
<1>3. TaskOK(t)'
  <2>1. line'[t] = next /\ local'[t] = locals
    BY DEF PrintInv, TasksOK
  <2>2. t \in Members /\ gettime_data[t] = Ticks(line[t])
    BY DEF PrintInv, TasksOK, TaskOK
  <2>. QED BY <1>1, <1>2, <2>1, <2>2 DEF TaskOK, Followed
<1>4. Keeps({t})
  <2>1. line' \in [Tid -> Lines] /\ DOMAIN local' = Tid
    BY DEF PrintInv, TasksOK, Followed
  <2>2. \A u \in Tid \ {t} : line'[u] = line[u] /\ local'[u] = local[u]
    BY DEF PrintInv, TasksOK
  <2>. QED BY <1>1, <1>2, <2>1, <2>2 DEF Keeps
<1>5. TasksOK'
  <2>1. \A u \in {t} : TaskOK(u)'
    BY <1>1, <1>2, <1>3
  <2>. QED BY <1>4, <2>1, OthersOK DEF PrintInv
<1>. QED BY <1>1, <1>5 DEF PrintInv

(* An entry for a task that has none.                                      *)
LEMMA InsertInv ==
  ASSUME PrintInv, NEW t \in Tid, line[t] \in {"none", "start"}, insert_process(t)
  PROVE  /\ HashInv' /\ Members' = Members \cup {t}
         /\ gettime_data' = [gettime_data EXCEPT ![t] = 0]
<1>1. t \in Tid \ Members
  BY DEF PrintInv, TasksOK, TaskOK, Followed
<1>2. adding = NoTid /\ Add(t) /\ HashInv
  BY <1>1, FoundMembers DEF PrintInv, insert_process
<1>. QED BY <1>1, <1>2, AddInv DEF Add

LEMMA StartInv ==
  ASSUME PrintInv, NEW t \in Tid, Start(t)
  PROVE  PrintInv'
<1>1. /\ HashInv' /\ Members' = Members \cup {t}
      /\ gettime_data' = [gettime_data EXCEPT ![t] = 0]
  BY InsertInv DEF Start
<1>2. line[t] = "start" /\ line' = [line EXCEPT ![t] = "create"] /\ local' = local
  BY DEF Start
<1>3. TaskOK(t)'
  <2>1. line'[t] = "create" /\ gettime_data'[t] = 0
    BY <1>1, <1>2 DEF PrintInv, TasksOK, HashInv, HashTypeOK
  <2>2. local'[t] = Locals("start") /\ Locals("start") = Locals("create") /\ Ticks("create") = 0
    BY <1>2 DEF PrintInv, TasksOK, TaskOK, Locals, Ticks
  <2>. QED BY <1>1, <2>1, <2>2 DEF TaskOK, Followed, Lines
<1>4. Keeps({t})
  <2>1. line' \in [Tid -> Lines] /\ DOMAIN local' = Tid
    BY <1>2 DEF PrintInv, TasksOK, Lines
  <2>2. \A u \in Tid \ {t} : /\ line'[u] = line[u] /\ local'[u] = local[u]
                             /\ gettime_data'[u] = gettime_data[u]
                             /\ u \in Members' <=> u \in Members
    BY <1>1, <1>2 DEF PrintInv, TasksOK, HashInv, HashTypeOK
  <2>. QED BY <2>1, <2>2 DEF Keeps
<1>5. TasksOK'
  <2>1. \A u \in {t} : TaskOK(u)'
    BY <1>3
  <2>. QED BY <1>4, <2>1, OthersOK DEF PrintInv
<1>. QED BY <1>1, <1>5 DEF PrintInv

(* The new task starts with what its maker gives it.                       *)
LEMMA BearInv ==
  ASSUME PrintInv, NEW t \in Tid, NEW here \in Followed \ {"exit"}, NEW next \in Followed \ {"exit"},
         NEW first \in Followed \ {"exit"}, NEW inherited, NEW copied,
         Bear(t, here, next, first, inherited, copied),
         Locals(next) = Locals(here), Ticks(next) = Ticks(here),
         inherited = Locals(first), Ticks(first) = 0
  PROVE  PrintInv'
<1>1. PICK c \in Tid :
        /\ line[t] = here /\ line[c] = "none" /\ insert_process(c)
        /\ line' = [line EXCEPT ![t] = next, ![c] = first]
        /\ local' = [local EXCEPT ![c] = inherited]
  BY DEF Bear
<1>2. /\ HashInv' /\ Members' = Members \cup {c}
      /\ gettime_data' = [gettime_data EXCEPT ![c] = 0]
  BY <1>1, InsertInv
<1>3. c # t
  BY <1>1 DEF Followed
<1>4. TaskOK(c)'
  <2>1. line'[c] = first /\ local'[c] = inherited /\ gettime_data'[c] = 0
    BY <1>1, <1>2, <1>3 DEF PrintInv, TasksOK, HashInv, HashTypeOK
  <2>. QED BY <1>2, <2>1 DEF TaskOK, Followed
<1>5. TaskOK(t)'
  <2>1. line'[t] = next /\ local'[t] = local[t] /\ gettime_data'[t] = gettime_data[t]
    BY <1>1, <1>2, <1>3 DEF PrintInv, TasksOK, HashInv, HashTypeOK
  <2>2. local[t] = Locals(here) /\ t \in Members /\ gettime_data[t] = Ticks(here)
    BY <1>1 DEF PrintInv, TasksOK, TaskOK, Followed
  <2>. QED BY <1>2, <2>1, <2>2 DEF TaskOK
<1>6. Keeps({t, c})
  <2>1. line' \in [Tid -> Lines] /\ DOMAIN local' = Tid
    BY <1>1 DEF PrintInv, TasksOK, Followed
  <2>2. \A u \in Tid \ {t, c} : /\ line'[u] = line[u] /\ local'[u] = local[u]
                                /\ gettime_data'[u] = gettime_data[u]
                                /\ u \in Members' <=> u \in Members
    BY <1>1, <1>2 DEF PrintInv, TasksOK, HashInv, HashTypeOK
  <2>. QED BY <2>1, <2>2 DEF Keeps
<1>7. TasksOK'
  <2>1. \A u \in {t, c} : TaskOK(u)'
    BY <1>4, <1>5
  <2>. QED BY <1>6, <2>1, OthersOK DEF PrintInv
<1>. QED BY <1>2, <1>7 DEF PrintInv

LEMMA ExitInv ==
  ASSUME PrintInv, NEW t \in Tid, Exit(t)
  PROVE  PrintInv'
<1>. DEFINE next == IF line[t] = "exit" THEN "none" ELSE "returned"
<1>1. /\ line[t] \in {"exit", "return"} /\ delete_process(t) /\ adding = NoTid
      /\ line' = [line EXCEPT ![t] = next] /\ local' = local
  BY DEF Exit, delete_process
<1>2. t \in Members /\ HashInv
  BY <1>1 DEF PrintInv, TasksOK, TaskOK, Followed, Lines
<1>3. HashInv' /\ Members' = Members \ {t}
  BY <1>1, <1>2, DeleteInv
<1>4. gettime_data' = [gettime_data EXCEPT ![t] = 0]
  BY <1>1, <1>2, FoundMembers DEF delete_process
<1>5. TaskOK(t)'
  <2>1. line'[t] = next /\ local'[t] = local[t]
    BY <1>1 DEF PrintInv, TasksOK
  <2>2. CASE line[t] = "exit"
    BY <1>3, <2>1, <2>2 DEF TaskOK, Followed
  <2>3. CASE line[t] = "return"
    <3>1. local[t] = Locals("return") /\ Locals("return") = Locals("returned")
      BY <2>3 DEF PrintInv, TasksOK, TaskOK, Locals
    <3>. QED BY <1>3, <2>1, <2>3, <3>1 DEF TaskOK, Followed
  <2>. QED BY <1>1, <2>2, <2>3
<1>6. Keeps({t})
  <2>1. line' \in [Tid -> Lines] /\ DOMAIN local' = Tid
    BY <1>1 DEF PrintInv, TasksOK, Lines
  <2>2. \A u \in Tid \ {t} : /\ line'[u] = line[u] /\ local'[u] = local[u]
                             /\ gettime_data'[u] = gettime_data[u]
                             /\ u \in Members' <=> u \in Members
    BY <1>1, <1>3, <1>4 DEF PrintInv, TasksOK, HashInv, HashTypeOK
  <2>. QED BY <2>1, <2>2 DEF Keeps
<1>7. TasksOK'
  <2>1. \A u \in {t} : TaskOK(u)'
    BY <1>5
  <2>. QED BY <1>6, <2>1, OthersOK DEF PrintInv
<1>. QED BY <1>3, <1>7 DEF PrintInv

LEMMA PrintedHas ==
  ASSUME NEW out, NEW values, NEW ok \in BOOLEAN, ok
  PROVE  Printed(Has(0, out), values, ok) = Has(0, out \o values)
<1>1. Printed(Has(0, out), values, ok) = [Has(0, out) EXCEPT !.out = @ \o values, !.ret = @]
  BY DEF Printed
<1>. QED BY <1>1 DEF Has

(* The ends of those arrays.                                               *)
LEMMA FilledEnds ==
  ASSUME NEW n \in {9, 10}, NEW k
  PROVE  LET buf == Filled(n, RandomAnswer(n, k)) IN
         /\ buf[0] = 187 /\ buf[n + 1] = 187
         /\ \A j \in 1..n : buf[j] = 34
BY DEF Filled, RandomAnswer

LEMMA GetrandomInv ==
  ASSUME PrintInv, NEW t \in Tid, Getrandom(t) \/ Getrandom2(t)
  PROVE  PrintInv'
<1>. DEFINE k == ClockOf(t)
<1>1. /\ adding = NoTid /\ line[t] \in {"getrandom", "getrandom2"}
      /\ line[t] \in Followed \ {"exit"}
  BY DEF Getrandom, Getrandom2, Call, Followed, Lines
<1>2. \A answer : Reply(t, answer) = answer
  BY <1>1, ReplyIs
<1>3. k = 0 /\ local[t] = Locals(line[t])
  BY <1>1 DEF PrintInv, TasksOK, TaskOK, ClockOf, Ticks
<1>4. RandomAnswer(9, k).ticks = 0 /\ RandomAnswer(10, k).ticks = 0
  BY <1>3 DEF RandomAnswer
<1>. HIDE DEF k
<1>5. CASE Getrandom(t)
  <2>. DEFINE r == RandomAnswer(9, k)
              buf == Filled(9, r)
              ok == buf[1] = 34 /\ buf[9] = 34 /\ buf[10] = 187 /\ buf[0] = 187
              values == [j \in 1..11 |-> buf[j - 1]]
  <2>1. Call(t, "getrandom", r, "getrandom2", Printed(local[t], values, ok))
    BY <1>2, <1>5 DEF Getrandom, k
  <2>2. ok /\ values = Bytes(9)
    BY FilledEnds, FilledBytes
  <2>3. local[t] = Has(0, <<>>)
    BY <1>3, <2>1 DEF Call, Locals
  <2>7. Bytes(9) \in Seq(Int)
    BY BytesSeq
  <2>. HIDE DEF ok, values
  <2>4. Printed(local[t], values, ok) = Has(0, values)
    <3>1. ok \in BOOLEAN
      BY DEF ok
    <3>2. Printed(local[t], values, ok) = Has(0, <<>> \o values)
      BY <2>2, <2>3, <3>1, PrintedHas
    <3>. QED BY <2>2, <2>7, <3>2, EmptyConcat
  <2>5. Printed(local[t], values, ok) = Locals("getrandom2")
    BY <2>2, <2>4 DEF Locals, Printed2
  <2>6. r.ticks \in Nat /\ r.ticks = Ticks("getrandom2")
    BY <1>4 DEF Ticks
  <2>. HIDE DEF r
  <2>. QED BY <2>1, <2>5, <2>6, CallInv DEF Followed, Lines
<1>6. CASE Getrandom2(t)
  <2>. DEFINE r == RandomAnswer(10, k)
              buf == Filled(10, r)
              ok == buf[1] = 34 /\ buf[2] = 34 /\ buf[11] = 187 /\ buf[0] = 187
              values == [j \in 1..12 |-> buf[j - 1]]
  <2>1. Call(t, "getrandom2", r, "gettimeofday", Printed(local[t], values, ok))
    BY <1>2, <1>6 DEF Getrandom2, k
  <2>2. ok /\ values = Bytes(10)
    BY FilledEnds, FilledBytes
  <2>3. local[t] = Has(0, Printed2)
    BY <1>3, <2>1 DEF Call, Locals
  <2>. HIDE DEF ok, values
  <2>4. Printed(local[t], values, ok) = Has(0, Printed2 \o values)
    <3>1. ok \in BOOLEAN
      BY DEF ok
    <3>. QED BY <2>2, <2>3, <3>1, PrintedHas
  <2>5. Printed(local[t], values, ok) = Locals("gettimeofday")
    BY <2>2, <2>4 DEF Locals, Printed3
  <2>6. r.ticks \in Nat /\ r.ticks = Ticks("gettimeofday")
    BY <1>4 DEF Ticks
  <2>. HIDE DEF r
  <2>. QED BY <2>1, <2>5, <2>6, CallInv DEF Followed, Lines
<1>. QED BY <1>5, <1>6

(* The three calls that ask for the time.                                  *)
LEMMA TimeInv ==
  ASSUME PrintInv, NEW t \in Tid, Gettimeofday(t) \/ Time(t) \/ Clock_gettime(t)
  PROVE  PrintInv'
<1>1. /\ adding = NoTid /\ line[t] \in {"gettimeofday", "time", "clock_gettime"}
      /\ line[t] \in Followed \ {"exit"}
  BY DEF Gettimeofday, Time, Clock_gettime, Call, Followed, Lines
<1>2. \A answer : Reply(t, answer) = answer
  BY <1>1, ReplyIs
<1>3. ClockOf(t) = Ticks(line[t]) /\ local[t] = Locals(line[t])
  BY <1>1 DEF PrintInv, TasksOK, TaskOK, ClockOf
<1>4. \A n \in 0..2 : /\ <<Timespec(n)[1], Timespec(n)[2]>> = Timespec(n)
                      /\ Timespec(n)[1] = TvSec + n /\ InRange(TvSec + n)
  BY DEF Timespec, TvSec, InRange
<1>5. CASE Gettimeofday(t)
  <2>. DEFINE r == ClockAnswer(0)
              ok == InRange(r.poke[1])
              values == <<r.poke[1], r.poke[2]>>
  <2>0. line[t] = "gettimeofday" /\ ClockOf(t) = 0
    BY <1>3, <1>5 DEF Gettimeofday, Call, Ticks
  <2>1. Call(t, "gettimeofday", r, "time", Printed(local[t], values, ok))
    BY <1>2, <1>5, <2>0 DEF Gettimeofday
  <2>2. ok /\ values = Timespec(0) /\ ok \in BOOLEAN
    BY <1>4 DEF ClockAnswer, InRange
  <2>3. local[t] = Has(0, Printed3)
    BY <1>3, <2>0 DEF Locals
  <2>. HIDE DEF ok, values
  <2>4. Printed(local[t], values, ok) = Locals("time")
    BY <2>2, <2>3, PrintedHas DEF Locals, Printed4
  <2>5. r.ticks \in Nat /\ r.ticks = Ticks("time")
    BY DEF Ticks, ClockAnswer
  <2>. HIDE DEF r
  <2>. QED BY <2>1, <2>4, <2>5, CallInv DEF Followed, Lines
<1>6. CASE Time(t)
  <2>. DEFINE r == TimeAnswer(1)
              ok == r.poke[1] = r.rax /\ InRange(r.rax)
              values == <<r.rax>>
  <2>0. line[t] = "time" /\ ClockOf(t) = 1
    BY <1>3, <1>6 DEF Time, Call, Ticks
  <2>1. Call(t, "time", r, "clock_gettime", Printed(local[t], values, ok))
    BY <1>2, <1>6, <2>0 DEF Time
  <2>2. ok /\ values = <<TvSec + 2>> /\ ok \in BOOLEAN
    BY <1>4 DEF TimeAnswer, InRange
  <2>3. local[t] = Has(0, Printed4)
    BY <1>3, <2>0 DEF Locals
  <2>. HIDE DEF ok, values
  <2>4. Printed(local[t], values, ok) = Locals("clock_gettime")
    BY <2>2, <2>3, PrintedHas DEF Locals, Printed5
  <2>5. r.ticks \in Nat /\ r.ticks = Ticks("clock_gettime")
    BY DEF Ticks, TimeAnswer
  <2>. HIDE DEF r
  <2>. QED BY <2>1, <2>4, <2>5, CallInv DEF Followed, Lines
<1>7. CASE Clock_gettime(t)
  <2>. DEFINE r == ClockAnswer(2)
              ok == InRange(r.poke[1])
              values == <<r.poke[1], r.poke[2]>>
  <2>0. line[t] = "clock_gettime" /\ ClockOf(t) = 2
    BY <1>3, <1>7 DEF Clock_gettime, Call, Ticks
  <2>1. Call(t, "clock_gettime", r, "return", Printed(local[t], values, ok))
    BY <1>2, <1>7, <2>0 DEF Clock_gettime
  <2>2. ok /\ values = Timespec(2) /\ ok \in BOOLEAN
    BY <1>4 DEF ClockAnswer, InRange
  <2>3. local[t] = Has(0, Printed5)
    BY <1>3, <2>0 DEF Locals
  <2>. HIDE DEF ok, values
  <2>4. Printed(local[t], values, ok) = Locals("return")
    BY <2>2, <2>3, PrintedHas DEF Locals, Printed6
  <2>5. r.ticks \in Nat /\ r.ticks = Ticks("return")
    BY DEF Ticks, ClockAnswer
  <2>. HIDE DEF r
  <2>. QED BY <2>1, <2>4, <2>5, CallInv DEF Followed, Lines
<1>. QED BY <1>5, <1>6, <1>7

(* What the thread, date(1) and main do before the fork.                   *)
LEMMA BeforeForkInv ==
  ASSUME PrintInv, NEW t \in Tid, Date(t) \/ Open(t) \/ Read(t)
  PROVE  PrintInv'
<1>1. line[t] \in {"date", "open", "read"} /\ line[t] \in Followed \ {"exit"}
  BY DEF Date, Open, Read, Call, Followed, Lines
<1>2. gettime_data[t] = 0 /\ local[t] = Locals(line[t])
  BY <1>1 DEF PrintInv, TasksOK, TaskOK, Ticks
<1>3. CASE Date(t)
  <2>. DEFINE r == ClockAnswer(0)
  <2>1. adding = NoTid /\ ClockOf(t) = 0
    BY <1>2, <1>3 DEF Date, Call, ClockOf
  <2>2. Call(t, "date", r, "exit", Unset)
    BY <1>1, <1>3, <2>1, ReplyIs DEF Date
  <2>3. r.ticks \in Nat
    BY DEF ClockAnswer
  <2>. HIDE DEF r
  <2>. QED BY <2>2, <2>3, CallInv DEF Followed, Lines
<1>4. CASE Open(t)
  <2>. DEFINE r == OpenAnswer(0)
              locals == [local[t] EXCEPT !.fd = r.rax]
  <2>1. adding = NoTid /\ ClockOf(t) = 0 /\ line[t] = "open"
    BY <1>2, <1>4 DEF Open, Call, ClockOf
  <2>2. Call(t, "open", r, "read", locals)
    BY <1>1, <1>4, <2>1, ReplyIs DEF Open
  <2>3. r.ticks = 0 /\ r.rax = 0
    BY DEF OpenAnswer
  <2>4. locals = Locals("read") /\ Ticks("read") = 0
    BY <1>2, <2>1, <2>3 DEF Locals, Unset, Has, Ticks
  <2>. HIDE DEF r, locals
  <2>5. r.ticks \in Nat /\ r.ticks = Ticks("read")
    BY <2>3, <2>4
  <2>. QED BY <2>2, <2>4, <2>5, CallInv DEF Followed, Lines
<1>5. CASE Read(t)
  <2>1. /\ line[t] = "read" /\ line' = [line EXCEPT ![t] = "fork"] /\ UNCHANGED hashVars
        /\ local' = local
    BY <1>5 DEF Read
  <2>2. local[t] = Locals("fork") /\ Ticks("fork") = Ticks(line[t])
    BY <1>2, <2>1 DEF Locals, Ticks
  <2>. QED BY <1>1, <2>1, <2>2, LineInv DEF Followed, Lines
<1>. QED BY <1>3, <1>4, <1>5

LEMMA MakeInv ==
  ASSUME PrintInv, NEW t \in Tid, pthread_create(t) \/ System(t) \/ Fork(t)
  PROVE  PrintInv'
<1>. USE DEF Followed, Lines, Locals, Ticks
<1>1. CASE pthread_create(t)
  BY <1>1, BearInv DEF pthread_create
<1>2. CASE System(t)
  BY <1>2, BearInv DEF System
<1>3. CASE Fork(t)
  <2>1. local[t] = Locals("fork") /\ Locals("fork") = Locals("getrandom")
    BY <1>3 DEF Fork, Bear, PrintInv, TasksOK, TaskOK
  <2>. QED BY <1>3, <2>1, BearInv DEF Fork
<1>. QED BY <1>1, <1>2, <1>3

LEMMA AwaitInv ==
  ASSUME PrintInv, NEW t \in Tid, pthread_join(t) \/ WaitDate(t)
  PROVE  PrintInv'
<1>1. PICK here \in {"join", "wait"} : Await(t, here, IF here = "join" THEN "open" ELSE "exit")
  BY DEF pthread_join, WaitDate
<1>. DEFINE next == IF here = "join" THEN "open" ELSE "exit"
<1>2. /\ line[t] = here /\ line' = [line EXCEPT ![t] = next] /\ UNCHANGED hashVars
      /\ local' = local
  BY <1>1 DEF Await
<1>3. line[t] \in Followed \ {"exit"} /\ next \in Followed
  BY <1>2 DEF Followed, Lines
<1>4. local[t] = Locals(here)
  BY <1>2 DEF PrintInv, TasksOK, TaskOK
<1>5. next # "exit" => local[t] = Locals(next) /\ Ticks(next) = Ticks(line[t])
  BY <1>2, <1>4 DEF Locals, Ticks
<1>. HIDE DEF next
<1>. QED BY <1>2, <1>3, <1>4, <1>5, LineInv

LEMMA PrintStepInv ==
  ASSUME PrintInv, [PrintNext]_<<hashVars, printVars>>
  PROVE  PrintInv'
<1>1. ASSUME NEW t \in Tid, PrintStep(t)
      PROVE  PrintInv'
  BY <1>1, StartInv, MakeInv, AwaitInv, BeforeForkInv, GetrandomInv, TimeInv, ExitInv DEF PrintStep
<1>2. CASE Grow /\ UNCHANGED printVars
  <2>1. HashInv' /\ Members' = Members /\ gettime_data' = gettime_data
    BY <1>2, GrowKeeps, GrowBeginInv, GrowItemInv, GrowNextBucketInv, GrowEndInv
       DEF PrintInv, Grow
  <2>2. line' = line /\ local' = local
    BY <1>2 DEF printVars
  <2>. QED BY <2>1, <2>2 DEF PrintInv, TasksOK, TaskOK
<1>3. CASE UNCHANGED <<hashVars, printVars>>
  <2>1. HashInv' /\ hh' = hh /\ gettime_data' = gettime_data
    BY <1>3, HashStutter DEF PrintInv, hashVars
  <2>2. line' = line /\ local' = local /\ Members' = Members
    BY <1>3, <2>1 DEF printVars, Members
  <2>. QED BY <2>1, <2>2 DEF PrintInv, TasksOK, TaskOK
<1>4. CASE Finished
  BY <1>3, <1>4 DEF Finished, printVars
<1>. QED BY <1>1, <1>2, <1>3, <1>4 DEF PrintNext

LEMMA PrintInvariance == PrintSpec => []PrintInv
<1>1. PrintInv /\ [PrintNext]_<<hashVars, printVars>> => PrintInv'
  BY PrintStepInv
<1>. QED BY <1>1, PrintInitInv, PTL DEF PrintSpec

(* Neither main nor its child finds anything wrong.                        *)
THEOREM TestAlwaysPasses == PrintSpec => []TestPasses
<1>1. PrintInv => TestPasses
  BY DEF PrintInv, TasksOK, TaskOK, TestPasses, Locals, Has
<1>. QED BY <1>1, PrintInvariance, PTL

-----------------------------------------------------------------------------
(* Behind the read, what has been received is what standard input has sent.*)
AfterRead == {"fork", "getrandom", "getrandom2", "gettimeofday", "time", "clock_gettime",
              "return", "returned"}

FromInput(r) == \A j \in 1..r.result : r.bytes[j] = Input[j]

InputOK ==
  /\ DOMAIN received = Tid
  /\ \A t \in Tid : line[t] \in AfterRead => FromInput(received[t])

LEMMA InputStep ==
  ASSUME PrintInv, InputOK, [PrintNext]_<<hashVars, printVars>>
  PROVE  InputOK'
<1>. USE DEF InputOK, AfterRead
<1>1. line \in [Tid -> Lines]
  BY DEF PrintInv, TasksOK
<1>2. ASSUME received' = received, NEW t \in Tid, line[t] \in AfterRead \/ line'[t] \notin AfterRead,
             \A u \in Tid \ {t} : line'[u] = line[u]
      PROVE  InputOK'
  BY <1>2
<1>3. ASSUME NEW t \in Tid, Read(t)
      PROVE  InputOK'
  <2>1. PICK n \in 0..BufferSize, bytes \in [1..BufferSize -> Octet] :
          /\ line[t] = "read"
          /\ local[t].fd = 0 => \A j \in 1..n : bytes[j] = Input[j]
          /\ line' = [line EXCEPT ![t] = "fork"]
          /\ received' = [received EXCEPT ![t] = [result |-> n, bytes |-> bytes]]
    BY <1>3 DEF Read
  <2>2. local[t].fd = 0
    BY <2>1 DEF PrintInv, TasksOK, TaskOK, Locals, Has
  <2>3. received'[t] = [result |-> n, bytes |-> bytes]
    BY <2>1
  <2>4. FromInput(received'[t])
    BY <2>1, <2>2, <2>3 DEF FromInput
  <2>5. \A u \in Tid \ {t} : line'[u] = line[u] /\ received'[u] = received[u]
    BY <1>1, <2>1
  <2>6. DOMAIN received' = Tid
    BY <2>1
  <2>7. \A u \in Tid : line'[u] \in AfterRead => FromInput(received'[u])
    BY <2>4, <2>5
  <2>. QED BY <2>6, <2>7 DEF FromInput
<1>4. ASSUME NEW t \in Tid, NEW c \in Tid, c # t, line' = [line EXCEPT ![t] = "getrandom", ![c] = "getrandom"],
             line[t] = "fork", received' = [received EXCEPT ![c] = received[t]]
      PROVE  InputOK'
  <2>1. \A u \in Tid \ {t, c} : line'[u] = line[u] /\ received'[u] = received[u]
    BY <1>1, <1>4
  <2>2. received'[t] = received[t] /\ received'[c] = received[t] /\ FromInput(received[t])
    BY <1>4
  <2>3. DOMAIN received' = Tid
    BY <1>4
  <2>4. \A u \in Tid : line'[u] \in AfterRead => FromInput(received'[u])
    BY <2>1, <2>2
  <2>. QED BY <2>3, <2>4 DEF FromInput
<1>5. ASSUME NEW t \in Tid, NEW c \in Tid, NEW next \in {"join", "wait"},
             NEW first \in {"system", "date"},
             line' = [line EXCEPT ![t] = next, ![c] = first],
             received' = [received EXCEPT ![c] = Unread]
      PROVE  InputOK'
  <2>1. \A u \in Tid : line'[u] \in AfterRead => line'[u] = line[u] /\ received'[u] = received[u]
    BY <1>1, <1>5
  <2>2. DOMAIN received' = Tid
    BY <1>5
  <2>. QED BY <2>1, <2>2 DEF FromInput
<1>6. ASSUME NEW t \in Tid, PrintStep(t)
      PROVE  InputOK'
  <2>1. CASE Start(t) \/ Date(t) \/ Open(t) \/ pthread_join(t) \/ WaitDate(t)
    BY <1>1, <1>2, <2>1 DEF Start, Date, Open, Call, pthread_join, WaitDate, Await
  <2>2. CASE Getrandom(t) \/ Getrandom2(t) \/ Gettimeofday(t) \/ Time(t) \/ Clock_gettime(t)
    BY <1>1, <1>2, <2>2 DEF Getrandom, Getrandom2, Gettimeofday, Time, Clock_gettime, Call
  <2>3. CASE Exit(t)
    BY <1>1, <1>2, <2>3 DEF Exit
  <2>4. CASE pthread_create(t) \/ System(t)
    <3>1. PICK next \in {"join", "wait"}, first \in {"system", "date"}, c \in Tid :
            /\ line' = [line EXCEPT ![t] = next, ![c] = first]
            /\ received' = [received EXCEPT ![c] = Unread]
      BY <2>4 DEF pthread_create, System, Bear
    <3>. QED BY <1>5, <3>1
  <2>5. CASE Fork(t)
    <3>1. PICK c \in Tid :
            /\ line[t] = "fork" /\ line[c] = "none"
            /\ line' = [line EXCEPT ![t] = "getrandom", ![c] = "getrandom"]
            /\ received' = [received EXCEPT ![c] = received[t]]
      BY <2>5 DEF Fork, Bear
    <3>2. c # t
      BY <3>1
    <3>. QED BY <1>4, <3>1, <3>2
  <2>. QED BY <1>3, <1>6, <2>1, <2>2, <2>3, <2>4, <2>5 DEF PrintStep
<1>7. CASE UNCHANGED printVars
  BY <1>7 DEF printVars, FromInput
<1>. QED BY <1>6, <1>7 DEF PrintNext, Finished

(* Both print what has come from standard input, as far as it goes, and    *)
(* behind it the same in every run.                                        *)
THEOREM OutputIsSame == PrintSpec => []SameOutput
<1>1. Printed6 = <<187>> \o [j \in 1..9 |-> 34] \o <<187>>
                         \o <<187>> \o [j \in 1..10 |-> 34] \o <<187>>
                         \o Timespec(0) \o <<TvSec + 2>> \o Timespec(2)
  <2>. DEFINE a == <<187>>
              b == [j \in 1..10 |-> 34]
  <2>1. ASSUME NEW s \in Seq(Int)
        PROVE  s \o Bytes(10) = s \o a \o b \o a
    <3>1. a \in Seq(Int) /\ b \in Seq(Int)
      OBVIOUS
    <3>. HIDE DEF a, b
    <3>0. \A x, y, z \in Seq(Int) : (x \o y) \o z = x \o (y \o z)
      BY ConcatThree
    <3>2. a \o b \in Seq(Int) /\ s \o a \in Seq(Int)
      BY <3>1
    <3>3. s \o ((a \o b) \o a) = (s \o (a \o b)) \o a
      BY <3>0, <3>1, <3>2
    <3>4. s \o (a \o b) = (s \o a) \o b
      BY <3>0, <3>1
    <3>. QED BY <3>3, <3>4 DEF Bytes, a, b
  <2>2. Printed2 \in Seq(Int)
    BY BytesSeq DEF Printed2
  <2>. HIDE DEF a, b
  <2>3. Printed3 = Printed2 \o a \o b \o a
    BY <2>1, <2>2 DEF Printed3
  <2>. QED BY <2>3 DEF Printed6, Printed5, Printed4, Printed2, Bytes, a, b
<1>2. PrintInv /\ InputOK => SameOutput
  <2>1. PrintInv => \A t \in Tid : line[t] = "returned" => local[t].out = Printed6
    BY DEF PrintInv, TasksOK, TaskOK, Locals, Has
  <2>2. InputOK => \A t \in Tid : line[t] = "returned" => FromInput(received[t])
    BY DEF InputOK, AfterRead
  <2>. QED BY <1>1, <2>1, <2>2 DEF SameOutput, FromInput
<1>3. HashInit /\ PrintInit => InputOK
  BY DEF PrintInit, InputOK, AfterRead
<1>4. PrintInv /\ InputOK /\ [PrintNext]_<<hashVars, printVars>> => InputOK'
  BY InputStep
<1>. QED BY <1>2, <1>3, <1>4, PrintInvariance, PTL DEF PrintSpec
=============================================================================
