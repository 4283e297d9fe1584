----------------------------- MODULE PrintRandom -----------------------------
(***************************************************************************)
(* printrandom.c, the repository's test program, under the tracer: its     *)
(* main thread, the thread it creates and joins, the date(1) that thread   *)
(* runs, and the child it forks.  The tracer gives each of them an entry   *)
(* when it is born, answers its calls from that entry and removes it when  *)
(* it ends; when it does so, and what can come between, is Tracer.         *)
(***************************************************************************)
EXTENDS HashTable, Answers

CONSTANTS
  BufferSize,  \* sizeof(buffer) in main, 16
  Octet,       \* what a byte can be
  Input        \* the first bytes of what comes on standard input

ASSUME PrintAssumption ==
  /\ BufferSize \in Nat
  /\ Input \in [1..BufferSize -> Octet]

VARIABLES
  line,    \* what each task does next
  awaits,  \* the task it waits for
  local,   \* its other local variables, and what it has printed from them
  received \* result and buffer, as it has printed them

printVars == <<line, awaits, local, received>>

Unset == [fd |-> 3, out |-> <<>>, ret |-> 0]

Unread == [result |-> 0, bytes |-> <<>>]

PrintIdle ==
  /\ line = [t \in Tid |-> "none"]
  /\ awaits = [t \in Tid |-> NoTid]
  /\ local = [t \in Tid |-> Unset]
  /\ received = [t \in Tid |-> Unread]

(* main has been started under any of the ids.                             *)
PrintInit ==
  /\ \E main \in Tid : line = [t \in Tid |-> IF t = main THEN "start" ELSE "none"]
  /\ awaits = [t \in Tid |-> NoTid]
  /\ local = [t \in Tid |-> Unset]
  /\ received = [t \in Tid |-> Unread]

-----------------------------------------------------------------------------
(* What the kernel would have answered: never twice the same, and none of  *)
(* what the tracer answers.                                                *)
Real == [poke |-> [j \in 1..10 |-> 200], rax |-> 200, ticks |-> 0]

(* A variant for SameOutput: one clock for all.                            *)
SharedClock(t) ==
  CHOOSE n \in {gettime_data[u] : u \in Tid} : \A u \in Tid : gettime_data[u] <= n

(* child->gettime_data: of the entry that the loop has looked up.          *)
ClockOf(t) == gettime_data[t]

(* A task without an entry would be resumed, and the kernel would answer.  *)
Reply(t, answer) == IF find_process(t) THEN answer ELSE Real

(* t makes a call and gets the reply; then it goes on, with these locals.  *)
Call(t, here, reply, next, locals) ==
  /\ adding = NoTid
  /\ line[t] = here
  /\ line' = [line EXCEPT ![t] = next]
  /\ local' = [local EXCEPT ![t] = locals]
  /\ gettime_data' = [gettime_data EXCEPT ![t] = reply.ticks]
  /\ UNCHANGED <<awaits, received, hash, head, hh, entry_count, tbl, buckets, growVars>>

Printed(l, values, ok) ==
  [l EXCEPT !.out = @ \o values, !.ret = IF ok THEN @ ELSE 1]

Start(t) ==
  /\ line[t] = "start"
  /\ insert_process(t)
  /\ line' = [line EXCEPT ![t] = "create"]
  /\ UNCHANGED <<awaits, local, received>>

(* A task makes another, and goes on itself.                               *)
Bear(t, here, next, first, inherited, copied) == \E c \in Tid :
  /\ line[t] = here /\ line[c] = "none"
  /\ insert_process(c)
  /\ line' = [line EXCEPT ![t] = next, ![c] = first]
  /\ awaits' = [awaits EXCEPT ![t] = c]
  /\ local' = [local EXCEPT ![c] = inherited]
  /\ received' = [received EXCEPT ![c] = copied]

pthread_create(t) == Bear(t, "create", "join", "system", Unset, Unread)
System(t) == Bear(t, "system", "wait", "date", Unset, Unread)
Fork(t) == Bear(t, "fork", "getrandom", "getrandom", local[t], received[t])

Await(t, here, next) ==
  /\ line[t] = here /\ line[awaits[t]] = "none"
  /\ line' = [line EXCEPT ![t] = next]
  /\ UNCHANGED <<awaits, local, received, hashVars>>

pthread_join(t) == Await(t, "join", "open")
WaitDate(t) == Await(t, "wait", "exit")

(* The thread and date(1) leave nothing behind; main and its child, what   *)
(* they have printed and their exit status.                                *)
Exit(t) ==
  /\ line[t] \in {"exit", "return"}
  /\ delete_process(t)
  /\ line' = [line EXCEPT ![t] = IF @ = "exit" THEN "none" ELSE "returned"]
  /\ UNCHANGED <<awaits, local, received>>

Date(t) ==
  Call(t, "date", Reply(t, ClockAnswer(ClockOf(t))), "exit", Unset)

Open(t) ==
  LET r == Reply(t, OpenAnswer(ClockOf(t))) IN
  Call(t, "open", r, "read", [local[t] EXCEPT !.fd = r.rax])

(* From standard input come as many bytes as there are, none at its end,   *)
(* and from anything else any bytes.  All of the buffer is printed, what   *)
(* has not been read included: those bytes are whatever the stack held.    *)
Read(t) == \E n \in 0..BufferSize, bytes \in [1..BufferSize -> Octet] :
  /\ line[t] = "read"
  /\ local[t].fd = 0 => \A j \in 1..n : bytes[j] = Input[j]
  /\ line' = [line EXCEPT ![t] = "fork"]
  /\ received' = [received EXCEPT ![t] = [result |-> n, bytes |-> bytes]]
  /\ UNCHANGED <<awaits, local, hashVars>>

(* An array of n + 2 bytes, the first and the last of them 0xBB and the    *)
(* others to be filled.                                                    *)
Filled(n, r) ==
  [j \in 0..n+1 |-> IF j \in DOMAIN r.poke THEN r.poke[j] ELSE IF j \in {0, n+1} THEN 187 ELSE 0]

Getrandom(t) ==
  LET r == Reply(t, RandomAnswer(9, ClockOf(t)))
      buf == Filled(9, r)
  IN Call(t, "getrandom", r, "getrandom2",
          Printed(local[t], [j \in 1..11 |-> buf[j - 1]],
                  buf[1] = 34 /\ buf[9] = 34 /\ buf[10] = 187 /\ buf[0] = 187))

Getrandom2(t) ==
  LET r == Reply(t, RandomAnswer(10, ClockOf(t)))
      buf2 == Filled(10, r)
  IN Call(t, "getrandom2", r, "gettimeofday",
          Printed(local[t], [j \in 1..12 |-> buf2[j - 1]],
                  buf2[1] = 34 /\ buf2[2] = 34 /\ buf2[11] = 187 /\ buf2[0] = 187))

InRange(sec) == 1718099106 <= sec /\ sec < 1718099106 + 36000

Gettimeofday(t) ==
  LET r == Reply(t, ClockAnswer(ClockOf(t))) IN
  Call(t, "gettimeofday", r, "time",
       Printed(local[t], <<r.poke[1], r.poke[2]>>, InRange(r.poke[1])))

(* mytime_buf is the first word written.  The second lands behind it, on a *)
(* local that has been read before or is written again.                    *)
Time(t) ==
  LET r == Reply(t, TimeAnswer(ClockOf(t))) IN
  Call(t, "time", r, "clock_gettime",
       Printed(local[t], <<r.rax>>, r.poke[1] = r.rax /\ InRange(r.rax)))

Clock_gettime(t) ==
  LET r == Reply(t, ClockAnswer(ClockOf(t))) IN
  Call(t, "clock_gettime", r, "return",
       Printed(local[t], <<r.poke[1], r.poke[2]>>, InRange(r.poke[1])))

PrintStep(t) ==
  \/ Start(t) \/ pthread_create(t) \/ System(t) \/ Date(t) \/ WaitDate(t)
  \/ pthread_join(t) \/ Open(t) \/ Read(t) \/ Fork(t)
  \/ Getrandom(t) \/ Getrandom2(t) \/ Gettimeofday(t) \/ Time(t) \/ Clock_gettime(t)
  \/ Exit(t)

Grow == GrowBegin \/ GrowItem \/ GrowNextBucket \/ GrowEnd

(* All has been printed.                                                   *)
Finished ==
  /\ \A t \in Tid : line[t] \in {"none", "returned"}
  /\ UNCHANGED <<printVars, hashVars>>

PrintNext ==
  \/ \E t \in Tid : PrintStep(t)
  \/ Grow /\ UNCHANGED printVars
  \/ Finished

PrintSpec == HashInit /\ PrintInit /\ [][PrintNext]_<<hashVars, printVars>>

-----------------------------------------------------------------------------
(* The test passes: neither main nor its child finds anything wrong        *)
(* (tests/test_printrandom.py runs it and checks the status).              *)
TestPasses == \A t \in Tid : line[t] = "returned" => local[t].ret = 0

(* What it has read is the beginning of standard input, however much that  *)
(* is; and what it prints of the calls behind it is the same in every run  *)
(* and in both processes, whatever order their calls come in and whatever  *)
(* ids they have got: nothing another task was told, nor the last owner of *)
(* the id, shows there.  Nothing is said of pids, nor of the bytes of its  *)
(* buffer that read() has not filled.                                      *)
SameOutput ==
  \A t \in Tid : line[t] = "returned" =>
    /\ \A j \in 1..received[t].result : received[t].bytes[j] = Input[j]
    /\ local[t].out =
         <<187>> \o [j \in 1..9 |-> 34] \o <<187>>
                 \o <<187>> \o [j \in 1..10 |-> 34] \o <<187>>
                 \o Timespec(0) \o <<TvSec + 2>> \o Timespec(2)
=============================================================================
