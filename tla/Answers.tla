------------------------------- MODULE Answers -------------------------------
(***************************************************************************)
(* What handle_syscall of syscalls.c answers: the words or bytes it writes *)
(* to the buffer, the value it returns in rax, and the ticks of the clock  *)
(* of the task's entry afterwards.  A clock of n ticks stands n seconds    *)
(* and n nanoseconds after the time in insert_process; the nanoseconds are *)
(* not carried.                                                            *)
(***************************************************************************)
EXTENDS Naturals, Sequences

TvSec == 1718099106
TvNsec == 516453925

Timespec(n) == <<TvSec + n, TvNsec + n>>

(* A variant for TestPasses: the clock moves between the buffer and the    *)
(* answer.                                                                 *)
TimeThenTick(n) == [poke |-> Timespec(n), rax |-> Timespec(n + 1)[1], ticks |-> n + 1]

(* time(): the clock moves first.                                          *)
TimeAnswer(n) == [poke |-> Timespec(n + 1), rax |-> Timespec(n + 1)[1], ticks |-> n + 1]

(* gettimeofday() and clock_gettime(): it moves afterwards.                *)
ClockAnswer(n) == [poke |-> Timespec(n), rax |-> 0, ticks |-> n + 1]

RandomAnswer(len, n) == [poke |-> [j \in 1..len |-> 34], rax |-> len, ticks |-> n]

(* openat() of /dev/urandom is carried out, and answered with the          *)
(* descriptor of standard input.                                           *)
OpenAnswer(n) == [poke |-> <<>>, rax |-> 0, ticks |-> n]
=============================================================================
