# A verification of `reproduce`

`reproduce` runs a program so that it cannot see real time or real randomness. It
forks, traces the child and everything the child starts with ptrace(2), cancels
the system calls that ask for time or random bytes and answers them itself, answers
opens of `/dev/random` and `/dev/urandom` with the descriptor of standard input, and takes the vDSO
(time without a system call) out of every new program. This directory holds a
TLA+ model of it, the TLC runs that check the model and theorems about it that
TLAPS proves. Paths below are relative to `src/reproduce/`.

## The system

| Part | State | Operations | What makes it correct |
| --- | --- | --- | --- |
| `src/main.c`: forks the first program, sets the ptrace options, starts the loop | – | `main`, `initialize_seed` | the first child has an entry and its options before it runs |
| `src/events.c`: the event loop | the pid and status of the last `waitpid(-1)` | `handle_event`, `register_new_child` | every task is followed from birth to death; whoever is reported is resumed; the loop ends when, and only when, nobody is left |
| `src/syscalls.c`: the hooks | the registers of the current stop | `handle_syscall`, `redirect_dev_random` | no hooked call is carried out; each is answered once, at its own exit, from the clock of its own task |
| `src/putils.c`, `include/putils.h`: ptrace in small pieces | – | `child_cancel_syscall`, `child_continue_syscall`, `child_returns`, `replace_buf`, `read_child_c_string`, `PTRACE_RETURN`, `PTRACE_DELETE` | a task that is gone is told from a task that is not; nothing outside the buffer changes |
| `src/hashtable.c`: the followed tasks | the table, one virtual clock per entry, a counter beside the table | `insert_process`, `delete_process`, `find_process`, `is_hash_table_empty` | counter and table agree; an entry lives as long as its task |
| `src/proc_init.c`, `src/vdso.c`: a new program | – | `proc_init`, `remove_vdso` | a program first runs when its auxiliary vector no longer names the vDSO |
| `include/uthash.h` (vendored): what `hashtable.c` expands to | a list of all entries, buckets of chains, the numbers that decide about growth | `HASH_FIND`, `HASH_ADD`, `HASH_DELETE`, `HASH_EXPAND_BUCKETS` | it is a map, whatever the hash function and however often it has grown |
| `src/printrandom.c`: the test program | its variables and what it has printed | the hooked calls, a thread, a fork | it exits with 0; what it prints of the answers is the same in every run |
| the kernel and the traced programs (external) | the state of every task | stops, deaths, fork, clone, execve, exit, signals | – |
| `include/cstd.h` (logging), `tests/`, build files | – | – | not modelled, see the end |

The tracer is one thread. It talks to the kernel through `ptrace` and `waitpid`
only, and between any two of these calls the traced tasks run, are killed, get
signals and end. This is where the difficulty lies:

- **Nested waits.** `handle_event` waits for anybody; `child_cancel_syscall`,
  `child_continue_syscall` and `register_new_child` wait for one task. A report
  consumed by one of them is not seen by the others.
- **Two stops per call.** The entry and the exit of a call look the same. The code
  keeps no state to tell them apart: it relies on `orig_rax = -1` and on the
  nested waits.
- **Births in either order.** The kernel makes a child runnable before the parent
  stops for the fork event; child or parent may be heard of first.
- **Death at any point.** A task may die between the report of its stop and the
  requests that follow. ESRCH then leads to `PTRACE_RETURN` or `PTRACE_DELETE`.
- **Two ideas of "who is left".** The counter of the table, and the kernel's
  (`ECHILD`).
- **An execve by a thread** ends the other threads and continues under the id of
  the leader.
- **A table that is rebuilt while it is walked.** A chain that has become too long
  makes the next `insert_process` deal all entries out to twice as many buckets,
  rewriting the links it is following.
- **Clocks that move before or after.** `time` advances the clock and then answers,
  the other two answer and then advance it; what a program sees must depend on its
  own calls only.

`PROJECT.json` lists each hazard at its line with the properties that cover it.

## The modules

| Module | Models | |
| --- | --- | --- |
| `Tasks` | task ids | constants `Tid`, `Root`, `NoTid` and their assumption |
| `ProcessTable` | `hashtable.c` | `process_table` is the set of ids with an entry, `clock[t]` the number of times the entry's `gettime_data` has been advanced, `entry_count` the counter. One operator per function, with its early return |
| `Ptrace` | the kernel and the programs (external) | `phase[t]` says where a task is: in the program, in a call, in one of six kinds of stop, dead, gone. `seen[t]`: waitpid has reported the stop. `nr[t]` is `orig_rax`, `image[t]` what the auxiliary vector shows |
| `Tracer` | `main.c`, `events.c`, `syscalls.c`, `putils.c`, `proc_init.c`, `vdso.c` | `pc` is the next ptrace or waitpid call, `cur` is the loop's pid, `new` the pid in `register_new_child`, `regs` the number in the registers that were read. Each kernel call of the code is one action and includes everything the code does up to the next one; a call that can fail with ESRCH has that outcome as a guard on `phase` |
| `VirtualTime` | abstract | what the tracer promises about time: each task has a clock, which moves once per answered question and never otherwise |
| `TracerRefinement` | | the refinement mapping; `EachAnsweredOnce` says that `Tracer` implements `VirtualTime` |
| `TracerInvariant` | | the inductive invariant `IInv` |
| `TracerQuiet` | | what must not happen for the other properties of `Tracer` to hold, as conditions on the constants, and the inductive invariant `QuietInv`, each part under its condition |
| `TracerProofs`, `TracerQuietProofs`, `TracerRefinementProofs` | | the theorems about `Tracer`: what always holds, what holds under those conditions, and that it implements `VirtualTime` |
| `MCTracer` | | the instance TLC checks, with its symmetry |
| `Memory` | a program's memory (external) | bytes of one mapping, read and poked by words; `theirs` remembers what another thread has stored to |
| `ReplaceBuf` | `replace_buf` | the word loop, and the last word's read, change and write as two steps |
| `ReadChildString` | `read_child_c_string` | one turn of its loop per step |
| `VdsoScan` | `remove_vdso` at an exec stop | the walk over argv, envp and the auxiliary vector, one ptrace call per step |
| `ChildMemory` | | the three together, each called on a task that may be killed; small enough for TLC as it is |
| `ChildSyscall` | `child_syscall`, `child_exec_syscall` and the register accessors | `regs` is the caller's copy of the registers, `task` those of the task; one ptrace call per step. Nothing in the program calls them; the model calls them where `child_cancel_syscall` is called |
| `HashTable` | `hashtable.c` with the macros of `uthash.h` it expands | `hh[t]` is the handle in an entry, with its links in the list and in its chain; `tbl` and `buckets` are the structures of the same names. Insertion and deletion are one step each; the growth of the table is one step per entry, with the entry it stands at in `thh` |
| `Answers` | `syscalls.c` | what each hook writes, returns and does to the clock |
| `PrintRandom` | `printrandom.c` | its main thread, the thread, the `date(1)` of the thread and the forked child. `line` is the statement each is at, `local` its variables and what it has printed from them, `received` the `result` and `buffer` of its `read`, which it prints too; their calls are answered by `Answers` from the entries of `HashTable` |
| `TracerData` | | `ChildMemory`, `ChildSyscall`, `HashTable` and `PrintRandom` side by side for TLC; the tracer is one thread and in one of them at a time |
| `ChildMemoryProofs`, `ChildSyscallProofs` | | the theorems about the three word loops and about `child_syscall` |
| `HashTableProofs` | | the theorems about the list, the chains and their growth, and that `HashTable` implements `ProcessTable` |
| `PrintRandomProofs` | | the theorems about the test program, on top of those about its table |
| `Induction` | | induction over the natural numbers with sets in the place of predicates |

Every definition that stands for code is listed under `map` in `PROJECT.json`
with its lines.

Definitions with a comment that begins "A variant for" are plausible bugs of the
code; `PROJECT.json` lists under `mutants` which operation each replaces and which
property then fails. They are not part of any specification.

### Points of the code that the model takes literally

- `PTRACE_DELETE`'s `continue` (`include/putils.h:42`) leaves the macro's own
  `do ... while (0)` and nothing else. After the failed `PTRACE_GETREGS` in the
  loop, `handle_syscall` is therefore called on a freed entry and on registers
  nobody has read: `HookGone` leads to the pc `freed`, and `HookFreed` allows
  every outcome.
- `register_new_child` only waits when `insert_process` made a new entry
  (`GetEventMsg`); the status of that `waitpid` is not looked at (`WaitNew`).
- A waitpid inside `child_cancel_syscall` or `child_continue_syscall` looks only
  for the end of the task (`AwaitStop`); any stop will do.
- `open(2)` shares the handler of `openat`, so its flags are read as a path
  (`ReadPathFails`).
- `w_arg4` writes `rcx`; the kernel takes the fourth argument of a system call from
  `r10` (`ArgRegister`, `KernelRegister`). `child_syscall` would make a call of four
  arguments with a stale one. Nothing calls it, so this is not under Findings.
- An entry's clock counts seconds and nanoseconds in step and never carries: after
  `n` answers it shows `n` seconds and `n` nanoseconds more (`Timespec`).
- The copy of the registers taken at a stop is written back whole by
  `child_returns` at a later stop, `orig_rax`, `rip` and `rsp` included (`SetReturn`). If that
  stop is the exec stop of a program a sibling thread has put in the task's place, the new program
  is left with the instruction and stack pointer of the old one (`SetRegs`: its image is
  `"broken"`). It may make any call after that, or fault (`Fault`); as the loop drops the
  signal it may fault again and again.
- `printrandom` prints all of `buffer`, whatever `read` has returned. `Read` chooses how much it
  gets from standard input, and what the rest of `buffer` held.

## The runs

| Run | Instance | Shows |
| --- | --- | --- |
| `tracer_all` | 3 ids, all calls, SIGKILL and other signals, 4 calls | what holds whatever programs do and whoever kills them: `TypeOK`, `CountsEntries`, `NoRealAnswer`, `Tracked`, `HookAtEntry`, `NoLostStop`, `EntryOutlivesTask`, and the inductive invariant `IInv` |
| `tracer_signals` | 3 ids, processes without threads, signals that do not kill, 5 calls | `ReturnAtExit`, `ChildHasEntry`, `NoVdsoTime`, `NoEarlyEnd`, `NoCrash`, `FailsOnEarlyChild`, `EachAnsweredOnce`, no deadlock |
| `tracer_threads` | 3 ids, processes and threads that end one by one, no signals, 4 calls, fairness | `ReturnAtExit`, `EachAnsweredOnce`, the liveness properties `StopServed`, `QuestionsAnswered` and `TerminationDetected`, no deadlock |
| `child_memory` | 7 bytes, words of 3, a string buffer of 6; stacks of up to 2 strings in argv and envp and 2 entries of the vector; calls of up to 6 arguments; a table of 4 ids, 4 hash values, 1 bucket at first and a threshold of 1; the test program with a `buffer` of 2 bytes of 2 values | `BufferReplaced`, `RestKept`, `StringRead`, `VdsoRemoved` for every buffer, string and stack of these bounds; `ResultOfCall`; `TableIsMap`, `ListSound`, `ChainsSound`, `ChainBounded` for every hash function and every sequence of operations; `TestPasses` and `SameOutput` for every order of the test program's steps and every length and content of its read; no deadlock |
| `tail_word` | the same, other threads store next to the buffer | the store that `replace_buf` undoes; see Findings |
| `lost_child`, `freed_child`, `stack_scan`, `late_event`, `thread_exec`, `urandom_signal`, `noop_hang` | 2 ids, 2 to 4 calls | one disagreement each between the code and what it or its README says; see Findings |

**Bounds.** `Tid` has three ids: a parent, a child and a third that is a
grandchild, a sibling, or a thread of either. An id that has been freed is handed
out again, so three ids also give the reuse of a pid. `MaxCalls` bounds the
calls of all programs together (exits apart). Four calls are enough for a birth,
another birth or execve, and a hooked call before or after either, in every
order; each counterexample of the findings needs at most four. `tracer_signals` has a
fifth, for a hooked call in parent and child after two births. The ids other
than the first child's are interchangeable, except in `tracer_threads`, which
checks liveness and so uses no symmetry. Nothing else is bounded in the tracer runs.
In `child_memory` 7 bytes of words of 3 hold no word, one word, two words, and
each of these with a last word of one or two bytes, at every alignment and across
the end of the mapping; a string buffer of 6 is filled inside and at the end of a
word; two entries of the vector put one entry before, behind or in the place of
the vDSO's.

The table of `child_memory` starts with one bucket and grows at one entry, where the
code has 32 and 10 (`InitialBuckets`, `Threshold`). The smaller numbers make what takes
hundreds of entries in the code happen with four: growth with several chains,
chains that stay long because the hash values agree, growth that does not help
twice in a row and is given up (`noexpand`), growth again after deletions. Four
ids are a chain with a first, two inner and a last entry. `MaxHash` of 3 gives
hash functions from constant to injective; the hash function is a variable that
is chosen at the start, so every one is checked. `MaxBuckets` of 16 cuts the
insertions that would make the table larger; with four hash values eight or
sixteen buckets hold what four hold. `MaxTicks` of 1 tells a clock that has moved
from one that has not. The ids are interchangeable here, the first child of the
test program included, as it can have any of them. With a threshold of 2 and four
or five ids the properties of the table hold as well; that instance is not kept,
as it never gives up growing.

`BufferSize` and `Octet` are 2 and two values where `printrandom` has 16 and 256; `Input` is
`<<1, 0>>`. A read is then empty, short or complete, and what it leaves is equal to the input or
not. The test program runs with the hash values 0 and 1 only (`ProgramMode`): all equal, or differing
in the last bit. Every hash function is checked with every sequence of operations on the table
alone (`TableMode`), and `PrintRandomProofs` is for all.

**Deadlock** is checked in `child_memory`, `tail_word`, `tracer_signals`, `tracer_threads`, `stack_scan`,
`late_event` and `urandom_signal`; an ended system has a step of its own
(`Terminated`, `Returned`, `CallReturned`, `Finished`). It is not checked where a hang of the tracer is possible, either
the one found in `noop_hang` or the wait for a killed leader.

**Fairness.** `FairSpec` asks for weak fairness of the tracer's steps (it is a
process the scheduler runs, and none of its steps waits for anything but a
report), of `ExitKill` (the kernel carries out `PTRACE_O_EXITKILL`), and of the
kernel's own progress with each task (`KernelRuns`: a call is returned from, a
stop is reached). `QuestionsAnswered` needs all three: the waitpid in the loop, the
nested one of the cancelled call and the kernel in between. It allows for the
tracer's failure, which `stack_scan` shows to be possible. A program is not
obliged to make another call, nor a signal to arrive. The liveness results are about programs that make finitely many calls:
with unboundedly many, a `waitpid(-1)` that always reports somebody else could
starve a task.

**Where the conditions come from.** The properties of `tracer_signals` and
`tracer_threads` fail under the conditions these runs leave out, and the
violation runs show how. `tracer_all` has no such condition.

## Findings

| Run | What the code does |
| --- | --- |
| `lost_child` | A parent killed after its child was made and before the fork event was handled takes the only table entry with it; `handle_event` returns, the child is killed. |
| `freed_child` | A task killed between its stop and `PTRACE_GETREGS` makes the loop call `handle_syscall` on the entry just freed. |
| `stack_scan` | A child heard of before its parent's fork event gets `remove_vdso`, which scans (and may change) the stack of a running program. |
| `late_event` | A child that was heard of first and has already gone when the parent's event is handled makes `register_new_child` wait for nobody; the tracer exits. |
| `thread_exec` | The loop hears of a leader (at its clone event); before it resumes it, a thread's execve puts the exec stop of the new program in its place. The loop resumes that stop without having heard of it, `proc_init` is not called, and the new program runs with its vDSO. |
| `urandom_signal` | A signal stop after `openat("/dev/urandom")` is handled as another entry of that call; the registers of the program's next call are overwritten. |
| `tail_word` | For the last bytes of a buffer `replace_buf` reads and rewrites a whole word; what a sibling thread stores behind the buffer in between is lost. |
| `noop_hang` | A thread's `exit_group` while the tracer waits for the leader's cancelled call: the leader's end is not reported before the thread's, for which nobody waits. |

## The theorems

`TracerProofs` proves, for every finite or infinite behaviour and every value of
the constants that satisfies `TasksAssumption` (`Tid` is a finite set that contains
`Root` and not `NoTid`) and `PtraceAssumption` (the calls and signals are among
the kinds the model knows, `MaxCalls` is a natural number):

| Theorem | Statement |
| --- | --- |
| `Invariance` | `Spec => []IInv` |
| `TypeCorrect` | `Spec => []TypeOK` |
| `EntriesCounted` | `Spec => []CountsEntries` |
| `NothingRealAnswered` | `Spec => []NoRealAnswer` |
| `HookedOnlyAtEntry` | `Spec => []HookAtEntry` |
| `EveryTaskTracked` | `Spec => []Tracked` |
| `NoStopLost` | `Spec => []NoLostStop` |
| `EntriesOutliveTasks` | `Spec => EntryOutlivesTask` |

None of the properties is inductive. That no real answer gets through, for one,
depends on what the tracer resumes at each of its six `PTRACE_SYSCALL`s, and
so on what it knows of the task there. `IInv` records that knowledge:

- `Held`: what the tracer has been told of stays in its stop, or dies, until it
  is resumed; it may come back at an exec stop, when a sibling thread's execve
  takes over its id.
- `Cancelled`, `HookedAtEntry`: a hooked number appears only at an entry stop, and
  where the tracer is about to resume a task it is not there any more.
- `EarlyOK`: the tasks resumed without a look at their registers (the first child,
  the new child of `register_new_child`, a task given to `proc_init`) are at a
  stop that is not a hooked call's entry.
- `EntryKept`, `Tracked`: whoever can make a call has an entry, so the loop looks at
  its registers and does not take it for a new task.
- `SeenHeld`: a reported stop belongs to a task some local variable of the tracer
  names, so none is lost.
- `LocalsOK`, `EventsOK`: what the locals and the event messages name.

The proof goes through the actions of the kernel, of `main`, of the loop and of
the hooks in turn: type correctness and the counter first (they need nothing of
the control part), then `ControlOK`. That the counter follows the table uses the
cardinality of finite sets.

### What holds under conditions

The other properties of `Tracer` are false without a condition, and for each condition a
run that expects a violation, or a counterexample TLC gives when it is dropped, shows it.
`TracerQuiet` states them on the constants `Calls` and `Signals`. They are about all programs
together, and so stronger than what the hazards need: `NoTakeover` leaves out every execve as soon as
any program makes a thread, though only an execve in a process that has threads at the time is harmful. In
particular `printrandom`, whose thread runs `date(1)` in a process of its own, is outside
`NoTakeover`:

| Condition | Says | Without it |
| --- | --- | --- |
| `NoTakeover` | no program makes threads, or none calls execve | `thread_exec` |
| `PathsKept` | nothing comes between the two stops of an open of `/dev/urandom`: no other signal, and no thread that rewrites the path | `urandom_signal`; with `Calls` of openat, thread and time, TLC finds that `EachAnsweredOnce` is violated too |
| `NothingKilled` | no SIGKILL, and no thread that ends its siblings by `exit_group` or `execve` | `lost_child`, `freed_child` |
| `AddressesGood` | no call is passed an address that cannot be read or written | the tracer then ends with EIO by intent |

`TracerQuietProofs` and `TracerRefinementProofs` prove, with the assumptions above:

| Theorem | Condition | Statement |
| --- | --- | --- |
| `QuietInvariance` | – | `Spec => []QuietInv` |
| `VdsoNeverUsed` | `NoTakeover` | `Spec => []NoVdsoTime` |
| `AnswersAtExit` | `NoTakeover`, `PathsKept` | `Spec => []ReturnAtExit` |
| `NeverCrashes` | `NothingKilled` | `Spec => []NoCrash` |
| `ChildrenHaveEntries` | `NothingKilled` | `Spec => []ChildHasEntry` |
| `EndsLast` | `NothingKilled` | `Spec => []NoEarlyEnd` |
| `FailsOverChildrenOnly` | `NothingKilled`, `AddressesGood` | `Spec => FailsOnEarlyChild` |
| `Refines` | `NoTakeover`, `PathsKept` | `Spec => EachAnsweredOnce` |

`QuietInv` adds to `IInv`:

- `ProgramsOK`: what programs can be seen to do at all: the leader of a group outlives
  it, the fork of the tracer is alone, a call that shows is one of `Calls`, and a task in
  a nested wait is on the call it was resumed for.
- `ClocksOK`, `NotTakenOver` (`NoTakeover`): no entry is lost before its task is dead,
  an exec stop is looked at by the loop alone, the registers of one program are never given to
  another (`ProgramKept`), and the clock of an entry to come is at its start.
- `CallStopsOK` (and `PathsKept`): in each phase of a hook the task is at the entry of
  the call, in it, or at its exit, as the code takes for granted.
- `NotKilled` (`NothingKilled`): the task that the tracer holds stays there, and every
  task without an entry is `Announced`: its parent is on its way to the event that names it.

The refinement has one theorem per step: a step of the kernel leaves the clocks alone
and makes a task live, a question or nothing of `VirtualTime` (`KernelRefines`), and so does one
of the tracer, except that the write of an answer is its `Answer` (`OneAnswered`, `TracerRefines`).
The clock of an id without an entry does not matter in `Tracer`, so the mapping needs
`ClocksOK`.

### The functions that go through a task

`ChildMemoryProofs` proves, for every word size, mapping, buffer, string and stack
(`MemoryAssumption`: a word has at least one byte; `ReadAssumption`: the string buffer
has two or more; `ScanAssumption`: the bound on the strings and entries is a number, any number):

| Theorem | Statement |
| --- | --- |
| `BuffersReplaced` | `Spec => []BufferReplaced` |
| `RestIsKept` | `~Neighbours` implies `Spec => []RestKept` |
| `StringsRead` | `Spec => []StringRead` |
| `VdsosRemoved` | `Spec => []VdsoRemoved` |

`ReplaceInv` says that the bytes before `i` have been replaced, and
that the last word, once read, holds the source's bytes and then, if no other
thread writes there, exactly the bytes that are still behind the buffer.
`ReadInv` says that the buffer holds the bytes from `start` on, none of them 0, and is
full or before a 0 when the loop is left; that this is the string uses that a string has an
end, the least member of a set of numbers (`StringEndEffect`).
`ScanInv` says where on the stack the two 0s are that `zeroCount` counts and where the
types of the vector are (`Layout`), and that the types passed so far do not name the vDSO. `FreshLayout`
shows that every stack the kernel lays out is like that.

`ChildSyscallProofs` proves `ResultsOfCalls`, that is `CallSpec => []ResultOfCall`: the task's
registers are those written until the call is made, and those read afterwards are the
task's.

### The table

`HashTableProofs` proves, for every finite set of ids, every function in the place of
`HASH_JEN`, every threshold, and `HashAssumption` (the number of buckets at first is a
power of two; the threshold is not 0; the bounds are numbers, any numbers):

| Theorem | Statement |
| --- | --- |
| `ListIsSound` | `HashSpec => []ListSound` |
| `ChainsAreSound` | `HashSpec => []ChainsSound` |
| `ChainsAreBounded` | `HashSpec => []ChainBounded` |
| `TableRefines` | `HashSpec => TableIsMap` |

`Walk`, in which the model says what following the links meets, is a recursive function
over positions in the list, and a change in the middle moves all positions behind it. The
invariant does not speak of positions. `Linked` says what each member and its neighbours
say of each other, and that a *rank* goes down along the links; a rank is a number per
entry that exists nowhere in the code, so `HashInv` says that some ranks exist. From
that, `WalkAll` shows once that following the links meets all members and nobody else: it
meets only members; it meets none twice, as the rank goes down, and so ends, as there are
finitely many ids; and the member of the highest rank among those it missed would
have a predecessor that it met. Putting an entry in front of a list, behind it, and taking
one out of it are then one lemma each (`LinkedPrepend`, `LinkedAppend`, `LinkedDelete`), used for
the list of all entries and for the chains, with new ranks below or above the others.

While the table grows the old chains are being taken apart. `GrowthOK` has the set
`rest` of those left in the bucket that is dealt out; `Waiting(rest)` adds those in the
buckets behind it, and everybody else is in a new chain. The first of `rest` may still
point back to an entry that has gone, the others may not. When all is
dealt out nobody waits, so the new chains hold all entries.

`ChainBounded` needs the same for the new buckets while they are filled (`GrownBounded`): an entry
that makes a new chain longer than `ideal_chain_maxlen * expand_mult` counts the multiplier up.
The bound is `Share`, the threshold or the ideal length, whichever is more: the insertion compares
with `HASH_BKT_CAPACITY_THRESH`, the growth with `ideal_chain_maxlen`. The
two may differ either way for other values of the constants, and a bound by the threshold
alone would not hold for all of them.

In `TableRefines` an insertion that makes the table grow is a step of `ProcessTable` only when the
growth has ended: until then the map is without the entry that is being added,
which nobody can look up yet.

### The test program

`PrintRandomProofs` proves for every set of ids, hash function and order of the steps of its
tasks `TestAlwaysPasses` (`PrintSpec => []TestPasses`) and `OutputIsSame`
(`PrintSpec => []SameOutput`): what main and its child have read is the beginning of standard
input, and what they print of the calls behind it is one fixed sequence. Nothing is said of the bytes of
`buffer` that a short read leaves, which differ from run to run. The invariant is that of the
table, and for each task that it has an entry exactly between its birth and its end, that its
clock is what its own calls have made it (`Ticks`), and that its locals are what its own lines
have made them (`Locals`); `InputOK` adds what has been read. `PrintAssumption` says that the input is
as long as the buffer, and of bytes.

### Model-checked only

Liveness under fairness (`StopServed`, `QuestionsAnswered`, `TerminationDetected`) is out
of the prover's reach. Every other property of a passing run is a theorem, some of them under the
conditions above. The
invariants of the table and of the test program have no run of their own: `HashInv` speaks of
some functions from ids to integers, which TLC cannot enumerate. Where a proof needs
induction (the word loops, the walk along a list) it is over a set of
numbers that is closed under successor (`Induction`), as the theorems of the library that
take a predicate cannot be used by the provers at hand.

## Not modelled, and why

- The hash function of `uthash.h` (`HASH_JEN`) is any function of the pid. Its macros
  for sorting, selection, replacement, ordered insertion and Bloom filters, the
  other hash functions and the debugging checks are not expanded by the program;
  the checks of `HASH_FSCK` are `ListSound` and `ChainsSound`.
- Allocation failure in `insert_process`, in `uthash.h` and for the buffer of a
  getrandom; failures of `fork`, `kill`, `ptrace(PTRACE_TRACEME)` in `main`.
- `initialize_seed` seeds `random()`, which nothing calls.
- Logging, the usage message, `print_event`, `print_hashtable`: no state.
- The blocking of a vfork parent: its event is that of a fork.
- What a dropped signal would have done to a program (the code resumes with
  signal 0 always).
- The failures of `replace_buf` and `read_child_c_string` next to the end of a mapping,
  and the word of -1 in a path, are modelled; they end the tracer, and no document
  says that it must go on, so no property rules them out.
- The carry of the nanoseconds, which a program would reach after 483,546,075 calls.
- What lies behind the eight bytes of a `time_t` when the tracer writes sixteen: in
  `PrintRandom` a variable that is not read again. If a compiler put `ret` there the
  test would fail, and `TestPasses` does not say that none does.
- In `PrintRandom`: pids in the output, the calls of the C library at start, the
  shell between `system` and `date`, and the program's ways out when a call fails (a read may be
  short or empty, but not fail). Its tasks get and lose their entries as they are born and end, and
  each call is answered in one step; the events in between are the subject of `Tracer`. That a
  task of `Tracer` is answered once per call, from its own clock, is `EachAnsweredOnce`; it is
  stated under `NoTakeover`, which this program does not meet, so nothing proved here ties the two
  together.
- The Python tests, which only run programs.

## Plan

Done: `Tasks`, `ProcessTable`, `Ptrace`, `Tracer`, the refinement to `VirtualTime` and its
proof; the invariants `IInv` and `QuietInv` and their proofs; the word loops, `child_syscall`,
`uthash.h`, the answers and the test program, with the proofs of all their properties. Left:

1. The end of every nested wait that is not the one of `noop_hang`, as a liveness property.
2. That a table which grows ends growing, as a liveness property of `HashTable`.
3. A proof that the table of `Tracer` may be replaced by that of `HashTable`: `TableRefines`
   and `EachAnsweredOnce` composed.
4. A `NoTakeover` that looks at the process an execve is called in, so that the theorems under it
   cover `printrandom`.
