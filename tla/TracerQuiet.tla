----------------------------- MODULE TracerQuiet -----------------------------
(***************************************************************************)
(* Some properties of Tracer only hold where certain things do not happen: *)
(* each of the runs that expect a violation shows one of these things.     *)
(* Here they are named, with the invariants that hold without them.        *)
(***************************************************************************)
EXTENDS TracerInvariant

(* No program makes threads, or none makes an execve: only then does no    *)
(* thread take the place of its leader (thread_exec shows one that does).  *)
NoTakeover == "thread" \notin Calls \/ "execve" \notin Calls

(* Nothing comes between the two stops of an open of /dev/urandom: no      *)
(* signal stop shows its number again (urandom_signal shows one), and no   *)
(* other thread puts the path in when the call is over.                    *)
PathsKept ==
  /\ "urandom" \in Calls => "OTHER" \notin Signals
  /\ "thread" \in Calls => "openat" \notin Calls

(* A task only dies of a call of its own.                                  *)
NothingKilled ==
  /\ "KILL" \notin Signals
  /\ "thread" \notin Calls \/ Calls \cap {"execve", "exit_group"} = {}

(* Every address a program passes is one that can be read or written.      *)
AddressesGood == Calls \cap {"badaddr", "open"} = {}

-----------------------------------------------------------------------------
(* What holds of the programs in any case.                                 *)

(* Every task is in the group of a leader, which is not freed before it.   *)
LeadersOK == \A t \in Tid :
  /\ phase[tgid[t]] = "free" => phase[t] = "free"
  /\ tgid[tgid[t]] = tgid[t]
  /\ phase[t] = "free" => tgid[t] = t

(* The fork of the tracer itself is alone, and only makes two calls.       *)
TracerAlone == \A t \in Tid : image[t] = "tracer" =>
  /\ Group(t) \subseteq {t}
  /\ nr[t] \in {"none", "execve", "exit_group"}

UrandomPossible == "urandom" \in Calls \/ {"openat", "thread"} \subseteq Calls

(* A call that shows is one the programs make.                             *)
CallsOK == \A t \in Tid :
  /\ "thread" \notin Calls => nr[t] # "thread" /\ tgid[t] = t
  /\ nr[t] \in {"execve", "exit_group"} /\ phase[t] \in {"entry", "kernel", "dethread"}
       => nr[t] \in Calls \/ image[t] = "tracer"
  /\ phase[t] = "dethread" => nr[t] = "execve"
  /\ nr[t] \in {"openat", "open", "badaddr"} => nr[t] \in Calls
  /\ nr[t] = "urandom" => UrandomPossible

(* The task in a nested wait is on the call it was resumed for.            *)
NestedOK ==
  /\ pc \in {"cancel_wait", "cont_wait"} /\ phase[cur] = "kernel" => nr[cur] \in {"none", "urandom"}
  /\ pc \in {"cancel_wait", "cont_wait"} =>
       phase[cur] \in Stops \cup {"user", "kernel", "leaving", "zombie"}
  /\ pc \in CancelPcs \cup {"cont_resume", "cont_wait", "set_return"} =>
       regs \in Hooked \cup {"urandom"}
  /\ regs = "urandom" => UrandomPossible
  /\ regs \in {"open", "badaddr"} => regs \in Calls
  /\ pc \in SyscallPcs => image[cur] # "tracer"
  /\ pc = "cancel_resume" => nr[cur] = "none" \/ phase[cur] # "entry"
  /\ pc = "cont_resume" => nr[cur] = "urandom" \/ phase[cur] # "entry"

(* Before the loop there is one task, which has not run.                   *)
MainOnly == pc \in MainPcs =>
  /\ phase[Root] \in {"birth", "start", "zombie"}
  /\ \A t \in Tid \ {Root} : phase[t] = "free"

ProgramsOK == LeadersOK /\ TracerAlone /\ CallsOK /\ NestedOK /\ MainOnly

(* The clock of an entry to come is at the start.                          *)
ClocksOK ==
  /\ pc \notin Ended => \A t \in Tid : phase[t] = "free" \/ ~find_process(t) => clock[t] = 0
  /\ pc = "wait_new" => clock[new] = 0

-----------------------------------------------------------------------------
(* Without a takeover.                                                     *)

Unborn(t) == phase[t] \in {"free", "zombie", "birth", "start"}

(* The call the tracer answers may turn out to be over, but the program is *)
(* still the one that made it.                                             *)
ProgramKept ==
  /\ pc \in SyscallPcs /\ nr[cur] = "execve" => phase[cur] \in {"entry", "user", "signal", "zombie"}
  /\ \A t \in Tid : image[t] # "broken"

(* No entry is lost before its task is dead, and an exec stop is looked at *)
(* by the loop and by nothing else.                                        *)
NotTakenOver ==
  /\ ProgramKept
  /\ \A t \in Tid : find_process(t) \/ Unborn(t)
  /\ pc \in {"vdso_new", "init_new"} => Unborn(cur)
  /\ pc \in {"wait_new", "resume_new"} => Unborn(new)
  /\ pc = "init" /\ phase[cur] = "exec" => image[cur] # "fresh"
  /\ pc \in {"hook", "freed", "resume"} \cup ForkPcs \cup SyscallPcs => phase[cur] # "exec"

(* ...and no path changes either: the two stops of a call are the two the  *)
(* tracer takes them for.                                                  *)
CallStopsOK ==
  /\ pc \in {"cancel", "cancel_resume", "cont_resume"} => phase[cur] \in {"entry", "zombie"}
  /\ pc \in WaitPcs => phase[cur] \in {"kernel", "exit", "zombie"}
  /\ pc \in {"poke", "set_return"} => phase[cur] \in {"exit", "zombie"}
  /\ pc \in CancelPcs => regs \in Hooked
  /\ pc = "cancel" => nr[cur] \in {regs, "none"}
  /\ \A t \in Tid : nr[t] = "urandom" =>
       \/ phase[t] \in {"entry", "user", "free"}
       \/ cur = t /\ pc = "cont_wait"
       \/ cur = t /\ pc \in {"set_return", "resume"} /\ phase[t] = "exit"
  /\ pc \in {"freed", "resume"} /\ phase[cur] = "entry" => nr[cur] # "urandom"

-----------------------------------------------------------------------------
(* Without a killing.                                                      *)

(* The parent of t is on its way to the stop that will name t.             *)
Announced(t) == \E p \in Tid :
  /\ phase[p] \in {"spawned", "fork"}
  /\ msg[p] = t
  /\ p = cur => pc = "event_msg"

(* The task the tracer holds stays there, and every task that has no entry *)
(* yet will get one.                                                       *)
NotKilled ==
  /\ pc \in BusyPcs \ WaitPcs => Stopped(cur)
  /\ pc \in WaitPcs => phase[cur] # "zombie"
  /\ pc \notin {"freed", "crashed"}
  /\ pc \in {"main_options", "main_resume"} => Stopped(Root)
  /\ pc \notin MainPcs \cup Ended =>
       \A t \in Tid : Live(t) => find_process(t) \/ Announced(t)
  /\ NoEarlyEnd

QuietInv ==
  /\ ProgramsOK
  /\ NoTakeover => ClocksOK /\ NoVdsoTime /\ NotTakenOver
  /\ NoTakeover /\ PathsKept => CallStopsOK
  /\ NothingKilled => NotKilled
=============================================================================
