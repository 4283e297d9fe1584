-------------------------- MODULE TracerInvariant ---------------------------
(***************************************************************************)
(* The inductive invariant from which the safety properties of Tracer      *)
(* follow.  Most of it says what the C locals stand for: between the       *)
(* waitpid that reports a task and the request that resumes it, the task   *)
(* can do nothing but die, and come back from the dead only at the exec    *)
(* stop of a sibling.                                                      *)
(***************************************************************************)
EXTENDS Tracer

MainPcs == {"main_wait", "main_options", "main_resume"}

(* The pcs inside one iteration of the loop, after its waitpid.            *)
BusyPcs == {"hook", "freed", "resume"} \cup InitPcs \cup ForkPcs \cup SyscallPcs

(* The pcs at which cur runs: a nested waitpid waits for it.               *)
WaitPcs == {"cancel_wait", "cont_wait"}

(* The locals that are in use name a task; in the loop none is.            *)
LocalsOK ==
  /\ pc \in BusyPcs => cur \in Tid
  /\ pc \in MainPcs \cup {"loop"} => cur = NoTid
  /\ pc \in {"wait_new", "resume_new"} => new \in Tid /\ new # cur

(* An event names the task it is about, which is another one.              *)
EventsOK ==
  /\ \A t \in Tid : phase[t] \in {"spawned", "fork"} => msg[t] \in Tid \ {t}
  /\ pc = "event_msg" =>
       /\ phase[cur] \in {"fork", "exec", "zombie"}
       /\ phase[cur] = "exec" => msg[cur] \in Tid \ {cur}

(* A hooked number is only found at the entry stop.                        *)
HookedAtEntry ==
  \A t \in Tid : nr[t] \in Hooked => phase[t] \in {"entry", "free"}

(* What the tracer holds stays where it is, or dies.                       *)
Held == pc \in BusyPcs \ WaitPcs => phase[cur] \in Stops \cup {"zombie"}

(* Where the tracer is about to resume cur, it no longer shows a hooked    *)
(* number.                                                                 *)
Cancelled ==
  pc \in {"resume", "freed", "read_path", "cont_resume", "cancel_resume"}
    => nr[cur] \notin Hooked

(* The tasks resumed without a look at their registers are on no call but  *)
(* an execve.                                                              *)
EarlyOK ==
  /\ pc \in MainPcs => Untracked(Root)
  /\ pc \in {"wait_new", "resume_new"} => Untracked(new)
  /\ pc \in {"vdso_new", "init_new"} => Untracked(cur)
  /\ pc \in {"vdso", "init"} => phase[cur] \in {"exec", "zombie"}

(* What is resumed without an insertion has an entry; only a task that has *)
(* died since its stop can have lost it.                                   *)
EntryKept ==
  /\ pc \in SyscallPcs => find_process(cur)
  /\ pc = "main_resume" => find_process(Root)
  /\ pc \in {"wait_new", "resume_new"} => find_process(new)
  /\ pc \in {"freed", "resume"} =>
       \/ find_process(cur)
       \/ phase[cur] = "zombie"
       \/ phase[cur] = "exec" /\ nr[cur] = "execve"

(* A stop that has been reported is that of a task the tracer holds.       *)
SeenHeld ==
  pc \notin Ended =>
    \A t \in Tid : seen[t] =>
      /\ Stopped(t)
      /\ \/ t = cur
         \/ t = new /\ pc = "resume_new"
         \/ t = Root /\ pc \in {"main_options", "main_resume"}

(* The part of the invariant about where the tracer is and what it holds.  *)
ControlOK ==
  /\ LocalsOK
  /\ EventsOK
  /\ HookedAtEntry
  /\ Tracked
  /\ Held
  /\ Cancelled
  /\ EarlyOK
  /\ EntryKept
  /\ SeenHeld

IInv == TypeOK /\ CountsEntries /\ ControlOK
=============================================================================
