------------------------------- MODULE Tasks -------------------------------
(***************************************************************************)
(* The identifiers every module speaks of.  A task id is what the code     *)
(* calls a pid: ptrace works on threads, so the id of each thread of each  *)
(* process the tracer follows is one.                                      *)
(***************************************************************************)
EXTENDS FiniteSets

CONSTANTS
  Tid,    \* the task ids the kernel can hand out
  Root,   \* the first child, forked by main()
  NoTid   \* "no task": a C local that holds nothing of interest

ASSUME TasksAssumption ==
  /\ IsFiniteSet(Tid)
  /\ Root \in Tid
  /\ NoTid \notin Tid
=============================================================================
