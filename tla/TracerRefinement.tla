-------------------------- MODULE TracerRefinement --------------------------
(***************************************************************************)
(* The tracer implements VirtualTime: a task's clock is gettime_data of    *)
(* its entry, and it is asking from the moment it makes a time call until  *)
(* the answer has been written to its buffer.                              *)
(***************************************************************************)
EXTENDS Tracer

Asking(t) ==
  /\ Live(t)
  /\ \/ nr[t] = "time"
     \/ cur = t /\ regs = "time" /\ pc \in CancelPcs

Time == INSTANCE VirtualTime WITH
  Task <- Tid,
  First <- Root,
  alive <- {t \in Tid : Live(t)},
  time <- [t \in Tid |-> IF Live(t) THEN clock[t] ELSE 0],
  asking <- {t \in Tid : Asking(t)}

(* Every task reads its own clock, which starts over at its birth, stands  *)
(* still between its time calls, moves once for each of them and for       *)
(* nothing else (handle_syscall, insert_process and delete_process).       *)
EachAnsweredOnce == Time!Spec

(* Every question is answered while the task lives, unless the tracer has  *)
(* failed: no end of the event loop and no wait comes in between (each way *)
(* from the entry stop of a time call leads through replace_buf).          *)
QuestionsAnswered == \A t \in Tid :
  Asking(t) ~> (Live(t) /\ ~Asking(t)) \/ pc = "failed"
=============================================================================
