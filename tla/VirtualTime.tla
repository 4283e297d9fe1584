----------------------------- MODULE VirtualTime -----------------------------
(***************************************************************************)
(* What the tracer promises about time.  Every task has a clock of its     *)
(* own.  It stands at the start when the task is born and moves by one     *)
(* when, and only when, a question of the task about the time is answered; *)
(* each question is answered once, and nothing else moves a clock.         *)
(***************************************************************************)
EXTENDS Naturals

CONSTANTS Task, First

VARIABLES
  alive,   \* the tasks that live
  time,    \* how many answers each living task has had
  asking   \* the living tasks waiting for an answer

vars == <<alive, time, asking>>

Init ==
  /\ alive = {First}
  /\ time = [t \in Task |-> 0]
  /\ asking = {}

Born(t) ==
  /\ t \notin alive
  /\ alive' = alive \cup {t}
  /\ UNCHANGED <<time, asking>>

Ask(t) ==
  /\ t \in alive \ asking
  /\ asking' = asking \cup {t}
  /\ UNCHANGED <<alive, time>>

Answer(t) ==
  /\ t \in asking
  /\ asking' = asking \ {t}
  /\ time' = [time EXCEPT ![t] = @ + 1]
  /\ UNCHANGED alive

Die(S) ==
  /\ alive' = alive \ S
  /\ time' = [t \in Task |-> IF t \in S THEN 0 ELSE time[t]]
  /\ asking' = asking \ S

Next ==
  \/ \E t \in Task : Born(t) \/ Ask(t) \/ Answer(t)
  \/ \E S \in SUBSET alive : Die(S)

Spec == Init /\ [][Next]_vars
=============================================================================
