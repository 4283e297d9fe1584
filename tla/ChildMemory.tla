----------------------------- MODULE ChildMemory -----------------------------
(***************************************************************************)
(* The three functions of the tracer that go through the memory of a task, *)
(* each called on a task it holds.  Tracer has each of them as one step.   *)
(***************************************************************************)
EXTENDS ReplaceBuf, ReadChildString, VdsoScan

vars == <<memoryVars, replaceVars, readVars, scanVars>>

Init ==
  \/ ReplaceInit /\ ReadIdle /\ ScanIdle
  \/ ReplaceIdle /\ ReadInit /\ ScanIdle
  \/ ReplaceIdle /\ ReadIdle /\ ScanInit

Returned ==
  /\ at \in {"idle", "done", "failed"}
  /\ where \in {"idle", "done", "null", "failed"}
  /\ stage \in {"idle", "done", "gone"}

Next ==
  \/ ReplaceNext /\ UNCHANGED <<readVars, scanVars>>
  \/ ReadNext /\ UNCHANGED <<replaceVars, scanVars>>
  \/ ScanNext /\ UNCHANGED <<replaceVars, readVars>>
  \/ Returned /\ UNCHANGED vars

Spec == Init /\ [][Next]_vars
=============================================================================
