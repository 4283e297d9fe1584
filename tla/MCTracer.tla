------------------------------ MODULE MCTracer ------------------------------
(* Instances of the tracer for TLC.                                        *)
EXTENDS TracerRefinement, TracerQuiet, TLC

(* Ids other than the first child's are interchangeable.                   *)
Symmetry == Permutations(Tid \ {Root})
=============================================================================
