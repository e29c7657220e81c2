--------------------------- MODULE MCForegroundRun ---------------------------
(***************************************************************************)
(* ForegroundRun on small instances.  Calls are interchangeable, and so    *)
(* are ids; the runs that state liveness use no symmetry.                  *)
(***************************************************************************)
EXTENDS ForegroundRun, TLC

Symmetry == Permutations(Calls) \cup Permutations(Ids)
==============================================================================
