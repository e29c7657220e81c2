------------------------- MODULE MCConcurrentSources -------------------------
(***************************************************************************)
(* ConcurrentSources on two sessions.  Sessions, paths and texts are each  *)
(* interchangeable.                                                        *)
(***************************************************************************)
EXTENDS ConcurrentSources, TLC

Symmetry == Permutations(Sessions) \cup Permutations(Paths) \cup Permutations(Versions)
==============================================================================
