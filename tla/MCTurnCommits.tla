---------------------------- MODULE MCTurnCommits ----------------------------
(***************************************************************************)
(* TurnCommits on small instances: one config per question.  Requests are  *)
(* interchangeable, and so are sessions that are all of one kind: no run   *)
(* that reduces by this group states a liveness property.                  *)
(***************************************************************************)
EXTENDS TurnCommits, TLC

Symmetry == Permutations(Requests) \cup Permutations(Sessions)
==============================================================================
