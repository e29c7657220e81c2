--------------------------- MODULE MCCandidateApply ---------------------------
(***************************************************************************)
(* CandidateApply on two maps, which are interchangeable.                  *)
(***************************************************************************)
EXTENDS CandidateApply, TLC

Symmetry == Permutations(Maps)
==============================================================================
