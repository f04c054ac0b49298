-------------------------- MODULE MCCandidateBatch --------------------------
(* Two threads and the author on a batch of one or two chapters. *)
EXTENDS CandidateBatch, TLC

CallSymmetry == Permutations(Calls)
=============================================================================
