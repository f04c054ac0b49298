-------------------------- MODULE MCPromptRegistry --------------------------
(* Two processes and two roles. *)
EXTENDS PromptRegistry, TLC

PromptSymmetry == Permutations(Sessions)
=============================================================================
