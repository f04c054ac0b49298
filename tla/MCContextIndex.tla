--------------------------- MODULE MCContextIndex ---------------------------
(* Two calls on a workflow of two chapters; calls are alike. *)
EXTENDS ContextIndex, TLC

CallSymmetry == Permutations(Calls)
=============================================================================
