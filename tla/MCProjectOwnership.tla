------------------------- MODULE MCProjectOwnership -------------------------
(* Two sessions on one project; what a session does is not about its name. *)
EXTENDS ProjectOwnership, TLC

SessionSymmetry == Permutations(Sessions)
=============================================================================
