--------------------------- MODULE MCContextBudget ---------------------------
(* Three candidates of all priorities, in windows around their sizes. *)
EXTENDS ContextBudget
=============================================================================
