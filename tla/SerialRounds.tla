---------------------------- MODULE SerialRounds ----------------------------
(***************************************************************************)
(* What a project promises its author about who may work on it: one round  *)
(* at a time.  A round is a generation workflow with at most one batch, or *)
(* a batch written by hand; the next one begins when it has ended, and a   *)
(* generated round cannot end while its batch waits for a decision.        *)
(* Official chapters are numbered in the order their batches are approved. *)
(***************************************************************************)
EXTENDS Naturals

CONSTANT Sizes          \* chapters a batch may have

VARIABLES
    round,              \* "none", "manual" or "generated"
    draft,              \* the round's batch: "none", "open" or "decided"
    chapters            \* official chapters of the project

BeginGenerated ==
    /\ round = "none" /\ round' = "generated"
    /\ UNCHANGED <<draft, chapters>>

BeginManual ==
    /\ round = "none" /\ round' = "manual"
    /\ draft' = "open"
    /\ UNCHANGED chapters

OpenDraft ==
    /\ round = "generated" /\ draft = "none" /\ draft' = "open"
    /\ UNCHANGED <<round, chapters>>

\* A decision ends a manual round; a generated one has still to learn of it.
Decide ==
    /\ draft = "open"
    /\ \/ UNCHANGED chapters
       \/ \E n \in Sizes : chapters' = chapters + n
    /\ \/ round = "manual" /\ round' = "none" /\ draft' = "none"
       \/ round = "generated" /\ draft' = "decided" /\ UNCHANGED round

EndGenerated ==
    /\ round = "generated" /\ draft # "open"
    /\ round' = "none" /\ draft' = "none"
    /\ UNCHANGED chapters

Next == BeginGenerated \/ BeginManual \/ OpenDraft \/ Decide \/ EndGenerated

Spec == /\ round = "none" /\ draft = "none" /\ chapters = 0
        /\ [][Next]_<<round, draft, chapters>>
=============================================================================
