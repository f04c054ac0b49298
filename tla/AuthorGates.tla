---------------------------- MODULE AuthorGates ----------------------------
(***************************************************************************)
(* What the system promises the author of one generation workflow: no      *)
(* model writes a chapter before the author approves the plan, nothing     *)
(* becomes official before the author approves the text, each decision is  *)
(* taken once, and the project is held from the start of the workflow to   *)
(* its end and is never given up while a text waits for the author.        *)
(*                                                                         *)
(* WorkflowExecution implements it up to the candidate step,               *)
(* CandidateBatch from that step on.                                       *)
(***************************************************************************)

VARIABLES
    plan,       \* the author's decision on the plan
    writing,    \* a model has been asked to write
    text,       \* what became of the generated text
    held        \* the project is held by the workflow

vars == <<plan, writing, text, held>>

AtStart ==
    plan = "none" /\ writing = FALSE /\ text = "none" /\ held = TRUE
AtCandidateStep ==
    plan = "approved" /\ writing = TRUE /\ text = "none" /\ held = TRUE

DecidePlan ==
    /\ held /\ plan = "none"
    /\ \/ plan' = "approved" /\ UNCHANGED held
       \/ plan' = "rejected" /\ held' = FALSE
    /\ UNCHANGED <<writing, text>>

StartWriting ==
    /\ held /\ plan = "approved" /\ ~writing
    /\ writing' = TRUE
    /\ UNCHANGED <<plan, text, held>>

OfferText ==
    /\ held /\ writing /\ text = "none"
    /\ text' = "candidate"
    /\ UNCHANGED <<plan, writing, held>>

DecideText ==
    /\ held /\ text = "candidate"
    /\ text' \in {"official", "rejected"}
    /\ UNCHANGED <<plan, writing, held>>

\* The workflow ends: it is cancelled, or the decision on its text is known.
Release ==
    /\ held /\ text # "candidate"
    /\ held' = FALSE
    /\ UNCHANGED <<plan, writing, text>>

Next == DecidePlan \/ StartWriting \/ OfferText \/ DecideText \/ Release

FromStart == AtStart /\ [][Next]_vars
FromCandidateStep == AtCandidateStep /\ [][Next]_vars
=============================================================================
