------------------------ MODULE MCWorkflowExecution -------------------------
(* Two concurrent calls on a workflow of one chapter (five steps); calls are *)
(* alike, and so are requests.                                               *)
EXTENDS WorkflowExecution, TLC

Alike == Permutations(Calls) \cup Permutations(Requests)

\* An approval or a claim whose UPDATE can no longer succeed can only conflict,
\* for the workflow row it has read never comes back.  Its conflict changes no
\* row, no other step depends on it or changes it; so it conflicts at once.
LosersFirst ==
    LET LostPlan(r) == approval[r] # Unread /\ ~ENABLED ApprovePlan(r)
        LostClaim(c) == call[c].pc = "claiming" /\ ~ENABLED ClaimStep(c)
    IN  (\E r \in Requests : LostPlan(r)) \/ (\E c \in Calls : LostClaim(c)) =>
        (\E r \in Requests : LosePlan(r)) \/ (\E c \in Calls : LoseClaim(c))
=============================================================================
