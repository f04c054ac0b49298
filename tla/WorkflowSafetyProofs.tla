------------------------ MODULE WorkflowSafetyProofs ------------------------
(***************************************************************************)
(* What holds of WorkflowExecution for every number of calls, chapters,    *)
(* attempts and disruptions: first its types, then its inductive           *)
(* invariant.  Shape relates the rows of the workflow and of its steps,    *)
(* Attempts the attempt rows to them, and Fencing what each call knows to  *)
(* all of them.                                                            *)
(***************************************************************************)
EXTENDS WorkflowExecution, TLAPS

StepStatuses == {"ABSENT", "PENDING", "RUNNING", "COMPLETED", "PAUSED"}

-----------------------------------------------------------------------------
(* Lemmas about the operators the actions are built from. *)

\* Positions is a range of naturals that holds every step of the workflow.
LEMMA PositionFacts ==
    /\ Positions \subseteq Nat
    /\ 0 \in Positions /\ 1 \in Positions
    /\ Reviewing \in Positions /\ Candidate \in Positions
    /\ \A p \in Positions : p # Candidate => p + 1 \in Positions
BY ChaptersAssumption DEF Positions, Reviewing, Candidate

\* StatusFor names an executable status.
LEMMA StatusForType ==
    ASSUME NEW p \in Positions
    PROVE  StatusFor(p) \in Executable /\ StatusFor(p) \in Statuses
BY DEF StatusFor, Executable, Statuses

\* What the actions make of a step row is a step row.
LEMMA ClaimedType ==
    ASSUME NEW s \in StepRows
    PROVE  Claimed(s) \in StepRows
BY DEF Claimed, StepRows

LEMMA StartedType ==
    ASSUME NEW s \in StepRows, s.attempts + 1 \in Numbers
    PROVE  Started(s) \in StepRows
BY DEF Started, StepRows, Numbers

LEMMA FinishedType ==
    ASSUME NEW s \in StepRows, NEW status \in StepStatuses,
           NEW artifact \in 0 .. MaxStepAttempts
    PROVE  Finished(s, status, artifact) \in StepRows
BY DEF Finished, StepRows, StepStatuses

LEMMA ReleasedType ==
    ASSUME NEW s \in StepRows, NEW status \in StepStatuses
    PROVE  Released(s, status) \in StepRows
BY FinishedType DEF Released, StepRows

LEMMA RowTypes ==
    /\ Unread \in WorkflowRows
    /\ IdleCall \in CallRows
    /\ NewStep \in StepRows
    /\ AbsentStep \in StepRows
BY PositionFacts, AttemptsAssumption
   DEF Unread, IdleCall, NewStep, AbsentStep, WorkflowRows, CallRows, StepRows,
       Statuses, Executable

\* The rows the actions write are rows of their tables.
LEMMA WorkflowBecomesType ==
    ASSUME TypeOK, NEW status \in Statuses, NEW p \in Positions,
           WorkflowBecomes(status, p)
    PROVE  workflow' \in WorkflowRows
BY DEF TypeOK, WorkflowBecomes, WorkflowRows

LEMMA StepBecomesType ==
    ASSUME TypeOK, NEW status \in StepStatuses, NEW p \in Positions,
           StepBecomes(p, status)
    PROVE  step' \in [Positions -> StepRows]
BY ReleasedType DEF TypeOK, StepBecomes

LEMMA CallEndsType ==
    ASSUME TypeOK, NEW c \in Calls, CallEnds(c)
    PROVE  call' \in [Calls -> CallRows]
BY RowTypes DEF TypeOK, CallEnds

LEMMA AttemptEndsType ==
    ASSUME TypeOK, NEW c \in Calls, NEW result \in AttemptStates,
           AttemptEnds(c, result)
    PROVE  attempt' \in [Positions -> [Numbers -> AttemptStates]]
BY DEF TypeOK, AttemptEnds

\* The outcome of a completion names a status, a position and a step status.
LEMMA CompletionTransitionType ==
    ASSUME TypeOK, NEW p \in Positions, p # Candidate,
           NEW n \in 0 .. MaxStepAttempts,
           NEW verdict \in {"accepted", "blocked", "evidence"}
    PROVE  LET t == CompletionTransition(p, n, verdict) IN
           /\ t.status \in Statuses /\ t.position \in Positions
           /\ t.step \in StepStatuses /\ t.active \in BOOLEAN
<1>1. workflow.status \in Statuses
  BY DEF TypeOK, WorkflowRows
<1>2. p + 1 \in Positions /\ StatusFor(p + 1) \in Statuses
  BY PositionFacts, StatusForType
<1>3. {"PAUSED_REVIEW", "AWAITING_PLAN_APPROVAL"} \subseteq Statuses
  BY DEF Statuses, Paused
<1>4. CASE verdict = "evidence" /\ n = 1
  BY <1>1, <1>4 DEF CompletionTransition, StepStatuses
<1>5. CASE verdict = "blocked" \/ (verdict = "evidence" /\ n # 1)
  BY <1>3, <1>5 DEF CompletionTransition, StepStatuses
<1>6. CASE verdict = "accepted" /\ p = 0
  BY <1>3, <1>6 DEF CompletionTransition, StepStatuses
<1>7. CASE verdict = "accepted" /\ p # 0
  BY <1>2, <1>7 DEF CompletionTransition, StepStatuses
<1> QED BY <1>4, <1>5, <1>6, <1>7

-----------------------------------------------------------------------------
(* Type correctness. *)

\* Every action keeps the types.
LEMMA TypePreserved == TypeOK /\ [Next]_vars => TypeOK'
<1> SUFFICES ASSUME TypeOK, [Next]_vars PROVE TypeOK'
  OBVIOUS
<1> USE PositionFacts, RowTypes
<1>0. workflow.status \in Statuses /\ workflow.position \in Positions
  BY DEF TypeOK, WorkflowRows
<1>a. ASSUME NEW c \in Calls, RecoverExpiredClaims(c) PROVE TypeOK'
  <2>1. workflow' \in WorkflowRows
    BY <1>0, <1>a, WorkflowBecomesType DEF RecoverExpiredClaims
  <2>2. step' \in [Positions -> StepRows]
    BY <1>a, ReleasedType DEF RecoverExpiredClaims, TypeOK, StepStatuses
  <2>3. attempt' \in [Positions -> [Numbers -> AttemptStates]]
    BY <1>a DEF RecoverExpiredClaims, RecoveredAttempts, TypeOK, AttemptStates
  <2> QED BY <1>a, <2>1, <2>2, <2>3 DEF RecoverExpiredClaims, TypeOK
<1>b. ASSUME NEW c \in Calls, PauseStaleWorkflow(c) PROVE TypeOK'
  <2>1. workflow' \in WorkflowRows
    BY <1>0, <1>b, WorkflowBecomesType DEF PauseStaleWorkflow, Statuses, Paused
  <2>2. step' \in [Positions -> StepRows]
    BY <1>0, <1>b, StepBecomesType DEF PauseStaleWorkflow, StepStatuses
  <2> QED BY <1>b, <2>1, <2>2 DEF PauseStaleWorkflow, TypeOK
<1>c. ASSUME NEW c \in Calls, ReadClaim(c) PROVE TypeOK'
  <2>1. step[workflow.position].revision \in Nat
    BY <1>0 DEF TypeOK, StepRows
  <2>2. call' \in [Calls -> CallRows]
    BY <1>0, <1>c, <2>1, AttemptsAssumption DEF ReadClaim, TypeOK, CallRows
  <2> QED BY <1>c, <2>2 DEF ReadClaim, TypeOK
<1>d. ASSUME NEW c \in Calls, ClaimStep(c) PROVE TypeOK'
  <2> DEFINE p == call[c].position
  <2>0. p \in Positions /\ step[p] \in StepRows
    BY DEF TypeOK, CallRows
  <2>1. workflow' \in WorkflowRows
    BY <1>0, <1>d, WorkflowBecomesType DEF ClaimStep
  <2>2. step' \in [Positions -> StepRows]
    BY <1>d, <2>0, ClaimedType DEF ClaimStep, TypeOK
  <2>3. call' \in [Calls -> CallRows]
    <3> DEFINE row == [pc |-> IF p = Candidate THEN "creating" ELSE "claimed",
                       position |-> p, revision |-> step[p].revision + 1,
                       seen |-> Unread, number |-> 0]
    <3>1. row \in CallRows
      BY <2>0, AttemptsAssumption DEF CallRows, StepRows
    <3>2. call' = [call EXCEPT ![c] = row]
      BY <1>d DEF ClaimStep
    <3> QED BY <3>1, <3>2 DEF TypeOK
  <2> QED BY <1>d, <2>1, <2>2, <2>3 DEF ClaimStep, TypeOK
<1>e. ASSUME NEW c \in Calls, LoseClaim(c) PROVE TypeOK'
  BY <1>e, CallEndsType DEF LoseClaim, TypeOK
<1>f. ASSUME NEW c \in Calls, RecordAttemptStart(c) PROVE TypeOK'
  <2> DEFINE p == call[c].position
  <2> DEFINE n == step[p].attempts + 1
  <2>0. p \in Positions /\ step[p] \in StepRows /\ n \in Numbers
    <3>1. p \in Positions /\ step[p] \in StepRows
      BY DEF TypeOK, CallRows
    <3>2. step[p].attempts \in 0 .. MaxStepAttempts
      BY <3>1 DEF StepRows
    <3>3. step[p].attempts < MaxStepAttempts
      BY <1>f DEF RecordAttemptStart
    <3> QED BY <3>1, <3>2, <3>3, AttemptsAssumption DEF Numbers
  <2>1. workflow' \in WorkflowRows
    BY <1>0, <1>f, WorkflowBecomesType DEF RecordAttemptStart
  <2>2. step' \in [Positions -> StepRows]
    BY <1>f, <2>0, StartedType DEF RecordAttemptStart, TypeOK
  <2>3. attempt' \in [Positions -> [Numbers -> AttemptStates]]
    BY <1>f, <2>0 DEF RecordAttemptStart, TypeOK, AttemptStates
  <2>4. call' \in [Calls -> CallRows]
    <3> DEFINE row == [pc |-> "calling", position |-> p, revision |-> 0,
                       seen |-> Unread, number |-> n]
    <3>1. row \in CallRows
      BY <2>0 DEF CallRows, Numbers
    <3>2. call' = [call EXCEPT ![c] = row]
      BY <1>f DEF RecordAttemptStart
    <3> QED BY <3>1, <3>2 DEF TypeOK
  <2> QED BY <1>f, <2>1, <2>2, <2>3, <2>4 DEF RecordAttemptStart, TypeOK
<1>g. ASSUME NEW c \in Calls, PauseAttemptExhaustion(c) PROVE TypeOK'
  <2>0. call[c].position \in Positions
    BY DEF TypeOK, CallRows
  <2>1. workflow' \in WorkflowRows
    BY <1>0, <1>g, WorkflowBecomesType
       DEF PauseAttemptExhaustion, Statuses, Paused
  <2>2. step' \in [Positions -> StepRows]
    BY <1>g, <2>0, StepBecomesType DEF PauseAttemptExhaustion, StepStatuses
  <2>3. call' \in [Calls -> CallRows]
    BY <1>g, CallEndsType DEF PauseAttemptExhaustion
  <2> QED BY <1>g, <2>1, <2>2, <2>3 DEF PauseAttemptExhaustion, TypeOK
<1>h. ASSUME NEW c \in Calls, NEW target \in Resumable,
             PauseBeforeCall(c, target)
      PROVE  TypeOK'
  <2>0. call[c].position \in Positions
    BY DEF TypeOK, CallRows
  <2>1. workflow' \in WorkflowRows
    BY <1>0, <1>h, WorkflowBecomesType
       DEF PauseBeforeCall, Statuses, Paused, Resumable
  <2>2. step' \in [Positions -> StepRows]
    BY <1>h, <2>0, StepBecomesType DEF PauseBeforeCall, StepStatuses
  <2>3. call' \in [Calls -> CallRows]
    BY <1>h, CallEndsType DEF PauseBeforeCall
  <2> QED BY <1>h, <2>1, <2>2, <2>3 DEF PauseBeforeCall, TypeOK
<1>i. ASSUME NEW c \in Calls, FencedBeforeCall(c) PROVE TypeOK'
  BY <1>i, CallEndsType DEF RequestFails, FencedBeforeCall, TypeOK
<1>j. ASSUME NEW c \in Calls, NEW verdict \in Verdicts(call[c].position),
             CompleteAttempt(c, verdict)
      PROVE  TypeOK'
  <2> DEFINE p == call[c].position
  <2> DEFINE n == call[c].number
  <2> DEFINE t == CompletionTransition(p, n, verdict)
  <2>0. p \in Positions /\ n \in 0 .. MaxStepAttempts /\ step[p] \in StepRows
    BY DEF TypeOK, CallRows
  <2>1. p # Candidate /\ verdict \in {"accepted", "blocked", "evidence"}
    BY <1>j DEF CompleteAttempt, Verdicts
  <2>2. /\ t.status \in Statuses /\ t.position \in Positions
        /\ t.step \in StepStatuses /\ t.active \in BOOLEAN
    BY <2>0, <2>1, CompletionTransitionType
  <2>3. /\ WorkflowBecomes(t.status, t.position)
        /\ step' = [step EXCEPT ![p] =
                      Finished(step[p], t.step, IF t.active THEN n ELSE 0)]
        /\ AttemptEnds(c, "COMPLETED") /\ Meter /\ CallEnds(c)
        /\ UNCHANGED <<decision, owned, outlineCurrent, sourceLost, approval,
                       disruptions>>
    BY <1>j DEF CompleteAttempt
  <2> HIDE DEF t, p, n
  <2>4. workflow' \in WorkflowRows
    BY <2>2, <2>3, WorkflowBecomesType
  <2>5. (IF t.active THEN n ELSE 0) \in 0 .. MaxStepAttempts
    BY <2>0, AttemptsAssumption
  <2>6. Finished(step[p], t.step, IF t.active THEN n ELSE 0) \in StepRows
    BY <2>0, <2>2, <2>5, FinishedType
  <2>7. step' \in [Positions -> StepRows]
    BY <2>0, <2>3, <2>6 DEF TypeOK
  <2>8. attempt' \in [Positions -> [Numbers -> AttemptStates]]
    BY <2>3, AttemptEndsType DEF AttemptStates
  <2>9. call' \in [Calls -> CallRows]
    BY <2>3, CallEndsType
  <2> QED BY <2>3, <2>4, <2>7, <2>8, <2>9 DEF TypeOK, Meter
<1>k. ASSUME NEW c \in Calls, PauseStaleCompletion(c) PROVE TypeOK'
  <2>0. call[c].position \in Positions
    BY DEF TypeOK, CallRows
  <2>1. workflow' \in WorkflowRows
    BY <1>0, <1>k, WorkflowBecomesType
       DEF PauseStaleCompletion, Statuses, Paused
  <2>2. step' \in [Positions -> StepRows]
    BY <1>k, <2>0, StepBecomesType DEF PauseStaleCompletion, StepStatuses
  <2>3. attempt' \in [Positions -> [Numbers -> AttemptStates]]
    BY <1>k, AttemptEndsType DEF PauseStaleCompletion, AttemptStates
  <2>4. call' \in [Calls -> CallRows]
    BY <1>k, CallEndsType DEF PauseStaleCompletion
  <2> QED
    BY <1>k, <2>1, <2>2, <2>3, <2>4 DEF PauseStaleCompletion, TypeOK, Meter
<1>l. ASSUME NEW c \in Calls, NEW retryable \in BOOLEAN,
             FailAttempt(c, retryable)
      PROVE  TypeOK'
  <2>0. call[c].position \in Positions
    BY DEF TypeOK, CallRows
  <2>1. PICK status \in Statuses : WorkflowBecomes(status, workflow.position)
    BY <1>0, <1>l DEF FailAttempt, Statuses, Paused
  <2>2. PICK result \in StepStatuses : StepBecomes(call[c].position, result)
    BY <1>l DEF FailAttempt, StepStatuses
  <2>3. workflow' \in WorkflowRows
    BY <1>0, <2>1, WorkflowBecomesType
  <2>4. step' \in [Positions -> StepRows]
    BY <2>0, <2>2, StepBecomesType
  <2>5. attempt' \in [Positions -> [Numbers -> AttemptStates]]
    BY <1>l, AttemptEndsType DEF FailAttempt, AttemptStates
  <2>6. call' \in [Calls -> CallRows]
    BY <1>l, CallEndsType DEF FailAttempt
  <2> QED BY <1>l, <2>3, <2>4, <2>5, <2>6 DEF FailAttempt, TypeOK
<1>m. ASSUME NEW c \in Calls, FencedAfterCall(c) PROVE TypeOK'
  BY <1>m, CallEndsType DEF FencedAfterCall, TypeOK
<1>n. ASSUME NEW c \in Calls, LeaveCandidateStep(c) PROVE TypeOK'
  BY <1>n, CallEndsType DEF LeaveCandidateStep, TypeOK
<1>o. ASSUME NEW c \in Calls, AbandonCall(c) PROVE TypeOK'
  BY <1>o, CallEndsType, DisruptionsAssumption
     DEF AbandonCall, Disruption, TypeOK
<1>p. ASSUME LeaseLapses PROVE TypeOK'
  <2>1. step' \in [Positions -> StepRows]
    BY <1>0, <1>p DEF LeaseLapses, TypeOK, StepRows
  <2>2. disruptions' \in 0 .. MaxDisruptions
    BY <1>p, DisruptionsAssumption DEF LeaseLapses, Disruption, TypeOK
  <2> QED BY <1>p, <2>1, <2>2 DEF LeaseLapses, TypeOK
<1>q. ASSUME NEW r \in Requests, ReadPlan(r) PROVE TypeOK'
  BY <1>q DEF ReadPlan, TypeOK
<1>r. ASSUME NEW r \in Requests, ApprovePlan(r) PROVE TypeOK'
  <2>1. workflow' \in WorkflowRows
    BY <1>r, WorkflowBecomesType DEF ApprovePlan, Statuses, Executable
  <2>2. step' \in [Positions -> StepRows]
    BY <1>r DEF ApprovePlan, TypeOK
  <2> QED BY <1>r, <2>1, <2>2 DEF ApprovePlan, TypeOK
<1>s. ASSUME NEW r \in Requests, LosePlan(r) PROVE TypeOK'
  BY <1>s DEF LosePlan, TypeOK
<1>t. ASSUME RejectPlan PROVE TypeOK'
  <2>1. workflow' \in WorkflowRows
    BY <1>0, <1>t, WorkflowBecomesType DEF RejectPlan, Statuses, Terminal
  <2> QED BY <1>t, <2>1 DEF RejectPlan, TypeOK
<1>u. ASSUME Resume PROVE TypeOK'
  <2>1. workflow' \in WorkflowRows
    BY <1>0, <1>u, WorkflowBecomesType, StatusForType DEF Resume
  <2>2. step' \in [Positions -> StepRows]
    BY <1>0, <1>u, StepBecomesType DEF Resume, StepStatuses
  <2>3. disruptions' \in 0 .. MaxDisruptions
    BY <1>u, DisruptionsAssumption DEF Resume, Disruption, TypeOK
  <2> QED BY <1>u, <2>1, <2>2, <2>3 DEF Resume, TypeOK
<1>v. ASSUME Cancel PROVE TypeOK'
  <2>1. workflow' \in WorkflowRows
    BY <1>0, <1>v, WorkflowBecomesType DEF Cancel, Statuses, Terminal
  <2> QED BY <1>v, <2>1 DEF Cancel, TypeOK
<1>w. ASSUME ApproveOutline PROVE TypeOK'
  BY <1>w DEF ApproveOutline, TypeOK
<1>y. ASSUME NEW c \in Calls, RequestFails(c) PROVE TypeOK'
  BY <1>y, CallEndsType DEF RequestFails, TypeOK
<1>z. ASSUME LoseSource PROVE TypeOK'
  BY <1>z DEF LoseSource, TypeOK
<1>x. ASSUME UNCHANGED vars PROVE TypeOK'
  BY <1>x DEF vars, TypeOK
<1> QED
  BY <1>a, <1>b, <1>c, <1>d, <1>e, <1>f, <1>g, <1>h, <1>i, <1>j, <1>k, <1>l,
     <1>m, <1>n, <1>o, <1>p, <1>q, <1>r, <1>s, <1>t, <1>u, <1>v, <1>w, <1>x,
     <1>y, <1>z
     DEF Next, Advance, Claim, Work, Answer, Author

\* The initial rows are rows of their tables.
LEMMA TypeInitial == Init => TypeOK
<1> SUFFICES ASSUME Init PROVE TypeOK
  OBVIOUS
<1>1. workflow \in WorkflowRows
  BY PositionFacts DEF Init, WorkflowRows, Statuses, Executable
<1>2. step \in [Positions -> StepRows]
  BY RowTypes DEF Init
<1>3. attempt \in [Positions -> [Numbers -> AttemptStates]]
  BY DEF Init, AttemptStates
<1>4. call \in [Calls -> CallRows] /\ approval \in [Requests -> WorkflowRows]
  BY RowTypes DEF Init
<1>5. spent \in Nat /\ disruptions \in 0 .. MaxDisruptions
  BY DisruptionsAssumption DEF Init
<1>6. decision = "none" /\ owned = TRUE /\ outlineCurrent = TRUE /\ sourceLost = FALSE
  BY DEF Init
<1> QED BY <1>1, <1>2, <1>3, <1>4, <1>5, <1>6 DEF TypeOK

\* Every row keeps its type: no attempt_count above MAX_STEP_ATTEMPTS, no
\* position outside the plan, no artifact without an attempt.
THEOREM TypeCorrect == Spec => []TypeOK
BY TypeInitial, TypePreserved, PTL DEF Spec

-----------------------------------------------------------------------------
(* The inductive invariant. *)

\* Facts about the rows that the invariants need and do not say.
RowFacts ==
    /\ workflow.status \in Terminal =>
          step[workflow.position].status \in {"COMPLETED", "PAUSED"}
    /\ \A p \in Positions : step[p].status = "COMPLETED" => step[p].artifact # 0
    /\ \A p \in Positions : step[p].lease # "none" => step[p].status = "RUNNING"
    /\ decision = "approved" <=> workflow.position # 0
    /\ workflow.status \in Resumable => workflow.position # Candidate
    /\ \A r \in Requests :
          approval[r] # Unread => approval[r].status = "AWAITING_PLAN_APPROVAL"

Shape == /\ SequentialProgress
         /\ NeverStranded
         /\ OwnedUntilTerminal
         /\ AuthorGate
         /\ RowFacts

Attempts == AttemptHistory /\ RunningAttemptIsCurrent

IInv == TypeOK /\ Shape /\ Attempts /\ Fencing

-----------------------------------------------------------------------------
(* Shape. *)

\* A RUNNING step is the current one, of an executable workflow, under a lease
\* and without an artifact.
LEMMA RunningStep ==
    ASSUME TypeOK, Shape, NEW p \in Positions, step[p].status = "RUNNING"
    PROVE  /\ p = workflow.position
           /\ workflow.status \in Executable
           /\ workflow.status = StatusFor(p)
           /\ step[p].artifact = 0
           /\ step[p].lease # "none"
<1>1. workflow.position \in Positions /\ workflow.status \in Statuses
  BY DEF TypeOK, WorkflowRows
<1>2. ~(p < workflow.position)
  BY DEF Shape, SequentialProgress
<1>3. ~(p > workflow.position)
  BY DEF Shape, SequentialProgress, AbsentStep, NewStep
<1>4. p = workflow.position
  <2>1. p \in Nat /\ workflow.position \in Nat
    BY <1>1, PositionFacts
  <2> QED BY <1>2, <1>3, <2>1
<1>5. workflow.status \notin Paused /\ workflow.status # "AWAITING_PLAN_APPROVAL"
  BY <1>4 DEF Shape, NeverStranded
<1>6. workflow.status \notin Terminal
  BY <1>4 DEF Shape, RowFacts
<1>7. workflow.status \in Executable
  BY <1>1, <1>5, <1>6 DEF Statuses
<1> QED BY <1>4, <1>7 DEF Shape, NeverStranded, Claimable

\* What NeverStranded asks of a step row at position p under a status.
Fits(row, status, p) ==
    /\ status \in Executable =>
          /\ status = StatusFor(p)
          /\ \/ Claimable(row)
             \/ row.status = "RUNNING" /\ row.lease # "none" /\ row.artifact = 0
    /\ status \in Paused => row.status = "PAUSED" /\ row.lease = "none"
    /\ status = "AWAITING_PLAN_APPROVAL" => p = 0 /\ row.status = "COMPLETED"
    /\ status \in Resumable => p # Candidate
    /\ row.lease # "none" => row.status = "RUNNING"

\* A write to the workflow row and the current step row keeps Shape when the
\* two fit each other and the workflow does not end.
LEMMA InPlaceShape ==
    ASSUME TypeOK, Shape,
           NEW status \in Statuses \ Terminal,
           NEW row \in StepRows,
           WorkflowBecomes(status, workflow.position),
           step' = [step EXCEPT ![workflow.position] = row],
           UNCHANGED <<decision, owned, approval>>,
           workflow.status \notin Terminal,
           step[workflow.position].status # "ABSENT",
           row.status # "ABSENT",
           row.status = "COMPLETED" => row.artifact # 0,
           Fits(row, status, workflow.position)
    PROVE  Shape'
<1> USE PositionFacts
<1>1. workflow.position \in Positions
  BY DEF TypeOK, WorkflowRows
<1>2. workflow'.position = workflow.position /\ workflow'.status = status
  BY DEF WorkflowBecomes
<1>3. step'[workflow.position] = row
  BY <1>1 DEF TypeOK
<1>4. \A q \in Positions : q # workflow.position => step'[q] = step[q]
  BY DEF TypeOK
<1>5. SequentialProgress'
  BY <1>1, <1>2, <1>4 DEF Shape, SequentialProgress
<1>6. NeverStranded'
  BY <1>2, <1>3 DEF NeverStranded, Fits, Claimable
<1>7. OwnedUntilTerminal'
  BY <1>2 DEF Shape, OwnedUntilTerminal
<1>8. AuthorGate'
  <2>1. \A q \in Positions \ {0} :
           step'[q].status # "ABSENT" <=> decision' = "approved"
    BY <1>1, <1>3, <1>4 DEF Shape, AuthorGate
  <2>2. workflow.status # "REJECTED" /\ status # "REJECTED"
    BY DEF Terminal
  <2> QED BY <1>2, <2>1, <2>2 DEF Shape, AuthorGate
<1>9. RowFacts'
  <2>1. \A q \in Positions :
           /\ step'[q].status = "COMPLETED" => step'[q].artifact # 0
           /\ step'[q].lease # "none" => step'[q].status = "RUNNING"
    BY <1>1, <1>3, <1>4 DEF Shape, RowFacts, Fits
  <2> QED BY <1>2, <2>1 DEF Shape, RowFacts, Fits
<1> QED BY <1>5, <1>6, <1>7, <1>8, <1>9 DEF Shape

\* A step that touches none of the rows keeps Shape.
LEMMA QuietShape ==
    ASSUME Shape, UNCHANGED <<workflow, step, decision, owned>>,
           \A r \in Requests :
              approval'[r] # Unread => approval'[r].status = "AWAITING_PLAN_APPROVAL"
    PROVE  Shape'
BY DEF Shape, SequentialProgress, NeverStranded, OwnedUntilTerminal, AuthorGate,
       RowFacts, Claimable

\* Releasing a RUNNING step to PENDING, or pausing it, keeps Shape.
LEMMA ReleaseShape ==
    ASSUME TypeOK, Shape,
           NEW status \in Statuses, NEW result \in {"PENDING", "PAUSED"},
           step[workflow.position].status = "RUNNING",
           WorkflowBecomes(status, workflow.position),
           step' = [step EXCEPT ![workflow.position] =
                       Released(step[workflow.position], result)],
           UNCHANGED <<decision, owned, approval>>,
           result = "PENDING" => status = workflow.status,
           result = "PAUSED" => status \in Paused,
           status \in Resumable => workflow.position # Candidate
    PROVE  Shape'
<1> DEFINE row == Released(step[workflow.position], result)
<1>1. workflow.position \in Positions /\ step[workflow.position] \in StepRows
  BY DEF TypeOK, WorkflowRows
<1>2. /\ workflow.status \in Executable
      /\ workflow.status = StatusFor(workflow.position)
      /\ step[workflow.position].artifact = 0
  BY <1>1, RunningStep
<1>3. row \in StepRows
  BY <1>1, ReleasedType DEF StepStatuses
<1>4. row.status = result /\ row.lease = "none" /\ row.artifact = 0
  BY <1>2 DEF Released, Finished
<1>5. workflow.status \notin Terminal /\ status \in Statuses \ Terminal
  BY <1>2 DEF Executable, Terminal, Paused
<1>6. Fits(row, status, workflow.position)
  BY <1>2, <1>4 DEF Fits, Claimable, Executable, Paused
<1> HIDE DEF row
<1> QED BY <1>3, <1>4, <1>5, <1>6, InPlaceShape DEF row

LEMMA ShapePreserved == IInv /\ [Next]_vars => Shape'
<1> SUFFICES ASSUME IInv, [Next]_vars PROVE Shape'
  OBVIOUS
<1> USE PositionFacts
<1> DEFINE p == workflow.position
<1>0. /\ TypeOK /\ Shape /\ Fencing
      /\ p \in Positions /\ p \in Nat /\ step[p] \in StepRows
      /\ workflow.status \in Statuses
  BY DEF IInv, TypeOK, WorkflowRows
<1>1. Executable \cap Terminal = {} /\ Paused \cap Terminal = {}
      /\ Paused \cap Executable = {} /\ Paused \cup Executable \subseteq Statuses
      /\ "AWAITING_PLAN_APPROVAL" \in Statuses \ (Paused \cup Executable \cup Terminal)
      /\ Resumable \subseteq Paused /\ Resumable \cap (Executable \cup Terminal) = {}
      /\ Resumable \cap {"PAUSED_ATTEMPTS", "PAUSED_REVIEW", "PAUSED_STALE_VERSION"} = {}
  BY DEF Executable, Terminal, Paused, Resumable, Statuses
<1>a. ASSUME NEW c \in Calls, RecoverExpiredClaims(c) PROVE Shape'
  <2>1. PICK q \in Positions : Lapsed(step[q])
    BY <1>a DEF RecoverExpiredClaims
  <2>2. \A r \in Positions : Lapsed(step[r]) => r = p
    BY <1>0, RunningStep DEF Lapsed
  <2>3. step[p].status = "RUNNING"
    BY <2>1, <2>2 DEF Lapsed
  <2>4. step' = [step EXCEPT ![p] = Released(step[p], "PENDING")]
    <3>1. step \in [Positions -> StepRows]
      BY <1>0 DEF TypeOK
    <3>2. step' = [r \in Positions |-> IF Lapsed(step[r])
                                       THEN Released(step[r], "PENDING")
                                       ELSE step[r]]
      BY <1>a DEF RecoverExpiredClaims
    <3> QED BY <2>1, <2>2, <3>1, <3>2
  <2> QED
    BY <1>0, <1>1, <1>a, <2>3, <2>4, ReleaseShape DEF RecoverExpiredClaims
<1>b. ASSUME NEW c \in Calls, PauseStaleWorkflow(c) PROVE Shape'
  <2> DEFINE row == Released(step[p], "PAUSED")
  <2>1. row \in StepRows /\ row.status = "PAUSED" /\ row.lease = "none"
    BY <1>0, ReleasedType DEF StepStatuses, Released, Finished
  <2>2. Fits(row, "PAUSED_STALE_VERSION", p)
    BY <1>1, <2>1 DEF Fits, Executable
  <2>3. step' = [step EXCEPT ![p] = row]
    BY <1>b DEF PauseStaleWorkflow, StepBecomes
  <2>4. "PAUSED_STALE_VERSION" \in Statuses \ Terminal
    BY DEF Statuses, Paused, Terminal
  <2> HIDE DEF row
  <2> QED
    BY <1>0, <1>1, <1>b, <2>1, <2>2, <2>3, <2>4, InPlaceShape
       DEF PauseStaleWorkflow
<1>c. ASSUME NEW c \in Calls, ClaimStep(c) PROVE Shape'
  <2> DEFINE row == Claimed(step[p])
  <2>1. workflow.status \in Executable /\ call[c].position = p
    BY <1>0, <1>c DEF ClaimStep, ClaimStands, Fencing, Fenced
  <2>2. Claimable(step[p])
    BY <1>c, <2>1 DEF ClaimStep, ClaimStands
  <2>3. /\ row \in StepRows /\ row.status = "RUNNING" /\ row.lease = "live"
        /\ row.artifact = 0
    BY <1>0, <2>2, ClaimedType DEF Claimed, Claimable
  <2>4. Fits(row, workflow.status, p)
    BY <1>0, <1>1, <2>1, <2>3 DEF Fits, Shape, NeverStranded
  <2>5. step' = [step EXCEPT ![p] = row]
    BY <1>c, <2>1 DEF ClaimStep
  <2>6. step[p].status # "ABSENT"
    BY <2>2 DEF Claimable
  <2> HIDE DEF row
  <2> QED
    BY <1>0, <1>1, <1>c, <2>1, <2>3, <2>4, <2>5, <2>6, InPlaceShape
       DEF ClaimStep
<1>d. ASSUME NEW c \in Calls, RecordAttemptStart(c) PROVE Shape'
  <2> DEFINE row == Started(step[p])
  <2>1. call[c].position = p /\ step[p].status = "RUNNING"
    BY <1>d DEF RecordAttemptStart, CanStart, HoldsClaim
  <2>2. /\ workflow.status \in Executable /\ workflow.status = StatusFor(p)
        /\ step[p].artifact = 0 /\ step[p].lease # "none"
    BY <1>0, <2>1, RunningStep
  <2>3. step[p].attempts + 1 \in Numbers
    <3>1. step[p].attempts \in 0 .. MaxStepAttempts
      BY <1>0 DEF StepRows
    <3>2. step[p].attempts < MaxStepAttempts
      BY <1>d, <2>1 DEF RecordAttemptStart
    <3> QED BY <3>1, <3>2, AttemptsAssumption DEF Numbers
  <2>4. /\ row \in StepRows /\ row.status = "RUNNING" /\ row.lease # "none"
        /\ row.artifact = 0
    BY <1>0, <2>1, <2>2, <2>3, StartedType DEF Started
  <2>5. Fits(row, workflow.status, p)
    BY <1>1, <2>2, <2>4 DEF Fits
  <2>6. step' = [step EXCEPT ![p] = row]
    BY <1>d, <2>1 DEF RecordAttemptStart
  <2> HIDE DEF row
  <2> QED
    BY <1>0, <1>1, <1>d, <2>1, <2>2, <2>4, <2>5, <2>6, InPlaceShape
       DEF RecordAttemptStart
<1>e. ASSUME NEW c \in Calls, PauseAttemptExhaustion(c) PROVE Shape'
  <2>1. call[c].position = p /\ step[p].status = "RUNNING"
    <3>1. call[c].position \in Positions
      BY <1>0 DEF TypeOK, CallRows
    <3>2. step[call[c].position].status = "RUNNING"
      BY <1>e DEF PauseAttemptExhaustion, HoldsClaim
    <3> QED BY <1>0, <3>1, <3>2, RunningStep
  <2>2. "PAUSED_ATTEMPTS" \in Paused
    BY DEF Paused
  <2> QED
    BY <1>0, <1>1, <1>e, <2>1, <2>2, ReleaseShape
       DEF PauseAttemptExhaustion, StepBecomes
<1>f. ASSUME NEW c \in Calls, NEW target \in Resumable,
             PauseBeforeCall(c, target)
      PROVE  Shape'
  <2>1. call[c].position = p /\ step[p].status = "RUNNING"
    BY <1>f DEF PauseBeforeCall, CanStart, HoldsClaim
  <2>2. target \in Paused
    BY DEF Paused, Resumable
  <2> QED
    BY <1>0, <1>1, <1>f, <2>1, <2>2, ReleaseShape
       DEF PauseBeforeCall, StepBecomes
<1>g. ASSUME NEW c \in Calls, NEW verdict \in Verdicts(call[c].position),
             CompleteAttempt(c, verdict)
      PROVE  Shape'
  <2> DEFINE n == call[c].number
  <2> DEFINE t == CompletionTransition(p, n, verdict)
  <2> DEFINE row == Finished(step[p], t.step, IF t.active THEN n ELSE 0)
  <2>1. call[c].position = p /\ step[p].status = "RUNNING" /\ p # Candidate
    BY <1>g DEF CompleteAttempt, CanComplete, HoldsAttempt
  <2>2. /\ workflow.status \in Executable /\ workflow.status = StatusFor(p)
        /\ step[p].artifact = 0
    BY <1>0, <2>1, RunningStep
  <2>3. n # 0 /\ n \in 0 .. MaxStepAttempts
    BY <1>0, <1>g, <2>1
       DEF CompleteAttempt, CanComplete, HoldsAttempt, Fencing, Fenced, TypeOK,
          CallRows
  <2>4. verdict \in {"accepted", "blocked", "evidence"}
    BY <1>g, <2>1 DEF Verdicts
  <2>5. /\ WorkflowBecomes(t.status, t.position)
        /\ step' = [step EXCEPT ![p] = row]
        /\ UNCHANGED <<decision, owned, approval>>
        /\ p \in 1 .. Reviewing /\ verdict = "accepted" =>
              step[p + 1].status # "ABSENT"
    BY <1>g, <2>1 DEF CompleteAttempt
  <2>6. t.step \in StepStatuses
    BY <1>0, <2>1, <2>3, <2>4, CompletionTransitionType
  <2>7. /\ row \in StepRows /\ row.status = t.step /\ row.lease = "none"
        /\ row.artifact = IF t.active THEN n ELSE 0
    <3> DEFINE a == IF t.active THEN n ELSE 0
    <3>1. a \in 0 .. MaxStepAttempts
      BY <2>3, AttemptsAssumption
    <3>2. row \in StepRows
      BY <1>0, <2>6, <3>1, FinishedType
    <3> QED BY <3>2 DEF Finished
  <2>8. CASE verdict = "evidence" /\ n = 1
    <3>1. t.status = workflow.status /\ t.position = p /\ t.step = "PENDING"
          /\ t.active = FALSE
      BY <2>8 DEF CompletionTransition
    <3>2. Fits(row, t.status, p)
      BY <1>1, <2>2, <2>7, <3>1 DEF Fits, Claimable
    <3> HIDE DEF row, t
    <3> QED
      BY <1>0, <1>1, <2>1, <2>2, <2>5, <2>7, <3>1, <3>2, InPlaceShape
  <2>9. CASE verdict = "blocked" \/ (verdict = "evidence" /\ n # 1)
    <3>1. t.status = "PAUSED_REVIEW" /\ t.position = p /\ t.step = "PAUSED"
      BY <2>9 DEF CompletionTransition
    <3>2. t.status \in Paused
      BY <3>1 DEF Paused
    <3>3. Fits(row, t.status, p)
      BY <1>1, <2>7, <3>1, <3>2 DEF Fits
    <3> HIDE DEF row, t
    <3> QED
      BY <1>0, <1>1, <2>1, <2>2, <2>5, <2>7, <3>1, <3>2, <3>3, InPlaceShape
  <2>10. CASE verdict = "accepted" /\ p = 0
    <3>1. t.status = "AWAITING_PLAN_APPROVAL" /\ t.position = p
          /\ t.step = "COMPLETED" /\ t.active = TRUE
      BY <2>10 DEF CompletionTransition
    <3>2. Fits(row, t.status, p)
      BY <1>1, <2>7, <2>10, <3>1 DEF Fits
    <3> HIDE DEF row, t
    <3> QED
      BY <1>0, <1>1, <2>1, <2>2, <2>3, <2>5, <2>7, <3>1, <3>2, InPlaceShape
  <2>11. CASE verdict = "accepted" /\ p # 0
    <3>1. t.status = StatusFor(p + 1) /\ t.position = p + 1
          /\ t.step = "COMPLETED" /\ t.active = TRUE
      BY <2>11 DEF CompletionTransition
    <3>2. p + 1 \in Positions /\ p + 1 # p /\ p \in 1 .. Reviewing
      BY <1>0, <2>1, <2>11, ChaptersAssumption DEF Positions, Candidate, Reviewing
    <3>3. step'[p] = row /\ row.status = "COMPLETED" /\ row.artifact # 0
      BY <1>0, <2>3, <2>5, <2>7, <3>1 DEF TypeOK
    <3>4. \A q \in Positions : q # p => step'[q] = step[q]
      BY <1>0, <2>5 DEF TypeOK
    <3>5. workflow'.status = StatusFor(p + 1) /\ workflow'.position = p + 1
      BY <2>5, <3>1 DEF WorkflowBecomes
    <3>6. workflow'.status \in Executable
      BY <3>2, <3>5, StatusForType
    <3>7. step'[p + 1] = NewStep
      <4>1. step[p + 1] \in {AbsentStep, NewStep}
        BY <1>0, <3>2 DEF Shape, SequentialProgress
      <4>2. step[p + 1].status # "ABSENT"
        BY <2>5, <2>11, <3>2
      <4> QED BY <3>2, <3>4, <4>1, <4>2 DEF AbsentStep
    <3>8. SequentialProgress'
      <4> SUFFICES ASSUME NEW q \in Positions
                   PROVE  /\ q < p + 1 => step'[q].status = "COMPLETED"
                                         /\ step'[q].artifact # 0
                          /\ q > p + 1 => step'[q] \in {AbsentStep, NewStep}
        BY <3>5 DEF SequentialProgress
      <4>1. q \in Nat /\ p \in Nat
        BY <1>0
      <4>2. CASE q < p
        BY <1>0, <3>4, <4>1, <4>2 DEF Shape, SequentialProgress
      <4>3. CASE q = p
        BY <3>3, <4>1, <4>3
      <4>4. CASE q > p
        BY <1>0, <3>4, <4>1, <4>4 DEF Shape, SequentialProgress
      <4> QED BY <4>1, <4>2, <4>3, <4>4
    <3>9. NeverStranded'
      BY <1>1, <3>5, <3>6, <3>7 DEF NeverStranded, NewStep, Claimable
    <3>10. OwnedUntilTerminal'
      BY <1>0, <1>1, <2>2, <2>5, <3>6 DEF Shape, OwnedUntilTerminal
    <3>11. AuthorGate'
      <4>1. "REJECTED" \in Terminal
        BY DEF Terminal
      <4>2. \A q \in Positions \ {0} :
               step'[q].status # "ABSENT" <=> decision' = "approved"
        BY <1>0, <2>1, <2>5, <3>3, <3>4 DEF Shape, AuthorGate
      <4> QED BY <1>0, <1>1, <2>2, <2>5, <3>6, <4>1, <4>2 DEF Shape, AuthorGate
    <3>12. RowFacts'
      <4>1. \A q \in Positions :
               /\ step'[q].status = "COMPLETED" => step'[q].artifact # 0
               /\ step'[q].lease # "none" => step'[q].status = "RUNNING"
        BY <1>0, <2>7, <3>3, <3>4 DEF Shape, RowFacts
      <4>2. decision' = "approved" <=> workflow'.position # 0
        BY <1>0, <2>5, <2>11, <3>5 DEF Shape, RowFacts
      <4> QED BY <1>0, <1>1, <2>5, <3>6, <4>1, <4>2 DEF Shape, RowFacts
    <3> QED BY <3>8, <3>9, <3>10, <3>11, <3>12 DEF Shape
  <2> QED BY <2>4, <2>8, <2>9, <2>10, <2>11
<1>h. ASSUME NEW c \in Calls, PauseStaleCompletion(c) PROVE Shape'
  <2>1. call[c].position = p /\ step[p].status = "RUNNING"
    BY <1>h DEF PauseStaleCompletion, HoldsAttempt
  <2>2. "PAUSED_STALE_VERSION" \in Paused
    BY DEF Paused
  <2> QED
    BY <1>0, <1>1, <1>h, <2>1, <2>2, ReleaseShape
       DEF PauseStaleCompletion, StepBecomes
<1>i. ASSUME NEW c \in Calls, NEW retryable \in BOOLEAN,
             FailAttempt(c, retryable)
      PROVE  Shape'
  <2>1. call[c].position = p /\ step[p].status = "RUNNING"
    BY <1>i DEF FailAttempt, HoldsAttempt
  <2>2. {"PAUSED_ATTEMPTS", "PAUSED_PROVIDER"} \subseteq Paused
    BY DEF Paused
  <2>3. p # Candidate
    BY <1>0, <1>i, <2>1 DEF FailAttempt, HoldsAttempt, Fencing, Fenced
  <2>4. CASE retryable /\ step[p].attempts < MaxStepAttempts
    <3>1. /\ WorkflowBecomes(workflow.status, p)
          /\ step' = [step EXCEPT ![p] = Released(step[p], "PENDING")]
          /\ UNCHANGED <<decision, owned, approval>>
      BY <1>i, <2>1, <2>4 DEF FailAttempt, StepBecomes
    <3> QED BY <1>0, <2>1, <2>3, <3>1, ReleaseShape
  <2>5. CASE ~(retryable /\ step[p].attempts < MaxStepAttempts)
    <3> DEFINE status == IF retryable THEN "PAUSED_ATTEMPTS" ELSE "PAUSED_PROVIDER"
    <3>1. status \in Paused
      BY <2>2
    <3>2. /\ WorkflowBecomes(status, p)
          /\ step' = [step EXCEPT ![p] = Released(step[p], "PAUSED")]
          /\ UNCHANGED <<decision, owned, approval>>
      BY <1>i, <2>1, <2>5 DEF FailAttempt, StepBecomes
    <3> HIDE DEF status
    <3> QED BY <1>0, <1>1, <2>1, <2>3, <3>1, <3>2, ReleaseShape
  <2> QED BY <2>4, <2>5
<1>j. ASSUME LeaseLapses PROVE Shape'
  <2>1. /\ step[p].lease = "live"
        /\ step' = [step EXCEPT ![p].lease = "lapsed"]
        /\ UNCHANGED <<workflow, decision, owned, approval>>
    BY <1>j DEF LeaseLapses
  <2>2. /\ step'[p].status = step[p].status /\ step'[p].artifact = step[p].artifact
        /\ step'[p].lease = "lapsed"
    BY <1>0, <2>1 DEF TypeOK, StepRows
  <2>3. \A q \in Positions : q # p => step'[q] = step[q]
    BY <1>0, <2>1 DEF TypeOK
  <2>4. SequentialProgress'
    BY <1>0, <2>1, <2>3 DEF Shape, SequentialProgress
  <2>5. NeverStranded'
    BY <1>0, <2>1, <2>2 DEF Shape, NeverStranded, Claimable
  <2>6. AuthorGate' /\ OwnedUntilTerminal'
    BY <1>0, <2>1, <2>2, <2>3 DEF Shape, AuthorGate, OwnedUntilTerminal
  <2>7. RowFacts'
    BY <1>0, <2>1, <2>2, <2>3 DEF Shape, RowFacts
  <2> QED BY <2>4, <2>5, <2>6, <2>7 DEF Shape
<1>k. ASSUME NEW r \in Requests, ApprovePlan(r) PROVE Shape'
  <2>1. workflow.status = "AWAITING_PLAN_APPROVAL"
    BY <1>0, <1>k DEF ApprovePlan, Shape, RowFacts
  <2>2. p = 0 /\ step[0].status = "COMPLETED" /\ step[0].artifact # 0
    BY <1>0, <2>1 DEF Shape, NeverStranded, RowFacts
  <2>3. /\ workflow'.status = "GENERATING_CHAPTERS" /\ workflow'.position = 1
        /\ step' = [q \in Positions |-> IF q = 0 THEN step[q] ELSE NewStep]
        /\ decision' = "approved" /\ owned' = owned
        /\ approval' = [approval EXCEPT ![r] = Unread]
    BY <1>k DEF ApprovePlan, WorkflowBecomes
  <2>4. SequentialProgress'
    <3> SUFFICES ASSUME NEW q \in Positions
                 PROVE  /\ q < 1 => step'[q].status = "COMPLETED"
                                   /\ step'[q].artifact # 0
                        /\ q > 1 => step'[q] \in {AbsentStep, NewStep}
      BY <2>3 DEF SequentialProgress
    <3>1. q \in Nat
      OBVIOUS
    <3>2. CASE q = 0
      BY <2>2, <2>3, <3>2
    <3>3. CASE q # 0
      BY <2>3, <3>1, <3>3
    <3> QED BY <3>2, <3>3
  <2>5. StatusFor(1) = "GENERATING_CHAPTERS"
    BY ChaptersAssumption DEF StatusFor, Reviewing, Candidate
  <2>6. "GENERATING_CHAPTERS" \in Executable
    BY DEF Executable
  <2>7. NeverStranded'
    BY <1>1, <2>3, <2>5, <2>6 DEF NeverStranded, NewStep, Claimable
  <2>8. OwnedUntilTerminal'
    BY <1>0, <1>1, <2>1, <2>3, <2>6 DEF Shape, OwnedUntilTerminal
  <2>9. AuthorGate'
    BY <2>3 DEF AuthorGate, NewStep
  <2>10. RowFacts'
    BY <1>0, <1>1, <2>2, <2>3, <2>6 DEF Shape, RowFacts, NewStep
  <2> QED BY <2>4, <2>7, <2>8, <2>9, <2>10 DEF Shape
<1>l. ASSUME RejectPlan PROVE Shape'
  <2>1. p = 0 /\ step[p].status = "COMPLETED" /\ decision # "approved"
    BY <1>0, <1>l DEF RejectPlan, Shape, NeverStranded, RowFacts
  <2>2. /\ workflow'.status = "REJECTED" /\ workflow'.position = p
        /\ decision' = "rejected" /\ owned' = FALSE
        /\ UNCHANGED <<step, approval>>
    BY <1>l DEF RejectPlan, WorkflowBecomes
  <2>3. "REJECTED" \in Terminal
    BY DEF Terminal
  <2>4. SequentialProgress' /\ OwnedUntilTerminal'
    BY <1>0, <2>2, <2>3 DEF Shape, SequentialProgress, OwnedUntilTerminal
  <2>5. NeverStranded'
    BY <1>1, <2>2, <2>3 DEF NeverStranded
  <2>6. AuthorGate'
    BY <1>0, <2>1, <2>2 DEF Shape, AuthorGate
  <2>7. RowFacts'
    BY <1>0, <1>1, <2>1, <2>2, <2>3 DEF Shape, RowFacts
  <2> QED BY <2>4, <2>5, <2>6, <2>7 DEF Shape
<1>m. ASSUME Resume PROVE Shape'
  <2> DEFINE row == Released(step[p], "PENDING")
  <2>1. /\ row \in StepRows /\ row.status = "PENDING" /\ row.lease = "none"
        /\ row.artifact = step[p].artifact
    BY <1>0, ReleasedType DEF StepStatuses, Released, Finished
  <2>2. StatusFor(p) \in Executable
    BY <1>0, StatusForType
  <2>3. step[p].artifact = 0 /\ step[p].status = "PAUSED"
        /\ workflow.status \in Paused
    BY <1>m DEF Resume, Paused, Resumable
  <2>4. Fits(row, StatusFor(p), p)
    BY <1>1, <2>1, <2>2, <2>3 DEF Fits, Claimable
  <2>5. /\ WorkflowBecomes(StatusFor(p), p) /\ step' = [step EXCEPT ![p] = row]
        /\ UNCHANGED <<decision, owned, approval>>
    BY <1>m DEF Resume, StepBecomes
  <2> HIDE DEF row
  <2> QED BY <1>0, <1>1, <2>1, <2>2, <2>3, <2>4, <2>5, InPlaceShape
<1>n. ASSUME Cancel PROVE Shape'
  <2>1. /\ workflow.status \in Paused /\ step[p].status = "PAUSED"
    BY <1>0, <1>n DEF Cancel, Shape, NeverStranded
  <2>2. /\ workflow'.status = "CANCELLED" /\ workflow'.position = p
        /\ owned' = FALSE /\ UNCHANGED <<step, decision, approval>>
    BY <1>n DEF Cancel, WorkflowBecomes
  <2>3. {"CANCELLED", "REJECTED"} \subseteq Terminal
    BY DEF Terminal
  <2>4. SequentialProgress' /\ OwnedUntilTerminal'
    BY <1>0, <2>2, <2>3 DEF Shape, SequentialProgress, OwnedUntilTerminal
  <2>5. NeverStranded'
    BY <1>1, <2>2, <2>3 DEF NeverStranded
  <2>6. AuthorGate'
    BY <1>0, <1>1, <2>1, <2>2, <2>3 DEF Shape, AuthorGate
  <2>7. RowFacts'
    BY <1>0, <1>1, <2>1, <2>2, <2>3 DEF Shape, RowFacts
  <2> QED BY <2>4, <2>5, <2>6, <2>7 DEF Shape
<1>o. ASSUME NEW c \in Calls,
             \/ ReadClaim(c) \/ LoseClaim(c) \/ RequestFails(c)
             \/ FencedBeforeCall(c) \/ FencedAfterCall(c)
             \/ LeaveCandidateStep(c) \/ AbandonCall(c)
      PROVE  Shape'
  <2>1. UNCHANGED <<workflow, step, decision, owned, approval>>
    BY <1>o
       DEF ReadClaim, LoseClaim, RequestFails, FencedBeforeCall, FencedAfterCall,
           LeaveCandidateStep, AbandonCall
  <2> QED BY <1>0, <2>1, QuietShape DEF Shape, RowFacts
<1>p. ASSUME \/ \E r \in Requests : ReadPlan(r) \/ LosePlan(r)
             \/ ApproveOutline \/ LoseSource \/ UNCHANGED vars
      PROVE Shape'
  <2>1. UNCHANGED <<workflow, step, decision, owned>>
    BY <1>p DEF ReadPlan, LosePlan, ApproveOutline, LoseSource, vars
  <2>2. \A r \in Requests :
           approval'[r] # Unread => approval'[r].status = "AWAITING_PLAN_APPROVAL"
    <3>1. ASSUME NEW r \in Requests, ReadPlan(r) \/ LosePlan(r)
          PROVE  /\ approval'[r] # Unread =>
                       approval'[r].status = "AWAITING_PLAN_APPROVAL"
                 /\ \A o \in Requests \ {r} : approval'[o] = approval[o]
      BY <1>0, <3>1 DEF ReadPlan, LosePlan, TypeOK
    <3>2. CASE approval' = approval
      BY <1>0, <3>2 DEF Shape, RowFacts
    <3> QED
      BY <1>0, <1>p, <3>1, <3>2
         DEF ApproveOutline, LoseSource, vars, Shape, RowFacts
  <2> QED BY <1>0, <2>1, <2>2, QuietShape
<1> QED
  BY <1>a, <1>b, <1>c, <1>d, <1>e, <1>f, <1>g, <1>h, <1>i, <1>j, <1>k, <1>l,
     <1>m, <1>n, <1>o, <1>p
     DEF Next, Advance, Claim, Work, Answer, Author

-----------------------------------------------------------------------------
(* Attempts. *)

\* The call that holds the running attempt ends it, and no other is running.
LEMMA AnswerEndsAttempt ==
    ASSUME IInv, NEW c \in Calls, HoldsAttempt(c),
           NEW result \in AttemptStates \ {"RUNNING", "ABSENT"},
           AttemptEnds(c, result)
    PROVE  /\ call[c].position = workflow.position
           /\ call[c].number = step[workflow.position].attempts
           /\ call[c].number \in Numbers
           /\ attempt'[workflow.position][call[c].number] = result
           /\ \A q \in Positions, m \in Numbers :
                 /\ attempt'[q][m] # "RUNNING"
                 /\ attempt[q][m] # "RUNNING" => attempt'[q][m] = attempt[q][m]
                 /\ attempt[q][m] = "RUNNING" => attempt'[q][m] = result
<1> DEFINE p == workflow.position
<1> DEFINE n == call[c].number
<1>1. p \in Positions /\ attempt \in [Positions -> [Numbers -> AttemptStates]]
  BY DEF IInv, TypeOK, WorkflowRows
<1>2. call[c].position = p /\ n = step[p].attempts /\ attempt[p][n] = "RUNNING"
  BY DEF HoldsAttempt
<1>3. n \in Numbers
  <2>1. n \in 1 .. step[p].attempts
    BY <1>2 DEF HoldsAttempt, IInv, Fencing, Fenced
  <2>2. step[p].attempts \in 0 .. MaxStepAttempts
    BY <1>1 DEF IInv, TypeOK, StepRows
  <2> QED BY <2>1, <2>2, AttemptsAssumption DEF Numbers
<1>4. \A q \in Positions, m \in Numbers :
         attempt[q][m] = "RUNNING" => q = p /\ m = n
  BY <1>2 DEF IInv, Attempts, RunningAttemptIsCurrent
<1>5. attempt' = [attempt EXCEPT ![p][n] = result]
  BY <1>2 DEF AttemptEnds
<1>6. \A q \in Positions, m \in Numbers :
         attempt'[q][m] = IF q = p /\ m = n THEN result ELSE attempt[q][m]
  BY <1>1, <1>3, <1>5
<1> QED BY <1>1, <1>2, <1>3, <1>4, <1>6

\* The counters and artifacts of the steps agree with the attempt rows when
\* both are kept, except that running attempts may end without a result.
LEMMA HistoryKept ==
    ASSUME AttemptHistory,
           \A q \in Positions : /\ step'[q].attempts = step[q].attempts
                                /\ step'[q].artifact = step[q].artifact,
           \A q \in Positions, m \in Numbers :
              \/ attempt'[q][m] = attempt[q][m]
              \/ /\ attempt[q][m] = "RUNNING"
                 /\ attempt'[q][m] \in {"FAILED", "STALE"},
           \A q \in Positions : step[q].artifact \in 0 .. MaxStepAttempts
    PROVE  AttemptHistory'
<1> SUFFICES ASSUME NEW q \in Positions
             PROVE  /\ \A n \in Numbers :
                          attempt'[q][n] # "ABSENT" <=> n <= step'[q].attempts
                    /\ step'[q].artifact # 0 =>
                          /\ step'[q].artifact = step'[q].attempts
                          /\ attempt'[q][step'[q].artifact] = "COMPLETED"
  BY DEF AttemptHistory
<1>1. \A n \in Numbers : attempt'[q][n] # "ABSENT" <=> n <= step'[q].attempts
  BY DEF AttemptHistory
<1>2. ASSUME step'[q].artifact # 0
      PROVE  /\ step'[q].artifact = step'[q].attempts
             /\ attempt'[q][step'[q].artifact] = "COMPLETED"
  <2>1. /\ step[q].artifact # 0 /\ step[q].artifact = step[q].attempts
        /\ attempt[q][step[q].artifact] = "COMPLETED"
    BY <1>2 DEF AttemptHistory
  <2>2. step[q].artifact \in Numbers
    BY <2>1, AttemptsAssumption DEF Numbers
  <2> QED BY <2>1, <2>2
<1> QED BY <1>1, <1>2

\* Every step but the start of an attempt and a completion keeps the counters
\* and the artifacts, and only ends attempts.
LEMMA BookkeepingSteps ==
    ASSUME IInv, [Next]_vars,
           \A c \in Calls : ~RecordAttemptStart(c),
           \A c \in Calls : \A verdict \in Verdicts(call[c].position) :
              ~CompleteAttempt(c, verdict)
    PROVE  /\ \A q \in Positions : /\ step'[q].attempts = step[q].attempts
                                   /\ step'[q].artifact = step[q].artifact
           /\ \A q \in Positions, m \in Numbers :
                 \/ attempt'[q][m] = attempt[q][m]
                 \/ /\ attempt[q][m] = "RUNNING"
                    /\ attempt'[q][m] \in {"FAILED", "STALE"}
<1> DEFINE Kept == \A q \in Positions : /\ step'[q].attempts = step[q].attempts
                                        /\ step'[q].artifact = step[q].artifact
<1> DEFINE Ends == \A q \in Positions, m \in Numbers :
                      \/ attempt'[q][m] = attempt[q][m]
                      \/ /\ attempt[q][m] = "RUNNING"
                         /\ attempt'[q][m] \in {"FAILED", "STALE"}
<1>0. /\ TypeOK /\ step \in [Positions -> StepRows]
      /\ workflow.position \in Positions
  BY DEF IInv, TypeOK, WorkflowRows
<1>1. ASSUME NEW q \in Positions, NEW status \in StepStatuses,
             StepBecomes(q, status)
      PROVE  Kept
  BY <1>0, <1>1 DEF StepBecomes, Released, Finished
<1>2. ASSUME UNCHANGED attempt PROVE Ends
  BY <1>2
<1>3. ASSUME NEW c \in Calls PROVE call[c].position \in Positions
  BY <1>0 DEF TypeOK, CallRows
<1>a. ASSUME NEW c \in Calls, RecoverExpiredClaims(c) PROVE Kept /\ Ends
  BY <1>0, <1>a DEF RecoverExpiredClaims, RecoveredAttempts, Released, Finished
<1>b. ASSUME NEW c \in Calls, PauseStaleWorkflow(c) PROVE Kept /\ Ends
  BY <1>0, <1>1, <1>2, <1>b DEF PauseStaleWorkflow, StepStatuses
<1>c. ASSUME NEW c \in Calls, ClaimStep(c) PROVE Kept /\ Ends
  BY <1>0, <1>2, <1>3, <1>c DEF ClaimStep, Claimed
<1>d. ASSUME NEW c \in Calls, PauseAttemptExhaustion(c) PROVE Kept /\ Ends
  BY <1>1, <1>2, <1>3, <1>d DEF PauseAttemptExhaustion, StepStatuses
<1>e. ASSUME NEW c \in Calls, NEW target \in Resumable,
             PauseBeforeCall(c, target)
      PROVE  Kept /\ Ends
  BY <1>1, <1>2, <1>3, <1>e DEF PauseBeforeCall, StepStatuses
<1>f. ASSUME NEW c \in Calls, PauseStaleCompletion(c) PROVE Kept /\ Ends
  <2>1. Kept
    BY <1>1, <1>3, <1>f DEF PauseStaleCompletion, StepStatuses
  <2>2. HoldsAttempt(c) /\ AttemptEnds(c, "STALE")
    BY <1>f DEF PauseStaleCompletion
  <2>3. "STALE" \in AttemptStates \ {"RUNNING", "ABSENT"}
    BY DEF AttemptStates
  <2> QED BY <2>1, <2>2, <2>3, AnswerEndsAttempt
<1>g. ASSUME NEW c \in Calls, NEW retryable \in BOOLEAN,
             FailAttempt(c, retryable)
      PROVE  Kept /\ Ends
  <2>1. PICK result \in StepStatuses : StepBecomes(call[c].position, result)
    BY <1>g DEF FailAttempt, StepStatuses
  <2>2. Kept
    BY <1>1, <1>3, <2>1
  <2>3. HoldsAttempt(c) /\ AttemptEnds(c, "FAILED")
    BY <1>g DEF FailAttempt
  <2>4. "FAILED" \in AttemptStates \ {"RUNNING", "ABSENT"}
    BY DEF AttemptStates
  <2> QED BY <2>2, <2>3, <2>4, AnswerEndsAttempt
<1>h. ASSUME LeaseLapses PROVE Kept /\ Ends
  BY <1>0, <1>2, <1>h DEF LeaseLapses, StepRows
<1>i. ASSUME NEW r \in Requests, ApprovePlan(r) PROVE Kept /\ Ends
  <2>1. workflow.status = "AWAITING_PLAN_APPROVAL"
    BY <1>i DEF ApprovePlan, IInv, Shape, RowFacts
  <2>2. workflow.position = 0
    BY <2>1 DEF IInv, Shape, NeverStranded
  <2>3. ASSUME NEW q \in Positions, q # 0 PROVE step[q] \in {AbsentStep, NewStep}
    <3>1. q \in Nat /\ q > 0
      BY <2>3, PositionFacts
    <3> QED BY <2>2, <3>1 DEF IInv, Shape, SequentialProgress
  <2>4. Kept
    BY <1>0, <1>i, <2>3 DEF ApprovePlan, AbsentStep, NewStep
  <2> QED BY <1>2, <1>i, <2>4 DEF ApprovePlan
<1>j. ASSUME Resume PROVE Kept /\ Ends
  BY <1>0, <1>1, <1>2, <1>j DEF Resume, StepStatuses
<1>k. ASSUME NEW c \in Calls,
             \/ ReadClaim(c) \/ LoseClaim(c) \/ RequestFails(c)
             \/ FencedBeforeCall(c) \/ FencedAfterCall(c)
             \/ LeaveCandidateStep(c) \/ AbandonCall(c)
      PROVE  Kept /\ Ends
  BY <1>k
     DEF ReadClaim, LoseClaim, RequestFails, FencedBeforeCall, FencedAfterCall,
         LeaveCandidateStep, AbandonCall
<1>l. ASSUME \/ \E r \in Requests : ReadPlan(r) \/ LosePlan(r)
             \/ RejectPlan \/ Cancel \/ ApproveOutline \/ LoseSource
             \/ UNCHANGED vars
      PROVE  Kept /\ Ends
  BY <1>l
     DEF ReadPlan, LosePlan, RejectPlan, Cancel, ApproveOutline, LoseSource, vars
<1> HIDE DEF Kept, Ends
<1>4. Kept /\ Ends
  BY <1>a, <1>b, <1>c, <1>d, <1>e, <1>f, <1>g, <1>h, <1>i, <1>j, <1>k, <1>l
     DEF Next, Advance, Claim, Work, Answer, Author
<1> QED BY <1>4 DEF Kept, Ends

LEMMA HistoryPreserved == IInv /\ [Next]_vars => AttemptHistory'
<1> SUFFICES ASSUME IInv, [Next]_vars PROVE AttemptHistory'
  OBVIOUS
<1> DEFINE p == workflow.position
<1>0. /\ TypeOK /\ AttemptHistory /\ p \in Positions
      /\ step \in [Positions -> StepRows]
      /\ attempt \in [Positions -> [Numbers -> AttemptStates]]
      /\ \A q \in Positions : /\ step[q].artifact \in 0 .. MaxStepAttempts
                               /\ step[q].attempts \in 0 .. MaxStepAttempts
  BY DEF IInv, Attempts, TypeOK, WorkflowRows, StepRows
<1>1. ASSUME NEW c \in Calls, RecordAttemptStart(c) PROVE AttemptHistory'
  <2> DEFINE n == step[p].attempts + 1
  <2>1. /\ step[p].status = "RUNNING" /\ step[p].attempts < MaxStepAttempts
        /\ step' = [step EXCEPT ![p] = Started(step[p])]
        /\ attempt' = [attempt EXCEPT ![p][n] = "RUNNING"]
    BY <1>1 DEF RecordAttemptStart, CanStart, HoldsClaim
  <2>2. step[p].artifact = 0
    BY <1>0, <2>1, RunningStep DEF IInv
  <2>3. n \in Numbers
    BY <1>0, <2>1, AttemptsAssumption DEF Numbers
  <2>4. step'[p].attempts = n /\ step'[p].artifact = 0
    BY <1>0, <2>1, <2>2 DEF Started
  <2>5. \A q \in Positions : q # p => step'[q] = step[q] /\ attempt'[q] = attempt[q]
    BY <1>0, <2>1
  <2>6. \A m \in Numbers :
           attempt'[p][m] = IF m = n THEN "RUNNING" ELSE attempt[p][m]
    BY <1>0, <2>1, <2>3
  <2>7. \A m \in Numbers : attempt'[p][m] # "ABSENT" <=> m <= n
    <3> SUFFICES ASSUME NEW m \in Numbers
                 PROVE  attempt'[p][m] # "ABSENT" <=> m <= n
      OBVIOUS
    <3>1. attempt[p][m] # "ABSENT" <=> m <= step[p].attempts
      BY <1>0 DEF AttemptHistory
    <3>2. m \in Nat /\ step[p].attempts \in Nat
      BY <1>0, AttemptsAssumption DEF Numbers
    <3> QED BY <2>6, <3>1, <3>2
  <2> HIDE DEF n
  <2> QED BY <1>0, <2>4, <2>5, <2>7 DEF AttemptHistory
<1>2. ASSUME NEW c \in Calls, NEW verdict \in Verdicts(call[c].position),
             CompleteAttempt(c, verdict)
      PROVE  AttemptHistory'
  <2> DEFINE n == call[c].number
  <2> DEFINE t == CompletionTransition(p, n, verdict)
  <2>1. HoldsAttempt(c) /\ AttemptEnds(c, "COMPLETED")
    BY <1>2 DEF CompleteAttempt, CanComplete
  <2>2. "COMPLETED" \in AttemptStates \ {"RUNNING", "ABSENT"}
    BY DEF AttemptStates
  <2>3. /\ call[c].position = p /\ n = step[p].attempts /\ n \in Numbers
        /\ attempt'[p][n] = "COMPLETED"
        /\ \A q \in Positions, m \in Numbers :
              /\ attempt[q][m] # "RUNNING" => attempt'[q][m] = attempt[q][m]
              /\ attempt[q][m] = "RUNNING" => attempt'[q][m] = "COMPLETED"
    BY <2>1, <2>2, AnswerEndsAttempt
  <2>4. step' = [step EXCEPT ![p] =
                   Finished(step[p], t.step, IF t.active THEN n ELSE 0)]
    BY <1>2, <2>3 DEF CompleteAttempt
  <2>5. step'[p].attempts = n /\ step'[p].artifact \in {0, n}
    BY <1>0, <2>3, <2>4 DEF Finished
  <2>6. \A q \in Positions : q # p => step'[q] = step[q]
    BY <1>0, <2>4
  <2>7. \A q \in Positions, m \in Numbers :
           attempt'[q][m] # "ABSENT" <=> m <= step'[q].attempts
    BY <1>0, <2>3, <2>5, <2>6 DEF AttemptHistory
  <2>8. ASSUME NEW q \in Positions, step'[q].artifact # 0
        PROVE  /\ step'[q].artifact = step'[q].attempts
               /\ attempt'[q][step'[q].artifact] = "COMPLETED"
    <3>1. CASE q = p
      BY <2>3, <2>5, <2>8, <3>1
    <3>2. CASE q # p
      <4>1. /\ step[q].artifact # 0 /\ step'[q] = step[q]
            /\ step[q].artifact = step[q].attempts
            /\ attempt[q][step[q].artifact] = "COMPLETED"
        BY <1>0, <2>6, <2>8, <3>2 DEF AttemptHistory
      <4>2. step[q].artifact \in Numbers
        BY <1>0, <4>1, AttemptsAssumption DEF Numbers
      <4> QED BY <2>3, <4>1, <4>2
    <3> QED BY <3>1, <3>2
  <2> QED BY <2>7, <2>8 DEF AttemptHistory
<1>3. CASE /\ \A c \in Calls : ~RecordAttemptStart(c)
           /\ \A c \in Calls : \A verdict \in Verdicts(call[c].position) :
                 ~CompleteAttempt(c, verdict)
  BY <1>0, <1>3, BookkeepingSteps, HistoryKept
<1> QED BY <1>1, <1>2, <1>3

LEMMA RunningPreserved == IInv /\ [Next]_vars => RunningAttemptIsCurrent'
<1> SUFFICES ASSUME IInv, [Next]_vars PROVE RunningAttemptIsCurrent'
  OBVIOUS
<1> DEFINE p == workflow.position
<1> DEFINE NoneRunning == \A q \in Positions : NoAttemptRunning(q)
<1> DEFINE LeftBehind == {"PAUSED_STALE_VERSION", "CANCELLED"}
<1>0. /\ TypeOK /\ Shape /\ Fencing /\ RunningAttemptIsCurrent /\ p \in Positions
      /\ step \in [Positions -> StepRows]
      /\ attempt \in [Positions -> [Numbers -> AttemptStates]]
      /\ \A c \in Calls : call[c].position \in Positions
  BY DEF IInv, Attempts, TypeOK, WorkflowRows, CallRows
<1>1. NoneRunning' => RunningAttemptIsCurrent'
  BY DEF NoAttemptRunning, RunningAttemptIsCurrent
<1>2. NoAttemptRunning(p) => NoneRunning
  BY <1>0 DEF NoAttemptRunning, RunningAttemptIsCurrent
<1>3. step[p].status # "RUNNING" /\ workflow.status \notin LeftBehind => NoneRunning
  BY <1>0 DEF NoAttemptRunning, RunningAttemptIsCurrent
<1>4. NoneRunning /\ UNCHANGED attempt => NoneRunning'
  BY DEF NoAttemptRunning
<1>5. Executable \cap LeftBehind = {} /\ Resumable \cap LeftBehind = {}
  BY DEF Executable, Resumable
<1>a. ASSUME NEW c \in Calls, RecoverExpiredClaims(c) PROVE RunningAttemptIsCurrent'
  <2>1. PICK q \in Positions : Lapsed(step[q])
    BY <1>a DEF RecoverExpiredClaims
  <2>2. q = p
    BY <1>0, <2>1, RunningStep DEF Lapsed
  <2>3. attempt' = RecoveredAttempts
    BY <1>a DEF RecoverExpiredClaims
  <2>4. \A m \in Numbers : attempt'[p][m] # "RUNNING"
    BY <1>0, <2>1, <2>2, <2>3 DEF RecoveredAttempts
  <2>5. \A r \in Positions, m \in Numbers :
           r # p => attempt'[r][m] \in {attempt[r][m], "FAILED"}
    BY <1>0, <2>3 DEF RecoveredAttempts
  <2>6. NoneRunning'
    BY <1>0, <2>4, <2>5 DEF NoAttemptRunning, RunningAttemptIsCurrent
  <2> QED BY <1>1, <2>6
<1>b. ASSUME NEW c \in Calls, PauseStaleWorkflow(c) PROVE RunningAttemptIsCurrent'
  <2>1. /\ workflow'.status = "PAUSED_STALE_VERSION" /\ workflow'.position = p
        /\ step' = [step EXCEPT ![p] = Released(step[p], "PAUSED")]
        /\ UNCHANGED attempt
    BY <1>b DEF PauseStaleWorkflow, WorkflowBecomes, StepBecomes
  <2>2. \A q \in Positions : step'[q].attempts = step[q].attempts
    BY <1>0, <2>1 DEF Released, Finished
  <2> QED BY <1>0, <2>1, <2>2 DEF RunningAttemptIsCurrent
<1>c. ASSUME NEW c \in Calls, ClaimStep(c) PROVE RunningAttemptIsCurrent'
  <2>1. workflow.status \in Executable /\ call[c].position = p
    BY <1>0, <1>c DEF ClaimStep, ClaimStands, Fencing, Fenced
  <2>2. step[p].status # "RUNNING" /\ UNCHANGED attempt
    BY <1>c, <2>1 DEF ClaimStep, ClaimStands, Claimable
  <2> QED BY <1>1, <1>3, <1>4, <1>5, <2>1, <2>2
<1>d. ASSUME NEW c \in Calls, RecordAttemptStart(c) PROVE RunningAttemptIsCurrent'
  <2> DEFINE n == step[p].attempts + 1
  <2>1. /\ step[p].status = "RUNNING" /\ step[p].lease = "live"
        /\ NoAttemptRunning(p)
        /\ workflow'.position = p
        /\ step' = [step EXCEPT ![p] = Started(step[p])]
        /\ attempt' = [attempt EXCEPT ![p][n] = "RUNNING"]
    BY <1>d DEF RecordAttemptStart, CanStart, HoldsClaim, WorkflowBecomes
  <2>2. /\ step'[p].status = "RUNNING" /\ step'[p].lease = "live"
        /\ step'[p].attempts = n
    BY <1>0, <2>1 DEF Started
  <2>3. \A q \in Positions, m \in Numbers :
           attempt'[q][m] = "RUNNING" => q = p /\ m = n
    BY <1>0, <1>2, <2>1 DEF NoAttemptRunning
  <2> HIDE DEF n
  <2> QED BY <2>1, <2>2, <2>3 DEF RunningAttemptIsCurrent
<1>e. ASSUME NEW c \in Calls, PauseAttemptExhaustion(c)
      PROVE  RunningAttemptIsCurrent'
  <2>1. call[c].pc = "claimed" /\ HoldsClaim(c) /\ UNCHANGED attempt
    BY <1>e DEF PauseAttemptExhaustion
  <2>2. call[c].position = p
    BY <1>0, <2>1, RunningStep DEF HoldsClaim
  <2>3. NoAttemptRunning(p)
    BY <1>0, <2>1, <2>2 DEF HoldsClaim, Fencing, Fenced, Under
  <2> QED BY <1>1, <1>2, <1>4, <2>1, <2>3
<1>f. ASSUME NEW c \in Calls, NEW target \in Resumable,
             PauseBeforeCall(c, target)
      PROVE  RunningAttemptIsCurrent'
  <2>1. NoAttemptRunning(p) /\ UNCHANGED attempt
    BY <1>f DEF PauseBeforeCall, CanStart
  <2> QED BY <1>1, <1>2, <1>4, <2>1
<1>g. ASSUME NEW c \in Calls,
             \/ \E verdict \in Verdicts(call[c].position) :
                   CompleteAttempt(c, verdict)
             \/ PauseStaleCompletion(c)
             \/ \E retryable \in BOOLEAN : FailAttempt(c, retryable)
      PROVE  RunningAttemptIsCurrent'
  <2>1. PICK result \in AttemptStates \ {"RUNNING", "ABSENT"} :
           HoldsAttempt(c) /\ AttemptEnds(c, result)
    BY <1>g DEF CompleteAttempt, CanComplete, PauseStaleCompletion, FailAttempt,
                AttemptStates
  <2>2. NoneRunning'
    BY <2>1, AnswerEndsAttempt DEF NoAttemptRunning
  <2> QED BY <1>1, <2>2
<1>h. ASSUME LeaseLapses PROVE RunningAttemptIsCurrent'
  <2>1. /\ step' = [step EXCEPT ![p].lease = "lapsed"]
        /\ UNCHANGED <<workflow, attempt>>
    BY <1>h DEF LeaseLapses
  <2>2. \A q \in Positions :
           /\ step'[q].attempts = step[q].attempts
           /\ step'[q].status = step[q].status
           /\ step'[q].lease = "none" => step[q].lease = "none"
    BY <1>0, <2>1 DEF StepRows
  <2> QED BY <1>0, <2>1, <2>2 DEF RunningAttemptIsCurrent
<1>i. ASSUME (\E r \in Requests : ApprovePlan(r)) \/ RejectPlan
      PROVE  RunningAttemptIsCurrent'
  <2>1. workflow.status = "AWAITING_PLAN_APPROVAL" /\ UNCHANGED attempt
    BY <1>0, <1>i DEF ApprovePlan, RejectPlan, Shape, RowFacts
  <2>2. step[p].status # "RUNNING"
    BY <1>0, <2>1 DEF Shape, NeverStranded
  <2> QED BY <1>1, <1>3, <1>4, <2>1, <2>2
<1>j. ASSUME Resume PROVE RunningAttemptIsCurrent'
  <2>1. workflow.status \in Resumable /\ step[p].status = "PAUSED"
        /\ UNCHANGED attempt
    BY <1>j DEF Resume
  <2> QED BY <1>1, <1>3, <1>4, <1>5, <2>1
<1>k. ASSUME Cancel PROVE RunningAttemptIsCurrent'
  <2>1. workflow'.position = p /\ workflow'.status = "CANCELLED"
        /\ UNCHANGED <<step, attempt>>
    BY <1>k DEF Cancel, WorkflowBecomes
  <2> QED BY <1>0, <2>1 DEF RunningAttemptIsCurrent
<1>l. ASSUME NEW c \in Calls,
             \/ ReadClaim(c) \/ LoseClaim(c) \/ RequestFails(c)
             \/ FencedBeforeCall(c) \/ FencedAfterCall(c)
             \/ LeaveCandidateStep(c) \/ AbandonCall(c)
      PROVE  RunningAttemptIsCurrent'
  <2>1. UNCHANGED <<workflow, step, attempt>>
    BY <1>l
       DEF ReadClaim, LoseClaim, RequestFails, FencedBeforeCall, FencedAfterCall,
           LeaveCandidateStep, AbandonCall
  <2> QED BY <1>0, <2>1 DEF RunningAttemptIsCurrent
<1>m. ASSUME \/ \E r \in Requests : ReadPlan(r) \/ LosePlan(r)
             \/ ApproveOutline \/ LoseSource \/ UNCHANGED vars
     
      PROVE  RunningAttemptIsCurrent'
  <2>1. UNCHANGED <<workflow, step, attempt>>
    BY <1>m DEF ReadPlan, LosePlan, ApproveOutline, LoseSource, vars
  <2> QED BY <1>0, <2>1 DEF RunningAttemptIsCurrent
<1> QED
  BY <1>a, <1>b, <1>c, <1>d, <1>e, <1>f, <1>g, <1>h, <1>i, <1>j, <1>k, <1>l,
     <1>m
     DEF Next, Advance, Claim, Work, Answer, Author

-----------------------------------------------------------------------------
(* Fencing. *)

\* What a step of the system may do to the step row at q.
Forward(q) ==
    /\ step[q].attempts <= step'[q].attempts
    /\ step[q].revision <= step'[q].revision
    /\ step'[q].status = "RUNNING" /\ step'[q].revision = step[q].revision =>
          /\ step[q].status = "RUNNING"
          /\ NoAttemptRunning(q) => NoAttemptRunning(q)'

\* Counters and revisions never go back, and a RUNNING step whose revision
\* is kept was RUNNING before and starts no attempt.
LEMMA StepsMoveForward ==
    ASSUME IInv, [Next]_vars, NEW q \in Positions
    PROVE  Forward(q)
<1> DEFINE p == workflow.position
<1>0. /\ TypeOK /\ p \in Positions
      /\ step \in [Positions -> StepRows]
      /\ attempt \in [Positions -> [Numbers -> AttemptStates]]
      /\ step[q].attempts \in Nat /\ step[q].revision \in Nat
      /\ \A c \in Calls : call[c].position \in Positions
  BY AttemptsAssumption DEF IInv, TypeOK, WorkflowRows, CallRows, StepRows
<1>1. ASSUME step'[q] = step[q],
             \A m \in Numbers : attempt'[q][m] = "RUNNING" => attempt[q][m] = "RUNNING"
      PROVE  Forward(q)
  BY <1>0, <1>1 DEF Forward, NoAttemptRunning
<1>2. ASSUME step'[q].attempts >= step[q].attempts,
             step'[q].revision = step[q].revision + 1
      PROVE  Forward(q)
  BY <1>0, <1>2 DEF Forward
<1>3. ASSUME NEW r \in Positions, NEW status \in StepStatuses,
             StepBecomes(r, status),
             \A m \in Numbers : attempt'[q][m] = "RUNNING" => attempt[q][m] = "RUNNING"
      PROVE  Forward(q)
  <2>1. CASE q = r
    <3>1. step'[q].attempts = step[q].attempts
          /\ step'[q].revision = step[q].revision + 1
      BY <1>0, <1>3, <2>1 DEF StepBecomes, Released, Finished
    <3> QED BY <1>0, <1>2, <3>1
  <2>2. CASE q # r
    BY <1>0, <1>1, <1>3, <2>2 DEF StepBecomes
  <2> QED BY <2>1, <2>2
<1> HIDE DEF Forward
<1>a. ASSUME NEW c \in Calls, RecoverExpiredClaims(c) PROVE Forward(q)
  <2>1. attempt' = RecoveredAttempts
        /\ step' = [r \in Positions |-> IF Lapsed(step[r])
                       THEN Released(step[r], "PENDING") ELSE step[r]]
    BY <1>a DEF RecoverExpiredClaims
  <2>2. CASE Lapsed(step[q])
    <3>1. step'[q].attempts = step[q].attempts
          /\ step'[q].revision = step[q].revision + 1
      BY <2>1, <2>2 DEF Released, Finished
    <3> QED BY <1>0, <1>2, <3>1
  <2>3. CASE ~Lapsed(step[q])
    BY <1>1, <2>1, <2>3 DEF RecoveredAttempts
  <2> QED BY <2>2, <2>3
<1>b. ASSUME NEW c \in Calls, PauseStaleWorkflow(c) PROVE Forward(q)
  BY <1>0, <1>3, <1>b DEF PauseStaleWorkflow, StepStatuses
<1>c. ASSUME NEW c \in Calls, ClaimStep(c) PROVE Forward(q)
  <2>1. /\ step' = [step EXCEPT ![call[c].position] = Claimed(step[call[c].position])]
        /\ UNCHANGED attempt
    BY <1>c DEF ClaimStep
  <2>2. CASE q = call[c].position
    <3>1. step'[q].attempts = step[q].attempts
          /\ step'[q].revision = step[q].revision + 1
      BY <1>0, <2>1, <2>2 DEF Claimed
    <3> QED BY <1>0, <1>2, <3>1
  <2>3. CASE q # call[c].position
    BY <1>0, <1>1, <2>1, <2>3
  <2> QED BY <2>2, <2>3
<1>d. ASSUME NEW c \in Calls, RecordAttemptStart(c) PROVE Forward(q)
  <2> DEFINE n == step[p].attempts + 1
  <2>1. /\ step' = [step EXCEPT ![p] = Started(step[p])]
        /\ attempt' = [attempt EXCEPT ![p][n] = "RUNNING"]
    BY <1>d DEF RecordAttemptStart, CanStart
  <2>2. CASE q = p
    <3>1. step'[q].attempts = step[q].attempts + 1
          /\ step'[q].revision = step[q].revision + 1
      BY <1>0, <2>1, <2>2 DEF Started
    <3> QED BY <1>0, <1>2, <3>1
  <2>3. CASE q # p
    BY <1>0, <1>1, <2>1, <2>3
  <2> QED BY <2>2, <2>3
<1>e. ASSUME NEW c \in Calls, PauseAttemptExhaustion(c) PROVE Forward(q)
  BY <1>0, <1>3, <1>e DEF PauseAttemptExhaustion, StepStatuses
<1>f. ASSUME NEW c \in Calls, NEW target \in Resumable,
             PauseBeforeCall(c, target)
      PROVE  Forward(q)
  BY <1>0, <1>3, <1>f DEF PauseBeforeCall, StepStatuses
<1>g. ASSUME NEW c \in Calls, NEW verdict \in Verdicts(call[c].position),
             CompleteAttempt(c, verdict)
      PROVE  Forward(q)
  <2> DEFINE t == CompletionTransition(p, call[c].number, verdict)
  <2> DEFINE row == Finished(step[p], t.step,
                             IF t.active THEN call[c].number ELSE 0)
  <2>1. /\ HoldsAttempt(c) /\ AttemptEnds(c, "COMPLETED") /\ call[c].position = p
    BY <1>g DEF CompleteAttempt, CanComplete, HoldsAttempt
  <2>2. "COMPLETED" \in AttemptStates \ {"RUNNING", "ABSENT"}
    BY DEF AttemptStates
  <2>3. \A m \in Numbers : attempt'[q][m] # "RUNNING"
    BY <2>1, <2>2, AnswerEndsAttempt
  <2>4. step' = [step EXCEPT ![p] = row]
    BY <1>g, <2>1 DEF CompleteAttempt
  <2>5. row.attempts = step[p].attempts /\ row.revision = step[p].revision + 1
    BY DEF Finished
  <2> HIDE DEF row
  <2>6. CASE q = p
    BY <1>0, <1>2, <2>4, <2>5, <2>6
  <2>7. CASE q # p
    BY <1>0, <1>1, <2>3, <2>4, <2>7
  <2> QED BY <2>6, <2>7
<1>h. ASSUME NEW c \in Calls,
             \/ PauseStaleCompletion(c)
             \/ \E retryable \in BOOLEAN : FailAttempt(c, retryable)
      PROVE  Forward(q)
  <2>1. PICK result \in AttemptStates \ {"RUNNING", "ABSENT"} :
           HoldsAttempt(c) /\ AttemptEnds(c, result)
    BY <1>h DEF PauseStaleCompletion, FailAttempt, AttemptStates
  <2>2. \A m \in Numbers : attempt'[q][m] # "RUNNING"
    BY <2>1, AnswerEndsAttempt
  <2>3. PICK status \in StepStatuses : StepBecomes(call[c].position, status)
    BY <1>h DEF PauseStaleCompletion, FailAttempt, StepStatuses
  <2> QED BY <1>0, <1>3, <2>2, <2>3
<1>i. ASSUME LeaseLapses PROVE Forward(q)
  <2>1. step' = [step EXCEPT ![p].lease = "lapsed"] /\ UNCHANGED attempt
    BY <1>i DEF LeaseLapses
  <2>2. /\ step'[q].attempts = step[q].attempts
        /\ step'[q].revision = step[q].revision
        /\ step'[q].status = step[q].status
    BY <1>0, <2>1 DEF StepRows
  <2> QED BY <1>0, <2>1, <2>2 DEF Forward, NoAttemptRunning
<1>j. ASSUME NEW r \in Requests, ApprovePlan(r) PROVE Forward(q)
  <2>1. workflow.status = "AWAITING_PLAN_APPROVAL"
    BY <1>j DEF ApprovePlan, IInv, Shape, RowFacts
  <2>2. p = 0
    BY <2>1 DEF IInv, Shape, NeverStranded
  <2>3. CASE q = 0
    BY <1>0, <1>1, <1>j, <2>3 DEF ApprovePlan
  <2>4. CASE q # 0
    <3>1. q > p
      BY <2>2, <2>4, PositionFacts
    <3>2. step[q] \in {AbsentStep, NewStep}
      BY <3>1 DEF IInv, Shape, SequentialProgress
    <3>3. step'[q] = NewStep
      BY <1>j, <2>4 DEF ApprovePlan
    <3> QED BY <3>2, <3>3 DEF Forward, AbsentStep, NewStep
  <2> QED BY <2>3, <2>4
<1>k. ASSUME Resume PROVE Forward(q)
  BY <1>0, <1>3, <1>k DEF Resume, StepStatuses
<1>l. ASSUME NEW c \in Calls,
             \/ ReadClaim(c) \/ LoseClaim(c) \/ RequestFails(c)
             \/ FencedBeforeCall(c) \/ FencedAfterCall(c)
             \/ LeaveCandidateStep(c) \/ AbandonCall(c)
      PROVE  Forward(q)
  BY <1>1, <1>l
     DEF ReadClaim, LoseClaim, RequestFails, FencedBeforeCall, FencedAfterCall,
         LeaveCandidateStep, AbandonCall
<1>m. ASSUME \/ \E r \in Requests : ReadPlan(r) \/ LosePlan(r)
             \/ RejectPlan \/ Cancel \/ ApproveOutline \/ LoseSource
             \/ UNCHANGED vars
      PROVE  Forward(q)
  BY <1>1, <1>m
     DEF ReadPlan, LosePlan, RejectPlan, Cancel, ApproveOutline, LoseSource, vars
<1> QED
  BY <1>a, <1>b, <1>c, <1>d, <1>e, <1>f, <1>g, <1>h, <1>i, <1>j, <1>k, <1>l,
     <1>m
     DEF Next, Advance, Claim, Work, Answer, Author

\* A step of the system that claims nothing and starts no attempt leaves every
\* call as it is, or idle.
LEMMA CallsKeptOrEnded ==
    ASSUME IInv, [Next]_vars,
           \A c \in Calls : /\ ~ReadClaim(c) /\ ~ClaimStep(c)
                            /\ ~RecordAttemptStart(c),
           NEW d \in Calls
    PROVE  call'[d] = call[d] \/ call'[d] = IdleCall
<1>0. call \in [Calls -> CallRows]
  BY DEF IInv, TypeOK
<1>1. ASSUME NEW c \in Calls, CallEnds(c)
      PROVE  call'[d] = call[d] \/ call'[d] = IdleCall
  BY <1>0, <1>1 DEF CallEnds
<1>2. CASE UNCHANGED call
  BY <1>2
<1>3. \/ UNCHANGED call
      \/ \E c \in Calls : CallEnds(c)
  BY DEF Next, Advance, Claim, Work, Answer, Author, vars, RecoverExpiredClaims,
         PauseStaleWorkflow, LoseClaim, PauseAttemptExhaustion, PauseBeforeCall,
         RequestFails, FencedBeforeCall, CompleteAttempt, PauseStaleCompletion,
         FailAttempt, FencedAfterCall, LeaveCandidateStep, AbandonCall,
         LeaseLapses, ReadPlan, ApprovePlan, LosePlan, RejectPlan, Resume, Cancel,
         ApproveOutline, LoseSource
<1> QED BY <1>1, <1>2, <1>3

LEMMA FencingPreserved == IInv /\ [Next]_vars => Fencing'
<1> SUFFICES ASSUME IInv, [Next]_vars PROVE Fencing'
  OBVIOUS
<1> DEFINE p == workflow.position
<1>0. /\ TypeOK /\ Shape /\ Fencing /\ p \in Positions
      /\ call \in [Calls -> CallRows]
      /\ step \in [Positions -> StepRows]
  BY DEF IInv, TypeOK, WorkflowRows
<1>1. \A d \in Calls :
         LET q == call[d].position IN
         /\ q \in Positions
         /\ call[d].revision \in Nat /\ call[d].number \in Nat
         /\ step[q].revision \in Nat /\ step[q].attempts \in Nat
         /\ Forward(q)
  BY <1>0, StepsMoveForward, AttemptsAssumption DEF CallRows, StepRows
<1>2. ASSUME NEW d \in Calls, call'[d] = call[d] PROVE Fenced(d)'
  <2> DEFINE q == call[d].position
  <2>1. /\ Fenced(d) /\ Forward(q) /\ q \in Positions
        /\ call[d].revision \in Nat /\ call[d].number \in Nat
        /\ step[q].revision \in Nat /\ step[q].attempts \in Nat
    BY <1>0, <1>1 DEF Fencing
  <2>2. step'[q].revision \in Nat /\ step'[q].attempts \in Nat
    <3>1. TypeOK'
      BY TypePreserved DEF IInv
    <3> QED BY <2>1, <3>1, AttemptsAssumption DEF TypeOK, StepRows
  <2>3. Under(d) =>
           /\ call[d].revision <= step'[q].revision
           /\ step'[q].status = "RUNNING" /\ call[d].revision = step'[q].revision =>
                 NoAttemptRunning(q)'
    BY <2>1, <2>2 DEF Fenced, Forward
  <2>4. call[d].pc = "calling" => call[d].number \in 1 .. step'[q].attempts
    BY <2>1, <2>2 DEF Fenced, Forward
  <2>5. NoAttemptRunning(call[d].position)' <=> NoAttemptRunning(q)'
    BY <1>2 DEF NoAttemptRunning
  <2> QED BY <1>2, <2>1, <2>3, <2>4, <2>5 DEF Fenced, Under
<1>3. ASSUME NEW d \in Calls, call'[d] = IdleCall PROVE Fenced(d)'
  BY <1>3 DEF IdleCall, Fenced, Under
<1>4. ASSUME NEW c \in Calls, NEW d \in Calls,
             call'[c] = call[c] \/ call'[c] = IdleCall,
             call'[d] = call[d] \/ call'[d] = IdleCall
      PROVE  Apart(c, d)'
  BY <1>0, <1>4 DEF Fencing, Apart, Under, IdleCall
<1>a. ASSUME NEW c \in Calls, ReadClaim(c) PROVE Fencing'
  <2> DEFINE row == [pc |-> "claiming", position |-> p,
                     revision |-> step[p].revision, seen |-> workflow,
                     number |-> 0]
  <2>1. call' = [call EXCEPT ![c] = row] /\ workflow.status \in Executable
    BY <1>a DEF ReadClaim
  <2>2. call'[c] = row /\ \A d \in Calls \ {c} : call'[d] = call[d]
    BY <1>0, <2>1
  <2>3. Fenced(c)'
    BY <2>1, <2>2 DEF Fenced, Under
  <2>4. \A d \in Calls : Apart(c, d)' /\ Apart(d, c)'
    BY <2>2 DEF Apart, Under
  <2>5. \A d, e \in Calls \ {c} : Apart(d, e)'
    BY <1>4, <2>2
  <2> QED BY <1>2, <2>2, <2>3, <2>4, <2>5 DEF Fencing
<1>b. ASSUME NEW c \in Calls, ClaimStep(c) PROVE Fencing'
  <2> DEFINE row == [pc |-> IF p = Candidate THEN "creating" ELSE "claimed",
                     position |-> p, revision |-> step[p].revision + 1,
                     seen |-> Unread, number |-> 0]
  <2>1. /\ workflow.status \in Executable /\ call[c].position = p
        /\ step[p].status = "PENDING"
    BY <1>0, <1>b DEF ClaimStep, ClaimStands, Claimable, Fencing, Fenced
  <2>2. /\ call' = [call EXCEPT ![c] = row]
        /\ step' = [step EXCEPT ![p] = Claimed(step[p])]
        /\ UNCHANGED attempt
    BY <1>b, <2>1 DEF ClaimStep
  <2>3. call'[c] = row /\ \A d \in Calls \ {c} : call'[d] = call[d]
    BY <1>0, <2>2
  <2>4. /\ row.position = p /\ row.revision = step[p].revision + 1
        /\ row.pc \in {"claimed", "creating"}
        /\ row.pc = "claimed" => p # Candidate
    OBVIOUS
  <2>5. step'[p].revision = step[p].revision + 1
    BY <1>0, <2>2 DEF Claimed
  <2>6. \A n \in Numbers : attempt'[p][n] # "RUNNING"
    BY <1>0, <2>1, <2>2 DEF IInv, Attempts, RunningAttemptIsCurrent, Executable
  <2>7. step[p].revision \in Nat
    BY <1>0 DEF StepRows
  <2> HIDE DEF row
  <2>8. NoAttemptRunning(call[c].position)'
    BY <2>3, <2>4, <2>6 DEF NoAttemptRunning
  <2>9. Fenced(c)'
    BY <2>3, <2>4, <2>5, <2>7, <2>8 DEF Fenced, Under
  <2>10. ASSUME NEW d \in Calls \ {c}, Under(d), call[d].position = p
         PROVE  call[d].revision # step[p].revision + 1
    <3>1. Fenced(d)
      BY <1>0 DEF Fencing
    <3> QED BY <1>1, <2>7, <2>10, <3>1 DEF Fenced
  <2>11. \A d \in Calls : Apart(c, d)' /\ Apart(d, c)'
    BY <2>3, <2>4, <2>10 DEF Apart, Under
  <2>12. \A d, e \in Calls \ {c} : Apart(d, e)'
    BY <1>4, <2>3
  <2> QED BY <1>2, <2>3, <2>9, <2>11, <2>12 DEF Fencing
<1>c. ASSUME NEW c \in Calls, RecordAttemptStart(c) PROVE Fencing'
  <2> DEFINE n == step[p].attempts + 1
  <2> DEFINE row == [pc |-> "calling", position |-> p, revision |-> 0,
                     seen |-> Unread, number |-> n]
  <2>1. call[c].position = p /\ call[c].pc = "claimed"
    BY <1>c DEF RecordAttemptStart, CanStart
  <2>2. /\ call' = [call EXCEPT ![c] = row]
        /\ step' = [step EXCEPT ![p] = Started(step[p])]
    BY <1>c, <2>1 DEF RecordAttemptStart
  <2>3. call'[c] = row /\ \A d \in Calls \ {c} : call'[d] = call[d]
    BY <1>0, <2>2
  <2>4. row.position = p /\ row.number = n /\ row.pc = "calling"
    OBVIOUS
  <2>5. step'[p].attempts = n /\ step[p].attempts \in Nat
    BY <1>0, <1>1, <2>1, <2>2 DEF Started
  <2>6. n \in 1 .. n
    BY <2>5
  <2>7. p # Candidate
    BY <1>0, <2>1 DEF Fencing, Fenced
  <2> HIDE DEF row
  <2>8. Fenced(c)'
    BY <2>3, <2>4, <2>5, <2>6, <2>7 DEF Fenced, Under
  <2>9. ASSUME NEW d \in Calls \ {c}, call[d].pc = "calling", call[d].position = p
        PROVE  call[d].number # n
    <3>1. Fenced(d)
      BY <1>0 DEF Fencing
    <3> QED BY <1>1, <2>5, <2>9, <3>1 DEF Fenced
  <2>10. \A d \in Calls : Apart(c, d)' /\ Apart(d, c)'
    BY <2>3, <2>4, <2>9 DEF Apart, Under
  <2>11. \A d, e \in Calls \ {c} : Apart(d, e)'
    BY <1>4, <2>3
  <2> QED BY <1>2, <2>3, <2>8, <2>10, <2>11 DEF Fencing
<1>d. CASE \A c \in Calls : /\ ~ReadClaim(c) /\ ~ClaimStep(c)
                            /\ ~RecordAttemptStart(c)
  <2>1. \A d \in Calls : call'[d] = call[d] \/ call'[d] = IdleCall
    BY <1>d, CallsKeptOrEnded
  <2> QED BY <1>2, <1>3, <1>4, <2>1 DEF Fencing
<1> QED BY <1>a, <1>b, <1>c, <1>d

-----------------------------------------------------------------------------
(* The theorems. *)

LEMMA InductiveInitial == Init => IInv
<1> SUFFICES ASSUME Init PROVE IInv
  OBVIOUS
<1> USE PositionFacts
<1>1. TypeOK
  BY TypeInitial
<1>2. /\ workflow.status = "PLANNING" /\ workflow.position = 0
      /\ step[0] = NewStep /\ decision = "none" /\ owned = TRUE
      /\ approval = [r \in Requests |-> Unread]
      /\ \A q \in Positions \ {0} : step[q] = AbsentStep
      /\ \A q \in Positions, n \in Numbers : attempt[q][n] = "ABSENT"
      /\ \A c \in Calls : call[c] = IdleCall
  BY DEF Init
<1>3. StatusFor(0) = "PLANNING"
  BY ChaptersAssumption DEF StatusFor, Reviewing, Candidate
<1>4. Shape
  <2>1. SequentialProgress
    BY <1>2 DEF SequentialProgress
  <2>2. NeverStranded
    BY <1>2, <1>3 DEF NeverStranded, NewStep, Claimable, Paused
  <2>3. OwnedUntilTerminal /\ AuthorGate
    BY <1>2 DEF OwnedUntilTerminal, AuthorGate, AbsentStep, Terminal
  <2>4. RowFacts
    BY <1>2 DEF RowFacts, NewStep, AbsentStep, Terminal, Resumable
  <2> QED BY <2>1, <2>2, <2>3, <2>4 DEF Shape
<1>5. AttemptHistory
  <2>1. \A q \in Positions : step[q].attempts = 0 /\ step[q].artifact = 0
    <3> TAKE q \in Positions
    <3>1. CASE q = 0
      BY <1>2, <3>1 DEF NewStep
    <3>2. CASE q # 0
      BY <1>2, <3>2 DEF AbsentStep
    <3> QED BY <3>1, <3>2
  <2>2. \A n \in Numbers : ~(n <= 0)
    BY AttemptsAssumption DEF Numbers
  <2> QED BY <1>2, <2>1, <2>2 DEF AttemptHistory
<1>6. RunningAttemptIsCurrent
  BY <1>2 DEF RunningAttemptIsCurrent
<1>7. Fencing
  BY <1>2 DEF Fencing, Fenced, Apart, Under, IdleCall
<1> QED BY <1>1, <1>4, <1>5, <1>6, <1>7 DEF IInv, Attempts

LEMMA InductivePreserved == IInv /\ [Next]_vars => IInv'
BY TypePreserved, ShapePreserved, HistoryPreserved, RunningPreserved,
   FencingPreserved
   DEF IInv, Attempts

\* IInv holds in every reachable state.
THEOREM Inductive == Spec => []IInv
BY InductiveInitial, InductivePreserved, PTL DEF Spec

\* Chapters are written in order: every step before the current one has its
\* artifact, and none after it was touched.
THEOREM ProgressIsSequential == Spec => []SequentialProgress
BY Inductive, PTL DEF IInv, Shape

\* An executable workflow's step can be claimed or will be given up, and a
\* paused workflow's step is paused.
THEOREM NoStepStranded == Spec => []NeverStranded
BY Inductive, PTL DEF IInv, Shape

\* Chapter steps exist exactly when the author approved the plan.
THEOREM AuthorGateHolds == Spec => []AuthorGate
BY Inductive, PTL DEF IInv, Shape

\* The project is owned exactly until the workflow is rejected or cancelled.
THEOREM OwnershipHolds == Spec => []OwnedUntilTerminal
BY Inductive, PTL DEF IInv, Shape

\* attempt_count counts the attempts, and artifacts come from the last one.
THEOREM HistoryIsKept == Spec => []AttemptHistory
BY Inductive, PTL DEF IInv, Attempts

\* A running attempt is the current step's last one and will be answered or
\* recovered, but for the one _pause_stale_workflow leaves behind.
THEOREM RunningIsCurrent == Spec => []RunningAttemptIsCurrent
BY Inductive, PTL DEF IInv, Attempts

\* Claims and attempt numbers tell the calls apart, whatever lapses.
THEOREM ClaimsAreFenced == Spec => []Fencing
BY Inductive, PTL DEF IInv

LEMMA OneRunning == IInv => OneRunningAttempt
<1> SUFFICES ASSUME IInv, NEW p \in Positions, NEW q \in Positions,
                    NEW n \in Numbers, NEW m \in Numbers,
                    attempt[p][n] = "RUNNING", attempt[q][m] = "RUNNING"
             PROVE  p = q /\ n = m
  BY DEF OneRunningAttempt
<1>1. p = workflow.position /\ n = step[p].attempts
  BY DEF IInv, Attempts, RunningAttemptIsCurrent
<1>2. q = workflow.position /\ m = step[q].attempts
  BY DEF IInv, Attempts, RunningAttemptIsCurrent
<1> QED BY <1>1, <1>2

\* At most one model attempt of the workflow is RUNNING.
THEOREM AtMostOneRunning == Spec => []OneRunningAttempt
BY Inductive, OneRunning, PTL

\* Two calls that pass the checks are one: two claims by their revisions, two
\* attempts by their numbers, and a claim excludes a running attempt.
LEMMA Exclusive == IInv => ExclusiveHolder
<1> SUFFICES ASSUME IInv, NEW c \in Calls, NEW d \in Calls, Holds(c), Holds(d)
             PROVE  c = d
  BY DEF ExclusiveHolder
<1>1. Fenced(c) /\ Fenced(d) /\ Apart(c, d) /\ TypeOK /\ Shape
  BY DEF IInv, Fencing
<1>2. ASSUME NEW k \in Calls, Holds(k)
      PROVE  call[k].position = workflow.position
  <2>1. call[k].position \in Positions /\ step[call[k].position].status = "RUNNING"
    BY <1>1, <1>2 DEF Holds, HoldsClaim, HoldsAttempt, TypeOK, CallRows
  <2> QED BY <1>1, <2>1, RunningStep
<1>3. call[c].position = call[d].position
  BY <1>2
<1>4. ASSUME NEW k \in Calls, NEW l \in Calls, Fenced(k), Fenced(l),
             Under(k), HoldsClaim(k), HoldsAttempt(l),
             call[k].position = call[l].position
      PROVE  FALSE
  <2>1. NoAttemptRunning(call[k].position)
    BY <1>4 DEF Fenced, HoldsClaim
  <2>2. call[l].number \in 1 .. step[call[l].position].attempts
        /\ attempt[call[l].position][call[l].number] = "RUNNING"
    BY <1>4 DEF Fenced, HoldsAttempt
  <2>3. step[call[l].position].attempts \in 0 .. MaxStepAttempts
    BY <1>1 DEF TypeOK, CallRows, StepRows
  <2>4. call[l].number \in Numbers
    BY <2>2, <2>3, AttemptsAssumption DEF Numbers
  <2> QED BY <1>4, <2>1, <2>2, <2>4 DEF NoAttemptRunning
<1>5. CASE Under(c) /\ HoldsClaim(c) /\ Under(d) /\ HoldsClaim(d)
  BY <1>1, <1>3, <1>5 DEF HoldsClaim, Apart
<1>6. CASE HoldsAttempt(c) /\ HoldsAttempt(d)
  BY <1>1, <1>3, <1>6 DEF HoldsAttempt, Apart
<1> QED BY <1>1, <1>3, <1>4, <1>5, <1>6 DEF Holds, Under

\* However leases lapse, one call at most can change the step it claimed.
THEOREM LeaseIsExclusive == Spec => []ExclusiveHolder
BY Inductive, Exclusive, PTL
=============================================================================
