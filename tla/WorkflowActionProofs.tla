------------------------ MODULE WorkflowActionProofs ------------------------
(***************************************************************************)
(* What the steps of WorkflowExecution never do, the tokens they meter,    *)
(* and the promise to the author that they keep, from the inductive        *)
(* invariant of WorkflowSafetyProofs.                                      *)
(***************************************************************************)
EXTENDS WorkflowSafetyProofs, FiniteSetTheorems

\* The artifact of a step changes only when its attempt completes, which
\* complete_attempt refuses on any outline but the base.
LEMMA ArtifactStep ==
    ASSUME IInv, [Next]_vars, NEW q \in Positions,
           step'[q].artifact # step[q].artifact
    PROVE  outlineCurrent
<1>1. ASSUME NEW c \in Calls, RecordAttemptStart(c) PROVE FALSE
  <2>1. step' = [step EXCEPT ![call[c].position] = Started(step[call[c].position])]
    BY <1>1 DEF RecordAttemptStart
  <2>2. step \in [Positions -> StepRows]
    BY DEF IInv, TypeOK
  <2> QED BY <2>1, <2>2 DEF Started
<1>2. PICK c \in Calls : \E verdict \in Verdicts(call[c].position) :
         CompleteAttempt(c, verdict)
  BY <1>1, BookkeepingSteps
<1> QED BY <1>2 DEF CompleteAttempt, CanComplete

\* No artifact becomes active on an outline that is not the base.
THEOREM ArtifactsNeedCurrentOutline == Spec => NoArtifactOnStaleOutline
<1>1. IInv /\ [Next]_vars =>
         [\A p \in Positions :
             step'[p].artifact # step[p].artifact => outlineCurrent]_vars
  BY ArtifactStep
<1> QED BY <1>1, Inductive, PTL DEF Spec, NoArtifactOnStaleOutline

\* A call that no longer has a running attempt cannot complete or fail it:
\* what is left to it is FencedAfterCall, or to die.
LEMMA LateAnswerStep ==
    ASSUME IInv, [Next]_vars, NEW c \in Calls,
           call[c].pc = "calling", call'[c].pc = "idle",
           attempt[call[c].position][call[c].number] # "RUNNING"
    PROVE  UNCHANGED <<workflow, step, attempt, spent>>
<1>0. call \in [Calls -> CallRows]
  BY DEF IInv, TypeOK
<1>1. ~HoldsAttempt(c)
  BY DEF HoldsAttempt
<1>2. ASSUME NEW d \in Calls, CallEnds(d) PROVE d = c
  BY <1>0, <1>2 DEF CallEnds
<1>3. call' # call
  OBVIOUS
<1>a. ASSUME NEW d \in Calls, RecoverExpiredClaims(d) \/ PauseStaleWorkflow(d)
      PROVE  FALSE
  BY <1>3, <1>a DEF RecoverExpiredClaims, PauseStaleWorkflow
<1>b. ASSUME NEW d \in Calls, ReadClaim(d) PROVE FALSE
  BY <1>0, <1>b DEF ReadClaim
<1>c. ASSUME NEW d \in Calls, ClaimStep(d) PROVE FALSE
  <2>1. call'[d].pc # "idle" /\ call[d].pc = "claiming"
    BY <1>0, <1>c DEF ClaimStep
  <2>2. \A k \in Calls \ {d} : call'[k] = call[k]
    BY <1>0, <1>c DEF ClaimStep
  <2> QED BY <2>1, <2>2
<1>d. ASSUME NEW d \in Calls, RecordAttemptStart(d) PROVE FALSE
  <2>1. call'[d].pc # "idle"
    BY <1>0, <1>d DEF RecordAttemptStart
  <2>2. \A k \in Calls \ {d} : call'[k] = call[k]
    BY <1>0, <1>d DEF RecordAttemptStart
  <2> QED BY <2>1, <2>2
<1>e. ASSUME NEW d \in Calls,
             \/ PauseAttemptExhaustion(d)
             \/ \E target \in Resumable : PauseBeforeCall(d, target)
      PROVE  FALSE
  <2>1. call[d].pc = "claimed" /\ CallEnds(d)
    BY <1>e DEF PauseAttemptExhaustion, PauseBeforeCall, CanStart
  <2> QED BY <1>2, <2>1
<1>f. ASSUME NEW d \in Calls,
             \/ \E verdict \in Verdicts(call[d].position) :
                   CompleteAttempt(d, verdict)
             \/ PauseStaleCompletion(d)
             \/ \E retryable \in BOOLEAN : FailAttempt(d, retryable)
      PROVE  FALSE
  <2>1. HoldsAttempt(d) /\ CallEnds(d)
    BY <1>f DEF CompleteAttempt, CanComplete, PauseStaleCompletion, FailAttempt
  <2> QED BY <1>1, <1>2, <2>1
<1>g. ASSUME NEW d \in Calls,
             \/ LoseClaim(d) \/ RequestFails(d) \/ FencedBeforeCall(d)
             \/ FencedAfterCall(d) \/ LeaveCandidateStep(d) \/ AbandonCall(d)
      PROVE  UNCHANGED <<workflow, step, attempt, spent>>
  BY <1>g
     DEF LoseClaim, RequestFails, FencedBeforeCall, FencedAfterCall,
         LeaveCandidateStep, AbandonCall
<1>h. ASSUME \/ \E r \in Requests : ReadPlan(r) \/ ApprovePlan(r) \/ LosePlan(r)
             \/ LeaseLapses \/ RejectPlan \/ Resume \/ Cancel \/ ApproveOutline
             \/ LoseSource \/ UNCHANGED vars
      PROVE  FALSE
  BY <1>3, <1>h DEF LeaseLapses, ReadPlan, ApprovePlan, LosePlan, RejectPlan,
                    Resume, Cancel, ApproveOutline, LoseSource, vars
<1> QED
  BY <1>a, <1>b, <1>c, <1>d, <1>e, <1>f, <1>g, <1>h
     DEF Next, Advance, Claim, Work, Answer, Author

\* The answer of an attempt that was recovered meanwhile changes nothing.
THEOREM LateAnswersAreInert == Spec => LateAnswerChangesNothing
<1>1. IInv /\ [Next]_vars =>
         [\A c \in Calls :
            /\ call[c].pc = "calling" /\ call'[c].pc = "idle"
            /\ attempt[call[c].position][call[c].number] # "RUNNING"
            => UNCHANGED <<workflow, step, attempt, spent>>]_vars
  BY LateAnswerStep
<1> QED BY <1>1, Inductive, PTL DEF Spec, LateAnswerChangesNothing

-----------------------------------------------------------------------------
(* Versions. *)

\* Every transaction that writes a row gives the workflow a new revision; the
\* clock only touches the lease.
LEMMA VersionedStep ==
    ASSUME IInv, [Next]_vars
    PROVE  \/ workflow'.revision > workflow.revision
           \/ /\ workflow' = workflow
              /\ attempt' = attempt
              /\ \A p \in Positions : Durable(step'[p]) = Durable(step[p])
<1> DEFINE Versioned == workflow'.revision > workflow.revision
<1> DEFINE Quiet == UNCHANGED <<workflow, step, attempt>>
<1>0. /\ workflow.revision \in Nat /\ workflow.position \in Positions
      /\ step \in [Positions -> StepRows]
  BY DEF IInv, TypeOK, WorkflowRows
<1>1. ASSUME NEW status, NEW position, WorkflowBecomes(status, position)
      PROVE  Versioned
  BY <1>0, <1>1 DEF WorkflowBecomes
<1>a. ASSUME NEW c \in Calls,
             \/ RecoverExpiredClaims(c) \/ PauseStaleWorkflow(c) \/ ClaimStep(c)
             \/ RecordAttemptStart(c) \/ PauseAttemptExhaustion(c)
             \/ \E target \in Resumable : PauseBeforeCall(c, target)
             \/ \E verdict \in Verdicts(call[c].position) :
                   CompleteAttempt(c, verdict)
             \/ PauseStaleCompletion(c)
             \/ \E retryable \in BOOLEAN : FailAttempt(c, retryable)
      PROVE  Versioned
  <2>1. \E status, position : WorkflowBecomes(status, position)
    BY <1>a DEF RecoverExpiredClaims, PauseStaleWorkflow, ClaimStep,
                RecordAttemptStart, PauseAttemptExhaustion, PauseBeforeCall,
                CompleteAttempt, PauseStaleCompletion, FailAttempt
  <2> QED BY <1>1, <2>1
<1>b. ASSUME (\E r \in Requests : ApprovePlan(r)) \/ RejectPlan \/ Resume \/ Cancel
      PROVE  Versioned
  <2>1. \E status, position : WorkflowBecomes(status, position)
    BY <1>b DEF ApprovePlan, RejectPlan, Resume, Cancel
  <2> QED BY <1>1, <2>1
<1>c. ASSUME NEW c \in Calls,
             \/ ReadClaim(c) \/ LoseClaim(c) \/ RequestFails(c)
             \/ FencedBeforeCall(c) \/ FencedAfterCall(c)
             \/ LeaveCandidateStep(c) \/ AbandonCall(c)
      PROVE  Quiet
  BY <1>c
     DEF ReadClaim, LoseClaim, RequestFails, FencedBeforeCall, FencedAfterCall,
         LeaveCandidateStep, AbandonCall
<1>d. ASSUME \/ \E r \in Requests : ReadPlan(r) \/ LosePlan(r)
             \/ ApproveOutline \/ LoseSource \/ UNCHANGED vars
      PROVE Quiet
  BY <1>d DEF ReadPlan, LosePlan, ApproveOutline, LoseSource, vars
<1>e. ASSUME LeaseLapses
      PROVE  /\ UNCHANGED <<workflow, attempt>>
             /\ \A p \in Positions : Durable(step'[p]) = Durable(step[p])
  <2>1. /\ step' = [step EXCEPT ![workflow.position].lease = "lapsed"]
        /\ UNCHANGED <<workflow, attempt>>
    BY <1>e DEF LeaseLapses
  <2>2. \A p \in Positions :
           /\ step'[p].status = step[p].status
           /\ step'[p].attempts = step[p].attempts
           /\ step'[p].artifact = step[p].artifact
           /\ step'[p].revision = step[p].revision
    BY <1>0, <2>1 DEF StepRows
  <2> QED BY <2>1, <2>2 DEF Durable
<1> QED
  BY <1>a, <1>b, <1>c, <1>d, <1>e
     DEF Next, Advance, Claim, Work, Answer, Author

\* No write goes unversioned, so that a conditional UPDATE on the workflow's
\* revision fails whenever anything was written since the read.
THEOREM WritesAreVersioned == Spec => EveryWriteIsVersioned
<1>1. IInv /\ [Next]_vars =>
         [\/ workflow'.revision > workflow.revision
          \/ /\ workflow' = workflow
             /\ attempt' = attempt
             /\ \A p \in Positions : Durable(step'[p]) = Durable(step[p])]_vars
  BY VersionedStep
<1> QED BY <1>1, Inductive, PTL DEF Spec, EveryWriteIsVersioned

-----------------------------------------------------------------------------
(* Completed steps. *)

LEMMA CompletedStep ==
    ASSUME IInv, [Next]_vars, NEW q \in Positions, step[q].status = "COMPLETED"
    PROVE  step'[q] = step[q] /\ attempt'[q] = attempt[q]
<1> DEFINE p == workflow.position
<1> DEFINE Final == step'[q] = step[q] /\ attempt'[q] = attempt[q]
<1>0. /\ p \in Positions /\ Shape /\ TypeOK
      /\ step \in [Positions -> StepRows]
      /\ attempt \in [Positions -> [Numbers -> AttemptStates]]
      /\ \A c \in Calls : call[c].position \in Positions
  BY DEF IInv, TypeOK, WorkflowRows, CallRows
<1>1. ASSUME NEW r \in Positions, step[r].status # "COMPLETED",
             NEW row, step' = [step EXCEPT ![r] = row],
             attempt'[q] = attempt[q]
      PROVE  Final
  BY <1>0, <1>1
<1>2. ASSUME NEW c \in Calls, NEW result, step[call[c].position].status = "RUNNING",
             AttemptEnds(c, result)
      PROVE  attempt'[q] = attempt[q]
  BY <1>0, <1>2 DEF AttemptEnds
<1>a. ASSUME NEW c \in Calls, RecoverExpiredClaims(c) PROVE Final
  <2>1. step'[q] = step[q]
    BY <1>a DEF RecoverExpiredClaims, Lapsed
  <2>2. attempt'[q] = [n \in Numbers |-> attempt[q][n]]
    BY <1>a DEF RecoverExpiredClaims, RecoveredAttempts, Lapsed
  <2> QED BY <1>0, <2>1, <2>2
<1>b. ASSUME NEW c \in Calls, PauseStaleWorkflow(c) PROVE Final
  <2>1. /\ step[p].status # "COMPLETED" /\ UNCHANGED attempt
        /\ step' = [step EXCEPT ![p] = Released(step[p], "PAUSED")]
    BY <1>b DEF PauseStaleWorkflow, StepBecomes
  <2> QED BY <1>0, <1>1, <2>1
<1>c. ASSUME NEW c \in Calls, ClaimStep(c) PROVE Final
  <2> DEFINE r == call[c].position
  <2>1. /\ step[r].status # "COMPLETED" /\ UNCHANGED attempt
        /\ step' = [step EXCEPT ![r] = Claimed(step[r])]
    BY <1>c DEF ClaimStep, ClaimStands, Claimable
  <2> QED BY <1>0, <1>1, <2>1
<1>d. ASSUME NEW c \in Calls, RecordAttemptStart(c) PROVE Final
  <2> DEFINE r == call[c].position
  <2>1. /\ step[r].status # "COMPLETED"
        /\ attempt' = [attempt EXCEPT ![r][step[r].attempts + 1] = "RUNNING"]
        /\ step' = [step EXCEPT ![r] = Started(step[r])]
    BY <1>d DEF RecordAttemptStart, CanStart, HoldsClaim
  <2>2. attempt'[q] = attempt[q]
    BY <1>0, <2>1
  <2> QED BY <1>0, <1>1, <2>1, <2>2
<1>e. ASSUME NEW c \in Calls,
             \/ PauseAttemptExhaustion(c)
             \/ \E target \in Resumable : PauseBeforeCall(c, target)
      PROVE  Final
  <2> DEFINE r == call[c].position
  <2>1. /\ step[r].status # "COMPLETED" /\ UNCHANGED attempt
        /\ step' = [step EXCEPT ![r] = Released(step[r], "PAUSED")]
    BY <1>e DEF PauseAttemptExhaustion, PauseBeforeCall, CanStart, HoldsClaim,
                StepBecomes
  <2> QED BY <1>0, <1>1, <2>1
<1>f. ASSUME NEW c \in Calls,
             \/ \E verdict \in Verdicts(call[c].position) :
                   CompleteAttempt(c, verdict)
             \/ PauseStaleCompletion(c)
             \/ \E retryable \in BOOLEAN : FailAttempt(c, retryable)
      PROVE  Final
  <2> DEFINE r == call[c].position
  <2>1. /\ step[r].status = "RUNNING"
        /\ \E result : AttemptEnds(c, result)
        /\ \E row : step' = [step EXCEPT ![r] = row]
    BY <1>f DEF CompleteAttempt, CanComplete, PauseStaleCompletion, FailAttempt,
                HoldsAttempt, StepBecomes
  <2>2. attempt'[q] = attempt[q]
    BY <1>2, <2>1
  <2> QED BY <1>0, <1>1, <2>1, <2>2
<1>g. ASSUME LeaseLapses PROVE Final
  <2>1. /\ step[p].lease = "live" /\ UNCHANGED attempt
        /\ step' = [step EXCEPT ![p].lease = "lapsed"]
    BY <1>g DEF LeaseLapses
  <2>2. q # p
    BY <1>0, <2>1 DEF Shape, RowFacts
  <2> QED BY <1>0, <2>1, <2>2
<1>h. ASSUME NEW r \in Requests, ApprovePlan(r) PROVE Final
  <2>1. workflow.status = "AWAITING_PLAN_APPROVAL"
    BY <1>0, <1>h DEF ApprovePlan, Shape, RowFacts
  <2>2. p = 0
    BY <1>0, <2>1 DEF Shape, NeverStranded
  <2>3. q = 0
    <3> SUFFICES ASSUME q # 0 PROVE FALSE
      OBVIOUS
    <3>2. q > p
      BY <2>2, PositionFacts
    <3>3. step[q] \in {AbsentStep, NewStep}
      BY <1>0, <3>2 DEF Shape, SequentialProgress
    <3> QED BY <3>3 DEF AbsentStep, NewStep
  <2> QED BY <1>h, <2>3 DEF ApprovePlan
<1>i. ASSUME Resume PROVE Final
  <2>1. /\ step[p].status # "COMPLETED" /\ UNCHANGED attempt
        /\ step' = [step EXCEPT ![p] = Released(step[p], "PENDING")]
    BY <1>i DEF Resume, StepBecomes
  <2> QED BY <1>0, <1>1, <2>1
<1>j. ASSUME NEW c \in Calls,
             \/ ReadClaim(c) \/ LoseClaim(c) \/ RequestFails(c)
             \/ FencedBeforeCall(c) \/ FencedAfterCall(c)
             \/ LeaveCandidateStep(c) \/ AbandonCall(c)
      PROVE  Final
  BY <1>j
     DEF ReadClaim, LoseClaim, RequestFails, FencedBeforeCall, FencedAfterCall,
         LeaveCandidateStep, AbandonCall
<1>k. ASSUME \/ \E r \in Requests : ReadPlan(r) \/ LosePlan(r)
             \/ RejectPlan \/ Cancel \/ ApproveOutline \/ LoseSource
             \/ UNCHANGED vars
      PROVE  Final
  BY <1>k
     DEF ReadPlan, LosePlan, RejectPlan, Cancel, ApproveOutline, LoseSource, vars
<1> QED
  BY <1>a, <1>b, <1>c, <1>d, <1>e, <1>f, <1>g, <1>h, <1>i, <1>j, <1>k
     DEF Next, Advance, Claim, Work, Answer, Author

\* A completed step is never run again, and its attempts never change.
THEOREM CompletedStepsAreFinal == Spec => CompletedIsFinal
<1>1. IInv /\ [Next]_vars =>
         [\A p \in Positions : step[p].status = "COMPLETED" =>
             step'[p] = step[p] /\ attempt'[p] = attempt[p]]_vars
  BY CompletedStep
<1> QED BY <1>1, Inductive, PTL DEF Spec, CompletedIsFinal

-----------------------------------------------------------------------------
(* The transition table. *)

\* The entries of the table that the actions use.
LEMMA Entries ==
    LET A == AllowedTransitions
        running == {"PLANNING", "GENERATING_CHAPTERS", "REVIEWING_BATCH"} IN
    /\ \A s \in Executable : s \in A[s] /\ "PAUSED_STALE_VERSION" \in A[s]
    /\ \A s \in running : Resumable \subseteq A[s] /\ "PAUSED_ATTEMPTS" \in A[s]
    /\ "AWAITING_PLAN_APPROVAL" \in A["PLANNING"]
    /\ {"GENERATING_CHAPTERS", "REJECTED"} \subseteq A["AWAITING_PLAN_APPROVAL"]
    /\ "REVIEWING_BATCH" \in A["GENERATING_CHAPTERS"]
    /\ {"CREATING_CANDIDATE_BATCH", "PAUSED_REVIEW"} \subseteq A["REVIEWING_BATCH"]
    /\ \A s \in Resumable : running \subseteq A[s]
    /\ \A s \in Paused : "CANCELLED" \in A[s]
BY DEF AllowedTransitions, Statuses, Executable, Paused, Resumable, Terminal

\* Every status but the candidate step's belongs to an agent's step.
LEMMA AgentStatus ==
    ASSUME NEW p \in Positions
    PROVE  /\ p # Candidate => StatusFor(p) \in
                {"PLANNING", "GENERATING_CHAPTERS", "REVIEWING_BATCH"}
           /\ p = 0 => StatusFor(p) = "PLANNING"
           /\ p = Reviewing => StatusFor(p) = "REVIEWING_BATCH"
           /\ p = Candidate => StatusFor(p) = "CREATING_CANDIDATE_BATCH"
           /\ p \notin {0, Reviewing, Candidate} => StatusFor(p) = "GENERATING_CHAPTERS"
<1>1. 0 # Reviewing /\ 0 # Candidate /\ Reviewing # Candidate
  BY ChaptersAssumption DEF Reviewing, Candidate
<1> QED BY <1>1 DEF StatusFor

LEMMA TransitionStep ==
    ASSUME IInv, [Next]_vars, workflow' # workflow
    PROVE  workflow'.status \in AllowedTransitions[workflow.status]
<1> DEFINE p == workflow.position
<1> DEFINE Allowed == workflow'.status \in AllowedTransitions[workflow.status]
<1>0. /\ p \in Positions /\ Shape /\ TypeOK /\ Fencing
      /\ \A c \in Calls : call[c].position \in Positions
  BY DEF IInv, TypeOK, WorkflowRows, CallRows
<1> USE Entries
<1>1. ASSUME NEW status, NEW position, WorkflowBecomes(status, position)
      PROVE  workflow'.status = status
  BY <1>1 DEF WorkflowBecomes
<1>2. ASSUME NEW c \in Calls, step[call[c].position].status = "RUNNING"
      PROVE  /\ call[c].position = p
             /\ workflow.status \in Executable /\ workflow.status = StatusFor(p)
  BY <1>0, <1>2, RunningStep
<1>3. ASSUME NEW c \in Calls, call[c].pc \in {"claimed", "calling"}
      PROVE  call[c].position # Candidate
  BY <1>0, <1>3 DEF Fencing, Fenced
<1>a. ASSUME NEW c \in Calls, RecoverExpiredClaims(c) PROVE Allowed
  BY <1>1, <1>a DEF RecoverExpiredClaims
<1>b. ASSUME NEW c \in Calls, PauseStaleWorkflow(c) PROVE Allowed
  BY <1>1, <1>b DEF PauseStaleWorkflow
<1>c. ASSUME NEW c \in Calls, ClaimStep(c) PROVE Allowed
  <2>1. workflow.status \in Executable
    BY <1>0, <1>c DEF ClaimStep, ClaimStands, Fencing, Fenced
  <2> QED BY <1>1, <1>c, <2>1 DEF ClaimStep
<1>d. ASSUME NEW c \in Calls, RecordAttemptStart(c) PROVE Allowed
  <2>1. workflow.status \in Executable
    BY <1>2, <1>d DEF RecordAttemptStart, CanStart, HoldsClaim
  <2> QED BY <1>1, <1>d, <2>1 DEF RecordAttemptStart
<1>e. ASSUME NEW c \in Calls, PauseAttemptExhaustion(c) PROVE Allowed
  <2>1. call[c].pc = "claimed" /\ step[call[c].position].status = "RUNNING"
    BY <1>e DEF PauseAttemptExhaustion, HoldsClaim
  <2>2. p # Candidate /\ workflow.status = StatusFor(p)
    BY <1>2, <1>3, <2>1
  <2> QED BY <1>0, <1>1, <1>e, <2>2, AgentStatus DEF PauseAttemptExhaustion
<1>f. ASSUME NEW c \in Calls, NEW target \in Resumable,
             PauseBeforeCall(c, target)
      PROVE  Allowed
  <2>1. p # Candidate /\ workflow.status = StatusFor(p)
    BY <1>2, <1>f DEF PauseBeforeCall, CanStart, HoldsClaim
  <2> QED BY <1>0, <1>1, <1>f, <2>1, AgentStatus DEF PauseBeforeCall
<1>g. ASSUME NEW c \in Calls, NEW verdict \in Verdicts(call[c].position),
             CompleteAttempt(c, verdict)
      PROVE  Allowed
  <2> DEFINE n == call[c].number
  <2> DEFINE t == CompletionTransition(p, n, verdict)
  <2>1. /\ call[c].position = p /\ p # Candidate
        /\ workflow.status = StatusFor(p) /\ workflow.status \in Executable
    BY <1>2, <1>g DEF CompleteAttempt, CanComplete, HoldsAttempt
  <2>2. workflow'.status = t.status
    BY <1>g, <2>1 DEF CompleteAttempt, WorkflowBecomes
  <2>3. CASE verdict = "evidence" /\ n = 1
    BY <2>1, <2>2, <2>3 DEF CompletionTransition
  <2>4. CASE verdict = "blocked" \/ (verdict = "evidence" /\ n # 1)
    <3>1. p = Reviewing
      BY <1>g, <2>1, <2>4 DEF Verdicts
    <3>2. workflow.status = "REVIEWING_BATCH"
      BY <1>0, <2>1, <3>1, AgentStatus
    <3> QED BY <2>2, <2>4, <3>2 DEF CompletionTransition
  <2>5. CASE verdict = "accepted" /\ p = 0
    <3>1. workflow.status = "PLANNING"
      BY <1>0, <2>1, <2>5, AgentStatus
    <3> QED BY <2>2, <2>5, <3>1 DEF CompletionTransition
  <2>6. CASE verdict = "accepted" /\ p # 0
    <3>1. workflow'.status = StatusFor(p + 1) /\ p + 1 \in Positions
      BY <1>0, <2>1, <2>2, <2>6, PositionFacts DEF CompletionTransition
    <3>2. CASE p = Reviewing
      <4>1. p + 1 = Candidate
        BY <3>2, ChaptersAssumption DEF Reviewing, Candidate
      <4> QED BY <1>0, <2>1, <3>1, <3>2, <4>1, AgentStatus
    <3>3. CASE p # Reviewing
      <4>1. p + 1 # 0 /\ p + 1 # Candidate
        <5>1. p \in Nat
          BY <1>0, PositionFacts
        <5>2. p # 2 * Chapters + 1
          BY <3>3 DEF Reviewing
        <5> QED BY <5>1, <5>2, ChaptersAssumption DEF Candidate
      <4>2. workflow.status = "GENERATING_CHAPTERS"
        BY <1>0, <2>1, <2>6, <3>3, AgentStatus
      <4>3. "GENERATING_CHAPTERS" \in Executable
        BY DEF Executable
      <4>4. StatusFor(p + 1) \in {"GENERATING_CHAPTERS", "REVIEWING_BATCH"}
        BY <3>1, <4>1, AgentStatus
      <4> QED BY <3>1, <4>2, <4>3, <4>4
    <3> QED BY <3>2, <3>3
  <2>7. verdict \in {"accepted", "blocked", "evidence"}
    BY <1>g DEF Verdicts
  <2> QED BY <2>3, <2>4, <2>5, <2>6, <2>7
<1>h. ASSUME NEW c \in Calls, PauseStaleCompletion(c) PROVE Allowed
  <2>1. workflow.status \in Executable
    BY <1>2, <1>h DEF PauseStaleCompletion, HoldsAttempt
  <2> QED BY <1>1, <1>h, <2>1 DEF PauseStaleCompletion
<1>i. ASSUME NEW c \in Calls, NEW retryable \in BOOLEAN,
             FailAttempt(c, retryable)
      PROVE  Allowed
  <2>1. call[c].pc = "calling" /\ step[call[c].position].status = "RUNNING"
    BY <1>i DEF FailAttempt, HoldsAttempt
  <2>2. p # Candidate /\ workflow.status = StatusFor(p)
        /\ workflow.status \in Executable
    BY <1>2, <1>3, <2>1
  <2>3. workflow'.status \in {workflow.status, "PAUSED_ATTEMPTS", "PAUSED_PROVIDER"}
    BY <1>i DEF FailAttempt, WorkflowBecomes
  <2>4. "PAUSED_PROVIDER" \in Resumable
    BY DEF Resumable
  <2> QED BY <1>0, <2>2, <2>3, <2>4, AgentStatus
<1>j. ASSUME NEW r \in Requests, ApprovePlan(r) PROVE Allowed
  <2>1. workflow.status = "AWAITING_PLAN_APPROVAL"
    BY <1>0, <1>j DEF ApprovePlan, Shape, RowFacts
  <2> QED BY <1>1, <1>j, <2>1 DEF ApprovePlan
<1>k. ASSUME RejectPlan PROVE Allowed
  BY <1>1, <1>k DEF RejectPlan
<1>l. ASSUME Resume PROVE Allowed
  <2>1. p # Candidate
    BY <1>0, <1>l DEF Resume, Shape, RowFacts
  <2> QED BY <1>0, <1>1, <1>l, <2>1, AgentStatus DEF Resume
<1>m. ASSUME Cancel PROVE Allowed
  BY <1>1, <1>m DEF Cancel
<1>n. ASSUME NEW c \in Calls,
             \/ ReadClaim(c) \/ LoseClaim(c) \/ RequestFails(c)
             \/ FencedBeforeCall(c) \/ FencedAfterCall(c)
             \/ LeaveCandidateStep(c) \/ AbandonCall(c)
      PROVE  FALSE
  BY <1>n
     DEF ReadClaim, LoseClaim, RequestFails, FencedBeforeCall, FencedAfterCall,
         LeaveCandidateStep, AbandonCall
<1>o. ASSUME \/ \E r \in Requests : ReadPlan(r) \/ LosePlan(r)
             \/ LeaseLapses \/ ApproveOutline \/ LoseSource \/ UNCHANGED vars
      PROVE  FALSE
  BY <1>o DEF LeaseLapses, ReadPlan, LosePlan, ApproveOutline, LoseSource, vars
<1> QED
  BY <1>a, <1>b, <1>c, <1>d, <1>e, <1>f, <1>g, <1>h, <1>i, <1>j, <1>k, <1>l,
     <1>m, <1>n, <1>o
     DEF Next, Advance, Claim, Work, Answer, Author

\* No handler makes a transition that _ALLOWED_WORKFLOW_TRANSITIONS forbids.
THEOREM TransitionsAreAllowed == Spec => TransitionsAllowed
<1>1. IInv /\ [Next]_vars =>
         [workflow' # workflow =>
             workflow'.status \in AllowedTransitions[workflow.status]]_vars
  BY TransitionStep
<1> QED BY <1>1, Inductive, PTL DEF Spec, TransitionsAllowed

-----------------------------------------------------------------------------
(* The promise to the author: every step decides the plan, starts the       *)
(* writing, releases the project, or changes nothing the author was         *)
(* promised.                                                               *)

\* What the author sees stays as it is.
Unseen == UNCHANGED <<decision, Writing, owned>>

LEMMA UnseenStutters == Unseen => UNCHANGED Gates!vars
BY DEF Unseen, Gates!vars

\* No step but the start of an attempt asks a model to write.
LEMMA WritingKept ==
    ASSUME IInv, [Next]_vars, \A c \in Calls : ~RecordAttemptStart(c)
    PROVE  Writing' = Writing
<1>1. /\ step \in [Positions -> StepRows]
      /\ \A c \in Calls : call[c].position \in Positions
  BY DEF IInv, TypeOK, CallRows
<1>2. ASSUME NEW c \in Calls, NEW verdict \in Verdicts(call[c].position),
             CompleteAttempt(c, verdict)
      PROVE  \A q \in Positions : step'[q].attempts = step[q].attempts
  BY <1>1, <1>2 DEF CompleteAttempt, Finished
<1>3. \A q \in Positions : step'[q].attempts = step[q].attempts
  BY <1>2, BookkeepingSteps
<1> QED BY <1>3 DEF Writing

\* The start of an attempt on a chapter comes after the approval of the plan,
\* in a workflow that holds its project.
LEMMA StartStep ==
    ASSUME IInv, NEW c \in Calls, RecordAttemptStart(c)
    PROVE  Gates!StartWriting \/ Unseen
<1> DEFINE p == call[c].position
<1>1. /\ p \in Positions /\ step[p].status = "RUNNING" /\ TypeOK /\ Shape
      /\ step \in [Positions -> StepRows]
  BY DEF IInv, TypeOK, CallRows, RecordAttemptStart, CanStart, HoldsClaim
<1>2. p = workflow.position /\ workflow.status \in Executable
  BY <1>1, RunningStep
<1>3. owned
  BY <1>2 DEF IInv, Shape, OwnedUntilTerminal, Executable, Terminal
<1>4. /\ step' = [step EXCEPT ![p] = Started(step[p])]
      /\ UNCHANGED <<decision, owned>>
  BY DEF RecordAttemptStart
<1>5. CASE p = 0 \/ Writing
  <2>1. \A q \in Positions \ {p} : step'[q].attempts = step[q].attempts
    BY <1>1, <1>4
  <2>2. step'[p].attempts = step[p].attempts + 1 /\ step[p].attempts \in Nat
    BY <1>1, <1>4, AttemptsAssumption DEF Started, StepRows
  <2>3. step'[p].attempts # 0
    BY <2>2
  <2>4. Writing' <=> Writing
    BY <1>1, <1>5, <2>1, <2>3 DEF Writing
  <2>5. Writing' \in BOOLEAN /\ Writing \in BOOLEAN
    BY DEF Writing
  <2> QED BY <1>4, <2>4, <2>5 DEF Unseen
<1>6. CASE p # 0 /\ ~Writing
  <2>1. decision = "approved"
    BY <1>1, <1>2, <1>6 DEF Shape, RowFacts
  <2>2. step'[p].attempts = step[p].attempts + 1 /\ step[p].attempts \in Nat
    BY <1>1, <1>4, AttemptsAssumption DEF Started, StepRows
  <2>3. step'[p].attempts # 0
    BY <2>2
  <2>4. Writing' = TRUE
    BY <1>1, <1>6, <2>3 DEF Writing
  <2> QED BY <1>3, <1>4, <1>6, <2>1, <2>4 DEF Gates!StartWriting
<1> QED BY <1>5, <1>6

LEMMA GatesStep == IInv /\ [Next]_vars => [Gates!Next]_(Gates!vars)
<1> SUFFICES ASSUME IInv, [Next]_vars
             PROVE  Gates!Next \/ Unseen
  BY UnseenStutters
<1>1. CASE \E c \in Calls : RecordAttemptStart(c)
  BY <1>1, StartStep DEF Gates!Next
<1>2. CASE \A c \in Calls : ~RecordAttemptStart(c)
  <2>0. Writing' = Writing
    BY <1>2, WritingKept
  <2>1. ASSUME workflow.status = "AWAITING_PLAN_APPROVAL"
        PROVE  owned /\ decision = "none"
    <3>1. workflow.position = 0 /\ owned
      BY <2>1 DEF IInv, Shape, NeverStranded, OwnedUntilTerminal, Terminal
    <3>2. decision # "approved" /\ decision # "rejected"
      BY <2>1, <3>1 DEF IInv, Shape, RowFacts, AuthorGate
    <3> QED BY <3>1, <3>2 DEF IInv, TypeOK
  <2>2. CASE \E r \in Requests : ApprovePlan(r)
    <3>1. workflow.status = "AWAITING_PLAN_APPROVAL"
      BY <2>2 DEF ApprovePlan, IInv, Shape, RowFacts
    <3> QED BY <2>0, <2>1, <2>2, <3>1 DEF ApprovePlan, Gates!Next, Gates!DecidePlan
  <2>3. CASE RejectPlan
    BY <2>0, <2>1, <2>3 DEF RejectPlan, Gates!Next, Gates!DecidePlan
  <2>4. CASE Cancel
    BY <2>0, <2>4 DEF Cancel, Gates!Next, Gates!Release
  <2>5. CASE UNCHANGED <<decision, owned>>
    BY <2>0, <2>5 DEF Unseen
  <2>6. ASSUME \A r \in Requests : ~ApprovePlan(r), ~RejectPlan, ~Cancel
        PROVE  UNCHANGED <<decision, owned>>
    BY <1>2, <2>6
       DEF Next, Advance, Claim, Work, Answer, Author, vars,
           RecoverExpiredClaims, PauseStaleWorkflow, ReadClaim, ClaimStep,
           LoseClaim, PauseAttemptExhaustion, PauseBeforeCall,
           RequestFails, FencedBeforeCall, CompleteAttempt, PauseStaleCompletion,
           FailAttempt, FencedAfterCall, LeaveCandidateStep, AbandonCall,
           LeaseLapses, ReadPlan, LosePlan, Resume, ApproveOutline, LoseSource
  <2> QED BY <2>2, <2>3, <2>4, <2>5, <2>6
<1> QED BY <1>1, <1>2

LEMMA GatesInitial == Init => Gates!AtStart
<1> SUFFICES ASSUME Init PROVE Gates!AtStart
  OBVIOUS
<1>1. \A p \in Positions : step[p].attempts = 0
  BY DEF Init, NewStep, AbsentStep
<1>2. Writing = FALSE
  BY <1>1 DEF Writing
<1> QED BY <1>2 DEF Init, Gates!AtStart

\* The promise made to the author is kept up to the candidate step.
THEOREM GatesAreKept == Spec => ImplementsAuthorGates
BY GatesInitial, GatesStep, Inductive, PTL
   DEF Spec, ImplementsAuthorGates, Gates!FromStart

-----------------------------------------------------------------------------
(* The token ledger. *)

Metered == {"COMPLETED", "STALE"}
Answered == {pn \in Positions \X Numbers : attempt[pn[1]][pn[2]] \in Metered}

LEMMA AnsweredIsFinite == IsFiniteSet(Answered)
<1>1. IsFiniteSet(Positions) /\ IsFiniteSet(Numbers)
  BY FS_Interval, PositionFacts, AttemptsAssumption DEF Positions, Numbers
<1>2. IsFiniteSet(Positions \X Numbers)
  BY <1>1, FS_Product
<1> QED BY <1>2, FS_Subset DEF Answered

\* An attempt is answered or not as before.
SameAnswers ==
    \A p \in Positions, n \in Numbers :
        attempt'[p][n] \in Metered <=> attempt[p][n] \in Metered

\* One RUNNING attempt is answered.
OneAnswer(p, n) ==
    /\ attempt[p][n] = "RUNNING" /\ attempt'[p][n] \in Metered
    /\ \A q \in Positions, m \in Numbers :
          <<q, m>> # <<p, n>> => attempt'[q][m] = attempt[q][m]

\* The end of an attempt with a result.
LEMMA AttemptEndsRow ==
    ASSUME IInv, NEW c \in Calls, HoldsAttempt(c), NEW result \in AttemptStates,
           AttemptEnds(c, result)
    PROVE  LET p == call[c].position
               n == call[c].number
           IN  /\ p \in Positions /\ n \in Numbers
               /\ attempt[p][n] = "RUNNING" /\ attempt'[p][n] = result
               /\ \A q \in Positions, m \in Numbers :
                     <<q, m>> # <<p, n>> => attempt'[q][m] = attempt[q][m]
<1> DEFINE p == call[c].position
           n == call[c].number
<1>1. /\ p \in Positions /\ n \in 0 .. MaxStepAttempts
      /\ attempt \in [Positions -> [Numbers -> AttemptStates]]
      /\ attempt[p][n] = "RUNNING" /\ n = step[p].attempts
      /\ step[p].status = "RUNNING"
  BY DEF IInv, TypeOK, CallRows, HoldsAttempt
<1>2. n \in Numbers
  <2>1. n \in 1 .. step[p].attempts
    BY <1>1 DEF HoldsAttempt, IInv, Fencing, Fenced
  <2>2. step[p].attempts \in 0 .. MaxStepAttempts
    BY <1>1 DEF IInv, TypeOK, StepRows
  <2> QED BY <2>1, <2>2, AttemptsAssumption DEF Numbers
<1>3. attempt' = [attempt EXCEPT ![p][n] = result]
  BY DEF AttemptEnds
<1> QED BY <1>1, <1>2, <1>3

\* Where no attempt is answered, no token is metered.
LEMMA NothingAnswered ==
    ASSUME TokenLedger, SameAnswers, spent' = spent
    PROVE  TokenLedger'
<1>1. Answered' = Answered
  BY DEF Answered, SameAnswers
<1> QED BY <1>1 DEF TokenLedger, Answered, Metered

\* Where one attempt is answered, its answer is metered.
LEMMA OneMoreAnswered ==
    ASSUME TokenLedger, NEW p \in Positions, NEW n \in Numbers, OneAnswer(p, n), Meter
    PROVE  TokenLedger'
<1>1. Answered' = Answered \cup {<<p, n>>}
  <2>1. ASSUME NEW q \in Positions, NEW m \in Numbers
        PROVE  attempt'[q][m] \in Metered <=> (attempt[q][m] \in Metered
                                                \/ <<q, m>> = <<p, n>>)
    BY DEF OneAnswer, Metered
  <2>2. \A pn \in Positions \X Numbers : pn = <<pn[1], pn[2]>>
    OBVIOUS
  <2> QED BY <2>1, <2>2 DEF Answered
<1>2. <<p, n>> \notin Answered
  BY DEF Answered, OneAnswer, Metered
<1>3. Cardinality(Answered') = Cardinality(Answered) + 1
  BY <1>1, <1>2, AnsweredIsFinite, FS_AddElement
<1> QED BY <1>3 DEF TokenLedger, Answered, Metered, Meter

LEMMA LedgerStep == IInv /\ TokenLedger /\ [Next]_vars => TokenLedger'
<1> SUFFICES ASSUME IInv, TokenLedger, [Next]_vars PROVE TokenLedger'
  OBVIOUS
<1>0. attempt \in [Positions -> [Numbers -> AttemptStates]]
  BY DEF IInv, TypeOK
<1>1. ASSUME NEW c \in Calls, RecoverExpiredClaims(c) PROVE TokenLedger'
  <2>1. attempt' = RecoveredAttempts /\ spent' = spent
    BY <1>1 DEF RecoverExpiredClaims
  <2>2. SameAnswers
    BY <2>1 DEF RecoveredAttempts, SameAnswers, Metered
  <2> QED BY <2>1, <2>2, NothingAnswered
<1>2. ASSUME NEW c \in Calls, RecordAttemptStart(c) PROVE TokenLedger'
  <2> DEFINE p == call[c].position
             n == step[p].attempts + 1
  <2>1. /\ attempt' = [attempt EXCEPT ![p][n] = "RUNNING"] /\ spent' = spent
        /\ step[p].attempts < MaxStepAttempts /\ p = workflow.position
    BY <1>2 DEF RecordAttemptStart, CanStart
  <2>2. p \in Positions /\ step[p].attempts \in Nat
    BY <2>1 DEF IInv, TypeOK, WorkflowRows, StepRows
  <2>3. n \in Numbers
    BY <2>1, <2>2, AttemptsAssumption DEF Numbers
  <2>4. attempt[p][n] = "ABSENT"
    <3>1. attempt[p][n] # "ABSENT" <=> n <= step[p].attempts
      BY <2>2, <2>3 DEF IInv, Attempts, AttemptHistory
    <3> QED BY <2>2, <3>1
  <2>5. SameAnswers
    <3> HIDE DEF n, p
    <3> SUFFICES ASSUME NEW q \in Positions, NEW m \in Numbers
                 PROVE  attempt'[q][m] \in Metered <=> attempt[q][m] \in Metered
      BY DEF SameAnswers
    <3>1. attempt'[q][m] = IF q = p /\ m = n THEN "RUNNING" ELSE attempt[q][m]
      BY <1>0, <2>1, <2>2, <2>3
    <3> QED BY <2>4, <3>1 DEF Metered
  <2> QED BY <2>1, <2>5, NothingAnswered
<1>3. ASSUME NEW c \in Calls, NEW verdict \in Verdicts(call[c].position),
             CompleteAttempt(c, verdict)
      PROVE  TokenLedger'
  <2>1. HoldsAttempt(c) /\ AttemptEnds(c, "COMPLETED") /\ Meter
    BY <1>3 DEF CompleteAttempt, CanComplete
  <2>2. /\ call[c].position \in Positions /\ call[c].number \in Numbers
        /\ OneAnswer(call[c].position, call[c].number)
    BY <2>1, AttemptEndsRow DEF AttemptStates, OneAnswer, Metered
  <2> QED BY <2>1, <2>2, OneMoreAnswered
<1>4. ASSUME NEW c \in Calls, PauseStaleCompletion(c) PROVE TokenLedger'
  <2>1. HoldsAttempt(c) /\ AttemptEnds(c, "STALE") /\ Meter
    BY <1>4 DEF PauseStaleCompletion
  <2>2. /\ call[c].position \in Positions /\ call[c].number \in Numbers
        /\ OneAnswer(call[c].position, call[c].number)
    BY <2>1, AttemptEndsRow DEF AttemptStates, OneAnswer, Metered
  <2> QED BY <2>1, <2>2, OneMoreAnswered
<1>5. ASSUME NEW c \in Calls, NEW retryable \in BOOLEAN, FailAttempt(c, retryable)
      PROVE  TokenLedger'
  <2>1. HoldsAttempt(c) /\ AttemptEnds(c, "FAILED") /\ spent' = spent
    BY <1>5 DEF FailAttempt
  <2> DEFINE p == call[c].position
             n == call[c].number
  <2>2. /\ p \in Positions /\ n \in Numbers
        /\ attempt[p][n] = "RUNNING" /\ attempt'[p][n] = "FAILED"
        /\ \A q \in Positions, m \in Numbers :
              <<q, m>> # <<p, n>> => attempt'[q][m] = attempt[q][m]
    BY <2>1, AttemptEndsRow DEF AttemptStates
  <2> HIDE DEF n, p
  <2>3. SameAnswers
    BY <2>2 DEF SameAnswers, Metered
  <2> QED BY <2>1, <2>3, NothingAnswered
<1>6. CASE UNCHANGED <<attempt, spent>>
  BY <1>6, NothingAnswered DEF SameAnswers
<1> QED
  BY <1>1, <1>2, <1>3, <1>4, <1>5, <1>6
     DEF Next, Advance, Claim, Work, Answer, Author, vars,
         PauseStaleWorkflow, ReadClaim, ClaimStep, LoseClaim,
         PauseAttemptExhaustion, PauseBeforeCall, RequestFails, FencedBeforeCall,
         FencedAfterCall, LeaveCandidateStep, AbandonCall, LeaseLapses,
         ReadPlan, ApprovePlan, LosePlan, RejectPlan, Resume, Cancel,
         ApproveOutline, LoseSource

LEMMA LedgerInitial == Init => TokenLedger
<1> SUFFICES ASSUME Init PROVE TokenLedger
  OBVIOUS
<1>1. Answered = {}
  BY DEF Init, Answered, Metered
<1> QED BY <1>1, FS_EmptySet DEF Init, TokenLedger, Answered, Metered

\* Through retries, recoveries, late answers and resumptions, an attempt that
\* recorded its response, accepted or on an outline replaced meanwhile, is
\* metered exactly once, and no other attempt is: an answer that comes after
\* the recovery of its attempt or after a stale pause of its step, or that is
\* not valid, is dropped with its tokens (services/workflows.py:
\* complete_attempt, _pause_stale_attempt_completion, fail_attempt).
THEOREM TokensAreCounted == Spec => []TokenLedger
BY LedgerInitial, LedgerStep, Inductive, PTL DEF Spec
=============================================================================
