-------------------------- MODULE WorkflowExecution --------------------------
(***************************************************************************)
(* One generation workflow, from the commit of WorkflowService.start to    *)
(* the claim of its CREATING_CANDIDATE_BATCH step: the workflow row, its   *)
(* step rows with their leases, the model attempts, the calls of           *)
(* WorkflowOrchestrator.advance that run concurrently on it, the author's  *)
(* decisions, and the approval of a new official outline meanwhile.        *)
(*                                                                         *)
(* A service method reads in autocommit mode and then makes one write      *)
(* transaction of conditional UPDATEs.  Where the conditions of that write *)
(* cover everything that was read, the method is one action; claim_step    *)
(* and approve_plan check facts that their writes do not re-check, so they *)
(* are a reading action and a committing action.                           *)
(***************************************************************************)
EXTENDS Naturals, FiniteSets

CONSTANTS
    Calls,              \* calls of advance that may be in progress at once
    Requests,           \* approve_plan requests that may be in progress at once
    Chapters,           \* requested_chapters
    MaxStepAttempts,    \* MAX_STEP_ATTEMPTS
    MaxDisruptions,     \* bounds: calls that die outside an attempt, leases
                        \* lapsing under a live call, and resumptions;
    MaxRevision         \* the revision from which every request can be built

ASSUME ChaptersAssumption == Chapters \in Nat \ {0}
ASSUME AttemptsAssumption == MaxStepAttempts \in Nat \ {0}
ASSUME DisruptionsAssumption == MaxDisruptions \in Nat

VARIABLES
    workflow,       \* row of generation_workflows: status, position, revision
    step,           \* rows of workflow_steps, by position
    attempt,        \* rows of model_attempts, by position and attempt number
    spent,          \* responses metered in the workflow's token counters
    decision,       \* the plan_decisions row
    owned,          \* project.active_workflow_id is this workflow
    outlineCurrent, \* project.official_outline_version_id is the base outline
    sourceLost,     \* a source that the review's evidence quotes was replaced
    call,           \* what each call of advance knows
    approval,       \* the workflow row each approve_plan request has read
    disruptions     \* disruptions used up so far

vars == <<workflow, step, attempt, spent, decision, owned, outlineCurrent,
          sourceLost, call, approval, disruptions>>

-----------------------------------------------------------------------------
(* Steps and statuses. *)

Reviewing == 2 * Chapters + 1
Candidate == 2 * Chapters + 2
Positions == 0 .. Candidate
Numbers == 1 .. MaxStepAttempts

Executable == {"PLANNING", "GENERATING_CHAPTERS", "REVIEWING_BATCH",
               "CREATING_CANDIDATE_BATCH"}
Paused == {"PAUSED_PROVIDER", "PAUSED_CONTEXT_OVERFLOW", "PAUSED_ATTEMPTS",
           "PAUSED_REVIEW", "PAUSED_STALE_VERSION"}
Resumable == {"PAUSED_PROVIDER", "PAUSED_CONTEXT_OVERFLOW"}
Terminal == {"REJECTED", "CANCELLED"}
Statuses == Executable \cup Paused \cup Terminal \cup {"AWAITING_PLAN_APPROVAL"}

\* The status in which the step at position p is executed.
StatusFor(p) ==
    CASE p = 0         -> "PLANNING"
      [] p = Reviewing -> "REVIEWING_BATCH"
      [] p = Candidate -> "CREATING_CANDIDATE_BATCH"
      [] OTHER         -> "GENERATING_CHAPTERS"

\* Fault: no entry lets a review be blocked.
TransitionsWithoutReviewPause ==
    [s \in Statuses |->
        IF s \in Terminal THEN {} ELSE Statuses \ {"PAUSED_REVIEW"}]

\* _ALLOWED_WORKFLOW_TRANSITIONS, over the statuses this module reaches.
AllowedTransitions ==
    LET pauses == {"PAUSED_PROVIDER", "PAUSED_CONTEXT_OVERFLOW",
                   "PAUSED_ATTEMPTS", "PAUSED_STALE_VERSION", "CANCELLED"} IN
    [s \in Statuses |->
        CASE s = "PLANNING" -> {s, "AWAITING_PLAN_APPROVAL"} \cup pauses
          [] s = "AWAITING_PLAN_APPROVAL" ->
                {"GENERATING_CHAPTERS", "PAUSED_STALE_VERSION", "REJECTED",
                 "CANCELLED"}
          [] s = "GENERATING_CHAPTERS" ->
                {s, "REVIEWING_BATCH", "PAUSED_REVIEW"} \cup pauses
          [] s = "REVIEWING_BATCH" ->
                {s, "CREATING_CANDIDATE_BATCH", "PAUSED_REVIEW"} \cup pauses
          [] s = "CREATING_CANDIDATE_BATCH" ->
                {s, "REJECTED", "PAUSED_STALE_VERSION", "CANCELLED"}
          [] s \in Resumable ->
                {"PLANNING", "GENERATING_CHAPTERS", "REVIEWING_BATCH",
                 "CANCELLED"}
          [] s \in Paused \ Resumable -> {"CANCELLED"}
          [] s \in Terminal -> {}]

WorkflowRows == [status : Statuses, position : Positions, revision : Nat]
StepRows == [status   : {"ABSENT", "PENDING", "RUNNING", "COMPLETED", "PAUSED"},
             attempts : 0 .. MaxStepAttempts,
             lease    : {"none", "live", "lapsed"},
             artifact : 0 .. MaxStepAttempts,  \* attempt that produced it, or 0
             revision : Nat]
AttemptStates == {"ABSENT", "RUNNING", "COMPLETED", "FAILED", "STALE"}
CallRows == [pc       : {"idle", "claiming", "claimed", "calling", "creating"},
             position : Positions,
             revision : Nat,                   \* step revision read or claimed
             seen     : WorkflowRows,          \* workflow row read by claim_step
             number   : 0 .. MaxStepAttempts]  \* attempt started, or 0

\* Revision 0 is the revision of no row.
Unread == [status |-> "PLANNING", position |-> 0, revision |-> 0]
IdleCall == [pc |-> "idle", position |-> 0, revision |-> 0, seen |-> Unread,
             number |-> 0]

NewStep == [status |-> "PENDING", attempts |-> 0, lease |-> "none",
            artifact |-> 0, revision |-> 1]
AbsentStep == [status |-> "ABSENT", attempts |-> 0, lease |-> "none",
               artifact |-> 0, revision |-> 0]

\* The state that start() commits: the project is owned by this workflow.
Init ==
    /\ workflow = [status |-> "PLANNING", position |-> 0, revision |-> 1]
    /\ step = [p \in Positions |-> IF p = 0 THEN NewStep ELSE AbsentStep]
    /\ attempt = [p \in Positions |-> [n \in Numbers |-> "ABSENT"]]
    /\ spent = 0
    /\ decision = "none"
    /\ owned = TRUE
    /\ outlineCurrent = TRUE
    /\ sourceLost = FALSE
    /\ call = [c \in Calls |-> IdleCall]
    /\ approval = [r \in Requests |-> Unread]
    /\ disruptions = 0

-----------------------------------------------------------------------------
(* Writes.  Each one gives the row it touches a new revision. *)

\* Fault: the write keeps the revision.
WorkflowBecomesUnversioned(status, position) ==
    workflow' = [status |-> status, position |-> position,
                 revision |-> workflow.revision]

WorkflowBecomes(status, position) ==
    workflow' = [status |-> status, position |-> position,
                 revision |-> workflow.revision + 1]

\* Fault: the claim keeps the step's revision.
ClaimedUnversioned(s) ==
    [status |-> "RUNNING", attempts |-> s.attempts, lease |-> "live",
     artifact |-> s.artifact, revision |-> s.revision]

\* The step row once claimed, once an attempt is started under the claim, and
\* once its lease is given up with an active artifact or with the one it had.
Claimed(s) ==
    [status |-> "RUNNING", attempts |-> s.attempts, lease |-> "live",
     artifact |-> s.artifact, revision |-> s.revision + 1]

Started(s) ==
    [status |-> s.status, attempts |-> s.attempts + 1, lease |-> s.lease,
     artifact |-> s.artifact, revision |-> s.revision + 1]

\* Faults: the expired lease stays on the row; attempt_count starts again.
FinishedKeepingLease(s, status, artifact) ==
    [status |-> status, attempts |-> s.attempts, lease |-> s.lease,
     artifact |-> artifact, revision |-> s.revision + 1]

FinishedForgettingAttempts(s, status, artifact) ==
    [status |-> status, attempts |-> IF status = "PENDING" THEN 0 ELSE s.attempts,
     lease |-> "none", artifact |-> artifact, revision |-> s.revision + 1]

Finished(s, status, artifact) ==
    [status |-> status, attempts |-> s.attempts, lease |-> "none",
     artifact |-> artifact, revision |-> s.revision + 1]

Released(s, status) == Finished(s, status, s.artifact)

StepBecomes(p, status) ==
    step' = [step EXCEPT ![p] = Released(step[p], status)]

\* Fault: the attempt row is left out of the transaction.
AttemptLeftRunning(c, result) == UNCHANGED attempt

\* The attempt of call c ends.
AttemptEnds(c, result) ==
    attempt' = [attempt EXCEPT ![call[c].position][call[c].number] = result]

\* Fault: the counters are set to the response's tokens.
MeterOverwrites == spent' = 1

\* actual_input_tokens and actual_output_tokens grow by the response's tokens.
Meter == spent' = spent + 1

CallEnds(c) == call' = [call EXCEPT ![c] = IdleCall]

Disruption ==
    /\ disruptions < MaxDisruptions
    /\ disruptions' = disruptions + 1

NoAttemptRunning(p) == \A n \in Numbers : attempt[p][n] # "RUNNING"

-----------------------------------------------------------------------------
(* advance: recover expired claims, then claim the current step. *)

\* What claim_step asks of the step it claims.
Claimable(s) == s.status = "PENDING" /\ s.artifact = 0 /\ s.lease = "none"

\* Fault: every step without a live lease is recovered.
LapsedWhateverItsStatus(s) == s.lease # "live"

\* What recover_expired_claims asks of a step.
Lapsed(s) == s.status = "RUNNING" /\ s.artifact = 0 /\ s.lease = "lapsed"

\* Fault: the step is recovered and its attempts are not.
AttemptsNotRecovered == attempt

\* The running attempts of recovered steps get error_code lease_expired.
RecoveredAttempts ==
    [p \in Positions |-> [n \in Numbers |->
        IF Lapsed(step[p]) /\ attempt[p][n] = "RUNNING" THEN "FAILED"
                                                       ELSE attempt[p][n]]]

\* The step waits again; its attempt_count stays.
RecoverExpiredClaims(c) ==
    /\ call[c].pc = "idle"
    /\ workflow.status \in Executable
    /\ \E p \in Positions : Lapsed(step[p])
    /\ WorkflowBecomes(workflow.status, workflow.position)
    /\ step' = [p \in Positions |->
                  IF Lapsed(step[p]) THEN Released(step[p], "PENDING")
                                     ELSE step[p]]
    /\ attempt' = RecoveredAttempts
    /\ UNCHANGED <<spent, decision, owned, outlineCurrent, sourceLost, call,
                   approval, disruptions>>

\* claim_step on a project whose official outline is no longer the base.
\* A running attempt of the step is left as it is.
PauseStaleWorkflow(c) ==
    /\ call[c].pc = "idle"
    /\ workflow.status \in Executable
    /\ owned
    /\ ~outlineCurrent
    /\ step[workflow.position].status \in {"PENDING", "RUNNING"}
    /\ WorkflowBecomes("PAUSED_STALE_VERSION", workflow.position)
    /\ StepBecomes(workflow.position, "PAUSED")
    /\ UNCHANGED <<attempt, spent, decision, owned, outlineCurrent,
                   sourceLost, call, approval, disruptions>>

\* claim_step up to its first UPDATE: what it reads, and checks only here.
ReadClaim(c) ==
    /\ call[c].pc = "idle"
    /\ workflow.status \in Executable
    /\ owned
    /\ outlineCurrent
    /\ Claimable(step[workflow.position])
    /\ call' = [call EXCEPT ![c] =
                  [pc |-> "claiming", position |-> workflow.position,
                   revision |-> step[workflow.position].revision,
                   seen |-> workflow, number |-> 0]]
    /\ UNCHANGED <<workflow, step, attempt, spent, decision, owned,
                   outlineCurrent, sourceLost, approval, disruptions>>

\* The conditions of claim_step's two UPDATEs.
ClaimStands(c) ==
    LET s == step[call[c].position] IN
    /\ workflow = call[c].seen
    /\ Claimable(s)
    /\ s.revision = call[c].revision

ClaimStep(c) ==
    LET p == call[c].position IN
    /\ call[c].pc = "claiming"
    /\ ClaimStands(c)
    /\ WorkflowBecomes(workflow.status, workflow.position)
    /\ step' = [step EXCEPT ![p] = Claimed(step[p])]
    /\ call' = [call EXCEPT ![c] =
                  [pc |-> IF p = Candidate THEN "creating" ELSE "claimed",
                   position |-> p, revision |-> step[p].revision + 1,
                   seen |-> Unread, number |-> 0]]
    /\ UNCHANGED <<attempt, spent, decision, owned, outlineCurrent,
                   sourceLost, approval, disruptions>>

\* claim_step finds a row count of 0, rolls back and returns None.
LoseClaim(c) ==
    /\ call[c].pc = "claiming"
    /\ ~ClaimStands(c)
    /\ CallEnds(c)
    /\ UNCHANGED <<workflow, step, attempt, spent, decision, owned,
                   outlineCurrent, sourceLost, approval, disruptions>>

-----------------------------------------------------------------------------
(* advance: the work done under a claim, before the provider is called. *)

\* Fault: the lease is told by the worker id alone, which all calls share.
HoldsClaimByWorkerId(c) ==
    LET s == step[call[c].position] IN
    s.status = "RUNNING" /\ s.lease = "live"

\* The claim revision fences the step row: status, revision and lease.
HoldsClaim(c) ==
    LET s == step[call[c].position] IN
    /\ s.status = "RUNNING"
    /\ s.revision = call[c].revision
    /\ s.lease = "live"

\* The row conditions that record_attempt_start and both pauses share.
CanStart(c) ==
    /\ call[c].pc = "claimed"
    /\ HoldsClaim(c)
    /\ workflow.position = call[c].position
    /\ NoAttemptRunning(call[c].position)

\* Fault: the limit on attempts is not asked.
RecordAttemptStartUnlimited(c) ==
    LET p == call[c].position IN
    /\ CanStart(c)
    /\ WorkflowBecomes(workflow.status, workflow.position)
    /\ step' = [step EXCEPT ![p] = Started(step[p])]
    /\ attempt' = [attempt EXCEPT ![p][step[p].attempts + 1] = "RUNNING"]
    /\ call' = [call EXCEPT ![c] =
                  [pc |-> "calling", position |-> p, revision |-> 0,
                   seen |-> Unread, number |-> step[p].attempts + 1]]
    /\ UNCHANGED <<spent, decision, owned, outlineCurrent, sourceLost,
                   approval, disruptions>>

RecordAttemptStart(c) ==
    LET p == call[c].position
        n == step[p].attempts + 1 IN
    /\ CanStart(c)
    /\ step[p].attempts < MaxStepAttempts
    /\ WorkflowBecomes(workflow.status, workflow.position)
    /\ step' = [step EXCEPT ![p] = Started(step[p])]
    /\ attempt' = [attempt EXCEPT ![p][n] = "RUNNING"]
    /\ call' = [call EXCEPT ![c] =
                  [pc |-> "calling", position |-> p, revision |-> 0,
                   seen |-> Unread, number |-> n]]
    /\ UNCHANGED <<spent, decision, owned, outlineCurrent, sourceLost,
                   approval, disruptions>>

\* _pause_attempt_exhaustion, reached from record_attempt_start.
PauseAttemptExhaustion(c) ==
    LET p == call[c].position IN
    /\ call[c].pc = "claimed"
    /\ HoldsClaim(c)
    /\ step[p].attempts >= MaxStepAttempts
    /\ WorkflowBecomes("PAUSED_ATTEMPTS", workflow.position)
    /\ StepBecomes(p, "PAUSED")
    /\ CallEnds(c)
    /\ UNCHANGED <<attempt, spent, decision, owned, outlineCurrent,
                   sourceLost, approval, disruptions>>

\* pause_context_overflow and pause_provider_failure.
PauseBeforeCall(c, target) ==
    LET p == call[c].position IN
    /\ CanStart(c)
    /\ workflow.status \in Executable
    /\ p # Candidate
    /\ step[p].artifact = 0
    /\ WorkflowBecomes(target, workflow.position)
    /\ StepBecomes(p, "PAUSED")
    /\ CallEnds(c)
    /\ UNCHANGED <<attempt, spent, decision, owned, outlineCurrent,
                   sourceLost, approval, disruptions>>

\* _build_request of a review raises, for what its evidence quotes is not in
\* the index: no handler names that, and no attempt is counted.  It may raise
\* at every claim from now on, or not (a rebuild may put the source back).
RequestFails(c) ==
    /\ call[c].pc = "claimed" /\ call[c].position = Reviewing
    /\ sourceLost
    /\ workflow.revision < MaxRevision
    /\ CallEnds(c)
    /\ UNCHANGED <<workflow, step, attempt, spent, decision, owned,
                   outlineCurrent, sourceLost, approval, disruptions>>

\* The claim was lost meanwhile: every method above raises ValueError.
FencedBeforeCall(c) ==
    /\ call[c].pc = "claimed"
    /\ ~HoldsClaim(c)
    /\ CallEnds(c)
    /\ UNCHANGED <<workflow, step, attempt, spent, decision, owned,
                   outlineCurrent, sourceLost, approval, disruptions>>

-----------------------------------------------------------------------------
(* advance: the provider's answer. *)

\* Fault: the attempt is not asked to be RUNNING still.
HoldsAttemptOfAnyStatus(c) ==
    LET p == call[c].position IN
    /\ call[c].pc = "calling"
    /\ call[c].number = step[p].attempts
    /\ step[p].status = "RUNNING"
    /\ step[p].lease = "live"
    /\ workflow.position = p

\* The row conditions complete_attempt and fail_attempt share.
HoldsAttempt(c) ==
    LET p == call[c].position
        n == call[c].number IN
    /\ call[c].pc = "calling"
    /\ attempt[p][n] = "RUNNING"
    /\ n = step[p].attempts
    /\ step[p].status = "RUNNING"
    /\ step[p].lease = "live"
    /\ workflow.position = p

\* What the reviewer may answer: passed, not passed, or not passed yet with
\* queries for more evidence.  Every other agent's valid result is accepted.
Verdicts(p) ==
    IF p = Reviewing THEN {"accepted", "blocked", "evidence"} ELSE {"accepted"}

\* Fault: the summary of a chapter is skipped.
CompletionSkipsSummary(p, n, verdict) ==
    IF p = 0 THEN [status |-> "AWAITING_PLAN_APPROVAL", position |-> p,
                   step |-> "COMPLETED", active |-> TRUE]
    ELSE LET q == IF p < Reviewing THEN p + 2 ELSE Candidate IN
         [status |-> StatusFor(q), position |-> q,
          step |-> "COMPLETED", active |-> TRUE]

\* _completion_transition: the workflow's status and position, the step's
\* status, and whether the artifact becomes the step's active one.
CompletionTransition(p, n, verdict) ==
    CASE verdict = "evidence" /\ n = 1 ->
            [status |-> workflow.status, position |-> p,
             step |-> "PENDING", active |-> FALSE]
      [] verdict = "blocked" \/ (verdict = "evidence" /\ n # 1) ->
            [status |-> "PAUSED_REVIEW", position |-> p,
             step |-> "PAUSED", active |-> TRUE]
      [] verdict = "accepted" /\ p = 0 ->
            [status |-> "AWAITING_PLAN_APPROVAL", position |-> p,
             step |-> "COMPLETED", active |-> TRUE]
      [] OTHER ->
            [status |-> StatusFor(p + 1), position |-> p + 1,
             step |-> "COMPLETED", active |-> TRUE]

\* Fault: the outline is not read again after the provider's answer.
CanCompleteOnAnyOutline(c) ==
    HoldsAttempt(c) /\ step[call[c].position].artifact = 0 /\ owned

\* The conditions of complete_attempt's read and of its UPDATEs.
CanComplete(c) ==
    /\ HoldsAttempt(c)
    /\ step[call[c].position].artifact = 0
    /\ owned
    /\ outlineCurrent

CompleteAttempt(c, verdict) ==
    LET p == call[c].position
        n == call[c].number
        t == CompletionTransition(p, n, verdict) IN
    /\ CanComplete(c)
    /\ p # Candidate
    /\ p \in 1 .. Reviewing /\ verdict = "accepted" =>
          step[p + 1].status # "ABSENT"
    /\ WorkflowBecomes(t.status, t.position)
    /\ step' = [step EXCEPT ![p] =
                  Finished(step[p], t.step, IF t.active THEN n ELSE 0)]
    /\ AttemptEnds(c, "COMPLETED")
    /\ Meter
    /\ CallEnds(c)
    /\ UNCHANGED <<decision, owned, outlineCurrent, sourceLost, approval,
                   disruptions>>

\* _pause_stale_attempt_completion: the outline changed during the call.  The
\* attempt is FAILED with error_code stale_outline, and its tokens are kept.
PauseStaleCompletion(c) ==
    LET p == call[c].position IN
    /\ HoldsAttempt(c)
    /\ step[p].artifact = 0
    /\ owned
    /\ ~outlineCurrent
    /\ WorkflowBecomes("PAUSED_STALE_VERSION", workflow.position)
    /\ StepBecomes(p, "PAUSED")
    /\ AttemptEnds(c, "STALE")
    /\ Meter
    /\ CallEnds(c)
    /\ UNCHANGED <<decision, owned, outlineCurrent, sourceLost, approval,
                   disruptions>>

\* fail_attempt: a failure that may be retried, or one that may not.
FailAttempt(c, retryable) ==
    LET p == call[c].position
        again == retryable /\ step[p].attempts < MaxStepAttempts IN
    /\ HoldsAttempt(c)
    /\ WorkflowBecomes(IF again THEN workflow.status
                       ELSE IF retryable THEN "PAUSED_ATTEMPTS"
                       ELSE "PAUSED_PROVIDER", workflow.position)
    /\ StepBecomes(p, IF again THEN "PENDING" ELSE "PAUSED")
    /\ AttemptEnds(c, "FAILED")
    /\ CallEnds(c)
    /\ UNCHANGED <<spent, decision, owned, outlineCurrent, sourceLost,
                   approval, disruptions>>

\* The attempt is no longer this call's to finish: ValueError.
FencedAfterCall(c) ==
    /\ call[c].pc = "calling"
    /\ ~HoldsAttempt(c)
    /\ CallEnds(c)
    /\ UNCHANGED <<workflow, step, attempt, spent, decision, owned,
                   outlineCurrent, sourceLost, approval, disruptions>>

-----------------------------------------------------------------------------
(* Calls that die, and time. *)

\* The process stops, or an exception that no handler names leaves advance:
\* the rows stay as the last transaction left them.  Under an attempt that
\* may happen every time, for MAX_STEP_ATTEMPTS ends it.
AbandonCall(c) ==
    /\ call[c].pc # "idle"
    /\ IF call[c].pc = "calling" THEN UNCHANGED disruptions ELSE Disruption
    /\ CallEnds(c)
    /\ UNCHANGED <<workflow, step, attempt, spent, decision, owned,
                   outlineCurrent, sourceLost, approval>>

\* A call that claimed the candidate step leaves when its lease is not live
\* any more.  What it does under the lease is the subject of CandidateBatch.
LeaveCandidateStep(c) ==
    /\ call[c].pc = "creating"
    /\ ~HoldsClaim(c)
    /\ CallEnds(c)
    /\ UNCHANGED <<workflow, step, attempt, spent, decision, owned,
                   outlineCurrent, sourceLost, approval, disruptions>>

\* Call c works under a claim; it can still change the step it claimed.
Under(c) == call[c].pc \in {"claimed", "creating"}

Holds(c) == (Under(c) /\ HoldsClaim(c)) \/ HoldsAttempt(c)

\* Some call still works under the lease of the current step.
LeaseInUse == \E c \in Calls : Holds(c)

\* lease_expires_at passes.  Under a call that is still at work it is a
\* disruption (the call is slower than its lease), otherwise a matter of time.
LeaseLapses ==
    LET p == workflow.position IN
    /\ step[p].lease = "live"
    /\ step' = [step EXCEPT ![p].lease = "lapsed"]
    /\ IF LeaseInUse THEN Disruption ELSE UNCHANGED disruptions
    /\ UNCHANGED <<workflow, attempt, spent, decision, owned, outlineCurrent,
                   sourceLost, call, approval>>

-----------------------------------------------------------------------------
(* The author. *)

\* approve_plan up to its UPDATE: what it reads, and checks only here.
ReadPlan(r) ==
    /\ approval[r] = Unread
    /\ workflow.status = "AWAITING_PLAN_APPROVAL"
    /\ step[0].status = "COMPLETED" /\ step[0].artifact # 0
    /\ owned
    /\ outlineCurrent
    /\ \A p \in Positions \ {0} : step[p].status = "ABSENT"
    /\ approval' = [approval EXCEPT ![r] = workflow]
    /\ UNCHANGED <<workflow, step, attempt, spent, decision, owned,
                   outlineCurrent, sourceLost, call, disruptions>>

\* Fault: approve_plan's UPDATE compares nothing.
ApprovePlanUnconditionally(r) ==
    /\ approval[r] # Unread
    /\ WorkflowBecomes("GENERATING_CHAPTERS", 1)
    /\ step' = [p \in Positions |-> IF p = 0 THEN step[p] ELSE NewStep]
    /\ decision' = "approved"
    /\ approval' = [approval EXCEPT ![r] = Unread]
    /\ UNCHANGED <<attempt, spent, owned, outlineCurrent, sourceLost, call,
                   disruptions>>

\* The UPDATE of approve_plan compares the workflow row alone.
ApprovePlan(r) ==
    /\ approval[r] # Unread
    /\ workflow = approval[r]
    /\ WorkflowBecomes("GENERATING_CHAPTERS", 1)
    /\ step' = [p \in Positions |-> IF p = 0 THEN step[p] ELSE NewStep]
    /\ decision' = "approved"
    /\ approval' = [approval EXCEPT ![r] = Unread]
    /\ UNCHANGED <<attempt, spent, owned, outlineCurrent, sourceLost, call,
                   disruptions>>

\* approve_plan conflicts and rolls back.
LosePlan(r) ==
    /\ approval[r] # Unread
    /\ workflow # approval[r]
    /\ approval' = [approval EXCEPT ![r] = Unread]
    /\ UNCHANGED <<workflow, step, attempt, spent, decision, owned,
                   outlineCurrent, sourceLost, call, disruptions>>

\* Fault: a rejection that comes after the approval is accepted.
RejectPlanLate ==
    /\ workflow.status \notin Terminal
    /\ WorkflowBecomes("REJECTED", workflow.position)
    /\ decision' = "rejected"
    /\ owned' = FALSE
    /\ UNCHANGED <<step, attempt, spent, outlineCurrent, sourceLost, call,
                   approval, disruptions>>

RejectPlan ==
    /\ workflow.status = "AWAITING_PLAN_APPROVAL"
    /\ WorkflowBecomes("REJECTED", workflow.position)
    /\ decision' = "rejected"
    /\ owned' = FALSE
    /\ UNCHANGED <<step, attempt, spent, outlineCurrent, sourceLost, call,
                   approval, disruptions>>

\* resume, with the conditions of _resumable_step.
Resume ==
    LET p == workflow.position IN
    /\ workflow.status \in Resumable
    /\ owned
    /\ outlineCurrent
    /\ step[p].status = "PAUSED"
    /\ step[p].lease = "none"
    /\ step[p].artifact = 0
    /\ step[p].attempts < MaxStepAttempts
    /\ Disruption
    /\ WorkflowBecomes(StatusFor(p), p)
    /\ StepBecomes(p, "PENDING")
    /\ UNCHANGED <<attempt, spent, decision, owned, outlineCurrent,
                   sourceLost, call, approval>>

\* cancel, while the workflow has no candidate batch.  The step stays PAUSED.
Cancel ==
    /\ workflow.status \in Paused
    /\ owned
    /\ WorkflowBecomes("CANCELLED", workflow.position)
    /\ owned' = FALSE
    /\ UNCHANGED <<step, attempt, spent, decision, outlineCurrent, sourceLost,
                   call, approval, disruptions>>

\* OutlineService.approve: the project's official outline becomes a version
\* that is not this workflow's base.  A superseded version never returns.
ApproveOutline ==
    /\ outlineCurrent
    /\ outlineCurrent' = FALSE
    /\ UNCHANGED <<workflow, step, attempt, spent, decision, owned,
                   sourceLost, call, approval, disruptions>>

\* The review waits for the evidence it has asked for.
EvidenceAsked ==
    /\ step[Reviewing].artifact = 0
    /\ \E n \in Numbers : attempt[Reviewing][n] = "COMPLETED"

\* The author approves another constitution, and a rebuild of the index takes
\* away what the evidence quotes.  (ContextIndex has both in detail.)
LoseSource ==
    /\ EvidenceAsked
    /\ sourceLost' = TRUE
    /\ UNCHANGED <<workflow, step, attempt, spent, decision, owned,
                   outlineCurrent, call, approval, disruptions>>

-----------------------------------------------------------------------------

Work(c) ==
    \/ RecordAttemptStart(c)
    \/ PauseAttemptExhaustion(c)
    \/ \E target \in Resumable : PauseBeforeCall(c, target)
    \/ RequestFails(c)
    \/ FencedBeforeCall(c)

Answer(c) ==
    \/ \E verdict \in Verdicts(call[c].position) : CompleteAttempt(c, verdict)
    \/ PauseStaleCompletion(c)
    \/ \E retryable \in BOOLEAN : FailAttempt(c, retryable)
    \/ FencedAfterCall(c)

Claim(c) == ReadClaim(c) \/ ClaimStep(c) \/ LoseClaim(c)

Advance(c) ==
    \/ RecoverExpiredClaims(c)
    \/ PauseStaleWorkflow(c)
    \/ Claim(c)
    \/ Work(c)
    \/ Answer(c)
    \/ LeaveCandidateStep(c)

Author ==
    \/ \E r \in Requests : ReadPlan(r) \/ ApprovePlan(r) \/ LosePlan(r)
    \/ RejectPlan \/ Resume \/ Cancel

Next ==
    \/ \E c \in Calls : Advance(c) \/ AbandonCall(c)
    \/ LeaseLapses
    \/ Author
    \/ ApproveOutline
    \/ LoseSource

Spec == Init /\ [][Next]_vars

\* The author keeps pressing Run (POST /workflows/{id}/run), an advance that
\* does not die goes on to its next transaction or raises, a provider answers
\* or times out, and the clock moves.  Nothing is assumed of the author's
\* decisions, nor that a request can be built that may raise.
Fairness ==
    /\ \A c \in Calls :
          /\ WF_vars(RecoverExpiredClaims(c))
          /\ WF_vars(PauseStaleWorkflow(c))
          /\ WF_vars(Claim(c))
          /\ WF_vars(Work(c))
          /\ WF_vars(Answer(c))
    /\ WF_vars(LeaseLapses /\ ~LeaseInUse)

FairSpec == Spec /\ Fairness

-----------------------------------------------------------------------------
(* Properties. *)

\* Every variable has its type: the domains of the columns.
TypeOK ==
    /\ workflow \in WorkflowRows
    /\ step \in [Positions -> StepRows]
    /\ attempt \in [Positions -> [Numbers -> AttemptStates]]
    /\ spent \in Nat
    /\ decision \in {"none", "approved", "rejected"}
    /\ owned \in BOOLEAN
    /\ outlineCurrent \in BOOLEAN
    /\ sourceLost \in BOOLEAN
    /\ call \in [Calls -> CallRows]
    /\ approval \in [Requests -> WorkflowRows]
    /\ disruptions \in 0 .. MaxDisruptions

\* The lease is exclusive although all threads of a process share one worker
\* id: however leases lapse and steps are recovered and claimed again, at most
\* one call passes the checks of record_attempt_start, of the pauses, of
\* complete_attempt and of fail_attempt.
ExclusiveHolder ==
    \A c, d \in Calls : Holds(c) /\ Holds(d) => c = d

\* Why the lease is exclusive.  A claim is made for the step that its reads
\* named; the revision of a claim is never ahead of its step, and while it is
\* the step's no attempt is under way; an attempt number is never ahead of
\* attempt_count; and no two calls have the same claim or the same attempt.
Fenced(c) ==
    LET k == call[c]
        s == step[k.position] IN
    /\ k.pc = "claiming" =>
          k.seen.status \in Executable /\ k.seen.position = k.position
    /\ k.pc \in {"claimed", "calling"} => k.position # Candidate
    /\ Under(c) =>
          /\ k.revision <= s.revision
          /\ s.status = "RUNNING" /\ k.revision = s.revision =>
                NoAttemptRunning(k.position)
    /\ k.pc = "calling" => k.number \in 1 .. s.attempts

Apart(c, d) ==
    /\ call[c].position = call[d].position
    /\ \/ Under(c) /\ Under(d) /\ call[c].revision = call[d].revision
       \/ /\ call[c].pc = "calling" /\ call[d].pc = "calling"
          /\ call[c].number = call[d].number
    => c = d

Fencing == \A c, d \in Calls : Fenced(c) /\ Apart(c, d)

\* At most one model attempt of the whole workflow is RUNNING.
OneRunningAttempt ==
    \A p, q \in Positions, n, m \in Numbers :
        attempt[p][n] = "RUNNING" /\ attempt[q][m] = "RUNNING" => p = q /\ n = m

\* A RUNNING attempt is the last one of the current step, and the step is
\* RUNNING under a lease, so that it will be answered or recovered.  The one
\* exception is the attempt that _pause_stale_workflow leaves behind.
RunningAttemptIsCurrent ==
    \A p \in Positions, n \in Numbers : attempt[p][n] = "RUNNING" =>
        /\ p = workflow.position
        /\ n = step[p].attempts
        /\ \/ step[p].status = "RUNNING" /\ step[p].lease # "none"
           \/ workflow.status \in {"PAUSED_STALE_VERSION", "CANCELLED"}

\* attempt_count counts the attempt rows through pauses, recoveries and
\* resumptions, and an active artifact was produced by the last attempt of its
\* step, which is COMPLETED.
AttemptHistory ==
    \A p \in Positions :
        /\ \A n \in Numbers : attempt[p][n] # "ABSENT" <=> n <= step[p].attempts
        /\ step[p].artifact # 0 =>
              /\ step[p].artifact = step[p].attempts
              /\ attempt[p][step[p].artifact] = "COMPLETED"

\* Chapters are written strictly one after the other: when a step is current,
\* every earlier step is COMPLETED with its artifact, and no later one has
\* been touched.
SequentialProgress ==
    \A p \in Positions :
        /\ p < workflow.position =>
              step[p].status = "COMPLETED" /\ step[p].artifact # 0
        /\ p > workflow.position => step[p] \in {AbsentStep, NewStep}

\* The author's gate: chapter steps exist exactly when the author approved the
\* plan, and a rejection is final.
AuthorGate ==
    /\ \A p \in Positions \ {0} :
          step[p].status # "ABSENT" <=> decision = "approved"
    /\ decision = "rejected" <=> workflow.status = "REJECTED"

\* An executable workflow can always be taken up again: its current step
\* belongs to the status and is claimable, or RUNNING under a lease that will
\* be given up or lapse.  A paused workflow's step is PAUSED without a lease.
NeverStranded ==
    LET s == step[workflow.position] IN
    /\ workflow.status \in Executable =>
          /\ workflow.status = StatusFor(workflow.position)
          /\ Claimable(s) \/ (s.status = "RUNNING" /\ s.lease # "none"
                                                  /\ s.artifact = 0)
    /\ workflow.status \in Paused => s.status = "PAUSED" /\ s.lease = "none"
    /\ workflow.status = "AWAITING_PLAN_APPROVAL" =>
          workflow.position = 0 /\ s.status = "COMPLETED"

\* The project belongs to the workflow until the workflow ends, and no longer.
OwnedUntilTerminal == owned <=> workflow.status \notin Terminal

\* A response is metered exactly once if its attempt recorded it, accepted or
\* stale, and otherwise never: an answer that comes after the recovery of its
\* attempt or after a stale pause, or that is not valid, is not recorded.
TokenLedger ==
    spent = Cardinality({pn \in Positions \X Numbers :
                           attempt[pn[1]][pn[2]] \in {"COMPLETED", "STALE"}})

\* What the conditional UPDATEs rely on: no transaction changes a row of the
\* workflow, of its steps or of its attempts without giving the workflow a
\* revision it never had.  Only the clock (a lease lapsing) is exempt.
Durable(s) == [status |-> s.status, attempts |-> s.attempts,
               artifact |-> s.artifact, revision |-> s.revision]
EveryWriteIsVersioned ==
    [][ \/ workflow'.revision > workflow.revision
        \/ /\ workflow' = workflow
           /\ attempt' = attempt
           /\ \A p \in Positions : Durable(step'[p]) = Durable(step[p])
      ]_vars

\* A completed step is never run again, and its attempts never change.
CompletedIsFinal ==
    [][ \A p \in Positions : step[p].status = "COMPLETED" =>
            step'[p] = step[p] /\ attempt'[p] = attempt[p] ]_vars

\* The answer of an attempt that was recovered meanwhile changes nothing.
LateAnswerChangesNothing ==
    [][ \A c \in Calls :
            /\ call[c].pc = "calling" /\ call'[c].pc = "idle"
            /\ attempt[call[c].position][call[c].number] # "RUNNING"
            => UNCHANGED <<workflow, step, attempt, spent>> ]_vars

\* No artifact becomes active, and no step completes, on an outline that is
\* not the one the workflow was started from.
NoArtifactOnStaleOutline ==
    [][ \A p \in Positions :
            step'[p].artifact # step[p].artifact => outlineCurrent ]_vars

\* _ALLOWED_WORKFLOW_TRANSITIONS never stops a transaction that the handlers
\* are ready to make, and no handler goes around it.
TransitionsAllowed ==
    [][ workflow' # workflow =>
            workflow'.status \in AllowedTransitions[workflow.status] ]_vars

\* "Any stale session can only fail" (design of 2026-09-04, 9.3), for the
\* author's approval: a plan is approved only on the outline it was made for.
PlanApprovedOnCurrentOutline ==
    [][ decision' = "approved" /\ decision # "approved" => outlineCurrent ]_vars

\* However calls die and leases lapse, a workflow that is being executed
\* reaches the author's gate, a pause, an end, or its candidate step, unless it
\* is in review and a source that the review's evidence quotes was replaced.
\* Then its request may raise at every claim: it need not settle.
Settles ==
    workflow.status \in Executable \ {"CREATING_CANDIDATE_BATCH"}
        ~> \/ workflow.status \notin Executable \ {"CREATING_CANDIDATE_BATCH"}
           \/ workflow.status = "REVIEWING_BATCH" /\ sourceLost

\* A model has been asked to write a chapter, or to go on from one.
Writing == \E p \in Positions \ {0} : step[p].attempts # 0

Gates == INSTANCE AuthorGates
             WITH plan <- decision, writing <- Writing, text <- "none",
                  held <- owned

\* The promise made to the author, up to the candidate step: the plan is
\* decided once, no chapter is asked for before it is approved, and the
\* project is held until the workflow ends.
ImplementsAuthorGates == Gates!FromStart
=============================================================================
