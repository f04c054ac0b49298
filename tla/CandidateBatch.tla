--------------------------- MODULE CandidateBatch ---------------------------
(***************************************************************************)
(* The last step of a generation workflow, CREATING_CANDIDATE_BATCH, and   *)
(* the author's second gate.  WorkflowOrchestrator._create_candidate_batch *)
(* copies the generated chapters into a writing batch, one transaction per *)
(* chapter, while the author may already edit, submit, reject or approve   *)
(* that batch; reconcile_batch_decision carries the batch's status back to *)
(* the workflow.                                                           *)
(*                                                                         *)
(* The threads of a process share one worker id, and this step checks its  *)
(* lease by that id alone: a call whose lease lapsed goes on beside the    *)
(* call that claimed the step after it.  What keeps the rows right are the *)
(* conditions of the writes, so every read whose result a later write does *)
(* not compare is an action of its own.                                    *)
(***************************************************************************)
EXTENDS Naturals

CONSTANTS
    Calls,              \* threads: calls of advance, author's submissions
    Chapters,           \* requested_chapters
    MaxRevision,        \* bound: no claim beyond this workflow revision
    MaxEdits,           \* bound: replacements of a chapter body
    MaxDisruptions      \* bound: dead calls and leases lapsing under a live
                        \* call, over one behaviour

ASSUME ChaptersAssumption == Chapters \in Nat \ {0}
ASSUME BoundsAssumption ==
    MaxRevision \in Nat /\ MaxEdits \in Nat /\ MaxDisruptions \in Nat

VARIABLES
    workflow,       \* row of generation_workflows; linked: candidate_batch_id
    step,           \* row of the candidate step
    project,        \* row of novel_projects: active_workflow_id and
                    \* active_batch_id are ours, the outline is the base, and
                    \* next_official_chapter_number
    batch,          \* status of the batch with this source_workflow_id
    chapter,        \* rows of chapters, by ordinal
    call,           \* what each thread knows
    approval,       \* what a request to approve the batch has read
    edit,           \* what a request to replace a body has read
    edits,          \* replacements asked for so far
    disruptions     \* disruptions used up so far

rows == <<workflow, step, project, batch, chapter>>
requests == <<approval, edit, edits>>
vars == <<rows, call, requests, disruptions>>

-----------------------------------------------------------------------------

Ordinals == 1 .. Chapters
Decided == {"approved", "rejected"}
Undecided == {"draft", "ready_for_review"}
Terminal == {"COMPLETED", "REJECTED", "CANCELLED"}
Statuses == {"CREATING_CANDIDATE_BATCH", "AWAITING_CONTENT_APPROVAL",
             "PAUSED_STALE_VERSION"} \cup Terminal

\* Fault: the entry that lets a decision overtake the link is missing.
TransitionsWithoutOvertaking ==
    [s \in Statuses |->
        CASE s = "CREATING_CANDIDATE_BATCH" ->
                {s, "AWAITING_CONTENT_APPROVAL", "PAUSED_STALE_VERSION"}
          [] s = "AWAITING_CONTENT_APPROVAL" -> Terminal
          [] OTHER -> {}]

\* _ALLOWED_WORKFLOW_TRANSITIONS, over the statuses this module reaches.
AllowedTransitions ==
    [s \in Statuses |->
        CASE s = "CREATING_CANDIDATE_BATCH" -> Statuses
          [] s = "AWAITING_CONTENT_APPROVAL" -> Terminal
          [] s = "PAUSED_STALE_VERSION" -> {"CANCELLED"}
          [] s \in Terminal -> {}]

\* A body is the copy of the workflow's artifact, another text of a valid
\* length, or a text that is too short.
Bodies == {"artifact", "rewritten", "short"}
Valid(body) == body # "short"

ChapterRows == [status   : {"absent", "candidate", "official", "published"},
                body     : Bodies,
                number   : 0 .. Chapters,    \* official_chapter_number, or 0
                revision : Nat]
WorkflowRows == [status : Statuses, linked : BOOLEAN, revision : Nat]
StepRows == [status   : {"PENDING", "RUNNING", "PAUSED", "COMPLETED"},
             lease    : {"none", "live", "lapsed"},
             revision : Nat]
ProjectRows == [owned : BOOLEAN, active : BOOLEAN, current : BOOLEAN,
                next  : 1 .. Chapters + 1]

\* Where a call of _create_candidate_batch stands; "asking" is the author's
\* mark_ready.
Working == {"finding", "creating", "rechecking", "linking", "saving",
            "inserting", "marking", "readying", "checking", "finishing",
            "closing"}
CallRows == [pc       : {"idle", "claiming", "asking"} \cup Working,
             ordinal  : Ordinals,
             revision : Nat]     \* workflow revision read, then step revision

IdleCall == [pc |-> "idle", ordinal |-> 1, revision |-> 0]
AbsentChapter == [status |-> "absent", body |-> "artifact", number |-> 0,
                  revision |-> 0]
NewChapter == [status |-> "candidate", body |-> "artifact", number |-> 0,
               revision |-> 1]
NoEdit == [ordinal |-> 0, revision |-> 0, body |-> "artifact"]
NoApproval == [o \in Ordinals |-> AbsentChapter]

\* The state in which complete_attempt leaves the accepted review.
Init ==
    /\ workflow = [status |-> "CREATING_CANDIDATE_BATCH", linked |-> FALSE,
                   revision |-> 1]
    /\ step = [status |-> "PENDING", lease |-> "none", revision |-> 1]
    /\ project = [owned |-> TRUE, active |-> FALSE, current |-> TRUE, next |-> 1]
    /\ batch = "none"
    /\ chapter = [o \in Ordinals |-> AbsentChapter]
    /\ call = [c \in Calls |-> IdleCall]
    /\ approval = NoApproval
    /\ edit = NoEdit
    /\ edits = 0
    /\ disruptions = 0

Disruption == disruptions < MaxDisruptions /\ disruptions' = disruptions + 1

\* Call c goes on at pc; idle is the end of the call, by return or ValueError.
Goes(c, pc) ==
    call' = [call EXCEPT ![c] = IF pc = "idle" THEN IdleCall
                                              ELSE [call[c] EXCEPT !.pc = pc]]

\* The rows of the workflow and of its step; every write bumps both revisions
\* it touches.
WorkflowBecomes(status, linked) ==
    workflow' = [status |-> status, linked |-> linked,
                 revision |-> workflow.revision + 1]

StepBecomes(status, lease) ==
    step' = [status |-> status, lease |-> lease, revision |-> step.revision + 1]

-----------------------------------------------------------------------------
(* advance, when the current step is the candidate step. *)

RecoverExpiredClaims(c) ==
    /\ call[c].pc = "idle"
    /\ workflow.status = "CREATING_CANDIDATE_BATCH"
    /\ step.status = "RUNNING" /\ step.lease = "lapsed"
    /\ WorkflowBecomes(workflow.status, workflow.linked)
    /\ StepBecomes("PENDING", "none")
    /\ UNCHANGED <<project, batch, chapter, call, requests, disruptions>>

\* _pause_stale_workflow, reached from claim_step.
PauseStaleWorkflow(c) ==
    /\ call[c].pc = "idle"
    /\ workflow.status = "CREATING_CANDIDATE_BATCH"
    /\ project.owned /\ ~project.current
    /\ step.status \in {"PENDING", "RUNNING"}
    /\ WorkflowBecomes("PAUSED_STALE_VERSION", workflow.linked)
    /\ StepBecomes("PAUSED", "none")
    /\ UNCHANGED <<project, batch, chapter, call, requests, disruptions>>

\* claim_step: the outline is compared by the read alone.
ReadClaim(c) ==
    /\ call[c].pc = "idle"
    /\ workflow.status = "CREATING_CANDIDATE_BATCH"
    /\ workflow.revision < MaxRevision
    /\ project.owned /\ project.current
    /\ step.status = "PENDING"
    /\ call' = [call EXCEPT ![c] = [pc |-> "claiming", ordinal |-> 1,
                                    revision |-> workflow.revision]]
    /\ UNCHANGED <<rows, requests, disruptions>>

ClaimStep(c) ==
    /\ call[c].pc = "claiming"
    /\ workflow.revision = call[c].revision
    /\ WorkflowBecomes(workflow.status, workflow.linked)
    /\ StepBecomes("RUNNING", "live")
    /\ call' = [call EXCEPT ![c] = [pc |-> "finding", ordinal |-> 1,
                                    revision |-> step.revision + 1]]
    /\ UNCHANGED <<project, batch, chapter, requests, disruptions>>

LoseClaim(c) ==
    /\ call[c].pc = "claiming"
    /\ workflow.revision # call[c].revision
    /\ Goes(c, "idle")
    /\ UNCHANGED <<rows, requests, disruptions>>

-----------------------------------------------------------------------------
(* _create_candidate_batch, up to the batch. *)

\* _require_candidate_lease: the lease is this process's, whichever call's.
LeaseHeld == step.status = "RUNNING" /\ step.lease = "live"

\* Where the status of the batch found leads.
Found == CASE batch \in Decided             -> "closing"
           [] batch = "draft"               -> "linking"
           [] batch = "ready_for_review"    -> "saving"
           [] batch = "none"                -> "creating"

FindBatch(c) ==
    /\ call[c].pc = "finding"
    /\ Goes(c, IF LeaseHeld THEN Found ELSE "idle")
    /\ UNCHANGED <<rows, requests, disruptions>>

\* BatchService.create for a workflow: the conditions of its UPDATE of the
\* project, and the uniqueness of source_workflow_id.
CanCreate ==
    /\ batch = "none"
    /\ ~project.active
    /\ project.current
    /\ project.owned
    /\ workflow.status = "CREATING_CANDIDATE_BATCH"

CreateBatch(c) ==
    /\ call[c].pc = "creating"
    /\ CanCreate
    /\ batch' = "draft"
    /\ project' = [project EXCEPT !.active = TRUE]
    /\ Goes(c, "linking")
    /\ UNCHANGED <<workflow, step, chapter, requests, disruptions>>

\* create fails; the orchestrator looks for a batch that another call created.
FailToCreate(c) ==
    /\ call[c].pc = "creating"
    /\ ~CanCreate
    /\ Goes(c, "rechecking")
    /\ UNCHANGED <<rows, requests, disruptions>>

Recheck(c) ==
    /\ call[c].pc = "rechecking"
    /\ Goes(c, IF batch = "none" THEN "idle" ELSE Found)
    /\ UNCHANGED <<rows, requests, disruptions>>

-----------------------------------------------------------------------------
(* reconcile_batch_decision. *)

\* The workflow status that the batch's status calls for.
Target == CASE batch = "approved"         -> "COMPLETED"
            [] batch = "rejected"         -> "REJECTED"
            [] batch = "ready_for_review" -> "AWAITING_CONTENT_APPROVAL"
            [] OTHER                      -> "CREATING_CANDIDATE_BATCH"

\* Fault: a pause is never closed by a decision.
NoPausedDecision == FALSE

\* paused_candidate_decision: the one way past the transition table.
PausedDecision ==
    /\ workflow.status = "PAUSED_STALE_VERSION"
    /\ batch \in Decided
    /\ step.status = "PAUSED"
    /\ step.lease = "none"

UpdatesStep ==
    batch # "draft" /\ (step.status \in {"PENDING", "RUNNING"} \/ PausedDecision)

AlreadyReconciled ==
    /\ workflow.status = Target /\ workflow.linked
    /\ workflow.status \in Terminal \/ ~UpdatesStep

Reconcilable ==
    /\ ~AlreadyReconciled
    /\ workflow.status \notin Terminal
    /\ PausedDecision \/ Target \in AllowedTransitions[workflow.status]

\* Fault: the project is released with the batch still undecided.
ReconcileReleasingEarly ==
    /\ WorkflowBecomes(Target, TRUE)
    /\ IF UpdatesStep THEN StepBecomes("COMPLETED", "none") ELSE UNCHANGED step
    /\ project' = [project EXCEPT !.owned = batch = "draft"]
    /\ UNCHANGED <<batch, chapter>>

\* The write transaction.
ReconcileWrites ==
    /\ WorkflowBecomes(Target, TRUE)
    /\ IF UpdatesStep THEN StepBecomes("COMPLETED", "none") ELSE UNCHANGED step
    /\ project' = [project EXCEPT !.owned = @ /\ batch \notin Decided]
    /\ UNCHANGED <<batch, chapter>>

\* Call c reconciles, and goes on at pc unless a ValueError ends it.
Reconcile(c, pc) ==
    \/ /\ batch = "none" \/ AlreadyReconciled
       /\ Goes(c, pc)
       /\ UNCHANGED rows
    \/ /\ batch # "none" /\ Reconcilable
       /\ ReconcileWrites
       /\ Goes(c, pc)
    \/ /\ batch # "none" /\ ~AlreadyReconciled /\ ~Reconcilable
       /\ Goes(c, "idle")
       /\ UNCHANGED rows

LinkBatch(c) ==
    /\ call[c].pc = "linking"
    /\ Reconcile(c, "saving")
    /\ UNCHANGED <<requests, disruptions>>

-----------------------------------------------------------------------------
(* The copies. *)

\* Fault: one chapter too many is looked for.
SavedOneTooMany(c) ==
    call' = [call EXCEPT ![c].ordinal = IF @ > Chapters THEN 1 ELSE @ + 1,
                         ![c].pc = IF call[c].ordinal > Chapters THEN "marking"
                                                                ELSE "saving"]

\* The chapter is there: the loop goes on to the next one.
SavedOne(c) ==
    call' = [call EXCEPT ![c].ordinal = IF @ = Chapters THEN 1 ELSE @ + 1,
                         ![c].pc = IF call[c].ordinal = Chapters THEN "marking"
                                                                ELSE "saving"]

\* The loop's lookup, and save_candidate_chapter up to its INSERT.
LookUpChapter(c) ==
    LET row == chapter[call[c].ordinal] IN
    /\ call[c].pc = "saving"
    /\ IF row.status # "absent"
       THEN IF row.body = "artifact" THEN SavedOne(c) ELSE Goes(c, "idle")
       ELSE Goes(c, IF batch = "draft" THEN "inserting" ELSE "idle")
    /\ UNCHANGED <<rows, requests, disruptions>>

\* Fault: the row of an ordinal is written whether or not one is there.
CanInsertTwice(c) == TRUE

\* The uniqueness of (batch_id, ordinal).
CanInsert(c) == chapter[call[c].ordinal].status = "absent"

\* The INSERT compares nothing else.
InsertChapter(c) ==
    /\ call[c].pc = "inserting"
    /\ IF CanInsert(c)
       THEN chapter' = [chapter EXCEPT ![call[c].ordinal] = NewChapter]
            /\ SavedOne(c)
       ELSE UNCHANGED chapter /\ Goes(c, "idle")
    /\ UNCHANGED <<workflow, step, project, batch, requests, disruptions>>

-----------------------------------------------------------------------------
(* mark_ready, by the orchestrator and by the author. *)

\* Fault: a batch may be submitted with a chapter missing.
CompleteUpToOne(cs) ==
    \A o \in Ordinals \ {Chapters} : cs[o].status # "absent"

\* _validate_planned_chapters and _validate_visible_counts.
Complete(cs) ==
    \A o \in Ordinals : cs[o].status # "absent" /\ Valid(cs[o].body)

\* What the orchestrator does with the batch once the chapters are saved.
ReadReady(c) ==
    /\ call[c].pc = "marking"
    /\ Goes(c, CASE batch \in Decided          -> "closing"
                 [] batch = "ready_for_review" -> "checking"
                 [] OTHER -> IF Complete(chapter) THEN "readying" ELSE "idle")
    /\ UNCHANGED <<rows, requests, disruptions>>

\* The author's request, which any thread may serve.
AskReady(c) ==
    /\ call[c].pc = "idle"
    /\ batch = "draft" /\ Complete(chapter)
    /\ Goes(c, "asking")
    /\ UNCHANGED <<rows, requests, disruptions>>

\* Fault: mark_ready's UPDATE compares neither the status nor the project.
CanMarkReadyAlways == TRUE

\* mark_ready's UPDATE compares the batch and the project, not the chapters.
CanMarkReady == batch = "draft" /\ project.active

MarkReady(c) ==
    /\ call[c].pc \in {"readying", "asking"}
    /\ IF CanMarkReady
       THEN batch' = "ready_for_review"
            /\ Goes(c, IF call[c].pc = "readying" THEN "marking" ELSE "idle")
       ELSE UNCHANGED batch /\ Goes(c, "idle")
    /\ UNCHANGED <<workflow, step, project, chapter, requests, disruptions>>

-----------------------------------------------------------------------------
(* The end of _create_candidate_batch. *)

CheckLease(c) ==
    /\ call[c].pc = "checking"
    /\ Goes(c, IF LeaseHeld THEN "finishing" ELSE "idle")
    /\ UNCHANGED <<rows, requests, disruptions>>

\* The final reconciliation, or _reconcile_terminal_candidate.
Finish(c) ==
    /\ call[c].pc \in {"finishing", "closing"}
    /\ Reconcile(c, "idle")
    /\ UNCHANGED <<requests, disruptions>>

\* The process stops.
AbandonCall(c) ==
    /\ call[c].pc # "idle"
    /\ Disruption
    /\ Goes(c, "idle")
    /\ UNCHANGED <<rows, requests>>

\* The claim that made the lease is at work still.
LeaseInUse ==
    \E c \in Calls : call[c].pc \in Working /\ call[c].revision = step.revision

LeaseLapses ==
    /\ step.lease = "live"
    /\ step' = [step EXCEPT !.lease = "lapsed"]
    /\ IF LeaseInUse THEN Disruption ELSE UNCHANGED disruptions
    /\ UNCHANGED <<workflow, project, batch, chapter, call, requests>>

-----------------------------------------------------------------------------
(* The author. *)

\* BatchService.reject.
RejectBatch ==
    /\ batch \in Undecided
    /\ project.active
    /\ batch' = "rejected"
    /\ project' = [project EXCEPT !.active = FALSE]
    /\ UNCHANGED <<workflow, step, chapter, call, requests, disruptions>>

\* BatchService.approve up to its first UPDATE: the chapters as read.
ReadApproval ==
    /\ approval = NoApproval
    /\ batch = "ready_for_review"
    /\ project.current
    /\ Complete(chapter)
    /\ \A o \in Ordinals : chapter[o].status = "candidate"
    /\ approval' = chapter
    /\ UNCHANGED <<rows, call, edit, edits, disruptions>>

\* Faults: the chapters, or the outline, are not compared again.
CanApproveUnreadChapters ==
    batch = "ready_for_review" /\ project.active /\ project.current
CanApproveOnAnyOutline ==
    batch = "ready_for_review" /\ project.active /\ chapter = approval

\* The conditions of the UPDATEs of the batch, the project and the chapters:
\* a chapter is compared by its status, revision, body and count.
CanApprove ==
    /\ batch = "ready_for_review"
    /\ project.active
    /\ project.current
    /\ chapter = approval

\* The promotion of the chapters, numbered from next_official_chapter_number.
Promoted(o) ==
    [status |-> "official", body |-> chapter[o].body,
     number |-> project.next + o - 1, revision |-> chapter[o].revision + 1]

ApproveBatch ==
    /\ approval # NoApproval
    /\ CanApprove
    /\ batch' = "approved"
    /\ project' = [project EXCEPT !.active = FALSE, !.next = @ + Chapters]
    /\ chapter' = [o \in Ordinals |-> Promoted(o)]
    /\ approval' = NoApproval
    /\ UNCHANGED <<workflow, step, call, edit, edits, disruptions>>

\* The approval conflicts.  One of approve's three attempts after the first is
\* a request that reads again.
LoseApproval ==
    /\ approval # NoApproval
    /\ ~CanApprove
    /\ approval' = NoApproval
    /\ UNCHANGED <<rows, call, edit, edits, disruptions>>

\* replace_candidate_body up to its UPDATE.  The batch is not asked.
ReadEdit(o, body) ==
    /\ edit = NoEdit
    /\ edits < MaxEdits
    /\ chapter[o].status = "candidate"
    /\ edit' = [ordinal |-> o, revision |-> chapter[o].revision, body |-> body]
    /\ edits' = edits + 1
    /\ UNCHANGED <<rows, call, approval, disruptions>>

\* Fault: the UPDATE finds the chapter by its id alone.
CanEditById == TRUE

CanEdit ==
    /\ chapter[edit.ordinal].status = "candidate"
    /\ chapter[edit.ordinal].revision = edit.revision

ReplaceCandidateBody ==
    /\ edit # NoEdit
    /\ chapter' = IF CanEdit
                  THEN [chapter EXCEPT ![edit.ordinal].body = edit.body,
                                       ![edit.ordinal].revision = @ + 1]
                  ELSE chapter
    /\ edit' = NoEdit
    /\ UNCHANGED <<workflow, step, project, batch, call, approval, edits,
                   disruptions>>

PublishChapter(o) ==
    /\ chapter[o].status = "official"
    /\ chapter' = [chapter EXCEPT ![o].status = "published", ![o].revision = @ + 1]
    /\ UNCHANGED <<workflow, step, project, batch, call, requests, disruptions>>

\* The author's POST /workflows/{id}/reconcile.
Synchronise ==
    /\ batch # "none" /\ Reconcilable
    /\ ReconcileWrites
    /\ UNCHANGED <<call, requests, disruptions>>

\* Fault: a pause with a candidate batch can be cancelled.
CanCancelWithBatch == workflow.status = "PAUSED_STALE_VERSION" /\ project.owned

CanCancel ==
    /\ workflow.status = "PAUSED_STALE_VERSION"
    /\ ~workflow.linked
    /\ batch = "none"
    /\ project.owned
    /\ ~project.active

Cancel ==
    /\ CanCancel
    /\ WorkflowBecomes("CANCELLED", workflow.linked)
    /\ project' = [project EXCEPT !.owned = FALSE]
    /\ UNCHANGED <<step, batch, chapter, call, requests, disruptions>>

\* OutlineService.approve makes another version official.
ApproveOutline ==
    /\ project.current
    /\ project' = [project EXCEPT !.current = FALSE]
    /\ UNCHANGED <<workflow, step, batch, chapter, call, requests, disruptions>>

-----------------------------------------------------------------------------

Claim(c) == ReadClaim(c) \/ ClaimStep(c) \/ LoseClaim(c)

Work(c) ==
    \/ FindBatch(c) \/ CreateBatch(c) \/ FailToCreate(c) \/ Recheck(c)
    \/ LinkBatch(c) \/ LookUpChapter(c) \/ InsertChapter(c)
    \/ ReadReady(c) \/ MarkReady(c) \/ CheckLease(c) \/ Finish(c)

Author ==
    \/ \E c \in Calls : AskReady(c)
    \/ RejectBatch \/ ReadApproval \/ ApproveBatch \/ LoseApproval
    \/ \E o \in Ordinals, body \in Bodies : ReadEdit(o, body)
    \/ ReplaceCandidateBody
    \/ \E o \in Ordinals : PublishChapter(o)
    \/ Synchronise \/ Cancel

Next ==
    \/ \E c \in Calls : RecoverExpiredClaims(c) \/ PauseStaleWorkflow(c)
                        \/ Claim(c) \/ Work(c) \/ AbandonCall(c)
    \/ LeaseLapses
    \/ Author
    \/ ApproveOutline

Spec == Init /\ [][Next]_vars

\* The author keeps pressing Run and Synchronise, a call that does not die
\* goes on, and the clock moves.
Fairness ==
    /\ \A c \in Calls :
          /\ WF_vars(RecoverExpiredClaims(c))
          /\ WF_vars(PauseStaleWorkflow(c))
          /\ WF_vars(Claim(c))
          /\ WF_vars(Work(c))
    /\ WF_vars(LeaseLapses /\ ~LeaseInUse)
    /\ WF_vars(Synchronise)

FairSpec == Spec /\ Fairness

-----------------------------------------------------------------------------
(* Properties. *)

\* Every variable has its type: the domains of the columns.
TypeOK ==
    /\ workflow \in WorkflowRows
    /\ step \in StepRows
    /\ project \in ProjectRows
    /\ batch \in {"none"} \cup Undecided \cup Decided
    /\ chapter \in [Ordinals -> ChapterRows]
    /\ call \in [Calls -> CallRows]
    /\ approval \in [Ordinals -> ChapterRows]
    /\ edit \in [ordinal : 0 .. Chapters, revision : Nat, body : Bodies]
    /\ edits \in 0 .. MaxEdits
    /\ disruptions \in 0 .. MaxDisruptions

\* The workflow and the author's decision never contradict each other, however
\* the decision and the calls that carry it to the workflow are interleaved.
OutcomesAgree ==
    /\ workflow.status = "COMPLETED" => batch = "approved"
    /\ workflow.status = "REJECTED" => batch = "rejected"
    /\ workflow.status = "CANCELLED" => batch = "none"
    /\ workflow.status = "AWAITING_CONTENT_APPROVAL" =>
          batch \in Decided \cup {"ready_for_review"} /\ workflow.linked
    /\ workflow.linked => batch # "none"

\* The project is held by the workflow until the workflow ends and by the batch
\* until the author decides, so never by an undecided batch alone.
ProjectHeld ==
    /\ project.owned <=> workflow.status \notin Terminal
    /\ project.active <=> batch \in Undecided
    /\ project.active => project.owned

\* Chapters are official exactly when the author approved the batch: all of
\* them, of a valid length although bodies may be replaced at any moment, and
\* numbered one after the other.
OfficialTextIsApproved ==
    \A o \in Ordinals :
        /\ chapter[o].status \in {"official", "published"} <=> batch = "approved"
        /\ batch = "approved" =>
              /\ Valid(chapter[o].body)
              /\ chapter[o].number = o
              /\ project.next = Chapters + 1

\* No batch is submitted, and none approved, with a chapter missing.
SubmittedBatchIsWhole ==
    batch \in {"ready_for_review", "approved"} =>
        \A o \in Ordinals : chapter[o].status # "absent"

\* There is a way on from every state that is not an end: the step can be
\* claimed or its lease given up; the batch can be decided; a pause can be
\* cancelled, or closed by the decision on the batch.
WayOut ==
    /\ workflow.status = "CREATING_CANDIDATE_BATCH" =>
          \/ step.status = "PENDING" /\ step.lease = "none"
          \/ step.status = "RUNNING" /\ step.lease # "none"
    /\ workflow.status = "AWAITING_CONTENT_APPROVAL" => step.status = "COMPLETED"
    /\ workflow.status = "PAUSED_STALE_VERSION" =>
          \/ CanCancel
          \/ batch \in Undecided /\ project.active
          \/ batch \in Decided /\ Reconcilable
    /\ batch \in Decided =>
          AlreadyReconciled \/ Reconcilable

\* The author's decision, and the end of the workflow, are final: no call that
\* is late, of whatever lease, changes them.
DecisionsAreFinal ==
    [][ /\ batch \in Decided => batch' = batch
        /\ workflow.status \in Terminal => UNCHANGED <<workflow, step>> ]_vars

\* Official and published text is frozen, whatever a request read before.
OfficialTextIsFrozen ==
    [][ \A o \in Ordinals : chapter[o].status \in {"official", "published"} =>
            /\ chapter'[o].body = chapter[o].body
            /\ chapter'[o].number = chapter[o].number ]_vars

\* Text becomes official only on the outline that the batch was made for.
ApprovedOnCurrentOutline ==
    [][ batch' = "approved" /\ batch # "approved" => project.current ]_vars

\* A chapter that was saved is not saved again: after a crash, or beside
\* another call, the copy resumes where it was.
ChaptersAreCopiedOnce ==
    [][ \A o \in Ordinals : chapter[o].status # "absent" =>
            \/ chapter'[o] = chapter[o]
            \/ chapter'[o].revision = chapter[o].revision + 1 ]_vars

\* "Candidate chapters can only be saved to draft batches", the error message
\* of save_candidate_chapter says.
ChaptersAreSavedToDrafts ==
    [][ (\E o \in Ordinals : chapter[o].status = "absent"
                             /\ chapter'[o].status # "absent")
        => batch = "draft" ]_vars

\* However one call dies or one lease lapses, a workflow whose chapters are not
\* being edited leaves its candidate step.
CandidateSettles ==
    workflow.status = "CREATING_CANDIDATE_BATCH"
        ~> workflow.status # "CREATING_CANDIDATE_BATCH"

\* Once the author has decided the batch, the project becomes free.
DecisionFreesProject == batch \in Decided ~> ~project.owned

\* What became of the generated text.
TextOf == CASE batch = "none"       -> "none"
            [] batch \in Undecided  -> "candidate"
            [] batch = "approved"   -> "official"
            [] batch = "rejected"   -> "rejected"

Gates == INSTANCE AuthorGates
             WITH plan <- "approved", writing <- TRUE, text <- TextOf,
                  held <- project.owned

\* The promise made to the author, from the candidate step on: the text is
\* offered and decided once, and the project is held until then.
ImplementsAuthorGates == Gates!FromCandidateStep
=============================================================================
