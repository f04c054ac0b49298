-------------------------- MODULE ProjectOwnership --------------------------
(***************************************************************************)
(* One project with everything that competes for it: workflows started and *)
(* ended, batches created by hand or by a workflow, outlines approved and  *)
(* constitutions added meanwhile.  All of them meet in one row of          *)
(* novel_projects, which each operation compares and sets in its           *)
(* transaction.                                                            *)
(*                                                                         *)
(* OutlineVersions is composed with the operations of this module.  What   *)
(* happens inside a workflow is in WorkflowExecution, and inside a batch   *)
(* in CandidateBatch; here a workflow is only what it lets others do.      *)
(***************************************************************************)
EXTENDS OutlineVersions

CONSTANTS
    Sizes,                  \* planned_chapters, within 1 .. 5
    MaxConstitutions,       \* bounds: rows made in one behaviour
    MaxWorkflows,
    MaxBatches

ASSUME SizesAssumption == Sizes \subseteq 1 .. 5

VARIABLES
    project,        \* row of novel_projects, but its outline
    workflow,       \* rows of generation_workflows, in the order of start
    batch,          \* rows of writing_batches, in the order of creation
    request         \* what each session has read for start or create

ownershipVars == <<project, workflow, batch, request>>
vars == <<outlineVars, ownershipVars>>

-----------------------------------------------------------------------------

\* "stalled" is PAUSED_STALE_VERSION of the candidate step.
WorkflowRows == [status : {"generating", "creating", "waiting", "paused",
                           "stalled", "ended"},
                 base   : Nat]
BatchRows == [status   : {"draft", "ready_for_review", "approved", "rejected"},
              source   : Nat,       \* source_workflow_id, or 0
              base     : Nat,       \* base_outline_version_id
              sequence : Nat,       \* sequence_number
              size     : Sizes,     \* planned_chapters
              first    : Nat]       \* official number of its first chapter, or 0

NoRequest == [pc |-> "idle", constitution |-> 0, outline |-> 0, source |-> 0,
              sequence |-> 0]

Init ==
    /\ OutlineInit
    /\ project = [constitution |-> 0,   \* current_constitution_version_id
                  constitutions |-> 0,  \* versions made so far
                  workflow |-> 0,       \* active_workflow_id
                  batch |-> 0,          \* active_batch_id
                  sequence |-> 1,       \* next_batch_sequence
                  chapter |-> 1]        \* next_official_chapter_number
    /\ workflow = <<>>
    /\ batch = <<>>
    /\ request = [s \in Sessions |-> NoRequest]

Free(s) == request[s] = NoRequest /\ revising[s] = NoRevision

RequestGoes(s, r) == request' = [request EXCEPT ![s] = r]

Undecided(b) == batch[b].status \in {"draft", "ready_for_review"}
BatchesOf(w) == {b \in DOMAIN batch : batch[b].source = w}

-----------------------------------------------------------------------------
(* ProjectService.add_constitution.  The number it read is compared by the *)
(* unique constraint of the INSERT, which holds the write lock until the   *)
(* pointer is set.                                                         *)

AddConstitution(approved) ==
    /\ project.constitutions < MaxConstitutions
    /\ LET new == project.constitutions + 1
       IN  project' = [project EXCEPT !.constitutions = new,
                                      !.constitution = IF approved THEN new ELSE @]
    /\ UNCHANGED <<outlineVars, workflow, batch, request>>

-----------------------------------------------------------------------------
(* WorkflowService.start *)

\* _read_valid_start_state, the second time: the first result must equal it.
ReadStart(s) ==
    /\ Free(s)
    /\ Len(workflow) < MaxWorkflows
    /\ project.batch = 0 /\ project.workflow = 0
    /\ project.constitution # 0
    /\ IsOfficial(official)
    /\ RequestGoes(s, [NoRequest EXCEPT !.pc = "starting",
                                        !.constitution = project.constitution,
                                        !.outline = official])
    /\ UNCHANGED <<outlineVars, project, workflow, batch>>

\* Fault: the UPDATE relies on what was read of the project's owners.
StartTrustsItsRead(r) ==
    /\ project.constitution = r.constitution
    /\ official = r.outline

\* The conditions of the UPDATE that takes ownership.
StartIsFree(r) ==
    /\ project.workflow = 0
    /\ project.batch = 0
    /\ project.constitution = r.constitution
    /\ official = r.outline

StartWorkflow(s) ==
    /\ request[s].pc = "starting"
    /\ Len(workflow) < MaxWorkflows
    /\ StartIsFree(request[s])
    /\ workflow' = Append(workflow, [status |-> "generating",
                                     base   |-> request[s].outline])
    /\ project' = [project EXCEPT !.workflow = Len(workflow) + 1]
    /\ RequestGoes(s, NoRequest)
    /\ UNCHANGED <<outlineVars, batch>>

RefuseStart(s) ==
    /\ request[s].pc = "starting"
    /\ ~StartIsFree(request[s])
    /\ RequestGoes(s, NoRequest)
    /\ UNCHANGED <<outlineVars, project, workflow, batch>>

-----------------------------------------------------------------------------
(* BatchService.create, by hand (source 0) or by a workflow's candidate    *)
(* step, which passes the workflow's base outline.                         *)

ReadCreate(s, source, outline) ==
    /\ Free(s)
    /\ Len(batch) < MaxBatches
    /\ IsOfficial(outline)
    /\ RequestGoes(s, [NoRequest EXCEPT !.pc = "creating",
                                        !.outline = outline,
                                        !.source = source,
                                        !.sequence = project.sequence])
    /\ UNCHANGED <<outlineVars, project, workflow, batch>>

ReadManualCreate(s) == ReadCreate(s, 0, official)

ReadGeneratedCreate(s) ==
    \E w \in DOMAIN workflow :
        /\ workflow[w].status = "creating"
        /\ BatchesOf(w) = {}
        /\ ReadCreate(s, w, workflow[w].base)

\* workflow_guard
WorkflowAllows(source) ==
    IF source = 0 THEN project.workflow = 0
    ELSE project.workflow = source /\ workflow[source].status = "creating"

\* The unique constraint on source_workflow_id.
SourceIsNew(source) == source = 0 \/ BatchesOf(source) = {}

CreateIsFree(r) ==
    /\ project.batch = 0
    /\ project.sequence = r.sequence
    /\ official = r.outline
    /\ WorkflowAllows(r.source)
    /\ SourceIsNew(r.source)

CreateBatch(s) ==
    /\ request[s].pc = "creating"
    /\ Len(batch) < MaxBatches
    /\ CreateIsFree(request[s])
    /\ \E n \in Sizes :
        batch' = Append(batch, [status   |-> "draft",
                                source   |-> request[s].source,
                                base     |-> request[s].outline,
                                sequence |-> request[s].sequence,
                                size     |-> n,
                                first    |-> 0])
    /\ project' = [project EXCEPT !.batch = Len(batch) + 1,
                                  !.sequence = request[s].sequence + 1]
    /\ RequestGoes(s, NoRequest)
    /\ UNCHANGED <<outlineVars, workflow>>

RefuseCreate(s) ==
    /\ request[s].pc = "creating"
    /\ ~CreateIsFree(request[s])
    /\ RequestGoes(s, NoRequest)
    /\ UNCHANGED <<outlineVars, project, workflow, batch>>

-----------------------------------------------------------------------------
(* Decisions on a batch.  Each UPDATE compares the status it has read.     *)

MarkReady(b) ==
    /\ batch[b].status = "draft"
    /\ project.batch = b
    /\ batch' = [batch EXCEPT ![b].status = "ready_for_review"]
    /\ UNCHANGED <<outlineVars, project, workflow, request>>

\* Fault: the reservation does not move the project's chapter counter.
ReservationForgotten(b) == project.chapter

\* next_official_chapter_number after the approval of b.
NumberAfter(b) == project.chapter + batch[b].size

\* The row of the project still names b and no later batch.
HoldsProject(b) ==
    /\ project.batch = b
    /\ project.sequence = batch[b].sequence + 1

ApproveBatch(b) ==
    /\ batch[b].status = "ready_for_review"
    /\ IsOfficial(batch[b].base) /\ official = batch[b].base
    /\ HoldsProject(b)
    /\ batch' = [batch EXCEPT ![b].status = "approved",
                              ![b].first = project.chapter]
    /\ project' = [project EXCEPT !.batch = 0, !.chapter = NumberAfter(b)]
    /\ UNCHANGED <<outlineVars, workflow, request>>

RejectBatch(b) ==
    /\ Undecided(b)
    /\ HoldsProject(b)
    /\ batch' = [batch EXCEPT ![b].status = "rejected"]
    /\ project' = [project EXCEPT !.batch = 0]
    /\ UNCHANGED <<outlineVars, workflow, request>>

-----------------------------------------------------------------------------
(* A workflow, as far as it touches the project. *)

WorkflowGoes(w, from, to) ==
    /\ workflow[w].status \in from
    /\ workflow' = [workflow EXCEPT ![w].status = to]

\* A provider failed, the context overflows, or the outline is stale; and the
\* resumption of the first two (which of them it was is not kept).
PauseWorkflow(w) ==
    /\ \/ WorkflowGoes(w, {"generating"}, "paused")
       \/ WorkflowGoes(w, {"paused"}, "generating")
       \/ official # workflow[w].base /\ WorkflowGoes(w, {"creating"}, "stalled")
    /\ UNCHANGED <<outlineVars, project, batch, request>>

\* complete_attempt accepts the review on the current outline.
AcceptReview(w) ==
    /\ official = workflow[w].base
    /\ WorkflowGoes(w, {"generating"}, "creating")
    /\ UNCHANGED <<outlineVars, project, batch, request>>

\* UPDATE novel_projects ... WHERE active_workflow_id = w.
Released(w) == IF project.workflow = w THEN [project EXCEPT !.workflow = 0]
                                       ELSE project

RejectPlan(w) ==
    /\ WorkflowGoes(w, {"generating"}, "ended")
    /\ project.workflow = w
    /\ project' = Released(w)
    /\ UNCHANGED <<outlineVars, batch, request>>

\* Fault: a workflow is cancelled without a look at its batch.
CancelSeesNoBatch(w) == project.workflow = w

\* _cancel_predicates, but the status.
MayCancel(w) ==
    /\ BatchesOf(w) = {}
    /\ project.workflow = w
    /\ project.batch = 0

Cancel(w) ==
    /\ WorkflowGoes(w, {"paused", "stalled"}, "ended")
    /\ MayCancel(w)
    /\ project' = Released(w)
    /\ UNCHANGED <<outlineVars, batch, request>>

\* reconcile_batch_decision: a batch that is ready is linked, a decision ends
\* the workflow, a draft changes nothing here.
Reconcile(w) ==
    \E b \in BatchesOf(w) :
        /\ \/ /\ batch[b].status = "ready_for_review"
              /\ WorkflowGoes(w, {"creating"}, "waiting")
              /\ UNCHANGED project
           \/ /\ ~Undecided(b)
              /\ WorkflowGoes(w, {"creating", "waiting", "stalled"}, "ended")
              /\ project' = Released(w)
        /\ UNCHANGED <<outlineVars, batch, request>>

-----------------------------------------------------------------------------

\* A session has one request at a time.
ReviseOutline(s) ==
    /\ request[s] = NoRequest
    /\ OutlineStep(s)
    /\ UNCHANGED ownershipVars

SessionStep(s) ==
    \/ ReviseOutline(s)
    \/ ReadStart(s) \/ StartWorkflow(s) \/ RefuseStart(s)
    \/ ReadManualCreate(s) \/ ReadGeneratedCreate(s)
    \/ CreateBatch(s) \/ RefuseCreate(s)

BatchStep(b) == MarkReady(b) \/ ApproveBatch(b) \/ RejectBatch(b)

WorkflowStep(w) ==
    \/ PauseWorkflow(w) \/ AcceptReview(w)
    \/ RejectPlan(w) \/ Cancel(w) \/ Reconcile(w)

Next ==
    \/ \E approved \in BOOLEAN : AddConstitution(approved)
    \/ \E s \in Sessions : SessionStep(s)
    \/ \E b \in DOMAIN batch : BatchStep(b)
    \/ \E w \in DOMAIN workflow : WorkflowStep(w)

Spec == Init /\ [][Next]_vars

-----------------------------------------------------------------------------
(* Properties *)

ProjectRows == [constitution : 0 .. project.constitutions, constitutions : Nat,
                workflow : 0 .. Len(workflow), batch : 0 .. Len(batch),
                sequence : Nat, chapter : Nat]
Requests == [pc : {"idle", "starting", "creating"}, constitution : Nat,
             outline : Nat, source : 0 .. Len(workflow), sequence : Nat]

\* Types of the rows and of what sessions remember.
TypeOK ==
    /\ OutlineTypeOK
    /\ project \in ProjectRows
    /\ workflow \in Seq(WorkflowRows)
    /\ batch \in Seq(BatchRows)
    /\ request \in [Sessions -> Requests]

\* The two pointers of the project's row say exactly which rows are alive: a
\* workflow has not ended iff the project names it, a batch is undecided iff
\* the project names it, and a batch that is undecided belongs to the workflow
\* that is named, or to the author when none is.  So two sessions never both
\* start, and no batch is left that nobody may decide (services/workflows.py:
\* start, cancel; services/batches.py: create, reject, approve).
OwnershipAgrees ==
    /\ \A w \in DOMAIN workflow : workflow[w].status # "ended" <=> w = project.workflow
    /\ \A b \in DOMAIN batch :
        /\ Undecided(b) <=> b = project.batch
        /\ Undecided(b) => batch[b].source = project.workflow

\* Approved batches cover 1 .. n without a gap or an overlap, in the order of
\* their sequence numbers, which are themselves 1, 2, 3, ...
\* (services/batches.py: create, approve).
ChaptersAreConsecutive ==
    LET Approved == {b \in DOMAIN batch : batch[b].status = "approved"}
        End(b) == batch[b].first + batch[b].size
    IN  /\ \A b \in DOMAIN batch : batch[b].sequence = b
        /\ \A b \in Approved :
            \/ End(b) = project.chapter
            \/ \E c \in Approved : c > b /\ batch[c].first = End(b)
        /\ \A b, c \in Approved : b < c => End(b) <= batch[c].first
        /\ Approved # {} => \E b \in Approved : batch[b].first = 1

\* The rounds of SerialRounds, read off the rows.
Alive == {w \in DOMAIN workflow : workflow[w].status # "ended"}
Open == {b \in DOMAIN batch : Undecided(b)}

RoundOf == IF Alive # {} THEN "generated" ELSE IF Open # {} THEN "manual" ELSE "none"
DraftOf == IF Open # {} THEN "open"
           ELSE IF \E w \in Alive : BatchesOf(w) # {} THEN "decided" ELSE "none"

Rounds == INSTANCE SerialRounds WITH
    round <- RoundOf, draft <- DraftOf, chapters <- project.chapter - 1

\* The project is worked on in rounds, one at a time: a workflow never ends
\* over an open batch, it makes at most one batch, and nothing begins before
\* the round has ended (services/workflows.py, services/batches.py).
RoundsAreSerial == Rounds!Spec
=============================================================================
