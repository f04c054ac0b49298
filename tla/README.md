# AINovel in TLA+

AINovel is a FastAPI application that writes novels with language models under an
author's control. The author starts a *generation workflow*; agents plan a batch of
chapters, write and summarise them one after the other, and review the batch; the
author approves the plan before any chapter is written and the text before any
chapter becomes official. Everything is kept in SQLite, and the process may die, the
provider may be slow or fail, browsers may send the same request twice, and the author
may change the outline in the middle. This directory models that part of the program,
checks it with TLC and proves theorems about it with TLAPS.

Paths below are relative to `src/src/ainovel/`.

## 1. The system

### How it runs

Every web request is served by a thread with a session of its own. A service method
reads in autocommit mode and then makes one write transaction: conditional `UPDATE`s
whose row counts are checked, so that a writer that has read something stale fails.
SQLite (WAL) serialises the write transactions. The provider is called outside of any
transaction. `app.py` creates one `WorkflowOrchestrator`, so all threads of a process
share one worker id.

### Components

| Component | State | Operations | What makes it correct |
| --- | --- | --- | --- |
| Workflow execution (`services/workflows.py`, `models/workflow.py`) | workflow row (status, position, revision, token counters), step rows (status, attempt count, artifact, lease, revision), attempt rows, plan decision | start, claim_step, recover_expired_claims, record_attempt_start, pause_*, complete_attempt, fail_attempt, approve_plan, reject_plan, resume, reconcile_batch_decision, cancel | one holder per lease; late and stale answers are inert; steps complete in order; attempts are limited and counted; nothing is stranded |
| Orchestrator (`workflows/orchestrator.py`) | none that lasts, but what a call has read | advance, run_until_blocked, `_create_candidate_batch`, requests and evidence | a call may stop between any two of its transactions |
| Candidate batches (`services/batches.py`, `models/batch.py`) | batch row (status), chapter rows (status, body, revision, number), project row | create, save_candidate_chapter, replace_candidate_body, mark_ready, reject, approve, publish_chapter | official text is approved, complete, valid and frozen; one active batch per project |
| Outlines (`services/outlines.py`) | outline versions and nodes, the project's official version | create_candidate, approve, get_tree, compare | one official version; approval only from the current base |
| Projects and constitutions (`services/projects.py`) | project row, constitution versions | create, add_constitution | the row names exactly the workflow and the batch that are alive; chapters are numbered without gaps |
| Prompt registry (`services/prompts.py`) | versions, snapshots | ensure_builtins, create_version, activate, snapshot | one active version; a run keeps the snapshot it started with |
| Context index (`services/context.py`) | context entries and FTS rows | rebuild_official, index_workflow_artifact, search, candidates_for_step, build_packet | only accepted material; bounded memory windows |
| Context budget (`context/budget.py`) | none | pack, effective_input_capacity | required entries always, optional ones in order, never over the capacity |
| Agents (`agents/`) | none | run_with_response | an answer is a valid result or a classified failure |
| Providers (`providers/`) | HTTP clients | generate | errors are classified as retryable or not |
| Web layer (`web/`, `app.py`) | sessions | the author's requests | a conflict is reported and changes nothing |
| Counting, audit log, schema (`services/counting.py`, `models/audit.py`, `db.py`, alembic) | audit rows, tables | | |

### Interactions

The web layer calls the services and the orchestrator. The orchestrator calls
WorkflowService for every change of a workflow, BatchService for the candidate batch, and
the context index for packets. The components share the row of `novel_projects`:
`active_workflow_id`, `active_batch_id` and `official_outline_version_id` are written by
one and compared by the others. The author's decision on a batch reaches its workflow
only through `reconcile_batch_decision`, which the author or a later call of the
orchestrator makes.

### What is hard

* Several calls of `advance` on one workflow, under one worker id; leases that lapse
  under a call that is still at work; answers that come after the step was recovered.
* A process that dies between any two transactions.
* Facts that a method reads and its write does not compare (`claim_step` and
  `approve_plan` with the outline, `mark_ready` with the chapters,
  `save_candidate_chapter` with the batch).
* An outline that changes during a provider call, after a plan or during a review.
* A decision that overtakes the call that links the batch, or meets a paused workflow.
* Versions and numbers that are read before the row is inserted: outlines, prompts,
  constitutions, batches, official chapters.
* An index that is shared by calls and rebuilt by each of them, also by one that has lost
  its step.
* A request that raises when it is built: no attempt is recorded then, and so no limit
  applies.

PROJECT.json lists each hazard at its line with the properties that cover it.

## 2. Modules

| Module | What it is |
| --- | --- |
| `WorkflowExecution` | one workflow from the commit of `start` to the claim of its last step |
| `CandidateBatch` | that last step, the candidate batch and the author's second gate |
| `AuthorGates` | the abstract specification both implement: what the author is promised |
| `OutlineVersions` | the outline versions of a project and the sessions that make and approve them |
| `ProjectOwnership` | one project: its row, the workflows, batches and outlines that compete for it; extends `OutlineVersions` |
| `SerialRounds` | the abstract specification `ProjectOwnership` implements: one round of work at a time |
| `PromptRegistry` | prompt versions, activation, seeding, and the snapshots of workflows |
| `ContextIndex` | the context index and the calls that repair, rebuild and read it for their requests |
| `ContextBudget` | packing a request into the context window, and the second round that trims it |
| `MCWorkflowExecution`, `MCCandidateBatch`, `MCProjectOwnership`, `MCPromptRegistry`, `MCContextIndex`, `MCContextBudget` | instances for TLC |
| `WorkflowSafetyProofs` | types, the inductive invariant and the safety theorems of `WorkflowExecution` |
| `WorkflowActionProofs` | what no step of it does, the token ledger, and its refinement of `AuthorGates` |
| `CandidateBatchProofs` | types, invariant, safety, action properties and refinement of `CandidateBatch` |
| `OutlineVersionsProofs` | types, numbering and lineage of the outline versions |
| `ProjectOwnershipProofs` | ownership, numbering of chapters, refinement of `SerialRounds`; the outlines of a project are those of `OutlineVersions` |
| `PromptRegistryProofs` | soundness of the registry, and its two properties |
| `ContextBudgetProofs` | sums over sets of items, the packer's order, the invariant of both rounds |
| `ContextIndexProofs` | what a call knows at each place of its request, and that the request is informed |

### What an action is

An action is one committed write transaction together with the reads it depends on, or
a read whose result a later write uses without comparing it again. Folding the reads
into the write is sound when the conditions of the write cover them. For workflows this
rests on one fact: every transaction gives the workflow a new revision, so a write that
compares the revision compares everything the workflow, its steps and its attempts
were. `EveryWriteIsVersioned` states that, and it is proved. What the conditions
do not cover is split: `ReadClaim`/`ClaimStep`, `ReadPlan`/`ApprovePlan`,
`LookUpChapter`/`InsertChapter`, `ReadReady`/`MarkReady`, `ReadApproval`/`ApproveBatch`,
`ReadEdit`/`ReplaceCandidateBody`. A method that fails rolls back and is not a
step, or is a step of the call alone (`LoseClaim`, `FencedBeforeCall`, `FencedAfterCall`,
`FailToCreate`, ...).

### WorkflowExecution

Positions 0 .. 2N+2 stand for the steps PLANNING, WRITING and SUMMARIZING of each of N
chapters, REVIEWING, and CREATING_CANDIDATE_BATCH. `workflow`, `step` and `attempt` are
the rows; `lease` is `none`, `live` or `lapsed`, since only the comparison of
`lease_expires_at` with the clock matters. `spent` counts metered responses in place of
tokens. `call[c]` is what the c-th call of `advance` knows: the workflow row it read
for its claim, the step revision it claimed, or the attempt number it started;
`approval[r]` is the workflow row that the r-th request to approve the plan has read. Attempts
that the code marks FAILED with `stale_outline` are STALE here, because their tokens are
metered. An answer that comes after its attempt was recovered or its step was paused as
stale, or that fails validation, is recorded nowhere and metered nowhere, and `TokenLedger`
says no more. `owned` and `outlineCurrent` are the two facts of the project row that matter
to one workflow.

An exception that `advance` does not catch leaves what a dead process leaves, a claimed
step: that is `AbandonCall`. Under an attempt it may happen every time, for the recovered
attempt counts. Before an attempt there is an exception that need never stop: `sourceLost` says
that a source quoted by the review's evidence was replaced (`LoseSource`), and then
`RequestFails` may happen at every claim of the review. Other exceptions before an
attempt share the bound of the dead processes. Abstracted: contents of requests and artifacts, audit events, error
codes, and which worker id a lease names (there is one).

### CandidateBatch

The step starts PENDING in a workflow with status CREATING_CANDIDATE_BATCH, as
`complete_attempt` leaves it. A call goes through the program counter of
`_create_candidate_batch`: find or create the batch, link it, copy chapter by chapter,
mark it ready, check the lease, reconcile. Its lease checks know the worker id only, so
`LeaseHeld` does not mention the call: one whose lease lapsed goes on under the lease of
the thread that took over, and the run `candidate` shows that no row suffers from it. `Reconcile` is `reconcile_batch_decision` with
its three outcomes; the author's `Synchronise` is the same method. A chapter's body is
the artifact's copy, another valid text, or one too short. `approve`'s three attempts
are requests that read again.

### AuthorGates

Four variables: the decision on the plan, whether a model was asked to write, what became
of the text, and whether the project is held. The refinement mappings are
`Gates == INSTANCE AuthorGates WITH ...` in both modules, checked as
`ImplementsAuthorGates`.

### OutlineVersions and ProjectOwnership

`version` and `official` are the rows of `outline_versions` and the project's pointer;
`revising[s]` is what session `s` has read for `create_candidate` or `approve`: the base,
the next number, the status of the candidate. Each of these reads is an action of its
own, and so is the write, which the unique constraint (`NumberIsFree`) or the comparison
of the pointer (`PointerMatches`) guards. `ProjectOwnership` adds the other columns of
the project's row, the workflows and the batches, with `start` and `create` split at the
same place. What a workflow does inside is reduced to what it lets others do: generating,
creating its batch, waiting for the decision, paused, stalled (paused at its candidate
step by a new outline) or ended. `MayCancel` and the other guards are the conditions
of the code's UPDATEs, over all the rows. Inserting a constitution and pointing to it
is one transaction, so `AddConstitution` is one action.

`SerialRounds` knows a round, its draft and the number of official chapters; the
refinement mapping `Rounds` reads them off the rows.

### PromptRegistry

The rows of `prompt_versions` by role, in the order of insertion, with a body that is the
built-in one or the author's. `EnsureBuiltins` is one transaction (BEGIN IMMEDIATE), and
so is `TakeSnapshot`; between them, and between the reads and the writes of
`create_version` and `activate`, others act. The unique index on active rows is a part of
`StillAsRead`: with no active version to deactivate it is all that compares.

### ContextIndex

`index` is the set of rows of `context_sources`, each known by the type and id of its
source. A call goes through `_build_request`: it indexes summaries that a crash has left
out, looks for the evidence that a review asked for, reads its payload, rebuilds the
official part of the index (`ReadDesired`, `ReadExisting`, `Rebuild`: two reads, then a
transaction that applies their difference), collects candidates and stores them as a
packet. After `complete_attempt` it indexes its own summary. Every one of these is an action
of its own; leases lapse and calls crash between any two. What raises is the action
`Raise`, without a bound: an excerpt whose source is gone, a rebuild that breaks the
unique constraint, a packet whose rows went away. It leaves the step claimed and no attempt.

### ContextBudget

Items have the packer's sort key, a cost (what the packer charges) and a weight (what they
add to the serialized request). `Pack` and `Trim` are turns of the two loops. The
reference is independent of the loops: `Packing` is the set in which each item is there
iff it fits beside those of the set that come before it.

### Faults

Operators introduced by a comment "Fault:" are faulty variants of the definition that
follows them, at least one for each property: PROJECT.json pairs them, and with the variant
in place of the definition TLC finds the property violated. They are no part of the
specification. `RequestsAreInformed` has two, for it relates the index to the summaries and to
windows that are stated independently of the code's (`Recent` counts the chapters after one).

## 3. What TLC checks

| Run | Instance | States | Result |
| --- | --- | --- | --- |
| `execution` | 2 calls, 2 approval requests, 1 chapter (5 steps), 2 attempts, 2 disruptions | 452,835 | 11 invariants, 6 action properties and refinements hold |
| `liveness` | the same with 1 approval request and 1 disruption, fairness | 463,500 | `Settles` holds |
| `stale_plan` | 1 call | | `PlanApprovedOnCurrentOutline` is violated |
| `candidate` | 2 threads, 2 chapters, 1 edit, 2 disruptions | 1,369,240 | 6 invariants, 5 action properties and refinements hold |
| `candidate_liveness` | 2 threads, 2 chapters, no edits, 1 disruption, fairness | 55,361 | `CandidateSettles`, `DecisionFreesProject` hold |
| `ownership` | 2 sessions, 2 outlines, 2 constitutions, 2 workflows, 2 batches of 1 or 2 chapters | 775,196 | 3 invariants and the refinement of `SerialRounds` hold |
| `prompts` | 2 processes, 2 roles, 2 versions made by hand, 2 workflows | 515,626 | 1 invariant, 1 action property hold |
| `budget` | all triples of items with 2 layers, 2 relevances, 2 costs, 2 weights; 4 windows, 2 overheads | 1,302,528 | 2 invariants hold |
| `index` | 2 calls, 2 chapters, windows of 2 and 1, up to 3 earlier chapters, 2 constitutions, 2 lapses or crashes | 4,678,338 | `RequestsAreInformed` holds |
| `lost_evidence` | 1 call, 1 chapter, no earlier chapter, 2 constitutions, no lapse or crash, fairness | | `AnyStepRecovers` is violated |
| `stale_index` | 2 calls, 1 chapter, no earlier chapter | | `PacketIsNotOlderThanItsCall` is violated |
| `late_chapter` | 1 thread | | `ChaptersAreSavedToDrafts` is violated |

**Bounds.** Two calls are the least that can race; a third would only repeat what one of
them does, since all that calls share are the rows. One chapter already gives a
workflow every kind of step, and two chapters give the copying loop a beginning and an
end. `MaxStepAttempts` is the code's own value, 2. `MaxDisruptions` counts calls that die
outside an attempt, leases that lapse under a live call, and resumptions: two allow a
recovery of a recovery, and a lapse followed by a crash. In `execution` two requests to
approve the plan meet each other, rejections, cancellations and two calls. There `LosersFirst`,
an action constraint of the MC module, lets an approval or a claim whose UPDATE can no longer
succeed conflict at once. Its conflict changes no row; what it has read stays out of date, for
every write raises the revision; no other step depends on it, but for a call that could start
anew, and no property tells whether it has conflicted yet. So every behaviour has one of this kind that
passes through the same rows. The other runs have no such constraint. `MaxEdits` bounds the
author's replacements. `MaxRevision` bounds the claims of a step that is claimed and left
over and over: in `CandidateBatch` after an edit of an unfinished draft, in
`WorkflowExecution` while a review's request raises. There a workflow without disruptions
claims its review for the second time at revision 15, and 20 lets three claims in a row fail. The
theorems need none of these values.

In `ownership`, two of each kind of row are what a conflict needs: an approval that
overtakes another, a batch after one that was rejected or approved, a workflow after one
that ended. In `prompts`, two attempts make a retry and a last attempt, and the seeded
version comes on top of the two. In `budget` the sizes are chosen around one another, so that
capacity is filled exactly, missed by one token, or negative, and three items have the
orders that two rounds could confuse. In `index`, windows of two events and one summary over up to
three earlier chapters give chapters in both windows, in one and in none; one lapse lets
a stale call go on beside a new one, and the second one kills either; a claim that no call
works under lapses without being counted. Its
evidence is bounded to one query with at most one match, and attempts are not counted.
Calls that are left of an earlier workflow are not in it; nor is a change of the
outline, after which no call is made.

**Deadlock** is not checked: a workflow that ended, or one that waits for an author who
never answers, really stops.

**Fairness.** `FairSpec` assumes that the author keeps pressing Run (and Synchronise),
that a call which does not die goes on to its next transaction, that a provider
answers or times out (the HTTP clients have timeouts), and that the clock moves. It
assumes nothing of the author's decisions, and a lease under a live call need not lapse.
Processes die, and calls outlast their leases, only finitely often: with
`MaxDisruptions` unbounded a workflow may be interrupted for ever. An exception, unlike a
crash, can be due to the state and come again each time. Under an attempt it may do so in the
model; the attempts end it. In the building of a request it may too: going on means that a
call goes on *or raises* (`RequestFails` and `Raise` belong to what the fairness drives).
`ContextIndex` has those exceptions. A rebuild that clashes, and rows that go away between the
collection and the packet, need another call or an approval each time; the evidence whose source
was replaced needs nothing more, and the run `lost_evidence` shows a workflow that it holds up
for ever. `Settles` therefore makes it an exception: a workflow in review whose `sourceLost`
need not settle. The exceptions before an attempt that need something else to happen each time
(a clash, a database error) are among the disruptions of `WorkflowExecution`, finitely many.

### Findings

1. `approve_plan` compares the project's outline in its read and not in its UPDATE: a
   plan can be approved on an outline that was just superseded, against the design's
   "a stale session can only fail". The next claim pauses the workflow
   (`NoArtifactOnStaleOutline` holds), so no text is produced.
2. `save_candidate_chapter` can insert a chapter into a batch that was rejected after it
   read the batch, though "candidate chapters can only be saved to draft batches". The
   chapter never becomes official (`OfficialTextIsApproved` holds).
3. `rebuild_official` reads what the index should hold and what it holds before its
   transaction and compares neither with the claim of its step: a call whose lease lapsed
   can put back a constitution that was superseded meanwhile, and the packet of another
   call, which has already indexed the new one, carries the old one. The next rebuild
   repairs the index; the summaries and memory of a request are never affected
   (`RequestsAreInformed` holds).
4. A review whose evidence quotes a source that was replaced since (a constitution, after the
   approval of another) is never attempted again: `_ensure_review_evidence` raises at every
   claim, before an attempt is recorded, and `advance` does not catch it. The workflow stays
   `REVIEWING_BATCH`; it can be neither paused nor cancelled until the author approves a new
   outline. The design promises safe recovery at any step and an end of its own for errors that
   cannot be recovered. The run `lost_evidence` shows it.

## 4. What is proved

Every invariant, action property and refinement that a passing run checks is also a
theorem. The theorems hold for any sets of calls, requests, sessions, roles and items (of items,
any finite set) and for any number of chapters, attempts, edits, disruptions and versions,
from the assumptions that the modules name. Those say that counters and limits are natural
numbers, that a workflow has a chapter and a retry loop an attempt, that there is a role,
that the summary window is no longer than the event window, that a batch has 1 to 5
chapters (the code's own limit), and that costs, weights and limits of tokens are naturals
and but for reserves and margins positive. TLC checked each invariant below on the
instances of section 3, or a conjunction equivalent to it, before it was proved.

### WorkflowExecution

* `TypeCorrect`: the domains of all columns, by one step per action.
* `Inductive`: `IInv == TypeOK /\ Shape /\ Attempts /\ Fencing`. `Shape` relates the
  rows of the workflow and its steps: it joins `SequentialProgress`, `NeverStranded`,
  `OwnedUntilTerminal` and `AuthorGate`, none of which is inductive alone, with
  `RowFacts` (a completed step has an artifact, only a running step has a lease, the
  position leaves 0 with the approval, every pending approval has read a workflow that
  awaits one). The key consequence is that a RUNNING step is the current one of an
  executable workflow. `Attempts` ties attempt rows to the counters and the current
  step. `Fencing` says what a call's knowledge is worth: its claim revision is
  never ahead of the step's, no attempt runs while the revision is still the claim's,
  its attempt number is within the counter, and no two calls have the same claim or
  attempt. That is what the code relies on instead of a call identity in the lease.
* `LeaseIsExclusive`, `AtMostOneRunning`, `HistoryIsKept`, `RunningIsCurrent`,
  `ProgressIsSequential`, `NoStepStranded`, `AuthorGateHolds`, `OwnershipHolds` and
  `ClaimsAreFenced` follow from `IInv`.
* `WritesAreVersioned`, `ArtifactsNeedCurrentOutline`, `LateAnswersAreInert`,
  `CompletedStepsAreFinal` and `TransitionsAreAllowed` are the action properties, from
  `IInv` and the actions.
* `TokensAreCounted`: the counter of the workflow is the cardinality of the set of
  attempts whose response was recorded, accepted or stale; it says nothing of the answers that
  are dropped. The set is finite; a step that meters a response ends one RUNNING
  row, so the set gains exactly one member; every other step leaves the set as it is
  (`AttemptEndsRow`, `OneMoreAnswered`, `NothingAnswered`).
* `GatesAreKept`: `WorkflowExecution` implements `AuthorGates`.

### CandidateBatch

* `CandidateInductive`: `CInv == TypeOK /\ Outcomes /\ Texts /\ ReadFacts`. `Outcomes`
  adds to `OutcomesAgree` and `ProjectHeld` how the statuses of the workflow and its step
  go together. `Texts` joins `OfficialTextIsApproved` and `SubmittedBatchIsWhole`.
  `ReadFacts` says why what was read outside of a transaction may be relied on, for three
  different reasons: that the step is free is true while the workflow has the revision
  that was read, and the claim compares it; that no chapter is missing stays true because
  chapters are never removed; and the chapters that `approve` has validated are
  compared with the rows by its UPDATEs.
* `OutcomesNeverDisagree`, `ProjectStaysHeld`, `OfficialTextWasApproved`,
  `SubmittedBatchesAreWhole` and `NoCandidateStranded` (`WayOut`) follow from it.
* `DecisionsStay`, `ApprovalsAreCurrent`, `OfficialTextStays`, `ChaptersStayCopied`: the
  action properties, by the few actions that write a chapter or a decision.
* `CandidateKeepsGates`: the refinement of `AuthorGates`. With `GatesAreKept` the author's
  promise is proved on both sides of the claim of the last step; that a state
  `WorkflowExecution` reaches there is one `CandidateBatch` begins with is by inspection of
  the two modules.

### OutlineVersions and ProjectOwnership

* `OutlineLineage` and `OutlineNumbers`, from `OutlineInductive`: `OutlineInv` adds to the types
  and the two properties that a base is an older row, that what a session remembers of a
  row is still so (rows are never removed and bases never change), and that before the
  first approval all versions are candidates. The argument for an approval
  (`TargetIsCandidate`): the code reads that the version is a candidate before its
  transaction and does not compare it again; but its base is official still, and had the
  version been approved meanwhile, its base would be superseded.
* `OutlinesAreAlone`: the steps of `ProjectOwnership` are steps of `OutlineVersions` or leave its
  variables alone; hence `ProjectLineage`, the same property of the composition, which is
  what the run `ownership` checks.
* `OwnershipIsOne` and `ChaptersAreNumbered`, from `ProjectInductive`. `OwnershipAgrees` is not
  inductive: it needs `Sources`, by which a workflow has one batch at most, and none while it
  still generates or is paused before its candidate step (the unique `source_workflow_id`
  and the status that `create` compares). The numbering needs `Counters`: the project's
  next chapter is beyond every approved batch, and 1 before the first.
* `RoundsComeSerially`: the refinement of `SerialRounds`; each action is a step of the round
  that the rows show, or a stutter.

### PromptRegistry

* `StartsFindPrompts` and `ActiveIsKept`, from `RegistryInductive`. The rows of a role are
  `Sound`: numbers are indices, and one row is active at most. What a session `Remembers`
  is monotone: rows are never removed, and a role that has had an active version has one for
  ever, since an activation only replaces it. That is why a start may seed in one
  transaction and take its snapshot in another.

### ContextBudget

* `SumFacts` and the lemmas before it: the sum over a set of items is the fold of the
  community modules. That the function behind it exists, and does not depend on the order of
  choice, is an induction over cardinality; `SetInduction` states it for sets of natural
  numbers instead of predicates, which is what the provers can use. An item more is
  charged and weighed for itself.
* `PackingUnique`: the packer's order is strict and total, and so at most one set is the
  greedy packing.
* `SentRequestsFit` and `PacketsAreCutLeast`, from `BudgetInductive`. While packing, what was
  taken from the queue comes before the rest of it and was selected exactly where it
  fits beside what was selected before (`PackedSoFar`), so the packing is complete when the queue is empty.
  While trimming, what was taken out is optional, comes last, and the request was too
  large with the last of it (`Trimmed`).

### ContextIndex

* `SentRequestsAreInformed`, from `IndexInductive`. The invariant `XInv` says for each place
  in `_build_request` what a call may rely on. The summaries in the index are those of
  completed steps (`Shared`), none ever leaves it, and after the repair those that the
  request needs are there (`RepairInv`). A call that holds the claim works on
  the current step (`ClaimInv`), so it does not see later summaries. The memory in
  the index is right after any rebuild, also one whose reads are old: until the first
  rebuild all calls have seen the same rows, and then all of them write the same
  (`MemoryInv`). That the code's window (a number beyond the length less the limit) is the one
  the property states (fewer than so many chapters after it) is `WindowFacts`, by the
  cardinality of an interval. The constitution has no such argument; the run `stale_index` shows why.

### What is only model-checked

`Settles`, `CandidateSettles` and `DecisionFreesProject`: liveness under
fairness, which TLAPS does not prove. The four violations are TLC counterexamples.

## 5. Plan

What is worth modelling is modelled (section 6 names the rest), and what the runs check
and can be proved is proved. What is left:

1. The hand-over between `WorkflowExecution` and `CandidateBatch` as a theorem: the claim of
   the last step leaves the rows in a state that the second module begins with.
2. `ProjectOwnership` reduces a workflow to what it lets others do; that
   `WorkflowExecution` takes only the steps it allows a workflow could be a
   refinement of its own.
3. The safety part of the liveness properties: which action each waiting state enables, as far
   as it can be stated without ENABLED (`NeverStranded` and `WayOut` do so for two of
   them).

## 6. Not modelled

The content of prompts, packets and texts; JSON schemas and their validation; the checks
of an answer's content and the artifact that records them (a crash can leave it out, and
the reviewer's payload then makes it up; two calls may both write it, and the code reads
any); HTTP adapters; HTML pages, forms and CSRF; the trees of outline nodes, their
comparison and validation; full-text matching, hashes and excerpt offsets; audit events
(written in the transaction of each operation, read by no code that decides anything); the
counting of visible characters; how the errors of a provider are classified (any error may
be retryable or not); `run_until_blocked`, which only repeats `advance`; engine setup and
migrations but for the prompt tables.
