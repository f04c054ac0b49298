------------------------ MODULE CandidateBatchProofs ------------------------
(***************************************************************************)
(* What holds of the candidate step and of the author's second gate for    *)
(* every number of threads and chapters, and every number of edits, claims *)
(* and disruptions.                                                        *)
(***************************************************************************)
EXTENDS CandidateBatch, TLAPS

-----------------------------------------------------------------------------
(* The inductive invariant. *)

\* The statuses of the workflow and of its step go together, and the project's
\* chapter counter moves with the approval only.
RowFacts ==
    /\ workflow.status = "CREATING_CANDIDATE_BATCH" =>
          \/ step.status = "PENDING" /\ step.lease = "none"
          \/ step.status = "RUNNING" /\ step.lease # "none"
    /\ workflow.status = "AWAITING_CONTENT_APPROVAL" => step.status = "COMPLETED"
    /\ workflow.status = "PAUSED_STALE_VERSION" =>
          step.status = "PAUSED" /\ step.lease = "none"
    /\ workflow.status \in {"COMPLETED", "REJECTED"} => workflow.linked
    /\ workflow.status \in Terminal => step.status \notin {"PENDING", "RUNNING"}
    /\ step.lease # "none" => step.status = "RUNNING"
    /\ batch # "approved" => project.next = 1

\* What a thread or a request has read and relies on: that the step was free
\* holds while the workflow has the revision that was read; that no chapter is
\* missing, and that the chapters to approve are whole, holds for good.
Informed(c) ==
    /\ call[c].pc = "claiming" =>
          /\ call[c].revision <= workflow.revision
          /\ call[c].revision = workflow.revision =>
                /\ workflow.status = "CREATING_CANDIDATE_BATCH"
                /\ step.status = "PENDING"
    /\ call[c].pc \in {"readying", "asking"} =>
          \A o \in Ordinals : chapter[o].status # "absent"

ApprovalIsWhole ==
    approval # NoApproval =>
        \A o \in Ordinals :
            approval[o].status = "candidate" /\ Valid(approval[o].body)

ReadFacts == (\A c \in Calls : Informed(c)) /\ ApprovalIsWhole

Outcomes == OutcomesAgree /\ ProjectHeld /\ RowFacts
Texts == OfficialTextIsApproved /\ SubmittedBatchIsWhole
CInv == TypeOK /\ Outcomes /\ Texts /\ ReadFacts

-----------------------------------------------------------------------------
(* Lemmas about the operators the actions are built from. *)

BatchStatuses == {"none"} \cup Undecided \cup Decided
Places == {"idle", "claiming", "asking"} \cup Working

LEMMA OrdinalFacts ==
    /\ 1 \in Ordinals /\ Chapters \in Ordinals
    /\ Ordinals \subseteq Nat
    /\ \A o \in Ordinals : o # Chapters => o + 1 \in Ordinals
BY ChaptersAssumption DEF Ordinals

\* The rows, one column at a time.
LEMMA WorkflowColumns ==
    ASSUME TypeOK
    PROVE  /\ workflow.status \in Statuses /\ workflow.linked \in BOOLEAN
           /\ workflow.revision \in Nat
           /\ step.status \in {"PENDING", "RUNNING", "PAUSED", "COMPLETED"}
           /\ step.lease \in {"none", "live", "lapsed"} /\ step.revision \in Nat
           /\ project.owned \in BOOLEAN /\ project.active \in BOOLEAN
           /\ project.current \in BOOLEAN /\ project.next \in 1 .. Chapters + 1
           /\ batch \in BatchStatuses
BY DEF TypeOK, WorkflowRows, StepRows, ProjectRows, BatchStatuses

LEMMA ChapterColumns ==
    ASSUME NEW row \in ChapterRows
    PROVE  /\ row.status \in {"absent", "candidate", "official", "published"}
           /\ row.body \in Bodies /\ row.number \in 0 .. Chapters
           /\ row.revision \in Nat
BY DEF ChapterRows

LEMMA CallColumns ==
    ASSUME TypeOK, NEW c \in Calls
    PROVE  /\ call[c] \in CallRows
           /\ call[c].pc \in Places /\ call[c].ordinal \in Ordinals
           /\ call[c].revision \in Nat
BY DEF TypeOK, CallRows, Places

LEMMA Constants ==
    /\ IdleCall \in CallRows /\ IdleCall.pc = "idle"
    /\ AbsentChapter \in ChapterRows /\ NewChapter \in ChapterRows
    /\ NewChapter.status = "candidate"
    /\ NoApproval \in [Ordinals -> ChapterRows]
    /\ NoEdit \in [ordinal : 0 .. Chapters, revision : Nat, body : Bodies]
BY OrdinalFacts, ChaptersAssumption
   DEF IdleCall, AbsentChapter, NewChapter, NoApproval, NoEdit, CallRows,
       ChapterRows, Bodies

\* A thread goes on, and the others stay where they are.
LEMMA GoesOn ==
    ASSUME TypeOK, NEW c \in Calls, NEW pc \in Places, Goes(c, pc)
    PROVE  /\ call' \in [Calls -> CallRows]
           /\ call'[c].pc = pc
           /\ \A d \in Calls \ {c} : call'[d] = call[d]
<1>1. call[c] \in CallRows /\ call \in [Calls -> CallRows]
  BY DEF TypeOK
<1>2. [call[c] EXCEPT !.pc = pc] \in CallRows
      /\ [call[c] EXCEPT !.pc = pc].pc = pc
  BY <1>1 DEF CallRows, Places
<1> QED BY <1>1, <1>2, Constants DEF Goes

LEMMA SavedOneGoesOn ==
    ASSUME TypeOK, NEW c \in Calls, SavedOne(c)
    PROVE  /\ call' \in [Calls -> CallRows]
           /\ call'[c].pc \in {"marking", "saving"}
           /\ \A d \in Calls \ {c} : call'[d] = call[d]
<1>1. /\ call[c] \in CallRows /\ call \in [Calls -> CallRows]
      /\ call[c].ordinal \in Ordinals
  BY CallColumns DEF TypeOK
<1> DEFINE next == IF call[c].ordinal = Chapters THEN 1 ELSE call[c].ordinal + 1
           pc == IF call[c].ordinal = Chapters THEN "marking" ELSE "saving"
           row == [call[c] EXCEPT !.ordinal = next, !.pc = pc]
<1>2. next \in Ordinals /\ pc \in {"marking", "saving"}
  BY <1>1, OrdinalFacts
<1>3. row \in CallRows /\ row.pc = pc
  <2> HIDE DEF next, pc
  <2> QED BY <1>1, <1>2 DEF CallRows, Working
<1>4. call' = [call EXCEPT ![c] = row]
  BY <1>1 DEF SavedOne
<1> HIDE DEF row
<1> QED BY <1>1, <1>2, <1>3, <1>4

\* Where a thread that has looked for the batch goes.
LEMMA FoundPlace ==
    ASSUME TypeOK
    PROVE  Found \in {"closing", "linking", "saving", "creating"}
BY WorkflowColumns DEF Found, BatchStatuses, Decided, Undecided

\* Where the workflow goes with its batch.
LEMMA TargetStatus ==
    ASSUME TypeOK
    PROVE  /\ batch = "approved" => Target = "COMPLETED"
           /\ batch = "rejected" => Target = "REJECTED"
           /\ batch = "ready_for_review" => Target = "AWAITING_CONTENT_APPROVAL"
           /\ batch \in {"none", "draft"} => Target = "CREATING_CANDIDATE_BATCH"
           /\ Target \in Statuses
BY WorkflowColumns DEF Target, BatchStatuses, Decided, Undecided, Statuses, Terminal

LEMMA TransitionTable ==
    /\ AllowedTransitions["CREATING_CANDIDATE_BATCH"] = Statuses
    /\ AllowedTransitions["AWAITING_CONTENT_APPROVAL"] = Terminal
    /\ AllowedTransitions["PAUSED_STALE_VERSION"] = {"CANCELLED"}
BY DEF AllowedTransitions, Statuses, Terminal

LEMMA WorkflowBecomesType ==
    ASSUME TypeOK, NEW status \in Statuses, NEW linked \in BOOLEAN,
           WorkflowBecomes(status, linked)
    PROVE  /\ workflow' \in WorkflowRows
           /\ workflow'.status = status /\ workflow'.linked = linked
           /\ workflow'.revision = workflow.revision + 1
BY WorkflowColumns DEF WorkflowBecomes, WorkflowRows

LEMMA StepBecomesType ==
    ASSUME TypeOK, NEW status \in {"PENDING", "RUNNING", "PAUSED", "COMPLETED"},
           NEW lease \in {"none", "live", "lapsed"}, StepBecomes(status, lease)
    PROVE  /\ step' \in StepRows
           /\ step'.status = status /\ step'.lease = lease
BY WorkflowColumns DEF StepBecomes, StepRows

\* What a write must leave for the requests and calls that read before it.
Edits == [ordinal : 0 .. Chapters, revision : Nat, body : Bodies]
RevisionsGrow ==
    \/ workflow' = workflow /\ step'.status = step.status
    \/ workflow'.revision = workflow.revision + 1
ChaptersStay ==
    \A o \in Ordinals : chapter[o].status # "absent" => chapter'[o].status # "absent"

\* Whoever has read stays informed, whatever is written meanwhile.
LEMMA InformedStay ==
    ASSUME CInv, RevisionsGrow, ChaptersStay,
           \A d \in Calls : call'[d] = call[d] \/ Informed(d)'
    PROVE  \A d \in Calls : Informed(d)'
<1> SUFFICES ASSUME NEW d \in Calls, call'[d] = call[d]
             PROVE  Informed(d)'
  OBVIOUS
<1>1. Informed(d) /\ workflow.revision \in Nat /\ call[d].revision \in Nat
  BY WorkflowColumns, CallColumns DEF CInv, ReadFacts
<1>2. call[d].pc = "claiming" =>
        /\ call[d].revision <= workflow'.revision
        /\ call[d].revision = workflow'.revision =>
              /\ workflow'.status = "CREATING_CANDIDATE_BATCH"
              /\ step'.status = "PENDING"
  BY <1>1 DEF Informed, RevisionsGrow
<1>3. call[d].pc \in {"readying", "asking"} =>
        \A o \in Ordinals : chapter'[o].status # "absent"
  BY <1>1 DEF Informed, ChaptersStay
<1> QED BY <1>2, <1>3 DEF Informed

\* A step that writes no row.
LEMMA ReadKeeps ==
    ASSUME CInv, UNCHANGED rows,
           call' \in [Calls -> CallRows],
           \A d \in Calls : call'[d] = call[d] \/ Informed(d)',
           approval' \in [Ordinals -> ChapterRows],
           approval' = approval \/ ApprovalIsWhole',
           edit' \in Edits, edits' \in 0 .. MaxEdits,
           disruptions' \in 0 .. MaxDisruptions
    PROVE  CInv'
<1>1. UNCHANGED <<workflow, step, project, batch, chapter>>
  BY DEF rows
<1>2. TypeOK'
  BY <1>1 DEF CInv, TypeOK, Edits
<1>3. Outcomes'
  BY <1>1 DEF CInv, Outcomes, OutcomesAgree, ProjectHeld, RowFacts
<1>4. Texts'
  BY <1>1 DEF CInv, Texts, OfficialTextIsApproved, SubmittedBatchIsWhole
<1>5. ApprovalIsWhole'
  BY DEF CInv, ReadFacts, ApprovalIsWhole
<1>6. RevisionsGrow /\ ChaptersStay
  BY <1>1 DEF RevisionsGrow, ChaptersStay
<1>7. \A d \in Calls : Informed(d)'
  BY <1>6, InformedStay
<1> QED BY <1>2, <1>3, <1>4, <1>5, <1>7 DEF CInv, ReadFacts

-----------------------------------------------------------------------------
(* Steps that write no row. *)

\* A thread that goes anywhere but to a place where it relies on what it read.
LEMMA GoesOnKeeps ==
    ASSUME CInv, NEW c \in Calls,
           NEW pc \in Places \ {"claiming", "readying", "asking"}, Goes(c, pc),
           UNCHANGED <<rows, requests>>, disruptions' \in 0 .. MaxDisruptions
    PROVE  CInv'
<1>1. /\ call' \in [Calls -> CallRows] /\ call'[c].pc = pc
      /\ \A d \in Calls \ {c} : call'[d] = call[d]
  BY GoesOn DEF CInv
<1>2. Informed(c)'
  BY <1>1 DEF Informed
<1>3. /\ approval' = approval /\ approval \in [Ordinals -> ChapterRows]
      /\ edit' \in Edits /\ edits' \in 0 .. MaxEdits
  BY DEF requests, CInv, TypeOK, Edits
<1> QED BY <1>1, <1>2, <1>3, ReadKeeps

LEMMA ReadClaimKeeps ==
    ASSUME CInv, NEW c \in Calls, ReadClaim(c)
    PROVE  CInv'
<1> DEFINE row == [pc |-> "claiming", ordinal |-> 1, revision |-> workflow.revision]
<1>1. TypeOK /\ call' = [call EXCEPT ![c] = row] /\ UNCHANGED <<rows, requests, disruptions>>
  BY DEF ReadClaim, CInv
<1>2. row \in CallRows
  BY <1>1, WorkflowColumns, OrdinalFacts DEF CallRows
<1>3. /\ call' \in [Calls -> CallRows] /\ call'[c] = row
      /\ \A d \in Calls \ {c} : call'[d] = call[d]
  BY <1>1, <1>2 DEF TypeOK
<1>4. Informed(c)'
  BY <1>1, <1>3, WorkflowColumns DEF Informed, rows, ReadClaim
<1>5. /\ approval' = approval /\ approval \in [Ordinals -> ChapterRows]
      /\ edit' \in Edits /\ edits' \in 0 .. MaxEdits
      /\ disruptions' \in 0 .. MaxDisruptions
  BY <1>1 DEF requests, TypeOK, Edits
<1> QED BY <1>1, <1>3, <1>4, <1>5, ReadKeeps

\* A thread that has found every chapter in its place.
LEMMA CompleteKeeps ==
    ASSUME CInv, NEW c \in Calls, NEW pc \in {"readying", "asking"},
           Complete(chapter), Goes(c, pc),
           UNCHANGED <<rows, requests, disruptions>>
    PROVE  CInv'
<1>1. /\ call' \in [Calls -> CallRows] /\ call'[c].pc = pc
      /\ \A d \in Calls \ {c} : call'[d] = call[d]
  BY GoesOn DEF CInv, Places, Working
<1>2. Informed(c)'
  BY <1>1 DEF Informed, Complete, rows
<1>3. /\ approval' = approval /\ approval \in [Ordinals -> ChapterRows]
      /\ edit' \in Edits /\ edits' \in 0 .. MaxEdits
      /\ disruptions' \in 0 .. MaxDisruptions
  BY DEF requests, CInv, TypeOK, Edits
<1> QED BY <1>1, <1>2, <1>3, ReadKeeps

LEMMA LookUpKeeps ==
    ASSUME CInv, NEW c \in Calls, LookUpChapter(c)
    PROVE  CInv'
<1>1. TypeOK /\ UNCHANGED <<rows, requests, disruptions>>
  BY DEF CInv, LookUpChapter
<1>2. disruptions' \in 0 .. MaxDisruptions
  BY <1>1 DEF TypeOK
<1>3. CASE SavedOne(c)
  <2>1. /\ call' \in [Calls -> CallRows] /\ call'[c].pc \in {"marking", "saving"}
        /\ \A d \in Calls \ {c} : call'[d] = call[d]
    BY <1>1, <1>3, SavedOneGoesOn
  <2>2. Informed(c)'
    BY <2>1 DEF Informed
  <2>3. /\ approval' = approval /\ approval \in [Ordinals -> ChapterRows]
        /\ edit' \in Edits /\ edits' \in 0 .. MaxEdits
    BY <1>1 DEF requests, TypeOK, Edits
  <2> QED BY <1>1, <1>2, <2>1, <2>2, <2>3, ReadKeeps
<1>4. CASE \E pc \in {"inserting", "idle"} : Goes(c, pc)
  <2>1. {"inserting", "idle"} \subseteq Places \ {"claiming", "readying", "asking"}
    BY DEF Places, Working
  <2> QED BY <1>1, <1>2, <1>4, <2>1, GoesOnKeeps
<1> QED BY <1>3, <1>4 DEF LookUpChapter

LEMMA ReadReadyKeeps ==
    ASSUME CInv, NEW c \in Calls, ReadReady(c)
    PROVE  CInv'
<1>1. TypeOK /\ UNCHANGED <<rows, requests, disruptions>>
  BY DEF CInv, ReadReady
<1>2. disruptions' \in 0 .. MaxDisruptions
  BY <1>1 DEF TypeOK
<1>3. CASE \E pc \in {"closing", "checking", "idle"} : Goes(c, pc)
  <2>1. {"closing", "checking", "idle"} \subseteq Places \ {"claiming", "readying", "asking"}
    BY DEF Places, Working
  <2> QED BY <1>1, <1>2, <1>3, <2>1, GoesOnKeeps
<1>4. CASE Complete(chapter) /\ Goes(c, "readying")
  BY <1>1, <1>4, CompleteKeeps
<1> QED BY <1>3, <1>4 DEF ReadReady

\* The thread looks for its batch, or fails, or is abandoned.
LEMMA PlaceKeeps ==
    ASSUME CInv, NEW c \in Calls,
           LoseClaim(c) \/ FindBatch(c) \/ FailToCreate(c) \/ Recheck(c)
           \/ CheckLease(c) \/ AbandonCall(c)
    PROVE  CInv'
<1> DEFINE Elsewhere == Places \ {"claiming", "readying", "asking"}
<1>1. TypeOK /\ UNCHANGED <<rows, requests>>
  BY DEF CInv, LoseClaim, FindBatch, FailToCreate, Recheck, CheckLease, AbandonCall
<1>2. disruptions' \in 0 .. MaxDisruptions
  BY <1>1, BoundsAssumption
     DEF TypeOK, LoseClaim, FindBatch, FailToCreate, Recheck, CheckLease,
         AbandonCall, Disruption
<1>3. /\ Found \in Elsewhere
      /\ {"idle", "rechecking", "finishing"} \subseteq Elsewhere
  BY <1>1, FoundPlace DEF Places, Working
<1>4. \E pc \in Elsewhere : Goes(c, pc)
  BY <1>3 DEF LoseClaim, FindBatch, FailToCreate, Recheck, CheckLease, AbandonCall
<1> QED BY <1>1, <1>2, <1>4, GoesOnKeeps

\* The author's requests, up to their first write.
LEMMA RequestKeeps ==
    ASSUME CInv,
           \/ ReadApproval \/ LoseApproval
           \/ \E o \in Ordinals, body \in Bodies : ReadEdit(o, body)
    PROVE  CInv'
<1>1. TypeOK /\ UNCHANGED <<rows, call, disruptions>>
  BY DEF CInv, ReadApproval, LoseApproval, ReadEdit
<1>2. /\ call' \in [Calls -> CallRows] /\ \A d \in Calls : call'[d] = call[d]
      /\ disruptions' \in 0 .. MaxDisruptions
      /\ approval \in [Ordinals -> ChapterRows]
      /\ edit \in Edits /\ edits \in 0 .. MaxEdits
  BY <1>1 DEF TypeOK, Edits
<1>3. CASE ReadApproval
  <2>1. ApprovalIsWhole'
    BY <1>3 DEF ReadApproval, ApprovalIsWhole, Complete
  <2>2. approval' \in [Ordinals -> ChapterRows]
    BY <1>1, <1>3 DEF ReadApproval, TypeOK
  <2>3. edit' = edit /\ edits' = edits
    BY <1>3 DEF ReadApproval
  <2> QED BY <1>1, <1>2, <2>1, <2>2, <2>3, ReadKeeps
<1>4. CASE LoseApproval
  <2>1. ApprovalIsWhole'
    BY <1>4 DEF LoseApproval, ApprovalIsWhole, NoApproval
  <2>2. approval' \in [Ordinals -> ChapterRows]
    BY <1>4, Constants DEF LoseApproval
  <2>3. edit' = edit /\ edits' = edits
    BY <1>4 DEF LoseApproval
  <2> QED BY <1>1, <1>2, <2>1, <2>2, <2>3, ReadKeeps
<1>5. ASSUME NEW o \in Ordinals, NEW body \in Bodies, ReadEdit(o, body)
      PROVE  CInv'
  <2>1. edit' \in Edits
    <3>1. o \in 0 .. Chapters
      BY ChaptersAssumption DEF Ordinals
    <3>2. chapter[o].revision \in Nat
      BY <1>1, ChapterColumns DEF TypeOK
    <3> QED BY <1>5, <3>1, <3>2 DEF ReadEdit, Edits
  <2>2. edits' \in 0 .. MaxEdits
    BY <1>2, <1>5, BoundsAssumption DEF ReadEdit
  <2>3. approval' = approval
    BY <1>5 DEF ReadEdit
  <2> QED BY <1>1, <1>2, <2>1, <2>2, <2>3, ReadKeeps
<1> QED BY <1>3, <1>4, <1>5

-----------------------------------------------------------------------------
(* Steps that write rows: what is left to show for each of them. *)

LEMMA WriteKeeps ==
    ASSUME CInv, Outcomes', Texts', RevisionsGrow, ChaptersStay,
           workflow' \in WorkflowRows, step' \in StepRows,
           project' \in ProjectRows, batch' \in BatchStatuses,
           chapter' \in [Ordinals -> ChapterRows],
           call' \in [Calls -> CallRows],
           \A d \in Calls : call'[d] = call[d] \/ Informed(d)',
           approval' = approval \/ approval' = NoApproval,
           edit' = edit \/ edit' = NoEdit,
           edits' = edits, disruptions' \in 0 .. MaxDisruptions
    PROVE  CInv'
<1>1. TypeOK'
  <2>1. approval' \in [Ordinals -> ChapterRows] /\ edit' \in Edits
    BY Constants DEF CInv, TypeOK, Edits
  <2>2. edits' \in 0 .. MaxEdits
    BY DEF CInv, TypeOK
  <2> QED BY <2>1, <2>2 DEF TypeOK, Edits, BatchStatuses
<1>2. \A d \in Calls : Informed(d)'
  BY InformedStay
<1>3. ApprovalIsWhole'
  BY DEF CInv, ReadFacts, ApprovalIsWhole
<1> QED BY <1>1, <1>2, <1>3 DEF CInv, ReadFacts

\* A write to the rows of the workflow and of its step alone, with the workflow
\* at its candidate step before and there or paused after it.
LEMMA StepWriteKeeps ==
    ASSUME CInv, UNCHANGED <<project, batch, chapter, requests, disruptions>>,
           workflow.status = "CREATING_CANDIDATE_BATCH",
           NEW status \in {"CREATING_CANDIDATE_BATCH", "PAUSED_STALE_VERSION"},
           WorkflowBecomes(status, workflow.linked),
           NEW now \in {"PENDING", "RUNNING", "PAUSED"},
           NEW lease \in {"none", "live"}, StepBecomes(now, lease),
           now = "PAUSED" <=> status = "PAUSED_STALE_VERSION",
           now = "RUNNING" <=> lease = "live",
           call' \in [Calls -> CallRows],
           \A d \in Calls : call'[d] = call[d] \/ Informed(d)'
    PROVE  CInv'
<1>1. TypeOK /\ Outcomes /\ Texts
  BY DEF CInv
<1>2. /\ workflow' \in WorkflowRows
      /\ workflow'.status = status /\ workflow'.linked = workflow.linked
      /\ workflow'.revision = workflow.revision + 1
  BY <1>1, WorkflowColumns, WorkflowBecomesType DEF Statuses
<1>3. step' \in StepRows /\ step'.status = now /\ step'.lease = lease
  BY <1>1, StepBecomesType
<1>4. RevisionsGrow /\ ChaptersStay
  BY <1>2 DEF RevisionsGrow, ChaptersStay
<1>5. Outcomes'
  <2>1. OutcomesAgree'
    BY <1>1, <1>2 DEF Outcomes, OutcomesAgree
  <2>2. ProjectHeld'
    BY <1>1, <1>2 DEF Outcomes, ProjectHeld, Terminal
  <2>3. RowFacts'
    BY <1>1, <1>2, <1>3 DEF Outcomes, RowFacts
  <2> QED BY <2>1, <2>2, <2>3 DEF Outcomes
<1>6. Texts'
  BY <1>1 DEF Texts, OfficialTextIsApproved, SubmittedBatchIsWhole
<1>7. /\ project' \in ProjectRows /\ batch' \in BatchStatuses
      /\ chapter' \in [Ordinals -> ChapterRows]
      /\ disruptions' \in 0 .. MaxDisruptions
      /\ approval' = approval /\ edit' = edit /\ edits' = edits
  BY <1>1 DEF TypeOK, BatchStatuses, requests
<1> QED BY <1>2, <1>3, <1>4, <1>5, <1>6, <1>7, WriteKeeps

LEMMA RecoverKeeps ==
    ASSUME CInv, NEW c \in Calls, RecoverExpiredClaims(c)
    PROVE  CInv'
<1>1. /\ call' \in [Calls -> CallRows] /\ \A d \in Calls : call'[d] = call[d]
      /\ workflow.status = "CREATING_CANDIDATE_BATCH"
  BY DEF CInv, TypeOK, RecoverExpiredClaims
<1>2. /\ WorkflowBecomes("CREATING_CANDIDATE_BATCH", workflow.linked)
      /\ StepBecomes("PENDING", "none")
      /\ UNCHANGED <<project, batch, chapter, requests, disruptions>>
  BY DEF RecoverExpiredClaims
<1> QED BY <1>1, <1>2, StepWriteKeeps

LEMMA PauseKeeps ==
    ASSUME CInv, NEW c \in Calls, PauseStaleWorkflow(c)
    PROVE  CInv'
<1>1. /\ call' \in [Calls -> CallRows] /\ \A d \in Calls : call'[d] = call[d]
      /\ workflow.status = "CREATING_CANDIDATE_BATCH"
  BY DEF CInv, TypeOK, PauseStaleWorkflow
<1>2. /\ WorkflowBecomes("PAUSED_STALE_VERSION", workflow.linked)
      /\ StepBecomes("PAUSED", "none")
      /\ UNCHANGED <<project, batch, chapter, requests, disruptions>>
  BY DEF PauseStaleWorkflow
<1> QED BY <1>1, <1>2, StepWriteKeeps

\* A claim compares the revision it has read, and so the status.
LEMMA ClaimKeeps ==
    ASSUME CInv, NEW c \in Calls, ClaimStep(c)
    PROVE  CInv'
<1> DEFINE row == [pc |-> "finding", ordinal |-> 1, revision |-> step.revision + 1]
<1>1. TypeOK /\ call' = [call EXCEPT ![c] = row]
  BY DEF ClaimStep, CInv
<1>2. row \in CallRows
  BY <1>1, WorkflowColumns, OrdinalFacts DEF CallRows, Working
<1>3. /\ call' \in [Calls -> CallRows] /\ call'[c].pc = "finding"
      /\ \A d \in Calls \ {c} : call'[d] = call[d]
  BY <1>1, <1>2 DEF TypeOK
<1>4. Informed(c)'
  BY <1>3 DEF Informed
<1>5. workflow.status = "CREATING_CANDIDATE_BATCH"
  BY DEF CInv, ReadFacts, Informed, ClaimStep
<1>6. /\ WorkflowBecomes("CREATING_CANDIDATE_BATCH", workflow.linked)
      /\ StepBecomes("RUNNING", "live")
      /\ UNCHANGED <<project, batch, chapter, requests, disruptions>>
  BY <1>5 DEF ClaimStep
<1> QED BY <1>3, <1>4, <1>5, <1>6, StepWriteKeeps

LEMMA LeaseLapsesKeeps ==
    ASSUME CInv, LeaseLapses
    PROVE  CInv'
<1>1. /\ TypeOK /\ Outcomes /\ Texts
      /\ UNCHANGED <<workflow, project, batch, chapter, call, requests>>
  BY DEF CInv, LeaseLapses
<1>2. /\ step' \in StepRows /\ step'.status = step.status
      /\ step.lease = "live" /\ step'.lease = "lapsed"
  BY <1>1 DEF LeaseLapses, TypeOK, StepRows
<1>3. disruptions' \in 0 .. MaxDisruptions
  BY <1>1, BoundsAssumption DEF TypeOK, LeaseLapses, Disruption
<1>4. RevisionsGrow /\ ChaptersStay
  BY <1>1, <1>2 DEF RevisionsGrow, ChaptersStay
<1>5. Outcomes'
  <2>1. OutcomesAgree' /\ ProjectHeld'
    BY <1>1 DEF Outcomes, OutcomesAgree, ProjectHeld
  <2>2. RowFacts'
    BY <1>1, <1>2 DEF Outcomes, RowFacts
  <2> QED BY <2>1, <2>2 DEF Outcomes
<1>6. Texts'
  BY <1>1 DEF Texts, OfficialTextIsApproved, SubmittedBatchIsWhole
<1>7. /\ workflow' \in WorkflowRows
      /\ project' \in ProjectRows /\ batch' \in BatchStatuses
      /\ chapter' \in [Ordinals -> ChapterRows] /\ call' \in [Calls -> CallRows]
      /\ \A d \in Calls : call'[d] = call[d]
      /\ approval' = approval /\ edit' = edit /\ edits' = edits
  BY <1>1 DEF TypeOK, BatchStatuses, requests
<1> QED BY <1>2, <1>3, <1>4, <1>5, <1>6, <1>7, WriteKeeps

-----------------------------------------------------------------------------
(* Reconciliation. *)

\* What may be reconciled: a draft or a batch that is ready with a workflow at
\* its candidate step, a decision with any workflow that has not ended.
LEMMA ReconcilableCases ==
    ASSUME TypeOK, Outcomes, batch # "none", Reconcilable
    PROVE  /\ workflow.status \notin Terminal
           /\ batch \in Undecided => workflow.status = "CREATING_CANDIDATE_BATCH"
           /\ batch = "ready_for_review" => UpdatesStep
           /\ batch = "draft" => ~UpdatesStep
<1>1. workflow.status \notin Terminal
  BY DEF Reconcilable
<1>2. workflow.status \in {"CREATING_CANDIDATE_BATCH", "AWAITING_CONTENT_APPROVAL",
                           "PAUSED_STALE_VERSION"}
  BY <1>1, WorkflowColumns DEF Statuses
<1>3. ASSUME batch \in Undecided
      PROVE  workflow.status = "CREATING_CANDIDATE_BATCH"
  <2>1. Target \in {"AWAITING_CONTENT_APPROVAL", "CREATING_CANDIDATE_BATCH"}
    BY <1>3, TargetStatus DEF Undecided
  <2>2. Target \in AllowedTransitions[workflow.status]
    BY <1>3 DEF Reconcilable, PausedDecision, Undecided, Decided
  <2> QED BY <1>2, <2>1, <2>2, TransitionTable DEF Terminal
<1>4. batch = "ready_for_review" => UpdatesStep
  BY <1>3 DEF UpdatesStep, Outcomes, RowFacts, Undecided
<1>5. batch = "draft" => ~UpdatesStep
  BY DEF UpdatesStep
<1> QED BY <1>1, <1>3, <1>4, <1>5

\* A reconciliation brings the workflow and its step in line with the batch.
LEMMA ReconcileRows ==
    ASSUME CInv, batch # "none", Reconcilable, ReconcileWrites
    PROVE  /\ workflow' \in WorkflowRows /\ step' \in StepRows
           /\ project' \in ProjectRows /\ batch' \in BatchStatuses
           /\ chapter' \in [Ordinals -> ChapterRows]
           /\ RevisionsGrow /\ ChaptersStay
           /\ Outcomes' /\ Texts'
<1>1. TypeOK /\ Outcomes /\ Texts
  BY DEF CInv
<1>2. /\ workflow.status \notin Terminal
      /\ batch \in Undecided => workflow.status = "CREATING_CANDIDATE_BATCH"
      /\ batch = "ready_for_review" => UpdatesStep
      /\ batch = "draft" => ~UpdatesStep
  BY <1>1, ReconcilableCases
<1>3. /\ workflow' \in WorkflowRows
      /\ workflow'.status = Target /\ workflow'.linked = TRUE
      /\ workflow'.revision = workflow.revision + 1
  BY <1>1, TargetStatus, WorkflowBecomesType DEF ReconcileWrites
<1>4. /\ step' \in StepRows
      /\ UpdatesStep => step'.status = "COMPLETED" /\ step'.lease = "none"
      /\ ~UpdatesStep => step' = step
  BY <1>1, StepBecomesType DEF ReconcileWrites, TypeOK
<1>5. /\ project' \in ProjectRows
      /\ project'.owned = (project.owned /\ batch \notin Decided)
      /\ project'.active = project.active /\ project'.next = project.next
  BY <1>1 DEF ReconcileWrites, TypeOK, ProjectRows
<1>6. batch' = batch /\ chapter' = chapter
  BY DEF ReconcileWrites
<1>7. batch \in Undecided \cup Decided
  BY <1>1, WorkflowColumns DEF BatchStatuses
<1>8. OutcomesAgree'
  BY <1>1, <1>3, <1>6, <1>7, TargetStatus DEF OutcomesAgree, Decided, Undecided
<1>9. ProjectHeld'
  <2>1. project.owned = TRUE /\ (project.active <=> batch \in Undecided)
    BY <1>1, <1>2, WorkflowColumns DEF Outcomes, ProjectHeld
  <2>2. Target \in Terminal <=> batch \in Decided
    BY <1>1, <1>7, TargetStatus DEF Terminal, Decided, Undecided
  <2>3. batch \in Undecided => batch \notin Decided
    BY DEF Undecided, Decided
  <2> QED BY <1>3, <1>5, <1>6, <2>1, <2>2, <2>3 DEF ProjectHeld
<1>10. RowFacts'
  <2>1. CASE batch = "draft"
    BY <1>1, <1>2, <1>3, <1>4, <1>5, <1>6, <2>1, TargetStatus
       DEF Outcomes, RowFacts, Undecided
  <2>2. CASE batch = "ready_for_review"
    BY <1>1, <1>2, <1>3, <1>4, <1>5, <1>6, <2>2, TargetStatus
       DEF Outcomes, RowFacts
  <2>3. CASE batch \in Decided
    <3>2. step'.status \notin {"PENDING", "RUNNING"}
      <4>1. batch # "draft"
        BY <2>3 DEF Decided
      <4> QED BY <1>4, <4>1 DEF UpdatesStep
    <3>3. step'.lease = "none"
      BY <1>1, <1>4, <3>2 DEF Outcomes, RowFacts
    <3>4. workflow'.status \in {"COMPLETED", "REJECTED"}
      BY <1>1, <1>3, <2>3, TargetStatus DEF Decided
    <3>5. batch' # "approved" => project'.next = 1
      BY <1>1, <1>5, <1>6 DEF Outcomes, RowFacts
    <3> QED BY <1>3, <3>2, <3>3, <3>4, <3>5 DEF RowFacts
  <2> QED BY <1>7, <2>1, <2>2, <2>3 DEF Undecided
<1>11. Texts'
  BY <1>1, <1>5, <1>6 DEF Texts, OfficialTextIsApproved, SubmittedBatchIsWhole
<1>12. /\ batch' \in BatchStatuses /\ chapter' \in [Ordinals -> ChapterRows]
       /\ RevisionsGrow /\ ChaptersStay
  BY <1>1, <1>3, <1>6 DEF TypeOK, BatchStatuses, RevisionsGrow, ChaptersStay
<1> QED BY <1>3, <1>4, <1>5, <1>8, <1>9, <1>10, <1>11, <1>12 DEF Outcomes

LEMMA ReconcileKeeps ==
    ASSUME CInv, NEW c \in Calls,
           NEW pc \in Places \ {"claiming", "readying", "asking"},
           Reconcile(c, pc), UNCHANGED <<requests, disruptions>>
    PROVE  CInv'
<1>1. TypeOK /\ disruptions' \in 0 .. MaxDisruptions
  BY DEF CInv, TypeOK
<1>2. CASE UNCHANGED rows /\ Goes(c, pc)
  BY <1>1, <1>2, GoesOnKeeps
<1>3. CASE UNCHANGED rows /\ Goes(c, "idle")
  BY <1>1, <1>3, GoesOnKeeps DEF Places
<1>4. CASE batch # "none" /\ Reconcilable /\ ReconcileWrites /\ Goes(c, pc)
  <2>1. /\ call' \in [Calls -> CallRows] /\ call'[c].pc = pc
        /\ \A d \in Calls \ {c} : call'[d] = call[d]
    BY <1>1, <1>4, GoesOn
  <2>2. Informed(c)'
    BY <2>1 DEF Informed
  <2>3. approval' = approval /\ edit' = edit /\ edits' = edits
    BY DEF requests
  <2> QED BY <1>1, <1>4, <2>1, <2>2, <2>3, ReconcileRows, WriteKeeps
<1> QED BY <1>2, <1>3, <1>4 DEF Reconcile

LEMMA LinkKeeps ==
    ASSUME CInv, NEW c \in Calls, LinkBatch(c) \/ Finish(c)
    PROVE  CInv'
<1>1. {"saving", "idle"} \subseteq Places \ {"claiming", "readying", "asking"}
  BY DEF Places, Working
<1>2. \E pc \in {"saving", "idle"} : Reconcile(c, pc)
  BY DEF LinkBatch, Finish
<1>3. UNCHANGED <<requests, disruptions>>
  BY DEF LinkBatch, Finish
<1> QED BY <1>1, <1>2, <1>3, ReconcileKeeps

LEMMA SynchroniseKeeps ==
    ASSUME CInv, Synchronise
    PROVE  CInv'
<1>1. /\ batch # "none" /\ Reconcilable /\ ReconcileWrites
      /\ UNCHANGED <<call, requests, disruptions>>
  BY DEF Synchronise
<1>2. /\ call' \in [Calls -> CallRows] /\ \A d \in Calls : call'[d] = call[d]
      /\ approval' = approval /\ edit' = edit /\ edits' = edits
      /\ disruptions' \in 0 .. MaxDisruptions
  BY <1>1 DEF CInv, TypeOK, requests
<1> QED BY <1>1, <1>2, ReconcileRows, WriteKeeps

-----------------------------------------------------------------------------
(* Writes to the batch, its chapters and the project. *)

\* The rows that such a step leaves alone.
LEMMA OtherRows ==
    ASSUME CInv, UNCHANGED <<workflow, step>>
    PROVE  /\ workflow' \in WorkflowRows /\ step' \in StepRows /\ RevisionsGrow
BY DEF CInv, TypeOK, RevisionsGrow

LEMMA CreateKeeps ==
    ASSUME CInv, NEW c \in Calls, CreateBatch(c)
    PROVE  CInv'
<1>1. /\ TypeOK /\ Outcomes /\ Texts /\ CanCreate
      /\ batch' = "draft" /\ project' = [project EXCEPT !.active = TRUE]
      /\ Goes(c, "linking")
      /\ UNCHANGED <<workflow, step, chapter, requests, disruptions>>
  BY DEF CInv, CreateBatch
<1>2. /\ project' \in ProjectRows /\ project'.owned = project.owned
      /\ project'.active = TRUE /\ project'.next = project.next
  BY <1>1 DEF TypeOK, ProjectRows
<1>3. /\ call' \in [Calls -> CallRows] /\ call'[c].pc = "linking"
      /\ \A d \in Calls \ {c} : call'[d] = call[d]
  BY <1>1, GoesOn DEF Places, Working
<1>4. Informed(c)'
  BY <1>3 DEF Informed
<1>5. OutcomesAgree'
  BY <1>1 DEF CanCreate, OutcomesAgree
<1>6. ProjectHeld' /\ RowFacts'
  BY <1>1, <1>2 DEF CanCreate, Outcomes, ProjectHeld, RowFacts, Undecided, Terminal
<1>7. Texts'
  BY <1>1, <1>2 DEF CanCreate, Texts, OfficialTextIsApproved, SubmittedBatchIsWhole
<1>8. /\ batch' \in BatchStatuses /\ chapter' \in [Ordinals -> ChapterRows]
      /\ disruptions' \in 0 .. MaxDisruptions /\ ChaptersStay
      /\ approval' = approval /\ edit' = edit /\ edits' = edits
  BY <1>1 DEF TypeOK, BatchStatuses, Undecided, requests, ChaptersStay
<1> QED BY <1>1, <1>2, <1>3, <1>4, <1>5, <1>6, <1>7, <1>8, OtherRows, WriteKeeps
        DEF Outcomes

\* A missing chapter is a draft's, or a rejected batch's.
LEMMA InsertKeeps ==
    ASSUME CInv, NEW c \in Calls, InsertChapter(c)
    PROVE  CInv'
<1>1. /\ TypeOK /\ Outcomes /\ Texts
      /\ UNCHANGED <<workflow, step, project, batch, requests, disruptions>>
  BY DEF CInv, InsertChapter
<1>2. /\ call[c].ordinal \in Ordinals /\ chapter \in [Ordinals -> ChapterRows]
      /\ disruptions' \in 0 .. MaxDisruptions
  BY <1>1, CallColumns DEF TypeOK
<1>3. CASE CanInsert(c)
  <2> DEFINE o == call[c].ordinal
  <2>1. chapter' = [chapter EXCEPT ![o] = NewChapter] /\ SavedOne(c)
    BY <1>3 DEF InsertChapter
  <2>2. /\ chapter' \in [Ordinals -> ChapterRows] /\ chapter'[o] = NewChapter
        /\ \A q \in Ordinals \ {o} : chapter'[q] = chapter[q]
    BY <1>2, <2>1, Constants
  <2>3. batch \notin {"ready_for_review", "approved"}
    BY <1>1, <1>2, <1>3 DEF CanInsert, Texts, SubmittedBatchIsWhole
  <2>4. /\ call' \in [Calls -> CallRows] /\ call'[c].pc \in {"marking", "saving"}
        /\ \A d \in Calls \ {c} : call'[d] = call[d]
    BY <1>1, <2>1, SavedOneGoesOn
  <2>5. Informed(c)'
    BY <2>4 DEF Informed
  <2>6. Outcomes'
    BY <1>1 DEF Outcomes, OutcomesAgree, ProjectHeld, RowFacts
  <2>7. Texts'
    BY <1>1, <2>2, <2>3, Constants
       DEF Texts, OfficialTextIsApproved, SubmittedBatchIsWhole
  <2>8. /\ project' \in ProjectRows /\ batch' \in BatchStatuses
        /\ approval' = approval /\ edit' = edit /\ edits' = edits
    BY <1>1 DEF TypeOK, BatchStatuses, requests
  <2>9. ChaptersStay
    BY <2>2, Constants DEF ChaptersStay
  <2> QED BY <1>1, <1>2, <2>2, <2>4, <2>5, <2>6, <2>7, <2>8, <2>9, OtherRows, WriteKeeps
<1>4. CASE ~CanInsert(c)
  <2>1. UNCHANGED rows /\ Goes(c, "idle")
    BY <1>1, <1>4 DEF InsertChapter, rows
  <2> QED BY <1>1, <1>2, <2>1, GoesOnKeeps DEF Places
<1> QED BY <1>3, <1>4

\* mark_ready does not look at the chapters again: none that was there is gone.
LEMMA MarkReadyKeeps ==
    ASSUME CInv, NEW c \in Calls, MarkReady(c)
    PROVE  CInv'
<1>1. /\ TypeOK /\ Outcomes /\ Texts
      /\ UNCHANGED <<workflow, step, project, chapter, requests, disruptions>>
  BY DEF CInv, MarkReady
<1>2. disruptions' \in 0 .. MaxDisruptions
  BY <1>1 DEF TypeOK
<1>3. CASE CanMarkReady
  <2>1. \E pc \in {"marking", "idle"} : Goes(c, pc)
    BY <1>3 DEF MarkReady
  <2>2. /\ call' \in [Calls -> CallRows] /\ call'[c].pc \in {"marking", "idle"}
        /\ \A d \in Calls \ {c} : call'[d] = call[d]
    BY <1>1, <2>1, GoesOn DEF Places, Working
  <2>3. Informed(c)'
    BY <2>2 DEF Informed
  <2>4. \A o \in Ordinals : chapter[o].status # "absent"
    BY DEF CInv, ReadFacts, Informed, MarkReady
  <2>5. batch = "draft" /\ batch' = "ready_for_review"
    BY <1>3 DEF CanMarkReady, MarkReady
  <2>6. Outcomes'
    <3>1. OutcomesAgree'
      BY <1>1, <2>5 DEF Outcomes, OutcomesAgree
    <3>2. ProjectHeld' /\ RowFacts'
      BY <1>1, <2>5 DEF Outcomes, ProjectHeld, RowFacts, Undecided
    <3> QED BY <3>1, <3>2 DEF Outcomes
  <2>7. Texts'
    BY <1>1, <2>4, <2>5 DEF Texts, OfficialTextIsApproved, SubmittedBatchIsWhole
  <2>8. /\ project' \in ProjectRows /\ batch' \in BatchStatuses
        /\ chapter' \in [Ordinals -> ChapterRows] /\ ChaptersStay
        /\ approval' = approval /\ edit' = edit /\ edits' = edits
    BY <1>1, <2>5 DEF TypeOK, BatchStatuses, Undecided, requests, ChaptersStay
  <2> QED BY <1>1, <1>2, <2>2, <2>3, <2>6, <2>7, <2>8, OtherRows, WriteKeeps
<1>4. CASE ~CanMarkReady
  <2>1. UNCHANGED rows /\ Goes(c, "idle")
    BY <1>1, <1>4 DEF MarkReady, rows
  <2> QED BY <1>1, <1>2, <2>1, GoesOnKeeps DEF Places
<1> QED BY <1>3, <1>4

LEMMA RejectKeeps ==
    ASSUME CInv, RejectBatch
    PROVE  CInv'
<1>1. /\ TypeOK /\ Outcomes /\ Texts /\ batch \in Undecided /\ project.active
      /\ batch' = "rejected" /\ project' = [project EXCEPT !.active = FALSE]
      /\ UNCHANGED <<workflow, step, chapter, call, requests, disruptions>>
  BY DEF CInv, RejectBatch
<1>2. /\ project' \in ProjectRows /\ project'.owned = project.owned
      /\ project'.active = FALSE /\ project'.next = project.next
  BY <1>1 DEF TypeOK, ProjectRows
<1>3. OutcomesAgree'
  BY <1>1 DEF Outcomes, OutcomesAgree, Undecided, Decided
<1>4. ProjectHeld' /\ RowFacts'
  BY <1>1, <1>2 DEF Outcomes, ProjectHeld, RowFacts, Undecided
<1>5. Texts'
  BY <1>1, <1>2 DEF Texts, OfficialTextIsApproved, SubmittedBatchIsWhole, Undecided
<1>6. /\ batch' \in BatchStatuses /\ chapter' \in [Ordinals -> ChapterRows]
      /\ disruptions' \in 0 .. MaxDisruptions /\ ChaptersStay
      /\ approval' = approval /\ edit' = edit /\ edits' = edits
      /\ call' \in [Calls -> CallRows] /\ \A d \in Calls : call'[d] = call[d]
  BY <1>1 DEF TypeOK, BatchStatuses, Decided, requests, ChaptersStay
<1> QED BY <1>1, <1>2, <1>3, <1>4, <1>5, <1>6, OtherRows, WriteKeeps DEF Outcomes

\* What becomes official are the chapters that the request has read, numbered
\* from the counter, which no approval has moved yet.
LEMMA ApproveKeeps ==
    ASSUME CInv, ApproveBatch
    PROVE  CInv'
<1>1. /\ TypeOK /\ Outcomes /\ Texts
      /\ approval # NoApproval /\ CanApprove
      /\ batch' = "approved"
      /\ project' = [project EXCEPT !.active = FALSE, !.next = @ + Chapters]
      /\ chapter' = [o \in Ordinals |-> Promoted(o)]
      /\ approval' = NoApproval
      /\ UNCHANGED <<workflow, step, call, edit, edits, disruptions>>
  BY DEF CInv, ApproveBatch
<1>2. batch = "ready_for_review" /\ project.active /\ project.next = 1
  BY <1>1 DEF CanApprove, Outcomes, RowFacts
<1>3. \A o \in Ordinals : /\ chapter[o] \in ChapterRows
                          /\ chapter[o].status = "candidate"
                          /\ Valid(chapter[o].body)
  BY <1>1 DEF CanApprove, CInv, ReadFacts, ApprovalIsWhole, TypeOK
<1>4. /\ project' \in ProjectRows /\ project'.owned = project.owned
      /\ project'.active = FALSE /\ project'.next = Chapters + 1
  <2>1. /\ project \in ProjectRows /\ project.next + Chapters = Chapters + 1
        /\ Chapters + 1 \in 1 .. Chapters + 1
    BY <1>1, <1>2, ChaptersAssumption DEF TypeOK
  <2> QED BY <1>1, <2>1 DEF ProjectRows
<1>5. \A o \in Ordinals : /\ Promoted(o) \in ChapterRows
                          /\ Promoted(o).status = "official"
                          /\ Promoted(o).body = chapter[o].body
                          /\ Promoted(o).number = o
  <2> SUFFICES ASSUME NEW o \in Ordinals
               PROVE  /\ Promoted(o) \in ChapterRows
                      /\ Promoted(o).status = "official"
                      /\ Promoted(o).body = chapter[o].body
                      /\ Promoted(o).number = o
    OBVIOUS
  <2>1. project.next + o - 1 = o /\ o \in 0 .. Chapters
    BY <1>2, ChaptersAssumption DEF Ordinals
  <2>2. chapter[o].body \in Bodies /\ chapter[o].revision + 1 \in Nat
    BY <1>3, ChapterColumns
  <2> QED BY <2>1, <2>2 DEF Promoted, ChapterRows
<1>6. OutcomesAgree'
  BY <1>1, <1>2 DEF Outcomes, OutcomesAgree, Decided
<1>7. ProjectHeld' /\ RowFacts'
  BY <1>1, <1>2, <1>4 DEF Outcomes, ProjectHeld, RowFacts, Undecided
<1>8. Texts'
  <2>1. OfficialTextIsApproved'
    BY <1>1, <1>3, <1>4, <1>5 DEF OfficialTextIsApproved
  <2>2. SubmittedBatchIsWhole'
    BY <1>1, <1>5 DEF SubmittedBatchIsWhole
  <2> QED BY <2>1, <2>2 DEF Texts
<1>9. /\ batch' \in BatchStatuses /\ chapter' \in [Ordinals -> ChapterRows]
      /\ disruptions' \in 0 .. MaxDisruptions
      /\ call' \in [Calls -> CallRows] /\ \A d \in Calls : call'[d] = call[d]
  BY <1>1, <1>5 DEF TypeOK, BatchStatuses, Decided
<1>10. ChaptersStay
  BY <1>1, <1>5 DEF ChaptersStay
<1> QED BY <1>1, <1>4, <1>6, <1>7, <1>8, <1>9, <1>10, OtherRows, WriteKeeps
        DEF Outcomes

\* A step that changes one chapter, but not whether it is there nor whether it
\* is official, nor the body and number of an official one.
LEMMA ChapterKeeps ==
    ASSUME CInv, UNCHANGED <<workflow, step, project, batch, call, approval,
                             edits, disruptions>>,
           edit' = edit \/ edit' = NoEdit,
           chapter' \in [Ordinals -> ChapterRows],
           \A o \in Ordinals :
               \/ chapter'[o] = chapter[o]
               \/ chapter[o].status = "candidate" /\ chapter'[o].status = "candidate"
               \/ /\ chapter[o].status = "official"
                  /\ chapter'[o].status = "published"
                  /\ chapter'[o].body = chapter[o].body
                  /\ chapter'[o].number = chapter[o].number
    PROVE  CInv'
<1>1. TypeOK /\ Outcomes /\ Texts
  BY DEF CInv
<1>2. Outcomes'
  BY <1>1 DEF Outcomes, OutcomesAgree, ProjectHeld, RowFacts
<1>3. OfficialTextIsApproved'
  <2> SUFFICES ASSUME NEW o \in Ordinals
               PROVE  /\ chapter'[o].status \in {"official", "published"} <=>
                             batch = "approved"
                      /\ batch = "approved" => /\ Valid(chapter'[o].body)
                                              /\ chapter'[o].number = o
                                              /\ project.next = Chapters + 1
    BY DEF OfficialTextIsApproved
  <2>1. /\ chapter[o].status \in {"official", "published"} <=> batch = "approved"
        /\ batch = "approved" => /\ Valid(chapter[o].body)
                                /\ chapter[o].number = o
                                /\ project.next = Chapters + 1
    BY <1>1 DEF Texts, OfficialTextIsApproved
  <2> QED BY <2>1 DEF Valid
<1>4. SubmittedBatchIsWhole'
  BY <1>1 DEF Texts, SubmittedBatchIsWhole
<1>5. ChaptersStay
  BY DEF ChaptersStay
<1>6. /\ project' \in ProjectRows /\ batch' \in BatchStatuses
      /\ disruptions' \in 0 .. MaxDisruptions
      /\ call' \in [Calls -> CallRows] /\ \A d \in Calls : call'[d] = call[d]
  BY <1>1 DEF TypeOK, BatchStatuses
<1> QED BY <1>1, <1>2, <1>3, <1>4, <1>5, <1>6, OtherRows, WriteKeeps DEF Texts

LEMMA ReplaceKeeps ==
    ASSUME CInv, ReplaceCandidateBody
    PROVE  CInv'
<1> DEFINE o == edit.ordinal
           row == [chapter[o] EXCEPT !.body = edit.body, !.revision = @ + 1]
<1>1. /\ chapter \in [Ordinals -> ChapterRows] /\ edit.body \in Bodies
      /\ edit' = NoEdit
      /\ UNCHANGED <<workflow, step, project, batch, call, approval, edits,
                     disruptions>>
  BY DEF CInv, TypeOK, ReplaceCandidateBody
<1>2. CASE CanEdit /\ o \in Ordinals
  <2>1. chapter[o] \in ChapterRows /\ chapter[o].revision + 1 \in Nat
    BY <1>1, <1>2, ChapterColumns
  <2>2. row \in ChapterRows /\ row.status = chapter[o].status
    BY <1>1, <2>1 DEF ChapterRows
  <2>3. chapter' = [chapter EXCEPT ![o] = row]
    BY <1>1, <1>2, <2>1 DEF ReplaceCandidateBody
  <2>4. chapter[o].status = "candidate"
    BY <1>2 DEF CanEdit
  <2> HIDE DEF row, o
  <2>5. /\ chapter' \in [Ordinals -> ChapterRows] /\ chapter'[o] = row
        /\ \A q \in Ordinals : q = o \/ chapter'[q] = chapter[q]
    BY <1>1, <1>2, <2>2, <2>3
  <2> QED BY <1>1, <2>2, <2>4, <2>5, ChapterKeeps
<1>3. CASE ~CanEdit \/ o \notin Ordinals
  <2>1. chapter' = chapter
    BY <1>1, <1>3 DEF ReplaceCandidateBody
  <2> QED BY <1>1, <2>1, ChapterKeeps
<1> QED BY <1>2, <1>3

LEMMA PublishKeeps ==
    ASSUME CInv, NEW o \in Ordinals, PublishChapter(o)
    PROVE  CInv'
<1> DEFINE row == [chapter[o] EXCEPT !.status = "published", !.revision = @ + 1]
<1>1. /\ chapter \in [Ordinals -> ChapterRows] /\ chapter[o].status = "official"
      /\ UNCHANGED <<workflow, step, project, batch, call, requests, disruptions>>
  BY DEF CInv, TypeOK, PublishChapter
<1>2. chapter[o] \in ChapterRows /\ chapter[o].revision + 1 \in Nat
  BY <1>1, ChapterColumns
<1>3. /\ row \in ChapterRows /\ row.status = "published"
      /\ row.body = chapter[o].body /\ row.number = chapter[o].number
  BY <1>2 DEF ChapterRows
<1>4. chapter' = [chapter EXCEPT ![o] = row]
  BY <1>1, <1>2 DEF PublishChapter
<1>5. approval' = approval /\ edit' = edit /\ edits' = edits
  BY <1>1 DEF requests
<1> HIDE DEF row
<1>6. /\ chapter' \in [Ordinals -> ChapterRows] /\ chapter'[o] = row
      /\ \A q \in Ordinals : q = o \/ chapter'[q] = chapter[q]
  BY <1>1, <1>3, <1>4
<1> QED BY <1>1, <1>3, <1>5, <1>6, ChapterKeeps

LEMMA CancelKeeps ==
    ASSUME CInv, Cancel
    PROVE  CInv'
<1>1. /\ TypeOK /\ Outcomes /\ Texts /\ CanCancel
      /\ WorkflowBecomes("CANCELLED", workflow.linked)
      /\ project' = [project EXCEPT !.owned = FALSE]
      /\ UNCHANGED <<step, batch, chapter, call, requests, disruptions>>
  BY DEF CInv, Cancel
<1>2. /\ workflow' \in WorkflowRows /\ workflow'.status = "CANCELLED"
      /\ workflow'.linked = FALSE /\ workflow'.revision = workflow.revision + 1
  BY <1>1, WorkflowColumns, WorkflowBecomesType DEF CanCancel, Statuses, Terminal
<1>3. /\ project' \in ProjectRows /\ project'.owned = FALSE
      /\ project'.active = project.active /\ project'.next = project.next
  BY <1>1 DEF TypeOK, ProjectRows
<1>4. OutcomesAgree' /\ ProjectHeld' /\ RowFacts'
  BY <1>1, <1>2, <1>3
     DEF CanCancel, Outcomes, OutcomesAgree, ProjectHeld, RowFacts, Terminal, Undecided
<1>5. Texts'
  BY <1>1, <1>3 DEF Texts, OfficialTextIsApproved, SubmittedBatchIsWhole
<1>6. /\ batch' \in BatchStatuses /\ chapter' \in [Ordinals -> ChapterRows]
      /\ disruptions' \in 0 .. MaxDisruptions /\ ChaptersStay /\ RevisionsGrow
      /\ approval' = approval /\ edit' = edit /\ edits' = edits /\ step' \in StepRows
      /\ call' \in [Calls -> CallRows] /\ \A d \in Calls : call'[d] = call[d]
  BY <1>1, <1>2 DEF TypeOK, BatchStatuses, requests, ChaptersStay, RevisionsGrow
<1> QED BY <1>2, <1>3, <1>4, <1>5, <1>6, WriteKeeps DEF Outcomes

LEMMA OutlineKeeps ==
    ASSUME CInv, ApproveOutline
    PROVE  CInv'
<1>1. /\ TypeOK /\ Outcomes /\ Texts
      /\ project' = [project EXCEPT !.current = FALSE]
      /\ UNCHANGED <<workflow, step, batch, chapter, call, requests, disruptions>>
  BY DEF CInv, ApproveOutline
<1>2. /\ project' \in ProjectRows /\ project'.owned = project.owned
      /\ project'.active = project.active /\ project'.next = project.next
  BY <1>1 DEF TypeOK, ProjectRows
<1>3. Outcomes'
  BY <1>1, <1>2 DEF Outcomes, OutcomesAgree, ProjectHeld, RowFacts
<1>4. Texts'
  BY <1>1, <1>2 DEF Texts, OfficialTextIsApproved, SubmittedBatchIsWhole
<1>5. /\ batch' \in BatchStatuses /\ chapter' \in [Ordinals -> ChapterRows]
      /\ disruptions' \in 0 .. MaxDisruptions /\ ChaptersStay
      /\ approval' = approval /\ edit' = edit /\ edits' = edits
      /\ call' \in [Calls -> CallRows] /\ \A d \in Calls : call'[d] = call[d]
  BY <1>1 DEF TypeOK, BatchStatuses, requests, ChaptersStay
<1> QED BY <1>1, <1>2, <1>3, <1>4, <1>5, OtherRows, WriteKeeps

-----------------------------------------------------------------------------
(* The theorems. *)

LEMMA InitHolds == Init => CInv
<1> SUFFICES ASSUME Init PROVE CInv
  OBVIOUS
<1>1. TypeOK
  BY Constants, OrdinalFacts, ChaptersAssumption, BoundsAssumption
     DEF Init, TypeOK, WorkflowRows, Statuses, StepRows, ProjectRows, Edits
<1>2. Outcomes
  BY DEF Init, Outcomes, OutcomesAgree, ProjectHeld, RowFacts, Terminal, Undecided
<1>3. Texts
  BY DEF Init, Texts, OfficialTextIsApproved, SubmittedBatchIsWhole, AbsentChapter
<1>4. ReadFacts
  BY DEF Init, ReadFacts, Informed, ApprovalIsWhole, IdleCall
<1> QED BY <1>1, <1>2, <1>3, <1>4 DEF CInv

LEMMA StepKeeps ==
    ASSUME CInv, [Next]_vars
    PROVE  CInv'
<1>1. CASE UNCHANGED vars
  <2>1. TypeOK /\ UNCHANGED <<rows, call, approval, edit, edits, disruptions>>
    BY <1>1 DEF CInv, vars, requests
  <2>2. /\ call' \in [Calls -> CallRows] /\ \A d \in Calls : call'[d] = call[d]
        /\ approval' \in [Ordinals -> ChapterRows] /\ approval' = approval
        /\ edit' \in Edits /\ edits' \in 0 .. MaxEdits
        /\ disruptions' \in 0 .. MaxDisruptions
    BY <2>1 DEF TypeOK, Edits
  <2> QED BY <2>1, <2>2, ReadKeeps
<1>2. ASSUME NEW c \in Calls, Claim(c) \/ RecoverExpiredClaims(c)
                               \/ PauseStaleWorkflow(c) \/ AbandonCall(c)
      PROVE  CInv'
  BY <1>2, ReadClaimKeeps, ClaimKeeps, PlaceKeeps, RecoverKeeps, PauseKeeps DEF Claim
<1>3. ASSUME NEW c \in Calls, Work(c)
      PROVE  CInv'
  BY <1>3, PlaceKeeps, CreateKeeps, LinkKeeps, LookUpKeeps, InsertKeeps,
     ReadReadyKeeps, MarkReadyKeeps DEF Work
<1>4. CASE Author
  <2>1. ASSUME NEW c \in Calls, AskReady(c)
        PROVE  CInv'
    BY <2>1, CompleteKeeps DEF AskReady
  <2> QED BY <1>4, <2>1, RejectKeeps, RequestKeeps, ApproveKeeps, ReplaceKeeps,
             PublishKeeps, SynchroniseKeeps, CancelKeeps DEF Author
<1>5. CASE LeaseLapses
  BY <1>5, LeaseLapsesKeeps
<1>6. CASE ApproveOutline
  BY <1>6, OutlineKeeps
<1> QED BY <1>1, <1>2, <1>3, <1>4, <1>5, <1>6 DEF Next

\* CInv is an invariant of the candidate step and the author's second gate.
THEOREM CandidateInductive == Spec => []CInv
<1>1. CInv /\ [Next]_vars => CInv'
  BY StepKeeps
<1> QED BY <1>1, InitHolds, PTL DEF Spec

\* Every column has its type.
THEOREM CandidateTypes == Spec => []TypeOK
<1>1. CInv => TypeOK
  BY DEF CInv
<1> QED BY <1>1, CandidateInductive, PTL

\* The workflow and the author's decision never contradict each other
\* (services/workflows.py: reconcile_batch_decision).
THEOREM OutcomesNeverDisagree == Spec => []OutcomesAgree
<1>1. CInv => OutcomesAgree
  BY DEF CInv, Outcomes
<1> QED BY <1>1, CandidateInductive, PTL

\* The project is held until the workflow has ended and its batch is decided.
THEOREM ProjectStaysHeld == Spec => []ProjectHeld
<1>1. CInv => ProjectHeld
  BY DEF CInv, Outcomes
<1> QED BY <1>1, CandidateInductive, PTL

\* Text is official exactly when the author approved the batch, and then it is
\* valid and numbered without a gap, although bodies may be replaced while the
\* request to approve is under way (services/batches.py: approve).
THEOREM OfficialTextWasApproved == Spec => []OfficialTextIsApproved
<1>1. CInv => OfficialTextIsApproved
  BY DEF CInv, Texts
<1> QED BY <1>1, CandidateInductive, PTL

\* No batch is submitted or approved with a chapter missing, although
\* mark_ready's UPDATE does not look at the chapters (services/batches.py).
THEOREM SubmittedBatchesAreWhole == Spec => []SubmittedBatchIsWhole
<1>1. CInv => SubmittedBatchIsWhole
  BY DEF CInv, Texts
<1> QED BY <1>1, CandidateInductive, PTL

\* A decision can always be carried to the workflow, or was.
LEMMA DecisionReconciles ==
    ASSUME TypeOK, Outcomes, batch \in Decided
    PROVE  /\ workflow.status \in Terminal => AlreadyReconciled
           /\ workflow.status \notin Terminal => Reconcilable
<1>1. \/ batch = "approved" /\ Target = "COMPLETED"
      \/ batch = "rejected" /\ Target = "REJECTED"
  BY TargetStatus DEF Decided
<1>2. CASE workflow.status \in Terminal
  <2>1. workflow.status = Target /\ workflow.linked
    BY <1>1, <1>2 DEF Outcomes, OutcomesAgree, RowFacts, Terminal
  <2> QED BY <1>2, <2>1 DEF AlreadyReconciled
<1>3. CASE workflow.status \notin Terminal
  <2>1. ~AlreadyReconciled
    BY <1>1, <1>3 DEF AlreadyReconciled, Terminal
  <2>2. workflow.status \in {"CREATING_CANDIDATE_BATCH", "AWAITING_CONTENT_APPROVAL",
                             "PAUSED_STALE_VERSION"}
    BY <1>3, WorkflowColumns DEF Statuses
  <2>3. CASE workflow.status = "PAUSED_STALE_VERSION"
    <3>1. PausedDecision
      BY <2>3 DEF PausedDecision, Outcomes, RowFacts
    <3> QED BY <1>3, <2>1, <3>1 DEF Reconcilable
  <2>4. CASE workflow.status # "PAUSED_STALE_VERSION"
    <3>1. Target \in AllowedTransitions[workflow.status]
      BY <1>1, <2>2, <2>4, TransitionTable DEF Statuses, Terminal
    <3> QED BY <1>3, <2>1, <3>1 DEF Reconcilable
  <2> QED BY <2>3, <2>4
<1> QED BY <1>2, <1>3

\* No workflow is stranded: from every state that is not an end some operation
\* of the author or of a call leads on.
THEOREM NoCandidateStranded == Spec => []WayOut
<1>1. ASSUME CInv
      PROVE  WayOut
  <2>1. TypeOK /\ Outcomes
    BY <1>1 DEF CInv
  <2>2. /\ workflow.status = "CREATING_CANDIDATE_BATCH" =>
              \/ step.status = "PENDING" /\ step.lease = "none"
              \/ step.status = "RUNNING" /\ step.lease # "none"
        /\ workflow.status = "AWAITING_CONTENT_APPROVAL" => step.status = "COMPLETED"
    BY <2>1 DEF Outcomes, RowFacts
  <2>3. batch \in Decided => AlreadyReconciled \/ Reconcilable
    BY <2>1, DecisionReconciles
  <2>4. ASSUME workflow.status = "PAUSED_STALE_VERSION"
        PROVE  \/ CanCancel
               \/ batch \in Undecided /\ project.active
               \/ batch \in Decided /\ Reconcilable
    <3>1. workflow.status \notin Terminal
      BY <2>4 DEF Terminal
    <3>2. CASE batch = "none"
      BY <2>1, <2>4, <3>1, <3>2
         DEF CanCancel, Outcomes, OutcomesAgree, ProjectHeld, Undecided
    <3>3. CASE batch \in Undecided
      BY <2>1, <3>3 DEF Outcomes, ProjectHeld
    <3>4. CASE batch \in Decided
      BY <2>1, <3>1, <3>4, DecisionReconciles
    <3> QED BY <2>1, <3>2, <3>3, <3>4, WorkflowColumns DEF BatchStatuses
  <2> QED BY <2>2, <2>3, <2>4 DEF WayOut
<1> QED BY <1>1, CandidateInductive, PTL

-----------------------------------------------------------------------------
(* What a step may never do. *)

\* The steps that write a row.
StepWrites(c) ==
    RecoverExpiredClaims(c) \/ PauseStaleWorkflow(c) \/ ClaimStep(c)
BatchWrites ==
    \/ \E c \in Calls : CreateBatch(c) \/ (MarkReady(c) /\ CanMarkReady)
    \/ RejectBatch \/ ApproveBatch
ChapterWrites ==
    \/ \E c \in Calls : InsertChapter(c) /\ CanInsert(c)
    \/ ReplaceCandidateBody
    \/ \E o \in Ordinals : PublishChapter(o)

BatchReconciled == batch # "none" /\ Reconcilable /\ ReconcileWrites

LEMMA WritingSteps ==
    ASSUME [Next]_vars
    PROVE  \/ UNCHANGED rows
           \/ \E c \in Calls : StepWrites(c)
           \/ BatchWrites
           \/ ChapterWrites
           \/ BatchReconciled
           \/ LeaseLapses \/ Cancel \/ ApproveOutline
<1>1. CASE UNCHANGED vars
  BY <1>1 DEF vars
<1>2. ASSUME NEW c \in Calls, Claim(c) \/ AbandonCall(c)
      PROVE  (UNCHANGED rows) \/ StepWrites(c)
  BY <1>2 DEF Claim, ReadClaim, LoseClaim, AbandonCall, StepWrites
<1>3. ASSUME NEW c \in Calls, InsertChapter(c)
      PROVE  UNCHANGED rows \/ CanInsert(c)
  BY <1>3 DEF InsertChapter, rows
<1>4. ASSUME NEW c \in Calls, MarkReady(c)
      PROVE  UNCHANGED rows \/ CanMarkReady
  BY <1>4 DEF MarkReady, rows
<1>5. ASSUME NEW c \in Calls, LinkBatch(c) \/ Finish(c)
      PROVE  UNCHANGED rows \/ BatchReconciled
  <2>1. PICK pc \in {"saving", "idle"} : Reconcile(c, pc)
    BY <1>5 DEF LinkBatch, Finish
  <2> QED BY <2>1 DEF Reconcile, BatchReconciled
<1>6. ASSUME NEW c \in Calls, Work(c)
      PROVE  \/ UNCHANGED rows \/ BatchWrites \/ ChapterWrites
             \/ BatchReconciled
  <2>1. CASE \/ FindBatch(c) \/ FailToCreate(c) \/ Recheck(c)
             \/ LookUpChapter(c) \/ ReadReady(c) \/ CheckLease(c)
    BY <2>1 DEF FindBatch, FailToCreate, Recheck, LookUpChapter, ReadReady, CheckLease
  <2>2. CASE CreateBatch(c)
    BY <2>2 DEF BatchWrites
  <2>3. CASE InsertChapter(c)
    BY <1>3, <2>3 DEF ChapterWrites
  <2>4. CASE MarkReady(c)
    BY <1>4, <2>4 DEF BatchWrites
  <2> QED BY <1>5, <1>6, <2>1, <2>2, <2>3, <2>4 DEF Work
<1>7. CASE Author
  BY <1>7 DEF Author, AskReady, ReadApproval, LoseApproval, ReadEdit, BatchWrites,
              ChapterWrites, Synchronise, BatchReconciled
<1> QED BY <1>1, <1>2, <1>6, <1>7 DEF Next, StepWrites

\* What a step makes of the batch and of the ownership of the project.
BatchStays == batch' = batch /\ project'.owned = project.owned
BatchMoves ==
    /\ project'.owned = project.owned
    /\ \/ batch = "none" /\ batch' = "draft" /\ project.owned
       \/ batch = "draft" /\ batch' = "ready_for_review"
       \/ batch \in Undecided /\ batch' = "rejected" /\ project.active
       \/ /\ batch = "ready_for_review" /\ batch' = "approved"
          /\ project.active /\ project.current
WorkflowEnds ==
    batch' = batch /\ batch \notin Undecided /\ project.owned /\ ~project'.owned

LEMMA BatchLife ==
    ASSUME CInv, [Next]_vars
    PROVE  BatchStays \/ BatchMoves \/ WorkflowEnds
<1>1. /\ project \in ProjectRows /\ project.owned \in BOOLEAN
      /\ TypeOK /\ Outcomes
  BY WorkflowColumns DEF CInv, TypeOK
<1>2. CASE UNCHANGED rows \/ (\E c \in Calls : StepWrites(c)) \/ ChapterWrites
           \/ LeaseLapses
  BY <1>2 DEF rows, StepWrites, RecoverExpiredClaims, PauseStaleWorkflow, ClaimStep,
     ChapterWrites, InsertChapter, ReplaceCandidateBody, PublishChapter,
     LeaseLapses, BatchStays
<1>3. CASE ApproveOutline
  BY <1>1, <1>3 DEF ApproveOutline, BatchStays, ProjectRows
<1>4. CASE BatchWrites
  <2>1. ASSUME NEW c \in Calls, CreateBatch(c)
        PROVE  BatchMoves
    <3>1. project'.owned = project.owned
      BY <1>1, <2>1 DEF CreateBatch, ProjectRows
    <3> QED BY <2>1, <3>1 DEF CreateBatch, CanCreate, BatchMoves
  <2>2. ASSUME NEW c \in Calls, MarkReady(c), CanMarkReady
        PROVE  BatchMoves
    BY <2>2 DEF MarkReady, CanMarkReady, BatchMoves
  <2>3. CASE RejectBatch
    BY <1>1, <2>3 DEF RejectBatch, BatchMoves, ProjectRows
  <2>4. CASE ApproveBatch
    <3>1. project'.owned = project.owned
      BY <1>1, <2>4 DEF ApproveBatch, ProjectRows
    <3> QED BY <2>4, <3>1 DEF ApproveBatch, CanApprove, BatchMoves
  <2> QED BY <1>4, <2>1, <2>2, <2>3, <2>4 DEF BatchWrites
<1>5. CASE BatchReconciled
  <2>1. batch' = batch /\ project'.owned = (project.owned /\ batch \notin Decided)
    BY <1>1, <1>5 DEF BatchReconciled, ReconcileWrites, ProjectRows
  <2>2. project.owned
    BY <1>1, <1>5 DEF BatchReconciled, Reconcilable, Outcomes, ProjectHeld
  <2>3. CASE batch \in Decided
    BY <2>1, <2>2, <2>3 DEF WorkflowEnds, Decided, Undecided
  <2>4. CASE batch \notin Decided
    BY <1>1, <2>1, <2>2, <2>4 DEF BatchStays
  <2> QED BY <2>3, <2>4
<1>6. CASE Cancel
  BY <1>1, <1>6 DEF Cancel, CanCancel, WorkflowEnds, Undecided, ProjectRows
<1> QED BY <1>2, <1>3, <1>4, <1>5, <1>6, WritingSteps

\* No step touches a workflow that has ended, or its step.
LEMMA EndedStays ==
    ASSUME CInv, [Next]_vars, workflow.status \in Terminal
    PROVE  UNCHANGED <<workflow, step>>
<1>1. workflow.status # "CREATING_CANDIDATE_BATCH"
      /\ workflow.status # "PAUSED_STALE_VERSION"
  BY DEF Terminal
<1>2. step.lease = "none"
  BY <1>1 DEF CInv, Outcomes, RowFacts
<1>3. \A c \in Calls : ~StepWrites(c)
  BY <1>1 DEF StepWrites, RecoverExpiredClaims, PauseStaleWorkflow, ClaimStep,
              CInv, ReadFacts, Informed
<1>4. ~BatchReconciled /\ ~Cancel /\ ~LeaseLapses
  BY <1>1, <1>2 DEF BatchReconciled, Reconcilable, Cancel, CanCancel, LeaseLapses
<1>5. CASE UNCHANGED rows \/ BatchWrites \/ ChapterWrites \/ ApproveOutline
  BY <1>5 DEF rows, BatchWrites, CreateBatch, MarkReady, RejectBatch, ApproveBatch,
     ChapterWrites, InsertChapter, ReplaceCandidateBody, PublishChapter,
     ApproveOutline
<1> QED BY <1>3, <1>4, <1>5, WritingSteps

\* The author's decision and the end of the workflow are final, whatever call
\* is late (services/workflows.py: reconcile_batch_decision, complete_attempt).
THEOREM DecisionsStay == Spec => DecisionsAreFinal
<1>1. ASSUME CInv, [Next]_vars
      PROVE  /\ batch \in Decided => batch' = batch
             /\ workflow.status \in Terminal => UNCHANGED <<workflow, step>>
  <2>1. batch \in Decided => batch' = batch
    BY <1>1, BatchLife DEF BatchStays, BatchMoves, WorkflowEnds, Decided, Undecided
  <2> QED BY <1>1, <2>1, EndedStays
<1>2. CInv /\ [Next]_vars =>
        [ /\ batch \in Decided => batch' = batch
          /\ workflow.status \in Terminal => UNCHANGED <<workflow, step>> ]_vars
  BY <1>1
<1> QED BY <1>2, CandidateInductive, PTL DEF Spec, DecisionsAreFinal

\* Text becomes official only on the outline its batch was made for
\* (services/batches.py: approve).
THEOREM ApprovalsAreCurrent == Spec => ApprovedOnCurrentOutline
<1>1. CInv /\ [Next]_vars =>
        [ batch' = "approved" /\ batch # "approved" => project.current ]_vars
  BY BatchLife DEF BatchStays, BatchMoves, WorkflowEnds
<1> QED BY <1>1, CandidateInductive, PTL DEF Spec, ApprovedOnCurrentOutline

\* What a step makes of one chapter.
ChapterMoves(o) ==
    \/ chapter'[o] = chapter[o]
    \/ chapter[o].status = "absent"
    \/ /\ chapter[o].status = "candidate"
       /\ chapter'[o].revision = chapter[o].revision + 1
    \/ /\ chapter[o].status = "official"
       /\ chapter'[o].revision = chapter[o].revision + 1
       /\ chapter'[o].body = chapter[o].body
       /\ chapter'[o].number = chapter[o].number

LEMMA ChapterLife ==
    ASSUME CInv, [Next]_vars, NEW o \in Ordinals
    PROVE  ChapterMoves(o)
<1>1. chapter \in [Ordinals -> ChapterRows] /\ chapter[o] \in ChapterRows
  BY DEF CInv, TypeOK
<1>2. CASE \/ UNCHANGED rows \/ (\E c \in Calls : StepWrites(c)) \/ LeaseLapses
           \/ BatchReconciled \/ Cancel \/ ApproveOutline
  BY <1>2 DEF rows, StepWrites, RecoverExpiredClaims, PauseStaleWorkflow, ClaimStep,
     LeaseLapses, BatchReconciled, ReconcileWrites, Cancel, ApproveOutline,
     ChapterMoves
<1>3. CASE BatchWrites
  <2>1. CASE ApproveBatch
    <3>1. chapter[o].status = "candidate"
      BY <2>1 DEF ApproveBatch, CanApprove, CInv, ReadFacts, ApprovalIsWhole
    <3>2. chapter'[o].revision = chapter[o].revision + 1
      BY <2>1 DEF ApproveBatch, Promoted
    <3> QED BY <3>1, <3>2 DEF ChapterMoves
  <2>2. CASE ~ApproveBatch
    BY <1>3, <2>2 DEF BatchWrites, CreateBatch, MarkReady, RejectBatch, ChapterMoves
  <2> QED BY <2>1, <2>2
<1>4. ASSUME NEW c \in Calls, InsertChapter(c), CanInsert(c)
      PROVE  ChapterMoves(o)
  BY <1>1, <1>4 DEF InsertChapter, CanInsert, ChapterMoves
<1>5. CASE ReplaceCandidateBody
  <2>1. CASE CanEdit /\ edit.ordinal = o
    <3>1. chapter[o].status = "candidate"
      BY <2>1 DEF CanEdit
    <3>2. chapter'[o].revision = chapter[o].revision + 1
      BY <1>1, <1>5, <2>1 DEF ReplaceCandidateBody, ChapterRows
    <3> QED BY <3>1, <3>2 DEF ChapterMoves
  <2>2. CASE ~(CanEdit /\ edit.ordinal = o)
    BY <1>1, <1>5, <2>2 DEF ReplaceCandidateBody, ChapterMoves
  <2> QED BY <2>1, <2>2
<1>6. ASSUME NEW q \in Ordinals, PublishChapter(q)
      PROVE  ChapterMoves(o)
  <2>1. CASE q = o
    <3>1. /\ chapter'[o].revision = chapter[o].revision + 1
          /\ chapter'[o].body = chapter[o].body
          /\ chapter'[o].number = chapter[o].number
      BY <1>1, <1>6, <2>1 DEF PublishChapter, ChapterRows
    <3> QED BY <1>6, <2>1, <3>1 DEF PublishChapter, ChapterMoves
  <2>2. CASE q # o
    BY <1>1, <1>6, <2>2 DEF PublishChapter, ChapterMoves
  <2> QED BY <2>1, <2>2
<1> QED BY <1>2, <1>3, <1>4, <1>5, <1>6, WritingSteps DEF ChapterWrites

\* Official and published text is frozen (services/batches.py:
\* replace_candidate_body, publish).
THEOREM OfficialTextStays == Spec => OfficialTextIsFrozen
<1>1. ASSUME CInv, [Next]_vars, NEW o \in Ordinals,
             chapter[o].status \in {"official", "published"}
      PROVE  chapter'[o].body = chapter[o].body /\ chapter'[o].number = chapter[o].number
  BY <1>1, ChapterLife DEF ChapterMoves
<1>2. CInv /\ [Next]_vars =>
        [ \A o \in Ordinals : chapter[o].status \in {"official", "published"} =>
            /\ chapter'[o].body = chapter[o].body
            /\ chapter'[o].number = chapter[o].number ]_vars
  BY <1>1
<1> QED BY <1>2, CandidateInductive, PTL DEF Spec, OfficialTextIsFrozen

\* A chapter that was saved is not saved again (orchestrator.py:
\* _create_candidate_batch).
THEOREM ChaptersStayCopied == Spec => ChaptersAreCopiedOnce
<1>1. ASSUME CInv, [Next]_vars, NEW o \in Ordinals, chapter[o].status # "absent"
      PROVE  \/ chapter'[o] = chapter[o]
             \/ chapter'[o].revision = chapter[o].revision + 1
  BY <1>1, ChapterLife DEF ChapterMoves
<1>2. CInv /\ [Next]_vars =>
        [ \A o \in Ordinals : chapter[o].status # "absent" =>
            \/ chapter'[o] = chapter[o]
            \/ chapter'[o].revision = chapter[o].revision + 1 ]_vars
  BY <1>1
<1> QED BY <1>2, CandidateInductive, PTL DEF Spec, ChaptersAreCopiedOnce

-----------------------------------------------------------------------------
(* The refinement of AuthorGates. *)

LEMMA TextFacts ==
    /\ batch = "none" => TextOf = "none"
    /\ batch \in Undecided => TextOf = "candidate"
    /\ batch = "approved" => TextOf = "official"
    /\ batch = "rejected" => TextOf = "rejected"
BY DEF TextOf, Undecided

LEMMA TextFactsNext ==
    /\ batch' = "none" => TextOf' = "none"
    /\ batch' \in Undecided => TextOf' = "candidate"
    /\ batch' = "approved" => TextOf' = "official"
    /\ batch' = "rejected" => TextOf' = "rejected"
BY DEF TextOf, Undecided

\* A batch that is made offers the text, its decision decides the text, and the
\* end of the workflow releases the project.
LEMMA GatesStep == CInv /\ [Next]_vars => [Gates!Next]_(Gates!vars)
<1> SUFFICES ASSUME CInv, [Next]_vars
             PROVE  Gates!Next \/ UNCHANGED <<TextOf, project.owned>>
  BY DEF Gates!vars
<1>1. ProjectHeld /\ batch \in BatchStatuses
  BY WorkflowColumns DEF CInv, Outcomes
<1>2. batch' = batch => TextOf' = TextOf
  BY DEF TextOf
<1>3. CASE BatchStays
  BY <1>2, <1>3 DEF BatchStays
<1>4. CASE BatchMoves
  <2>1. CASE batch = "none"
    BY <1>4, <2>1, TextFacts, TextFactsNext
       DEF BatchMoves, Undecided, Gates!Next, Gates!OfferText
  <2>2. CASE batch = "draft" /\ batch' = "ready_for_review"
    BY <1>4, <2>2, TextFacts, TextFactsNext DEF BatchMoves, Undecided
  <2>3. CASE batch \in Undecided /\ batch' \in {"approved", "rejected"}
    <3>1. project.owned /\ project'.owned = project.owned
      BY <1>1, <1>4, <2>3 DEF ProjectHeld, BatchMoves
    <3> QED BY <2>3, <3>1, TextFacts, TextFactsNext DEF Gates!Next, Gates!DecideText
  <2> QED BY <1>4, <2>1, <2>2, <2>3 DEF BatchMoves, Undecided
<1>5. CASE WorkflowEnds
  <2>1. TextOf # "candidate" /\ TextOf' = TextOf
    BY <1>1, <1>2, <1>5, TextFacts DEF WorkflowEnds, BatchStatuses, Decided
  <2>2. project'.owned = FALSE
    <3>1. CInv'
      BY StepKeeps
    <3>2. project'.owned \in BOOLEAN
      BY <3>1 DEF CInv, TypeOK, ProjectRows
    <3> QED BY <1>5, <3>2 DEF WorkflowEnds
  <2> QED BY <1>5, <2>1, <2>2 DEF WorkflowEnds, Gates!Next, Gates!Release
<1> QED BY <1>3, <1>4, <1>5, BatchLife

LEMMA GatesInitial == Init => Gates!AtCandidateStep
<1> SUFFICES ASSUME Init PROVE Gates!AtCandidateStep
  OBVIOUS
<1>1. batch = "none" /\ project.owned = TRUE
  BY DEF Init
<1>2. TextOf = "none"
  BY <1>1, TextFacts
<1> QED BY <1>1, <1>2 DEF Gates!AtCandidateStep

\* The promise made to the author is kept from the candidate step on.
THEOREM CandidateKeepsGates == Spec => ImplementsAuthorGates
BY GatesInitial, GatesStep, CandidateInductive, PTL
   DEF Spec, ImplementsAuthorGates, Gates!FromCandidateStep
=============================================================================
