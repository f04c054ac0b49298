----------------------- MODULE ProjectOwnershipProofs -----------------------
(***************************************************************************)
(* What holds of one project for every number of sessions, outlines,       *)
(* workflows and batches: its outlines are those of OutlineVersions,       *)
(* whatever the rest of the project does meanwhile; its row agrees with    *)
(* the rows it names; and it is worked on in serial rounds.                *)
(***************************************************************************)
EXTENDS ProjectOwnership, OutlineVersionsProofs, SequenceTheorems

\* Apart from the sessions that make and approve outlines nobody writes an
\* outline row or the pointer of the project.
LEMMA OnlyRevisionsWriteOutlines ==
    ASSUME [Next]_vars
    PROVE  [OutlineNext]_outlineVars
<1>1. CASE UNCHANGED vars
  BY <1>1 DEF vars
<1>2. CASE \E approved \in BOOLEAN : AddConstitution(approved)
  BY <1>2 DEF AddConstitution
<1>3. ASSUME NEW s \in Sessions, SessionStep(s)
      PROVE  [OutlineNext]_outlineVars
  <2>1. CASE ReviseOutline(s)
    BY <1>3, <2>1 DEF ReviseOutline, OutlineNext
  <2>2. CASE ~ReviseOutline(s)
    BY <1>3, <2>2 DEF SessionStep, ReadStart, StartWorkflow, RefuseStart,
       ReadManualCreate, ReadGeneratedCreate, ReadCreate, CreateBatch,
       RefuseCreate
  <2> QED BY <2>1, <2>2
<1>4. ASSUME NEW b \in DOMAIN batch, BatchStep(b)
      PROVE  [OutlineNext]_outlineVars
  BY <1>4 DEF BatchStep, MarkReady, ApproveBatch, RejectBatch
<1>5. ASSUME NEW w \in DOMAIN workflow, WorkflowStep(w)
      PROVE  [OutlineNext]_outlineVars
  BY <1>5 DEF WorkflowStep, PauseWorkflow, AcceptReview, RejectPlan, Cancel,
     Reconcile
<1> QED BY <1>1, <1>2, <1>3, <1>4, <1>5 DEF Next

\* Whatever a project does, its outlines take only the steps of OutlineVersions
\* (services/outlines.py is the one writer of their rows and of the pointer).
THEOREM OutlinesAreAlone == Spec => OutlineSpec
<1>1. Init => OutlineInit
  BY DEF Init
<1> QED BY <1>1, OnlyRevisionsWriteOutlines, PTL DEF Spec, OutlineSpec

\* For any number of sessions the official outlines form one line, while
\* workflows, batches and constitutions change the same row of the project
\* (services/outlines.py: approve).
THEOREM ProjectLineage == Spec => []OfficialLineage
BY OutlinesAreAlone, OutlineLineage, PTL

-----------------------------------------------------------------------------
(* The inductive invariant of the rows that compete for the project. *)

\* A workflow that generates, or is paused before its candidate step.
Writing == {"generating", "paused"}

\* A batch comes from a workflow that exists and is past its generation, and a
\* workflow has one batch at most.
Sources ==
    /\ \A b \in DOMAIN batch : batch[b].source <= Len(workflow)
    /\ \A b, c \in DOMAIN batch :
          batch[b].source = batch[c].source => b = c \/ batch[b].source = 0
    /\ \A w \in DOMAIN workflow, b \in DOMAIN batch :
          workflow[w].status \in Writing => batch[b].source # w

\* The project's counters: of batches, and of official chapters.
Counters ==
    /\ project.sequence = Len(batch) + 1
    /\ project.chapter >= 1
    /\ \A b \in DOMAIN batch :
          batch[b].status = "approved" =>
              batch[b].first + batch[b].size <= project.chapter
    /\ (\A b \in DOMAIN batch : batch[b].status # "approved") => project.chapter = 1

Owned == OwnershipAgrees /\ Sources
Numbered == ChaptersAreConsecutive /\ Counters
ProjectInv == TypeOK /\ Owned /\ Numbered

-----------------------------------------------------------------------------
(* The rows, and what an operation on one of them leaves of the others. *)

WorkflowStatuses == {"generating", "creating", "waiting", "paused", "stalled", "ended"}
BatchStatuses == {"draft", "ready_for_review", "approved", "rejected"}

LEMMA ProjectColumns ==
    ASSUME TypeOK
    PROVE  /\ Len(workflow) \in Nat /\ Len(batch) \in Nat
           /\ DOMAIN workflow = 1 .. Len(workflow)
           /\ DOMAIN batch = 1 .. Len(batch)
           /\ project \in ProjectRows
           /\ project.constitutions \in Nat
           /\ project.constitution \in 0 .. project.constitutions
           /\ project.workflow \in 0 .. Len(workflow)
           /\ project.batch \in 0 .. Len(batch)
           /\ project.sequence \in Nat /\ project.chapter \in Nat
BY LenProperties DEF TypeOK, ProjectRows

LEMMA WorkflowColumns ==
    ASSUME TypeOK, NEW w \in DOMAIN workflow
    PROVE  /\ workflow[w] \in WorkflowRows
           /\ workflow[w].status \in WorkflowStatuses /\ workflow[w].base \in Nat
<1>1. workflow[w] \in WorkflowRows
  BY LenProperties, ElementOfSeq DEF TypeOK
<1> QED BY <1>1 DEF WorkflowRows, WorkflowStatuses

LEMMA SizesAreNumbers == \A n \in Sizes : n \in Nat /\ n > 0
BY SizesAssumption

LEMMA BatchColumns ==
    ASSUME TypeOK, NEW b \in DOMAIN batch
    PROVE  /\ batch[b] \in BatchRows
           /\ batch[b].status \in BatchStatuses
           /\ batch[b].source \in Nat /\ batch[b].base \in Nat
           /\ batch[b].sequence \in Nat /\ batch[b].size \in Sizes
           /\ batch[b].size \in Nat /\ batch[b].size > 0 /\ batch[b].first \in Nat
<1>1. batch[b] \in BatchRows
  BY LenProperties, ElementOfSeq DEF TypeOK
<1>2. /\ batch[b].status \in BatchStatuses
      /\ batch[b].source \in Nat /\ batch[b].base \in Nat
      /\ batch[b].sequence \in Nat /\ batch[b].size \in Sizes
      /\ batch[b].first \in Nat
  BY <1>1 DEF BatchRows, BatchStatuses
<1> QED BY <1>1, <1>2, SizesAreNumbers

LEMMA RequestColumns ==
    ASSUME TypeOK, NEW s \in Sessions
    PROVE  /\ request[s] \in Requests
           /\ request[s].pc \in {"idle", "starting", "creating"}
           /\ request[s].constitution \in Nat /\ request[s].outline \in Nat
           /\ request[s].source \in 0 .. Len(workflow)
           /\ request[s].sequence \in Nat
BY DEF TypeOK, Requests

\* Requests stay well-typed when workflows are added.
LEMMA RequestsStay ==
    ASSUME TypeOK, Len(workflow') \in Nat, Len(workflow) <= Len(workflow'),
           \A s \in Sessions :
               \/ request'[s] = request[s]
               \/ /\ request'[s] \in [pc : {"idle", "starting", "creating"},
                                      constitution : Nat, outline : Nat,
                                      source : Nat, sequence : Nat]
                  /\ request'[s].source <= Len(workflow),
           request' = [s \in Sessions |-> request'[s]]
    PROVE  request' \in [Sessions -> Requests']
<1> SUFFICES ASSUME NEW s \in Sessions
             PROVE  request'[s] \in Requests'
  OBVIOUS
<1>1. 0 .. Len(workflow) \subseteq 0 .. Len(workflow')
      /\ \A n \in Nat : n <= Len(workflow) => n \in 0 .. Len(workflow')
  BY ProjectColumns
<1>2. CASE request'[s] = request[s]
  BY <1>1, <1>2, RequestColumns DEF Requests
<1>3. CASE request'[s] # request[s]
  BY <1>1, <1>3 DEF Requests
<1> QED BY <1>2, <1>3

LEMMA RequestGone ==
    /\ NoRequest \in [pc : {"idle", "starting", "creating"}, constitution : Nat,
                      outline : Nat, source : Nat, sequence : Nat]
    /\ NoRequest.source = 0
BY DEF NoRequest

\* A session forgets its request.
LEMMA ForgottenStays ==
    ASSUME TypeOK, NEW s \in Sessions, RequestGoes(s, NoRequest),
           Len(workflow') \in Nat, Len(workflow) <= Len(workflow')
    PROVE  request' \in [Sessions -> Requests']
<1>1. request \in [Sessions -> Requests] /\ 0 <= Len(workflow)
  BY ProjectColumns DEF TypeOK
<1> QED BY <1>1, RequestGone, RequestsStay DEF RequestGoes

-----------------------------------------------------------------------------
(* What the operations do to the rows. *)

CountersStay == project'.sequence = project.sequence /\ project'.chapter = project.chapter

RowsStay ==
    /\ workflow' = workflow /\ batch' = batch
    /\ project'.workflow = project.workflow /\ project'.batch = project.batch
    /\ CountersStay

WorkflowBegins ==
    /\ project.workflow = 0 /\ project.batch = 0
    /\ Len(workflow') = Len(workflow) + 1
    /\ \A w \in DOMAIN workflow : workflow'[w] = workflow[w]
    /\ workflow'[Len(workflow) + 1].status = "generating"
    /\ project'.workflow = Len(workflow) + 1 /\ project'.batch = 0
    /\ CountersStay
    /\ batch' = batch

BatchBegins ==
    LET new == Len(batch) + 1
    IN  /\ project.batch = 0
        /\ project.workflow # 0 =>
              /\ BatchesOf(project.workflow) = {}
              /\ workflow[project.workflow].status = "creating"
        /\ Len(batch') = new
        /\ \A b \in DOMAIN batch : batch'[b] = batch[b]
        /\ batch'[new].status = "draft" /\ batch'[new].source = project.workflow
        /\ batch'[new].sequence = project.sequence
        /\ project'.batch = new /\ project'.workflow = project.workflow
        /\ project'.sequence = project.sequence + 1
        /\ project'.chapter = project.chapter
        /\ workflow' = workflow

BatchGoes(b) ==
    /\ project.batch = b
    /\ Len(batch') = Len(batch)
    /\ \A c \in DOMAIN batch \ {b} : batch'[c] = batch[c]
    /\ batch'[b].source = batch[b].source /\ batch'[b].sequence = batch[b].sequence
    /\ batch'[b].size = batch[b].size
    /\ \/ batch'[b].status = "ready_for_review" /\ project' = project
       \/ /\ batch'[b].status \in {"approved", "rejected"}
          /\ project.sequence = batch[b].sequence + 1
          /\ project'.workflow = project.workflow /\ project'.batch = 0
          /\ project'.sequence = project.sequence
          /\ IF batch'[b].status = "approved"
             THEN /\ batch'[b].first = project.chapter
                  /\ project'.chapter = project.chapter + batch[b].size
             ELSE project'.chapter = project.chapter
    /\ workflow' = workflow

OthersStay(w) ==
    /\ Len(workflow') = Len(workflow)
    /\ \A v \in DOMAIN workflow \ {w} : workflow'[v] = workflow[v]
    /\ batch' = batch

WorkflowGoesOn(w) ==
    /\ workflow[w].status # "ended" /\ workflow'[w].status # "ended"
    /\ workflow'[w].status \in Writing => workflow[w].status \in Writing
    /\ project' = project
    /\ OthersStay(w)

WorkflowEnds(w) ==
    /\ workflow[w].status # "ended" /\ workflow'[w].status = "ended"
    /\ \/ workflow[w].status \in Writing
       \/ BatchesOf(w) = {}
       \/ \E b \in BatchesOf(w) : ~Undecided(b)
    /\ project'.workflow = 0 /\ project'.batch = project.batch
    /\ CountersStay
    /\ OthersStay(w)

ProjectMoves ==
    \/ RowsStay \/ WorkflowBegins \/ BatchBegins
    \/ \E b \in DOMAIN batch : BatchGoes(b)
    \/ \E w \in DOMAIN workflow : WorkflowGoesOn(w) \/ WorkflowEnds(w)

OwnTypes ==
    /\ project' \in ProjectRows'
    /\ workflow' \in Seq(WorkflowRows)
    /\ batch' \in Seq(BatchRows)
    /\ request' \in [Sessions -> Requests']

-----------------------------------------------------------------------------
(* One lemma for each operation: the types it keeps, and its move. *)

LEMMA StayTypes ==
    ASSUME TypeOK, RowsStay, project' \in ProjectRows', request' \in [Sessions -> Requests']
    PROVE  OwnTypes
BY DEF TypeOK, RowsStay, OwnTypes

LEMMA ConstitutionMoves ==
    ASSUME ProjectInv, NEW approved \in BOOLEAN, AddConstitution(approved)
    PROVE  OwnTypes /\ ProjectMoves
<1>1. TypeOK
  BY DEF ProjectInv
<1> DEFINE new == project.constitutions + 1
<1>2. /\ project' = [project EXCEPT !.constitutions = new,
                                    !.constitution = IF approved THEN new ELSE @]
      /\ UNCHANGED <<workflow, batch, request>>
  BY DEF AddConstitution
<1>3. /\ new \in Nat /\ 0 .. project.constitutions \subseteq 0 .. new
      /\ new \in 0 .. new
  BY <1>1, ProjectColumns
<1>4. /\ project'.constitutions = new /\ project'.constitution \in 0 .. new
      /\ project' \in ProjectRows'
  <2> HIDE DEF new
  <2>1. /\ project'.constitutions = new /\ project'.constitution \in 0 .. new
        /\ project'.workflow = project.workflow /\ project'.batch = project.batch
        /\ project'.sequence = project.sequence /\ project'.chapter = project.chapter
    BY <1>1, <1>2, <1>3, ProjectColumns DEF ProjectRows
  <2>2. project' = [constitution |-> project'.constitution,
                    constitutions |-> project'.constitutions,
                    workflow |-> project'.workflow, batch |-> project'.batch,
                    sequence |-> project'.sequence, chapter |-> project'.chapter]
    BY <1>1, <1>2, ProjectColumns DEF ProjectRows
  <2> QED BY <1>1, <1>2, <1>3, <2>1, <2>2, ProjectColumns DEF ProjectRows
<1>5. RowsStay
  BY <1>1, <1>2, ProjectColumns DEF RowsStay, CountersStay, ProjectRows
<1>6. request' \in [Sessions -> Requests']
  BY <1>1, <1>2 DEF TypeOK, Requests
<1> QED BY <1>1, <1>4, <1>5, <1>6, StayTypes DEF ProjectMoves

\* Nothing is written but what a session remembers.
LEMMA RequestMoves ==
    ASSUME ProjectInv, UNCHANGED <<project, workflow, batch>>,
           request' \in [Sessions -> Requests]
    PROVE  OwnTypes /\ ProjectMoves
<1>1. TypeOK
  BY DEF ProjectInv
<1>2. RowsStay /\ project' \in ProjectRows' /\ Requests' = Requests
  BY <1>1 DEF TypeOK, RowsStay, CountersStay, ProjectRows, Requests
<1> QED BY <1>1, <1>2, StayTypes DEF ProjectMoves

LEMMA ReadStartMoves ==
    ASSUME ProjectInv, NEW s \in Sessions, ReadStart(s)
    PROVE  OwnTypes /\ ProjectMoves
<1> DEFINE r == [NoRequest EXCEPT !.pc = "starting",
                                  !.constitution = project.constitution,
                                  !.outline = official]
<1>1. TypeOK /\ request \in [Sessions -> Requests]
  BY DEF ProjectInv, TypeOK
<1>2. official \in Nat /\ project.constitution \in Nat /\ 0 \in 0 .. Len(workflow)
  BY <1>1, RowFacts, ProjectColumns DEF TypeOK
<1>3. r \in Requests
  BY <1>2 DEF NoRequest, Requests
<1>4. request' = [request EXCEPT ![s] = r] /\ UNCHANGED <<project, workflow, batch>>
  BY DEF ReadStart, RequestGoes
<1> HIDE DEF r
<1> QED BY <1>1, <1>3, <1>4, RequestMoves

LEMMA ReadCreateMoves ==
    ASSUME ProjectInv, NEW s \in Sessions, NEW source \in 0 .. Len(workflow),
           NEW outline \in Nat, ReadCreate(s, source, outline)
    PROVE  OwnTypes /\ ProjectMoves
<1> DEFINE r == [NoRequest EXCEPT !.pc = "creating",
                                  !.outline = outline,
                                  !.source = source,
                                  !.sequence = project.sequence]
<1>1. TypeOK /\ request \in [Sessions -> Requests]
  BY DEF ProjectInv, TypeOK
<1>2. project.sequence \in Nat
  BY <1>1, ProjectColumns
<1>3. r \in Requests
  BY <1>2 DEF NoRequest, Requests
<1>4. request' = [request EXCEPT ![s] = r] /\ UNCHANGED <<project, workflow, batch>>
  BY DEF ReadCreate, RequestGoes
<1> HIDE DEF r
<1> QED BY <1>1, <1>3, <1>4, RequestMoves

LEMMA RefuseMoves ==
    ASSUME ProjectInv, NEW s \in Sessions, RefuseStart(s) \/ RefuseCreate(s)
    PROVE  OwnTypes /\ ProjectMoves
<1>1. /\ TypeOK /\ UNCHANGED <<project, workflow, batch>>
      /\ RequestGoes(s, NoRequest) /\ Len(workflow) \in Nat
  BY ProjectColumns DEF RefuseStart, RefuseCreate, ProjectInv
<1>2. request' \in [Sessions -> Requests'] /\ Requests' = Requests
  BY <1>1, ForgottenStays DEF Requests
<1> QED BY <1>1, <1>2, RequestMoves

\* A change of owner or counter leaves the row of the project well-typed.
LEMMA ProjectStays ==
    ASSUME TypeOK, Len(workflow') \in Nat, Len(batch') \in Nat,
           project' \in [constitution : Nat, constitutions : Nat, workflow : Nat,
                         batch : Nat, sequence : Nat, chapter : Nat],
           project'.constitution = project.constitution,
           project'.constitutions = project.constitutions,
           project'.workflow <= Len(workflow'), project'.batch <= Len(batch')
    PROVE  project' \in ProjectRows'
BY ProjectColumns DEF ProjectRows

LEMMA StartMoves ==
    ASSUME ProjectInv, NEW s \in Sessions, StartWorkflow(s)
    PROVE  OwnTypes /\ ProjectMoves
<1> DEFINE row == [status |-> "generating", base |-> request[s].outline]
           new == Len(workflow) + 1
<1>1. TypeOK /\ workflow \in Seq(WorkflowRows)
  BY DEF ProjectInv, TypeOK
<1>2. /\ project.workflow = 0 /\ project.batch = 0
      /\ workflow' = Append(workflow, row)
      /\ project' = [project EXCEPT !.workflow = new]
      /\ RequestGoes(s, NoRequest) /\ batch' = batch
  BY DEF StartWorkflow, StartIsFree
<1>3. row \in WorkflowRows /\ row.status = "generating" /\ new \in Nat
  BY <1>1, RequestColumns, ProjectColumns DEF WorkflowRows
<1>4. /\ workflow' \in Seq(WorkflowRows) /\ Len(workflow') = new
      /\ \A w \in DOMAIN workflow : workflow'[w] = workflow[w]
      /\ workflow'[new] = row
  <2> HIDE DEF row
  <2> QED BY <1>1, <1>2, <1>3, AppendProperties, ProjectColumns
<1>5. /\ project'.workflow = new /\ project'.batch = 0 /\ CountersStay
      /\ project'.constitution = project.constitution
      /\ project'.constitutions = project.constitutions
      /\ project' \in [constitution : Nat, constitutions : Nat, workflow : Nat,
                       batch : Nat, sequence : Nat, chapter : Nat]
  <2> HIDE DEF new
  <2> QED BY <1>1, <1>2, <1>3, ProjectColumns DEF ProjectRows, CountersStay
<1>6. project' \in ProjectRows'
  BY <1>1, <1>2, <1>4, <1>5, ProjectStays, ProjectColumns
<1>7. request' \in [Sessions -> Requests']
  BY <1>1, <1>2, <1>3, <1>4, ForgottenStays, ProjectColumns
<1>8. WorkflowBegins
  BY <1>2, <1>3, <1>4, <1>5 DEF WorkflowBegins
<1> QED BY <1>1, <1>2, <1>4, <1>6, <1>7, <1>8 DEF OwnTypes, ProjectMoves, TypeOK

LEMMA CreateMoves ==
    ASSUME ProjectInv, NEW s \in Sessions, CreateBatch(s)
    PROVE  OwnTypes /\ ProjectMoves
<1> DEFINE r == request[s]
           new == Len(batch) + 1
<1>1. TypeOK /\ batch \in Seq(BatchRows)
  BY DEF ProjectInv, TypeOK
<1>2. PICK n \in Sizes :
        batch' = Append(batch, [status |-> "draft", source |-> r.source,
                                base |-> r.outline, sequence |-> r.sequence,
                                size |-> n, first |-> 0])
  BY DEF CreateBatch
<1> DEFINE row == [status |-> "draft", source |-> r.source, base |-> r.outline,
                   sequence |-> r.sequence, size |-> n, first |-> 0]
<1>3. /\ CreateIsFree(r) /\ RequestGoes(s, NoRequest) /\ workflow' = workflow
      /\ project' = [project EXCEPT !.batch = new, !.sequence = r.sequence + 1]
  BY DEF CreateBatch
<1>4. /\ project.batch = 0 /\ r.sequence = project.sequence
      /\ r.source = project.workflow
      /\ r.source # 0 => /\ BatchesOf(r.source) = {}
                         /\ workflow[r.source].status = "creating"
  BY <1>3 DEF CreateIsFree, WorkflowAllows, SourceIsNew
<1>5. /\ row \in BatchRows /\ row.status = "draft" /\ row.source = r.source
      /\ row.sequence = r.sequence /\ new \in Nat /\ r.sequence + 1 \in Nat
  BY <1>1, RequestColumns, ProjectColumns DEF BatchRows
<1>6. /\ batch' \in Seq(BatchRows) /\ Len(batch') = new
      /\ \A b \in DOMAIN batch : batch'[b] = batch[b]
      /\ batch'[new] = row
  <2>1. batch' = Append(batch, row)
    BY <1>2
  <2> HIDE DEF row
  <2> QED BY <1>1, <1>5, <2>1, AppendProperties, ProjectColumns
<1>7. /\ project'.batch = new /\ project'.sequence = r.sequence + 1
      /\ project'.workflow = project.workflow /\ project'.chapter = project.chapter
      /\ project'.constitution = project.constitution
      /\ project'.constitutions = project.constitutions
      /\ project' \in [constitution : Nat, constitutions : Nat, workflow : Nat,
                       batch : Nat, sequence : Nat, chapter : Nat]
  <2> DEFINE next == r.sequence + 1
  <2>1. /\ project' = [project EXCEPT !.batch = new, !.sequence = next]
        /\ next \in Nat /\ new \in Nat
    BY <1>3, <1>5
  <2>2. /\ project.workflow \in Nat /\ project.chapter \in Nat
        /\ project.constitution \in Nat /\ project.constitutions \in Nat
        /\ project \in ProjectRows
    BY <1>1, ProjectColumns
  <2> HIDE DEF new, next, r
  <2>3. /\ project'.batch = new /\ project'.sequence = next
        /\ project'.workflow = project.workflow /\ project'.chapter = project.chapter
        /\ project'.constitution = project.constitution
        /\ project'.constitutions = project.constitutions
        /\ project' \in [constitution : Nat, constitutions : Nat, workflow : Nat,
                         batch : Nat, sequence : Nat, chapter : Nat]
    BY <2>1, <2>2 DEF ProjectRows
  <2> QED BY <2>3 DEF next
<1>8. project' \in ProjectRows'
  BY <1>1, <1>3, <1>5, <1>6, <1>7, ProjectStays, ProjectColumns
<1>9. request' \in [Sessions -> Requests']
  BY <1>1, <1>3, ForgottenStays, ProjectColumns
<1>10. BatchBegins
  <2>1. /\ batch'[new].status = "draft" /\ batch'[new].source = project.workflow
        /\ batch'[new].sequence = project.sequence
    BY <1>4, <1>5, <1>6
  <2>2. project.workflow # 0 => /\ BatchesOf(project.workflow) = {}
                                /\ workflow[project.workflow].status = "creating"
    BY <1>4
  <2>3. project'.sequence = project.sequence + 1
    BY <1>4, <1>7
  <2> QED BY <1>3, <1>4, <1>6, <1>7, <2>1, <2>2, <2>3 DEF BatchBegins
<1> QED BY <1>1, <1>3, <1>6, <1>8, <1>9, <1>10 DEF OwnTypes, ProjectMoves, TypeOK

\* One row of a batch is rewritten.
LEMMA BatchRewritten ==
    ASSUME TypeOK, NEW b \in DOMAIN batch, NEW row \in BatchRows,
           batch' = [batch EXCEPT ![b] = row]
    PROVE  /\ batch' \in Seq(BatchRows) /\ Len(batch') = Len(batch)
           /\ batch'[b] = row
           /\ \A c \in DOMAIN batch \ {b} : batch'[c] = batch[c]
<1>1. batch \in Seq(BatchRows) /\ DOMAIN batch = 1 .. Len(batch)
  BY ProjectColumns DEF TypeOK
<1> QED BY <1>1, ExceptSeq

LEMMA BatchMoves ==
    ASSUME ProjectInv, NEW b \in DOMAIN batch, BatchStep(b)
    PROVE  OwnTypes /\ ProjectMoves
<1>1. /\ TypeOK /\ workflow' = workflow /\ request' = request /\ b \in Nat
      /\ batch \in Seq(BatchRows) /\ request \in [Sessions -> Requests]
  BY ProjectColumns DEF ProjectInv, TypeOK, BatchStep, MarkReady, ApproveBatch, RejectBatch
<1>2. /\ workflow' \in Seq(WorkflowRows) /\ request' \in [Sessions -> Requests']
      /\ Len(workflow') = Len(workflow) /\ Len(workflow) \in Nat
  BY <1>1, ProjectColumns DEF TypeOK, Requests
<1>3. ASSUME NEW row \in BatchRows, batch' = [batch EXCEPT ![b] = row],
             project' \in [constitution : Nat, constitutions : Nat, workflow : Nat,
                           batch : Nat, sequence : Nat, chapter : Nat],
             project'.constitution = project.constitution,
             project'.constitutions = project.constitutions,
             project'.workflow = project.workflow,
             project'.batch \in {project.batch, 0}
      PROVE  OwnTypes
  <2>1. batch' \in Seq(BatchRows) /\ Len(batch') = Len(batch)
    BY <1>1, <1>3, BatchRewritten
  <2>2. project' \in ProjectRows'
    BY <1>1, <1>2, <1>3, <2>1, ProjectStays, ProjectColumns
  <2> QED BY <1>2, <2>1, <2>2 DEF OwnTypes
<1>4. CASE MarkReady(b)
  <2> DEFINE row == [batch[b] EXCEPT !.status = "ready_for_review"]
  <2>1. /\ row \in BatchRows /\ row.status = "ready_for_review"
        /\ row.source = batch[b].source /\ row.sequence = batch[b].sequence
        /\ row.size = batch[b].size
    BY <1>1, BatchColumns DEF BatchRows
  <2>2. batch' = [batch EXCEPT ![b] = row] /\ project' = project /\ project.batch = b
    BY <1>4 DEF MarkReady
  <2> HIDE DEF row
  <2>3. project \in [constitution : Nat, constitutions : Nat, workflow : Nat,
                     batch : Nat, sequence : Nat, chapter : Nat]
    BY <1>1, ProjectColumns DEF ProjectRows
  <2>4. OwnTypes
    BY <1>3, <2>1, <2>2, <2>3
  <2>5. BatchGoes(b)
    BY <1>1, <2>1, <2>2, BatchRewritten DEF BatchGoes
  <2> QED BY <2>4, <2>5 DEF ProjectMoves
<1>5. CASE RejectBatch(b)
  <2> DEFINE row == [batch[b] EXCEPT !.status = "rejected"]
  <2>1. /\ row \in BatchRows /\ row.status = "rejected"
        /\ row.source = batch[b].source /\ row.sequence = batch[b].sequence
        /\ row.size = batch[b].size
    BY <1>1, BatchColumns DEF BatchRows
  <2>2. /\ batch' = [batch EXCEPT ![b] = row] /\ HoldsProject(b)
        /\ project' = [project EXCEPT !.batch = 0]
    BY <1>5 DEF RejectBatch
  <2> HIDE DEF row
  <2>3. /\ project'.batch = 0 /\ project'.workflow = project.workflow /\ CountersStay
        /\ project'.constitution = project.constitution
        /\ project'.constitutions = project.constitutions
        /\ project' \in [constitution : Nat, constitutions : Nat, workflow : Nat,
                         batch : Nat, sequence : Nat, chapter : Nat]
    BY <1>1, <2>2, ProjectColumns DEF ProjectRows, CountersStay
  <2>4. OwnTypes
    BY <1>3, <2>1, <2>2, <2>3
  <2>5. BatchGoes(b)
    BY <1>1, <2>1, <2>2, <2>3, BatchRewritten DEF BatchGoes, HoldsProject, CountersStay
  <2> QED BY <2>4, <2>5 DEF ProjectMoves
<1>6. CASE ApproveBatch(b)
  <2> DEFINE row == [batch[b] EXCEPT !.status = "approved", !.first = project.chapter]
             after == NumberAfter(b)
  <2>1. /\ row \in BatchRows /\ row.status = "approved"
        /\ row.source = batch[b].source /\ row.sequence = batch[b].sequence
        /\ row.size = batch[b].size /\ row.first = project.chapter
    BY <1>1, BatchColumns, ProjectColumns DEF BatchRows
  <2>2. /\ batch' = [batch EXCEPT ![b] = row] /\ HoldsProject(b)
        /\ project' = [project EXCEPT !.batch = 0, !.chapter = after]
    BY <1>6 DEF ApproveBatch
  <2>3. after = project.chapter + batch[b].size /\ after \in Nat
    BY <1>1, BatchColumns, ProjectColumns DEF NumberAfter
  <2> HIDE DEF row, after
  <2>4. /\ project'.batch = 0 /\ project'.workflow = project.workflow
        /\ project'.chapter = after /\ project'.sequence = project.sequence
        /\ project'.constitution = project.constitution
        /\ project'.constitutions = project.constitutions
        /\ project' \in [constitution : Nat, constitutions : Nat, workflow : Nat,
                         batch : Nat, sequence : Nat, chapter : Nat]
    <3>1. /\ project' = [project EXCEPT !.batch = 0, !.chapter = after]
          /\ after \in Nat
      BY <2>2, <2>3
    <3>2. /\ project.workflow \in Nat /\ project.sequence \in Nat
          /\ project.constitution \in Nat /\ project.constitutions \in Nat
          /\ project \in ProjectRows
      BY <1>1, ProjectColumns
    <3> QED BY <3>1, <3>2 DEF ProjectRows
  <2>5. OwnTypes
    BY <1>3, <2>1, <2>2, <2>4
  <2>6. BatchGoes(b)
    BY <1>1, <2>1, <2>2, <2>3, <2>4, BatchRewritten DEF BatchGoes, HoldsProject
  <2> QED BY <2>5, <2>6 DEF ProjectMoves
<1> QED BY <1>4, <1>5, <1>6 DEF BatchStep

\* The status of one workflow is rewritten.
LEMMA WorkflowRewritten ==
    ASSUME TypeOK, NEW w \in DOMAIN workflow, NEW to \in WorkflowStatuses,
           workflow' = [workflow EXCEPT ![w].status = to]
    PROVE  /\ workflow' \in Seq(WorkflowRows) /\ Len(workflow') = Len(workflow)
           /\ workflow'[w].status = to
           /\ \A v \in DOMAIN workflow \ {w} : workflow'[v] = workflow[v]
<1> DEFINE row == [workflow[w] EXCEPT !.status = to]
<1>1. workflow \in Seq(WorkflowRows) /\ DOMAIN workflow = 1 .. Len(workflow)
  BY ProjectColumns DEF TypeOK
<1>2. row \in WorkflowRows /\ row.status = to
  BY WorkflowColumns DEF WorkflowRows, WorkflowStatuses
<1>3. workflow' = [workflow EXCEPT ![w] = row]
  OBVIOUS
<1> HIDE DEF row
<1> QED BY <1>1, <1>2, <1>3, ExceptSeq

LEMMA WorkflowMoves ==
    ASSUME ProjectInv, NEW w \in DOMAIN workflow, WorkflowStep(w)
    PROVE  OwnTypes /\ ProjectMoves
<1>1. /\ TypeOK /\ batch' = batch /\ request' = request
      /\ batch \in Seq(BatchRows) /\ request \in [Sessions -> Requests]
      /\ w # 0 /\ Len(batch) \in Nat
  BY ProjectColumns
     DEF ProjectInv, TypeOK, WorkflowStep, PauseWorkflow, AcceptReview, RejectPlan,
         Cancel, Reconcile
<1>2. workflow[w].status # "ended" <=> project.workflow = w
  BY DEF ProjectInv, Owned, OwnershipAgrees
<1>3. ASSUME NEW to \in WorkflowStatuses, workflow' = [workflow EXCEPT ![w].status = to],
             project' = project \/ project' = [project EXCEPT !.workflow = 0]
      PROVE  OwnTypes /\ OthersStay(w) /\ workflow'[w].status = to
  <2>1. /\ workflow' \in Seq(WorkflowRows) /\ Len(workflow') = Len(workflow)
        /\ workflow'[w].status = to
        /\ \A v \in DOMAIN workflow \ {w} : workflow'[v] = workflow[v]
    BY <1>1, <1>3, WorkflowRewritten
  <2>2. /\ project' \in [constitution : Nat, constitutions : Nat, workflow : Nat,
                         batch : Nat, sequence : Nat, chapter : Nat]
        /\ project'.constitution = project.constitution
        /\ project'.constitutions = project.constitutions
        /\ project'.workflow <= Len(workflow) /\ project'.batch = project.batch
    BY <1>1, <1>3, ProjectColumns DEF ProjectRows
  <2>3. project' \in ProjectRows'
    BY <1>1, <2>1, <2>2, ProjectStays, ProjectColumns
  <2>4. request' \in [Sessions -> Requests']
    BY <1>1, <2>1 DEF Requests
  <2> QED BY <1>1, <2>1, <2>3, <2>4 DEF OwnTypes, OthersStay
<1>4. ASSUME NEW from, NEW to \in WorkflowStatuses \ {"ended"}, "ended" \notin from,
             to \in Writing => from \subseteq Writing,
             WorkflowGoes(w, from, to), project' = project
      PROVE  OwnTypes /\ ProjectMoves
  <2>1. /\ workflow' = [workflow EXCEPT ![w].status = to]
        /\ workflow[w].status \in from
    BY <1>4 DEF WorkflowGoes
  <2>2. OwnTypes /\ OthersStay(w) /\ workflow'[w].status = to
    BY <1>3, <1>4, <2>1
  <2>3. WorkflowGoesOn(w)
    BY <1>4, <2>1, <2>2 DEF WorkflowGoesOn
  <2> QED BY <2>2, <2>3 DEF ProjectMoves
<1>5. ASSUME NEW from, "ended" \notin from, WorkflowGoes(w, from, "ended"),
             project' = Released(w),
             \/ from \subseteq Writing
             \/ BatchesOf(w) = {}
             \/ \E b \in BatchesOf(w) : ~Undecided(b)
      PROVE  OwnTypes /\ ProjectMoves
  <2>1. /\ workflow' = [workflow EXCEPT ![w].status = "ended"]
        /\ workflow[w].status \in from /\ workflow[w].status # "ended"
    BY <1>5 DEF WorkflowGoes
  <2>2. project' = [project EXCEPT !.workflow = 0]
    BY <1>2, <1>5, <2>1 DEF Released
  <2>3. OwnTypes /\ OthersStay(w) /\ workflow'[w].status = "ended"
    BY <1>3, <2>1, <2>2 DEF WorkflowStatuses
  <2>4. project'.workflow = 0 /\ project'.batch = project.batch /\ CountersStay
    BY <1>1, <2>2, ProjectColumns DEF ProjectRows, CountersStay
  <2>5. WorkflowEnds(w)
    BY <1>5, <2>1, <2>3, <2>4 DEF WorkflowEnds
  <2> QED BY <2>3, <2>5 DEF ProjectMoves
<1>6. CASE PauseWorkflow(w)
  <2>1. CASE WorkflowGoes(w, {"generating"}, "paused")
    BY <1>4, <1>6, <2>1 DEF PauseWorkflow, Writing, WorkflowStatuses
  <2>2. CASE WorkflowGoes(w, {"paused"}, "generating")
    BY <1>4, <1>6, <2>2 DEF PauseWorkflow, Writing, WorkflowStatuses
  <2>3. CASE WorkflowGoes(w, {"creating"}, "stalled")
    BY <1>4, <1>6, <2>3 DEF PauseWorkflow, Writing, WorkflowStatuses
  <2> QED BY <1>6, <2>1, <2>2, <2>3 DEF PauseWorkflow
<1>7. CASE AcceptReview(w)
  BY <1>4, <1>7 DEF AcceptReview, Writing, WorkflowStatuses
<1>8. CASE RejectPlan(w)
  BY <1>5, <1>8 DEF RejectPlan, Writing
<1>9. CASE Cancel(w)
  BY <1>5, <1>9 DEF Cancel, MayCancel
<1>10. CASE Reconcile(w)
  <2>1. PICK b \in BatchesOf(w) :
           \/ WorkflowGoes(w, {"creating"}, "waiting") /\ project' = project
           \/ /\ ~Undecided(b)
              /\ WorkflowGoes(w, {"creating", "waiting", "stalled"}, "ended")
              /\ project' = Released(w)
    BY <1>10 DEF Reconcile
  <2>2. CASE WorkflowGoes(w, {"creating"}, "waiting") /\ project' = project
    BY <1>4, <2>2 DEF Writing, WorkflowStatuses
  <2>3. CASE /\ ~Undecided(b)
             /\ WorkflowGoes(w, {"creating", "waiting", "stalled"}, "ended")
             /\ project' = Released(w)
    BY <1>5, <2>1, <2>3
  <2> QED BY <2>1, <2>2, <2>3
<1> QED BY <1>6, <1>7, <1>8, <1>9, <1>10 DEF WorkflowStep

\* Every step keeps the types and makes one of the moves.
LEMMA ProjectLife ==
    ASSUME ProjectInv, [Next]_vars
    PROVE  OwnTypes /\ ProjectMoves
<1>1. TypeOK /\ request \in [Sessions -> Requests]
  BY DEF ProjectInv, TypeOK
<1>2. CASE UNCHANGED <<project, workflow, batch, request>>
  BY <1>1, <1>2, RequestMoves
<1>3. ASSUME NEW s \in Sessions, SessionStep(s)
      PROVE  OwnTypes /\ ProjectMoves
  <2>1. CASE ReviseOutline(s)
    BY <1>2, <2>1 DEF ReviseOutline, ownershipVars
  <2>2. ASSUME ReadManualCreate(s)
        PROVE  OwnTypes /\ ProjectMoves
    BY <1>1, <2>2, ReadCreateMoves, RowFacts, ProjectColumns DEF ReadManualCreate, TypeOK
  <2>3. ASSUME ReadGeneratedCreate(s)
        PROVE  OwnTypes /\ ProjectMoves
    <3>1. PICK w \in DOMAIN workflow : ReadCreate(s, w, workflow[w].base)
      BY <2>3 DEF ReadGeneratedCreate
    <3>2. w \in 0 .. Len(workflow) /\ workflow[w].base \in Nat
      BY <1>1, ProjectColumns, WorkflowColumns
    <3> QED BY <3>1, <3>2, ReadCreateMoves
  <2> QED BY <1>3, <2>1, <2>2, <2>3, ReadStartMoves, StartMoves, CreateMoves,
             RefuseMoves DEF SessionStep
<1> QED BY <1>2, <1>3, ConstitutionMoves, BatchMoves, WorkflowMoves
        DEF Next, vars, ownershipVars

-----------------------------------------------------------------------------
(* The invariant is kept by every move. *)

\* The rows named by the project stay the rows that are alive.
LEMMA OwnedStays ==
    ASSUME ProjectInv, ProjectMoves, TypeOK'
    PROVE  Owned'
<1>1. /\ TypeOK /\ OwnershipAgrees /\ Sources
      /\ Len(workflow) \in Nat /\ Len(batch) \in Nat
      /\ DOMAIN workflow = 1 .. Len(workflow) /\ DOMAIN batch = 1 .. Len(batch)
      /\ \A b \in DOMAIN batch : batch[b].source \in Nat
      /\ project.workflow \in 0 .. Len(workflow)
  BY ProjectColumns, BatchColumns DEF ProjectInv, Owned
<1>2. DOMAIN workflow' = 1 .. Len(workflow') /\ DOMAIN batch' = 1 .. Len(batch')
  BY LenProperties DEF TypeOK
<1>3. CASE RowsStay
  BY <1>1, <1>3 DEF RowsStay, Owned, OwnershipAgrees, Sources, Undecided
<1>4. CASE WorkflowBegins
  <2> DEFINE new == Len(workflow) + 1
  <2>1. /\ DOMAIN workflow' = DOMAIN workflow \cup {new} /\ new \notin DOMAIN workflow
        /\ new \in Nat /\ new > Len(workflow)
    BY <1>1, <1>2, <1>4 DEF WorkflowBegins
  <2>2. /\ \A w \in DOMAIN workflow : workflow[w].status = "ended"
        /\ \A b \in DOMAIN batch : ~Undecided(b)
    BY <1>1, <1>4 DEF OwnershipAgrees, WorkflowBegins
  <2>3. /\ \A w \in DOMAIN workflow' : workflow'[w].status # "ended" <=> w = new
        /\ \A b \in DOMAIN batch' : ~Undecided(b)' /\ b # 0
    BY <1>1, <1>4, <2>1, <2>2 DEF WorkflowBegins, Undecided
  <2>4. OwnershipAgrees'
    BY <1>4, <2>3 DEF WorkflowBegins, OwnershipAgrees
  <2>5. Sources'
    BY <1>1, <1>4, <2>1, <2>2 DEF WorkflowBegins, Sources, Writing
  <2> QED BY <2>4, <2>5 DEF Owned
<1>5. CASE BatchBegins
  <2> DEFINE new == Len(batch) + 1
  <2>1. /\ DOMAIN batch' = DOMAIN batch \cup {new} /\ new \notin DOMAIN batch
        /\ new \in Nat /\ new # 0
    BY <1>1, <1>2, <1>5 DEF BatchBegins
  <2>2. \A b \in DOMAIN batch : ~Undecided(b)
    BY <1>1, <1>5 DEF OwnershipAgrees, BatchBegins
  <2>3. /\ \A b \in DOMAIN batch : batch'[b] = batch[b]
        /\ batch'[new].status = "draft" /\ batch'[new].source = project.workflow
        /\ project'.batch = new /\ project'.workflow = project.workflow
        /\ workflow' = workflow
    BY <1>5 DEF BatchBegins
  <2>4. OwnershipAgrees'
    BY <1>1, <2>1, <2>2, <2>3 DEF OwnershipAgrees, Undecided
  <2>5. \A b \in DOMAIN batch : batch[b].source = project.workflow => project.workflow = 0
    BY <1>5 DEF BatchBegins, BatchesOf
  <2>6. \A w \in DOMAIN workflow : workflow[w].status \in Writing => w # project.workflow
    BY <1>1, <1>5 DEF BatchBegins, Writing
  <2>7. Sources'
    BY <1>1, <2>1, <2>3, <2>5, <2>6 DEF Sources
  <2> QED BY <2>4, <2>7 DEF Owned
<1>6. ASSUME NEW b \in DOMAIN batch, BatchGoes(b)
      PROVE  Owned'
  <2>1. /\ DOMAIN batch' = DOMAIN batch /\ workflow' = workflow
        /\ \A c \in DOMAIN batch : batch'[c].source = batch[c].source
        /\ \A c \in DOMAIN batch \ {b} : batch'[c] = batch[c]
        /\ project.batch = b /\ project'.workflow = project.workflow
        /\ \/ batch'[b].status = "ready_for_review" /\ project'.batch = b
           \/ batch'[b].status \in {"approved", "rejected"} /\ project'.batch = 0
    BY <1>1, <1>2, <1>6 DEF BatchGoes
  <2>2. OwnershipAgrees'
    BY <1>1, <2>1 DEF OwnershipAgrees, Undecided
  <2>3. Sources'
    BY <1>1, <2>1 DEF Sources
  <2> QED BY <2>2, <2>3 DEF Owned
<1>7. ASSUME NEW w \in DOMAIN workflow, WorkflowGoesOn(w)
      PROVE  Owned'
  BY <1>1, <1>2, <1>7
     DEF WorkflowGoesOn, OthersStay, Owned, OwnershipAgrees, Sources, Undecided
<1>8. ASSUME NEW w \in DOMAIN workflow, WorkflowEnds(w)
      PROVE  Owned'
  <2>1. /\ DOMAIN workflow' = DOMAIN workflow /\ batch' = batch
        /\ \A v \in DOMAIN workflow \ {w} : workflow'[v] = workflow[v]
        /\ workflow[w].status # "ended" /\ workflow'[w].status = "ended"
        /\ project'.workflow = 0 /\ project'.batch = project.batch
    BY <1>1, <1>2, <1>8 DEF WorkflowEnds, OthersStay
  <2>2. w = project.workflow /\ w # 0
    BY <1>1, <2>1 DEF OwnershipAgrees
  <2>3. \A b \in DOMAIN batch : batch[b].source = w => ~Undecided(b)
    BY <1>1, <1>8, <2>2 DEF WorkflowEnds, Sources, BatchesOf
  <2>4. \A b \in DOMAIN batch : ~Undecided(b)
    BY <1>1, <2>2, <2>3 DEF OwnershipAgrees
  <2>5. OwnershipAgrees'
    BY <1>1, <2>1, <2>2, <2>4 DEF OwnershipAgrees, Undecided
  <2>6. Sources'
    BY <1>1, <1>2, <1>8, <2>1 DEF Sources, Writing, WorkflowEnds, OthersStay
  <2> QED BY <2>5, <2>6 DEF Owned
<1> QED BY <1>3, <1>4, <1>5, <1>6, <1>7, <1>8 DEF ProjectMoves

\* The conjuncts of ChaptersAreConsecutive, without its abbreviations.
Approved == {b \in DOMAIN batch : batch[b].status = "approved"}
End(b) == batch[b].first + batch[b].size

LEMMA ConsecutiveMeans ==
    ChaptersAreConsecutive <=>
        /\ \A b \in DOMAIN batch : batch[b].sequence = b
        /\ \A b \in Approved :
            \/ End(b) = project.chapter
            \/ \E c \in Approved : c > b /\ batch[c].first = End(b)
        /\ \A b, c \in Approved : b < c => End(b) <= batch[c].first
        /\ Approved # {} => \E b \in Approved : batch[b].first = 1
BY DEF ChaptersAreConsecutive, Approved, End

LEMMA CountersMean ==
    Counters <=>
        /\ project.sequence = Len(batch) + 1
        /\ project.chapter >= 1
        /\ \A b \in Approved : End(b) <= project.chapter
        /\ Approved = {} => project.chapter = 1
BY DEF Counters, Approved, End

LEMMA ConsecutiveMeansNext ==
    ChaptersAreConsecutive' <=>
        /\ \A b \in DOMAIN batch' : batch'[b].sequence = b
        /\ \A b \in Approved' :
            \/ End(b)' = project'.chapter
            \/ \E c \in Approved' : c > b /\ batch'[c].first = End(b)'
        /\ \A b, c \in Approved' : b < c => End(b)' <= batch'[c].first
        /\ Approved' # {} => \E b \in Approved' : batch'[b].first = 1
BY DEF ChaptersAreConsecutive, Approved, End

LEMMA CountersMeanNext ==
    Counters' <=>
        /\ project'.sequence = Len(batch') + 1
        /\ project'.chapter >= 1
        /\ \A b \in Approved' : End(b)' <= project'.chapter
        /\ Approved' = {} => project'.chapter = 1
BY DEF Counters, Approved, End

\* Batches keep their numbers, and approved ones their chapters, unless a batch
\* is approved: the last one, on the chapters that follow.
LEMMA NumberedStays ==
    ASSUME ProjectInv, ProjectMoves, TypeOK'
    PROVE  Numbered'
<1>1. /\ TypeOK /\ ChaptersAreConsecutive /\ Counters /\ OwnershipAgrees
      /\ Len(batch) \in Nat /\ DOMAIN batch = 1 .. Len(batch)
      /\ project.chapter \in Nat
  BY ProjectColumns DEF ProjectInv, Owned, Numbered
<1>2. DOMAIN batch' = 1 .. Len(batch')
  BY LenProperties DEF TypeOK
<1>3. \A b \in DOMAIN batch : /\ batch[b].first \in Nat /\ batch[b].size \in Nat
                              /\ End(b) \in Nat
  BY <1>1, BatchColumns DEF End
<1>4. ASSUME CountersStay, Len(batch') = Len(batch), Approved' = Approved,
             \A b \in DOMAIN batch : batch'[b].sequence = batch[b].sequence,
             \A b \in Approved : batch'[b] = batch[b]
      PROVE  Numbered'
  <2>1. \A b \in Approved : End(b)' = End(b) /\ batch'[b].first = batch[b].first
    BY <1>4 DEF End
  <2>2. /\ \A b \in DOMAIN batch' : batch'[b].sequence = b
        /\ project'.sequence = Len(batch') + 1 /\ project'.chapter = project.chapter
    BY <1>1, <1>2, <1>4, ConsecutiveMeans, CountersMean DEF CountersStay
  <2>3. ChaptersAreConsecutive'
    BY <1>1, <1>4, <2>1, <2>2, ConsecutiveMeansNext, ConsecutiveMeans
  <2>4. Counters'
    BY <1>1, <1>4, <2>1, <2>2, CountersMeanNext, CountersMean
  <2> QED BY <2>3, <2>4 DEF Numbered
<1>5. ASSUME CountersStay, batch' = batch
      PROVE  Numbered'
  BY <1>4, <1>5 DEF Approved
<1>6. CASE RowsStay \/ WorkflowBegins
          \/ \E w \in DOMAIN workflow : WorkflowGoesOn(w) \/ WorkflowEnds(w)
  BY <1>5, <1>6 DEF RowsStay, WorkflowBegins, WorkflowGoesOn, WorkflowEnds,
     OthersStay, CountersStay
<1>7. CASE BatchBegins
  <2> DEFINE new == Len(batch) + 1
  <2>1. /\ DOMAIN batch' = DOMAIN batch \cup {new} /\ new \notin DOMAIN batch
        /\ new \in Nat /\ Len(batch') = new
        /\ \A b \in DOMAIN batch : batch'[b] = batch[b]
        /\ batch'[new].status = "draft" /\ batch'[new].sequence = project.sequence
        /\ project'.sequence = project.sequence + 1
        /\ project'.chapter = project.chapter
    BY <1>1, <1>2, <1>7 DEF BatchBegins
  <2>2. Approved' = Approved /\ \A b \in Approved : b \in DOMAIN batch
    BY <2>1 DEF Approved
  <2>3. \A b \in Approved : End(b)' = End(b) /\ batch'[b].first = batch[b].first
    BY <2>1, <2>2 DEF End
  <2>4. /\ \A b \in DOMAIN batch' : batch'[b].sequence = b
        /\ project'.sequence = Len(batch') + 1
    BY <1>1, <2>1, ConsecutiveMeans, CountersMean
  <2>5. ChaptersAreConsecutive'
    BY <1>1, <2>1, <2>2, <2>3, <2>4, ConsecutiveMeansNext, ConsecutiveMeans
  <2>6. Counters'
    BY <1>1, <2>1, <2>2, <2>3, <2>4, CountersMeanNext, CountersMean
  <2> QED BY <2>5, <2>6 DEF Numbered
<1>8. ASSUME NEW b \in DOMAIN batch, BatchGoes(b)
      PROVE  Numbered'
  <2>1. /\ Len(batch') = Len(batch) /\ DOMAIN batch' = DOMAIN batch
        /\ \A c \in DOMAIN batch \ {b} : batch'[c] = batch[c]
        /\ batch'[b].sequence = batch[b].sequence /\ batch'[b].size = batch[b].size
        /\ project.batch = b
    BY <1>1, <1>2, <1>8 DEF BatchGoes
  <2>2. b \notin Approved /\ batch[b].sequence = b
    BY <1>1, <2>1, ConsecutiveMeans DEF OwnershipAgrees, Undecided, Approved
  <2>3. CASE batch'[b].status # "approved"
    <3>1. CountersStay
      BY <1>8, <2>3 DEF BatchGoes, CountersStay
    <3>2. Approved' = Approved /\ \A c \in Approved : batch'[c] = batch[c]
      BY <2>1, <2>2, <2>3 DEF Approved
    <3> QED BY <1>4, <2>1, <3>1, <3>2
  <2>4. CASE batch'[b].status = "approved"
    <3>1. /\ project.sequence = b + 1 /\ project'.sequence = project.sequence
          /\ batch'[b].first = project.chapter
          /\ project'.chapter = project.chapter + batch[b].size
      BY <1>8, <2>2, <2>4 DEF BatchGoes
    <3>2. b = Len(batch)
      BY <1>1, <3>1, CountersMean
    <3>3. /\ Approved' = Approved \cup {b} /\ Approved \subseteq DOMAIN batch
          /\ \A c \in Approved : c < b
      BY <1>1, <2>1, <2>2, <2>4, <3>2 DEF Approved
    <3>4. /\ \A c \in Approved : End(c)' = End(c) /\ batch'[c].first = batch[c].first
          /\ End(b)' = project'.chapter
      BY <2>1, <2>2, <3>1, <3>3 DEF End
    <3>5. \A c \in DOMAIN batch' : batch'[c].sequence = c
      BY <1>1, <2>1, <2>2, ConsecutiveMeans
    <3>6. \A c \in Approved' :
            \/ End(c)' = project'.chapter
            \/ \E d \in Approved' : d > c /\ batch'[d].first = End(c)'
      BY <1>1, <3>1, <3>3, <3>4, ConsecutiveMeans
    <3>7. \A c, d \in Approved' : c < d => End(c)' <= batch'[d].first
      <4> SUFFICES ASSUME NEW c \in Approved', NEW d \in Approved', c < d
                   PROVE  End(c)' <= batch'[d].first
        OBVIOUS
      <4>1. c \in Approved
        BY <1>1, <3>2, <3>3
      <4>2. CASE d = b
        BY <1>1, <3>1, <3>4, <4>1, <4>2, CountersMean
      <4>3. CASE d # b
        BY <1>1, <3>3, <3>4, <4>1, <4>3, ConsecutiveMeans
      <4> QED BY <4>2, <4>3
    <3>8. \E c \in Approved' : batch'[c].first = 1
      <4>1. CASE Approved = {}
        BY <1>1, <3>1, <3>3, <4>1, CountersMean
      <4>2. CASE Approved # {}
        BY <1>1, <3>3, <3>4, <4>2, ConsecutiveMeans
      <4> QED BY <4>1, <4>2
    <3>9. ChaptersAreConsecutive'
      BY <3>5, <3>6, <3>7, <3>8, ConsecutiveMeansNext, ConsecutiveMeans
    <3>10. Counters'
      <4>1. /\ project.chapter >= 1 /\ project.sequence = Len(batch) + 1
            /\ \A c \in Approved : End(c) <= project.chapter
        BY <1>1, CountersMean
      <4>2. /\ project'.chapter \in Nat /\ project'.chapter >= project.chapter
            /\ project'.chapter >= 1
        BY <1>1, <1>3, <3>1, <4>1
      <4>3. \A c \in Approved' : End(c)' <= project'.chapter
        <5>1. \A c \in Approved : End(c) \in Nat /\ End(c) <= project'.chapter
          BY <1>1, <1>3, <3>3, <4>1, <4>2
        <5> QED BY <3>3, <3>4, <4>2, <5>1
      <4>4. project'.sequence = Len(batch') + 1 /\ Approved' # {}
        BY <2>1, <3>1, <3>3, <4>1
      <4> QED BY <4>2, <4>3, <4>4, CountersMeanNext
    <3> QED BY <3>9, <3>10 DEF Numbered
  <2> QED BY <2>3, <2>4
<1> QED BY <1>6, <1>7, <1>8 DEF ProjectMoves

-----------------------------------------------------------------------------
(* Theorems *)

LEMMA ProjectInitial == Init => ProjectInv
<1> SUFFICES ASSUME Init PROVE ProjectInv
  OBVIOUS
<1>1. /\ workflow = <<>> /\ batch = <<>> /\ OutlineTypeOK
      /\ Len(workflow) = 0 /\ Len(batch) = 0
      /\ DOMAIN workflow = {} /\ DOMAIN batch = {}
      /\ workflow \in Seq(WorkflowRows) /\ batch \in Seq(BatchRows)
  BY InitHolds, EmptySeq DEF Init, OutlineInv
<1>2. project \in ProjectRows
  BY <1>1 DEF Init, ProjectRows
<1>3. request \in [Sessions -> Requests]
  BY <1>1 DEF Init, Requests, NoRequest
<1>4. project.sequence = 1 /\ project.chapter = 1
  BY DEF Init
<1>5. Owned
  BY <1>1 DEF Owned, OwnershipAgrees, Sources
<1>6. Numbered
  BY <1>1, <1>4 DEF Numbered, ChaptersAreConsecutive, Counters
<1> QED BY <1>1, <1>2, <1>3, <1>5, <1>6 DEF ProjectInv, TypeOK

LEMMA ProjectKeeps ==
    ASSUME ProjectInv, [Next]_vars, OutlineTypeOK'
    PROVE  ProjectInv'
<1>1. OwnTypes /\ ProjectMoves
  BY ProjectLife
<1>2. TypeOK'
  BY <1>1 DEF OwnTypes, TypeOK
<1> QED BY <1>1, <1>2, OwnedStays, NumberedStays DEF ProjectInv

LEMMA OutlineTypes == Spec => []OutlineTypeOK
<1>1. OutlineInv => OutlineTypeOK
  BY DEF OutlineInv
<1> QED BY <1>1, OutlinesAreAlone, OutlineInductive, PTL

\* ProjectInv is an invariant of the project's row and of the workflows and
\* batches that it names.
THEOREM ProjectInductive == Spec => []ProjectInv
<1>1. ProjectInv /\ [Next]_vars /\ OutlineTypeOK' => ProjectInv'
  BY ProjectKeeps
<1> QED BY <1>1, ProjectInitial, OutlineTypes, PTL DEF Spec

\* Two sessions never both own the project, and no batch is left that nobody
\* may decide: the two pointers of the project's row name exactly the rows that
\* are alive (services/workflows.py: start, cancel; services/batches.py: create,
\* reject, approve).
THEOREM OwnershipIsOne == Spec => []OwnershipAgrees
<1>1. ProjectInv => OwnershipAgrees
  BY DEF ProjectInv, Owned
<1> QED BY <1>1, ProjectInductive, PTL

\* Whatever the sizes and the order of the approvals, official chapters are
\* numbered without a gap or an overlap (services/batches.py: approve).
THEOREM ChaptersAreNumbered == Spec => []ChaptersAreConsecutive
<1>1. ProjectInv => ChaptersAreConsecutive
  BY DEF ProjectInv, Numbered
<1> QED BY <1>1, ProjectInductive, PTL

-----------------------------------------------------------------------------
(* Refinement: the project is worked on in serial rounds. *)

\* What the project's row alone says of the round, and of its draft.
LEMMA RoundFacts ==
    ASSUME ProjectInv
    PROVE  /\ Alive # {} <=> project.workflow # 0
           /\ Open # {} <=> project.batch # 0
           /\ \A w : w \in Alive <=> w = project.workflow /\ w # 0
<1>1. /\ TypeOK /\ OwnershipAgrees
      /\ DOMAIN workflow = 1 .. Len(workflow) /\ DOMAIN batch = 1 .. Len(batch)
      /\ project.workflow \in 0 .. Len(workflow) /\ project.batch \in 0 .. Len(batch)
      /\ Len(workflow) \in Nat /\ Len(batch) \in Nat
  BY ProjectColumns DEF ProjectInv, Owned
<1>2. /\ project.workflow # 0 => project.workflow \in DOMAIN workflow
      /\ project.batch # 0 => project.batch \in DOMAIN batch
      /\ 0 \notin DOMAIN workflow /\ 0 \notin DOMAIN batch
  BY <1>1
<1>3. \A w : w \in Alive <=> w = project.workflow /\ w # 0
  BY <1>1, <1>2 DEF Alive, OwnershipAgrees
<1>4. Open # {} <=> project.batch # 0
  BY <1>1, <1>2 DEF Open, OwnershipAgrees
<1> QED BY <1>3, <1>4

LEMMA RoundValues ==
    ASSUME ProjectInv
    PROVE  /\ RoundOf = IF project.workflow # 0 THEN "generated"
                        ELSE IF project.batch # 0 THEN "manual" ELSE "none"
           /\ DraftOf = IF project.batch # 0 THEN "open"
                        ELSE IF /\ project.workflow # 0
                                /\ BatchesOf(project.workflow) # {}
                             THEN "decided" ELSE "none"
<1>1. (\E w \in Alive : BatchesOf(w) # {}) <=>
          project.workflow # 0 /\ BatchesOf(project.workflow) # {}
  BY RoundFacts
<1> QED BY <1>1, RoundFacts DEF RoundOf, DraftOf

RoundIsRead ==
    /\ RoundOf = IF project.workflow # 0 THEN "generated"
                 ELSE IF project.batch # 0 THEN "manual" ELSE "none"
    /\ DraftOf = IF project.batch # 0 THEN "open"
                 ELSE IF /\ project.workflow # 0
                         /\ BatchesOf(project.workflow) # {}
                      THEN "decided" ELSE "none"

LEMMA RoundValuesNow == ProjectInv => RoundIsRead
BY RoundValues DEF RoundIsRead

LEMMA RoundValuesNext == ProjectInv' => RoundIsRead'
BY RoundValuesNow, PTL

\* A step that keeps the owners, the batches of the workflow and the counter of
\* chapters is not seen.
LEMMA RoundStays ==
    ASSUME RoundIsRead, RoundIsRead',
           project'.workflow = project.workflow, project'.batch = project.batch,
           project'.chapter = project.chapter,
           project.workflow # 0 =>
               (BatchesOf(project.workflow)' = {} <=> BatchesOf(project.workflow) = {})
    PROVE  UNCHANGED <<RoundOf, DraftOf, project.chapter - 1>>
BY DEF RoundIsRead

\* A workflow or a manual batch begins a round, a decision on a manual batch or
\* the end of the workflow ends it.
LEMMA RoundsStep ==
    ASSUME ProjectInv, ProjectInv', ProjectMoves
    PROVE  Rounds!Next \/ UNCHANGED <<RoundOf, DraftOf, project.chapter - 1>>
<1>1. /\ TypeOK /\ OwnershipAgrees /\ Sources /\ RoundIsRead
      /\ Len(workflow) \in Nat /\ Len(batch) \in Nat
      /\ DOMAIN workflow = 1 .. Len(workflow) /\ DOMAIN batch = 1 .. Len(batch)
      /\ project.chapter \in Nat /\ project.workflow \in Nat
  BY ProjectColumns, RoundValuesNow DEF ProjectInv, Owned
<1>2. RoundIsRead' /\ TypeOK'
  BY RoundValuesNext DEF ProjectInv
<1>3. DOMAIN batch' = 1 .. Len(batch')
  BY <1>2, LenProperties DEF TypeOK
<1>4. CASE RowsStay
  BY <1>1, <1>2, <1>4, RoundStays DEF RowsStay, CountersStay, BatchesOf
<1>5. CASE WorkflowBegins
  <2>1. /\ RoundOf = "none" /\ DraftOf = "none"
        /\ project'.workflow # 0 /\ project'.batch = 0
        /\ project'.chapter = project.chapter
    BY <1>1, <1>5 DEF WorkflowBegins, RoundIsRead, CountersStay
  <2>2. \A b \in DOMAIN batch' : batch'[b].source # project'.workflow
    BY <1>1, <1>5, BatchColumns DEF WorkflowBegins, Sources
  <2>3. BatchesOf(project.workflow)' = {}
    BY <2>2 DEF BatchesOf
  <2>4. RoundOf' = "generated" /\ DraftOf' = "none"
    BY <1>2, <2>1, <2>3 DEF RoundIsRead
  <2> QED BY <2>1, <2>4 DEF Rounds!Next, Rounds!BeginGenerated
<1>6. CASE BatchBegins
  <2>1. /\ DraftOf = "none" /\ project'.workflow = project.workflow
        /\ project'.batch # 0 /\ project'.chapter = project.chapter
        /\ RoundOf = IF project.workflow # 0 THEN "generated" ELSE "none"
    BY <1>1, <1>6 DEF BatchBegins, RoundIsRead
  <2>2. /\ DraftOf' = "open"
        /\ RoundOf' = IF project.workflow # 0 THEN "generated" ELSE "manual"
    BY <1>2, <2>1 DEF RoundIsRead
  <2>3. CASE project.workflow = 0
    BY <2>1, <2>2, <2>3 DEF Rounds!Next, Rounds!BeginManual
  <2>4. CASE project.workflow # 0
    BY <2>1, <2>2, <2>4 DEF Rounds!Next, Rounds!OpenDraft
  <2> QED BY <2>3, <2>4
<1>7. ASSUME NEW b \in DOMAIN batch, BatchGoes(b)
      PROVE  Rounds!Next \/ UNCHANGED <<RoundOf, DraftOf, project.chapter - 1>>
  <2>1. /\ project.batch = b /\ b # 0 /\ DOMAIN batch' = DOMAIN batch
        /\ \A c \in DOMAIN batch : batch'[c].source = batch[c].source
        /\ batch[b].size \in Sizes /\ batch[b].size \in Nat
        /\ batch[b].source = project.workflow
    BY <1>1, <1>3, <1>7, BatchColumns DEF BatchGoes, OwnershipAgrees
  <2>2. CASE project' = project
    <3>1. BatchesOf(project.workflow)' = BatchesOf(project.workflow)
      BY <2>1, <2>2 DEF BatchesOf
    <3> QED BY <1>1, <1>2, <2>2, <3>1, RoundStays
  <2>3. CASE project' # project
    <3>1. /\ project'.workflow = project.workflow /\ project'.batch = 0
          /\ \/ project'.chapter = project.chapter
             \/ project'.chapter = project.chapter + batch[b].size
      BY <1>7, <2>3 DEF BatchGoes
    <3>2. \/ (project.chapter - 1)' = project.chapter - 1
          \/ \E n \in Sizes : (project.chapter - 1)' = (project.chapter - 1) + n
      <4>1. ASSUME project'.chapter = project.chapter + batch[b].size
            PROVE  (project.chapter - 1)' = (project.chapter - 1) + batch[b].size
        BY <1>1, <2>1, <4>1
      <4> QED BY <2>1, <3>1, <4>1
    <3>3. /\ DraftOf = "open"
          /\ RoundOf = IF project.workflow # 0 THEN "generated" ELSE "manual"
      BY <1>1, <2>1 DEF RoundIsRead
    <3>4. CASE project.workflow = 0
      <4>1. RoundOf' = "none" /\ DraftOf' = "none"
        BY <1>2, <3>1, <3>4 DEF RoundIsRead
      <4> QED BY <3>2, <3>3, <3>4, <4>1 DEF Rounds!Next, Rounds!Decide
    <3>5. CASE project.workflow # 0
      <4>1. b \in BatchesOf(project.workflow)'
        BY <2>1, <3>1 DEF BatchesOf
      <4>2. RoundOf' = "generated" /\ DraftOf' = "decided"
        BY <1>2, <3>1, <3>5, <4>1 DEF RoundIsRead
      <4> QED BY <3>2, <3>3, <3>5, <4>2 DEF Rounds!Next, Rounds!Decide
    <3> QED BY <3>4, <3>5
  <2> QED BY <2>2, <2>3
<1>8. ASSUME NEW w \in DOMAIN workflow, WorkflowGoesOn(w)
      PROVE  Rounds!Next \/ UNCHANGED <<RoundOf, DraftOf, project.chapter - 1>>
  BY <1>1, <1>2, <1>8, RoundStays DEF WorkflowGoesOn, OthersStay, BatchesOf
<1>9. ASSUME NEW w \in DOMAIN workflow, WorkflowEnds(w)
      PROVE  Rounds!Next \/ UNCHANGED <<RoundOf, DraftOf, project.chapter - 1>>
  <2>1. /\ w = project.workflow /\ w # 0 /\ project'.workflow = 0
        /\ project'.batch = project.batch /\ project'.chapter = project.chapter
        /\ batch' = batch
    BY <1>1, <1>9 DEF WorkflowEnds, CountersStay, OthersStay, OwnershipAgrees
  <2>2. project'.batch = 0
    BY <1>1, <2>1, RoundFacts, ProjectColumns DEF ProjectInv, Owned, Open, OwnershipAgrees,
       Undecided, Sources, BatchesOf, WorkflowEnds
  <2>3. RoundOf = "generated" /\ DraftOf # "open"
    BY <1>1, <2>1, <2>2 DEF RoundIsRead
  <2>4. RoundOf' = "none" /\ DraftOf' = "none"
    BY <1>2, <2>1, <2>2 DEF RoundIsRead
  <2> QED BY <2>1, <2>3, <2>4 DEF Rounds!Next, Rounds!EndGenerated
<1> QED BY <1>4, <1>5, <1>6, <1>7, <1>8, <1>9 DEF ProjectMoves

LEMMA RoundsInitial ==
    Init => RoundOf = "none" /\ DraftOf = "none" /\ project.chapter - 1 = 0
<1> SUFFICES ASSUME Init
             PROVE  RoundOf = "none" /\ DraftOf = "none" /\ project.chapter - 1 = 0
  OBVIOUS
<1>1. project.workflow = 0 /\ project.batch = 0 /\ project.chapter = 1
  BY DEF Init
<1>2. RoundIsRead
  BY ProjectInitial, RoundValuesNow
<1> QED BY <1>1, <1>2 DEF RoundIsRead

\* One round at a time, for any number of sessions, workflows and batches: a
\* workflow never ends over an open batch, it makes at most one batch, and
\* nothing begins before the round has ended.
THEOREM RoundsComeSerially == Spec => RoundsAreSerial
<1>1. ProjectInv /\ ProjectInv' /\ [Next]_vars =>
          [Rounds!Next]_<<RoundOf, DraftOf, project.chapter - 1>>
  BY ProjectLife, RoundsStep
<1> QED BY <1>1, ProjectInductive, RoundsInitial, PTL
        DEF Spec, RoundsAreSerial, Rounds!Spec
=============================================================================
