------------------------- MODULE ContextIndexProofs -------------------------
(***************************************************************************)
(* Proofs about ContextIndex, for any set of calls, any number of chapters *)
(* and any windows: a request that is sent is informed.                    *)
(***************************************************************************)
EXTENDS ContextIndex, FiniteSetTheorems, TLAPS

-----------------------------------------------------------------------------
(* The inductive invariant. *)

\* The summaries of the chapters that come before position p.
DeltasTo(p) == {Delta(k) : k \in {k \in 1 .. Chapters : Summarizing(k) < p}}
Deltas(rows) == {r \in rows : r.type \in {"chapter_summary_delta"}}
Memories(rows) == {r \in rows : r.type \in {"event_chain", "chapter_summary"}}

\* Where a call works on the request of a step it has claimed; where it has
\* repaired the index; where its todo are excerpts.
Repaired == {"searching", "quoting", "excerpts", "payload", "rebuilding",
             "comparing", "writing", "collecting"}
Told == {"packing", "built", "started"}
Building == {"repairing", "summaries"} \cup Repaired \cup Told
Quoting == {"quoting", "excerpts", "quoting_after", "excerpts_after"}

Types == OfficialTypes \cup {"chapter_summary_delta", "review_evidence_excerpt"}
Rows == [type : Types, of : Types \cup {"-"}, id : Nat]
CallRows == [pc : Building \cup Quoting \cup {"idle", "searching_after", "indexing"},
             position : 0 .. Reviewing, constitution : 0 .. MaxConstitutions,
             todo : SUBSET Rows, rows : SUBSET Rows]

Typed ==
    /\ TypeOK
    /\ step \in [position : 0 .. Reviewing + 1, holder : SUBSET Calls,
                 running : BOOLEAN]
    /\ review \in [asked : BOOLEAN, evidence : SUBSET Rows]
    /\ index \subseteq Rows
    /\ call \in [Calls -> CallRows]

\* What all calls share.  The summaries in the index are of completed steps.
Shared ==
    /\ \A r \in review.evidence : IsExcerpt(r)
    /\ Deltas(index) \subseteq DeltasTo(step.position)

\* A call that knows k was given its step when it was the current one, and has
\* the claim only while it still is.
ClaimInv(c, k) ==
    k.pc \in Building =>
        /\ k.position <= step.position
        /\ step.holder = {c} => k.position = step.position

\* What it is about to index.
TodoInv(k) ==
    /\ k.pc \in {"summaries", "indexing"} => k.todo \subseteq DeltasTo(step.position)
    /\ k.pc \in Quoting => \A r \in k.todo : IsExcerpt(r)

\* The summaries that its request needs are in the index once it has repaired it.
RepairInv(k) ==
    /\ k.pc = "summaries" => DeltasTo(k.position) \subseteq index \cup k.todo
    /\ k.pc \in Repaired => DeltasTo(k.position) \subseteq index

\* The memory in the index is what it should be after any rebuild, and until
\* then every call that is about to rebuild it has seen it.
MemoryInv(k) ==
    /\ k.pc = "writing" =>
          /\ Official(k.rows) = k.rows
          /\ \/ Memories(index) = Memory(official)
             \/ Memories(index) = Memories(k.rows)
    /\ k.pc = "collecting" => Memories(index) = Memory(official)

\* What its request is told.
ToldInv(c, k) ==
    k.pc \in Told /\ ~IsSummarizing(k.position) =>
        /\ Memories(k.rows) = Memory(official)
        /\ DeltasTo(k.position) \subseteq k.rows
        /\ step.holder = {c} => Deltas(k.rows) \subseteq DeltasTo(k.position)

CallInv(c, k) ==
    ClaimInv(c, k) /\ TodoInv(k) /\ RepairInv(k) /\ MemoryInv(k) /\ ToldInv(c, k)

XInv == Typed /\ Shared /\ \A c \in Calls : CallInv(c, call[c])

-----------------------------------------------------------------------------
(* Rows. *)

LEMMA DeltaFacts ==
    /\ \A k \in 1 .. Chapters : Delta(k) \in Rows /\ ~IsExcerpt(Delta(k))
    /\ \A p \in Nat : /\ DeltasTo(p) \subseteq Rows
                      /\ Deltas(DeltasTo(p)) = DeltasTo(p)
                      /\ Official(DeltasTo(p)) = {} /\ Memories(DeltasTo(p)) = {}
    /\ \A p, q \in Nat : p <= q => DeltasTo(p) \subseteq DeltasTo(q)
<1>1. \A k \in 1 .. Chapters : Delta(k) \in Rows /\ ~IsExcerpt(Delta(k))
  BY DEF Delta, Row, Rows, Types, IsExcerpt
<1>2. \A p \in Nat : /\ DeltasTo(p) \subseteq Rows
                     /\ Deltas(DeltasTo(p)) = DeltasTo(p)
                     /\ Official(DeltasTo(p)) = {} /\ Memories(DeltasTo(p)) = {}
  BY <1>1 DEF DeltasTo, Deltas, Delta, Row, Official, OfficialTypes, Memories
<1>3. \A p, q \in Nat : p <= q => DeltasTo(p) \subseteq DeltasTo(q)
  BY LimitsAssumption DEF DeltasTo, Summarizing
<1> QED BY <1>1, <1>2, <1>3

LEMMA OfficialFacts ==
    ASSUME NEW c \in Nat, NEW chapters \in Seq({"generated", "other"})
    PROVE  LET desired == OfficialRecords(c, chapters)
           IN  /\ desired \subseteq Rows /\ Official(desired) = desired
               /\ Memories(desired) = Memory(chapters) /\ Deltas(desired) = {}
<1> DEFINE desired == OfficialRecords(c, chapters)
<1>1. DOMAIN chapters \subseteq Nat
  OBVIOUS
<1>2. \A r \in Memory(chapters) :
         r \in Rows /\ r.type \in {"event_chain", "chapter_summary"}
  <2>1. \A n \in Nat : /\ Row("event_chain", n) \in Rows
                         /\ Row("event_chain", n).type = "event_chain"
                         /\ Row("chapter_summary", n) \in Rows
                         /\ Row("chapter_summary", n).type = "chapter_summary"
    BY DEF Row, Rows, Types, OfficialTypes
  <2> QED BY <1>1, <2>1 DEF Memory
<1>3. \A r \in desired \ Memory(chapters) :
         r \in Rows /\ r.type \in {"constitution", "official_chapter"}
  <2>1. \A n \in Nat : /\ Row("constitution", n) \in Rows
                         /\ Row("constitution", n).type = "constitution"
                         /\ Row("official_chapter", n) \in Rows
                         /\ Row("official_chapter", n).type = "official_chapter"
    BY DEF Row, Rows, Types, OfficialTypes
  <2> QED BY <1>1, <2>1 DEF OfficialRecords
<1>4. Memory(chapters) \subseteq desired
  BY DEF OfficialRecords
<1> HIDE DEF desired
<1>5. \A r \in desired : r \in Rows /\ r.type \in OfficialTypes
  BY <1>2, <1>3 DEF OfficialTypes
<1>6. desired \subseteq Rows /\ Official(desired) = desired /\ Deltas(desired) = {}
  BY <1>5 DEF Official, OfficialTypes, Deltas
<1>7. Memories(desired) = Memory(chapters)
  BY <1>2, <1>3, <1>4 DEF Memories
<1> QED BY <1>6, <1>7 DEF desired

\* An excerpt is no summary and no memory.
LEMMA ExcerptFacts ==
    /\ \A r \in Rows : Excerpt(r) \in Rows /\ IsExcerpt(Excerpt(r))
    /\ \A r \in Rows : IsExcerpt(r) =>
          r.type \notin {"chapter_summary_delta", "event_chain", "chapter_summary"}
BY DEF Rows, Types, Excerpt, IsExcerpt

-----------------------------------------------------------------------------
(* Types. *)

LEMMA KnownCall ==
    ASSUME Typed, NEW c \in Calls
    PROVE  call[c] \in CallRows /\ NoCall \in CallRows
BY LimitsAssumption DEF Typed, CallRows, NoCall, Reviewing, Building, TypeOK

\* A call that learns something typed is typed.
LEMMA LearnsType ==
    ASSUME Typed, NEW c \in Calls, NEW new \in CallRows, Learns(c, new)
    PROVE  call' \in [Calls -> CallRows]
BY DEF Typed, Learns

\* The updates of a part of what a call knows, as updates of the whole.
LEMMA GoesLearns ==
    ASSUME Typed, NEW c \in Calls, NEW pc, Goes(c, pc)
    PROVE  Learns(c, [call[c] EXCEPT !.pc = pc])
BY DEF Typed, Goes, Learns, CallRows

LEMMA IndexedLearns ==
    ASSUME Typed, NEW c \in Calls, NEW row, IndexArtifact(c, row)
    PROVE  Learns(c, [call[c] EXCEPT !.todo = @ \ {row}])
BY DEF Typed, IndexArtifact, Learns, CallRows

\* What a call knows stays as good while others act: completed steps and
\* indexed summaries stay, and the memory stays or becomes what it should be.
LEMMA FrameCall ==
    ASSUME Typed, NEW c \in Calls, NEW k \in CallRows, CallInv(c, k), Typed',
           UNCHANGED official, step.position <= step'.position,
           k.pc \in Building /\ step'.holder = {c} =>
               step.holder = {c} /\ step'.position = step.position,
           Deltas(index) \subseteq index',
           Memories(index') = Memories(index) \/ Memories(index') = Memory(official)
    PROVE  CallInv(c, k)'
<1>0. /\ step.position \in Nat /\ step'.position \in Nat /\ k.position \in Nat
      /\ k.position \in 0 .. Reviewing
  BY LimitsAssumption DEF Typed, CallRows, Reviewing
<1>1. DeltasTo(step.position) \subseteq DeltasTo(step'.position)
  BY <1>0, DeltaFacts
<1>2. \A d \in DeltasTo(k.position) : d \in index => d \in index'
  BY <1>0, DeltaFacts DEF Deltas
<1>3. ClaimInv(c, k)'
  BY <1>0 DEF CallInv, ClaimInv
<1>4. TodoInv(k)'
  BY <1>1 DEF CallInv, TodoInv
<1>5. RepairInv(k)'
  BY <1>2 DEF CallInv, RepairInv
<1>6. MemoryInv(k)'
  BY DEF CallInv, MemoryInv
<1>7. ToldInv(c, k)'
  BY DEF CallInv, ToldInv, Told, Building
<1> QED BY <1>3, <1>4, <1>5, <1>6, <1>7 DEF CallInv

SharedTyped ==
    /\ constitution \in 1 .. MaxConstitutions
    /\ official \in Seq({"generated", "other"})
    /\ step \in [position : 0 .. Reviewing + 1, holder : SUBSET Calls,
                 running : BOOLEAN]
    /\ step.holder \in {{}} \cup {{c} : c \in Calls}
    /\ review \in [asked : BOOLEAN, evidence : SUBSET Rows]
    /\ index \subseteq Rows

LEMMA TypedParts == Typed <=> SharedTyped /\ call \in [Calls -> CallRows]
<1>1. SharedTyped /\ call \in [Calls -> CallRows] => Typed
  <2> SUFFICES ASSUME SharedTyped, call \in [Calls -> CallRows] PROVE Typed
    OBVIOUS
  <2>1. \A r \in index \cup review.evidence : r.id \in Nat
    BY DEF SharedTyped, Rows
  <2>2. \A c \in Calls : call[c].constitution \in 0 .. MaxConstitutions
    BY DEF CallRows
  <2> QED BY <2>1, <2>2 DEF SharedTyped, Typed, TypeOK
<1> QED BY <1>1 DEF SharedTyped, Typed, TypeOK

LEMMA SharedTypes == XInv /\ [Next]_vars => SharedTyped' /\ official' = official
<1> SUFFICES ASSUME XInv, [Next]_vars
             PROVE  SharedTyped' /\ official' = official
  OBVIOUS
<1> DEFINE StepType(s) ==
             /\ s \in [position : 0 .. Reviewing + 1, holder : SUBSET Calls,
                       running : BOOLEAN]
             /\ s.holder \in {{}} \cup {{c} : c \in Calls}
           ReviewType(r) == r \in [asked : BOOLEAN, evidence : SUBSET Rows]
<1>0. /\ Typed /\ StepType(step) /\ ReviewType(review) /\ Reviewing \in Nat
      /\ index \subseteq Rows /\ constitution \in 1 .. MaxConstitutions
  BY LimitsAssumption DEF XInv, Typed, TypeOK, Reviewing
<1>1. \A c \in Calls : /\ call[c].position \in 0 .. Reviewing
                       /\ call[c].todo \subseteq Rows
                       /\ call[c].constitution \in Nat
  BY <1>0, KnownCall DEF CallRows
<1>2. official' = official
  BY DEF Next, LoseClaim, ApproveConstitution, ClaimStep, Crash, Repairs, Builds,
         Attempts, EnsureSummaryIndexes, IndexSummary, EndSummaries,
         SearchEvidence, WriteEvidence, IndexExcerpt, EndExcerpts, IndexArtifact,
         ReadPayload, ReadDesired, ReadExisting, Rebuild, CollectCandidates,
         BuildPacket, Raise, RecordAttemptStart, Fenced, CompleteAttempt,
         AskForEvidence, FailAttempt, IndexOwnSummary, vars
<1>3. constitution' \in 1 .. MaxConstitutions
  <2>1. CASE ApproveConstitution
    BY <1>0, <2>1, LimitsAssumption DEF ApproveConstitution
  <2>2. CASE constitution' = constitution
    BY <1>0, <2>2
  <2> QED
    BY <2>1, <2>2
       DEF Next, LoseClaim, ClaimStep, Crash, Repairs, Builds,
           Attempts, EnsureSummaryIndexes, IndexSummary, EndSummaries,
           SearchEvidence, WriteEvidence, IndexExcerpt, EndExcerpts, IndexArtifact,
           ReadPayload, ReadDesired, ReadExisting, Rebuild, CollectCandidates,
           BuildPacket, Raise, RecordAttemptStart, Fenced, CompleteAttempt,
           AskForEvidence, FailAttempt, IndexOwnSummary, vars
<1>4. StepType(step')
  <2>1. ASSUME NEW holder \in {{}} \cup {{c} : c \in Calls}, NEW running \in BOOLEAN,
               step' = [step EXCEPT !.holder = holder, !.running = running]
        PROVE  StepType(step')
    <3>1. holder \in SUBSET Calls
      OBVIOUS
    <3> QED BY <1>0, <2>1, <3>1
  <2>2. CASE LoseClaim
    BY <2>1, <2>2 DEF LoseClaim
  <2>3. ASSUME NEW c \in Calls, ClaimStep(c) PROVE StepType(step')
    BY <1>0, <2>3 DEF ClaimStep
  <2>4. ASSUME NEW c \in Calls, RecordAttemptStart(c) PROVE StepType(step')
    BY <1>0, <2>4 DEF RecordAttemptStart
  <2>5. ASSUME NEW c \in Calls, CompleteAttempt(c) PROVE StepType(step')
    BY <1>0, <1>1, <2>5 DEF CompleteAttempt
  <2>6. ASSUME NEW c \in Calls, AskForEvidence(c) \/ FailAttempt(c)
        PROVE  StepType(step')
    BY <2>1, <2>6 DEF AskForEvidence, FailAttempt
  <2>7. CASE step' = step
    BY <1>0, <2>7
  <2> HIDE DEF StepType
  <2> QED
    BY <2>2, <2>3, <2>4, <2>5, <2>6, <2>7
       DEF Next, ApproveConstitution, Crash, Repairs, Builds,
           Attempts, EnsureSummaryIndexes, IndexSummary, EndSummaries,
           SearchEvidence, WriteEvidence, IndexExcerpt, EndExcerpts, IndexArtifact,
           ReadPayload, ReadDesired, ReadExisting, Rebuild, CollectCandidates,
           BuildPacket, Raise, Fenced, IndexOwnSummary, vars
<1>5. ReviewType(review')
  <2>1. ASSUME NEW c \in Calls, WriteEvidence(c) PROVE ReviewType(review')
    BY <1>0, <1>1, <2>1 DEF WriteEvidence
  <2>2. ASSUME NEW c \in Calls, AskForEvidence(c) PROVE ReviewType(review')
    BY <1>0, <2>2 DEF AskForEvidence
  <2>3. CASE review' = review
    BY <1>0, <2>3
  <2> HIDE DEF ReviewType
  <2> QED
    BY <2>1, <2>2, <2>3
       DEF Next, LoseClaim, ApproveConstitution, ClaimStep, Crash, Repairs, Builds,
           Attempts, EnsureSummaryIndexes, IndexSummary, EndSummaries,
           SearchEvidence, IndexExcerpt, EndExcerpts, IndexArtifact,
           ReadPayload, ReadDesired, ReadExisting, Rebuild, CollectCandidates,
           BuildPacket, Raise, RecordAttemptStart, Fenced, CompleteAttempt,
           FailAttempt, IndexOwnSummary, vars
<1>6. index' \subseteq Rows
  <2>1. ASSUME NEW c \in Calls, NEW row, IndexArtifact(c, row)
        PROVE  index' \subseteq Rows
    BY <1>0, <1>1, <2>1 DEF IndexArtifact
  <2>2. ASSUME NEW c \in Calls, Rebuild(c) PROVE index' \subseteq Rows
    <3>1. OfficialRecords(call[c].constitution, official) \subseteq Rows
      BY <1>0, <1>1, OfficialFacts DEF Typed, TypeOK
    <3> QED BY <1>0, <2>2, <3>1 DEF Rebuild
  <2>3. ASSUME NEW c \in Calls, IndexOwnSummary(c) PROVE index' \subseteq Rows
    BY <1>0, <1>1, <2>3 DEF IndexOwnSummary
  <2>4. CASE index' = index
    BY <1>0, <2>4
  <2> QED
    BY <2>1, <2>2, <2>3, <2>4
       DEF Next, LoseClaim, ApproveConstitution, ClaimStep, Crash, Repairs, Builds,
           Attempts, EnsureSummaryIndexes, IndexSummary, EndSummaries,
           SearchEvidence, WriteEvidence, IndexExcerpt, EndExcerpts,
           ReadPayload, ReadDesired, ReadExisting, CollectCandidates,
           BuildPacket, Raise, RecordAttemptStart, Fenced, CompleteAttempt,
           AskForEvidence, FailAttempt, vars
<1>7. official' \in Seq({"generated", "other"})
  BY <1>0, <1>2 DEF Typed, TypeOK
<1> QED BY <1>2, <1>3, <1>4, <1>5, <1>6, <1>7 DEF SharedTyped

-----------------------------------------------------------------------------
(* The steps. *)

\* A step that teaches call c something and keeps what the others rely on.
LEMMA OneCall ==
    ASSUME XInv, SharedTyped', UNCHANGED official, Shared',
           NEW c \in Calls, NEW new \in CallRows, Learns(c, new), CallInv(c, new)',
           step.position <= step'.position,
           \A d \in Calls \ {c} : call[d].pc \in Building /\ step'.holder = {d} =>
               step.holder = {d} /\ step'.position = step.position,
           Deltas(index) \subseteq index',
           Memories(index') = Memories(index) \/ Memories(index') = Memory(official)
    PROVE  XInv'
<1>1. Typed'
  <2>1. Typed
    BY DEF XInv
  <2>2. (call \in [Calls -> CallRows])'
    BY <2>1, LearnsType
  <2>3. SharedTyped' /\ (call \in [Calls -> CallRows])'
    BY <2>2
  <2> QED BY <2>3, TypedParts, PTL
<1>2. call' = [call EXCEPT ![c] = new] /\ call \in [Calls -> CallRows]
  BY DEF XInv, Typed, Learns
<1>3. ASSUME NEW d \in Calls, NEW j \in CallRows, j = call'[d]
      PROVE  CallInv(d, j)'
  <2>1. CASE d = c
    BY <1>2, <1>3, <2>1
  <2>2. CASE d # c
    <3>1. j = call[d]
      BY <1>2, <1>3, <2>2
    <3>2. Typed /\ CallInv(d, j)
      BY <3>1 DEF XInv
    <3> QED BY <1>1, <1>3, <2>2, <3>1, <3>2, FrameCall
  <2> QED BY <2>1, <2>2
<1>4. ASSUME NEW d \in Calls PROVE CallInv(d, call[d])'
  <2>1. \E j \in CallRows : j = call'[d]
    BY <1>2
  <2>2. PICK j \in CallRows : j = call'[d]
    BY <2>1
  <2>3. CallInv(d, j)'
    BY <1>3, <2>2
  <2> QED
    BY <2>2, <2>3
       DEF CallInv, ClaimInv, TodoInv, RepairInv, MemoryInv, ToldInv
<1> QED BY <1>1, <1>4 DEF XInv

\* A step that only teaches call c something.
LEMMA QuietCall ==
    ASSUME XInv, SharedTyped', UNCHANGED <<official, index, step, review>>,
           NEW c \in Calls, NEW new \in CallRows, Learns(c, new), CallInv(c, new)
    PROVE  XInv'
<1>1. Shared'
  BY DEF XInv, Shared
<1>2. CallInv(c, new)'
  BY DEF CallInv, ClaimInv, TodoInv, RepairInv, MemoryInv, ToldInv
<1>3. step.position \in Nat
  BY LimitsAssumption DEF XInv, Typed, Reviewing
<1>4. step.position <= step'.position
  BY <1>3
<1>5. Deltas(index) \subseteq index' /\ Memories(index') = Memories(index)
  BY DEF Deltas
<1> QED BY <1>1, <1>2, <1>4, <1>5, OneCall

\* A call that knows nothing is right.
LEMMA NoCallInv == \A c : CallInv(c, NoCall)
BY DEF CallInv, ClaimInv, TodoInv, RepairInv, MemoryInv, ToldInv, NoCall,
       Building, Repaired, Told, Quoting

LEMMA QuietSteps ==
    ASSUME XInv, SharedTyped', NEW c \in Calls,
           \/ EnsureSummaryIndexes(c) \/ EndSummaries(c) \/ SearchEvidence(c)
           \/ EndExcerpts(c) \/ ReadPayload(c) \/ ReadDesired(c)
           \/ ReadExisting(c) \/ CollectCandidates(c) \/ BuildPacket(c)
           \/ Raise(c) \/ Fenced(c) \/ Crash(c)
    PROVE  XInv'
<1> DEFINE k == call[c]
<1>0. /\ UNCHANGED <<official, index, step, review>>
      /\ Typed /\ Shared /\ k \in CallRows /\ NoCall \in CallRows
      /\ CallInv(c, k) /\ CallInv(c, NoCall)
  BY KnownCall, NoCallInv
     DEF XInv, EnsureSummaryIndexes, EndSummaries, SearchEvidence, EndExcerpts,
         ReadPayload, ReadDesired, ReadExisting, CollectCandidates, BuildPacket,
         Raise, Fenced, Crash
<1>p. step.position \in Nat /\ k.position \in Nat /\ index \subseteq Rows
  BY <1>0, LimitsAssumption DEF Typed, CallRows, Reviewing
<1>n. ASSUME Learns(c, NoCall) PROVE XInv'
  BY <1>0, <1>n, QuietCall
<1>l. ASSUME NEW new \in CallRows, Learns(c, new), CallInv(c, new) PROVE XInv'
  BY <1>0, <1>l, QuietCall
<1>g. ASSUME NEW pc \in Building, Goes(c, pc), CallInv(c, [k EXCEPT !.pc = pc])
      PROVE  XInv'
  <2>1. PICK new : new = [k EXCEPT !.pc = pc]
    OBVIOUS
  <2>2. new \in CallRows
    BY <1>0, <2>1 DEF CallRows
  <2>3. Learns(c, new)
    BY <1>0, <1>g, <2>1, GoesLearns
  <2>4. CallInv(c, new)
    BY <1>g, <2>1
  <2> QED BY <2>2, <2>3, <2>4, <1>l
<1> USE DEF CallInv, ClaimInv, TodoInv, RepairInv, MemoryInv, ToldInv
<1>1. CASE EnsureSummaryIndexes(c)
  <2>1. PICK new : new = [k EXCEPT !.pc = "summaries", !.todo = MissingDeltas(Summarized)]
    OBVIOUS
  <2>2. MissingDeltas(Summarized) = DeltasTo(step.position) \ index
    BY <1>p DEF MissingDeltas, Summarized, DeltasTo
  <2>3. DeltasTo(step.position) \subseteq Rows
    BY <1>p, DeltaFacts
  <2>4. new \in CallRows
    BY <1>0, <2>1, <2>2, <2>3 DEF CallRows, Building
  <2>5. DeltasTo(k.position) \subseteq DeltasTo(step.position)
    <3>1. k.position <= step.position
      BY <1>0, <1>1 DEF EnsureSummaryIndexes, Building
    <3> QED BY <1>p, <3>1, DeltaFacts
  <2>6. /\ new.pc = "summaries" /\ new.todo = DeltasTo(step.position) \ index
        /\ new.position = k.position /\ new.rows = k.rows /\ k.pc = "repairing"
    BY <1>0, <1>1, <2>1, <2>2 DEF CallRows, EnsureSummaryIndexes
  <2>7. CallInv(c, new)
    BY <1>0, <2>5, <2>6 DEF Building, Repaired, Told, Quoting
  <2> QED BY <1>1, <1>l, <2>1, <2>4, <2>7 DEF EnsureSummaryIndexes
<1>2. CASE EndSummaries(c)
  <2>1. PICK pc \in {"searching", "payload"} : Goes(c, pc)
    BY <1>2 DEF EndSummaries
  <2>2. CallInv(c, [k EXCEPT !.pc = pc])
    BY <1>0, <1>2, <2>1
       DEF EndSummaries, CallRows, Building, Repaired, Told, Quoting
  <2> QED BY <1>g, <2>1, <2>2 DEF Building, Repaired
<1>3. CASE SearchEvidence(c)
  <2>1. PICK found : /\ found \subseteq Rows /\ \A r \in found : IsExcerpt(r)
                     /\ Learns(c, [k EXCEPT
                          !.pc = IF @ = "searching" THEN "quoting" ELSE "quoting_after",
                          !.todo = found])
    <3>1. /\ review.evidence \subseteq Rows
          /\ \A r \in review.evidence : IsExcerpt(r)
      BY <1>0 DEF Typed, Shared
    <3>2. \A r \in Official(index) :
             {Excerpt(r)} \subseteq Rows /\ \A x \in {Excerpt(r)} : IsExcerpt(x)
      BY <1>p, ExcerptFacts DEF Official
    <3> QED BY <1>3, <3>1, <3>2 DEF SearchEvidence
  <2>2. PICK new : new = [k EXCEPT
                          !.pc = IF @ = "searching" THEN "quoting" ELSE "quoting_after",
                          !.todo = found]
    OBVIOUS
  <2>3. k.pc \in {"searching", "searching_after"}
    BY <1>3 DEF SearchEvidence
  <2>4. new \in CallRows
    BY <1>0, <2>1, <2>2 DEF CallRows, Building, Repaired, Quoting
  <2>5. /\ new.pc = IF k.pc = "searching" THEN "quoting" ELSE "quoting_after"
        /\ new.todo = found /\ new.position = k.position /\ new.rows = k.rows
    BY <1>0, <2>2 DEF CallRows
  <2>6. CallInv(c, new)
    BY <1>0, <2>1, <2>3, <2>5 DEF Building, Repaired, Told, Quoting
  <2> QED BY <1>l, <2>1, <2>2, <2>4, <2>6
<1>4. CASE EndExcerpts(c)
  <2>1. CASE k.pc = "excerpts"
    <3>1. Goes(c, "payload")
      BY <1>4, <2>1 DEF EndExcerpts
    <3>2. CallInv(c, [k EXCEPT !.pc = "payload"])
      BY <1>0, <2>1 DEF CallRows, Building, Repaired, Told, Quoting
    <3> QED BY <1>g, <3>1, <3>2 DEF Building, Repaired
  <2>2. CASE k.pc # "excerpts"
    BY <1>4, <1>n, <2>2 DEF EndExcerpts
  <2> QED BY <2>1, <2>2
<1>5. CASE ReadPayload(c)
  <2>1. CASE IsSummarizing(k.position)
    <3>1. Goes(c, "built")
      BY <1>5, <2>1 DEF ReadPayload
    <3>2. CallInv(c, [k EXCEPT !.pc = "built"])
      BY <1>0, <1>5, <2>1 DEF ReadPayload, CallRows, Building, Repaired, Told, Quoting
    <3> QED BY <1>g, <3>1, <3>2 DEF Building, Told
  <2>2. CASE ~IsSummarizing(k.position)
    <3>1. Goes(c, "rebuilding")
      BY <1>5, <2>2 DEF ReadPayload
    <3>2. CallInv(c, [k EXCEPT !.pc = "rebuilding"])
      BY <1>0, <1>5 DEF ReadPayload, CallRows, Building, Repaired, Told, Quoting
    <3> QED BY <1>g, <3>1, <3>2 DEF Building, Repaired
  <2> QED BY <2>1, <2>2
<1>6. CASE ReadDesired(c)
  <2>1. PICK new : new = [k EXCEPT !.pc = "comparing", !.constitution = constitution]
    OBVIOUS
  <2>2. constitution \in 0 .. MaxConstitutions
    BY <1>0, LimitsAssumption DEF Typed, TypeOK
  <2>3. new \in CallRows
    BY <1>0, <2>1, <2>2 DEF CallRows, Building, Repaired
  <2>4. CallInv(c, new)
    BY <1>0, <1>6, <2>1 DEF ReadDesired, CallRows, Building, Repaired, Told, Quoting
  <2> QED BY <1>6, <1>l, <2>1, <2>3, <2>4 DEF ReadDesired
<1>7. CASE ReadExisting(c)
  <2>1. PICK new : new = [k EXCEPT !.pc = "writing", !.rows = Official(index)]
    OBVIOUS
  <2>2. new \in CallRows
    BY <1>0, <1>p, <2>1 DEF CallRows, Building, Repaired, Official
  <2>3. /\ Official(Official(index)) = Official(index)
        /\ Memories(Official(index)) = Memories(index)
    BY DEF Official, Memories, OfficialTypes
  <2>4. /\ new.pc = "writing" /\ new.rows = Official(index)
        /\ new.position = k.position /\ k.pc = "comparing"
    BY <1>0, <1>7, <2>1 DEF CallRows, ReadExisting
  <2>5. CallInv(c, new)
    BY <1>0, <2>3, <2>4 DEF Building, Repaired, Told, Quoting
  <2> QED BY <1>7, <1>l, <2>1, <2>2, <2>5 DEF ReadExisting
<1>8. CASE CollectCandidates(c)
  <2> DEFINE found == {r \in index : r.type # "official_chapter"}
  <2>1. PICK new : new = [k EXCEPT !.pc = "packing", !.rows = found]
    OBVIOUS
  <2>2. new \in CallRows
    BY <1>0, <1>p, <2>1 DEF CallRows, Building, Told
  <2>3. /\ new.pc = "packing" /\ new.rows = found
        /\ new.position = k.position /\ k.pc = "collecting"
    BY <1>0, <1>8, <2>1 DEF CallRows, CollectCandidates
  <2>4. Memories(found) = Memories(index) /\ Deltas(found) = Deltas(index)
    BY DEF Memories, Deltas
  <2>5. DeltasTo(k.position) \subseteq found
    <3>1. DeltasTo(k.position) \subseteq index
      BY <1>0, <2>3 DEF Repaired
    <3>2. Deltas(DeltasTo(k.position)) = DeltasTo(k.position)
      BY <1>p, DeltaFacts
    <3> QED BY <3>1, <3>2 DEF Deltas
  <2>6. step.holder = {c} => Deltas(found) \subseteq DeltasTo(k.position)
    BY <1>0, <2>3, <2>4 DEF Building, Repaired, Shared
  <2>7. Memories(found) = Memory(official)
    BY <1>0, <2>3, <2>4
  <2> HIDE DEF found
  <2>8. CallInv(c, new)
    BY <1>0, <2>3, <2>5, <2>6, <2>7 DEF Building, Repaired, Told, Quoting
  <2> QED BY <1>8, <1>l, <2>1, <2>2, <2>8 DEF CollectCandidates, found
<1>9. CASE BuildPacket(c)
  <2>1. CallInv(c, [k EXCEPT !.pc = "built"])
    BY <1>0, <1>9 DEF BuildPacket, CallRows, Building, Repaired, Told, Quoting
  <2> QED BY <1>9, <1>g, <2>1 DEF BuildPacket, Building, Told
<1>10. CASE Raise(c) \/ Fenced(c) \/ Crash(c)
  BY <1>10, <1>n DEF Raise, Fenced, Crash
<1> QED
  BY <1>1, <1>2, <1>3, <1>4, <1>5, <1>6, <1>7, <1>8, <1>9, <1>10

\* A row that is indexed is of a completed step, or an excerpt.
LEMMA IndexSteps ==
    ASSUME XInv, SharedTyped', NEW c \in Calls,
           IndexSummary(c) \/ IndexExcerpt(c) \/ IndexOwnSummary(c)
    PROVE  XInv'
<1> DEFINE k == call[c]
<1>0. /\ Typed /\ Shared /\ k \in CallRows /\ NoCall \in CallRows
      /\ CallInv(c, k) /\ index \subseteq Rows /\ step.position \in Nat
  BY KnownCall, LimitsAssumption DEF XInv, Typed, Reviewing
<1>1. UNCHANGED <<official, step, review>>
  BY DEF IndexSummary, IndexExcerpt, IndexOwnSummary, IndexArtifact
<1>2. ASSUME NEW rows \in SUBSET Rows, index' = index \cup rows,
             \/ rows \subseteq DeltasTo(step.position)
             \/ \A r \in rows : IsExcerpt(r)
      PROVE  /\ Shared' /\ Deltas(index) \subseteq index'
             /\ Memories(index') = Memories(index)
  <2>1. Deltas(rows) \subseteq DeltasTo(step.position) /\ Memories(rows) = {}
    <3>1. CASE rows \subseteq DeltasTo(step.position)
      <4>1. Memories(DeltasTo(step.position)) = {}
        BY <1>0, DeltaFacts
      <4> QED BY <3>1, <4>1 DEF Deltas, Memories
    <3>2. CASE \A r \in rows : IsExcerpt(r)
      BY <3>2, ExcerptFacts DEF Deltas, Memories
    <3> QED BY <1>2, <3>1, <3>2
  <2>2. Deltas(index') = Deltas(index) \cup Deltas(rows)
    BY <1>2 DEF Deltas
  <2>3. Memories(index') = Memories(index)
    BY <1>2, <2>1 DEF Memories
  <2>4. Shared'
    BY <1>0, <1>1, <2>1, <2>2 DEF Shared
  <2> QED BY <1>2, <2>3, <2>4 DEF Deltas
<1>3. ASSUME NEW new \in CallRows, Learns(c, new), CallInv(c, new)',
             NEW rows \in SUBSET Rows, index' = index \cup rows,
             \/ rows \subseteq DeltasTo(step.position)
             \/ \A r \in rows : IsExcerpt(r)
      PROVE  XInv'
  <2>1. step.position <= step'.position
    BY <1>0, <1>1
  <2> QED BY <1>1, <1>2, <1>3, <2>1, OneCall
<1> USE DEF CallInv, ClaimInv, TodoInv, RepairInv, MemoryInv, ToldInv
<1>4. CASE IndexSummary(c)
  <2>1. PICK row : IndexArtifact(c, row)
    BY <1>4 DEF IndexSummary
  <2>2. PICK new : new = [k EXCEPT !.todo = @ \ {row}]
    OBVIOUS
  <2>3. /\ new \in CallRows /\ new.pc = "summaries" /\ new.todo = k.todo \ {row}
        /\ new.position = k.position /\ new.rows = k.rows /\ k.pc = "summaries"
    BY <1>0, <1>4, <2>2 DEF CallRows, IndexSummary
  <2>4. Learns(c, new)
    BY <1>0, <2>1, <2>2, IndexedLearns
  <2>5. /\ row \in k.todo /\ index' = index \cup {row}
        /\ {row} \subseteq DeltasTo(step.position) /\ {row} \in SUBSET Rows
    BY <1>0, <2>1, <2>3 DEF IndexArtifact, CallRows
  <2>6. CallInv(c, new)'
    BY <1>0, <1>1, <2>3, <2>5 DEF Building, Repaired, Told, Quoting
  <2> QED BY <1>3, <2>3, <2>4, <2>5, <2>6
<1>5. CASE IndexExcerpt(c)
  <2>1. PICK row : IndexArtifact(c, row)
    BY <1>5 DEF IndexExcerpt
  <2>2. PICK new : new = [k EXCEPT !.todo = @ \ {row}]
    OBVIOUS
  <2>3. /\ new \in CallRows /\ new.pc = k.pc /\ new.todo = k.todo \ {row}
        /\ new.position = k.position /\ new.rows = k.rows
        /\ k.pc \in {"excerpts", "excerpts_after"}
    BY <1>0, <1>5, <2>2 DEF CallRows, IndexExcerpt
  <2>4. Learns(c, new)
    BY <1>0, <2>1, <2>2, IndexedLearns
  <2>5. /\ row \in k.todo /\ index' = index \cup {row}
        /\ (\A r \in {row} : IsExcerpt(r)) /\ {row} \in SUBSET Rows
    BY <1>0, <2>1, <2>3 DEF IndexArtifact, CallRows, Quoting
  <2>6. CallInv(c, new)'
    BY <1>0, <1>1, <2>3, <2>5 DEF Building, Repaired, Told, Quoting
  <2> QED BY <1>3, <2>3, <2>4, <2>5, <2>6
<1>6. CASE IndexOwnSummary(c)
  <2>1. /\ k.todo \subseteq DeltasTo(step.position) /\ k.todo \in SUBSET Rows
        /\ index' = index \cup k.todo /\ Learns(c, NoCall)
    BY <1>0, <1>6 DEF IndexOwnSummary, CallRows
  <2>2. PICK new \in CallRows : new = NoCall
    BY <1>0
  <2>3. CallInv(c, new)'
    BY <2>2 DEF NoCall, Building, Repaired, Told, Quoting
  <2>4. \E rows \in SUBSET Rows : rows = k.todo
    BY <2>1
  <2> QED BY <1>3, <2>1, <2>2, <2>3, <2>4
<1> QED BY <1>4, <1>5, <1>6

\* Evidence is made of excerpts.
LEMMA EvidenceStep ==
    ASSUME XInv, SharedTyped', NEW c \in Calls, WriteEvidence(c)
    PROVE  XInv'
<1> DEFINE k == call[c]
<1>0. /\ Typed /\ Shared /\ k \in CallRows /\ CallInv(c, k) /\ step.position \in Nat
  BY KnownCall, LimitsAssumption DEF XInv, Typed, Reviewing
<1>1. /\ UNCHANGED <<official, step, index>>
      /\ review' = [review EXCEPT !.evidence = @ \cup k.todo]
      /\ k.pc \in {"quoting", "quoting_after"}
      /\ Goes(c, IF k.pc = "quoting" THEN "excerpts" ELSE "excerpts_after")
  BY DEF WriteEvidence
<1>2. PICK new : new = [k EXCEPT !.pc = IF k.pc = "quoting" THEN "excerpts"
                                                        ELSE "excerpts_after"]
  OBVIOUS
<1>3. /\ new \in CallRows /\ new.todo = k.todo /\ new.position = k.position
      /\ new.pc = IF k.pc = "quoting" THEN "excerpts" ELSE "excerpts_after"
  BY <1>0, <1>2 DEF CallRows, Building, Repaired, Quoting
<1>4. Learns(c, new)
  BY <1>0, <1>1, <1>2, GoesLearns
<1>5. Shared'
  <2>1. review'.evidence = review.evidence \cup k.todo
    BY <1>0, <1>1 DEF Typed
  <2>2. \A r \in k.todo : IsExcerpt(r)
    BY <1>0, <1>1 DEF CallInv, TodoInv, Quoting
  <2> QED BY <1>0, <1>1, <2>1, <2>2 DEF Shared
<1>6. CallInv(c, new)'
  BY <1>0, <1>1, <1>3
     DEF CallInv, ClaimInv, TodoInv, RepairInv, MemoryInv, ToldInv,
         Building, Repaired, Told, Quoting
<1>7. /\ step.position <= step'.position /\ Deltas(index) \subseteq index'
      /\ Memories(index') = Memories(index)
  BY <1>0, <1>1 DEF Deltas
<1> QED BY <1>1, <1>3, <1>4, <1>5, <1>6, <1>7, OneCall

\* A rebuild leaves the memory that should be there, and the summaries.
LEMMA RebuildStep ==
    ASSUME XInv, SharedTyped', NEW c \in Calls, Rebuild(c)
    PROVE  XInv'
<1> DEFINE k == call[c]
           desired == OfficialRecords(k.constitution, official)
<1>0. /\ Typed /\ Shared /\ k \in CallRows /\ CallInv(c, k) /\ step.position \in Nat
  BY KnownCall, LimitsAssumption DEF XInv, Typed, Reviewing
<1>1. /\ k.pc = "writing" /\ UNCHANGED <<official, step, review>>
      /\ index' = (index \ (k.rows \ desired)) \cup (desired \ k.rows)
      /\ Learns(c, [k EXCEPT !.pc = "collecting", !.rows = {}])
  BY DEF Rebuild
<1>2. Memories(desired) = Memory(official) /\ Deltas(desired) = {}
  <2>1. k.constitution \in Nat /\ official \in Seq({"generated", "other"})
    BY <1>0 DEF CallRows, Typed, TypeOK
  <2> QED BY <2>1, OfficialFacts
<1>3. /\ Official(k.rows) = k.rows
      /\ \/ Memories(index) = Memory(official)
         \/ Memories(index) = Memories(k.rows)
  BY <1>0, <1>1 DEF CallInv, MemoryInv
<1> HIDE DEF desired
<1>4. Memories(index') = Memory(official)
  BY <1>1, <1>2, <1>3 DEF Memories
<1>5. Deltas(index') = Deltas(index)
  <2>1. \A r \in k.rows : r.type # "chapter_summary_delta"
    BY <1>3 DEF Official, OfficialTypes
  <2> QED BY <1>1, <1>2, <2>1 DEF Deltas
<1>6. PICK new : new = [k EXCEPT !.pc = "collecting", !.rows = {}]
  OBVIOUS
<1>7. /\ new \in CallRows /\ new.pc = "collecting" /\ new.position = k.position
  BY <1>0, <1>6 DEF CallRows, Building, Repaired
<1>8. DeltasTo(k.position) \subseteq index'
  <2>1. DeltasTo(k.position) \subseteq index
    BY <1>0, <1>1 DEF CallInv, RepairInv, Repaired
  <2>2. Deltas(DeltasTo(k.position)) = DeltasTo(k.position)
    BY <1>0, DeltaFacts DEF CallRows
  <2> QED BY <1>5, <2>1, <2>2 DEF Deltas
<1>9. CallInv(c, new)'
  BY <1>0, <1>1, <1>4, <1>7, <1>8
     DEF CallInv, ClaimInv, TodoInv, RepairInv, MemoryInv, ToldInv,
         Building, Repaired, Told, Quoting
<1>10. Shared'
  BY <1>0, <1>1, <1>5 DEF Shared
<1>11. step.position <= step'.position /\ Deltas(index) \subseteq index'
  BY <1>0, <1>1, <1>5 DEF Deltas
<1> QED BY <1>1, <1>4, <1>6, <1>7, <1>9, <1>10, <1>11, OneCall

\* The claim changes hands, and the step is completed.
LEMMA ClaimSteps ==
    ASSUME XInv, SharedTyped', NEW c \in Calls,
           \/ ClaimStep(c) \/ RecordAttemptStart(c) \/ CompleteAttempt(c)
           \/ AskForEvidence(c) \/ FailAttempt(c)
    PROVE  XInv'
<1> DEFINE k == call[c]
<1>0. /\ Typed /\ Shared /\ k \in CallRows /\ NoCall \in CallRows
      /\ CallInv(c, k) /\ CallInv(c, NoCall)
      /\ step.position \in 0 .. Reviewing + 1 /\ Reviewing \in Nat
      /\ step \in [position : 0 .. Reviewing + 1, holder : SUBSET Calls,
                   running : BOOLEAN]
  BY KnownCall, NoCallInv, LimitsAssumption DEF XInv, Typed, Reviewing
<1>1. /\ UNCHANGED <<official, index>> /\ review'.evidence = review.evidence
  BY <1>0 DEF Typed, ClaimStep, RecordAttemptStart, CompleteAttempt,
              AskForEvidence, FailAttempt
<1>2. ASSUME NEW new \in CallRows, Learns(c, new), CallInv(c, new)',
             step.position <= step'.position, step'.holder \in {{}, {c}}
      PROVE  XInv'
  <2>1. Shared'
    <3>1. DeltasTo(step.position) \subseteq DeltasTo(step'.position)
      <4>1. step.position \in Nat /\ step'.position \in Nat
        BY <1>0 DEF SharedTyped
      <4> QED BY <1>2, <4>1, DeltaFacts
    <3> QED BY <1>0, <1>1, <3>1 DEF Shared
  <2>2. Deltas(index) \subseteq index' /\ Memories(index') = Memories(index)
    BY <1>1 DEF Deltas
  <2>3. \A d \in Calls \ {c} : step'.holder # {d}
    BY <1>2
  <2> QED BY <1>1, <1>2, <2>1, <2>2, <2>3, OneCall
<1>3. ASSUME NEW new \in CallRows, new.pc \notin Building \cup Quoting \cup {"indexing"}
      PROVE  CallInv(c, new)'
  BY <1>3 DEF CallInv, ClaimInv, TodoInv, RepairInv, MemoryInv, ToldInv,
              Building, Repaired, Told, Quoting
<1> USE DEF CallInv, ClaimInv, TodoInv, RepairInv, MemoryInv, ToldInv
<1>4. CASE ClaimStep(c)
  <2>1. /\ step' = [step EXCEPT !.holder = {c}] /\ step.position <= Reviewing
        /\ Learns(c, [NoCall EXCEPT !.pc = "repairing", !.position = step.position])
    BY <1>4 DEF ClaimStep
  <2>2. PICK new : new = [NoCall EXCEPT !.pc = "repairing", !.position = step.position]
    OBVIOUS
  <2>3. step.position \in 0 .. Reviewing
    BY <1>0, <2>1
  <2>4. new \in CallRows /\ new.pc = "repairing" /\ new.position = step.position
    BY <1>0, <2>2, <2>3 DEF CallRows, Building, NoCall
  <2>5. step'.position = step.position /\ step'.holder = {c}
    BY <1>0, <2>1
  <2>6. CallInv(c, new)'
    BY <2>3, <2>4, <2>5 DEF Building, Repaired, Told, Quoting
  <2>7. step.position <= step'.position
    BY <1>0, <2>5
  <2>8. Learns(c, new)
    BY <2>1, <2>2
  <2> QED BY <1>2, <2>4, <2>5, <2>6, <2>7, <2>8
<1>5. CASE RecordAttemptStart(c)
  <2>1. /\ step' = [step EXCEPT !.running = TRUE] /\ step.holder = {c}
        /\ k.pc = "built" /\ Goes(c, "started")
    BY <1>5 DEF RecordAttemptStart
  <2>2. PICK new : new = [k EXCEPT !.pc = "started"]
    OBVIOUS
  <2>3. /\ new \in CallRows /\ new.pc = "started" /\ new.position = k.position
        /\ new.rows = k.rows
    BY <1>0, <2>2 DEF CallRows, Building, Told
  <2>4. step'.position = step.position /\ step'.holder = {c}
    BY <1>0, <2>1
  <2>5. CallInv(c, new)'
    BY <1>0, <1>1, <2>1, <2>3, <2>4 DEF Building, Repaired, Told, Quoting
  <2>6. Learns(c, new)
    BY <1>0, <2>1, <2>2, GoesLearns
  <2>7. step.position <= step'.position
    BY <1>0, <2>4
  <2> QED BY <1>2, <2>3, <2>4, <2>5, <2>6, <2>7
<1>6. CASE CompleteAttempt(c)
  <2>1. /\ k.pc = "started" /\ step.holder = {c}
        /\ step' = [position |-> k.position + 1, holder |-> {}, running |-> FALSE]
    BY <1>6 DEF CompleteAttempt
  <2>2. k.position = step.position
    BY <1>0, <2>1 DEF Building, Told
  <2>3. step'.position = step.position + 1 /\ step'.holder = {}
    BY <2>1, <2>2
  <2>4. CASE IsSummarizing(k.position)
    <3> DEFINE own == Delta(k.position \div 2)
    <3>1. PICK new : new = [NoCall EXCEPT !.pc = "indexing", !.todo = {own}]
      OBVIOUS
    <3>2. PICK j \in 1 .. Chapters : k.position = 2 * j
      BY <2>4 DEF IsSummarizing, Summarizing
    <3>3. k.position \div 2 = j
      BY <3>2, LimitsAssumption
    <3>4. own \in DeltasTo(step'.position)
      BY <1>0, <2>2, <2>3, <3>2, <3>3 DEF DeltasTo, Summarizing
    <3>5. own \in Rows
      BY <3>2, <3>3, DeltaFacts
    <3> HIDE DEF own
    <3>6. new \in CallRows /\ new.pc = "indexing" /\ new.todo = {own}
      BY <1>0, <3>1, <3>5 DEF CallRows, NoCall
    <3>7. CallInv(c, new)'
      BY <3>4, <3>6 DEF Building, Repaired, Told, Quoting
    <3>8. Learns(c, new)
      BY <1>6, <2>4, <3>1 DEF CompleteAttempt, own
    <3> QED BY <1>0, <1>2, <2>3, <3>6, <3>7, <3>8
  <2>5. CASE ~IsSummarizing(k.position)
    <3>1. Learns(c, NoCall)
      BY <1>6, <2>5 DEF CompleteAttempt
    <3>2. PICK new \in CallRows : new = NoCall
      BY <1>0
    <3>3. CallInv(c, new)'
      BY <1>3, <3>2 DEF NoCall, Building, Repaired, Told, Quoting
    <3> QED BY <1>0, <1>2, <2>3, <3>1, <3>2, <3>3
  <2> QED BY <2>4, <2>5
<1>7. CASE AskForEvidence(c)
  <2>1. /\ step' = [step EXCEPT !.holder = {}, !.running = FALSE]
        /\ Learns(c, [NoCall EXCEPT !.pc = "searching_after"])
    BY <1>7 DEF AskForEvidence
  <2>2. PICK new : new = [NoCall EXCEPT !.pc = "searching_after"]
    OBVIOUS
  <2>3. new \in CallRows /\ new.pc = "searching_after"
    BY <1>0, <2>2 DEF CallRows, NoCall
  <2>4. CallInv(c, new)'
    BY <1>3, <2>3 DEF Building, Repaired, Told, Quoting
  <2>5. step'.position = step.position /\ step'.holder = {}
    BY <1>0, <2>1
  <2>6. step.position <= step'.position
    BY <1>0, <2>5
  <2>7. Learns(c, new)
    BY <2>1, <2>2
  <2> QED BY <1>2, <2>3, <2>4, <2>5, <2>6, <2>7
<1>8. CASE FailAttempt(c)
  <2>1. /\ step' = [step EXCEPT !.holder = {}, !.running = FALSE]
        /\ Learns(c, NoCall)
    BY <1>8 DEF FailAttempt
  <2>2. PICK new \in CallRows : new = NoCall
    BY <1>0
  <2>3. CallInv(c, new)'
    BY <1>3, <2>2 DEF NoCall, Building, Repaired, Told, Quoting
  <2>4. step'.position = step.position /\ step'.holder = {}
    BY <1>0, <2>1
  <2> QED BY <1>0, <1>2, <2>1, <2>2, <2>3, <2>4
<1> QED BY <1>4, <1>5, <1>6, <1>7, <1>8

\* Steps that teach no call anything.
LEMMA OtherSteps ==
    ASSUME XInv, SharedTyped', LoseClaim \/ ApproveConstitution \/ UNCHANGED vars
    PROVE  XInv'
<1>0. Typed /\ Shared /\ step.position \in Nat
  BY LimitsAssumption DEF XInv, Typed, Reviewing
<1>1. /\ UNCHANGED <<official, index, review, call>>
      /\ step'.position = step.position /\ step'.holder \in {step.holder, {}}
  BY <1>0 DEF Typed, LoseClaim, ApproveConstitution, vars
<1>2. Typed'
  <2>1. (call \in [Calls -> CallRows])'
    BY <1>0, <1>1 DEF Typed
  <2> QED BY <2>1, TypedParts, PTL
<1>3. Shared'
  BY <1>0, <1>1 DEF Shared
<1>4. ASSUME NEW c \in Calls PROVE CallInv(c, call[c])'
  <2>1. PICK k \in CallRows : k = call[c]
    BY <1>0, KnownCall
  <2>2. CallInv(c, k)
    BY <2>1 DEF XInv
  <2>3. Deltas(index) \subseteq index' /\ Memories(index') = Memories(index)
    BY <1>1 DEF Deltas
  <2>4. CallInv(c, k)'
    BY <1>0, <1>1, <1>2, <2>2, <2>3, FrameCall
  <2> QED
    BY <1>1, <2>1, <2>4
       DEF CallInv, ClaimInv, TodoInv, RepairInv, MemoryInv, ToldInv
<1> QED BY <1>2, <1>3, <1>4 DEF XInv

-----------------------------------------------------------------------------
(* The theorems. *)

LEMMA IndexInitial == Init => XInv
<1> SUFFICES ASSUME Init PROVE XInv
  OBVIOUS
<1>1. official \in Seq({"generated", "other"})
  <2>1. PICK n \in 0 .. MaxOfficial : official \in [1 .. n -> {"generated", "other"}]
    BY DEF Init
  <2>2. n \in Nat
    BY LimitsAssumption
  <2> QED BY <2>1, <2>2
<1>2. index \subseteq Rows /\ Deltas(index) = {}
  <2>1. CASE index = {}
    BY <2>1 DEF Deltas
  <2>2. CASE index # {}
    <3>1. PICK n \in 0 .. Len(official) :
             index = OfficialRecords(1, SubSeq(official, 1, n))
      BY <2>2 DEF Init
    <3>2. SubSeq(official, 1, n) \in Seq({"generated", "other"})
      BY <1>1
    <3> QED BY <3>1, <3>2, OfficialFacts
  <2> QED BY <2>1, <2>2
<1>3. /\ step = [position |-> 0, holder |-> {}, running |-> FALSE]
      /\ review = [asked |-> FALSE, evidence |-> {}]
      /\ call = [c \in Calls |-> NoCall] /\ constitution = 1
  BY DEF Init
<1>4. NoCall \in CallRows /\ Reviewing \in Nat
  BY LimitsAssumption DEF CallRows, NoCall, Reviewing
<1>5. SharedTyped /\ call \in [Calls -> CallRows]
  BY <1>1, <1>2, <1>3, <1>4, LimitsAssumption DEF SharedTyped
<1>6. Typed
  BY <1>5, TypedParts
<1>7. Shared
  BY <1>2, <1>3 DEF Shared
<1> QED BY <1>3, <1>6, <1>7, NoCallInv DEF XInv

LEMMA IndexPreserved == XInv /\ [Next]_vars => XInv'
<1> SUFFICES ASSUME XInv, [Next]_vars PROVE XInv'
  OBVIOUS
<1>1. SharedTyped'
  BY SharedTypes
<1>2. ASSUME NEW c \in Calls,
             ClaimStep(c) \/ Crash(c) \/ Repairs(c) \/ Builds(c) \/ Attempts(c)
      PROVE  XInv'
  BY <1>1, <1>2, QuietSteps, IndexSteps, EvidenceStep, RebuildStep, ClaimSteps
     DEF Repairs, Builds, Attempts
<1> QED BY <1>1, <1>2, OtherSteps DEF Next

\* XInv is an invariant: whatever lapses, crashes or is rebuilt, each call knows
\* at its place in _build_request what its next step relies on.
THEOREM IndexInductive == Spec => []XInv
BY IndexInitial, IndexPreserved, PTL DEF Spec

-----------------------------------------------------------------------------
(* From rows to what is offered. *)

\* Being among the last chapters is having few of them after it.
LEMMA WindowFacts ==
    ASSUME Typed, NEW limit \in Nat
    PROVE  {n \in DOMAIN official : Recent(n, limit)} =
               {n \in DOMAIN official : official[n] = "generated" /\ n + limit > Len(official)}
<1>1. official \in Seq({"generated", "other"}) /\ Len(official) \in Nat
      /\ DOMAIN official = 1 .. Len(official)
  BY DEF Typed, TypeOK
<1> DEFINE After(n) == {m \in DOMAIN official : m > n}
<1>2. ASSUME NEW n \in DOMAIN official
      PROVE  Cardinality(After(n)) < limit <=> n + limit > Len(official)
  <2>1. n \in Nat /\ n <= Len(official) /\ n + 1 \in Int /\ Len(official) \in Int
    BY <1>1
  <2>2. After(n) = (n + 1) .. Len(official)
    BY <1>1, <2>1
  <2>3. Cardinality((n + 1) .. Len(official)) =
            IF n + 1 > Len(official) THEN 0 ELSE Len(official) - (n + 1) + 1
    BY <2>1, FS_Interval
  <2>4. Cardinality(After(n)) = Len(official) - n
    <3> HIDE DEF After
    <3>1. Cardinality(After(n)) =
            IF n + 1 > Len(official) THEN 0 ELSE Len(official) - (n + 1) + 1
      BY <2>2, <2>3
    <3> QED BY <2>1, <3>1
  <2> QED BY <2>1, <2>4
<1> QED BY <1>2 DEF Recent

\* The ids of the rows of a type, of rows that are made of ids.
LEMMA IdsOfRows ==
    /\ \A k \in 1 .. Chapters : Delta(k).type = "chapter_summary_delta" /\ Delta(k).id = k
    /\ \A type, id : Row(type, id).type = type /\ Row(type, id).id = id
BY DEF Delta, Row

\* For any number of calls and chapters and any windows, a request that is
\* sent was offered the summaries of exactly the chapters before its own, and of
\* the official chapters those that are in the two windows.
THEOREM SentRequestsAreInformed == Spec => []RequestsAreInformed
<1>1. XInv => RequestsAreInformed
  <2> SUFFICES ASSUME XInv, NEW c \in Calls, Sent(c)
               PROVE  LET Offered(type) == {r.id : r \in {r \in call[c].rows : r.type = type}}
                      IN  /\ Offered("chapter_summary_delta") =
                                 {k \in 1 .. Chapters : Summarizing(k) < call[c].position}
                          /\ Offered("event_chain") =
                                 {n \in DOMAIN official : Recent(n, EventLimit)}
                          /\ Offered("chapter_summary") =
                                 {n \in DOMAIN official : Recent(n, SummaryLimit)}
    BY DEF RequestsAreInformed
  <2> DEFINE rows == call[c].rows
             Of(type) == {r \in rows : r.type = type}
             Last(limit) == {n \in DOMAIN official :
                                official[n] = "generated" /\ n + limit > Len(official)}
  <2>1. Typed /\ ToldInv(c, call[c]) /\ call[c] \in CallRows
    BY KnownCall DEF XInv, CallInv
  <2>2. /\ Memories(rows) = Memory(official)
        /\ DeltasTo(call[c].position) \subseteq rows
        /\ Deltas(rows) \subseteq DeltasTo(call[c].position)
    BY <2>1 DEF ToldInv, Sent, Told
  <2>3. Deltas(DeltasTo(call[c].position)) = DeltasTo(call[c].position)
    BY <2>1, DeltaFacts, LimitsAssumption DEF CallRows, Reviewing
  <2>4. Of("chapter_summary_delta") = DeltasTo(call[c].position)
    BY <2>2, <2>3 DEF Deltas
  <2>5. {r.id : r \in DeltasTo(call[c].position)} =
            {k \in 1 .. Chapters : Summarizing(k) < call[c].position}
    BY IdsOfRows DEF DeltasTo
  <2>6. Memory(official) = {Row("event_chain", n) : n \in Last(EventLimit)} \cup
                           {Row("chapter_summary", n) : n \in Last(SummaryLimit)}
    BY DEF Memory
  <2>7. /\ Of("event_chain") = {r \in Memories(rows) : r.type = "event_chain"}
        /\ Of("chapter_summary") = {r \in Memories(rows) : r.type = "chapter_summary"}
    BY DEF Memories
  <2> HIDE DEF Last, rows
  <2>8. /\ Of("event_chain") = {Row("event_chain", n) : n \in Last(EventLimit)}
        /\ Of("chapter_summary") = {Row("chapter_summary", n) : n \in Last(SummaryLimit)}
    BY <2>2, <2>6, <2>7, IdsOfRows
  <2> HIDE DEF Of
  <2>9. /\ {r.id : r \in Of("event_chain")} = Last(EventLimit)
        /\ {r.id : r \in Of("chapter_summary")} = Last(SummaryLimit)
    BY <2>8, IdsOfRows
  <2>10. /\ Last(EventLimit) = {n \in DOMAIN official : Recent(n, EventLimit)}
         /\ Last(SummaryLimit) = {n \in DOMAIN official : Recent(n, SummaryLimit)}
    <3>1. EventLimit \in Nat /\ SummaryLimit \in Nat
      BY LimitsAssumption
    <3> QED BY <2>1, <3>1, WindowFacts DEF Last
  <2> QED BY <2>4, <2>5, <2>9, <2>10 DEF Of, rows
<1> QED BY <1>1, IndexInductive, PTL
=============================================================================
