---------------------------- MODULE ContextIndex ----------------------------
(***************************************************************************)
(* What a request is told: the index of context sources of one project and *)
(* the calls of one workflow that repair it, rebuild it, collect candidate *)
(* items from it and store them as the packet of their request.            *)
(*                                                                         *)
(* A call makes many transactions, reads before each of them in autocommit *)
(* mode, and holds no lock in between; its lease may lapse and another     *)
(* call may take the step.  An exception leaves what a crash leaves: the   *)
(* step claimed until the lease lapses.  But a process crashes now and     *)
(* then, and a request that cannot be built raises at every attempt: the   *)
(* exceptions of _build_request are an action, Raise, without a bound.     *)
(*                                                                         *)
(* Which items of a packet are selected is in ContextBudget, and the       *)
(* statuses of the workflow are in WorkflowExecution.  The outline stays   *)
(* as it is, for a workflow on another one is paused.                      *)
(***************************************************************************)
EXTENDS Naturals, Sequences, FiniteSets

CONSTANTS
    Calls,
    Chapters,               \* requested_chapters
    EventLimit,             \* EVENT_CHAIN_LIMIT
    SummaryLimit,           \* RECENT_SUMMARY_LIMIT
    MaxOfficial,            \* bounds: official chapters before the workflow,
    MaxConstitutions,       \* constitutions approved,
    MaxLapses               \* leases that lapse under a call, and crashes

ASSUME LimitsAssumption ==
    /\ Chapters \in Nat \ {0}
    /\ EventLimit \in Nat /\ SummaryLimit \in 0 .. EventLimit
    /\ MaxOfficial \in Nat /\ MaxConstitutions \in Nat \ {0}

VARIABLES
    constitution,   \* current_constitution_version_id
    official,       \* official chapters: "generated", or by hand or edited
    index,          \* rows of context_sources
    step,           \* the current step: position, claim and attempt
    review,         \* its artifacts: has it asked, and the excerpts it got
    lapses,
    call            \* what each call does and has read

vars == <<constitution, official, index, step, review, lapses, call>>

-----------------------------------------------------------------------------

\* Positions of the steps: 0 is the plan; writing and summarizing alternate.
Writing(k) == 2 * k - 1
Summarizing(k) == 2 * k
Reviewing == 2 * Chapters + 1
IsSummarizing(p) == p \in {Summarizing(k) : k \in 1 .. Chapters}

\* Chapters whose summary is the active artifact of a completed step.
Summarized == {k \in 1 .. Chapters : step.position > Summarizing(k)}

\* A row has the type and the id of its source; an excerpt, of what it quotes.
Row(type, id) == [type |-> type, of |-> "-", id |-> id]
Excerpt(row) == [type |-> "review_evidence_excerpt", of |-> row.type, id |-> row.id]
IsExcerpt(row) == row.type = "review_evidence_excerpt"
Quoted(row) == Row(row.of, row.id)
Delta(k) == Row("chapter_summary_delta", k)

OfficialTypes == {"constitution", "official_chapter", "event_chain",
                  "chapter_summary"}
Official(rows) == {r \in rows : r.type \in OfficialTypes}

\* Fault: the windows are one chapter too short.
ShortMemory(chapters) ==
    LET Last(limit) == {n \in DOMAIN chapters : chapters[n] = "generated"
                                              /\ n + limit > Len(chapters) + 1}
    IN  {Row("event_chain", n) : n \in Last(EventLimit)} \cup
        {Row("chapter_summary", n) : n \in Last(SummaryLimit)}

\* _official_memory_records of the given chapters: the windows count all of
\* them; there is no memory of one that was written by hand or edited.
Memory(chapters) ==
    LET Generated == {n \in DOMAIN chapters : chapters[n] = "generated"}
        Last(limit) == {n \in Generated : n + limit > Len(chapters)}
    IN  {Row("event_chain", n) : n \in Last(EventLimit)} \cup
        {Row("chapter_summary", n) : n \in Last(SummaryLimit)}

\* _official_records, when constitution c is current.
OfficialRecords(c, chapters) ==
    {Row("constitution", c)} \cup Memory(chapters) \cup
    {Row("official_chapter", n) : n \in DOMAIN chapters}

NoCall == [pc |-> "idle", position |-> 0, constitution |-> 0, todo |-> {},
           rows |-> {}]

\* The index is empty, or what a call of an earlier workflow has left.
Init ==
    /\ constitution = 1
    /\ \E n \in 0 .. MaxOfficial :
        official \in [1 .. n -> {"generated", "other"}]
    /\ index \in {{}} \cup {OfficialRecords(1, SubSeq(official, 1, n)) :
                               n \in 0 .. Len(official)}
    /\ step = [position |-> 0, holder |-> {}, running |-> FALSE]
    /\ review = [asked |-> FALSE, evidence |-> {}]
    /\ lapses = 0
    /\ call = [c \in Calls |-> NoCall]

Goes(c, pc) == call' = [call EXCEPT ![c].pc = pc]
Learns(c, new) == call' = [call EXCEPT ![c] = new]

-----------------------------------------------------------------------------
(* The claim, its loss, and the author *)

ClaimStep(c) ==
    /\ call[c] = NoCall
    /\ step.holder = {} /\ step.position <= Reviewing
    /\ step' = [step EXCEPT !.holder = {c}]
    /\ Learns(c, [NoCall EXCEPT !.pc = "repairing", !.position = step.position])
    /\ UNCHANGED <<constitution, official, index, review, lapses>>

\* A call still works under the claim.
ClaimInUse == \E c \in step.holder : call[c] # NoCall

\* The lease lapses; recover_expired_claims.
LoseClaim ==
    /\ step.holder # {}
    /\ IF ClaimInUse THEN lapses < MaxLapses /\ lapses' = lapses + 1
                     ELSE UNCHANGED lapses
    /\ step' = [step EXCEPT !.holder = {}, !.running = FALSE]
    /\ UNCHANGED <<constitution, official, index, review, call>>

Crash(c) ==
    /\ lapses < MaxLapses /\ lapses' = lapses + 1
    /\ call[c] # NoCall
    /\ Learns(c, NoCall)
    /\ UNCHANGED <<constitution, official, index, step, review>>

\* add_constitution, approved.
ApproveConstitution ==
    /\ constitution < MaxConstitutions
    /\ constitution' = constitution + 1
    /\ UNCHANGED <<official, index, step, review, lapses, call>>

-----------------------------------------------------------------------------
(* index_workflow_artifact.  A row that is there already is left as it is, *)
(* or makes the INSERT fail when it appeared after the look at it.         *)

\* _canonical_excerpt_text: what an excerpt quotes must be in the index.
QuotesIndex(rows) == \A r \in rows : IsExcerpt(r) => Quoted(r) \in index

IndexArtifact(c, row) ==
    /\ row \in call[c].todo
    /\ QuotesIndex({row})
    /\ index' = index \cup {row}
    /\ call' = [call EXCEPT ![c].todo = @ \ {row}]
    /\ UNCHANGED <<constitution, official, step, review, lapses>>

-----------------------------------------------------------------------------
(* _build_request *)

\* Fault: only the call that completes a step indexes its artifact.
NothingToRepair(numbers) == {}

\* _ensure_summary_indexes: what a crash after complete_attempt has left out.
MissingDeltas(numbers) == {Delta(k) : k \in numbers} \ index

EnsureSummaryIndexes(c) ==
    /\ call[c].pc = "repairing"
    /\ Learns(c, [call[c] EXCEPT !.pc = "summaries",
                                 !.todo = MissingDeltas(Summarized)])
    /\ UNCHANGED <<constitution, official, index, step, review, lapses>>

\* Artifacts are indexed in their order, each in a session of its own.
IndexSummary(c) ==
    /\ call[c].pc = "summaries"
    /\ \E k \in 1 .. Chapters :
        /\ \A row \in call[c].todo : k <= row.id
        /\ IndexArtifact(c, Delta(k))

EndSummaries(c) ==
    /\ call[c].pc = "summaries" /\ call[c].todo = {}
    /\ Goes(c, IF call[c].position = Reviewing /\ review.asked
               THEN "searching" ELSE "payload")
    /\ UNCHANGED <<constitution, official, index, step, review, lapses>>

\* _ensure_review_evidence: a query that has excerpts is not searched again.
\* Bound: there is one query, and search finds at most one row.
SearchEvidence(c) ==
    /\ call[c].pc \in {"searching", "searching_after"}
    /\ \E found \in IF review.evidence # {} THEN {review.evidence}
                    ELSE {{}} \cup {{Excerpt(r)} : r \in Official(index)} :
        Learns(c, [call[c] EXCEPT
            !.pc = IF @ = "searching" THEN "quoting" ELSE "quoting_after",
            !.todo = found])
    /\ UNCHANGED <<constitution, official, index, step, review, lapses>>

\* The artifacts are added in one transaction.
WriteEvidence(c) ==
    /\ call[c].pc \in {"quoting", "quoting_after"}
    /\ review' = [review EXCEPT !.evidence = @ \cup call[c].todo]
    /\ Goes(c, IF call[c].pc = "quoting" THEN "excerpts" ELSE "excerpts_after")
    /\ UNCHANGED <<constitution, official, index, step, lapses>>

IndexExcerpt(c) ==
    /\ call[c].pc \in {"excerpts", "excerpts_after"}
    /\ \E row \in call[c].todo : IndexArtifact(c, row)

EndExcerpts(c) ==
    /\ call[c].pc \in {"excerpts", "excerpts_after"} /\ call[c].todo = {}
    /\ IF call[c].pc = "excerpts" THEN Goes(c, "payload") ELSE Learns(c, NoCall)
    /\ UNCHANGED <<constitution, official, index, step, review, lapses>>

\* _task_payload: a writer needs every earlier summary.  A summarizer gets its
\* chapter and no packet.
ReadPayload(c) ==
    LET p == call[c].position
    IN  /\ call[c].pc = "payload"
        /\ \A k \in 1 .. Chapters : Summarizing(k) < p => k \in Summarized
        /\ Goes(c, IF IsSummarizing(p) THEN "built" ELSE "rebuilding")
        /\ UNCHANGED <<constitution, official, index, step, review, lapses>>

-----------------------------------------------------------------------------
(* rebuild_official: what should be there is read first, then what is. *)

\* The project's row is read once, and its records from it.
ReadDesired(c) ==
    /\ call[c].pc = "rebuilding"
    /\ Learns(c, [call[c] EXCEPT !.pc = "comparing",
                                 !.constitution = constitution])
    /\ UNCHANGED <<constitution, official, index, step, review, lapses>>

ReadExisting(c) ==
    /\ call[c].pc = "comparing"
    /\ Learns(c, [call[c] EXCEPT !.pc = "writing",
                                 !.rows = Official(index)])
    /\ UNCHANGED <<constitution, official, index, step, review, lapses>>

\* A row that appeared meanwhile breaks the unique constraint.
RebuildClashes(c) ==
    (OfficialRecords(call[c].constitution, official) \ call[c].rows) \cap index # {}

\* The transaction.  A row that is gone already is deleted without effect.
Rebuild(c) ==
    LET desired == OfficialRecords(call[c].constitution, official)
        existing == call[c].rows
    IN  /\ call[c].pc = "writing"
        /\ ~RebuildClashes(c)
        /\ index' = (index \ (existing \ desired)) \cup (desired \ existing)
        /\ Learns(c, [call[c] EXCEPT !.pc = "collecting", !.rows = {}])
        /\ UNCHANGED <<constitution, official, step, review, lapses>>

-----------------------------------------------------------------------------
(* The packet *)

\* candidates_for_step validates every row of the workflow it finds; whole
\* chapters are no candidates.
CollectCandidates(c) ==
    /\ call[c].pc = "collecting"
    /\ QuotesIndex(index)
    /\ Learns(c, [call[c] EXCEPT
           !.pc = "packing",
           !.rows = {r \in index : r.type # "official_chapter"}])
    /\ UNCHANGED <<constitution, official, index, step, review, lapses>>

\* build_packet: every item is still linked to its row.
BuildPacket(c) ==
    /\ call[c].pc = "packing"
    /\ call[c].rows \subseteq index
    /\ Goes(c, "built")
    /\ UNCHANGED <<constitution, official, index, step, review, lapses>>

\* Nothing catches what these steps raise: advance ends, and the step stays
\* claimed, without an attempt.  An excerpt is validated when it is indexed
\* and again when candidates are collected.
Raise(c) ==
    /\ \/ call[c].pc \in {"excerpts", "excerpts_after"} /\ ~QuotesIndex(call[c].todo)
       \/ call[c].pc = "writing" /\ RebuildClashes(c)
       \/ call[c].pc = "collecting" /\ ~QuotesIndex(index)
       \/ call[c].pc = "packing" /\ ~(call[c].rows \subseteq index)
    /\ Learns(c, NoCall)
    /\ UNCHANGED <<constitution, official, index, step, review, lapses>>

-----------------------------------------------------------------------------
(* The attempt *)

\* record_attempt_start, fenced by the claim.
RecordAttemptStart(c) ==
    /\ call[c].pc = "built"
    /\ step.holder = {c} /\ ~step.running
    /\ step' = [step EXCEPT !.running = TRUE]
    /\ Goes(c, "started")
    /\ UNCHANGED <<constitution, official, index, review, lapses>>

\* The step is no longer the call's: record_attempt_start and complete_attempt.
Fenced(c) ==
    /\ call[c].pc \in {"built", "started"}
    /\ step.holder # {c}
    /\ Learns(c, NoCall)
    /\ UNCHANGED <<constitution, official, index, step, review, lapses>>

\* complete_attempt, which finalizes the step.  A summary is indexed next.
\* (The author approves the plan at once: nothing here depends on when.)
CompleteAttempt(c) ==
    LET p == call[c].position
    IN  /\ call[c].pc = "started" /\ step.holder = {c}
        /\ step' = [position |-> p + 1, holder |-> {}, running |-> FALSE]
        /\ Learns(c, IF IsSummarizing(p)
                     THEN [NoCall EXCEPT !.pc = "indexing",
                                         !.todo = {Delta(p \div 2)}]
                     ELSE NoCall)
        /\ UNCHANGED <<constitution, official, index, review, lapses>>

\* A first review that asks for evidence leaves its step to be done again.
\* (Attempts are counted in WorkflowExecution only.)
AskForEvidence(c) ==
    /\ call[c].pc = "started" /\ step.holder = {c}
    /\ call[c].position = Reviewing /\ ~review.asked
    /\ step' = [step EXCEPT !.holder = {}, !.running = FALSE]
    /\ review' = [review EXCEPT !.asked = TRUE]
    /\ Learns(c, [NoCall EXCEPT !.pc = "searching_after"])
    /\ UNCHANGED <<constitution, official, index, lapses>>

\* fail_attempt, with an attempt left or after the author's resumption.
FailAttempt(c) ==
    /\ call[c].pc = "started" /\ step.holder = {c}
    /\ step' = [step EXCEPT !.holder = {}, !.running = FALSE]
    /\ Learns(c, NoCall)
    /\ UNCHANGED <<constitution, official, index, review, lapses>>

\* The end of _save_result_and_advance.
IndexOwnSummary(c) ==
    /\ call[c].pc = "indexing"
    /\ index' = index \cup call[c].todo
    /\ Learns(c, NoCall)
    /\ UNCHANGED <<constitution, official, step, review, lapses>>

-----------------------------------------------------------------------------

Repairs(c) ==
    \/ EnsureSummaryIndexes(c) \/ IndexSummary(c) \/ EndSummaries(c)
    \/ SearchEvidence(c) \/ WriteEvidence(c) \/ IndexExcerpt(c) \/ EndExcerpts(c)

Builds(c) ==
    \/ ReadPayload(c) \/ ReadDesired(c) \/ ReadExisting(c) \/ Rebuild(c)
    \/ CollectCandidates(c) \/ BuildPacket(c) \/ Raise(c)

Attempts(c) ==
    \/ RecordAttemptStart(c) \/ Fenced(c) \/ CompleteAttempt(c)
    \/ AskForEvidence(c) \/ FailAttempt(c) \/ IndexOwnSummary(c)

Next ==
    \/ LoseClaim \/ ApproveConstitution
    \/ \E c \in Calls :
        ClaimStep(c) \/ Crash(c) \/ Repairs(c) \/ Builds(c) \/ Attempts(c)

Spec == Init /\ [][Next]_vars

\* The author keeps pressing Run; a call that does not crash goes on, and may
\* raise each time; the provider answers, and a claim that nobody works under
\* lapses.
Fairness ==
    /\ WF_vars(LoseClaim /\ ~ClaimInUse)
    /\ \A c \in Calls :
          /\ WF_vars(ClaimStep(c))
          /\ WF_vars(Repairs(c) \/ Builds(c))
          /\ WF_vars(Attempts(c))

FairSpec == Spec /\ Fairness

-----------------------------------------------------------------------------
(* Properties *)

\* Types of the rows and of what calls remember.
TypeOK ==
    /\ constitution \in 1 .. MaxConstitutions
    /\ official \in Seq({"generated", "other"})
    /\ step.position \in 0 .. Reviewing + 1 /\ step.running \in BOOLEAN
    /\ step.holder \in {{}} \cup {{c} : c \in Calls}
    /\ \A r \in index \cup review.evidence : r.id \in Nat
    /\ \A c \in Calls : call[c].constitution \in 0 .. MaxConstitutions

\* The attempt of the step that is really made, for it holds the claim.
Sent(c) == /\ call[c].pc = "started" /\ step.holder = {c}
           /\ ~IsSummarizing(call[c].position)

\* An official chapter of the workflow's own making, with fewer than limit
\* official chapters after it.
Recent(n, limit) ==
    /\ n \in DOMAIN official /\ official[n] = "generated"
    /\ Cardinality({m \in DOMAIN official : m > n}) < limit

\* A request that is sent was offered, as candidates of its packet, the
\* summaries of all chapters before its own and of none that comes later,
\* although a summary may be indexed by another call than the one that made
\* it, after a crash, or while the request of a call that has lost its claim
\* is still being built; and of the official chapters it was offered the state
\* of the EventLimit and the summaries of the SummaryLimit last ones, although
\* the index it found was older (orchestrator.py: _ensure_summary_indexes,
\* _build_request, services/context.py: rebuild_official, candidates_for_step).
RequestsAreInformed ==
    \A c \in Calls : Sent(c) =>
        LET Offered(type) == {r.id : r \in {r \in call[c].rows : r.type = type}}
        IN  /\ Offered("chapter_summary_delta") =
                   {k \in 1 .. Chapters : Summarizing(k) < call[c].position}
            /\ Offered("event_chain") = {n \in DOMAIN official : Recent(n, EventLimit)}
            /\ Offered("chapter_summary") =
                   {n \in DOMAIN official : Recent(n, SummaryLimit)}

\* What the design asks for: a stale session may only fail, and the constitution
\* is required in every packet; so a packet has a constitution, and none that
\* is older than the one its call has read for it (services/context.py:
\* rebuild_official).
PacketIsNotOlderThanItsCall ==
    \A c \in Calls :
        call[c].pc = "built" /\ ~IsSummarizing(call[c].position) =>
            LET told == {r.id : r \in {r \in call[c].rows : r.type = "constitution"}}
            IN  told # {} /\ \A k \in told : k >= call[c].constitution

\* A step waits for its attempt.
Awaited == step.position <= Reviewing /\ ~step.running

\* Success criterion 3 of the design of 2026-09-04: a workflow recovers from an
\* interruption at any step, so a step that waits is attempted in the end
\* (orchestrator.py: advance, _ensure_review_evidence).
AnyStepRecovers == Awaited ~> ~Awaited
=============================================================================
