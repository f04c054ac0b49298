-------------------------- MODULE OutlineVersions --------------------------
(***************************************************************************)
(* The outline versions of one project: OutlineService.create_candidate    *)
(* and approve, as called by concurrent sessions.  A version is made from  *)
(* the official one (its base) and may replace exactly that one.           *)
(*                                                                         *)
(* Sessions read in autocommit mode, so the base, the next version number  *)
(* and the status of the version to approve are all read before the write  *)
(* transaction; what protects the rows is the unique constraint on         *)
(* (project_id, version_number) and the comparison of the project's        *)
(* pointer with the base.                                                  *)
(***************************************************************************)
EXTENDS Naturals, Sequences

CONSTANTS
    Sessions,
    AllocationAttempts,     \* VERSION_ALLOCATION_ATTEMPTS
    MaxVersions             \* bound: versions made in one behaviour

ASSUME AllocationAssumption == AllocationAttempts \in Nat \ {0}
ASSUME VersionsAssumption == MaxVersions \in Nat

VARIABLES
    version,    \* rows of outline_versions, in the order they were inserted
    official,   \* official_outline_version_id: an index of version, or 0
    revising    \* what each session has read for its request

outlineVars == <<version, official, revising>>

-----------------------------------------------------------------------------

VersionRows == [number : Nat, status : {"candidate", "official", "superseded"},
                base   : Nat]      \* base_version_id: an index, or 0
Revisions == [pc      : {"idle", "numbering", "inserting", "approving"},
              target  : Nat,       \* the version to approve
              base    : Nat,       \* the base it has read
              number  : Nat,       \* the version number it has read
              attempt : Nat]       \* insertions that failed

NoRevision == [pc |-> "idle", target |-> 0, base |-> 0, number |-> 0,
               attempt |-> 0]

OutlineInit ==
    /\ version = <<>>
    /\ official = 0
    /\ revising = [s \in Sessions |-> NoRevision]

RevisionGoes(s, request) == revising' = [revising EXCEPT ![s] = request]

-----------------------------------------------------------------------------
(* create_candidate.  The nodes are valid: _validate_nodes raises before   *)
(* anything is read.                                                       *)

\* session.refresh(project): the base of the version to come.
ReadsBase(s, attempt) ==
    RevisionGoes(s, [NoRevision EXCEPT !.pc = "numbering", !.base = official,
                                       !.attempt = attempt])

ReadBase(s) ==
    /\ revising[s].pc = "idle"
    /\ Len(version) < MaxVersions
    /\ ReadsBase(s, 0)
    /\ UNCHANGED <<version, official>>

\* One more than the greatest number of the project.
NextNumber ==
    CHOOSE n \in 1 .. Len(version) + 1 :
        /\ \A v \in DOMAIN version : version[v].number < n
        /\ n = 1 \/ \E v \in DOMAIN version : version[v].number = n - 1

IsOfficial(v) == v \in DOMAIN version /\ version[v].status = "official"

\* _official_version_for_project raises when the base was replaced meanwhile.
ReadNumber(s) ==
    /\ revising[s].pc = "numbering"
    /\ IF revising[s].base = 0 \/ IsOfficial(revising[s].base)
       THEN RevisionGoes(s, [revising[s] EXCEPT !.pc = "inserting",
                                                !.number = NextNumber])
       ELSE RevisionGoes(s, NoRevision)
    /\ UNCHANGED <<version, official>>

\* The unique constraint of the table.
NumberIsFree(n) == \A v \in DOMAIN version : version[v].number # n

InsertCandidate(s) ==
    /\ revising[s].pc = "inserting"
    /\ Len(version) < MaxVersions
    /\ NumberIsFree(revising[s].number)
    /\ version' = Append(version, [number |-> revising[s].number,
                                   status |-> "candidate",
                                   base   |-> revising[s].base])
    /\ RevisionGoes(s, NoRevision)
    /\ UNCHANGED official

\* IntegrityError: read again, or give up after the last attempt.
RetryNumber(s) ==
    /\ revising[s].pc = "inserting"
    /\ ~NumberIsFree(revising[s].number)
    /\ IF revising[s].attempt + 1 < AllocationAttempts
       THEN ReadsBase(s, revising[s].attempt + 1)
       ELSE RevisionGoes(s, NoRevision)
    /\ UNCHANGED <<version, official>>

-----------------------------------------------------------------------------
(* approve *)

\* approve(version_id) finds the version a candidate and learns its base.
ReadCandidate(s) ==
    /\ revising[s].pc = "idle"
    /\ \E v \in DOMAIN version :
        /\ version[v].status = "candidate"
        /\ RevisionGoes(s, [NoRevision EXCEPT !.pc = "approving",
                                              !.target = v,
                                              !.base = version[v].base])
    /\ UNCHANGED <<version, official>>

\* Fault: the pointer is set without comparing it with the base.
PointerIsAnything(base) == base \in Nat

\* The condition of the UPDATE of novel_projects.
PointerMatches(base) == official = base

\* The base is read inside the transaction and must still be official.
ReplacesBase(base) == base = 0 \/ IsOfficial(base)

ApproveOutline(s) ==
    LET v == revising[s].target
        base == revising[s].base
    IN  /\ revising[s].pc = "approving"
        /\ PointerMatches(base)
        /\ ReplacesBase(base)
        /\ official' = v
        /\ version' = [i \in DOMAIN version |->
                          IF i = v THEN [version[i] EXCEPT !.status = "official"]
                          ELSE IF i = base
                               THEN [version[i] EXCEPT !.status = "superseded"]
                               ELSE version[i]]
        /\ RevisionGoes(s, NoRevision)

\* OutlineApprovalConflict, or the ValueError of _official_version_for_project.
RefuseOutline(s) ==
    /\ revising[s].pc = "approving"
    /\ ~(PointerMatches(revising[s].base) /\ ReplacesBase(revising[s].base))
    /\ RevisionGoes(s, NoRevision)
    /\ UNCHANGED <<version, official>>

OutlineStep(s) ==
    \/ ReadBase(s) \/ ReadNumber(s) \/ InsertCandidate(s) \/ RetryNumber(s)
    \/ ReadCandidate(s) \/ ApproveOutline(s) \/ RefuseOutline(s)

OutlineNext == \E s \in Sessions : OutlineStep(s)

OutlineSpec == OutlineInit /\ [][OutlineNext]_outlineVars

-----------------------------------------------------------------------------
(* Properties *)

\* Types of the rows and of what sessions remember.
OutlineTypeOK ==
    /\ version \in Seq(VersionRows)
    /\ official \in 0 .. Len(version)
    /\ revising \in [Sessions -> Revisions]

\* The project has one line of official outlines.  The pointer names the one
\* version whose status is official, a superseded version was replaced by
\* exactly one other, and every version that is or was official descends from
\* one that was, so that no approval is lost and none is undone, whatever
\* sessions read before their transactions (services/outlines.py: approve).
OfficialLineage ==
    LET Approved == {v \in DOMAIN version : version[v].status # "candidate"}
    IN  /\ \A v \in DOMAIN version : IsOfficial(v) <=> v = official
        /\ \A v \in Approved :
               version[v].base # 0 =>
                   version[version[v].base].status = "superseded"
        /\ \A v, w \in Approved : version[v].base = version[w].base => v = w

\* Versions are numbered 1, 2, 3, ... in the order they were made, although
\* the number is read before the row is inserted.
NumbersFollowInsertion ==
    \A v \in DOMAIN version : version[v].number = v
=============================================================================
