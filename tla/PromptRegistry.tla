--------------------------- MODULE PromptRegistry ---------------------------
(***************************************************************************)
(* PromptService: the versions of the agents' prompts, which of them is    *)
(* active, and the copies a workflow keeps of the active ones.             *)
(*                                                                         *)
(* Several processes create and activate versions and start workflows on   *)
(* one SQLite file.  What they read is read in autocommit mode; seeding    *)
(* the built-in prompts and taking a workflow's snapshots each happen in   *)
(* one write transaction.  The table has a unique index on the role and    *)
(* the version number, and one on the role of the active rows.             *)
(***************************************************************************)
EXTENDS Naturals, Sequences

CONSTANTS
    Sessions,
    Roles,                  \* PROMPT_ROLES
    AllocationAttempts,     \* PROMPT_VERSION_ALLOCATION_ATTEMPTS
    MaxVersions,            \* bounds: versions of a role,
    MaxWorkflows            \* and workflows started, in one behaviour

ASSUME AttemptsAssumption == AllocationAttempts \in Nat \ {0}
ASSUME RegistryAssumption == MaxVersions \in Nat /\ Roles # {}

VARIABLES
    prompt,     \* rows of prompt_versions of each role, as they were inserted
    snapshot,   \* what each workflow copied: the version of each role
    call        \* what each session has read for its call

vars == <<prompt, snapshot, call>>

-----------------------------------------------------------------------------

\* A body stands for its content_hash: the built-in one, or the author's.
Bodies == {"builtin", "authored"}
PromptRows == [number : Nat, body : Bodies, active : BOOLEAN]
Calls == [pc      : {"idle", "creating", "activating", "starting"},
          role    : Roles,
          body    : Bodies,
          number  : Nat,       \* the number it has read
          attempt : Nat,       \* insertions that failed
          target  : Nat,       \* the version to activate
          current : Nat]       \* the active version it has read, or 0

NoCall == [pc |-> "idle", role |-> CHOOSE r \in Roles : TRUE,
           body |-> "builtin", number |-> 0, attempt |-> 0, target |-> 0,
           current |-> 0]
Idle(s) == call[s] = NoCall
CallGoes(s, c) == call' = [call EXCEPT ![s] = c]
CallEnds(s) == CallGoes(s, NoCall)

Versions(r) == DOMAIN prompt[r]
Active(r) == {v \in Versions(r) : prompt[r][v].active}
NoneOrActive(r) == IF Active(r) = {} THEN {0} ELSE Active(r)

\* A migrated database has no prompts.
Init ==
    /\ prompt = [r \in Roles |-> <<>>]
    /\ snapshot = <<>>
    /\ call = [s \in Sessions |-> NoCall]

-----------------------------------------------------------------------------
(* create_version, for the author *)

\* One more than the greatest number of the rows.
NumberAfter(rows) ==
    CHOOSE n \in 1 .. Len(rows) + 1 :
        /\ \A v \in DOMAIN rows : rows[v].number < n
        /\ n = 1 \/ \E v \in DOMAIN rows : rows[v].number = n - 1

Row(body, n) == [number |-> n, body |-> body, active |-> FALSE]

ReadNumber(s) ==
    /\ Idle(s)
    /\ \E r \in Roles, body \in Bodies :
        /\ Len(prompt[r]) < MaxVersions
        /\ CallGoes(s, [call[s] EXCEPT !.pc = "creating", !.role = r,
                                       !.body = body,
                                       !.number = NumberAfter(prompt[r])])
    /\ UNCHANGED <<prompt, snapshot>>

\* UniqueConstraint("role", "version_number")
NumberIsFree(r, n) == \A v \in Versions(r) : prompt[r][v].number # n

InsertVersion(s) ==
    LET r == call[s].role
    IN  /\ call[s].pc = "creating"
        /\ Len(prompt[r]) < MaxVersions
        /\ NumberIsFree(r, call[s].number)
        /\ prompt' = [prompt EXCEPT ![r] =
               Append(@, Row(call[s].body, call[s].number))]
        /\ CallEnds(s)
        /\ UNCHANGED snapshot

\* IntegrityError, or the database stays locked: rolled back and tried again
\* with a new number, or given up after the last attempt.
RetryVersion(s) ==
    /\ call[s].pc = "creating"
    /\ IF call[s].attempt + 1 < AllocationAttempts
       THEN CallGoes(s, [call[s] EXCEPT !.attempt = @ + 1,
                             !.number = NumberAfter(prompt[call[s].role])])
       ELSE CallEnds(s)
    /\ UNCHANGED <<prompt, snapshot>>

-----------------------------------------------------------------------------
(* activate *)

\* A version that is active already is returned as it is.
ReadActive(s) ==
    /\ Idle(s)
    /\ \E r \in Roles : \E v \in Versions(r), current \in NoneOrActive(r) :
        /\ ~prompt[r][v].active
        /\ CallGoes(s, [call[s] EXCEPT !.pc = "activating", !.role = r,
                                       !.target = v, !.current = current])
    /\ UNCHANGED <<prompt, snapshot>>

Marked(rows, v, active) ==
    IF v = 0 THEN rows ELSE [rows EXCEPT ![v].active = active]

\* Fault: a table without the unique index on the active row of a role.
ReadRowIsStillActive(c) ==
    /\ c.current # 0 => prompt[c.role][c.current].active
    /\ ~prompt[c.role][c.target].active

\* The UPDATEs compare the flags of both rows with what was read; with no row
\* to deactivate, the unique index compares.
StillAsRead(c) ==
    /\ c.current \in NoneOrActive(c.role)
    /\ ~prompt[c.role][c.target].active

Activate(s) ==
    LET c == call[s]
    IN  /\ c.pc = "activating"
        /\ StillAsRead(c)
        /\ prompt' = [prompt EXCEPT ![c.role] =
                         Marked(Marked(@, c.current, FALSE), c.target, TRUE)]
        /\ CallEnds(s)
        /\ UNCHANGED snapshot

\* "prompt activation conflict", or an IntegrityError.
RefuseActivation(s) ==
    /\ call[s].pc = "activating"
    /\ ~StillAsRead(call[s])
    /\ CallEnds(s)
    /\ UNCHANGED <<prompt, snapshot>>

-----------------------------------------------------------------------------
(* ensure_builtins and snapshot, as WorkflowService.start calls them *)

Builtins(rows) == {v \in DOMAIN rows : rows[v].body = "builtin"}

WithBuiltin(rows) ==
    IF Builtins(rows) # {} THEN rows
    ELSE Append(rows, Row("builtin", NumberAfter(rows)))

HasActive(rows) == \E v \in DOMAIN rows : rows[v].active

\* Fault: a role whose active version is another one gets the built-in one.
BuiltinIsActive(rows) == \E v \in Builtins(rows) : rows[v].active

\* When the built-in version is left as it is.
LeavesActive(rows) == HasActive(rows)

\* What seeding may make of the rows of a role: of several versions with the
\* built-in body it activates any.
SeededRows(rows) ==
    IF LeavesActive(rows) THEN {WithBuiltin(rows)}
    ELSE LET off == [v \in DOMAIN rows |-> [rows[v] EXCEPT !.active = FALSE]]
             new == WithBuiltin(off)
         IN  {Marked(new, v, TRUE) : v \in Builtins(new)}

\* One transaction, BEGIN IMMEDIATE; busy, it is tried again or gives up.
EnsureBuiltins(s) ==
    /\ Idle(s)
    /\ Len(snapshot) < MaxWorkflows
    /\ prompt' \in [Roles -> UNION {SeededRows(prompt[r]) : r \in Roles}]
    /\ \A r \in Roles : prompt'[r] \in SeededRows(prompt[r])
    /\ CallGoes(s, [call[s] EXCEPT !.pc = "starting"])
    /\ UNCHANGED snapshot

\* In the transaction that takes the project.
TakeSnapshot(s) ==
    /\ call[s].pc = "starting"
    /\ Len(snapshot) < MaxWorkflows
    /\ \E copied \in [Roles -> 1 .. MaxVersions + 1] :
        /\ \A r \in Roles : copied[r] \in Active(r)
        /\ snapshot' = Append(snapshot, copied)
    /\ CallEnds(s)
    /\ UNCHANGED prompt

\* The project was taken meanwhile, or a role has no active version.
RefuseStart(s) ==
    /\ call[s].pc = "starting"
    /\ CallEnds(s)
    /\ UNCHANGED <<prompt, snapshot>>

-----------------------------------------------------------------------------

Step(s) ==
    \/ ReadNumber(s) \/ InsertVersion(s) \/ RetryVersion(s)
    \/ ReadActive(s) \/ Activate(s) \/ RefuseActivation(s)
    \/ EnsureBuiltins(s) \/ TakeSnapshot(s) \/ RefuseStart(s)

Next == \E s \in Sessions : Step(s)

Spec == Init /\ [][Next]_vars

-----------------------------------------------------------------------------
(* Properties *)

\* Types of the rows and of what sessions remember.
TypeOK ==
    /\ prompt \in [Roles -> Seq(PromptRows)]
    /\ snapshot \in Seq([Roles -> Nat])
    /\ call \in [Sessions -> Calls]

\* A role never has two active versions and its versions are numbered
\* 1, 2, 3, ... as they were made; and from the moment a start has seeded the
\* registry until it copies the prompts, every role has an active version,
\* whatever others activate meanwhile: a start never fails for want of a
\* prompt (services/prompts.py: create_version, activate, ensure_builtins).
StartFindsItsPrompts ==
    /\ \A r \in Roles : \A v, w \in Active(r) : v = w
    /\ \A r \in Roles : \A v \in Versions(r) : prompt[r][v].number = v
    /\ \A s \in Sessions :
        call[s].pc = "starting" => \A r \in Roles : Active(r) # {}

\* An active version gives way only to one whose activation was asked for by
\* somebody who had seen it active: not to one that re-seeding prefers, and
\* not to a second activation that was decided at the same time
\* (services/prompts.py: activate, _ensure_builtins_once).
ActiveIsReplacedKnowingly ==
    [][\A r \in Roles : \A v \in Active(r) :
          v \notin Active(r)' =>
              \E s \in Sessions :
                  /\ call[s].pc = "activating" /\ call[s].role = r
                  /\ call[s].current = v
                  /\ Active(r)' = {call[s].target}]_vars
=============================================================================
