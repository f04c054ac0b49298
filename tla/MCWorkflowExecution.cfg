CONSTANTS
    Calls = {c1, c2}
    Requests = {r1, r2}
    Chapters = 1
    MaxStepAttempts = 2
    MaxDisruptions = 2
    MaxRevision = 20
SPECIFICATION Spec
ACTION_CONSTRAINT LosersFirst
SYMMETRY Alike
INVARIANTS
    TypeOK
    ExclusiveHolder
    Fencing
    OneRunningAttempt
    RunningAttemptIsCurrent
    AttemptHistory
    SequentialProgress
    AuthorGate
    NeverStranded
    OwnedUntilTerminal
    TokenLedger
PROPERTIES
    EveryWriteIsVersioned
    CompletedIsFinal
    LateAnswerChangesNothing
    NoArtifactOnStaleOutline
    TransitionsAllowed
    ImplementsAuthorGates
CHECK_DEADLOCK FALSE
