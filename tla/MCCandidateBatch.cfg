CONSTANTS
    Calls = {c1, c2}
    Chapters = 2
    MaxRevision = 10
    MaxEdits = 1
    MaxDisruptions = 2
SPECIFICATION Spec
SYMMETRY CallSymmetry
INVARIANTS
    TypeOK
    OutcomesAgree
    ProjectHeld
    OfficialTextIsApproved
    SubmittedBatchIsWhole
    WayOut
PROPERTIES
    DecisionsAreFinal
    OfficialTextIsFrozen
    ApprovedOnCurrentOutline
    ChaptersAreCopiedOnce
    ImplementsAuthorGates
CHECK_DEADLOCK FALSE
