CONSTANTS
    Calls = {c1}
    Requests = {r1}
    Chapters = 1
    MaxStepAttempts = 2
    MaxDisruptions = 0
    MaxRevision = 0
SPECIFICATION Spec
PROPERTIES
    PlanApprovedOnCurrentOutline
CHECK_DEADLOCK FALSE
