CONSTANTS
    Calls = {c1, c2}
    Requests = {r1}
    Chapters = 1
    MaxStepAttempts = 2
    MaxDisruptions = 1
    MaxRevision = 20
SPECIFICATION FairSpec
PROPERTIES
    Settles
CHECK_DEADLOCK FALSE
