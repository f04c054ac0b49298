CONSTANTS
    Calls = {c1, c2}
    Chapters = 2
    MaxRevision = 8
    MaxEdits = 0
    MaxDisruptions = 1
SPECIFICATION FairSpec
PROPERTIES
    CandidateSettles
    DecisionFreesProject
CHECK_DEADLOCK FALSE
