CONSTANTS
    Calls = {c1}
    Chapters = 1
    EventLimit = 1
    SummaryLimit = 1
    MaxOfficial = 0
    MaxConstitutions = 2
    MaxLapses = 0
SPECIFICATION FairSpec
PROPERTIES
    AnyStepRecovers
CHECK_DEADLOCK FALSE
