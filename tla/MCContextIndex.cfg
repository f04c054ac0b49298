CONSTANTS
    Calls = {c1, c2}
    Chapters = 2
    EventLimit = 2
    SummaryLimit = 1
    MaxOfficial = 3
    MaxConstitutions = 2
    MaxLapses = 2
SPECIFICATION Spec
SYMMETRY CallSymmetry
INVARIANTS
    RequestsAreInformed
CHECK_DEADLOCK FALSE
