CONSTANTS
    Calls = {c1, c2}
    Chapters = 1
    EventLimit = 1
    SummaryLimit = 1
    MaxOfficial = 0
    MaxConstitutions = 2
    MaxLapses = 1
SPECIFICATION Spec
INVARIANTS
    PacketIsNotOlderThanItsCall
CHECK_DEADLOCK FALSE
