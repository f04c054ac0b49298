CONSTANTS
    Sessions = {s1, s2}
    AllocationAttempts = 3
    MaxVersions = 2
    Sizes = {1, 2}
    MaxConstitutions = 2
    MaxWorkflows = 2
    MaxBatches = 2
SPECIFICATION Spec
SYMMETRY SessionSymmetry
INVARIANTS
    OfficialLineage
    OwnershipAgrees
    ChaptersAreConsecutive
PROPERTIES
    RoundsAreSerial
CHECK_DEADLOCK FALSE
