CONSTANTS
    Sessions = {p1, p2}
    Roles = {planner, writer}
    AllocationAttempts = 2
    MaxVersions = 2
    MaxWorkflows = 2
SPECIFICATION Spec
SYMMETRY PromptSymmetry
INVARIANTS
    StartFindsItsPrompts
PROPERTIES
    ActiveIsReplacedKnowingly
CHECK_DEADLOCK FALSE
