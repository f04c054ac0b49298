CONSTANTS
    Items = {1, 2, 3}
    Layers = {2, 3}
    Relevances = {0, 1}
    Distances = {0}
    Costs = {1, 2}
    Weights = {2, 3}
    Inputs = {6}
    Windows = {2, 3, 7, 12}
    Outputs = {1}
    Overheads = {1, 2}
    Safety = 1
SPECIFICATION Spec
INVARIANTS
    SentRequestFits
    OnlyTheLeastIsLeftOut
CHECK_DEADLOCK FALSE
