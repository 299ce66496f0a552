CONSTANTS
    Priorities <- MCPriorities
    Labels <- MCLabels
    NoLabel = NoLabel
    MaxConfigs = 3
SPECIFICATION Spec
\* renderStaticConfig draws once; the model stops after it.
CHECK_DEADLOCK FALSE
INVARIANT
    TiesKeepArrivalOrder
