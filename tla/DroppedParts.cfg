SPECIFICATION Spec
CONSTANTS
    ToolLists <- MCToolLists
    Messages <- TextMessages
    Additions <- MCAdditions
    Outputs <- ImageOutputs
    Inputs <- MCInputs
    Strangers <- MCStrangers
    Ids = {i1, i2}
    MaxAsks = 3
    MaxCalls = 2
    MaxAdded = 1
SYMMETRY Symmetry
CHECK_DEADLOCK FALSE
INVARIANT HistoryArrives
