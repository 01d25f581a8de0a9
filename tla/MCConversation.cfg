SPECIFICATION Spec
CONSTANTS
    ToolLists <- MCToolLists
    Messages <- MCMessages
    Additions <- MCAdditions
    Outputs <- MCOutputs
    Inputs <- MCInputs
    Strangers <- MCStrangers
    Ids = {i1, i2}
    MaxAsks = 3
    MaxCalls = 2
    MaxAdded = 1
SYMMETRY Symmetry
CHECK_DEADLOCK FALSE
INVARIANTS HistoryArrives DeliveredAsDeclared OwnHistoryAccepted OfferedDistinct
