CONSTANTS
    MaxPrompts = 2
    MaxHistory = 1
    TurnTimeout = 1
    CancelDrain = 1
    MaxHeadFaults = 1
    Models = {1, 2}
    MaxUiPrompts = 2
    MaxUiEdits = 2
    MaxUiSelects = 1
    MaxUiDialogs = 1
    MaxUiFaults = 1
    MaxUnderWay = 2
    MaxUiEvents = 4
SPECIFICATION ClientsSpec
INVARIANTS DocumentIsTrue EditsOneByOne 
PROPERTY RunEnds
CHECK_DEADLOCK FALSE
