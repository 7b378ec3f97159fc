CONSTANTS
    Writers = {"session", "cli"}
    Caps = {"network"}
    MaxOps = 3
    MaxLosses = 1
    Declared = {"a", "b"}
    Names = {"a", "b", "x"}
    MaxTurns = 2
    MaxCalls = 3
    MaxMessages = 2
    MaxAsks = 2
    MaxSaid = 3
    PipeLines = 1
SPECIFICATION PartsSpec
INVARIANTS DecisionsStick RightAnswerInTurn
PROPERTIES Settles ImplementsLog HostSettles
CHECK_DEADLOCK FALSE
