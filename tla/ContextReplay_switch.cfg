CONSTANTS
    ReplayModels = {"gpt", "other"}
    FirstModels = {"gpt"}
    OpenAi = {"gpt"}
    Capable = {"gpt"}
    MaxReplayTurns = 3
    MaxRounds = 1
    MaxUpsets = 2
SPECIFICATION ReplaySpec
INVARIANT RequestIsAccepted
CHECK_DEADLOCK FALSE
