CONSTANTS
    MaxEvents = 4
    MaxPending = 2
    MaxTears = 2
    MultiByte = FALSE
    ReplayModels = {"gpt", "mini"}
    FirstModels = {"gpt"}
    OpenAi = {"gpt", "mini"}
    Capable = {"gpt", "mini"}
    MaxReplayTurns = 3
    MaxRounds = 1
    MaxUpsets = 2
SPECIFICATION LogSpec
INVARIANTS LogSurvives RequestIsWhole ReplayIsBacked
CHECK_DEADLOCK FALSE
